---- MODULE MCReminders ----
EXTENDS Reminders, TLC

OneCustom == {[rules |-> {"elapsed_1"}, summary |-> TRUE]}
Symmetry  == Permutations(OpIds) \cup Permutations(Zones)
====
