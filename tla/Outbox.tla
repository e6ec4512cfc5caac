------------------------------- MODULE Outbox -------------------------------
(***************************************************************************)
(* What the write queue of a device promises of the changes it stores:     *)
(* each runs at most once, in the order they were made, and leaves the     *)
(* storage only when it has run or was given up (docs/background/offline-  *)
(* editing-details.md, "Sending waiting changes").                         *)
(***************************************************************************)
EXTENDS SequencesExt, SequenceFilter

CONSTANT Changes

VARIABLES waiting,  \* stored, in the order they were made
          ran,      \* the changes the server ran, in its order
          givenUp   \* discarded by the user, or refused by the server

Init == waiting = <<>> /\ ran = <<>> /\ givenUp = {}

Store(c) ==
    /\ c \notin ToSet(waiting) \cup ToSet(ran)
    /\ waiting' = Append(waiting, c)
    /\ UNCHANGED <<ran, givenUp>>

\* Only the oldest change may run.  One that was given up may still have a
\* request under way.
Run(c) ==
    /\ c \notin ToSet(ran)
    /\ c \in givenUp \/ (waiting # <<>> /\ c = Head(waiting))
    /\ ran' = Append(ran, c)
    /\ UNCHANGED <<waiting, givenUp>>

GiveUp(c) ==
    /\ givenUp' = givenUp \cup {c}
    /\ UNCHANGED <<waiting, ran>>

Leave(c) ==
    /\ c \in ToSet(ran) \cup givenUp
    /\ waiting' = Picked(waiting, {k \in DOMAIN waiting : waiting[k] # c})
    /\ UNCHANGED <<ran, givenUp>>

Next == \E c \in Changes : Store(c) \/ Run(c) \/ GiveUp(c) \/ Leave(c)

Spec == Init /\ [][Next]_<<waiting, ran, givenUp>>
=============================================================================
