------------------------ MODULE SequenceFilterProofs ------------------------
(* What filtering, extending and joining sequences keeps. *)
EXTENDS SequenceFilter, SequencesExt, FiniteSetTheorems, FunctionTheorems, SequenceTheorems, TLAPS

\* The places of a sequence are finitely many.
LEMMA PlacesAreFinite ==
    ASSUME NEW n \in Nat, NEW places \in SUBSET (1..n)
    PROVE  /\ IsFiniteSet(places)
           /\ Cardinality(places) \in Nat
           /\ \A i \in places : Rank(places, i) \in 1..Cardinality(places)
  <1>1. IsFiniteSet(places)
    <2>1. IsFiniteSet(1..n)
      BY FS_Interval
    <2>. QED  BY <2>1, FS_Subset
  <1>2. Cardinality(places) \in Nat
    BY <1>1, FS_CardinalityType
  <1>3. ASSUME NEW i \in places
        PROVE  Rank(places, i) \in 1..Cardinality(places)
    <2>. DEFINE S == {j \in places : j <= i}
    <2>1. IsFiniteSet(S) /\ Cardinality(S) <= Cardinality(places)
      BY <1>1, FS_Subset
    <2>2. i \in S
      OBVIOUS
    <2>3. Cardinality(S) \in Nat /\ Cardinality(S) # 0
      BY <2>1, <2>2, FS_CardinalityType, FS_EmptySet
    <2>. QED  BY <1>2, <2>1, <2>3 DEF Rank
  <1>. QED  BY <1>1, <1>2, <1>3

\* A later place has a higher rank.
LEMMA RankGrows ==
    ASSUME NEW n \in Nat, NEW places \in SUBSET (1..n),
           NEW i \in places, NEW j \in places, i < j
    PROVE  Rank(places, i) < Rank(places, j)
  <1>. DEFINE S == {p \in places : p <= i}
              T == {p \in places : p <= j}
  <1>1. IsFiniteSet(places)
    BY PlacesAreFinite
  <1>2. S \in SUBSET T /\ j \in T /\ j \notin S /\ T \in SUBSET places
    <2>1. i \in Int /\ j \in Int /\ (\A p \in places : p \in Int) /\ i < j
      OBVIOUS
    <2>2. \A p \in S : p \in T
      BY <2>1
    <2>3. j \in T /\ j \notin S
      BY <2>1
    <2>4. T \in SUBSET places
      OBVIOUS
    <2>. HIDE DEF S, T
    <2>. QED  BY <2>2, <2>3, <2>4
  <1>3. IsFiniteSet(T) /\ IsFiniteSet(S)
    BY <1>1, <1>2, FS_Subset
  <1>. HIDE DEF S, T
  <1>4. Cardinality(S) <= Cardinality(T) /\ Cardinality(S) # Cardinality(T)
    BY <1>2, <1>3, FS_Subset
  <1>5. Cardinality(S) \in Nat /\ Cardinality(T) \in Nat
    BY <1>3, FS_CardinalityType
  <1>. QED  BY <1>4, <1>5 DEF Rank, S, T

\* Every rank is that of one place.
LEMMA NthIsPlace ==
    ASSUME NEW n \in Nat, NEW places \in SUBSET (1..n)
    PROVE  /\ \A k \in 1..Cardinality(places) :
                 Nth(places, k) \in places /\ Rank(places, Nth(places, k)) = k
           /\ \A i \in places : Nth(places, Rank(places, i)) = i
  <1>. DEFINE m == Cardinality(places)
              f == [i \in places |-> Rank(places, i)]
  <1>1. IsFiniteSet(places) /\ m \in Nat /\ \A i \in places : Rank(places, i) \in 1..m
    BY PlacesAreFinite
  <1>2. \A i, j \in places : Rank(places, i) = Rank(places, j) => i = j
    <2>. SUFFICES ASSUME NEW i \in places, NEW j \in places, i # j
                  PROVE  Rank(places, i) # Rank(places, j)
      OBVIOUS
    <2>1. i < j \/ j < i
      OBVIOUS
    <2>2. Rank(places, i) \in Int /\ Rank(places, j) \in Int
      BY <1>1
    <2>3. CASE i < j
      <3>1. Rank(places, i) < Rank(places, j)
        BY <2>3, RankGrows
      <3>. QED  BY <2>2, <3>1
    <2>4. CASE j < i
      <3>1. Rank(places, j) < Rank(places, i)
        BY <2>4, RankGrows
      <3>. QED  BY <2>2, <3>1
    <2>. QED  BY <2>1, <2>3, <2>4
  <1>3. f \in Injection(places, 1..m)
    <2>1. f \in [places -> 1..m]
      BY <1>1
    <2>2. \A i, j \in places : f[i] = f[j] => i = j
      BY <1>2
    <2>. HIDE DEF f
    <2>3. DOMAIN f = places
      BY <2>1
    <2>4. IsInjective(f)
      BY <2>2, <2>3 DEF IsInjective
    <2>5. Injection(places, 1..m) = {g \in [places -> 1..m] : IsInjective(g)}
      BY DEF Injection
    <2>. HIDE DEF m
    <2>. QED  BY <2>1, <2>4, <2>5
  <1>4. IsFiniteSet(1..m) /\ Cardinality(1..m) = m
    BY <1>1, FS_Interval
  <1>5. f \in Surjection(places, 1..m)
    <2>. HIDE DEF f
    <2>. QED  BY <1>1, <1>3, <1>4, FS_Injection
  <1>6. \A k \in 1..m : \E i \in places : Rank(places, i) = k
    <2>1. \A k \in 1..m : \E i \in places : f[i] = k
      <3>. HIDE DEF f
      <3>. QED  BY <1>5 DEF Surjection
    <2>. QED  BY <2>1
  <1>. QED  BY <1>1, <1>2, <1>6 DEF Nth

\* Which places of the sequence the filtered one shows, in which order.
LEMMA NthGrows ==
    ASSUME NEW n \in Nat, NEW places \in SUBSET (1..n),
           NEW j \in 1..Cardinality(places), NEW k \in 1..Cardinality(places), j < k
    PROVE  Nth(places, j) < Nth(places, k)
  <1>1. /\ Nth(places, j) \in places /\ Rank(places, Nth(places, j)) = j
        /\ Nth(places, k) \in places /\ Rank(places, Nth(places, k)) = k
    BY NthIsPlace
  <1>2. CASE Nth(places, k) < Nth(places, j)
    <2>1. Rank(places, Nth(places, k)) < Rank(places, Nth(places, j))
      BY <1>1, <1>2, RankGrows
    <2>2. Cardinality(places) \in Nat
      BY PlacesAreFinite
    <2>. QED  BY <1>1, <2>1, <2>2
  <1>3. CASE Nth(places, k) = Nth(places, j)
    <2>1. j = k
      BY <1>1, <1>3
    <2>2. j \in Int /\ j < k
      OBVIOUS
    <2>. QED  BY <2>1, <2>2
  <1>4. Nth(places, k) \in Int /\ Nth(places, j) \in Int
    <2>1. \A i \in places : i \in Int
      OBVIOUS
    <2>. QED  BY <1>1, <2>1
  <1>. QED  BY <1>2, <1>3, <1>4

\* The elements that stay are those at the places, in their order, each once.
LEMMA PickedElements ==
    ASSUME NEW A, NEW q \in Seq(A), NEW places \in SUBSET DOMAIN q
    PROVE  /\ Picked(q, places) \in Seq(A)
           /\ Len(Picked(q, places)) = Cardinality(places)
           /\ \A k \in 1..Len(Picked(q, places)) :
                 Nth(places, k) \in places /\ Picked(q, places)[k] = q[Nth(places, k)]
           /\ \A i \in places :
                 /\ Rank(places, i) \in 1..Len(Picked(q, places))
                 /\ Picked(q, places)[Rank(places, i)] = q[i]
  <1>. DEFINE p == Picked(q, places)
              m == Cardinality(places)
  <1>1. Len(q) \in Nat /\ DOMAIN q = 1..Len(q) /\ places \in SUBSET (1..Len(q))
    OBVIOUS
  <1>2. /\ m \in Nat
        /\ \A i \in places : Rank(places, i) \in 1..m
    BY <1>1, PlacesAreFinite
  <1>3. /\ \A k \in 1..m : Nth(places, k) \in places
        /\ \A i \in places : Nth(places, Rank(places, i)) = i
    BY <1>1, NthIsPlace
  <1>4. \A k \in 1..m : q[Nth(places, k)] \in A
    BY <1>3
  <1>5. p = [k \in 1..m |-> q[Nth(places, k)]]
    BY DEF Picked
  <1>. HIDE DEF p, m
  <1>6. p \in Seq(A) /\ Len(p) = m
    BY <1>2, <1>4, <1>5
  <1>. QED  BY <1>2, <1>3, <1>5, <1>6 DEF p, m

\* What is first and stays is first.
LEMMA PickedKeepsTheHead ==
    ASSUME NEW A, NEW q \in Seq(A), NEW places \in SUBSET DOMAIN q, 1 \in places
    PROVE  Picked(q, places) # <<>> /\ Head(Picked(q, places)) = Head(q)
  <1>. DEFINE p == Picked(q, places)
              S == {j \in places : j <= 1}
  <1>1. S = {1}
    OBVIOUS
  <1>2. Rank(places, 1) = 1
    BY <1>1, FS_Singleton DEF Rank
  <1>3. 1 \in 1..Len(p) /\ p[1] = q[1] /\ p \in Seq(A)
    BY <1>2, PickedElements
  <1>4. q # <<>>
    OBVIOUS
  <1>. HIDE DEF p
  <1>5. p # <<>> /\ Head(p) = p[1] /\ Head(q) = q[1]
    BY <1>3, <1>4
  <1>. QED  BY <1>3, <1>5 DEF p

\* Filtering nothing out leaves the sequence.
LEMMA PickedAll ==
    ASSUME NEW A, NEW q \in Seq(A)
    PROVE  Picked(q, DOMAIN q) = q
  <1>1. Len(q) \in Nat /\ DOMAIN q = 1..Len(q)
    OBVIOUS
  <1>2. \A i \in 1..Len(q) : Rank(1..Len(q), i) = i
    <2>. SUFFICES ASSUME NEW i \in 1..Len(q)
                  PROVE  Rank(1..Len(q), i) = i
      OBVIOUS
    <2>1. {j \in 1..Len(q) : j <= i} = 1..i
      BY <1>1
    <2>2. Cardinality(1..i) = i
      BY FS_Interval
    <2>. QED  BY <2>1, <2>2 DEF Rank
  <1>3. Cardinality(1..Len(q)) = Len(q)
    BY <1>1, FS_Interval
  <1>4. \A i \in 1..Len(q) : Nth(1..Len(q), i) = i
    BY <1>1, <1>2, NthIsPlace
  <1>. QED  BY <1>1, <1>3, <1>4 DEF Picked

\* Where an element stands.
Slots(q, e) == {n \in DOMAIN q : q[n] = e}

\* How often an element is left: as often as it stood at the places.
LEMMA PickedCount ==
    ASSUME NEW A, NEW q \in Seq(A), NEW places \in SUBSET DOMAIN q, NEW e
    PROVE  /\ IsFiniteSet(Slots(Picked(q, places), e))
           /\ Cardinality(Slots(Picked(q, places), e)) = Cardinality(Slots(q, e) \cap places)
  <1>. DEFINE p == Picked(q, places)
              S == Slots(q, e) \cap places
              T == Slots(p, e)
              f == [i \in S |-> Rank(places, i)]
  <1>1. Len(q) \in Nat /\ DOMAIN q = 1..Len(q) /\ places \in SUBSET (1..Len(q))
    OBVIOUS
  <1>2. /\ p \in Seq(A) /\ DOMAIN p = 1..Len(p) /\ Len(p) = Cardinality(places)
        /\ \A k \in 1..Len(p) : Nth(places, k) \in places /\ p[k] = q[Nth(places, k)]
        /\ \A i \in places : Rank(places, i) \in 1..Len(p) /\ p[Rank(places, i)] = q[i]
    BY PickedElements
  <1>3. /\ \A k \in 1..Len(p) : Rank(places, Nth(places, k)) = k
        /\ \A i \in places : Nth(places, Rank(places, i)) = i
    BY <1>1, <1>2, NthIsPlace
  <1>4. IsFiniteSet(S)
    <2>1. IsFiniteSet(places)
      BY <1>1, PlacesAreFinite
    <2>. QED  BY <2>1, FS_Subset
  <1>. HIDE DEF p
  <1>5. f \in [S -> T]
    <2>1. \A i \in S : Rank(places, i) \in T
      BY <1>2 DEF Slots
    <2>. QED  BY <2>1
  <1>6. \A i, j \in S : f[i] = f[j] => i = j
    BY <1>3
  <1>7. \A k \in T : \E i \in S : f[i] = k
    <2>. SUFFICES ASSUME NEW k \in T
                  PROVE  \E i \in S : f[i] = k
      OBVIOUS
    <2>1. k \in 1..Len(p) /\ p[k] = e
      BY <1>2 DEF Slots
    <2>2. Nth(places, k) \in S
      <3>1. Nth(places, k) \in places /\ q[Nth(places, k)] = e
        BY <1>2, <2>1
      <3>. QED  BY <3>1 DEF Slots
    <2>. QED  BY <1>3, <2>1, <2>2
  <1>. HIDE DEF f, S, T
  <1>8. f \in Bijection(S, T)
    <2>1. IsInjective(f)
      BY <1>5, <1>6 DEF IsInjective
    <2>2. f \in Injection(S, T) /\ f \in Surjection(S, T)
      BY <1>5, <1>7, <2>1 DEF Injection, Surjection
    <2>. QED  BY <2>2 DEF Bijection
  <1>9. ExistsBijection(S, T)
    BY <1>8 DEF ExistsBijection
  <1>. QED  BY <1>4, <1>9, FS_Bijection DEF S, T, p

-----------------------------------------------------------------------------
\* Time stamps as a bucket holds them: in the order they came, up to the time t.
UpTo(s, t) ==
    /\ s \in Seq(Nat)
    /\ \A n \in 1..Len(s) : s[n] <= t
    /\ \A m, n \in 1..Len(s) : m <= n => s[m] <= s[n]

NoRepeat(s) == \A m, n \in 1..Len(s) : m # n => s[m] # s[n]

\* There are no more places than the sequence has.
LEMMA PlacesAreFew ==
    ASSUME NEW n \in Nat, NEW places \in SUBSET (1..n)
    PROVE  Cardinality(places) <= n
<1>1. IsFiniteSet(1..n)
  BY FS_Interval
<1>2. Cardinality(1..n) = n
  BY FS_Interval
<1>3. Cardinality(places) <= Cardinality(1..n)
  BY <1>1, FS_Subset
<1> QED BY <1>2, <1>3

\* Picking keeps the order of time stamps.
LEMMA PickedUpTo ==
    ASSUME NEW t \in Nat, NEW s, UpTo(s, t), NEW places \in SUBSET DOMAIN s
    PROVE  UpTo(Picked(s, places), t) /\ Len(Picked(s, places)) <= Len(s)
<1> DEFINE p == Picked(s, places)
<1>0. s \in Seq(Nat) /\ Len(s) \in Nat /\ DOMAIN s = 1..Len(s)
  BY DEF UpTo
<1>1. /\ p \in Seq(Nat) /\ Len(p) = Cardinality(places)
      /\ \A k \in 1..Len(p) : Nth(places, k) \in places /\ p[k] = s[Nth(places, k)]
  BY <1>0, PickedElements
<1>2. Cardinality(places) <= Len(s)
  <2>1. places \in SUBSET (1..Len(s))
    BY <1>0
  <2> QED BY <1>0, <2>1, PlacesAreFew
<1>3. ASSUME NEW m \in 1..Len(p), NEW n \in 1..Len(p), m <= n
      PROVE  p[m] <= p[n]
  <2>1. CASE m = n
    BY <1>1, <2>1
  <2>2. CASE m < n
    <3>1. Nth(places, m) < Nth(places, n)
      BY <1>0, <1>1, <2>2, NthGrows
    <3>2. Nth(places, m) \in 1..Len(s) /\ Nth(places, n) \in 1..Len(s)
      BY <1>0, <1>1
    <3> QED BY <1>1, <3>1, <3>2 DEF UpTo
  <2> QED BY <1>3, <2>1, <2>2
<1>4. ASSUME NEW n \in 1..Len(p)
      PROVE  p[n] <= t
  BY <1>0, <1>1 DEF UpTo
<1> HIDE DEF p
<1>5. UpTo(p, t)
  BY <1>1, <1>3, <1>4 DEF UpTo
<1> QED BY <1>1, <1>2, <1>5 DEF p

\* Picking repeats nothing that was not repeated.
LEMMA PickedNoRepeat ==
    ASSUME NEW A, NEW s \in Seq(A), NoRepeat(s), NEW places \in SUBSET DOMAIN s
    PROVE  NoRepeat(Picked(s, places))
<1> DEFINE p == Picked(s, places)
<1>0. Len(s) \in Nat /\ DOMAIN s = 1..Len(s)
  OBVIOUS
<1>1. /\ p \in Seq(A) /\ Len(p) = Cardinality(places)
      /\ \A k \in 1..Len(p) : Nth(places, k) \in places /\ p[k] = s[Nth(places, k)]
  BY PickedElements
<1>2. ASSUME NEW m \in 1..Len(p), NEW n \in 1..Len(p), m < n
      PROVE  p[m] # p[n]
  <2>1. Nth(places, m) < Nth(places, n)
    BY <1>0, <1>1, <1>2, NthGrows
  <2>2. Nth(places, m) \in 1..Len(s) /\ Nth(places, n) \in 1..Len(s)
    BY <1>0, <1>1
  <2>3. s[Nth(places, m)] # s[Nth(places, n)]
    BY <2>1, <2>2 DEF NoRepeat
  <2> QED BY <1>1, <2>3
<1> HIDE DEF p
<1>3. Len(p) \in Nat
  BY <1>1
<1>4. NoRepeat(p)
  BY <1>2, <1>3 DEF NoRepeat
<1> QED BY <1>4 DEF p

\* An element stands at finitely many places.
LEMMA SlotsAreFinite ==
    ASSUME NEW s \in Seq(Nat), NEW e
    PROVE  IsFiniteSet(Slots(s, e)) /\ Cardinality(Slots(s, e)) \in Nat
<1>1. Slots(s, e) \in SUBSET (1..Len(s)) /\ Len(s) \in Nat
  BY DEF Slots
<1> QED BY <1>1, PlacesAreFinite

\* A stamp of now is appended: it is the last, and stands once more.
LEMMA AppendIs ==
    ASSUME NEW t \in Nat, NEW s, UpTo(s, t)
    PROVE  /\ UpTo(Append(s, t), t)
           /\ Len(Append(s, t)) = Len(s) + 1
           /\ \A e : Cardinality(Slots(Append(s, t), e))
                       = IF e = t THEN Cardinality(Slots(s, e)) + 1 ELSE Cardinality(Slots(s, e))
<1> DEFINE a == Append(s, t)
<1>1. s \in Seq(Nat) /\ Len(s) \in Nat
  BY DEF UpTo
<1>2. /\ a \in Seq(Nat) /\ Len(a) = Len(s) + 1 /\ a[Len(s) + 1] = t
      /\ \A n \in 1..Len(s) : a[n] = s[n]
      /\ DOMAIN a = 1..(Len(s) + 1) /\ DOMAIN s = 1..Len(s)
  BY <1>1
<1> HIDE DEF a
<1>3. UpTo(a, t)
  <2>1. \A n \in 1..Len(a) : a[n] <= t /\ a[n] \in Nat
    BY <1>1, <1>2 DEF UpTo
  <2>2. ASSUME NEW m \in 1..Len(a), NEW n \in 1..Len(a), m <= n
        PROVE  a[m] <= a[n]
    <3>1. CASE n = Len(s) + 1
      BY <1>2, <2>1, <3>1
    <3>2. CASE n \in 1..Len(s)
      <4>1. PICK l \in Nat : l = Len(s)
        BY <1>1
      <4>2. m \in 1..l
        BY <1>2, <2>2, <3>2, <4>1
      <4>3. s[m] <= s[n]
        BY <2>2, <3>2, <4>1, <4>2 DEF UpTo
      <4> QED BY <1>2, <3>2, <4>1, <4>2, <4>3
    <3>3. n = Len(s) + 1 \/ n \in 1..Len(s)
      <4>1. PICK l \in Nat : l = Len(s) /\ n \in 1..(l + 1)
        BY <1>1, <1>2
      <4>2. n = l + 1 \/ n \in 1..l
        BY <4>1
      <4> QED BY <4>1, <4>2
    <3> QED BY <3>1, <3>2, <3>3
  <2> QED BY <1>2, <2>1, <2>2 DEF UpTo
<1>4. ASSUME NEW e, e # t
      PROVE  Slots(a, e) = Slots(s, e)
  BY <1>1, <1>2, <1>4 DEF Slots
<1>5. Slots(a, t) = Slots(s, t) \cup {Len(s) + 1} /\ Len(s) + 1 \notin Slots(s, t)
  BY <1>1, <1>2 DEF Slots
<1>6. Cardinality(Slots(a, t)) = Cardinality(Slots(s, t)) + 1
  BY <1>1, <1>5, SlotsAreFinite, FS_AddElement
<1> QED BY <1>2, <1>3, <1>4, <1>6 DEF a

\* The first of some places.
LEMMA LeastPlace ==
    ASSUME NEW n \in Nat, NEW places \in SUBSET (1..n), places # {}
    PROVE  \E i \in places : \A j \in places : i <= j
<1> DEFINE m == Cardinality(places)
<1> HIDE DEF m
<1>1. \A i \in places : Rank(places, i) \in 1..m /\ Nth(places, Rank(places, i)) = i
  BY PlacesAreFinite, NthIsPlace DEF m
<1>0. m \in Nat
  BY PlacesAreFinite DEF m
<1>2. 1 \in 1..m
  <2>1. PICK i \in places : TRUE
    OBVIOUS
  <2>2. Rank(places, i) \in 1..m
    BY <1>1
  <2> QED BY <1>0, <2>2
<1>3. Nth(places, 1) \in places /\ Nth(places, 1) \in Int
  <2>1. \A k \in 1..m : Nth(places, k) \in places
    BY NthIsPlace DEF m
  <2>2. Nth(places, 1) \in places
    BY <1>2, <2>1
  <2>3. \A i \in places : i \in Int
    OBVIOUS
  <2> QED BY <2>2, <2>3
<1>4. ASSUME NEW j \in places
      PROVE  Nth(places, 1) <= j
  <2>1. CASE Rank(places, j) = 1
    BY <1>1, <1>4, <2>1
  <2>2. CASE Rank(places, j) # 1
    <3>1. PICK k \in 1..m : k = Rank(places, j)
      BY <1>1
    <3>2. 1 < k
      BY <1>0, <2>2, <3>1
    <3>3. Nth(places, 1) < Nth(places, k)
      BY <1>2, <3>2, NthGrows DEF m
    <3> QED BY <1>1, <1>3, <1>4, <3>1, <3>3
  <2> QED BY <2>1, <2>2
<1> QED BY <1>3, <1>4

\* What is removed first is one of the places of the element, if it has any.
LEMMA RemoveFirstIs ==
    ASSUME NEW s \in Seq(Nat), NEW e
    PROVE  \/ Slots(s, e) = {} /\ RemoveFirst(s, e) = s
           \/ \E i \in Slots(s, e) : RemoveFirst(s, e) = SubSeq(s, 1, i-1) \o SubSeq(s, i+1, Len(s))
<1>1. CASE Slots(s, e) = {}
  <2>1. ~\E i \in 1..Len(s) : s[i] = e
    BY <1>1 DEF Slots
  <2> QED BY <1>1, <2>1 DEF RemoveFirst
<1>2. CASE Slots(s, e) # {}
  <2>0. /\ Slots(s, e) = {i \in 1..Len(s) : s[i] = e} 
        /\ \E i \in 1..Len(s) : s[i] = e
    BY <1>2 DEF Slots
  <2>1. PICK m \in Slots(s, e) : \A n \in Slots(s, e) : m <= n
    <3>1. Slots(s, e) \in SUBSET (1..Len(s)) /\ Len(s) \in Nat
      BY DEF Slots
    <3> QED BY <1>2, <3>1, LeastPlace
  <2>2. Min(Slots(s, e)) \in Slots(s, e)
    <3>1. \E x \in Slots(s, e) : \A y \in Slots(s, e) : x =< y
      BY <2>1
    <3> QED BY <3>1, Zenon DEF Min
  <2>3. SelectInSeq(s, LAMBDA v : v = e) = Min(Slots(s, e))
    BY <1>2, <2>0 DEF SelectInSeq
  <2>4. RemoveFirst(s, e) = RemoveAt(s, SelectInSeq(s, LAMBDA v : v = e))
    BY <2>0 DEF RemoveFirst
  <2> QED BY <2>2, <2>3, <2>4 DEF RemoveAt
<1> QED BY <1>1, <1>2

\* Removing an element takes one of its places and leaves all others.
LEMMA RemoveOne ==
    ASSUME NEW t \in Nat, NEW s, UpTo(s, t), NEW e
    PROVE  /\ UpTo(RemoveFirst(s, e), t)
           /\ Len(RemoveFirst(s, e)) <= Len(s)
           /\ \A x : Cardinality(Slots(RemoveFirst(s, e), x))
                       = IF x = e /\ Slots(s, e) # {} THEN Cardinality(Slots(s, e)) - 1
                         ELSE Cardinality(Slots(s, x))
<1>1. s \in Seq(Nat) /\ Len(s) \in Nat /\ DOMAIN s = 1..Len(s)
  BY DEF UpTo
<1>2. CASE Slots(s, e) = {} /\ RemoveFirst(s, e) = s
  BY <1>1, <1>2
<1>3. ASSUME NEW i \in Slots(s, e),
             RemoveFirst(s, e) = SubSeq(s, 1, i-1) \o SubSeq(s, i+1, Len(s))
      PROVE  /\ UpTo(RemoveFirst(s, e), t)
             /\ Len(RemoveFirst(s, e)) <= Len(s)
             /\ \A x : Cardinality(Slots(RemoveFirst(s, e), x))
                         = IF x = e /\ Slots(s, e) # {} THEN Cardinality(Slots(s, e)) - 1
                           ELSE Cardinality(Slots(s, x))
  <2> DEFINE r == RemoveFirst(s, e)
             from(j) == IF j < i THEN j ELSE j + 1
  <2>1. i \in 1..Len(s) /\ s[i] = e
    BY <1>1 DEF Slots
  <2>2. /\ r \in Seq(Nat) /\ Len(r) = Len(s) - 1
        /\ \A j \in 1..Len(r) : r[j] = s[from(j)]
    <3>1. PICK a, b : a = SubSeq(s, 1, i-1) /\ b = SubSeq(s, i+1, Len(s)) /\ r = a \o b
      BY <1>3
    <3>2. a \in Seq(Nat) /\ Len(a) = i - 1 /\ \A j \in 1..(i-1) : a[j] = s[j]
      <4>1. \A n \in 1..(i-1) : s[n] \in Nat
        BY <1>1, <2>1
      <4>2. /\ SubSeq(s, 1, i-1) \in Seq(Nat)
            /\ Len(SubSeq(s, 1, i-1)) = IF 1 <= i-1 THEN (i-1) - 1 + 1 ELSE 0
            /\ \A j \in 1..((i-1) - 1 + 1) : SubSeq(s, 1, i-1)[j] = s[1 + j - 1]
        BY <2>1, <4>1, SubSeqProperties
      <4> QED BY <2>1, <3>1, <4>2
    <3>3. /\ b \in Seq(Nat) /\ Len(b) = Len(s) - i
          /\ \A j \in 1..(Len(s) - i) : b[j] = s[i + j]
      <4> DEFINE m == i + 1
                 l == Len(s)
      <4>1. /\ \A n \in m..l : s[n] \in Nat
            /\ m \in Int /\ l \in Int
        BY <1>1, <2>1
      <4>2. b = SubSeq(s, m, l)
        BY <3>1
      <4> HIDE DEF m, l
      <4>3. /\ b \in Seq(Nat)
            /\ Len(b) = IF m <= l THEN l - m + 1 ELSE 0
            /\ \A j \in 1..(l - m + 1) : b[j] = s[m + j - 1]
        BY <4>1, <4>2, SubSeqProperties
      <4>0. l \in Nat /\ i \in 1..l /\ l = Len(s) /\ m = i + 1
        BY <1>1, <2>1 DEF m, l
      <4>4. l - m + 1 = Len(s) - i
        BY <4>0
      <4>6. ~(m <= l) => Len(s) - i = 0
        BY <4>0
      <4>5. \A j \in 1..(Len(s) - i) : m + j - 1 = i + j
        BY <1>1, <2>1 DEF m
      <4> QED BY <4>3, <4>4, <4>5, <4>6
    <3> HIDE DEF r
    <3>4. /\ r \in Seq(Nat) /\ Len(r) = Len(a) + Len(b)
          /\ \A j \in 1..(Len(a) + Len(b)) : r[j] = IF j <= Len(a) THEN a[j] ELSE b[j - Len(a)]
      <4>1. /\ a \o b \in Seq(Nat) /\ Len(a \o b) = Len(a) + Len(b)
            /\ \A j \in 1..(Len(a) + Len(b)) :
                  (a \o b)[j] = IF j <= Len(a) THEN a[j] ELSE b[j - Len(a)]
        <5>1. a \in Seq(Nat) /\ b \in Seq(Nat)
          BY <3>2, <3>3
        <5> QED BY <5>1, ConcatProperties
      <4> QED BY <3>1, <4>1
    <3>5. Len(r) = Len(s) - 1
      BY <1>1, <2>1, <3>2, <3>3, <3>4
    <3>6. ASSUME NEW j \in 1..Len(r), j < i
          PROVE  r[j] = s[j]
      BY <1>1, <2>1, <3>2, <3>3, <3>4, <3>5, <3>6
    <3>7. ASSUME NEW j \in 1..Len(r), ~(j < i)
          PROVE  r[j] = s[j + 1]
      <4>1. j - (i - 1) \in 1..(Len(s) - i) /\ i + (j - (i - 1)) = j + 1
        BY <1>1, <2>1, <3>5, <3>7
      <4>2. r[j] = b[j - (i - 1)]
        BY <1>1, <2>1, <3>2, <3>3, <3>4, <3>5, <3>7
      <4> QED BY <3>3, <4>1, <4>2
    <3> QED BY <3>4, <3>5, <3>6, <3>7
  <2>3. /\ \A j \in 1..Len(r) : from(j) \in 1..Len(s) /\ from(j) # i
        /\ \A j, k \in 1..Len(r) : j <= k => from(j) <= from(k)
        /\ \A j, k \in 1..Len(r) : from(j) = from(k) => j = k
        /\ \A n \in 1..Len(s) : n # i => \E j \in 1..Len(r) : from(j) = n
    <3>1. \A j \in 1..Len(r) : from(j) \in 1..Len(s) /\ from(j) # i
      BY <1>1, <2>1, <2>2
    <3>2. \A j, k \in 1..Len(r) : j <= k => from(j) <= from(k)
      BY <1>1, <2>1, <2>2
    <3>3. \A j, k \in 1..Len(r) : from(j) = from(k) => j = k
      BY <1>1, <2>1, <2>2
    <3>4. ASSUME NEW n \in 1..Len(s), n # i
          PROVE  \E j \in 1..Len(r) : from(j) = n
      <4>1. CASE n < i
        <5>1. n \in 1..Len(r) /\ from(n) = n
          BY <1>1, <2>1, <2>2, <4>1
        <5> QED BY <5>1
      <4>2. CASE n > i
        <5>1. n - 1 \in 1..Len(r) /\ from(n - 1) = n
          BY <1>1, <2>1, <2>2, <4>2
        <5> QED BY <5>1
      <4> QED BY <1>1, <2>1, <3>4, <4>1, <4>2
    <3> QED BY <3>1, <3>2, <3>3, <3>4
  <2> HIDE DEF r, from
  <2>4. UpTo(r, t)
    BY <2>2, <2>3 DEF UpTo
  <2>5. ASSUME NEW x
        PROVE  Cardinality(Slots(r, x)) = Cardinality(Slots(s, x) \ {i})
    <3> DEFINE S == Slots(r, x)
               T == Slots(s, x) \ {i}
               f == [j \in S |-> from(j)]
    <3>0. DOMAIN r = 1..Len(r)
      BY <2>2
    <3>1. f \in [S -> T]
      <4>1. \A j \in S : from(j) \in T
        BY <1>1, <2>2, <2>3, <3>0 DEF Slots
      <4> QED BY <4>1
    <3>2. \A j, k \in S : f[j] = f[k] => j = k
      BY <2>3, <3>0 DEF Slots
    <3>3. ASSUME NEW n \in T
          PROVE  \E j \in S : f[j] = n
      <4>1. n \in 1..Len(s) /\ n # i /\ s[n] = x
        BY <1>1, <3>3 DEF Slots
      <4>2. PICK j \in 1..Len(r) : from(j) = n
        BY <2>3, <4>1
      <4>3. j \in S
        BY <2>2, <3>0, <4>1, <4>2 DEF Slots
      <4> QED BY <4>2, <4>3
    <3>4. IsFiniteSet(S)
      BY <2>2, SlotsAreFinite
    <3> HIDE DEF S, T, f
    <3>5. IsInjective(f)
      BY <3>1, <3>2 DEF IsInjective
    <3>6. f \in Injection(S, T) /\ f \in Surjection(S, T)
      BY <3>1, <3>3, <3>5 DEF Injection, Surjection
    <3>7. ExistsBijection(S, T)
      BY <3>6 DEF ExistsBijection, Bijection
    <3> QED BY <3>4, <3>7, FS_Bijection DEF S, T
  <2>6. \A x : x # e => Slots(s, x) \ {i} = Slots(s, x)
    BY <2>1 DEF Slots
  <2>7. Cardinality(Slots(s, e) \ {i}) = Cardinality(Slots(s, e)) - 1
    BY <1>1, SlotsAreFinite, FS_RemoveElement
  <2>8. Len(r) <= Len(s)
    BY <1>1, <2>2
  <2> QED BY <2>4, <2>5, <2>6, <2>7, <2>8 DEF r
<1> QED BY <1>1, <1>2, <1>3, RemoveFirstIs

-----------------------------------------------------------------------------
(* Elements, and the ids of records.                                      *)

\* A sequence element by element.
LEMMA EachIsTyped ==
    ASSUME NEW A, NEW B, NEW q \in Seq(B), NEW p,
           p = [k \in DOMAIN q |-> p[k]],
           \A k \in DOMAIN q : p[k] \in A
    PROVE  p \in Seq(A) /\ Len(p) = Len(q) /\ DOMAIN p = DOMAIN q
<1>1. Len(q) \in Nat /\ DOMAIN q = 1..Len(q)
  OBVIOUS
<1>2. p \in [1..Len(q) -> A]
  BY <1>1
<1> QED BY <1>1, <1>2

LEMMA ElementsOf ==
    ASSUME NEW A, NEW q \in Seq(A)
    PROVE  /\ ToSet(q) \subseteq A
           /\ \A k \in DOMAIN q : q[k] \in ToSet(q)
           /\ \A x \in ToSet(q) : \E k \in DOMAIN q : x = q[k]
BY DEF ToSet

LEMMA AppendElements ==
    ASSUME NEW A, NEW q \in Seq(A), NEW x \in A
    PROVE  ToSet(Append(q, x)) = ToSet(q) \cup {x}
<1>1. /\ Append(q, x) \in Seq(A) /\ Len(Append(q, x)) = Len(q) + 1
      /\ \A k \in 1..Len(q) : Append(q, x)[k] = q[k]
      /\ Append(q, x)[Len(q) + 1] = x
      /\ Len(q) \in Nat
  BY AppendProperties
<1>2. DOMAIN q = 1..Len(q) /\ DOMAIN Append(q, x) = 1..(Len(q) + 1)
  BY <1>1
<1>3. \A y : y \in ToSet(Append(q, x)) <=> \E k \in 1..(Len(q) + 1) : Append(q, x)[k] = y
  BY <1>2 DEF ToSet
<1>4. \A y : y \in ToSet(q) <=> \E k \in 1..Len(q) : q[k] = y
  BY <1>2 DEF ToSet
<1>5. \A k \in 1..(Len(q) + 1) : k \in 1..Len(q) \/ k = Len(q) + 1
  BY <1>1
<1>6. ToSet(Append(q, x)) \subseteq ToSet(q) \cup {x}
  BY <1>1, <1>3, <1>4, <1>5
<1>7. x \in ToSet(Append(q, x))
  BY <1>1, <1>3
<1>8. ToSet(q) \subseteq ToSet(Append(q, x))
  <2>1. \A k \in 1..Len(q) : k \in 1..(Len(q) + 1)
    BY <1>1
  <2> QED BY <1>1, <1>3, <1>4, <2>1
<1> QED BY <1>6, <1>7, <1>8

\* What a filter leaves was there.
LEMMA PickedAreThere ==
    ASSUME NEW A, NEW q \in Seq(A), NEW places \in SUBSET DOMAIN q
    PROVE  /\ Picked(q, places) \in Seq(A)
           /\ ToSet(Picked(q, places)) = {q[k] : k \in places}
<1>1. /\ Picked(q, places) \in Seq(A)
      /\ \A k \in DOMAIN Picked(q, places) :
            Nth(places, k) \in places /\ Picked(q, places)[k] = q[Nth(places, k)]
      /\ \A i \in places :
            /\ Rank(places, i) \in DOMAIN Picked(q, places)
            /\ Picked(q, places)[Rank(places, i)] = q[i]
  BY PickedElements
<1> QED BY <1>1 DEF ToSet

\* What joining two sequences keeps.
LEMMA ConcatIs ==
    ASSUME NEW A, NEW q \in Seq(A), NEW r \in Seq(A)
    PROVE  /\ q \o r \in Seq(A)
           /\ Len(q) <= Len(q \o r)
           /\ \A k \in 1..Len(q) : (q \o r)[k] = q[k]
           /\ \A k \in DOMAIN (q \o r) : k > Len(q) =>
                 k - Len(q) \in DOMAIN r /\ (q \o r)[k] = r[k - Len(q)]
<1> DEFINE c == q \o r
<1>1. /\ c \in Seq(A) /\ Len(c) = Len(q) + Len(r)
      /\ \A k \in 1..(Len(q) + Len(r)) : c[k] = IF k <= Len(q) THEN q[k] ELSE r[k - Len(q)]
  BY ConcatProperties
<1> HIDE DEF c
<1>2. /\ Len(q) \in Nat /\ Len(r) \in Nat /\ DOMAIN r = 1..Len(r)
      /\ DOMAIN c = 1..(Len(q) + Len(r))
  BY <1>1
<1>3. ASSUME NEW k \in DOMAIN c, k > Len(q)
      PROVE  k - Len(q) \in DOMAIN r /\ c[k] = r[k - Len(q)]
  BY <1>1, <1>2, <1>3
<1>4. \A k \in 1..Len(q) : c[k] = q[k]
  BY <1>1, <1>2
<1> QED BY <1>1, <1>2, <1>3, <1>4 DEF c

LEMMA ConcatElements ==
    ASSUME NEW A, NEW q \in Seq(A), NEW r \in Seq(A)
    PROVE  ToSet(q \o r) = ToSet(q) \cup ToSet(r)
<1> DEFINE c == q \o r
<1>1. /\ c \in Seq(A) /\ Len(c) = Len(q) + Len(r)
      /\ \A k \in 1..(Len(q) + Len(r)) : c[k] = IF k <= Len(q) THEN q[k] ELSE r[k - Len(q)]
  BY ConcatProperties
<1> HIDE DEF c
<1>2. /\ Len(q) \in Nat /\ Len(r) \in Nat /\ DOMAIN r = 1..Len(r) /\ DOMAIN q = 1..Len(q)
      /\ DOMAIN c = 1..(Len(q) + Len(r))
  BY <1>1
<1>3. \A k \in DOMAIN c : \/ k \in DOMAIN q /\ c[k] = q[k]
                          \/ k - Len(q) \in DOMAIN r /\ c[k] = r[k - Len(q)]
  BY <1>1, <1>2
<1>4. \A k \in DOMAIN q : k \in DOMAIN c /\ c[k] = q[k]
  BY <1>1, <1>2
<1>5. \A k \in DOMAIN r : k + Len(q) \in DOMAIN c /\ c[k + Len(q)] = r[k]
  BY <1>1, <1>2
<1>6. ToSet(q) \subseteq ToSet(c)
  BY <1>4 DEF ToSet
<1>7. ToSet(r) \subseteq ToSet(c)
  BY <1>5 DEF ToSet
<1>8. ToSet(c) \subseteq ToSet(q) \cup ToSet(r)
  BY <1>3 DEF ToSet
<1> QED BY <1>6, <1>7, <1>8 DEF c

\* Records with different ids, and the id of the first.
Differ(q) == \A k, l \in DOMAIN q : q[k].id = q[l].id => k = l
Oldest(q) == {q[k].id : k \in DOMAIN q \cap {1}}

LEMMA AppendDiffers ==
    ASSUME NEW A, NEW q \in Seq(A), Differ(q), NEW e \in A, \A k \in DOMAIN q : q[k].id # e.id
    PROVE  Differ(Append(q, e)) /\ Oldest(q) \subseteq Oldest(Append(q, e))
<1> DEFINE p == Append(q, e)
<1>1. /\ p \in Seq(A) /\ Len(p) = Len(q) + 1
      /\ \A k \in 1..Len(q) : p[k] = q[k]
      /\ p[Len(q) + 1] = e
      /\ Len(q) \in Nat
  BY AppendProperties
<1> HIDE DEF p
<1>2. DOMAIN q = 1..Len(q) /\ DOMAIN p = 1..(Len(q) + 1)
  BY <1>1
<1>3. \A k \in DOMAIN p : k \in DOMAIN q \/ k = Len(q) + 1
  BY <1>1, <1>2
<1>4. Differ(p)
  <2> SUFFICES ASSUME NEW k \in DOMAIN p, NEW l \in DOMAIN p, p[k].id = p[l].id
               PROVE  k = l
    BY DEF Differ
  <2>1. CASE k \in DOMAIN q /\ l \in DOMAIN q
    BY <1>1, <1>2, <2>1 DEF Differ
  <2>2. CASE k \in DOMAIN q /\ l = Len(q) + 1
    BY <1>1, <1>2, <2>2
  <2>3. CASE k = Len(q) + 1 /\ l \in DOMAIN q
    BY <1>1, <1>2, <2>3
  <2> QED BY <1>3, <2>1, <2>2, <2>3
<1>5. Oldest(q) \subseteq Oldest(p)
  <2>1. \A k \in DOMAIN q : k \in DOMAIN p /\ p[k] = q[k]
    BY <1>1, <1>2
  <2> QED BY <2>1 DEF Oldest
<1> QED BY <1>4, <1>5 DEF p

LEMMA PickedDiffers ==
    ASSUME NEW A, NEW q \in Seq(A), Differ(q), NEW places \in SUBSET DOMAIN q
    PROVE  /\ Differ(Picked(q, places))
           /\ 1 \in places => Oldest(q) \subseteq Oldest(Picked(q, places))
<1> DEFINE p == Picked(q, places)
<1>1. p \in Seq(A)
  BY PickedAreThere
<1>2. /\ Len(p) = Cardinality(places)
      /\ \A k \in 1..Len(p) : Nth(places, k) \in places /\ p[k] = q[Nth(places, k)]
  BY PickedElements
<1>3. /\ Len(q) \in Nat /\ DOMAIN q = 1..Len(q) /\ places \in SUBSET (1..Len(q))
      /\ DOMAIN p = 1..Len(p) /\ Len(p) \in Nat
  BY <1>1
<1>4. Differ(p)
  <2> SUFFICES ASSUME NEW k \in DOMAIN p, NEW l \in DOMAIN p, p[k].id = p[l].id
               PROVE  k = l
    BY DEF Differ
  <2>1. k \in 1..Cardinality(places) /\ l \in 1..Cardinality(places)
    BY <1>2, <1>3
  <2>2. Nth(places, k) = Nth(places, l)
    BY <1>2, <1>3 DEF Differ
  <2>3. Nth(places, k) \in Int
    BY <1>2, <1>3
  <2>4. ~(k < l)
    <3>1. k < l => Nth(places, k) < Nth(places, l)
      BY <1>3, <2>1, NthGrows
    <3> QED BY <2>2, <2>3, <3>1
  <2>5. ~(l < k)
    <3>1. l < k => Nth(places, l) < Nth(places, k)
      BY <1>3, <2>1, NthGrows
    <3> QED BY <2>2, <2>3, <3>1
  <2>6. k \in Int /\ l \in Int
    BY <1>3
  <2> QED BY <2>4, <2>5, <2>6
<1>5. ASSUME 1 \in places
      PROVE  Oldest(q) \subseteq Oldest(p)
  <2>1. p # <<>> /\ Head(p) = Head(q)
    BY <1>5, PickedKeepsTheHead
  <2> HIDE DEF p
  <2>2. 1 \in DOMAIN p /\ p[1] = q[1]
    BY <1>1, <1>3, <1>5, <2>1
  <2> QED BY <2>2 DEF Oldest
<1> QED BY <1>4, <1>5

\* The ids of a sequence of records.
IdsOf(q) == [k \in DOMAIN q |-> q[k].id]

LEMMA IdsOfAppend ==
    ASSUME NEW A, NEW q \in Seq(A), NEW e \in A
    PROVE  IdsOf(Append(q, e)) = Append(IdsOf(q), e.id)
<1> DEFINE p   == Append(q, e)
           ids == {x.id : x \in A}
           w   == Append(IdsOf(q), e.id)
<1>1. /\ p \in Seq(A) /\ Len(p) = Len(q) + 1
      /\ \A k \in 1..Len(q) : p[k] = q[k]
      /\ p[Len(q) + 1] = e
      /\ Len(q) \in Nat
  BY AppendProperties
<1>2. IdsOf(q) \in Seq(ids) /\ Len(IdsOf(q)) = Len(q) /\ e.id \in ids
  <2>1. \A k \in DOMAIN q : IdsOf(q)[k] = q[k].id /\ q[k] \in A
    BY ElementsOf DEF IdsOf
  <2>2. \A k \in DOMAIN q : IdsOf(q)[k] \in ids
    BY <2>1
  <2>3. IdsOf(q) = [k \in DOMAIN q |-> IdsOf(q)[k]]
    BY DEF IdsOf
  <2>4. e.id \in ids
    OBVIOUS
  <2> HIDE DEF ids
  <2> QED BY <2>2, <2>3, <2>4, EachIsTyped
<1> HIDE DEF p, ids
<1>3. /\ w \in Seq(ids) /\ Len(w) = Len(q) + 1
      /\ \A k \in 1..Len(q) : w[k] = IdsOf(q)[k]
      /\ w[Len(q) + 1] = e.id
  BY <1>2, AppendProperties
<1> HIDE DEF w
<1>4. /\ DOMAIN p = 1..(Len(q) + 1) /\ DOMAIN w = 1..(Len(q) + 1)
      /\ w = [k \in 1..(Len(q) + 1) |-> w[k]]
  BY <1>1, <1>3
<1>5. ASSUME NEW k \in 1..(Len(q) + 1) PROVE p[k].id = w[k]
  <2>1. CASE k \in 1..Len(q)
    <3>1. IdsOf(q)[k] = q[k].id
      BY <1>1, <2>1 DEF IdsOf
    <3> QED BY <1>1, <1>3, <2>1, <3>1
  <2>2. CASE k = Len(q) + 1
    BY <1>1, <1>3, <2>2
  <2> QED BY <1>1, <2>1, <2>2
<1>6. IdsOf(p) = [k \in 1..(Len(q) + 1) |-> p[k].id]
  BY <1>4 DEF IdsOf
<1> QED BY <1>4, <1>5, <1>6 DEF p, w

LEMMA IdsOfPicked ==
    ASSUME NEW A, NEW q \in Seq(A), NEW id
    PROVE  IdsOf(Picked(q, {k \in DOMAIN q : q[k].id # id}))
              = Picked(IdsOf(q), {k \in DOMAIN IdsOf(q) : IdsOf(q)[k] # id})
<1> DEFINE P == {k \in DOMAIN q : q[k].id # id}
           W == {k \in DOMAIN IdsOf(q) : IdsOf(q)[k] # id}
           n == Cardinality(P)
<1>1. P = W
  BY DEF IdsOf
<1>2. /\ Len(Picked(q, P)) = n
      /\ \A k \in 1..n : Nth(P, k) \in P /\ Picked(q, P)[k] = q[Nth(P, k)]
      /\ DOMAIN Picked(q, P) = 1..n
  <2>1. Picked(q, P) \in Seq(A) /\ Len(Picked(q, P)) = n
    BY PickedElements
  <2>2. \A k \in 1..Len(Picked(q, P)) : Nth(P, k) \in P /\ Picked(q, P)[k] = q[Nth(P, k)]
    BY PickedElements
  <2> HIDE DEF P
  <2> QED BY <2>1, <2>2
<1>3. \A k \in 1..n : Picked(q, P)[k].id = IdsOf(q)[Nth(P, k)]
  BY <1>2 DEF IdsOf
<1>4. IdsOf(Picked(q, P)) = [k \in 1..n |-> Picked(q, P)[k].id]
  BY <1>2 DEF IdsOf
<1>5. Picked(IdsOf(q), P) = [k \in 1..n |-> IdsOf(q)[Nth(P, k)]]
  BY DEF Picked
<1> HIDE DEF P, W, n
<1>6. IdsOf(Picked(q, P)) = Picked(IdsOf(q), P)
  BY <1>3, <1>4, <1>5
<1> QED BY <1>1, <1>6 DEF P, W
=============================================================================
