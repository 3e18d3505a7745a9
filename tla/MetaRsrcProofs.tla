--------------------------- MODULE MetaRsrcProofs ---------------------------
(***************************************************************************)
(* For any number of commands, IDs and sizes: the two lists of MetaRsrc    *)
(* and dnvme's table agree, the IDs in use have no gap, no two commands    *)
(* share a buffer reserved since the last disable, and a buffer is refused *)
(* only when every ID is reserved.                                         *)
(***************************************************************************)
EXTENDS MetaRsrc, FiniteSetTheorems, WellFoundedInduction, TLAPS

-----------------------------------------------------------------------------
(***************************************************************************)
(* The inductive invariant                                                 *)
(***************************************************************************)
\* No ID is twice on the released list, or on both lists.
Apart ==
  /\ \A i, j \in DOMAIN mMetaReleased : i # j => mMetaReleased[i] # mMetaReleased[j]
  /\ RangeOf(mMetaReserved) \cap RangeOf(mMetaReleased) = {}

\* dnvme has the IDs of both lists, which are the first ones.
Contiguous ==
  /\ kernel = RangeOf(mMetaReserved) \cup RangeOf(mMetaReleased)
  /\ kernel = 0 .. Len(mMetaReserved) + Len(mMetaReleased) - 1

\* Every reserved ID has its command.
Accounted == RangeOf(mMetaReserved) = {mMetaData[c] : c \in fresh}

\* Which destructors may find a buffer from before a disable: none while the
\* test runs, and when it is left none that could release another's.
NoneStale ==
  /\ pc = "test" => \A c \in alive \cap LoopCmds : c \in fresh \/ mMetaData[c] = NoBuf
  /\ pc = "unwind" => fresh \in {{}, alive}

Inv ==
  /\ TypeOK /\ ReservedOrdered /\ Apart /\ Contiguous
  /\ HoldersDistinct /\ Accounted /\ NoneStale

-----------------------------------------------------------------------------
(***************************************************************************)
(* The searches in the ordered list                                        *)
(***************************************************************************)
Ordered(s) == \A i, j \in DOMAIN s : i < j => s[i] < s[j]

\* Every nonempty set of naturals has a least element.
LEMMA LeastNatural ==
  ASSUME NEW S \in SUBSET Nat, S # {}
  PROVE  \E n \in S : \A m \in S : n <= m
<1>1. \E n \in S : \A m \in S : ~(<<m, n>> \in OpToRel(<, Nat))
  BY WFMin, NatLessThanWellFounded
<1>2. \A m, n \in Nat : m < n => <<m, n>> \in OpToRel(<, Nat)
  BY Zenon DEF OpToRel
<1>3. \E n \in S : \A m \in S : ~(m < n)
  BY <1>1, <1>2, Zenon
<1> QED BY <1>3

\* The first search of ReserveMetaBuf() stops.
LEMMA InsertAtStops ==
  ASSUME NEW s \in Seq(Nat), NEW id \in Nat
  PROVE  /\ InsertAt(s, id) \in 1 .. Len(s) + 1
         /\ \A i \in 1 .. InsertAt(s, id) - 1 : s[i] <= id
         /\ InsertAt(s, id) = Len(s) + 1 \/ s[InsertAt(s, id)] > id
<1> DEFINE S == {n \in 1 .. Len(s) + 1 : n = Len(s) + 1 \/ s[n] > id}
<1>1. S \in SUBSET Nat /\ Len(s) + 1 \in S
  OBVIOUS
<1>2. PICK n \in S : \A m \in S : n <= m
  BY <1>1, LeastNatural
<1>3. \A i \in 1 .. n - 1 : s[i] <= id
  <2> SUFFICES ASSUME NEW i \in 1 .. n - 1, s[i] > id PROVE FALSE
    BY <1>2
  <2>1. i \in S
    BY <1>2
  <2> QED
    BY <2>1, <1>2
<1> HIDE DEF S
<1>4. n \in 1 .. Len(s) + 1 /\ (n = Len(s) + 1 \/ s[n] > id)
  BY <1>2 DEF S
<1> QED
  BY <1>3, <1>4 DEF InsertAt

\* The second one does, at the first ID that is missing.
LEMMA FreeIDStops ==
  ASSUME NEW s \in Seq(Nat)
  PROVE  /\ FreeID(s) \in 0 .. Len(s)
         /\ \A i \in 1 .. FreeID(s) : s[i] = i - 1
         /\ FreeID(s) = Len(s) \/ s[FreeID(s) + 1] # FreeID(s)
<1> DEFINE S == {n \in 0 .. Len(s) : n = Len(s) \/ s[n + 1] # n}
<1>1. S \in SUBSET Nat /\ Len(s) \in S
  OBVIOUS
<1>2. PICK n \in S : \A m \in S : n <= m
  BY <1>1, LeastNatural
<1>3. \A i \in 1 .. n : s[i] = i - 1
  <2> SUFFICES ASSUME NEW i \in 1 .. n, s[i] # i - 1 PROVE FALSE
    BY <1>2
  <2>1. i - 1 \in S
    BY <1>2
  <2> QED
    BY <2>1, <1>2
<1> HIDE DEF S
<1>4. n \in 0 .. Len(s) /\ (n = Len(s) \/ s[n + 1] # n)
  BY <1>2 DEF S
<1> QED
  BY <1>3, <1>4 DEF FreeID

\* What ReserveMetaBuf() inserts: the list has the new ID besides the ones it
\* had, and stays ordered.
LEMMA InsertIs ==
  ASSUME NEW s \in Seq(IDs), Ordered(s), NEW id \in IDs, id \notin RangeOf(s)
  PROVE  /\ Insert(s, id) \in Seq(IDs) /\ Len(Insert(s, id)) = Len(s) + 1
         /\ RangeOf(Insert(s, id)) = RangeOf(s) \cup {id}
         /\ Ordered(Insert(s, id))
<1> DEFINE n == InsertAt(s, id)
           t == Insert(s, id)
<1>1. s \in Seq(Nat) /\ id \in Nat
  BY MetaAssumption DEF IDs
<1>2. /\ n \in 1 .. Len(s) + 1
      /\ \A i \in 1 .. n - 1 : s[i] <= id
      /\ n = Len(s) + 1 \/ s[n] > id
  BY <1>1, InsertAtStops
<1> HIDE DEF n
<1>3. t = [i \in 1 .. Len(s) + 1 |->
             IF i < n THEN s[i] ELSE IF i = n THEN id ELSE s[i - 1]]
  BY DEF Insert, n
<1> HIDE DEF t
<1>4. t \in Seq(IDs) /\ Len(t) = Len(s) + 1
  BY <1>2, <1>3
<1>5. RangeOf(t) = RangeOf(s) \cup {id}
  <2>1. ASSUME NEW i \in 1 .. Len(s) PROVE s[i] \in RangeOf(t)
    <3>1. CASE i < n
      <4>1. t[i] = s[i] /\ i \in DOMAIN t
        BY <1>2, <1>3, <1>4, <3>1
      <4> QED
        BY <4>1 DEF RangeOf
    <3>2. CASE i >= n
      <4>1. t[i + 1] = s[i] /\ i + 1 \in DOMAIN t
        BY <1>2, <1>3, <1>4, <3>2
      <4> QED
        BY <4>1 DEF RangeOf
    <3> QED
      BY <1>2, <3>1, <3>2
  <2>2. id \in RangeOf(t)
    BY <1>2, <1>3, <1>4 DEF RangeOf
  <2>3. RangeOf(t) \subseteq RangeOf(s) \cup {id}
    BY <1>2, <1>3, <1>4 DEF RangeOf
  <2>4. RangeOf(s) \subseteq RangeOf(t)
    BY <2>1 DEF RangeOf
  <2> QED
    BY <2>2, <2>3, <2>4
<1>6. \A i \in 1 .. n - 1 : s[i] < id
  BY <1>1, <1>2 DEF RangeOf
<1>7. \A i \in n .. Len(s) : id < s[i]
  BY <1>1, <1>2 DEF Ordered
<1>8. Ordered(t)
  <2> SUFFICES ASSUME NEW i \in 1 .. Len(s) + 1, NEW j \in 1 .. Len(s) + 1, i < j
               PROVE  t[i] < t[j]
    BY <1>4 DEF Ordered
  <2>1. CASE j < n
    BY <1>1, <1>2, <1>3, <2>1 DEF Ordered
  <2>2. CASE j = n
    BY <1>2, <1>3, <1>6, <2>2
  <2>3. CASE j > n /\ i < n
    BY <1>1, <1>2, <1>3, <2>3 DEF Ordered
  <2>4. CASE j > n /\ i = n
    BY <1>2, <1>3, <1>7, <2>4
  <2>5. CASE i > n
    BY <1>1, <1>2, <1>3, <2>5 DEF Ordered
  <2> QED
    BY <1>2, <2>1, <2>2, <2>3, <2>4, <2>5
<1> QED
  BY <1>4, <1>5, <1>8 DEF t

\* What ReleaseMetaBuf() erases: that ID and no other.
LEMMA EraseIs ==
  ASSUME NEW s \in Seq(IDs), Ordered(s), NEW id \in RangeOf(s)
  PROVE  /\ Erase(s, id) \in Seq(IDs) /\ Len(Erase(s, id)) = Len(s) - 1
         /\ RangeOf(Erase(s, id)) = RangeOf(s) \ {id}
         /\ Ordered(Erase(s, id))
<1> DEFINE t == Erase(s, id)
<1>1. s \in Seq(Nat) /\ id \in Nat
  BY MetaAssumption DEF IDs, RangeOf
<1>2. PICK n \in 1 .. Len(s) : s[n] = id
  BY DEF RangeOf
<1>3. \A i \in 1 .. Len(s) : i # n => s[i] # id
  BY <1>1, <1>2 DEF Ordered
<1>4. (CHOOSE m \in DOMAIN s : s[m] = id /\ \A i \in 1 .. m - 1 : s[i] # id) = n
  BY <1>2, <1>3
<1>5. t = [i \in 1 .. Len(s) - 1 |-> IF i < n THEN s[i] ELSE s[i + 1]]
  BY <1>4 DEF Erase
<1> HIDE DEF t
<1>6. t \in Seq(IDs) /\ Len(t) = Len(s) - 1
  BY <1>2, <1>5
<1>7. RangeOf(t) = RangeOf(s) \ {id}
  <2>1. ASSUME NEW i \in 1 .. Len(s), i # n PROVE s[i] \in RangeOf(t)
    <3>1. CASE i < n
      <4>1. t[i] = s[i] /\ i \in DOMAIN t
        BY <1>2, <1>5, <1>6, <3>1
      <4> QED
        BY <4>1 DEF RangeOf
    <3>2. CASE i > n
      <4>1. t[i - 1] = s[i] /\ i - 1 \in DOMAIN t
        BY <1>2, <1>5, <1>6, <3>2
      <4> QED
        BY <4>1 DEF RangeOf
    <3> QED
      BY <1>2, <2>1, <3>1, <3>2
  <2>2. RangeOf(t) \subseteq RangeOf(s) \ {id}
    BY <1>2, <1>3, <1>5, <1>6 DEF RangeOf
  <2>3. RangeOf(s) \ {id} \subseteq RangeOf(t)
    BY <1>2, <2>1 DEF RangeOf
  <2> QED
    BY <2>2, <2>3
<1>8. Ordered(t)
  <2> SUFFICES ASSUME NEW i \in 1 .. Len(s) - 1, NEW j \in 1 .. Len(s) - 1, i < j
               PROVE  t[i] < t[j]
    BY <1>6 DEF Ordered
  <2>1. CASE j < n
    <3>1. t[i] = s[i] /\ t[j] = s[j] /\ i \in DOMAIN s /\ j \in DOMAIN s
      BY <1>2, <1>5, <2>1
    <3> QED
      BY <3>1 DEF Ordered
  <2>2. CASE i < n /\ j >= n
    BY <1>1, <1>2, <1>5, <2>2 DEF Ordered
  <2>3. CASE i >= n
    BY <1>1, <1>2, <1>5, <2>3 DEF Ordered
  <2> QED
    BY <1>2, <2>1, <2>2, <2>3
<1> QED
  BY <1>6, <1>7, <1>8 DEF t

\* An ordered list of the first IDs has each at its place, so that the search
\* for a unique ID counts all of them.
LEMMA FreeIDIsNext ==
  ASSUME NEW s \in Seq(Nat), Ordered(s), RangeOf(s) = 0 .. Len(s) - 1
  PROVE  FreeID(s) = Len(s)
<1> DEFINE n == FreeID(s)
<1>1. /\ n \in 0 .. Len(s)
      /\ \A i \in 1 .. n : s[i] = i - 1
      /\ n = Len(s) \/ s[n + 1] # n
  BY FreeIDStops
<1> HIDE DEF n
<1>2. SUFFICES ASSUME n # Len(s) PROVE FALSE
  BY DEF n
<1>3. n \in RangeOf(s)
  BY <1>1, <1>2
<1>4. PICK j \in 1 .. Len(s) : s[j] = n
  BY <1>3 DEF RangeOf
<1>5. j > n + 1
  BY <1>1, <1>2, <1>4
<1>6. s[n + 1] \in Nat /\ s[n + 1] < n
  BY <1>1, <1>2, <1>4, <1>5 DEF Ordered
<1>7. s[s[n + 1] + 1] = s[n + 1] /\ s[n + 1] + 1 < n + 1
  BY <1>1, <1>6
<1> QED
  BY <1>1, <1>2, <1>7 DEF Ordered

-----------------------------------------------------------------------------
(***************************************************************************)
(* Every step preserves the invariant                                      *)
(***************************************************************************)
\* A disable of the test, and the one of a FrmwkEx, empty everything.
LEMMA Emptied ==
  ASSUME Inv, Disable, UNCHANGED <<alive, mMetaData>>,
         pc' \in {"test", "unwind"}, pc' = "test" => alive \cap LoopCmds = {},
         sent' \in Cmds \cup {NoBuf}, refused' \in BOOLEAN
  PROVE  Inv'
<1>1. /\ mMetaReserved' = <<>> /\ mMetaReleased' = <<>> /\ kernel' = {}
      /\ fresh' = {} /\ mMetaAllocSize' = 0
  BY DEF Disable, FreeAllMetaBuf
<1>2. RangeOf(<<>>) = {}
  BY DEF RangeOf
<1>3. TypeOK'
  BY <1>1 DEF Inv, TypeOK
<1>4. ReservedOrdered' /\ Apart'
  BY <1>1, <1>2 DEF ReservedOrdered, Apart
<1>5. Contiguous'
  BY <1>1, <1>2 DEF Contiguous
<1>6. HoldersDistinct' /\ Accounted' /\ NoneStale'
  BY <1>1, <1>2 DEF HoldersDistinct, Accounted, NoneStale
<1> QED
  BY <1>3, <1>4, <1>5, <1>6 DEF Inv

\* What is common to both ways of reserving: the command has the ID to itself.
LEMMA ReservedKeeps ==
  ASSUME Inv, NEW c \in alive \ fresh, NEW id \in IDs, pc = "test",
         id \notin RangeOf(mMetaReserved), Reserved(c, id)
  PROVE  /\ mMetaReserved' \in Seq(IDs)
         /\ Len(mMetaReserved') = Len(mMetaReserved) + 1
         /\ RangeOf(mMetaReserved') = RangeOf(mMetaReserved) \cup {id}
         /\ mMetaData' \in [Cmds -> IDs \cup {NoBuf}] /\ fresh' \subseteq alive'
         /\ ReservedOrdered' /\ HoldersDistinct' /\ Accounted' /\ NoneStale'
<1>1. /\ mMetaReserved \in Seq(IDs) /\ Ordered(mMetaReserved)
      /\ mMetaReserved' = Insert(mMetaReserved, id)
  BY DEF Inv, TypeOK, ReservedOrdered, Ordered, Reserved
<1>2. /\ mMetaReserved' \in Seq(IDs)
      /\ Len(mMetaReserved') = Len(mMetaReserved) + 1
      /\ RangeOf(mMetaReserved') = RangeOf(mMetaReserved) \cup {id}
      /\ Ordered(mMetaReserved')
  BY <1>1, InsertIs
<1>3. /\ mMetaData' = [mMetaData EXCEPT ![c] = id] /\ fresh' = fresh \cup {c}
      /\ UNCHANGED <<pc, alive>>
      /\ alive \subseteq Cmds /\ mMetaData \in [Cmds -> IDs \cup {NoBuf}]
      /\ fresh \subseteq alive
  BY DEF Reserved, Inv, TypeOK
<1>4. \A d \in fresh : mMetaData'[d] = mMetaData[d] /\ mMetaData[d] \in RangeOf(mMetaReserved)
  BY <1>3 DEF Inv, HoldersDistinct
<1>5. mMetaData'[c] = id
  BY <1>3
<1>6. HoldersDistinct'
  BY <1>2, <1>3, <1>4, <1>5 DEF HoldersDistinct, Inv
<1>7. Accounted'
  BY <1>2, <1>3, <1>4, <1>5 DEF Accounted, Inv
<1>8. NoneStale'
  BY <1>3 DEF NoneStale, Inv
<1> QED
  BY <1>2, <1>3, <1>6, <1>7, <1>8 DEF ReservedOrdered, Ordered

\* ReserveMetaBuf() out of the released list.
LEMMA ReserveReleasedKeeps ==
  ASSUME Inv, NEW c \in Cmds, ReserveReleased(c)
  PROVE  Inv'
<1> DEFINE q == mMetaReleased
           id == Head(mMetaReleased)
<1>1. /\ q \in Seq(IDs) /\ Len(q) \in Nat \ {0} /\ id = q[1]
      /\ \A i, j \in 1 .. Len(q) : i # j => q[i] # q[j]
      /\ q' = Tail(q) /\ kernel' = kernel /\ Reserved(c, id)
      /\ c \in alive \ fresh /\ pc = "test"
  BY DEF Inv, TypeOK, Apart, ReserveReleased, Allocs
<1>2. id \in IDs /\ id \in RangeOf(q) /\ id \notin RangeOf(mMetaReserved)
  BY <1>1 DEF RangeOf, Inv, Apart
<1>3. /\ mMetaReserved' \in Seq(IDs)
      /\ Len(mMetaReserved') = Len(mMetaReserved) + 1
      /\ RangeOf(mMetaReserved') = RangeOf(mMetaReserved) \cup {id}
      /\ mMetaData' \in [Cmds -> IDs \cup {NoBuf}] /\ fresh' \subseteq alive'
      /\ ReservedOrdered' /\ HoldersDistinct' /\ Accounted' /\ NoneStale'
  BY <1>1, <1>2, ReservedKeeps
<1>4. /\ q' \in Seq(IDs) /\ Len(q') = Len(q) - 1
      /\ \A i \in 1 .. Len(q') : q'[i] = q[i + 1]
  BY <1>1
<1>5. RangeOf(q') = RangeOf(q) \ {id}
  <2>1. ASSUME NEW i \in 1 .. Len(q), i # 1 PROVE q[i] \in RangeOf(q')
    <3>1. i - 1 \in DOMAIN (q') /\ q'[i - 1] = q[i]
      BY <1>1, <1>4, <2>1
    <3> QED
      BY <3>1 DEF RangeOf
  <2>2. RangeOf(q) \ {id} \subseteq RangeOf(q')
    BY <1>1, <2>1 DEF RangeOf
  <2>3. RangeOf(q') \subseteq RangeOf(q) \ {id}
    <3>1. \A i \in 1 .. Len(q') : q'[i] \in RangeOf(q) /\ q'[i] # id
      BY <1>1, <1>4 DEF RangeOf
    <3> QED
      BY <1>4, <3>1 DEF RangeOf
  <2> QED
    BY <2>2, <2>3
<1>6. Apart'
  <2>1. \A i, j \in DOMAIN (q') : i # j => q'[i] # q'[j]
    BY <1>1, <1>4
  <2> QED
    BY <1>3, <1>5, <2>1 DEF Apart, Inv
<1>7. Contiguous'
  <2>1. Len(mMetaReserved') + Len(q') = Len(mMetaReserved) + Len(q)
    BY <1>1, <1>3, <1>4 DEF Inv, TypeOK
  <2> QED
    BY <1>1, <1>2, <1>3, <1>5, <2>1 DEF Contiguous, Inv
<1>8. TypeOK'
  BY <1>1, <1>3, <1>4 DEF TypeOK, Inv, Reserved
<1> QED
  BY <1>3, <1>6, <1>7, <1>8 DEF Inv

\* ReserveMetaBuf() of a new ID: with nothing released the list is 0, 1, ...
\* and the ID is its length.
LEMMA ReserveNewKeeps ==
  ASSUME Inv, NEW c \in Cmds, ReserveNew(c)
  PROVE  Inv'
<1> DEFINE s == mMetaReserved
           id == FreeID(mMetaReserved)
<1>1. /\ s \in Seq(IDs) /\ s \in Seq(Nat) /\ Ordered(s) /\ mMetaReleased = <<>>
      /\ mMetaReleased' = <<>> /\ kernel' = kernel \cup {id} /\ Reserved(c, id)
      /\ id < NumIDs /\ c \in alive \ fresh /\ pc = "test"
  BY MetaAssumption DEF Inv, TypeOK, ReservedOrdered, Ordered, ReserveNew, Allocs, IDs
<1>2. RangeOf(<<>>) = {}
  BY DEF RangeOf
<1>3. kernel = RangeOf(s) /\ kernel = 0 .. Len(s) - 1
  BY <1>1, <1>2 DEF Inv, Contiguous
<1>4. id = Len(s)
  BY <1>1, <1>3, FreeIDIsNext
<1>5. id \in IDs /\ id \notin RangeOf(s)
  BY <1>1, <1>3, <1>4, MetaAssumption DEF IDs
<1>6. /\ mMetaReserved' \in Seq(IDs)
      /\ Len(mMetaReserved') = Len(s) + 1
      /\ RangeOf(mMetaReserved') = RangeOf(s) \cup {id}
      /\ mMetaData' \in [Cmds -> IDs \cup {NoBuf}] /\ fresh' \subseteq alive'
      /\ ReservedOrdered' /\ HoldersDistinct' /\ Accounted' /\ NoneStale'
  BY <1>1, <1>5, ReservedKeeps
<1>7. Apart'
  BY <1>1, <1>2 DEF Apart
<1>8. Contiguous'
  <2>1. Len(mMetaReserved') + Len(mMetaReleased') - 1 = Len(s) /\ Len(s) \in Nat
    BY <1>1, <1>6
  <2>2. (0 .. Len(s) - 1) \cup {Len(s)} = 0 .. Len(s)
    BY <2>1
  <2> QED
    BY <1>1, <1>2, <1>3, <1>4, <1>6, <2>1, <2>2 DEF Contiguous
<1>9. TypeOK'
  BY <1>1, <1>5, <1>6 DEF TypeOK, Inv, Reserved
<1> QED
  BY <1>6, <1>7, <1>8, <1>9 DEF Inv

\* ~MetaData(), of a command whose ID is its own or not reserved.
LEMMA DeleteKeeps ==
  ASSUME Inv, NEW c \in alive, Delete(c), UNCHANGED pc,
         c \in fresh \/ mMetaData[c] \notin RangeOf(mMetaReserved)
  PROVE  Inv'
<1> DEFINE id == mMetaData[c]
           q == mMetaReleased
<1>1. /\ alive' = alive \ {c} /\ fresh' = fresh \ {c} /\ sent' = NoBuf
      /\ UNCHANGED <<pc, mMetaData, mMetaAllocSize, kernel, refused>>
      /\ ReleaseMetaBuf(id)
  BY DEF Delete
<1>2. NoneStale'
  BY <1>1 DEF NoneStale, Inv
<1>3. CASE id \notin RangeOf(mMetaReserved)
  <2>1. UNCHANGED <<mMetaReserved, mMetaReleased>> /\ fresh' = fresh
    BY <1>1, <1>3 DEF ReleaseMetaBuf, Inv, HoldersDistinct
  <2>2. TypeOK'
    BY <1>1, <2>1 DEF TypeOK, Inv
  <2>3. ReservedOrdered' /\ Apart' /\ Contiguous'
    BY <1>1, <2>1 DEF ReservedOrdered, Apart, Contiguous, Inv
  <2>4. HoldersDistinct' /\ Accounted'
    BY <1>1, <2>1 DEF HoldersDistinct, Accounted, Inv
  <2> QED
    BY <1>2, <2>2, <2>3, <2>4 DEF Inv
<1>4. CASE id \in RangeOf(mMetaReserved)
  <2>1. /\ mMetaReserved \in Seq(IDs) /\ Ordered(mMetaReserved) /\ c \in fresh
        /\ mMetaReserved' = Erase(mMetaReserved, id) /\ q' = Append(q, id)
        /\ q \in Seq(IDs) /\ id \in IDs
    BY <1>1, <1>4 DEF ReleaseMetaBuf, Inv, TypeOK, ReservedOrdered, Ordered, RangeOf
  <2>2. /\ mMetaReserved' \in Seq(IDs) /\ Len(mMetaReserved') = Len(mMetaReserved) - 1
        /\ RangeOf(mMetaReserved') = RangeOf(mMetaReserved) \ {id}
        /\ Ordered(mMetaReserved')
    BY <1>4, <2>1, EraseIs
  <2>3. /\ q' \in Seq(IDs) /\ Len(q') = Len(q) + 1 /\ q'[Len(q) + 1] = id
        /\ \A i \in 1 .. Len(q) : q'[i] = q[i]
    BY <2>1
  <2>4. RangeOf(q') = RangeOf(q) \cup {id}
    BY <2>1, <2>3 DEF RangeOf
  <2>5. TypeOK' /\ ReservedOrdered'
    BY <1>1, <2>2, <2>3 DEF TypeOK, ReservedOrdered, Ordered, Inv
  <2>6. id \notin RangeOf(q)
    BY <1>4 DEF Inv, Apart
  <2>7. \A i, j \in DOMAIN (q') : i # j => q'[i] # q'[j]
    BY <2>1, <2>3, <2>6 DEF Inv, Apart, RangeOf
  <2>8. Apart'
    BY <2>2, <2>4, <2>7 DEF Apart, Inv
  <2>9. Contiguous'
    <3>1. Len(mMetaReserved') + Len(q') = Len(mMetaReserved) + Len(q)
      BY <2>1, <2>2, <2>3
    <3> QED
      BY <1>1, <1>4, <2>2, <2>4, <3>1 DEF Contiguous, Inv
  <2>10. HoldersDistinct' /\ Accounted'
    BY <1>1, <2>1, <2>2 DEF HoldersDistinct, Accounted, Inv
  <2> QED
    BY <1>2, <2>5, <2>8, <2>9, <2>10 DEF Inv
<1> QED
  BY <1>3, <1>4

LEMMA InvInit == Init => Inv
<1> SUFFICES ASSUME Init PROVE Inv
  OBVIOUS
<1>1. RangeOf(<<>>) = {}
  BY DEF RangeOf
<1>2. TypeOK
  <2>1. refused \in BOOLEAN
    BY Zenon DEF Init
  <2>2. mMetaData \in [Cmds -> IDs \cup {NoBuf}]
    BY DEF Init
  <2> QED
    BY <2>1, <2>2 DEF Init, TypeOK
<1>3. ReservedOrdered /\ Apart
  BY <1>1 DEF Init, ReservedOrdered, Apart
<1>4. Contiguous
  BY <1>1 DEF Init, Contiguous
<1>5. HoldersDistinct /\ Accounted /\ NoneStale
  BY <1>1 DEF Init, HoldersDistinct, Accounted, NoneStale
<1> QED
  BY <1>2, <1>3, <1>4, <1>5 DEF Inv

\* The steps that leave lists, dnvme and the commands' buffers alone.
LEMMA ListsAlone ==
  ASSUME Inv, UNCHANGED <<mMetaReserved, mMetaReleased, kernel, fresh>>,
         \A c \in fresh : mMetaData'[c] = mMetaData[c]
  PROVE  ReservedOrdered' /\ Apart' /\ Contiguous' /\ HoldersDistinct' /\ Accounted'
<1>1. ReservedOrdered' /\ Apart' /\ Contiguous'
  BY DEF Inv, ReservedOrdered, Apart, Contiguous
<1>2. HoldersDistinct'
  BY DEF Inv, HoldersDistinct
<1>3. Accounted'
  BY DEF Inv, Accounted
<1> QED
  BY <1>1, <1>2, <1>3

LEMMA InvNext == Inv /\ [Next]_vars => Inv'
<1> SUFFICES ASSUME Inv, [Next]_vars PROVE Inv'
  OBVIOUS
<1>t. TypeOK /\ NoneStale
  BY DEF Inv
<1>1. CASE UNCHANGED vars
  <2>1. TypeOK' /\ NoneStale'
    BY <1>1, <1>t DEF vars, lists, TypeOK, NoneStale
  <2> QED
    BY <1>1, <2>1, ListsAlone DEF vars, lists, Inv
<1>2. ASSUME NEW c \in Cmds, NewCmd(c) PROVE Inv'
  <2>1. /\ UNCHANGED <<pc, lists, kernel, fresh, sent, refused>>
        /\ alive' = alive \cup {c} /\ mMetaData' = [mMetaData EXCEPT ![c] = NoBuf]
        /\ c \notin fresh /\ pc = "test"
    BY <1>2, <1>t DEF NewCmd, TypeOK
  <2>2. TypeOK' /\ NoneStale'
    BY <2>1, <1>t DEF TypeOK, NoneStale, lists
  <2>3. \A d \in fresh : mMetaData'[d] = mMetaData[d]
    BY <2>1, <1>t DEF TypeOK
  <2> QED
    BY <2>1, <2>2, <2>3, ListsAlone DEF Inv, lists
<1>3. ASSUME NEW c \in Cmds, ReserveDenied(c) \/ ReserveRefused(c) PROVE Inv'
  BY <1>3, <1>t, Emptied DEF ReserveDenied, ReserveRefused, Throw, TypeOK
<1>4. ASSUME NEW c \in Cmds, Send(c) PROVE Inv'
  <2>1. CASE mMetaData[c] \in kernel
    <3>1. /\ UNCHANGED <<pc, alive, mMetaData, lists, kernel, fresh, refused>>
          /\ sent' \in Cmds
      BY <1>4, <2>1 DEF Send
    <3>2. TypeOK' /\ NoneStale'
      BY <3>1, <1>t DEF TypeOK, NoneStale, lists
    <3> QED
      BY <3>1, <3>2, ListsAlone DEF Inv, lists
  <2>2. CASE mMetaData[c] \notin kernel
    BY <1>4, <2>2, <1>t, Emptied DEF Send, Throw, TypeOK
  <2> QED
    BY <2>1, <2>2
<1>5. ASSUME NEW c \in Cmds, EndOfLoop(c) PROVE Inv'
  <2>1. /\ c \in alive /\ Delete(c) /\ UNCHANGED pc
        /\ c \in fresh \/ mMetaData[c] = NoBuf
    BY <1>5, <1>t DEF EndOfLoop, NoneStale
  <2>2. NoBuf \notin RangeOf(mMetaReserved)
    BY <1>t, MetaAssumption DEF TypeOK, RangeOf, IDs
  <2> QED
    BY <2>1, <2>2, DeleteKeeps
<1>6. ASSUME NEW c \in Cmds, Unwind(c) PROVE Inv'
  <2>1. c \in alive /\ Delete(c) /\ UNCHANGED pc /\ fresh \in {{}, alive}
    BY <1>6, <1>t DEF Unwind, NoneStale
  <2>2. fresh = {} => RangeOf(mMetaReserved) = {}
    BY DEF Inv, Accounted
  <2> QED
    BY <2>1, <2>2, DeleteKeeps
<1>7. ASSUME NEW n \in Sizes, SetMetaAllocSize(n) PROVE Inv'
  <2>1. CASE UNCHANGED <<pc, alive, mMetaData, mMetaReserved, mMetaReleased,
                         kernel, fresh, sent, refused>> /\ mMetaAllocSize' = n
    <3>1. TypeOK' /\ NoneStale'
      BY <2>1, <1>t, MetaAssumption DEF TypeOK, NoneStale
    <3> QED
      BY <2>1, <3>1, ListsAlone DEF Inv
  <2>2. CASE Throw /\ UNCHANGED <<sent, refused>>
    BY <2>2, <1>t, Emptied DEF Throw, TypeOK
  <2> QED
    BY <1>7, <2>1, <2>2 DEF SetMetaAllocSize
<1>8. CASE DisableInTest
  BY <1>8, <1>t, Emptied DEF DisableInTest, TypeOK
<1>9. CASE EndTest
  <2>1. /\ UNCHANGED <<alive, mMetaData, lists, kernel, fresh, sent, refused>>
        /\ pc' = "unwind" /\ Settled /\ alive \cap LoopCmds = {}
    BY <1>9 DEF EndTest
  <2>2. fresh \in {{}, alive}
    BY <2>1, <1>t DEF Settled, TypeOK, Cmds
  <2>3. TypeOK' /\ NoneStale'
    BY <2>1, <2>2, <1>t DEF TypeOK, NoneStale, lists
  <2> QED
    BY <2>1, <2>3, ListsAlone DEF Inv, lists
<1>10. CASE NextTest
  <2>1. /\ UNCHANGED <<alive, mMetaData, lists, kernel, fresh>>
        /\ pc' = "test" /\ alive = {} /\ sent' = NoBuf /\ refused' = FALSE
    BY <1>10 DEF NextTest
  <2>2. TypeOK' /\ NoneStale'
    BY <2>1, <1>t DEF TypeOK, NoneStale, lists
  <2> QED
    BY <2>1, <2>2, ListsAlone DEF Inv, lists
<1> QED
  BY <1>1, <1>2, <1>3, <1>4, <1>5, <1>6, <1>7, <1>8, <1>9, <1>10,
     ReserveReleasedKeeps, ReserveNewKeeps DEF Next

LEMMA InvHolds == Spec => []Inv
  BY InvInit, InvNext, PTL DEF Spec

-----------------------------------------------------------------------------
(***************************************************************************)
(* The theorems                                                            *)
(***************************************************************************)
\* Every variable keeps its type: in particular no list ever has an ID of
\* 1 << METADATA_UNIQUE_ID_BITS or more.
THEOREM MetaTypesKept == Spec => []TypeOK
  BY InvHolds, PTL DEF Inv

\* The reserved list is ordered, as both searches of ReserveMetaBuf() take
\* for granted.
THEOREM ReservedStaysOrdered == Spec => []ReservedOrdered
  BY InvHolds, PTL DEF Inv

\* dnvme holds memory for the IDs on the two lists and no others, each on one
\* list and once: no buffer leaks and none is freed twice.
THEOREM ListsMatch == Spec => []ListsMatchKernel
<1>1. Inv => ListsMatchKernel
  <2> SUFFICES ASSUME Inv PROVE ListsMatchKernel
    OBVIOUS
  <2> DEFINE n == Len(mMetaReserved) + Len(mMetaReleased)
  <2>1. n \in Nat /\ kernel = 0 .. n - 1
    BY DEF Inv, TypeOK, Contiguous
  <2> HIDE DEF n
  <2>2. Cardinality(kernel) = n
    BY <2>1, FS_Interval
  <2> QED
    BY <2>2 DEF Inv, Contiguous, ListsMatchKernel, n
<1> QED
  BY <1>1, InvHolds, PTL

\* The IDs dnvme holds are the first ones, without a gap, whatever was
\* released and reserved again: reuse comes before a new ID.
THEOREM IDsStayContiguous == Spec => []IDsContiguous
<1>1. Inv => IDsContiguous
  <2> SUFFICES ASSUME Inv PROVE IDsContiguous
    OBVIOUS
  <2> DEFINE n == Len(mMetaReserved) + Len(mMetaReleased)
  <2>1. n \in Nat /\ kernel = 0 .. n - 1
    BY DEF Inv, TypeOK, Contiguous
  <2> HIDE DEF n
  <2>2. Cardinality(kernel) = n
    BY <2>1, FS_Interval
  <2> QED
    BY <2>1, <2>2 DEF IDsContiguous
<1> QED
  BY <1>1, InvHolds, PTL

\* Commands given a buffer since the last disable have different ones, and
\* each of them is still reserved: no destructor gave it back for another.
THEOREM BuffersAreOwn == Spec => []HoldersDistinct
  BY InvHolds, PTL DEF Inv

\* ReserveMetaBuf() returns false only when all IDs are reserved: the search
\* for a unique ID overlooks none that is free.
THEOREM RefusedWhenFull == Spec => RefusedOnlyWhenFull
<1> DEFINE Full == refused' /\ ~refused => RangeOf(mMetaReserved) = IDs
<1>1. Inv /\ [Next]_vars => [Full]_vars
  <2> SUFFICES ASSUME Inv, Next, refused', ~refused
               PROVE  RangeOf(mMetaReserved) = IDs
    BY DEF vars
  <2>1. PICK c \in Cmds : ReserveRefused(c)
    BY DEF Next, NewCmd, ReserveReleased, ReserveNew, Reserved, ReserveDenied,
           Send, EndOfLoop, Unwind, Delete, SetMetaAllocSize, DisableInTest,
           EndTest, NextTest
  <2>2. mMetaReserved \in Seq(IDs) /\ mMetaReserved \in Seq(Nat)
    BY MetaAssumption DEF Inv, TypeOK, IDs
  <2>3. FreeID(mMetaReserved) >= NumIDs
    BY <2>1 DEF ReserveRefused
  <2>4. /\ FreeID(mMetaReserved) \in 0 .. Len(mMetaReserved)
        /\ \A i \in 1 .. FreeID(mMetaReserved) : mMetaReserved[i] = i - 1
    BY <2>2, FreeIDStops
  <2>5. ASSUME NEW id \in IDs PROVE id \in RangeOf(mMetaReserved)
    <3>1. id \in Nat /\ id < NumIDs /\ NumIDs \in Nat
      BY MetaAssumption DEF IDs
    <3>2. id + 1 \in 1 .. FreeID(mMetaReserved)
      BY <2>3, <2>4, <3>1
    <3>3. mMetaReserved[id + 1] = id /\ id + 1 \in 1 .. Len(mMetaReserved)
      BY <2>2, <2>4, <3>1, <3>2
    <3> QED
      BY <2>2, <3>1, <3>3 DEF RangeOf
  <2>6. RangeOf(mMetaReserved) \subseteq IDs
    BY <2>2 DEF RangeOf
  <2> QED
    BY <2>5, <2>6
<1> QED
  BY <1>1, InvHolds, PTL DEF Spec, RefusedOnlyWhenFull
=============================================================================
