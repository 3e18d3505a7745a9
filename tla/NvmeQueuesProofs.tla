-------------------------- MODULE NvmeQueuesProofs --------------------------
(***************************************************************************)
(* Going round a ring of n entries, for every n: the arithmetic behind the *)
(* pointers of SQ's and CQ's, and what a CQ holds between the two of its   *)
(* own when a CE arrives and when CEs are reaped.                          *)
(***************************************************************************)
EXTENDS NvmeQueues, FiniteSetTheorems, TLAPS

-----------------------------------------------------------------------------
(***************************************************************************)
(* Remainders                                                              *)
(***************************************************************************)
LEMMA Remainder ==
  ASSUME NEW n \in Nat \ {0}, NEW q \in Int, NEW r \in 0 .. n - 1
  PROVE  (n * q + r) % n = r
  OBVIOUS

LEMMA Division ==
  ASSUME NEW n \in Nat \ {0}, NEW x \in Nat
  PROVE  x = n * (x \div n) + (x % n) /\ x \div n \in Nat /\ x % n \in 0 .. n - 1
  OBVIOUS

\* Counting on, the pointer moves on.
LEMMA CountOn ==
  ASSUME NEW n \in Nat \ {0}, NEW x \in Nat
  PROVE  (x + 1) % n = ((x % n) + 1) % n
<1> DEFINE q == x \div n
           r == x % n
<1>1. x = n * q + r /\ q \in Int /\ r \in 0 .. n - 1
  BY Division
<1> HIDE DEF q, r
<1>2. CASE r + 1 < n
  <2> DEFINE s == r + 1
  <2>1. s \in 0 .. n - 1 /\ x + 1 = n * q + s
    BY <1>1, <1>2
  <2> HIDE DEF s
  <2>2. (n * q + s) % n = s /\ s % n = s
    BY <1>1, <2>1, Remainder
  <2>3. (x + 1) % n = s % n
    BY <2>1, <2>2
  <2> QED
    BY <2>3 DEF s, r
<1>3. CASE ~(r + 1 < n)
  <2>1. r + 1 = n
    BY <1>1, <1>3
  <2>2. n * (q + 1) = n * q + n
    BY <1>1
  <2>3. x + 1 = n * (q + 1) + 0
    BY <1>1, <2>1, <2>2
  <2>4. (n * (q + 1) + 0) % n = 0 /\ n % n = 0
    BY <1>1, Remainder
  <2>5. (x + 1) % n = (r + 1) % n
    BY <2>1, <2>3, <2>4
  <2> QED
    BY <2>5 DEF r
<1> QED
  BY <1>2, <1>3

-----------------------------------------------------------------------------
(***************************************************************************)
(* Distances                                                               *)
(***************************************************************************)
LEMMA Wrap ==
  ASSUME NEW n \in Nat \ {0}
  PROVE  /\ \A x \in 0 .. n - 1 : x % n = x
         /\ \A x \in n .. 2 * n - 1 : x % n = x - n
         /\ \A x \in -n .. -1 : x % n = x + n
<1>1. ASSUME NEW x \in 0 .. n - 1 PROVE x % n = x
  OBVIOUS
<1>2. ASSUME NEW x \in n .. 2 * n - 1 PROVE x % n = x - n
  OBVIOUS
<1>3. ASSUME NEW x \in -n .. -1 PROVE x % n = x + n
  OBVIOUS
<1> QED
  BY <1>1, <1>2, <1>3

LEMMA Successor ==
  ASSUME NEW n \in Nat \ {0}, NEW p \in 0 .. n - 1
  PROVE  /\ (p + 1) % n = IF p = n - 1 THEN 0 ELSE p + 1
         /\ (p + 1) % n \in 0 .. n - 1
<1>1. CASE p = n - 1
  <2>1. p + 1 \in n .. 2 * n - 1 /\ p + 1 - n = 0
    BY <1>1
  <2>2. (p + 1) % n = 0
    BY <2>1, Wrap
  <2> QED
    BY <1>1, <2>2
<1>2. CASE p # n - 1
  <2>1. p + 1 \in 0 .. n - 1
    BY <1>2
  <2>2. (p + 1) % n = p + 1
    BY <2>1, Wrap
  <2> QED
    BY <1>2, <2>1, <2>2
<1> QED
  BY <1>1, <1>2

LEMMA DistanceIs ==
  ASSUME NEW n \in Nat \ {0}, NEW a \in 0 .. n - 1, NEW b \in 0 .. n - 1
  PROVE  /\ Distance(a, b, n) = IF a <= b THEN b - a ELSE b - a + n
         /\ Distance(a, b, n) \in 0 .. n - 1
<1>1. CASE a <= b
  <2>1. b - a \in 0 .. n - 1
    BY <1>1
  <2>2. (b - a) % n = b - a
    BY <2>1, Wrap
  <2> QED
    BY <1>1, <2>1, <2>2 DEF Distance
<1>2. CASE ~(a <= b)
  <2>1. b - a \in -n .. -1 /\ b - a + n \in 0 .. n - 1
    BY <1>2
  <2>2. (b - a) % n = b - a + n
    BY <2>1, Wrap
  <2> QED
    BY <1>2, <2>1, <2>2 DEF Distance
<1> QED
  BY <1>1, <1>2

\* One entry is where it is, and another one is somewhere else.
LEMMA DistanceTells ==
  ASSUME NEW n \in Nat \ {0}, NEW a \in 0 .. n - 1, NEW b \in 0 .. n - 1,
         NEW c \in 0 .. n - 1
  PROVE  /\ Distance(a, a, n) = 0
         /\ Distance(a, b, n) = Distance(a, c, n) => b = c
<1>1. Distance(a, a, n) = 0
  BY DistanceIs
<1>2. Distance(a, b, n) = IF a <= b THEN b - a ELSE b - a + n
  BY DistanceIs
<1>3. Distance(a, c, n) = IF a <= c THEN c - a ELSE c - a + n
  BY DistanceIs
<1> QED
  BY <1>1, <1>2, <1>3

\* The entry after b is one further away, unless the round is complete.
LEMMA DistanceNext ==
  ASSUME NEW n \in Nat \ {0}, NEW a \in 0 .. n - 1, NEW b \in 0 .. n - 1,
         (b + 1) % n # a
  PROVE  Distance(a, (b + 1) % n, n) = Distance(a, b, n) + 1
<1>1. (b + 1) % n \in 0 .. n - 1
  BY Successor
<1> DEFINE s == (b + 1) % n
<1>2. s = IF b = n - 1 THEN 0 ELSE b + 1
  BY Successor
<1>3. s \in 0 .. n - 1 /\ s # a
  BY <1>1
<1> HIDE DEF s
<1>4. Distance(a, s, n) = Distance(a, b, n) + 1
  <2>1. Distance(a, b, n) = IF a <= b THEN b - a ELSE b - a + n
    BY DistanceIs
  <2>2. Distance(a, s, n) = IF a <= s THEN s - a ELSE s - a + n
    BY <1>3, DistanceIs
  <2> QED
    BY <1>2, <1>3, <2>1, <2>2
<1> QED
  BY <1>4 DEF s

\* Seen from an entry b on the way, c is that much nearer.
LEMMA DistanceFrom ==
  ASSUME NEW n \in Nat \ {0}, NEW a \in 0 .. n - 1, NEW b \in 0 .. n - 1,
         NEW c \in 0 .. n - 1, Distance(a, b, n) <= Distance(a, c, n)
  PROVE  Distance(b, c, n) = Distance(a, c, n) - Distance(a, b, n)
<1>1. Distance(a, b, n) = IF a <= b THEN b - a ELSE b - a + n
  BY DistanceIs
<1>2. Distance(a, c, n) = IF a <= c THEN c - a ELSE c - a + n
  BY DistanceIs
<1>3. Distance(b, c, n) = IF b <= c THEN c - b ELSE c - b + n
  BY DistanceIs
<1> QED
  BY <1>1, <1>2, <1>3

\* The entries that lie before b as one goes round from a.
LEMMA EntriesBefore ==
  ASSUME NEW n \in Nat \ {0}, NEW a \in 0 .. n - 1, NEW b \in 0 .. n - 1
  PROVE  {(a + i) % n : i \in 0 .. Distance(a, b, n) - 1} =
           {x \in 0 .. n - 1 : Distance(a, x, n) < Distance(a, b, n)}
<1> DEFINE d == Distance(a, b, n)
<1>0. d \in 0 .. n - 1
  BY DistanceIs
<1> HIDE DEF d
<1>1. ASSUME NEW i \in 0 .. d - 1
      PROVE  (a + i) % n \in 0 .. n - 1 /\ Distance(a, (a + i) % n, n) = i
  <2>1. CASE a + i < n
    <3>1. a + i \in 0 .. n - 1
      BY <1>0, <2>1
    <3>2. (a + i) % n = a + i
      BY <3>1, Wrap
    <3>3. Distance(a, a + i, n) = i
      <4> DEFINE y == a + i
      <4>1. y \in 0 .. n - 1 /\ a <= y /\ y - a = i
        BY <1>0, <3>1
      <4> HIDE DEF y
      <4>2. Distance(a, y, n) = i
        BY <4>1, DistanceIs
      <4> QED
        BY <4>2 DEF y
    <3> QED
      BY <3>1, <3>2, <3>3
  <2>2. CASE ~(a + i < n)
    <3>1. a + i \in n .. 2 * n - 1 /\ a + i - n \in 0 .. n - 1
      BY <1>0, <2>2
    <3>2. (a + i) % n = a + i - n
      <4> DEFINE y == a + i
      <4>1. y \in n .. 2 * n - 1
        BY <3>1
      <4> HIDE DEF y
      <4>2. y % n = y - n
        BY <4>1, Wrap
      <4> QED
        BY <4>2 DEF y
    <3>3. Distance(a, a + i - n, n) = i
      <4> DEFINE y == a + i - n
      <4>1. y \in 0 .. n - 1 /\ ~(a <= y) /\ y - a + n = i
        BY <1>0, <3>1
      <4> HIDE DEF y
      <4>2. Distance(a, y, n) = i
        BY <4>1, DistanceIs
      <4> QED
        BY <4>2 DEF y
    <3> QED
      BY <3>1, <3>2, <3>3
  <2> QED
    BY <2>1, <2>2
<1>2. ASSUME NEW x \in 0 .. n - 1, Distance(a, x, n) < d
      PROVE  \E i \in 0 .. d - 1 : x = (a + i) % n
  <2> DEFINE i == Distance(a, x, n)
  <2>1. i \in 0 .. n - 1 /\ i = IF a <= x THEN x - a ELSE x - a + n
    BY DistanceIs
  <2>2. i < d
    BY <1>2
  <2> HIDE DEF i
  <2>3. i \in 0 .. d - 1
    BY <1>0, <2>1, <2>2
  <2>4. (a + i) % n = x
    <3>1. CASE a <= x
      <4>1. a + i = x
        BY <2>1, <3>1
      <4>2. x % n = x
        BY Wrap
      <4> QED
        BY <4>1, <4>2
    <3>2. CASE ~(a <= x)
      <4> DEFINE y == a + i
      <4>1. y \in n .. 2 * n - 1 /\ y - n = x
        BY <2>1, <3>2
      <4> HIDE DEF y
      <4>2. y % n = y - n
        BY <4>1, Wrap
      <4> QED
        BY <4>1, <4>2 DEF y
    <3> QED
      BY <3>1, <3>2
  <2> QED
    BY <2>3, <2>4
<1>3. {(a + i) % n : i \in 0 .. d - 1} =
        {x \in 0 .. n - 1 : Distance(a, x, n) < d}
  <2>1. ASSUME NEW x \in {(a + i) % n : i \in 0 .. d - 1}
        PROVE  x \in 0 .. n - 1 /\ Distance(a, x, n) < d
    <3>1. PICK i \in 0 .. d - 1 : x = (a + i) % n
      OBVIOUS
    <3>2. x \in 0 .. n - 1 /\ Distance(a, x, n) = i
      BY <1>1, <3>1
    <3> QED
      BY <1>0, <3>2
  <2> QED
    BY <1>2, <2>1
<1> QED
  BY <1>3 DEF d

\* The entries that lie before b as one goes round from a.
Between(a, b, n) == {x \in 0 .. n - 1 : Distance(a, x, n) < Distance(a, b, n)}

\* A pointer that has come all the way round is one short of where it began.
LEMMA RoundComplete ==
  ASSUME NEW n \in Nat \ {0}, NEW a \in 0 .. n - 1, NEW b \in 0 .. n - 1
  PROVE  (b + 1) % n = a <=> Distance(a, b, n) = n - 1
<1>1. (b + 1) % n = IF b = n - 1 THEN 0 ELSE b + 1
  BY Successor
<1>2. Distance(a, b, n) = IF a <= b THEN b - a ELSE b - a + n
  BY DistanceIs
<1> QED
  BY <1>1, <1>2

\* The entry t further on than a.
LEMMA FurtherOn ==
  ASSUME NEW n \in Nat \ {0}, NEW a \in 0 .. n - 1, NEW t \in 0 .. n - 1
  PROVE  (a + t) % n \in 0 .. n - 1 /\ Distance(a, (a + t) % n, n) = t
<1> DEFINE y == a + t
<1>1. CASE y < n
  <2>1. y \in 0 .. n - 1 /\ a <= y /\ y - a = t
    BY <1>1
  <2> HIDE DEF y
  <2>2. y % n = y /\ Distance(a, y, n) = t
    BY <2>1, Wrap, DistanceIs
  <2> QED
    BY <2>1, <2>2 DEF y
<1>2. CASE ~(y < n)
  <2> DEFINE z == y - n
  <2>1. y \in n .. 2 * n - 1 /\ z \in 0 .. n - 1 /\ ~(a <= z) /\ z - a + n = t
    BY <1>2
  <2>2. y % n = z
    <3> HIDE DEF y
    <3> QED
      BY <2>1, Wrap
  <2> HIDE DEF z
  <2>3. Distance(a, z, n) = t
    BY <2>1, DistanceIs
  <2> QED
    BY <2>1, <2>2, <2>3 DEF y
<1> QED
  BY <1>1, <1>2

\* What is written at b comes behind all that is between a and b.
LEMMA BetweenGrows ==
  ASSUME NEW n \in Nat \ {0}, NEW a \in 0 .. n - 1, NEW b \in 0 .. n - 1,
         (b + 1) % n # a
  PROVE  /\ Between(a, (b + 1) % n, n) = Between(a, b, n) \cup {b}
         /\ b \notin Between(a, b, n)
<1>1. Distance(a, (b + 1) % n, n) = Distance(a, b, n) + 1
  BY DistanceNext
<1>2. \A x \in 0 .. n - 1 : Distance(a, x, n) \in 0 .. n - 1
  BY DistanceIs
<1>3. \A x \in 0 .. n - 1 : Distance(a, x, n) = Distance(a, b, n) => x = b
  BY DistanceTells
<1>4. \A x \in 0 .. n - 1 :
        Distance(a, x, n) < Distance(a, b, n) + 1
          <=> Distance(a, x, n) < Distance(a, b, n) \/ x = b
  BY <1>2, <1>3
<1> QED
  BY <1>1, <1>2, <1>4 DEF Between

\* Without the first, the rest is one nearer.
LEMMA BetweenShrinks ==
  ASSUME NEW n \in Nat \ {0, 1}, NEW a \in 0 .. n - 1, NEW b \in 0 .. n - 1, a # b
  PROVE  /\ Distance((a + 1) % n, b, n) = Distance(a, b, n) - 1
         /\ a \in Between(a, b, n)
         /\ Between((a + 1) % n, b, n) = Between(a, b, n) \ {a}
<1> DEFINE s == (a + 1) % n
<1>1. s \in 0 .. n - 1 /\ s = IF a = n - 1 THEN 0 ELSE a + 1
  BY Successor
<1>2. \A x \in 0 .. n - 1 : Distance(a, x, n) = IF a <= x THEN x - a ELSE x - a + n
  BY DistanceIs
<1> HIDE DEF s
<1>3. \A x \in 0 .. n - 1 : Distance(s, x, n) = IF s <= x THEN x - s ELSE x - s + n
  BY <1>1, DistanceIs
<1>4. \A x \in 0 .. n - 1 :
        Distance(s, x, n) = IF x = a THEN n - 1 ELSE Distance(a, x, n) - 1
  BY <1>1, <1>2, <1>3
<1>5. \A x \in 0 .. n - 1 : Distance(a, x, n) \in 0 .. n - 1
  BY DistanceIs
<1>6. Distance(s, b, n) = Distance(a, b, n) - 1 /\ Distance(a, a, n) = 0
  BY <1>2, <1>4
<1>7. a \in Between(a, b, n)
  BY <1>2, <1>6 DEF Between
<1>8. \A x \in 0 .. n - 1 :
        Distance(s, x, n) < Distance(s, b, n)
          <=> Distance(a, x, n) < Distance(a, b, n) /\ x # a
  BY <1>4, <1>5, <1>6
<1>9. Between(s, b, n) = Between(a, b, n) \ {a}
  BY <1>8 DEF Between
<1> QED
  BY <1>6, <1>7, <1>9 DEF s

\* The last entry before b.
LEMMA LastBetween ==
  ASSUME NEW n \in Nat \ {0}, NEW a \in 0 .. n - 1, NEW b \in 0 .. n - 1, a # b
  PROVE  \E i \in Between(a, b, n) :
           /\ (i + 1) % n = b /\ Distance(a, i, n) = Distance(a, b, n) - 1
           /\ \A j \in Between(a, b, n) : /\ (j + 1) % n = b => j = i
                                          /\ Distance(a, j, n) <= Distance(a, i, n)
<1> DEFINE i == IF b = 0 THEN n - 1 ELSE b - 1
<1>1. i \in 0 .. n - 1 /\ i = IF b = 0 THEN n - 1 ELSE b - 1
  OBVIOUS
<1> HIDE DEF i
<1>2. \A x \in 0 .. n - 1 : Distance(a, x, n) = IF a <= x THEN x - a ELSE x - a + n
  BY DistanceIs
<1>3. \A x \in 0 .. n - 1 : (x + 1) % n = IF x = n - 1 THEN 0 ELSE x + 1
  BY Successor
<1>4. (i + 1) % n = b /\ Distance(a, i, n) = Distance(a, b, n) - 1
  BY <1>1, <1>2, <1>3
<1>5. i \in Between(a, b, n)
  BY <1>1, <1>2, <1>4 DEF Between
<1>6. ASSUME NEW j \in Between(a, b, n)
      PROVE  ((j + 1) % n = b => j = i) /\ Distance(a, j, n) <= Distance(a, i, n)
  <2>1. j \in 0 .. n - 1 /\ Distance(a, j, n) < Distance(a, b, n)
    BY DEF Between
  <2>2. (j + 1) % n = b => j = i
    BY <1>1, <1>3, <2>1
  <2>3. Distance(a, j, n) \in Int /\ Distance(a, b, n) \in Int
    BY <1>2, <2>1
  <2> QED
    BY <1>4, <2>1, <2>2, <2>3
<1> QED
  BY <1>4, <1>5, <1>6

-----------------------------------------------------------------------------
(***************************************************************************)
(* The completion queue                                                    *)
(***************************************************************************)
CQTypes ==
  /\ cqElements \in Nat \ {0, 1}
  /\ cqHead \in 0 .. cqElements - 1 /\ cqTail \in 0 .. cqElements - 1

\* What waits lies between the pointers, and one entry stays empty.
WaitingIs ==
  /\ Waiting = Between(cqHead, cqTail, cqElements)
  /\ ReapInquiry \in 0 .. cqElements - 1
  /\ CQFull <=> ReapInquiry = cqElements - 1
  /\ ReapInquiry = 0 <=> cqHead = cqTail
  /\ Waiting \subseteq 0 .. cqElements - 1
  /\ ReapInquiry = 0 => Waiting = {}

LEMMA Waits == CQTypes => WaitingIs
<1> SUFFICES ASSUME CQTypes PROVE WaitingIs
  OBVIOUS
<1>1. /\ cqElements \in Nat \ {0} /\ cqElements \in Nat \ {0, 1}
      /\ cqHead \in 0 .. cqElements - 1 /\ cqTail \in 0 .. cqElements - 1
  BY DEF CQTypes
<1>2. {(cqHead + i) % cqElements : i \in 0 .. Distance(cqHead, cqTail, cqElements) - 1} =
        Between(cqHead, cqTail, cqElements)
  BY <1>1, EntriesBefore, Zenon DEF Between
<1>3. Waiting = Between(cqHead, cqTail, cqElements)
  BY <1>2, Zenon DEF Waiting, ReapInquiry
<1>4. ReapInquiry \in 0 .. cqElements - 1
  BY <1>1, DistanceIs DEF ReapInquiry
<1>5. CQFull <=> ReapInquiry = cqElements - 1
  BY <1>1, RoundComplete DEF CQFull, ReapInquiry
<1>6. ReapInquiry = 0 <=> cqHead = cqTail
  BY <1>1, DistanceTells DEF ReapInquiry
<1>7. ReapInquiry = 0 => Waiting = {}
  BY <1>1, <1>3, <1>6, DistanceIs, DistanceTells DEF Between, ReapInquiry
<1>8. Waiting \subseteq 0 .. cqElements - 1
  BY <1>3 DEF Between
<1> QED
  BY <1>3, <1>4, <1>5, <1>6, <1>7, <1>8 DEF WaitingIs

\* The device writes a CE where none waits.
LEMMA CEArrives ==
  ASSUME CQTypes, ~CQFull, cqTail' = (cqTail + 1) % cqElements, cqHead' = cqHead,
         cqElements' = cqElements
  PROVE  /\ CQTypes' /\ ReapInquiry' = ReapInquiry + 1
         /\ Waiting' = Waiting \cup {cqTail} /\ cqTail \notin Waiting
<1>1. /\ cqElements \in Nat \ {0} /\ cqElements \in Nat \ {0, 1}
      /\ cqHead \in 0 .. cqElements - 1 /\ cqTail \in 0 .. cqElements - 1
      /\ (cqTail + 1) % cqElements # cqHead
  BY DEF CQTypes, CQFull
<1>2. cqTail' \in 0 .. cqElements - 1
  BY <1>1, Successor
<1>3. CQTypes'
  BY <1>1, <1>2 DEF CQTypes
<1>4. Waiting = Between(cqHead, cqTail, cqElements)
  BY Waits DEF WaitingIs
<1>5. Waiting' = Between(cqHead, (cqTail + 1) % cqElements, cqElements)
  <2>1. WaitingIs'
    BY <1>3, Waits, PTL
  <2> QED
    BY <2>1 DEF WaitingIs
<1>6. ReapInquiry' = ReapInquiry + 1
  BY <1>1, DistanceNext DEF ReapInquiry
<1> QED
  BY <1>1, <1>3, <1>4, <1>5, <1>6, BetweenGrows

\* Reaping one CE takes the one at the head.
LEMMA CETaken ==
  ASSUME CQTypes, ReapInquiry # 0, cqHead' = (cqHead + 1) % cqElements,
         cqTail' = cqTail, cqElements' = cqElements
  PROVE  /\ CQTypes' /\ ReapInquiry' = ReapInquiry - 1
         /\ cqHead \in Waiting /\ Waiting' = Waiting \ {cqHead}
<1>1. /\ cqElements \in Nat \ {0} /\ cqElements \in Nat \ {0, 1}
      /\ cqHead \in 0 .. cqElements - 1 /\ cqTail \in 0 .. cqElements - 1
  BY DEF CQTypes
<1>2. cqHead' \in 0 .. cqElements - 1
  BY <1>1, Successor
<1>3. CQTypes'
  BY <1>1, <1>2 DEF CQTypes
<1>4. Waiting = Between(cqHead, cqTail, cqElements) /\ cqHead # cqTail
  BY Waits DEF WaitingIs
<1>5. Waiting' = Between((cqHead + 1) % cqElements, cqTail, cqElements)
  <2>1. WaitingIs'
    BY <1>3, Waits, PTL
  <2> QED
    BY <2>1 DEF WaitingIs
<1>6. ReapInquiry' = ReapInquiry - 1
  BY <1>1, <1>4, BetweenShrinks DEF ReapInquiry
<1> QED
  BY <1>1, <1>3, <1>4, <1>5, <1>6, BetweenShrinks

LEMMA HeadWaits == CQTypes /\ ReapInquiry # 0 => cqHead \in Waiting
<1> SUFFICES ASSUME CQTypes, ReapInquiry # 0 PROVE cqHead \in Waiting
  OBVIOUS
<1>1. /\ cqElements \in Nat \ {0, 1} /\ cqHead # cqTail
      /\ cqHead \in 0 .. cqElements - 1 /\ cqTail \in 0 .. cqElements - 1
      /\ Waiting = Between(cqHead, cqTail, cqElements)
  BY Waits DEF CQTypes, WaitingIs
<1> QED
  BY <1>1, BetweenShrinks

LEMMA OneOrNone == CQTypes => (NumReaped(1) = 1 <=> ReapInquiry # 0)
  BY Waits DEF CQTypes, WaitingIs, NumReaped, Least, CEDesired

\* Between an entry and the next there is nothing else.
LEMMA Steps ==
  ASSUME NEW n \in Nat \ {0, 1}, NEW a \in 0 .. n - 1
  PROVE  (a + 1) % n # a /\ Distance(a, (a + 1) % n, n) = 1
<1>1. n \in Nat \ {0} /\ Distance(a, a, n) = 0 /\ 0 # n - 1
  BY DistanceTells
<1>2. (a + 1) % n # a
  BY <1>1, RoundComplete
<1> QED
  BY <1>1, <1>2, DistanceNext

LEMMA TheOnlyOne ==
  CQTypes /\ ReapInquiry = 1 => cqHead \in Waiting /\ (cqHead + 1) % cqElements = cqTail
<1> SUFFICES ASSUME CQTypes, ReapInquiry = 1
             PROVE  cqHead \in Waiting /\ (cqHead + 1) % cqElements = cqTail
  OBVIOUS
<1>1. /\ cqElements \in Nat \ {0} /\ cqElements \in Nat \ {0, 1}
      /\ cqHead \in 0 .. cqElements - 1 /\ cqTail \in 0 .. cqElements - 1
      /\ Waiting = Between(cqHead, cqTail, cqElements)
      /\ Distance(cqHead, cqTail, cqElements) = 1
  BY Waits DEF CQTypes, WaitingIs, ReapInquiry
<1>2. /\ Distance(cqHead, (cqHead + 1) % cqElements, cqElements) = 1
      /\ (cqHead + 1) % cqElements \in 0 .. cqElements - 1
  BY <1>1, Steps, Successor
<1>3. (cqHead + 1) % cqElements = cqTail
  BY <1>1, <1>2, DistanceTells
<1>4. cqHead \in Waiting
  BY <1>1, DistanceTells DEF Between
<1> QED
  BY <1>3, <1>4

\* CQ::Reap() of one CE takes the one at the head, and its SQHD.
LEMMA ReapsFirst ==
  ASSUME CQTypes, NumReaped(1) = 1, Reap(1)
  PROVE  /\ cqHead' = (cqHead + 1) % cqElements
         /\ head_ptr' = [q \in SQs |-> IF q = cqRing[cqHead].SQID THEN cqRing[cqHead].SQHD
                                       ELSE head_ptr[q]]
<1>1. cqElements \in Nat \ {0} /\ cqHead \in 0 .. cqElements - 1
  BY DEF CQTypes
<1> DEFINE R == {(cqHead + i) % cqElements : i \in 0 .. NumReaped(1) - 1}
           O(q) == {i \in R : cqRing[i].SQID = q}
           L(q) == CHOOSE i \in O(q) : \A j \in O(q) :
                     Distance(cqHead, j, cqElements) <= Distance(cqHead, i, cqElements)
           ce == cqRing[cqHead]
<1>2. /\ cqHead' = (cqHead + NumReaped(1)) % cqElements
      /\ head_ptr' = [q \in SQs |-> IF O(q) = {} THEN head_ptr[q]
                                    ELSE cqRing[L(q)].SQHD]
  BY DEF Reap
<1>3. R = {cqHead}
  <2>1. (cqHead + 0) % cqElements = cqHead
    <3>1. cqHead % cqElements = cqHead /\ cqHead + 0 = cqHead
      BY <1>1, Wrap
    <3> QED
      BY <3>1
  <2>2. 0 .. NumReaped(1) - 1 = {0}
    OBVIOUS
  <2> QED
    BY <2>1, <2>2
<1>4. Distance(cqHead, cqHead, cqElements) <= Distance(cqHead, cqHead, cqElements)
  BY <1>1, DistanceIs
<1> HIDE DEF R
<1>5. ASSUME NEW q \in SQs
      PROVE  (IF O(q) = {} THEN head_ptr[q] ELSE cqRing[L(q)].SQHD)
               = IF q = ce.SQID THEN ce.SQHD ELSE head_ptr[q]
  <2>1. CASE q = ce.SQID
    <3>1. O(q) = {cqHead}
      BY <1>3, <2>1
    <3> HIDE DEF O
    <3>2. \E i \in O(q) : \A j \in O(q) :
            Distance(cqHead, j, cqElements) <= Distance(cqHead, i, cqElements)
      BY <1>4, <3>1
    <3>3. L(q) \in O(q)
      BY <3>2
    <3> HIDE DEF L
    <3>4. L(q) = cqHead
      BY <3>1, <3>3
    <3> QED
      BY <2>1, <3>1, <3>4
  <2>2. CASE q # ce.SQID
    BY <1>3, <2>2
  <2> QED
    BY <2>1, <2>2
<1> HIDE DEF O, L, ce
<1>6. head_ptr' = [q \in SQs |-> IF q = ce.SQID THEN ce.SQHD ELSE head_ptr[q]]
  BY <1>2, <1>5
<1> QED
  BY <1>2, <1>6 DEF ce

\* CQ::Reap() of all that wait leaves the SQHD of the last, if all are of q.
LEMMA ReapsAll ==
  ASSUME CQTypes, NEW m, ReapInquiry # 0, NumReaped(m) = ReapInquiry, Reap(m),
         NEW q \in SQs, \A i \in Waiting : cqRing[i].SQID = q
  PROVE  /\ cqHead' = cqTail
         /\ \E e \in Waiting : /\ (e + 1) % cqElements = cqTail
                               /\ head_ptr'[q] = cqRing[e].SQHD
<1>1. /\ cqElements \in Nat \ {0} /\ cqHead \in 0 .. cqElements - 1
      /\ cqTail \in 0 .. cqElements - 1 /\ cqHead # cqTail
      /\ Waiting = Between(cqHead, cqTail, cqElements)
      /\ ReapInquiry \in 0 .. cqElements - 1
  BY Waits DEF CQTypes, WaitingIs
<1> DEFINE R == {(cqHead + i) % cqElements : i \in 0 .. NumReaped(m) - 1}
           O(p) == {i \in R : cqRing[i].SQID = p}
           L(p) == CHOOSE i \in O(p) : \A j \in O(p) :
                     Distance(cqHead, j, cqElements) <= Distance(cqHead, i, cqElements)
<1>2. R = Waiting
  BY Zenon DEF Waiting
<1>3. /\ cqHead' = (cqHead + ReapInquiry) % cqElements
      /\ head_ptr' = [p \in SQs |-> IF O(p) = {} THEN head_ptr[p]
                                    ELSE cqRing[L(p)].SQHD]
  BY DEF Reap
<1>4. cqHead' = cqTail
  <2>1. /\ cqHead' \in 0 .. cqElements - 1
        /\ Distance(cqHead, cqHead', cqElements) = ReapInquiry
    BY <1>1, <1>3, FurtherOn
  <2> QED
    BY <1>1, <2>1, DistanceTells DEF ReapInquiry
<1>5. O(q) = Waiting
  BY <1>2
<1>6. PICK e \in Waiting :
        /\ (e + 1) % cqElements = cqTail
        /\ \A j \in Waiting : Distance(cqHead, j, cqElements)
                                 <= Distance(cqHead, e, cqElements)
  BY <1>1, LastBetween
<1> HIDE DEF O
<1>7. /\ L(q) \in Waiting
      /\ \A j \in Waiting : Distance(cqHead, j, cqElements)
                               <= Distance(cqHead, L(q), cqElements)
  <2>1. \E i \in O(q) : \A j \in O(q) :
          Distance(cqHead, j, cqElements) <= Distance(cqHead, i, cqElements)
    BY <1>5, <1>6
  <2>2. L(q) \in O(q) /\ \A j \in O(q) :
          Distance(cqHead, j, cqElements) <= Distance(cqHead, L(q), cqElements)
    BY <2>1, Zenon
  <2> HIDE DEF L
  <2> QED
    BY <1>5, <2>2
<1> HIDE DEF L
<1>8. L(q) = e
  <2>1. L(q) \in 0 .. cqElements - 1 /\ e \in 0 .. cqElements - 1
    BY <1>1, <1>7 DEF Between
  <2>2. /\ Distance(cqHead, e, cqElements) <= Distance(cqHead, L(q), cqElements)
        /\ Distance(cqHead, L(q), cqElements) <= Distance(cqHead, e, cqElements)
    BY <1>6, <1>7
  <2>3. /\ Distance(cqHead, e, cqElements) \in Int
        /\ Distance(cqHead, L(q), cqElements) \in Int
    BY <1>1, <2>1, DistanceIs
  <2>4. Distance(cqHead, e, cqElements) = Distance(cqHead, L(q), cqElements)
    BY <2>2, <2>3
  <2> QED
    BY <1>1, <2>1, <2>4, DistanceTells
<1>9. head_ptr'[q] = cqRing[e].SQHD
  BY <1>3, <1>5, <1>6, <1>8
<1> QED
  BY <1>4, <1>6, <1>9
=============================================================================
