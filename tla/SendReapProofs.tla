--------------------------- MODULE SendReapProofs ---------------------------
(***************************************************************************)
(* For every size of the queues, number of SQs, of CIDs and of commands    *)
(* left with the device: IO::SendAndReapCmd() returns what it reaped, of a *)
(* command that is outstanding, and takes no entry of an SQ for good.      *)
(***************************************************************************)
EXTENDS SendReap, NvmeQueuesProofs

-----------------------------------------------------------------------------
(***************************************************************************)
(* What the pointers delimit                                               *)
(***************************************************************************)
\* An SQHD is an entry of the SQ.
RingCE == [SQID : SQs, CID : CIDs, SQHD : 0 .. SQSize - 1]

QueueTypes ==
  /\ sqElements = [q \in SQs |-> SQSize] /\ cqElements = CQSize
  /\ sqRing \in [SQs -> [0 .. SQSize - 1 -> CIDs]]
  /\ tail_ptr_virt \in [SQs -> 0 .. SQSize - 1]
  /\ tail_ptr \in [SQs -> 0 .. SQSize - 1]
  /\ head_ptr \in [SQs -> 0 .. SQSize - 1]
  /\ fetched \in [SQs -> 0 .. SQSize - 1]
  /\ executing \in [SQs -> SUBSET CIDs]
  /\ cqRing \in [0 .. CQSize - 1 -> RingCE \cup {NoCE}]
  /\ cqHead \in 0 .. CQSize - 1 /\ cqTail \in 0 .. CQSize - 1
  /\ cid \in [SQs -> CIDs]

\* How far p is from the head dnvme knows of q, and i from the head of the CQ.
Ahead(q, p) == Distance(head_ptr[q], p, SQSize)
Arrival(i) == Distance(cqHead, i, CQSize)

LEMMA SizeFacts ==
  /\ SQSize \in Nat \ {0} /\ SQSize - 1 \in Nat \ {0}
  /\ CQSize \in Nat \ {0} /\ CQSize - 1 \in Nat \ {0}
  /\ NumCIDs \in Nat \ {0}
  BY SendReapAssumption, QueuesAssumption

LEMMA Pointers ==
  ASSUME QueueTypes, NEW q \in SQs
  PROVE  /\ sqElements[q] = SQSize /\ cqElements = CQSize
         /\ tail_ptr_virt[q] \in 0 .. SQSize - 1 /\ tail_ptr[q] \in 0 .. SQSize - 1
         /\ head_ptr[q] \in 0 .. SQSize - 1 /\ fetched[q] \in 0 .. SQSize - 1
  BY DEF QueueTypes

\* What the sets of entries are, told by distances.
EntriesAre ==
  /\ Waiting = {i \in 0 .. CQSize - 1 : Arrival(i) < Arrival(cqTail)}
  /\ ReapInquiry = Arrival(cqTail)
  /\ \A q \in SQs :
       Unread(q) = {k \in 0 .. SQSize - 1 :
                      Distance(fetched[q], k, SQSize)
                        < Distance(fetched[q], tail_ptr_virt[q], SQSize)}

LEMMA Entries == QueueTypes => EntriesAre
<1> SUFFICES ASSUME QueueTypes PROVE EntriesAre
  OBVIOUS
<1>1. cqElements = CQSize /\ cqHead \in 0 .. CQSize - 1 /\ cqTail \in 0 .. CQSize - 1
  BY DEF QueueTypes
<1>2. ReapInquiry = Arrival(cqTail)
  BY <1>1 DEF ReapInquiry, Arrival
<1>3. Waiting = {i \in 0 .. CQSize - 1 : Arrival(i) < Arrival(cqTail)}
  <2>1. Waiting = {(cqHead + i) % CQSize : i \in 0 .. Distance(cqHead, cqTail, CQSize) - 1}
    BY <1>1, Zenon DEF Waiting, ReapInquiry
  <2>2. CQSize \in Nat \ {0}
    BY SizeFacts
  <2>3. {(cqHead + i) % CQSize : i \in 0 .. Distance(cqHead, cqTail, CQSize) - 1} =
          {x \in 0 .. CQSize - 1 :
             Distance(cqHead, x, CQSize) < Distance(cqHead, cqTail, CQSize)}
    BY <1>1, <2>2, EntriesBefore, Zenon
  <2> QED
    BY <2>1, <2>3 DEF Arrival
<1>4. ASSUME NEW q \in SQs
      PROVE  Unread(q) = {k \in 0 .. SQSize - 1 :
                            Distance(fetched[q], k, SQSize)
                              < Distance(fetched[q], tail_ptr_virt[q], SQSize)}
  <2>1. /\ sqElements[q] = SQSize /\ SQSize \in Nat \ {0}
        /\ fetched[q] \in 0 .. SQSize - 1 /\ tail_ptr_virt[q] \in 0 .. SQSize - 1
    BY SizeFacts, Pointers
  <2>2. Unread(q) = {(fetched[q] + i) % SQSize :
                       i \in 0 .. Distance(fetched[q], tail_ptr_virt[q], SQSize) - 1}
    BY <2>1, Zenon DEF Unread
  <2>3. {(fetched[q] + i) % SQSize :
             i \in 0 .. Distance(fetched[q], tail_ptr_virt[q], SQSize) - 1} =
          {x \in 0 .. SQSize - 1 : Distance(fetched[q], x, SQSize)
                                     < Distance(fetched[q], tail_ptr_virt[q], SQSize)}
    BY <2>1, EntriesBefore, Zenon
  <2> QED
    BY <2>2, <2>3
<1> QED
  BY <1>2, <1>3, <1>4 DEF EntriesAre

\* A CE goes where none waits, behind all that wait.
LEMMA CompleteAdds ==
  ASSUME QueueTypes, QueueTypes', ~CQFull, cqTail' = (cqTail + 1) % cqElements,
         cqHead' = cqHead
  PROVE  /\ Waiting' = Waiting \cup {cqTail} /\ cqTail \notin Waiting
         /\ \A i \in Waiting : Arrival(i) < Arrival(cqTail)
<1>1. cqElements = CQSize /\ cqHead \in 0 .. CQSize - 1 /\ cqTail \in 0 .. CQSize - 1
  BY DEF QueueTypes
<1>2. (cqTail + 1) % CQSize # cqHead
  BY <1>1 DEF CQFull
<1>3. Distance(cqHead, (cqTail + 1) % CQSize, CQSize) = Arrival(cqTail) + 1
  BY <1>1, <1>2, SizeFacts, DistanceNext DEF Arrival
<1>4. Waiting = {i \in 0 .. CQSize - 1 : Arrival(i) < Arrival(cqTail)}
  BY Entries DEF EntriesAre
<1>5. Waiting' = {i \in 0 .. CQSize - 1 : Arrival(i) < Arrival(cqTail) + 1}
  <2>1. Waiting' = {i \in 0 .. CQSize - 1 : Arrival(i)' < Arrival(cqTail)'}
    <3>1. EntriesAre'
      BY Entries, PTL
    <3> QED
      BY <3>1 DEF EntriesAre
  <2>2. /\ \A i : Arrival(i)' = Arrival(i)
        /\ Arrival(cqTail)' = Arrival(cqTail) + 1
    BY <1>1, <1>3 DEF Arrival
  <2> QED
    BY <2>1, <2>2
<1>6. \A i \in 0 .. CQSize - 1 : Arrival(i) \in Nat
  BY <1>1, SizeFacts, DistanceIs DEF Arrival
<1>7. \A i \in 0 .. CQSize - 1 : Arrival(i) = Arrival(cqTail) => i = cqTail
  BY <1>1, SizeFacts, DistanceTells DEF Arrival
<1>8. \A i \in 0 .. CQSize - 1 :
        Arrival(i) < Arrival(cqTail) + 1 <=> Arrival(i) < Arrival(cqTail) \/ i = cqTail
  BY <1>1, <1>6, <1>7
<1>9. ~(Arrival(cqTail) < Arrival(cqTail))
  BY <1>1, <1>6
<1> QED
  BY <1>1, <1>4, <1>5, <1>8, <1>9
\* The CE at the head is the one that arrived first.
LEMMA ReapTakes ==
  ASSUME QueueTypes, QueueTypes', ReapInquiry # 0, cqHead' = (cqHead + 1) % CQSize,
         cqTail' = cqTail
  PROVE  /\ cqHead \in Waiting /\ Waiting' = Waiting \ {cqHead}
         /\ \A i \in Waiting' : Arrival(cqHead) < Arrival(i)
         /\ \A i \in Waiting' : Arrival(i)' = Arrival(i) - 1
<1>1. /\ cqHead \in 0 .. CQSize - 1 /\ cqTail \in 0 .. CQSize - 1
      /\ cqHead' \in 0 .. CQSize - 1
  BY DEF QueueTypes
<1>2. \A i \in 0 .. CQSize - 1 : Arrival(i) \in Nat
  BY <1>1, SizeFacts, DistanceIs DEF Arrival
<1>3. Arrival(cqHead) = 0
  BY <1>1, SizeFacts, DistanceTells DEF Arrival
<1>4. \A i \in 0 .. CQSize - 1 : Arrival(i) = 0 => i = cqHead
  <2> SUFFICES ASSUME NEW i \in 0 .. CQSize - 1, Arrival(i) = 0 PROVE i = cqHead
    OBVIOUS
  <2>1. Distance(cqHead, i, CQSize) = Distance(cqHead, cqHead, CQSize)
    BY <1>3 DEF Arrival
  <2> QED
    BY <1>1, <2>1, SizeFacts, DistanceTells
<1>5. Waiting = {i \in 0 .. CQSize - 1 : Arrival(i) < Arrival(cqTail)}
      /\ Arrival(cqTail) # 0
  BY Entries DEF EntriesAre
<1>6. cqTail # cqHead
  BY <1>3, <1>5
<1>7. ASSUME NEW i \in 0 .. CQSize - 1, i # cqHead
      PROVE  Arrival(i)' = Arrival(i) - 1
  <2>1. Distance(cqHead, cqHead', CQSize) = IF CQSize = 1 THEN 0 ELSE 1
    <3>1. CQSize # 1
      BY SizeFacts
    <3>2. (cqHead + 1) % CQSize # cqHead
      BY <1>1, SizeFacts, Successor
    <3>3. Distance(cqHead, (cqHead + 1) % CQSize, CQSize)
            = Distance(cqHead, cqHead, CQSize) + 1
      BY <1>1, <3>2, SizeFacts, DistanceNext
    <3> QED
      BY <1>3, <3>1, <3>3 DEF Arrival
  <2>2. Distance(cqHead, cqHead', CQSize) = 1
    BY <2>1, SizeFacts
  <2>3. Arrival(i) # 0 /\ Arrival(i) \in Nat
    BY <1>2, <1>4, <1>7
  <2>4. Distance(cqHead, cqHead', CQSize) <= Distance(cqHead, i, CQSize)
    BY <2>2, <2>3 DEF Arrival
  <2>5. Distance(cqHead', i, CQSize)
          = Distance(cqHead, i, CQSize) - Distance(cqHead, cqHead', CQSize)
    BY <1>1, <2>4, SizeFacts, DistanceFrom
  <2> QED
    BY <2>2, <2>5 DEF Arrival
<1>8. Arrival(cqHead)' = 0 /\ Distance(cqHead', cqHead, CQSize) = CQSize - 1
  <2>1. Distance(cqHead', cqHead', CQSize) = 0
    BY <1>1, SizeFacts, DistanceTells
  <2>2. cqHead' = IF cqHead = CQSize - 1 THEN 0 ELSE cqHead + 1
    BY <1>1, SizeFacts, Successor
  <2>3. Distance(cqHead', cqHead, CQSize)
          = IF cqHead' <= cqHead THEN cqHead - cqHead' ELSE cqHead - cqHead' + CQSize
    BY <1>1, SizeFacts, DistanceIs
  <2> QED
    BY <1>1, <2>1, <2>2, <2>3, SizeFacts DEF Arrival
<1>9. Waiting' = {i \in 0 .. CQSize - 1 :
                    Distance(cqHead', i, CQSize) < Distance(cqHead', cqTail, CQSize)}
  <2>1. EntriesAre'
    BY Entries, PTL
  <2> QED
    BY <2>1 DEF EntriesAre, Arrival
<1>10. \A i \in 0 .. CQSize - 1 :
         i \in Waiting' <=> i # cqHead /\ Arrival(i) < Arrival(cqTail)
  <2> SUFFICES ASSUME NEW i \in 0 .. CQSize - 1
               PROVE  i \in Waiting' <=> i # cqHead /\ Arrival(i) < Arrival(cqTail)
    OBVIOUS
  <2>1. Distance(cqHead', cqTail, CQSize) = Arrival(cqTail) - 1
    BY <1>1, <1>6, <1>7 DEF Arrival
  <2>2. Arrival(cqTail) \in Nat /\ Arrival(i) \in Nat /\ Arrival(cqTail) < CQSize
    BY <1>1, <1>2, SizeFacts, DistanceIs DEF Arrival
  <2>3. CASE i = cqHead
    BY <1>8, <1>9, <2>1, <2>2, <2>3, SizeFacts
  <2>4. CASE i # cqHead
    <3>1. Distance(cqHead', i, CQSize) = Arrival(i) - 1
      BY <1>7, <2>4 DEF Arrival
    <3> QED
      BY <1>9, <2>1, <2>2, <2>4, <3>1
  <2> QED
    BY <2>3, <2>4
<1>11. cqHead \in Waiting
  BY <1>1, <1>2, <1>3, <1>5
<1>12. Waiting' = Waiting \ {cqHead}
  BY <1>5, <1>9, <1>10
<1>13. \A i \in Waiting' : Arrival(i)' = Arrival(i) - 1
  BY <1>5, <1>7, <1>12
<1>14. \A i \in Waiting' : Arrival(cqHead) < Arrival(i)
  BY <1>2, <1>3, <1>4, <1>5, <1>12
<1> QED
  BY <1>11, <1>12, <1>13, <1>14

\* The pointers of q in the order in which they go round.
SQOrder(q) ==
  /\ Ahead(q, fetched[q]) <= Ahead(q, tail_ptr[q])
  /\ Ahead(q, tail_ptr[q]) <= Ahead(q, tail_ptr_virt[q])

LEMMA AheadType ==
  ASSUME QueueTypes, NEW q \in SQs, NEW p \in 0 .. SQSize - 1
  PROVE  Ahead(q, p) \in 0 .. SQSize - 1
  BY Pointers, SizeFacts, DistanceIs DEF Ahead

\* A command goes where none is that the device has not read, although
\* SQ::Send() only knows of what was reaped.
LEMMA SendAdds ==
  ASSUME QueueTypes, QueueTypes', NEW q \in SQs, SQOrder(q), ~SQFull(q),
         tail_ptr_virt' = [tail_ptr_virt EXCEPT ![q] = (@ + 1) % sqElements[q]],
         fetched' = fetched
  PROVE  /\ Unread(q)' = Unread(q) \cup {tail_ptr_virt[q]}
         /\ tail_ptr_virt[q] \notin Unread(q)
         /\ \A p \in SQs \ {q} : Unread(p)' = Unread(p)
<1> DEFINE h == head_ptr[q]
           f == fetched[q]
           v == tail_ptr_virt[q]
           w == (v + 1) % SQSize
<1>1. /\ h \in 0 .. SQSize - 1 /\ f \in 0 .. SQSize - 1 /\ v \in 0 .. SQSize - 1
      /\ sqElements[q] = SQSize
  BY Pointers
<1>2. w \in 0 .. SQSize - 1 /\ w # h
  BY <1>1, SizeFacts, Successor DEF SQFull
<1>3. tail_ptr_virt'[q] = w /\ \A p \in SQs \ {q} : tail_ptr_virt'[p] = tail_ptr_virt[p]
  BY <1>1 DEF QueueTypes
<1>4. Distance(h, f, SQSize) <= Distance(h, v, SQSize)
  <2>1. /\ Ahead(q, fetched[q]) \in 0 .. SQSize - 1 /\ Ahead(q, tail_ptr[q]) \in 0 .. SQSize - 1
        /\ Ahead(q, tail_ptr_virt[q]) \in 0 .. SQSize - 1
    BY Pointers, AheadType
  <2> QED
    BY <2>1, SizeFacts DEF SQOrder, Ahead
<1>5. Distance(h, w, SQSize) = Distance(h, v, SQSize) + 1
  BY <1>1, <1>2, SizeFacts, DistanceNext
<1> HIDE DEF h, f, v, w
<1>6. /\ Distance(h, f, SQSize) \in Nat /\ Distance(h, v, SQSize) \in Nat
      /\ Distance(f, v, SQSize) \in Nat
  <2>1. \A a, b \in 0 .. SQSize - 1 : Distance(a, b, SQSize) \in Nat
    BY SizeFacts, DistanceIs
  <2> QED
    BY <1>1, <2>1
<1>7. Distance(f, w, SQSize) = Distance(f, v, SQSize) + 1
  <2>1. Distance(f, v, SQSize) = Distance(h, v, SQSize) - Distance(h, f, SQSize)
    BY <1>1, <1>4, SizeFacts, DistanceFrom
  <2>2. Distance(h, f, SQSize) <= Distance(h, w, SQSize)
    BY <1>4, <1>5, <1>6
  <2>3. Distance(f, w, SQSize) = Distance(h, w, SQSize) - Distance(h, f, SQSize)
    BY <1>1, <1>2, <2>2, SizeFacts, DistanceFrom
  <2> QED
    BY <1>5, <1>6, <2>1, <2>3
<1>8. /\ EntriesAre /\ EntriesAre'
  BY Entries, PTL
<1>9. Unread(q) = {k \in 0 .. SQSize - 1 : Distance(f, k, SQSize) < Distance(f, v, SQSize)}
  BY <1>8 DEF EntriesAre, f, v
<1>10. Unread(q)' = {k \in 0 .. SQSize - 1 :
                       Distance(f, k, SQSize) < Distance(f, v, SQSize) + 1}
  BY <1>3, <1>7, <1>8 DEF EntriesAre, f
<1>11. \A k \in 0 .. SQSize - 1 :
         /\ Distance(f, k, SQSize) \in Nat
         /\ Distance(f, k, SQSize) = Distance(f, v, SQSize) => k = v
  BY <1>1, SizeFacts, DistanceIs, DistanceTells
<1>12. Unread(q)' = Unread(q) \cup {v} /\ v \notin Unread(q)
  <2>1. \A k \in 0 .. SQSize - 1 :
          Distance(f, k, SQSize) < Distance(f, v, SQSize) + 1
            <=> Distance(f, k, SQSize) < Distance(f, v, SQSize) \/ k = v
    BY <1>1, <1>6, <1>11
  <2>2. ~(Distance(f, v, SQSize) < Distance(f, v, SQSize))
    BY <1>6
  <2> QED
    BY <1>1, <1>9, <1>10, <2>1, <2>2
<1>13. ASSUME NEW p \in SQs \ {q} PROVE Unread(p)' = Unread(p)
  BY <1>3, <1>8 DEF EntriesAre
<1> QED
  BY <1>12, <1>13 DEF v

\* The device reads the entry that was sent first.
LEMMA FetchTakes ==
  ASSUME QueueTypes, QueueTypes', NEW q \in SQs, SQOrder(q), fetched[q] # tail_ptr[q],
         fetched' = [fetched EXCEPT ![q] = (@ + 1) % sqElements[q]],
         tail_ptr_virt' = tail_ptr_virt
  PROVE  /\ fetched[q] \in Unread(q) /\ Unread(q)' = Unread(q) \ {fetched[q]}
         /\ \A p \in SQs \ {q} : Unread(p)' = Unread(p)
         /\ Ahead(q, fetched'[q]) = Ahead(q, fetched[q]) + 1
         /\ Ahead(q, fetched[q]) < Ahead(q, tail_ptr[q])
<1> DEFINE h == head_ptr[q]
           f == fetched[q]
           t == tail_ptr[q]
           v == tail_ptr_virt[q]
           w == (f + 1) % SQSize
<1>1. /\ h \in 0 .. SQSize - 1 /\ f \in 0 .. SQSize - 1 /\ v \in 0 .. SQSize - 1
      /\ t \in 0 .. SQSize - 1 /\ sqElements[q] = SQSize
  BY Pointers
<1>2. w \in 0 .. SQSize - 1 /\ w = IF f = SQSize - 1 THEN 0 ELSE f + 1
  BY <1>1, SizeFacts, Successor
<1>3. fetched'[q] = w /\ \A p \in SQs \ {q} : fetched'[p] = fetched[p]
  BY <1>1 DEF QueueTypes
<1>4. /\ Distance(h, f, SQSize) <= Distance(h, t, SQSize)
      /\ Distance(h, t, SQSize) <= Distance(h, v, SQSize)
      /\ f # t
  BY DEF SQOrder, Ahead
<1> HIDE DEF h, f, t, v, w
<1>5. /\ Distance(h, f, SQSize) = IF h <= f THEN f - h ELSE f - h + SQSize
      /\ Distance(h, t, SQSize) = IF h <= t THEN t - h ELSE t - h + SQSize
      /\ Distance(h, v, SQSize) = IF h <= v THEN v - h ELSE v - h + SQSize
      /\ Distance(h, w, SQSize) = IF h <= w THEN w - h ELSE w - h + SQSize
      /\ Distance(f, v, SQSize) = IF f <= v THEN v - f ELSE v - f + SQSize
      /\ Distance(w, v, SQSize) = IF w <= v THEN v - w ELSE v - w + SQSize
      /\ Distance(f, f, SQSize) = 0
  <2>1. \A a, b \in 0 .. SQSize - 1 :
          Distance(a, b, SQSize) = IF a <= b THEN b - a ELSE b - a + SQSize
    BY SizeFacts, DistanceIs
  <2>2. f <= f /\ f - f = 0
    BY <1>1
  <2> QED
    BY <1>1, <1>2, <2>1, <2>2
<1>6. /\ Distance(h, w, SQSize) = Distance(h, f, SQSize) + 1
      /\ Distance(h, f, SQSize) < Distance(h, t, SQSize)
      /\ Distance(w, v, SQSize) = Distance(f, v, SQSize) - 1
      /\ Distance(f, v, SQSize) > 0 /\ Distance(f, v, SQSize) < SQSize
  BY <1>1, <1>2, <1>4, <1>5, SizeFacts
<1>7. /\ EntriesAre /\ EntriesAre'
  BY Entries, PTL
<1>8. Unread(q) = {k \in 0 .. SQSize - 1 : Distance(f, k, SQSize) < Distance(f, v, SQSize)}
  BY <1>7 DEF EntriesAre, f, v
<1>9. Unread(q)' = {k \in 0 .. SQSize - 1 :
                      Distance(w, k, SQSize) < Distance(f, v, SQSize) - 1}
  BY <1>3, <1>6, <1>7 DEF EntriesAre, v
<1>10. ASSUME NEW k \in 0 .. SQSize - 1
       PROVE  Distance(w, k, SQSize) < Distance(f, v, SQSize) - 1
                <=> Distance(f, k, SQSize) < Distance(f, v, SQSize) /\ k # f
  <2>1. /\ Distance(w, k, SQSize) = IF w <= k THEN k - w ELSE k - w + SQSize
        /\ Distance(f, k, SQSize) = IF f <= k THEN k - f ELSE k - f + SQSize
    BY <1>1, <1>2, SizeFacts, DistanceIs
  <2> QED
    BY <1>1, <1>2, <1>5, <1>6, <2>1, SizeFacts
<1>11. f \in Unread(q) /\ Unread(q)' = Unread(q) \ {f}
  BY <1>1, <1>5, <1>6, <1>8, <1>9, <1>10
<1>12. ASSUME NEW p \in SQs \ {q} PROVE Unread(p)' = Unread(p)
  BY <1>3, <1>7 DEF EntriesAre
<1> QED
  BY <1>3, <1>6, <1>11, <1>12 DEF Ahead, h, f, t, w
-----------------------------------------------------------------------------
(***************************************************************************)
(* The rings stay intact                                                   *)
(***************************************************************************)
\* How far the CE in entry i tells dnvme that the device has read.
Tells(i) == Ahead(cqRing[i].SQID, cqRing[i].SQHD)

\* What waits is CE's, none of which tells of more than the device has read,
\* or of less than an earlier one of the same SQ.
CQOrder ==
  /\ \A i \in Waiting : cqRing[i] \in RingCE
  /\ \A i \in Waiting : Tells(i) <= Ahead(cqRing[i].SQID, fetched[cqRing[i].SQID])
  /\ \A i, j \in Waiting :
       cqRing[i].SQID = cqRing[j].SQID /\ Arrival(i) < Arrival(j)
         => Tells(i) <= Tells(j)

QueuesInv == QueueTypes /\ (\A q \in SQs : SQOrder(q)) /\ CQOrder

LEMMA UnchangedKeeps ==
  ASSUME QueuesInv, UNCHANGED queues
  PROVE  QueuesInv'
  BY DEF QueuesInv, QueueTypes, SQOrder, CQOrder, Ahead, Arrival, Tells, Waiting,
         ReapInquiry, queues, sizes, dnvme, device

LEMMA SendKeeps ==
  ASSUME QueuesInv, NEW q \in SQs, Send(q)
  PROVE  QueuesInv'
<1>0. QueueTypes /\ SQOrder(q) /\ CQOrder
  BY DEF QueuesInv
<1>1. /\ UNCHANGED <<sqElements, cqElements, tail_ptr, head_ptr, cqHead, fetched,
                     executing, cqRing, cqTail>>
      /\ tail_ptr_virt' = [tail_ptr_virt EXCEPT ![q] = (tail_ptr_virt[q] + 1) % SQSize]
      /\ (tail_ptr_virt[q] + 1) % SQSize # head_ptr[q]
      /\ sqRing' = [sqRing EXCEPT ![q][tail_ptr_virt[q]] = cid[q]]
      /\ cid' = [cid EXCEPT ![q] = (cid[q] + 1) % NumCIDs]
  BY <1>0, Pointers DEF Send, SQFull, sizes, device
<1>2. QueueTypes'
  <2>1. (tail_ptr_virt[q] + 1) % SQSize \in 0 .. SQSize - 1
    BY <1>0, Pointers, SizeFacts, Successor
  <2>2. cid[q] \in CIDs /\ (cid[q] + 1) % NumCIDs \in CIDs
    <3>1. cid[q] \in 0 .. NumCIDs - 1
      BY <1>0 DEF QueueTypes, CIDs
    <3> QED
      BY <3>1, SizeFacts, Successor DEF CIDs
  <2>3. sqRing' \in [SQs -> [0 .. SQSize - 1 -> CIDs]]
    BY <1>0, <1>1, <2>2 DEF QueueTypes
  <2>4. tail_ptr_virt' \in [SQs -> 0 .. SQSize - 1] /\ cid' \in [SQs -> CIDs]
    BY <1>0, <1>1, <2>1, <2>2 DEF QueueTypes
  <2> QED
    BY <1>0, <1>1, <2>3, <2>4 DEF QueueTypes
<1>3. ASSUME NEW p \in SQs PROVE SQOrder(p)'
  <2>0. SQOrder(p)
    BY DEF QueuesInv
  <2>1. CASE p = q
    <3>1. Distance(head_ptr[q], (tail_ptr_virt[q] + 1) % SQSize, SQSize)
            = Distance(head_ptr[q], tail_ptr_virt[q], SQSize) + 1
      BY <1>0, <1>1, Pointers, SizeFacts, DistanceNext
    <3>2. tail_ptr_virt'[q] = (tail_ptr_virt[q] + 1) % SQSize
      BY <1>0, <1>1 DEF QueueTypes
    <3>3. Ahead(q, tail_ptr_virt[q]) \in Nat /\ Ahead(q, tail_ptr[q]) \in Nat
      BY <1>0, Pointers, AheadType
    <3>4. Ahead(q, tail_ptr_virt[q])' = Ahead(q, tail_ptr_virt[q]) + 1
      BY <1>1, <3>1, <3>2 DEF Ahead
    <3>5. /\ Ahead(q, tail_ptr[q])' = Ahead(q, tail_ptr[q])
          /\ Ahead(q, fetched[q])' = Ahead(q, fetched[q])
      BY <1>1 DEF Ahead
    <3> QED
      BY <2>0, <2>1, <3>3, <3>4, <3>5 DEF SQOrder
  <2>2. CASE p # q
    <3>1. tail_ptr_virt'[p] = tail_ptr_virt[p]
      BY <1>0, <1>1, <2>2 DEF QueueTypes
    <3> QED
      BY <1>1, <2>0, <3>1 DEF SQOrder, Ahead
  <2> QED
    BY <2>1, <2>2
<1>4. CQOrder'
  BY <1>0, <1>1 DEF CQOrder, Waiting, ReapInquiry, Arrival, Tells, Ahead
<1> QED
  BY <1>2, <1>3, <1>4 DEF QueuesInv

LEMMA RingKeeps ==
  ASSUME QueuesInv, NEW q \in SQs, Ring(q)
  PROVE  QueuesInv'
<1>0. QueueTypes /\ CQOrder
  BY DEF QueuesInv
<1>1. /\ UNCHANGED <<sqElements, cqElements, tail_ptr_virt, head_ptr, cqHead, fetched,
                     executing, cqRing, cqTail, sqRing, cid>>
      /\ tail_ptr' = [tail_ptr EXCEPT ![q] = tail_ptr_virt[q]]
  BY DEF Ring, sizes, device
<1>2. QueueTypes'
  BY <1>0, <1>1 DEF QueueTypes
<1>3. ASSUME NEW p \in SQs PROVE SQOrder(p)'
  <2>0. SQOrder(p)
    BY DEF QueuesInv
  <2>1. tail_ptr'[p] = IF p = q THEN tail_ptr_virt[p] ELSE tail_ptr[p]
    BY <1>0, <1>1 DEF QueueTypes
  <2>2. /\ Ahead(p, tail_ptr_virt[p]) \in Nat /\ Ahead(p, tail_ptr[p]) \in Nat
        /\ Ahead(p, fetched[p]) \in Nat
    BY <1>0, Pointers, AheadType
  <2>3. /\ Ahead(p, tail_ptr[p])' \in {Ahead(p, tail_ptr_virt[p]), Ahead(p, tail_ptr[p])}
        /\ Ahead(p, tail_ptr_virt[p])' = Ahead(p, tail_ptr_virt[p])
        /\ Ahead(p, fetched[p])' = Ahead(p, fetched[p])
    BY <1>1, <2>1 DEF Ahead
  <2> QED
    BY <2>0, <2>2, <2>3 DEF SQOrder
<1>4. CQOrder'
  BY <1>0, <1>1 DEF CQOrder, Waiting, ReapInquiry, Arrival, Tells, Ahead
<1> QED
  BY <1>2, <1>3, <1>4 DEF QueuesInv

LEMMA FetchKeeps ==
  ASSUME QueuesInv, NEW q \in SQs, Fetch(q)
  PROVE  QueuesInv'
<1>0. QueueTypes /\ CQOrder /\ SQOrder(q)
  BY DEF QueuesInv
<1>1. /\ UNCHANGED <<sqElements, cqElements, tail_ptr_virt, tail_ptr, head_ptr, cqHead,
                     cqRing, cqTail, sqRing, cid>>
      /\ fetched[q] # tail_ptr[q]
      /\ fetched' = [fetched EXCEPT ![q] = (fetched[q] + 1) % sqElements[q]]
      /\ executing' = [executing EXCEPT ![q] = @ \cup {sqRing[q][fetched[q]]}]
  BY DEF Fetch, sizes, dnvme
<1>2. QueueTypes'
  <2>1. (fetched[q] + 1) % sqElements[q] \in 0 .. SQSize - 1
    <3>1. sqElements[q] = SQSize /\ fetched[q] \in 0 .. SQSize - 1
      BY <1>0, Pointers
    <3>2. (fetched[q] + 1) % SQSize \in 0 .. SQSize - 1
      BY <3>1, SizeFacts, Successor
    <3> QED
      BY <3>1, <3>2, Zenon
  <2>2. sqRing[q][fetched[q]] \in CIDs
    <3>1. sqRing[q] \in [0 .. SQSize - 1 -> CIDs] /\ fetched[q] \in 0 .. SQSize - 1
      BY <1>0 DEF QueueTypes
    <3> QED
      BY <3>1
  <2>3. /\ fetched' \in [SQs -> 0 .. SQSize - 1]
        /\ executing' \in [SQs -> SUBSET CIDs]
    BY <1>0, <1>1, <2>1, <2>2 DEF QueueTypes
  <2> QED
    BY <1>0, <1>1, <2>3 DEF QueueTypes
<1>3. /\ Ahead(q, fetched'[q]) = Ahead(q, fetched[q]) + 1
      /\ Ahead(q, fetched[q]) < Ahead(q, tail_ptr[q])
  BY <1>0, <1>1, <1>2, FetchTakes
<1>4. ASSUME NEW p \in SQs
      PROVE  /\ SQOrder(p)' /\ Ahead(p, fetched[p])' >= Ahead(p, fetched[p])
             /\ Ahead(p, fetched[p])' \in Nat /\ Ahead(p, fetched[p]) \in Nat
  <2>0. SQOrder(p)
    BY DEF QueuesInv
  <2>1. /\ Ahead(p, tail_ptr_virt[p]) \in Nat /\ Ahead(p, tail_ptr[p]) \in Nat
        /\ Ahead(p, fetched[p]) \in Nat
    BY <1>0, Pointers, AheadType
  <2>2. /\ Ahead(p, tail_ptr_virt[p])' = Ahead(p, tail_ptr_virt[p])
        /\ Ahead(p, tail_ptr[p])' = Ahead(p, tail_ptr[p])
    BY <1>1 DEF Ahead
  <2>3. CASE p = q
    <3>1. Ahead(p, fetched[p])' = Ahead(p, fetched[p]) + 1
      BY <1>1, <1>3, <2>3 DEF Ahead
    <3> QED
      BY <1>3, <2>0, <2>1, <2>2, <2>3, <3>1 DEF SQOrder
  <2>4. CASE p # q
    <3>1. fetched'[p] = fetched[p]
      BY <1>0, <1>1, <2>4 DEF QueueTypes
    <3>2. Ahead(p, fetched[p])' = Ahead(p, fetched[p])
      BY <1>1, <3>1 DEF Ahead
    <3> QED
      BY <2>0, <2>1, <2>2, <3>2 DEF SQOrder
  <2> QED
    BY <2>3, <2>4
<1>5. CQOrder'
  <2>1. /\ Waiting' = Waiting /\ cqRing' = cqRing
        /\ \A i : Arrival(i)' = Arrival(i) /\ Tells(i)' = Tells(i)
    BY <1>1 DEF Waiting, ReapInquiry, Arrival, Tells, Ahead
  <2>2. ASSUME NEW i \in Waiting
        PROVE  Tells(i)' <= Ahead(cqRing[i].SQID, fetched[cqRing[i].SQID])'
    <3> DEFINE p == cqRing[i].SQID
    <3>1. cqRing[i] \in RingCE /\ Tells(i) <= Ahead(p, fetched[p])
      BY <1>0 DEF CQOrder
    <3>2. p \in SQs /\ cqRing[i].SQHD \in 0 .. SQSize - 1
      BY <3>1 DEF RingCE
    <3>3. Tells(i) \in Nat
      BY <1>0, <3>2, AheadType DEF Tells
    <3>4. Tells(i)' = Tells(i) /\ p' = p
      BY <2>1
    <3> HIDE DEF p
    <3>5. Tells(i)' <= Ahead(p, fetched[p])'
      BY <1>4, <3>1, <3>2, <3>3, <3>4
    <3> QED
      BY <3>5 DEF p
  <2> QED
    BY <1>0, <2>1, <2>2 DEF CQOrder
<1> QED
  BY <1>2, <1>4, <1>5 DEF QueuesInv
LEMMA CompleteKeeps ==
  ASSUME QueuesInv, NEW q \in SQs, Complete(q)
  PROVE  /\ QueuesInv' /\ Waiting' = Waiting \cup {cqTail} /\ cqTail \notin Waiting
         /\ \E c \in executing[q] :
              /\ executing' = [executing EXCEPT ![q] = @ \ {c}]
              /\ cqRing'[cqTail] = [SQID |-> q, CID |-> c, SQHD |-> fetched[q]]
              /\ \A i \in 0 .. CQSize - 1 : i # cqTail => cqRing'[i] = cqRing[i]
<1>0. QueueTypes /\ CQOrder /\ \A p \in SQs : SQOrder(p)
  BY DEF QueuesInv
<1>1. PICK c \in executing[q] :
        /\ executing' = [executing EXCEPT ![q] = @ \ {c}]
        /\ cqRing' = [cqRing EXCEPT ![cqTail] =
                        [SQID |-> q, CID |-> c, SQHD |-> fetched[q]]]
  BY DEF Complete
<1>2. /\ UNCHANGED <<sqElements, cqElements, tail_ptr_virt, tail_ptr, head_ptr, cqHead,
                     sqRing, cid, fetched>>
      /\ ~CQFull /\ cqTail' = (cqTail + 1) % cqElements
  BY DEF Complete, sizes, dnvme
<1> DEFINE ce == [SQID |-> q, CID |-> c, SQHD |-> fetched[q]]
<1>3. ce \in RingCE /\ ce.SQID = q /\ ce.SQHD = fetched[q]
  BY <1>0 DEF QueueTypes, RingCE
<1>4. cqRing' = [cqRing EXCEPT ![cqTail] = ce]
  BY <1>1
<1> HIDE DEF ce
<1>5. /\ cqRing'[cqTail] = ce
      /\ \A i \in 0 .. CQSize - 1 : i # cqTail => cqRing'[i] = cqRing[i]
  BY <1>0, <1>4 DEF QueueTypes
<1>6. QueueTypes'
  <2>1. cqElements = CQSize /\ cqTail \in 0 .. CQSize - 1
    BY <1>0 DEF QueueTypes
  <2>2. (cqTail + 1) % CQSize \in 0 .. CQSize - 1
    BY <2>1, SizeFacts, Successor
  <2>3. cqRing' \in [0 .. CQSize - 1 -> RingCE \cup {NoCE}]
    BY <1>0, <1>3, <1>4 DEF QueueTypes
  <2>4. executing' \in [SQs -> SUBSET CIDs]
    BY <1>0, <1>1 DEF QueueTypes
  <2> QED
    BY <1>0, <1>2, <2>1, <2>2, <2>3, <2>4 DEF QueueTypes
<1>7. /\ Waiting' = Waiting \cup {cqTail} /\ cqTail \notin Waiting
      /\ \A i \in Waiting : Arrival(i) < Arrival(cqTail)
  BY <1>0, <1>2, <1>6, CompleteAdds
<1>8. \A p \in SQs : SQOrder(p)'
  BY <1>0, <1>2 DEF SQOrder, Ahead
<1>9. Waiting \subseteq 0 .. CQSize - 1
  BY <1>0, Entries DEF EntriesAre
<1>10. \A i \in Waiting : cqRing'[i] = cqRing[i] /\ Tells(i)' = Tells(i)
  BY <1>2, <1>5, <1>7, <1>9 DEF Tells, Ahead
<1>11. Distance(head_ptr'[cqRing'[cqTail].SQID], cqRing'[cqTail].SQHD, SQSize)
         = Ahead(q, fetched[q])
  BY <1>2, <1>3, <1>5 DEF Ahead
<1>12. /\ \A i : Arrival(i)' = Arrival(i)
       /\ \A p \in SQs : Ahead(p, fetched[p])' = Ahead(p, fetched[p])
  BY <1>2 DEF Arrival, Ahead
<1>13. Ahead(q, fetched[q]) \in Nat
  BY <1>0, Pointers, AheadType
<1> DEFINE T(i) == Distance(head_ptr'[cqRing'[i].SQID], cqRing'[i].SQHD, SQSize)
           A(i) == Distance(cqHead', i, CQSize)
           G(p) == Distance(head_ptr'[p], fetched'[p], SQSize)
<1>14. /\ \A i \in Waiting : T(i) = Tells(i)
       /\ T(cqTail) = Ahead(q, fetched[q])
       /\ \A i : A(i) = Arrival(i)
       /\ \A p \in SQs : G(p) = Ahead(p, fetched[p])
  BY <1>2, <1>10, <1>11 DEF Tells, Ahead, Arrival
<1>15. \A i \in Waiting' : cqRing'[i] \in RingCE
  BY <1>0, <1>3, <1>5, <1>7, <1>10 DEF CQOrder
<1>16. \A i \in Waiting' : T(i) <= G(cqRing'[i].SQID)
  <2> HIDE DEF T, A, G
  <2> QED
    BY <1>0, <1>3, <1>5, <1>7, <1>10, <1>13, <1>14, <1>15 DEF CQOrder, RingCE
<1>17. \A i, j \in Waiting' :
         cqRing'[i].SQID = cqRing'[j].SQID /\ A(i) < A(j) => T(i) <= T(j)
  <2> HIDE DEF T, A, G
  <2> SUFFICES ASSUME NEW i \in Waiting', NEW j \in Waiting',
                      cqRing'[i].SQID = cqRing'[j].SQID, A(i) < A(j)
               PROVE  T(i) <= T(j)
    OBVIOUS
  <2>1. i # cqTail
    <3>1. \A x \in 0 .. CQSize - 1 : Arrival(x) \in Nat
      <4>1. cqHead \in 0 .. CQSize - 1
        BY <1>0 DEF QueueTypes
      <4> QED
        BY <4>1, SizeFacts, DistanceIs DEF Arrival
    <3>2. cqTail \in 0 .. CQSize - 1 /\ j \in 0 .. CQSize - 1
      BY <1>0, <1>7, <1>9 DEF QueueTypes
    <3> QED
      BY <1>7, <1>14, <3>1, <3>2
  <2>2. CASE j # cqTail
    BY <1>0, <1>7, <1>10, <1>14, <2>1, <2>2 DEF CQOrder
  <2>3. CASE j = cqTail
    <3>1. cqRing[i].SQID = q /\ i \in Waiting
      BY <1>3, <1>5, <1>7, <1>10, <2>1, <2>3
    <3>2. Tells(i) <= Ahead(q, fetched[q])
      BY <1>0, <3>1 DEF CQOrder
    <3> QED
      BY <1>14, <2>3, <3>1, <3>2
  <2> QED
    BY <2>2, <2>3
<1>18. CQOrder'
  BY <1>15, <1>16, <1>17 DEF CQOrder, Tells, Ahead, Arrival
<1> QED
  BY <1>1, <1>5, <1>6, <1>7, <1>8, <1>18 DEF QueuesInv, ce

\* CQ::Reap() of one CE takes the one at the head, and its SQHD.
LEMMA OneReaped ==
  ASSUME QueuesInv, NumReaped(1) = 1, Reap(1)
  PROVE  /\ ReapInquiry # 0 /\ cqHead \in Waiting
         /\ cqHead' = (cqHead + 1) % CQSize
         /\ head_ptr' = [head_ptr EXCEPT ![cqRing[cqHead].SQID] = cqRing[cqHead].SQHD]
<1>0. QueueTypes /\ CQOrder /\ EntriesAre
  BY Entries DEF QueuesInv
<1>1. cqElements = CQSize /\ cqHead \in 0 .. CQSize - 1 /\ cqTail \in 0 .. CQSize - 1
  BY <1>0 DEF QueueTypes
<1>2. Arrival(cqHead) = 0 /\ Arrival(cqTail) \in Nat /\ ReapInquiry = Arrival(cqTail)
  <2>1. \A x \in 0 .. CQSize - 1 : Arrival(x) \in Nat
    BY <1>1, SizeFacts, DistanceIs DEF Arrival
  <2>2. Arrival(cqHead) = 0
    BY <1>1, SizeFacts, DistanceTells DEF Arrival
  <2> QED
    BY <1>0, <1>1, <2>1, <2>2 DEF EntriesAre
<1>3. ReapInquiry # 0
  BY <1>1, <1>2, SizeFacts DEF NumReaped, Least, CEDesired
<1>4. cqHead \in Waiting
  BY <1>0, <1>1, <1>2, <1>3 DEF EntriesAre
<1> DEFINE R == {(cqHead + i) % cqElements : i \in 0 .. NumReaped(1) - 1}
           O(q) == {i \in R : cqRing[i].SQID = q}
           L(q) == CHOOSE i \in O(q) : \A j \in O(q) :
                     Distance(cqHead, j, cqElements) <= Distance(cqHead, i, cqElements)
           ce == cqRing[cqHead]
<1>5. /\ cqHead' = (cqHead + NumReaped(1)) % cqElements
      /\ head_ptr' = [q \in SQs |-> IF O(q) = {} THEN head_ptr[q]
                                    ELSE cqRing[L(q)].SQHD]
  BY DEF Reap
<1>6. R = {cqHead}
  <2>1. (cqHead + 0) % CQSize = cqHead
    <3>1. cqHead % CQSize = cqHead
      BY <1>1, SizeFacts, Wrap
    <3>2. cqHead + 0 = cqHead
      BY <1>1
    <3> QED
      BY <3>1, <3>2
  <2>2. 0 .. NumReaped(1) - 1 = {0}
    OBVIOUS
  <2> QED
    BY <1>1, <2>1, <2>2
<1>7. Distance(cqHead, cqHead, cqElements) <= Distance(cqHead, cqHead, cqElements)
  BY <1>1, <1>2 DEF Arrival
<1>8. ce.SQID \in SQs
  BY <1>0, <1>4 DEF CQOrder, RingCE
<1> HIDE DEF R
<1>9. ASSUME NEW q \in SQs
      PROVE  (IF O(q) = {} THEN head_ptr[q] ELSE cqRing[L(q)].SQHD)
               = IF q = ce.SQID THEN ce.SQHD ELSE head_ptr[q]
  <2>1. CASE q = ce.SQID
    <3>1. O(q) = {cqHead}
      BY <1>6, <2>1
    <3> HIDE DEF O
    <3>2. \E i \in O(q) : \A j \in O(q) :
            Distance(cqHead, j, cqElements) <= Distance(cqHead, i, cqElements)
      BY <1>7, <3>1
    <3>3. L(q) \in O(q)
      BY <3>2
    <3> HIDE DEF L
    <3>4. L(q) = cqHead
      BY <3>1, <3>3
    <3> QED
      BY <2>1, <3>1, <3>4
  <2>2. CASE q # ce.SQID
    BY <1>6, <2>2
  <2> QED
    BY <2>1, <2>2
<1> HIDE DEF O, L, ce
<1>10. head_ptr' = [head_ptr EXCEPT ![ce.SQID] = ce.SQHD]
  <2>1. head_ptr' = [q \in SQs |-> IF q = ce.SQID THEN ce.SQHD ELSE head_ptr[q]]
    BY <1>5, <1>9
  <2>2. head_ptr \in [SQs -> 0 .. SQSize - 1]
    BY <1>0 DEF QueueTypes
  <2> QED
    BY <1>8, <2>1, <2>2
<1> QED
  BY <1>1, <1>3, <1>4, <1>5, <1>10 DEF ce
LEMMA ReapKeeps ==
  ASSUME QueuesInv, NumReaped(1) = 1, Reap(1)
  PROVE  QueuesInv' /\ cqHead \in Waiting /\ Waiting' = Waiting \ {cqHead}
<1> DEFINE ce == cqRing[cqHead]
           q == ce.SQID
           s == ce.SQHD
<1>0. QueueTypes /\ CQOrder /\ \A p \in SQs : SQOrder(p)
  BY DEF QueuesInv
<1>1. /\ ReapInquiry # 0 /\ cqHead \in Waiting
      /\ cqHead' = (cqHead + 1) % CQSize
      /\ head_ptr' = [head_ptr EXCEPT ![q] = s]
  BY OneReaped
<1>2. UNCHANGED <<sqElements, cqElements, tail_ptr_virt, tail_ptr, sqRing, cid,
                  fetched, executing, cqRing, cqTail>>
  BY DEF Reap, sizes, device
<1>3. ce \in RingCE /\ Tells(cqHead) <= Ahead(q, fetched[q])
  BY <1>0, <1>1 DEF CQOrder
<1>4. q \in SQs /\ s \in 0 .. SQSize - 1
  BY <1>3 DEF RingCE
<1> HIDE DEF ce, q, s
<1>5. QueueTypes'
  <2>1. (cqHead + 1) % CQSize \in 0 .. CQSize - 1
    BY <1>0, SizeFacts, Successor DEF QueueTypes
  <2>2. head_ptr' \in [SQs -> 0 .. SQSize - 1]
    BY <1>0, <1>1, <1>4 DEF QueueTypes
  <2> QED
    BY <1>0, <1>1, <1>2, <2>1, <2>2 DEF QueueTypes
<1>6. /\ Waiting' = Waiting \ {cqHead}
      /\ \A i \in Waiting' : Arrival(cqHead) < Arrival(i)
      /\ \A i \in Waiting' : Arrival(i)' = Arrival(i) - 1
  BY <1>0, <1>1, <1>2, <1>5, ReapTakes
<1>7. head_ptr'[q] = s /\ \A p \in SQs \ {q} : head_ptr'[p] = head_ptr[p]
  BY <1>0, <1>1, <1>4 DEF QueueTypes
<1>8. ASSUME NEW x \in 0 .. SQSize - 1, Ahead(q, s) <= Ahead(q, x)
      PROVE  Distance(s, x, SQSize) = Ahead(q, x) - Ahead(q, s)
  BY <1>0, <1>4, <1>8, Pointers, SizeFacts, DistanceFrom DEF Ahead
<1>9. \A p \in SQs : \A x \in 0 .. SQSize - 1 : Ahead(p, x) \in Nat
  BY <1>0, AheadType
<1>10. /\ Ahead(q, s) <= Ahead(q, fetched[q])
       /\ Ahead(q, fetched[q]) <= Ahead(q, tail_ptr[q])
       /\ Ahead(q, tail_ptr[q]) <= Ahead(q, tail_ptr_virt[q])
  <2>1. Tells(cqHead) = Ahead(q, s)
    BY DEF Tells, q, s, ce
  <2> QED
    BY <1>0, <1>3, <1>4, <2>1 DEF SQOrder
<1>11. /\ fetched[q] \in 0 .. SQSize - 1 /\ tail_ptr[q] \in 0 .. SQSize - 1
       /\ tail_ptr_virt[q] \in 0 .. SQSize - 1
  BY <1>0, <1>4, Pointers
<1>12. ASSUME NEW p \in SQs PROVE SQOrder(p)'
  <2>1. CASE p = q
    <3>1. /\ Ahead(q, s) <= Ahead(q, tail_ptr[q])
          /\ Ahead(q, s) <= Ahead(q, tail_ptr_virt[q])
      BY <1>4, <1>9, <1>10, <1>11
    <3>2. /\ Distance(s, fetched[q], SQSize) = Ahead(q, fetched[q]) - Ahead(q, s)
          /\ Distance(s, tail_ptr[q], SQSize) = Ahead(q, tail_ptr[q]) - Ahead(q, s)
          /\ Distance(s, tail_ptr_virt[q], SQSize)
               = Ahead(q, tail_ptr_virt[q]) - Ahead(q, s)
      BY <1>8, <1>10, <1>11, <3>1
    <3>3. /\ Ahead(q, s) \in Nat /\ Ahead(q, fetched[q]) \in Nat
          /\ Ahead(q, tail_ptr[q]) \in Nat /\ Ahead(q, tail_ptr_virt[q]) \in Nat
      BY <1>4, <1>9, <1>11
    <3>4. /\ Distance(s, fetched[q], SQSize) <= Distance(s, tail_ptr[q], SQSize)
          /\ Distance(s, tail_ptr[q], SQSize) <= Distance(s, tail_ptr_virt[q], SQSize)
      BY <1>10, <3>2, <3>3
    <3>5. /\ Distance(head_ptr'[p], fetched'[p], SQSize)
               <= Distance(head_ptr'[p], tail_ptr'[p], SQSize)
          /\ Distance(head_ptr'[p], tail_ptr'[p], SQSize)
               <= Distance(head_ptr'[p], tail_ptr_virt'[p], SQSize)
      BY <1>2, <1>7, <2>1, <3>4
    <3> QED
      BY <3>5 DEF SQOrder, Ahead
  <2>2. CASE p # q
    BY <1>0, <1>2, <1>7, <2>2 DEF SQOrder, Ahead
  <2> QED
    BY <2>1, <2>2
<1> DEFINE T(i) == Distance(head_ptr'[cqRing[i].SQID], cqRing[i].SQHD, SQSize)
           G(p) == Distance(head_ptr'[p], fetched[p], SQSize)
<1>13. ASSUME NEW i \in Waiting'
       PROVE  /\ i \in Waiting /\ cqRing[i] \in RingCE
              /\ cqRing[i].SQID \in SQs /\ cqRing[i].SQHD \in 0 .. SQSize - 1
              /\ Tells(i) \in Nat
              /\ cqRing[i].SQID # q => T(i) = Tells(i)
              /\ cqRing[i].SQID = q => T(i) = Tells(i) - Ahead(q, s)
  <2>1. i \in Waiting /\ cqRing[i] \in RingCE
    BY <1>0, <1>6 DEF CQOrder
  <2>2. cqRing[i].SQID \in SQs /\ cqRing[i].SQHD \in 0 .. SQSize - 1
    BY <2>1 DEF RingCE
  <2>3. Tells(i) \in Nat
    BY <1>9, <2>2 DEF Tells
  <2>4. CASE cqRing[i].SQID # q
    BY <1>7, <2>1, <2>2, <2>3, <2>4 DEF Tells, Ahead
  <2>5. CASE cqRing[i].SQID = q
    <3>1. Tells(cqHead) <= Tells(i)
      BY <1>0, <1>1, <1>6, <2>1, <2>5 DEF CQOrder, q, ce
    <3>2. Tells(cqHead) = Ahead(q, s) /\ Tells(i) = Ahead(q, cqRing[i].SQHD)
      BY <2>5 DEF Tells, q, s, ce
    <3>3. Distance(s, cqRing[i].SQHD, SQSize) = Ahead(q, cqRing[i].SQHD) - Ahead(q, s)
      BY <1>8, <2>2, <3>1, <3>2
    <3> QED
      BY <1>7, <2>1, <2>2, <2>3, <2>5, <3>2, <3>3
  <2> QED
    BY <2>4, <2>5
<1>14. /\ G(q) = Ahead(q, fetched[q]) - Ahead(q, s)
       /\ \A p \in SQs \ {q} : G(p) = Ahead(p, fetched[p])
  BY <1>7, <1>8, <1>10, <1>11 DEF Ahead
<1> HIDE DEF T, G
<1>15. Ahead(q, s) \in Nat /\ \A p \in SQs : Ahead(p, fetched[p]) \in Nat
  BY <1>0, <1>4, <1>9, Pointers
<1>16. ASSUME NEW i \in Waiting' PROVE T(i) <= G(cqRing[i].SQID)
  <2>1. Tells(i) <= Ahead(cqRing[i].SQID, fetched[cqRing[i].SQID])
    BY <1>0, <1>13 DEF CQOrder
  <2>2. CASE cqRing[i].SQID = q
    BY <1>4, <1>13, <1>14, <1>15, <2>1, <2>2
  <2>3. CASE cqRing[i].SQID # q
    BY <1>13, <1>14, <1>15, <2>1, <2>3
  <2> QED
    BY <2>2, <2>3
<1>17. ASSUME NEW i \in Waiting', NEW j \in Waiting', cqRing[i].SQID = cqRing[j].SQID,
              Arrival(i)' < Arrival(j)'
       PROVE  T(i) <= T(j)
  <2>1. Arrival(i) \in Nat /\ Arrival(j) \in Nat
    <3>1. cqHead \in 0 .. CQSize - 1 /\ Waiting \subseteq 0 .. CQSize - 1
      BY <1>0, Entries DEF QueueTypes, EntriesAre
    <3>2. i \in 0 .. CQSize - 1 /\ j \in 0 .. CQSize - 1
      BY <1>13, <3>1
    <3> QED
      BY <3>1, <3>2, SizeFacts, DistanceIs DEF Arrival
  <2>2. Arrival(i) < Arrival(j)
    BY <1>6, <1>17, <2>1
  <2>3. Tells(i) <= Tells(j)
    BY <1>0, <1>13, <1>17, <2>2 DEF CQOrder
  <2> QED
    BY <1>13, <1>15, <1>17, <2>3
<1>18. CQOrder'
  <2>1. \A i \in Waiting' : Tells(i)' = T(i)
    BY <1>2 DEF Tells, Ahead, T
  <2>2. \A p : Ahead(p, fetched[p])' = G(p)
    BY <1>2 DEF Ahead, G
  <2>3. cqRing' = cqRing
    BY <1>2
  <2> QED
    BY <1>13, <1>16, <1>17, <2>1, <2>2, <2>3 DEF CQOrder
<1> QED
  BY <1>1, <1>5, <1>6, <1>12, <1>18 DEF QueuesInv
-----------------------------------------------------------------------------
(***************************************************************************)
(* Every command is in one place                                           *)
(***************************************************************************)
\* Commands that were sent and whose CE was not looked at so far.
InFlight == async \cup Calling

\* What is in an SQ, in the device, in the CQ or just reaped is in flight.
Known ==
  /\ \A q \in SQs : \A k \in Unread(q) : <<q, sqRing[q][k]>> \in InFlight
  /\ \A q \in SQs : \A c \in executing[q] : <<q, c>> \in InFlight
  /\ \A i \in Waiting : Of(cqRing[i]) \in InFlight
  /\ pc = "peek" => Of(reaped) \in InFlight

\* No command is in two places,
Once ==
  /\ \A q \in SQs : \A k, l \in Unread(q) : sqRing[q][k] = sqRing[q][l] => k = l
  /\ \A q \in SQs : \A k \in Unread(q) : sqRing[q][k] \notin executing[q]
  /\ \A q \in SQs : \A k \in Unread(q) : \A i \in Waiting :
       Of(cqRing[i]) # <<q, sqRing[q][k]>>
  /\ \A q \in SQs : \A c \in executing[q] : \A i \in Waiting :
       Of(cqRing[i]) # <<q, c>>
  /\ \A i, j \in Waiting : Of(cqRing[i]) = Of(cqRing[j]) => i = j

\* and the one that was just reaped is in none of them.
Gone ==
  pc = "peek" =>
    /\ \A q \in SQs : \A k \in Unread(q) : Of(reaped) # <<q, sqRing[q][k]>>
    /\ \A q \in SQs : \A c \in executing[q] : Of(reaped) # <<q, c>>
    /\ \A i \in Waiting : Of(cqRing[i]) # Of(reaped)

Tracked == pc # "thrown" => Known /\ Once /\ Gone

\* Steps that move no command.
LEMMA StayTracked ==
  ASSUME Known, Once, pc' # "peek" \/ (pc = "peek" /\ Gone), InFlight' = InFlight,
         UNCHANGED <<sqElements, cqElements, sqRing, tail_ptr_virt, fetched, executing,
                     cqRing, cqHead, cqTail, reaped>>
  PROVE  Known' /\ Once' /\ Gone'
<1>1. Waiting' = Waiting /\ \A q : Unread(q)' = Unread(q)
  BY DEF Waiting, ReapInquiry, Unread
<1>2. /\ sqRing' = sqRing /\ executing' = executing /\ cqRing' = cqRing
      /\ reaped' = reaped
  OBVIOUS
<1>3. Known' /\ Once'
  BY <1>1, <1>2 DEF Known, Once, Of
<1>4. Gone'
  BY <1>1, <1>2 DEF Gone, Of
<1> QED
  BY <1>3, <1>4

LEMMA SendTracked ==
  ASSUME QueuesInv, QueuesInv', Known, Once, NEW q \in SQs, Send(q),
         <<q, cid[q]>> \notin InFlight, InFlight' = InFlight \cup {<<q, cid[q]>>},
         pc' # "peek"
  PROVE  Known' /\ Once' /\ Gone'
<1> DEFINE v == tail_ptr_virt[q]
<1>1. QueueTypes /\ QueueTypes' /\ SQOrder(q)
  BY DEF QueuesInv
<1>2. /\ ~SQFull(q) /\ UNCHANGED <<cqElements, cqHead, fetched, executing, cqRing, cqTail>>
      /\ tail_ptr_virt' = [tail_ptr_virt EXCEPT ![q] = (@ + 1) % sqElements[q]]
      /\ sqRing' = [sqRing EXCEPT ![q][v] = cid[q]]
  BY DEF Send, sizes, device
<1>3. /\ Unread(q)' = Unread(q) \cup {v} /\ v \notin Unread(q)
      /\ \A p \in SQs \ {q} : Unread(p)' = Unread(p)
  BY <1>1, <1>2, SendAdds
<1>4. Waiting' = Waiting
  BY <1>2 DEF Waiting, ReapInquiry
<1>5. Unread(q) \subseteq 0 .. SQSize - 1 /\ v \in 0 .. SQSize - 1
  BY <1>1, Entries, Pointers DEF EntriesAre
<1> HIDE DEF v
<1>6. /\ sqRing'[q][v] = cid[q]
      /\ \A k \in Unread(q) : sqRing'[q][k] = sqRing[q][k]
      /\ \A p \in SQs \ {q} : sqRing'[p] = sqRing[p]
  <2>1. sqRing \in [SQs -> [0 .. SQSize - 1 -> CIDs]]
    BY <1>1 DEF QueueTypes
  <2> QED
    BY <1>2, <1>3, <1>5, <2>1
<1>7. Known'
  <2>1. ASSUME NEW p \in SQs, NEW k \in Unread(p)'
        PROVE  <<p, sqRing'[p][k]>> \in InFlight'
    BY <1>3, <1>6 DEF Known
  <2> QED
    BY <1>2, <1>4, <2>1 DEF Known, Of
<1>8. Once'
  <2>1. ASSUME NEW p \in SQs, NEW k \in Unread(p)', NEW l \in Unread(p)',
               sqRing'[p][k] = sqRing'[p][l]
        PROVE  k = l
    <3>1. CASE p = q
      <4>1. \A m \in Unread(q) : sqRing[q][m] # cid[q]
        BY DEF Known
      <4> QED
        BY <1>3, <1>6, <2>1, <3>1, <4>1 DEF Once
    <3>2. CASE p # q
      BY <1>3, <1>6, <2>1, <3>2 DEF Once
    <3> QED
      BY <3>1, <3>2
  <2>2. ASSUME NEW p \in SQs, NEW k \in Unread(p)'
        PROVE  /\ sqRing'[p][k] \notin executing'[p]
               /\ \A i \in Waiting' : Of(cqRing'[i]) # <<p, sqRing'[p][k]>>
    <3>1. CASE p = q /\ k = v
      <4>1. cid[q] \notin executing[q] /\ \A i \in Waiting : Of(cqRing[i]) # <<q, cid[q]>>
        BY DEF Known
      <4> QED
        BY <1>2, <1>4, <1>6, <3>1, <4>1 DEF Of
    <3>2. CASE ~(p = q /\ k = v)
      <4>1. k \in Unread(p) /\ sqRing'[p][k] = sqRing[p][k]
        BY <1>3, <1>6, <3>2
      <4> QED
        BY <1>2, <1>4, <4>1 DEF Once, Of
    <3> QED
      BY <3>1, <3>2
  <2> QED
    BY <1>2, <1>4, <2>1, <2>2 DEF Once, Of
<1>9. Gone'
  BY DEF Gone
<1> QED
  BY <1>7, <1>8, <1>9

LEMMA FetchTracked ==
  ASSUME QueuesInv, QueuesInv', Known, Once, Gone, NEW q \in SQs, Fetch(q),
         InFlight' = InFlight, UNCHANGED <<pc, reaped>>
  PROVE  Known' /\ Once' /\ Gone'
<1> DEFINE f == fetched[q]
           c == sqRing[q][f]
<1>1. QueueTypes /\ QueueTypes' /\ SQOrder(q)
  BY DEF QueuesInv
<1>2. /\ fetched[q] # tail_ptr[q]
      /\ UNCHANGED <<cqElements, cqHead, cqRing, cqTail, sqRing, tail_ptr_virt>>
      /\ fetched' = [fetched EXCEPT ![q] = (@ + 1) % sqElements[q]]
      /\ executing' = [executing EXCEPT ![q] = @ \cup {c}]
  BY DEF Fetch, sizes, dnvme
<1>3. /\ f \in Unread(q) /\ Unread(q)' = Unread(q) \ {f}
      /\ \A p \in SQs \ {q} : Unread(p)' = Unread(p)
  BY <1>1, <1>2, FetchTakes
<1>4. Waiting' = Waiting
  BY <1>2 DEF Waiting, ReapInquiry
<1> HIDE DEF f
<1>5. /\ <<q, c>> \in InFlight
      /\ \A i \in Waiting : Of(cqRing[i]) # <<q, c>>
      /\ \A k \in Unread(q) : sqRing[q][k] = c => k = f
      /\ pc = "peek" => Of(reaped) # <<q, c>>
  BY <1>3 DEF Known, Once, Gone
<1> HIDE DEF c
<1>6. /\ executing'[q] = executing[q] \cup {c}
      /\ \A p \in SQs \ {q} : executing'[p] = executing[p]
  BY <1>1, <1>2 DEF QueueTypes
<1>7. \A p \in SQs : Unread(p)' \subseteq Unread(p)
  BY <1>3
<1>8. ASSUME NEW p \in SQs, NEW d \in executing'[p]
      PROVE  d \in executing[p] \/ (p = q /\ d = c)
  BY <1>6
<1>9. ASSUME NEW p \in SQs, NEW k \in Unread(p)' PROVE sqRing[p][k] \notin executing'[p]
  <2>1. k \in Unread(p) /\ sqRing[p][k] \notin executing[p]
    BY <1>7 DEF Once
  <2>2. p = q => sqRing[p][k] # c
    BY <1>3, <1>5
  <2> QED
    BY <1>8, <2>1, <2>2
<1>10. sqRing' = sqRing /\ cqRing' = cqRing /\ reaped' = reaped /\ pc' = pc
  BY <1>2
<1>11. Known'
  <2>1. \A p \in SQs : \A d \in executing'[p] : <<p, d>> \in InFlight
    BY <1>5, <1>8 DEF Known
  <2> QED
    BY <1>4, <1>7, <1>10, <2>1 DEF Known, Of
<1>12. Once'
  <2>1. \A p \in SQs : \A d \in executing'[p] : \A i \in Waiting :
          Of(cqRing[i]) # <<p, d>>
    BY <1>5, <1>8 DEF Once
  <2> QED
    BY <1>4, <1>7, <1>9, <1>10, <2>1 DEF Once, Of
<1>13. Gone'
  <2>1. pc = "peek" => \A p \in SQs : \A d \in executing'[p] : Of(reaped) # <<p, d>>
    BY <1>5, <1>8 DEF Gone
  <2> QED
    BY <1>4, <1>7, <1>10, <2>1 DEF Gone, Of
<1> QED
  BY <1>11, <1>12, <1>13

LEMMA CompleteTracked ==
  ASSUME QueuesInv, Known, Once, Gone, NEW q \in SQs, Complete(q),
         InFlight' = InFlight, UNCHANGED <<pc, reaped>>
  PROVE  Known' /\ Once' /\ Gone'
<1>1. Waiting' = Waiting \cup {cqTail} /\ cqTail \notin Waiting
  BY CompleteKeeps
<1>2. PICK c \in executing[q] :
        /\ executing' = [executing EXCEPT ![q] = @ \ {c}]
        /\ cqRing'[cqTail] = [SQID |-> q, CID |-> c, SQHD |-> fetched[q]]
        /\ \A i \in 0 .. CQSize - 1 : i # cqTail => cqRing'[i] = cqRing[i]
  BY CompleteKeeps
<1>3. UNCHANGED <<sqElements, sqRing, tail_ptr_virt, fetched>>
  BY DEF Complete, sizes, dnvme
<1>4. \A p \in SQs : Unread(p)' = Unread(p)
  BY <1>3 DEF Unread
<1>5. Of(cqRing'[cqTail]) = <<q, c>>
  BY <1>2 DEF Of
<1>6. \A i \in Waiting : cqRing'[i] = cqRing[i]
  <2>1. Waiting \subseteq 0 .. CQSize - 1
    BY Entries DEF QueuesInv, EntriesAre
  <2> QED
    BY <1>1, <1>2, <2>1
<1>7. /\ executing'[q] = executing[q] \ {c}
      /\ \A p \in SQs \ {q} : executing'[p] = executing[p]
  BY <1>2 DEF QueuesInv, QueueTypes
<1>8. \A p \in SQs : executing'[p] \subseteq executing[p]
  BY <1>7
<1>9. /\ <<q, c>> \in InFlight
      /\ \A k \in Unread(q) : sqRing[q][k] # c
      /\ \A i \in Waiting : Of(cqRing[i]) # <<q, c>>
      /\ pc = "peek" => Of(reaped) # <<q, c>>
  BY <1>2 DEF Known, Once, Gone
<1>10. sqRing' = sqRing /\ reaped' = reaped /\ pc' = pc
  BY <1>3
<1>11. ASSUME NEW i \in Waiting'
       PROVE  \/ i \in Waiting /\ cqRing'[i] = cqRing[i]
              \/ i = cqTail /\ Of(cqRing'[i]) = <<q, c>>
  BY <1>1, <1>5, <1>6
<1>12. Known'
  <2>1. \A i \in Waiting' : Of(cqRing'[i]) \in InFlight
    BY <1>9, <1>11 DEF Known
  <2> QED
    BY <1>4, <1>8, <1>10, <2>1 DEF Known, Of
<1>13. Once'
  <2>1. ASSUME NEW p \in SQs, NEW k \in Unread(p), NEW i \in Waiting'
        PROVE  Of(cqRing'[i]) # <<p, sqRing[p][k]>>
    BY <1>9, <1>11 DEF Once
  <2>2. ASSUME NEW p \in SQs, NEW d \in executing'[p], NEW i \in Waiting'
        PROVE  Of(cqRing'[i]) # <<p, d>>
    BY <1>7, <1>8, <1>11 DEF Once
  <2>3. ASSUME NEW i \in Waiting', NEW j \in Waiting', Of(cqRing'[i]) = Of(cqRing'[j])
        PROVE  i = j
    BY <1>9, <1>11, <2>3 DEF Once
  <2> QED
    BY <1>4, <1>8, <1>10, <2>1, <2>2, <2>3 DEF Once, Of
<1>14. Gone'
  <2>1. pc = "peek" => \A i \in Waiting' : Of(cqRing'[i]) # Of(reaped)
    BY <1>9, <1>11 DEF Gone
  <2> QED
    BY <1>4, <1>8, <1>10, <2>1 DEF Gone, Of
<1> QED
  BY <1>12, <1>13, <1>14

LEMMA ReapTracked ==
  ASSUME QueuesInv, Known, Once, NumReaped(1) = 1, Reap(1),
         reaped' = cqRing[cqHead], InFlight' = InFlight
  PROVE  Known' /\ Once' /\ Gone'
<1>1. cqHead \in Waiting /\ Waiting' = Waiting \ {cqHead}
  BY ReapKeeps
<1>2. UNCHANGED <<sqElements, sqRing, tail_ptr_virt, fetched, executing, cqRing>>
  BY DEF Reap, sizes, device
<1>3. \A p \in SQs : Unread(p)' = Unread(p)
  BY <1>2 DEF Unread
<1>4. sqRing' = sqRing /\ executing' = executing /\ cqRing' = cqRing
  BY <1>2
<1>5. Of(reaped') = Of(cqRing[cqHead]) /\ Of(cqRing[cqHead]) \in InFlight
  BY <1>1 DEF Known
<1>6. Known'
  BY <1>1, <1>3, <1>4, <1>5 DEF Known, Of
<1>7. Once'
  BY <1>1, <1>3, <1>4 DEF Once, Of
<1>8. Gone'
  BY <1>1, <1>3, <1>4, <1>5 DEF Gone, Once, Of
<1> QED
  BY <1>6, <1>7, <1>8
-----------------------------------------------------------------------------
(***************************************************************************)
(* SendAndReapCmd()                                                        *)
(***************************************************************************)
ProgramTypes ==
  /\ pc \in {"idle", "ringasync", "send", "ring", "wait", "metrics", "reap",
             "peek", "thrown"}
  /\ sq \in SQs /\ call \in CIDs \cup {None} /\ before \in 0 .. CQSize - 1
  /\ reaped \in RingCE \cup {NoCE} /\ ret \in CIDs \cup {None, Thrown}
  /\ async \subseteq SQs \X CIDs

\* RetrieveCE(): the entry behind the head is the one that was reaped.
Looked ==
  /\ pc = "reap" => before = cqHead
  /\ pc = "peek" => /\ cqHead = (before + 1) % CQSize
                    /\ cqRing[before] = reaped /\ reaped \in RingCE

\* A call has its command from SQ::Send() on, and the CID it gets is free.
Calls ==
  /\ pc \in {"idle", "ringasync", "send", "thrown"} => call = None
  /\ pc \in {"ring", "wait"} => call # None
  /\ pc = "send" => FreshCID(sq)

\* Without asynchronous commands, nothing is in flight between calls.
NoneLeft == MaxAsync = 0 => async = {} /\ pc # "ringasync"

ProgramInv == ProgramTypes /\ Looked /\ Calls /\ NoneLeft

\* The inductive invariant.
Inv == QueuesInv /\ ProgramInv /\ Tracked

LEMMA InvInit == Init => Inv
<1> SUFFICES ASSUME Init PROVE Inv
  OBVIOUS
<1>1. /\ sqElements = [q \in SQs |-> SQSize] /\ cqElements = CQSize
      /\ sqRing = [q \in SQs |-> [i \in 0 .. sqElements[q] - 1 |-> 0]]
      /\ cqRing = [i \in 0 .. CQSize - 1 |-> NoCE] /\ cid = [q \in SQs |-> 0]
      /\ tail_ptr_virt = [q \in SQs |-> 0] /\ tail_ptr = [q \in SQs |-> 0]
      /\ head_ptr = [q \in SQs |-> 0] /\ fetched = [q \in SQs |-> 0]
      /\ executing = [q \in SQs |-> {}] /\ cqHead = 0 /\ cqTail = 0
      /\ pc = "idle" /\ sq \in SQs /\ call = None /\ before = 0
      /\ reaped = NoCE /\ ret = None /\ async = {}
  BY DEF Init, Created
<1>2. 0 \in CIDs /\ 0 \in 0 .. SQSize - 1 /\ 0 \in 0 .. CQSize - 1
  BY SizeFacts DEF CIDs
<1>3. QueueTypes
  BY <1>1, <1>2 DEF QueueTypes
<1>4. Distance(0, 0, SQSize) = 0 /\ Distance(0, 0, CQSize) = 0
  BY <1>2, SizeFacts, DistanceTells
<1>5. \A q \in SQs : SQOrder(q)
  BY <1>1, <1>4 DEF SQOrder, Ahead
<1>6. Waiting = {} /\ \A q \in SQs : Unread(q) = {}
  <2>1. EntriesAre
    BY <1>3, Entries
  <2>2. \A i \in 0 .. CQSize - 1 : ~(Arrival(i) < Arrival(cqTail))
    BY <1>1, <1>2, <1>4, SizeFacts, DistanceIs DEF Arrival
  <2>3. \A i \in 0 .. SQSize - 1 : ~(Distance(0, i, SQSize) < 0)
    BY <1>2, SizeFacts, DistanceIs
  <2>4. \A q \in SQs : fetched[q] = 0 /\ tail_ptr_virt[q] = 0
    BY <1>1
  <2> QED
    BY <1>4, <2>1, <2>2, <2>3, <2>4 DEF EntriesAre
<1>7. QueuesInv
  BY <1>3, <1>5, <1>6 DEF QueuesInv, CQOrder
<1>8. ProgramInv
  BY <1>1, <1>2 DEF ProgramInv, ProgramTypes, Looked, Calls, NoneLeft
<1>9. Tracked
  BY <1>1, <1>6 DEF Tracked, Known, Once, Gone
<1> QED
  BY <1>7, <1>8, <1>9 DEF Inv

\* A throw ends the test.
LEMMA ThrowKeeps == Inv /\ Throw => Inv'
<1> SUFFICES ASSUME Inv, Throw PROVE Inv'
  OBVIOUS
<1>1. QueuesInv'
  BY UnchangedKeeps DEF Inv, Throw
<1>2. ProgramInv'
  BY DEF Inv, ProgramInv, ProgramTypes, Looked, Calls, NoneLeft, Throw
<1>3. Tracked'
  BY DEF Tracked, Throw
<1> QED
  BY <1>1, <1>2, <1>3 DEF Inv

\* Steps of the program that leave the queues alone.
LEMMA QuietKeeps ==
  ASSUME Inv, UNCHANGED queues, ProgramInv', UNCHANGED <<reaped>>,
         InFlight' = InFlight, pc # "thrown", pc' # "peek" \/ pc = "peek"
  PROVE  Inv'
<1>1. QueuesInv'
  BY UnchangedKeeps DEF Inv
<1>2. Known' /\ Once' /\ Gone'
  BY StayTracked DEF Inv, Tracked, queues, sizes, dnvme, device
<1> QED
  BY <1>1, <1>2 DEF Inv, Tracked

LEMMA SendAsyncKeeps == Inv /\ SendAsync => Inv'
<1> SUFFICES ASSUME Inv, SendAsync PROVE Inv'
  OBVIOUS
<1>1. /\ QueuesInv /\ ProgramTypes /\ Calls /\ NoneLeft /\ Known /\ Once
      /\ pc = "idle" /\ pc' = "ringasync" /\ Send(sq) /\ sq \in SQs
      /\ <<sq, cid[sq]>> \notin async /\ Cardinality(async) < MaxAsync
      /\ async' = async \cup {<<sq, cid[sq]>>} /\ call = None
      /\ UNCHANGED <<sq, call, before, reaped, ret>>
  BY DEF Inv, ProgramInv, ProgramTypes, Calls, Tracked, SendAsync, FreshCID
<1>2. QueuesInv'
  BY <1>1, SendKeeps
<1>3. Known' /\ Once' /\ Gone'
  <2>1. InFlight = async /\ InFlight' = InFlight \cup {<<sq, cid[sq]>>}
    BY <1>1 DEF InFlight, Calling
  <2> QED
    BY <1>1, <1>2, <2>1, SendTracked
<1>4. ProgramInv'
  <2>1. cid[sq] \in CIDs
    BY <1>1 DEF QueuesInv, QueueTypes
  <2>2. ProgramTypes'
    BY <1>1, <2>1 DEF ProgramTypes
  <2>3. NoneLeft'
    <3> SUFFICES ASSUME MaxAsync = 0 PROVE FALSE
      BY DEF NoneLeft
    <3>1. async = {}
      BY <1>1 DEF NoneLeft
    <3>2. Cardinality(async) = 0
      BY <3>1, FS_EmptySet
    <3> QED
      BY <1>1, <3>2
  <2> QED
    BY <1>1, <2>2, <2>3 DEF ProgramInv, Looked, Calls
<1> QED
  BY <1>2, <1>3, <1>4 DEF Inv, Tracked

LEMMA SendCmdKeeps == Inv /\ SendCmd => Inv'
<1> SUFFICES ASSUME Inv, SendCmd PROVE Inv'
  OBVIOUS
<1>1. CASE Throw
  BY <1>1, ThrowKeeps
<1>2. CASE ~Throw
  <2>1. /\ QueuesInv /\ ProgramTypes /\ NoneLeft /\ Known /\ Once
        /\ pc = "send" /\ pc' = "ring" /\ Send(sq) /\ sq \in SQs
        /\ <<sq, cid[sq]>> \notin async /\ call = None /\ call' = cid[sq]
        /\ UNCHANGED <<sq, before, reaped, ret, async>>
    BY <1>2 DEF Inv, ProgramInv, ProgramTypes, Calls, Tracked, SendCmd, FreshCID, hist
  <2>2. QueuesInv'
    BY <2>1, SendKeeps
  <2>3. cid[sq] \in CIDs /\ cid[sq] # None
    <3>1. cid[sq] \in CIDs
      BY <2>1 DEF QueuesInv, QueueTypes
    <3> QED
      BY <3>1, SizeFacts DEF CIDs, None
  <2>4. Known' /\ Once' /\ Gone'
    <3>1. InFlight = async /\ InFlight' = InFlight \cup {<<sq, cid[sq]>>}
      BY <2>1, <2>3 DEF InFlight, Calling
    <3> QED
      BY <2>1, <2>2, <3>1, SendTracked
  <2>5. ProgramInv'
    BY <2>1, <2>3 DEF ProgramInv, ProgramTypes, Looked, Calls, NoneLeft
  <2> QED
    BY <2>2, <2>4, <2>5 DEF Inv, Tracked
<1> QED
  BY <1>1, <1>2

LEMMA RingKeepsInv == Inv /\ (RingAsync \/ RingCmd) => Inv'
<1> SUFFICES ASSUME Inv, RingAsync \/ RingCmd PROVE Inv'
  OBVIOUS
<1>1. /\ QueuesInv /\ ProgramInv /\ Known /\ Once /\ sq \in SQs /\ Ring(sq)
      /\ UNCHANGED <<sq, call, before, reaped, ret, async>>
      /\ \/ pc = "ringasync" /\ pc' = "idle"
         \/ pc = "ring" /\ pc' = "wait"
  <2>1. /\ Ring(sq) /\ UNCHANGED <<sq, call, before, reaped, ret, async>>
        /\ \/ pc = "ringasync" /\ pc' = "idle"
           \/ pc = "ring" /\ pc' = "wait"
    BY DEF RingAsync, RingCmd, hist
  <2>2. QueuesInv /\ ProgramInv /\ Known /\ Once
    BY <2>1 DEF Inv, Tracked
  <2> QED
    BY <2>1, <2>2 DEF ProgramInv, ProgramTypes
<1>2. QueuesInv'
  BY <1>1, RingKeeps
<1>3. ProgramInv'
  BY <1>1 DEF ProgramInv, ProgramTypes, Looked, Calls, NoneLeft
<1>4. Known' /\ Once' /\ Gone'
  <2>1. UNCHANGED <<sqElements, cqElements, sqRing, tail_ptr_virt, fetched, executing,
                    cqRing, cqHead, cqTail, reaped>>
    BY <1>1 DEF Ring, sizes, device
  <2>2. InFlight' = InFlight /\ pc' # "peek"
    BY <1>1 DEF InFlight, Calling
  <2> QED
    BY <1>1, <2>1, <2>2, StayTracked
<1> QED
  BY <1>2, <1>3, <1>4 DEF Inv, Tracked

LEMMA ReapOneKeeps == Inv /\ ReapOne => Inv'
<1> SUFFICES ASSUME Inv, ReapOne PROVE Inv'
  OBVIOUS
<1>1. CASE Throw
  BY <1>1, ThrowKeeps
<1>2. CASE ~Throw
  <2>1. /\ QueuesInv /\ ProgramTypes /\ Looked /\ NoneLeft /\ Known /\ Once
        /\ pc = "reap" /\ pc' = "peek" /\ NumReaped(1) = 1 /\ Reap(1)
        /\ reaped' = cqRing[cqHead] /\ UNCHANGED <<sq, call, before, ret, async>>
    BY <1>2 DEF Inv, ProgramInv, Tracked, ReapOne
  <2>2. QueuesInv' /\ cqHead \in Waiting
    BY <2>1, ReapKeeps
  <2>3. cqRing[cqHead] \in RingCE /\ before = cqHead
    BY <2>1, <2>2 DEF QueuesInv, CQOrder, Looked
  <2>4. cqHead' = (cqHead + 1) % CQSize /\ cqRing' = cqRing
    BY <2>1, OneReaped DEF Reap, device
  <2>5. Known' /\ Once' /\ Gone'
    <3>1. InFlight' = InFlight
      BY <2>1 DEF InFlight, Calling
    <3> QED
      BY <2>1, <3>1, ReapTracked
  <2>6. ProgramTypes' /\ NoneLeft'
    BY <2>1, <2>3 DEF ProgramTypes, NoneLeft
  <2>7. Looked'
    BY <2>1, <2>3, <2>4 DEF Looked
  <2>8. Calls'
    BY <2>1 DEF Calls
  <2> QED
    BY <2>2, <2>5, <2>6, <2>7, <2>8 DEF Inv, ProgramInv, Tracked
<1> QED
  BY <1>1, <1>2

LEMMA PeekKeeps == Inv /\ Peek => Inv'
<1> SUFFICES ASSUME Inv, Peek PROVE Inv'
  OBVIOUS
<1>1. /\ QueuesInv /\ ProgramTypes /\ Looked /\ NoneLeft /\ Known /\ Once /\ Gone
      /\ pc = "peek" /\ pc' = "idle" /\ call' = None
      /\ async' = (async \cup Calling) \ {Of(reaped)}
      /\ UNCHANGED queues /\ UNCHANGED <<sq, before>> /\ reaped' = NoCE
      /\ ret' = IF call = None THEN ret ELSE cqRing[before].CID
  BY DEF Inv, ProgramInv, Tracked, Peek, PeekCE
<1>2. QueuesInv'
  BY <1>1, UnchangedKeeps
<1>3. InFlight' = InFlight \ {Of(reaped)}
  BY <1>1 DEF InFlight, Calling
<1>4. Known' /\ Once' /\ Gone'
  <2>1. /\ Waiting' = Waiting /\ \A q : Unread(q)' = Unread(q)
        /\ sqRing' = sqRing /\ executing' = executing /\ cqRing' = cqRing
    BY <1>1 DEF Waiting, ReapInquiry, Unread, queues, sizes, dnvme, device
  <2>2. Known'
    BY <1>1, <1>3, <2>1 DEF Known, Gone, Of
  <2>3. Once'
    BY <1>1, <2>1 DEF Once, Of
  <2>4. Gone'
    BY <1>1 DEF Gone
  <2> QED
    BY <2>2, <2>3, <2>4
<1>5. cqRing[before] \in RingCE /\ cqRing[before].CID \in CIDs
  BY <1>1 DEF Looked, RingCE
<1>6. ProgramTypes'
  BY <1>1, <1>5 DEF ProgramTypes, Calling
<1>7. NoneLeft'
  <2>1. async = {} => async' = {}
    BY <1>1 DEF Known, InFlight, Calling
  <2> QED
    BY <1>1, <2>1 DEF NoneLeft
<1>8. Looked' /\ Calls'
  BY <1>1 DEF Looked, Calls
<1> QED
  BY <1>2, <1>4, <1>6, <1>7, <1>8 DEF Inv, ProgramInv, Tracked

LEMMA DeviceKeeps == Inv /\ DeviceStep => Inv'
<1> SUFFICES ASSUME Inv, DeviceStep PROVE Inv'
  OBVIOUS
<1>1. /\ QueuesInv /\ ProgramInv /\ Known /\ Once /\ Gone /\ pc # "thrown"
      /\ UNCHANGED <<pc, sq, call, before, reaped, ret, async>>
  BY DEF Inv, Tracked, DeviceStep, prog, hist
<1>2. InFlight' = InFlight
  BY <1>1 DEF InFlight, Calling
<1>3. PICK q \in SQs : Fetch(q) \/ Complete(q)
  BY DEF DeviceStep, Device
<1>4. CASE Fetch(q)
  <2>1. QueuesInv'
    BY <1>1, <1>4, FetchKeeps
  <2>2. Known' /\ Once' /\ Gone'
    BY <1>1, <1>2, <1>4, <2>1, FetchTracked
  <2>3. UNCHANGED <<cqHead, cqRing, cid>>
    BY <1>4 DEF Fetch, dnvme
  <2>4. ProgramInv'
    BY <1>1, <2>3 DEF ProgramInv, ProgramTypes, Looked, Calls, NoneLeft, FreshCID
  <2> QED
    BY <2>1, <2>2, <2>4 DEF Inv, Tracked
<1>5. CASE Complete(q)
  <2>1. QueuesInv' /\ \A i \in 0 .. CQSize - 1 : i # cqTail => cqRing'[i] = cqRing[i]
    BY <1>1, <1>5, CompleteKeeps
  <2>2. Known' /\ Once' /\ Gone'
    BY <1>1, <1>2, <1>5, CompleteTracked
  <2>3. UNCHANGED <<cqHead, cid>> /\ (cqTail + 1) % CQSize # cqHead
    BY <1>1, <1>5 DEF Complete, dnvme, CQFull, QueuesInv, QueueTypes
  <2>4. Looked'
    <3>1. pc = "peek" => before # cqTail /\ before \in 0 .. CQSize - 1
      BY <1>1, <2>3 DEF ProgramInv, ProgramTypes, Looked
    <3> QED
      BY <1>1, <2>1, <2>3, <3>1 DEF ProgramInv, Looked
  <2>5. ProgramTypes' /\ Calls' /\ NoneLeft'
    BY <1>1, <2>3 DEF ProgramInv, ProgramTypes, Calls, NoneLeft, FreshCID
  <2> QED
    BY <2>1, <2>2, <2>4, <2>5 DEF Inv, ProgramInv, Tracked
<1> QED
  BY <1>3, <1>4, <1>5

LEMMA InvNext == Inv /\ [Next]_vars => Inv'
<1> SUFFICES ASSUME Inv, [Next]_vars PROVE Inv'
  OBVIOUS
<1>1. CASE Throw
  BY <1>1, ThrowKeeps
<1>2. CASE ~Throw /\ (ReapAsync \/ Inquire \/ Arrived \/ GetQMetrics)
  <2>1. /\ UNCHANGED queues /\ UNCHANGED <<call, reaped, async>> /\ pc # "thrown"
        /\ pc' # "peek"
    BY <1>2 DEF ReapAsync, Inquire, Arrived, GetQMetrics, hist
  <2>2. cqHead \in 0 .. CQSize - 1 /\ UNCHANGED <<cqHead, cid>>
    BY <2>1 DEF Inv, QueuesInv, QueueTypes, queues, dnvme
  <2>3. ProgramInv'
    BY <1>2, <2>1, <2>2 DEF Inv, ProgramInv, ProgramTypes, Looked, Calls, NoneLeft,
       FreshCID, ReapAsync, Inquire, Arrived, GetQMetrics, hist
  <2>4. InFlight' = InFlight
    BY <1>2, <2>1 DEF InFlight, Calling, ReapAsync, Inquire, Arrived, GetQMetrics,
       Inv, ProgramInv, Calls
  <2> QED
    BY <2>1, <2>3, <2>4, QuietKeeps
<1>3. CASE UNCHANGED vars
  <2>1. QueuesInv'
    BY <1>3, UnchangedKeeps DEF Inv, vars
  <2>2. ProgramInv'
    BY <1>3 DEF Inv, ProgramInv, ProgramTypes, Looked, Calls, NoneLeft, FreshCID, vars,
       queues, dnvme, device, prog, hist
  <2>3. Tracked'
    <3>1. InFlight' = InFlight /\ pc' = pc
      BY <1>3 DEF InFlight, Calling, vars, prog, hist
    <3>2. UNCHANGED <<sqElements, cqElements, sqRing, tail_ptr_virt, fetched, executing,
                      cqRing, cqHead, cqTail, reaped>>
      BY <1>3 DEF vars, queues, sizes, dnvme, device, hist
    <3> QED
      BY <3>1, <3>2, StayTracked DEF Inv, Tracked
  <2> QED
    BY <2>1, <2>2, <2>3 DEF Inv
<1> QED
  BY <1>1, <1>2, <1>3, SendAsyncKeeps, SendCmdKeeps, RingKeepsInv, ReapOneKeeps,
     PeekKeeps, DeviceKeeps DEF Next, Program, TimesOut
LEMMA InvHolds == Spec => []Inv
  BY InvInit, InvNext, PTL DEF Spec

-----------------------------------------------------------------------------
(***************************************************************************)
(* No entry of an SQ stays in use                                          *)
(***************************************************************************)
\* The command in entry k of q is with the device, or a CE that waits is its
\* and tells dnvme that the device has read on from k.
HasCE(q, k, i) == Of(cqRing[i]) = <<q, sqRing[q][k]>> /\ Ahead(q, k) < Tells(i)

Pending(q, k) ==
  sqRing[q][k] \in executing[q] \/ \E i \in Waiting : HasCE(q, k, i)

\* What the device has read and dnvme has not learnt of is pending,
Held ==
  \A q \in SQs : \A k \in 0 .. SQSize - 1 :
    Ahead(q, k) < Ahead(q, fetched[q]) => Pending(q, k)

\* and no two entries in use hold the same command.
Apart ==
  \A q \in SQs : \A k, l \in 0 .. SQSize - 1 :
    /\ Ahead(q, k) < Ahead(q, tail_ptr_virt[q])
    /\ Ahead(q, l) < Ahead(q, tail_ptr_virt[q])
    /\ sqRing[q][k] = sqRing[q][l]
    => k = l

\* Everything dnvme takes to be in use is in flight.
LEMMA UsedInFlight ==
  ASSUME QueuesInv, Known, Held, NEW q \in SQs, NEW k \in 0 .. SQSize - 1,
         Ahead(q, k) < Ahead(q, tail_ptr_virt[q])
  PROVE  <<q, sqRing[q][k]>> \in InFlight
<1>0. QueueTypes /\ SQOrder(q) /\ EntriesAre
  BY Entries DEF QueuesInv
<1>1. CASE Ahead(q, k) < Ahead(q, fetched[q])
  <2>1. Pending(q, k)
    BY <1>1 DEF Held
  <2> QED
    BY <2>1 DEF Pending, HasCE, Known
<1>2. CASE ~(Ahead(q, k) < Ahead(q, fetched[q]))
  <2>1. /\ fetched[q] \in 0 .. SQSize - 1 /\ tail_ptr_virt[q] \in 0 .. SQSize - 1
        /\ tail_ptr[q] \in 0 .. SQSize - 1 /\ head_ptr[q] \in 0 .. SQSize - 1
    BY <1>0, Pointers
  <2>2. /\ Ahead(q, k) \in Nat /\ Ahead(q, fetched[q]) \in Nat /\ Ahead(q, tail_ptr[q]) \in Nat
        /\ Ahead(q, tail_ptr_virt[q]) \in Nat
    BY <1>0, <2>1, AheadType
  <2>3. /\ Ahead(q, fetched[q]) <= Ahead(q, k)
        /\ Ahead(q, fetched[q]) <= Ahead(q, tail_ptr_virt[q])
    BY <1>0, <1>2, <2>2 DEF SQOrder
  <2>4. /\ Distance(fetched[q], k, SQSize) = Ahead(q, k) - Ahead(q, fetched[q])
        /\ Distance(fetched[q], tail_ptr_virt[q], SQSize)
             = Ahead(q, tail_ptr_virt[q]) - Ahead(q, fetched[q])
    BY <2>1, <2>3, SizeFacts, DistanceFrom DEF Ahead
  <2>5. Distance(fetched[q], k, SQSize) < Distance(fetched[q], tail_ptr_virt[q], SQSize)
    BY <2>2, <2>4
  <2>6. k \in Unread(q)
    BY <1>0, <2>5 DEF EntriesAre
  <2> QED
    BY <2>6 DEF Known
<1> QED
  BY <1>1, <1>2

LEMMA SameHeld ==
  ASSUME Held, Apart,
         UNCHANGED <<cqElements, sqRing, tail_ptr_virt, head_ptr, fetched, executing,
                     cqRing, cqHead, cqTail>>
  PROVE  Held' /\ Apart'
  BY DEF Held, Apart, Pending, HasCE, Of, Tells, Ahead, Waiting, ReapInquiry

LEMMA SendHeld ==
  ASSUME QueuesInv, Known, Held, Apart, NEW q \in SQs, Send(q),
         <<q, cid[q]>> \notin InFlight
  PROVE  Held' /\ Apart'
<1> DEFINE v == tail_ptr_virt[q]
<1>0. QueueTypes /\ \A p \in SQs : SQOrder(p)
  BY DEF QueuesInv
<1>1. /\ (v + 1) % SQSize # head_ptr[q] /\ v \in 0 .. SQSize - 1
      /\ UNCHANGED <<cqElements, head_ptr, cqHead, fetched, executing, cqRing, cqTail>>
      /\ tail_ptr_virt' = [tail_ptr_virt EXCEPT ![q] = (v + 1) % SQSize]
      /\ sqRing' = [sqRing EXCEPT ![q][v] = cid[q]]
  BY <1>0, Pointers DEF Send, SQFull, sizes, device
<1>2. Distance(head_ptr[q], (v + 1) % SQSize, SQSize) = Distance(head_ptr[q], v, SQSize) + 1
  BY <1>0, <1>1, Pointers, SizeFacts, DistanceNext
<1>3. /\ tail_ptr_virt'[q] = (v + 1) % SQSize
      /\ \A p \in SQs \ {q} : tail_ptr_virt'[p] = tail_ptr_virt[p]
  BY <1>0, <1>1 DEF QueueTypes
<1>4. /\ Ahead(q, tail_ptr_virt[q])' = Ahead(q, v) + 1
      /\ \A p \in SQs \ {q} : Ahead(p, tail_ptr_virt[p])' = Ahead(p, tail_ptr_virt[p])
      /\ \A p, k : Ahead(p, k)' = Ahead(p, k)
      /\ \A p : Ahead(p, fetched[p])' = Ahead(p, fetched[p])
  BY <1>1, <1>2, <1>3 DEF Ahead
<1>5. \A p \in SQs : \A k \in 0 .. SQSize - 1 : Ahead(p, k) \in Nat
  BY <1>0, AheadType
<1>6. \A k \in 0 .. SQSize - 1 : Ahead(q, k) = Ahead(q, v) => k = v
  BY <1>0, <1>1, Pointers, SizeFacts, DistanceTells DEF Ahead
<1>7. /\ sqRing'[q][v] = cid[q]
      /\ \A k \in 0 .. SQSize - 1 : k # v => sqRing'[q][k] = sqRing[q][k]
      /\ \A p \in SQs \ {q} : sqRing'[p] = sqRing[p]
  <2>1. sqRing \in [SQs -> [0 .. SQSize - 1 -> CIDs]]
    BY <1>0 DEF QueueTypes
  <2> QED
    BY <1>1, <2>1
<1>8. \A k \in 0 .. SQSize - 1 : Ahead(q, k) < Ahead(q, v) => sqRing[q][k] # cid[q]
  BY UsedInFlight
<1> HIDE DEF v
<1>9. ASSUME NEW p \in SQs, NEW k \in 0 .. SQSize - 1,
             Ahead(p, k)' < Ahead(p, fetched[p])'
      PROVE  Pending(p, k)'
  <2>1. Ahead(p, k) < Ahead(p, fetched[p])
    BY <1>4, <1>9
  <2>2. ~(p = q /\ k = v)
    <3>1. SUFFICES ASSUME p = q, k = v PROVE FALSE
      OBVIOUS
    <3>2. /\ Ahead(q, fetched[q]) <= Ahead(q, tail_ptr[q])
          /\ Ahead(q, tail_ptr[q]) <= Ahead(q, v)
      BY <1>0 DEF SQOrder, v
    <3>3. /\ Ahead(q, fetched[q]) \in Nat /\ Ahead(q, tail_ptr[q]) \in Nat
          /\ Ahead(q, v) \in Nat
      BY <1>0, <1>1, <1>5, Pointers
    <3> QED
      BY <2>1, <3>1, <3>2, <3>3
  <2>3. sqRing'[p][k] = sqRing[p][k]
    BY <1>7, <2>2
  <2>4. Pending(p, k)
    BY <2>1 DEF Held
  <2>5. Waiting' = Waiting /\ cqRing' = cqRing /\ executing' = executing
    BY <1>1 DEF Waiting, ReapInquiry
  <2>6. \A i : Tells(i)' = Tells(i)
    BY <1>1 DEF Tells, Ahead
  <2> QED
    BY <1>4, <2>3, <2>4, <2>5, <2>6 DEF Pending, HasCE, Of
<1>10. ASSUME NEW p \in SQs, NEW k \in 0 .. SQSize - 1, NEW l \in 0 .. SQSize - 1,
              Ahead(p, k)' < Ahead(p, tail_ptr_virt[p])',
              Ahead(p, l)' < Ahead(p, tail_ptr_virt[p])', sqRing'[p][k] = sqRing'[p][l]
       PROVE  k = l
  <2>1. CASE p = q
    <3>1. ASSUME NEW m \in 0 .. SQSize - 1, Ahead(q, m) < Ahead(q, v) + 1
          PROVE  m = v \/ Ahead(q, m) < Ahead(q, v)
      <4>1. Ahead(q, m) \in Nat /\ Ahead(q, v) \in Nat
        BY <1>1, <1>5
      <4>2. Ahead(q, m) = Ahead(q, v) \/ Ahead(q, m) < Ahead(q, v)
        BY <3>1, <4>1
      <4> QED
        BY <1>6, <4>2
    <3>2. /\ k = v \/ Ahead(q, k) < Ahead(q, v)
          /\ l = v \/ Ahead(q, l) < Ahead(q, v)
      BY <1>4, <1>10, <2>1, <3>1
    <3>3. CASE k = v
      BY <1>7, <1>8, <1>10, <2>1, <3>2, <3>3
    <3>4. CASE k # v /\ l = v
      BY <1>7, <1>8, <1>10, <2>1, <3>2, <3>4
    <3>5. CASE k # v /\ l # v
      BY <1>7, <1>10, <2>1, <3>2, <3>5 DEF Apart, v
    <3> QED
      BY <3>3, <3>4, <3>5
  <2>2. CASE p # q
    BY <1>4, <1>7, <1>10, <2>2 DEF Apart
  <2> QED
    BY <2>1, <2>2
<1>11. Held'
  BY <1>9 DEF Held
<1>12. Apart'
  BY <1>10 DEF Apart
<1> QED
  BY <1>11, <1>12

LEMMA FetchHeld ==
  ASSUME QueuesInv, QueuesInv', Held, Apart, NEW q \in SQs, Fetch(q)
  PROVE  Held' /\ Apart'
<1>0. QueueTypes /\ QueueTypes' /\ SQOrder(q)
  BY DEF QueuesInv
<1>1. /\ fetched[q] # tail_ptr[q]
      /\ UNCHANGED <<cqElements, cqHead, cqRing, cqTail, sqRing, tail_ptr_virt, head_ptr>>
      /\ fetched' = [fetched EXCEPT ![q] = (@ + 1) % sqElements[q]]
      /\ executing' = [executing EXCEPT ![q] = @ \cup {sqRing[q][fetched[q]]}]
  BY DEF Fetch, sizes, dnvme
<1>2. Ahead(q, fetched'[q]) = Ahead(q, fetched[q]) + 1
  BY <1>0, <1>1, FetchTakes
<1>3. /\ \A p \in SQs : executing[p] \subseteq executing'[p]
      /\ sqRing[q][fetched[q]] \in executing'[q]
      /\ \A p \in SQs \ {q} : fetched'[p] = fetched[p]
  BY <1>0, <1>1 DEF QueueTypes
<1>4. /\ \A p, k : Ahead(p, k)' = Ahead(p, k)
      /\ Ahead(q, fetched[q])' = Ahead(q, fetched[q]) + 1
      /\ \A p \in SQs \ {q} : Ahead(p, fetched[p])' = Ahead(p, fetched[p])
      /\ \A p : Ahead(p, tail_ptr_virt[p])' = Ahead(p, tail_ptr_virt[p])
  BY <1>1, <1>2, <1>3 DEF Ahead
<1>5. /\ Waiting' = Waiting /\ cqRing' = cqRing /\ sqRing' = sqRing
      /\ \A i : Tells(i)' = Tells(i)
  BY <1>1 DEF Waiting, ReapInquiry, Tells, Ahead
<1>6. ASSUME NEW p \in SQs, NEW k \in 0 .. SQSize - 1, Pending(p, k)
      PROVE  Pending(p, k)'
  BY <1>3, <1>4, <1>5, <1>6 DEF Pending, HasCE, Of
<1>7. ASSUME NEW p \in SQs, NEW k \in 0 .. SQSize - 1,
             Ahead(p, k)' < Ahead(p, fetched[p])'
      PROVE  Pending(p, k)'
  <2>1. CASE Ahead(p, k) < Ahead(p, fetched[p])
    BY <1>6, <2>1 DEF Held
  <2>2. CASE ~(Ahead(p, k) < Ahead(p, fetched[p]))
    <3>1. p = q /\ Ahead(q, k) < Ahead(q, fetched[q]) + 1
      BY <1>4, <1>7, <2>2
    <3>2. fetched[q] \in 0 .. SQSize - 1 /\ head_ptr[q] \in 0 .. SQSize - 1
      BY <1>0, Pointers
    <3>3. Ahead(q, k) \in Nat /\ Ahead(q, fetched[q]) \in Nat
      BY <1>0, <3>2, AheadType
    <3>4. Ahead(q, k) = Ahead(q, fetched[q])
      BY <2>2, <3>1, <3>3
    <3>5. k = fetched[q]
      BY <3>2, <3>4, SizeFacts, DistanceTells DEF Ahead
    <3> QED
      BY <1>3, <1>5, <3>1, <3>5 DEF Pending
  <2> QED
    BY <2>1, <2>2
<1>8. Held'
  BY <1>7 DEF Held
<1>9. Apart'
  BY <1>4, <1>5 DEF Apart
<1> QED
  BY <1>8, <1>9

LEMMA CompleteHeld ==
  ASSUME QueuesInv, Held, Apart, NEW q \in SQs, Complete(q)
  PROVE  Held' /\ Apart'
<1>1. Waiting' = Waiting \cup {cqTail} /\ cqTail \notin Waiting
  BY CompleteKeeps
<1>2. PICK c \in executing[q] :
        /\ executing' = [executing EXCEPT ![q] = @ \ {c}]
        /\ cqRing'[cqTail] = [SQID |-> q, CID |-> c, SQHD |-> fetched[q]]
        /\ \A i \in 0 .. CQSize - 1 : i # cqTail => cqRing'[i] = cqRing[i]
  BY CompleteKeeps
<1>3. UNCHANGED <<sqElements, sqRing, tail_ptr_virt, fetched, head_ptr>>
  BY DEF Complete, sizes, dnvme
<1>4. \A i \in Waiting : cqRing'[i] = cqRing[i]
  <2>1. Waiting \subseteq 0 .. CQSize - 1
    BY Entries DEF QueuesInv, EntriesAre
  <2> QED
    BY <1>1, <1>2, <2>1
<1>5. /\ \A p, k : Ahead(p, k)' = Ahead(p, k)
      /\ \A p : Ahead(p, fetched[p])' = Ahead(p, fetched[p])
      /\ \A p : Ahead(p, tail_ptr_virt[p])' = Ahead(p, tail_ptr_virt[p])
      /\ \A i \in Waiting : Tells(i)' = Tells(i) /\ Of(cqRing'[i]) = Of(cqRing[i])
  BY <1>3, <1>4 DEF Ahead, Tells
<1>6. \A i : i = cqTail => Of(cqRing'[i]) = <<q, c>> /\ Tells(i)' = Ahead(q, fetched[q])
  BY <1>2, <1>3 DEF Of, Tells, Ahead
<1>7. executing'[q] = executing[q] \ {c} /\ \A p \in SQs \ {q} : executing'[p] = executing[p]
  BY <1>2 DEF QueuesInv, QueueTypes
<1>8. sqRing' = sqRing
  BY <1>3
<1>9. ASSUME NEW p \in SQs, NEW k \in 0 .. SQSize - 1,
             Ahead(p, k)' < Ahead(p, fetched[p])'
      PROVE  Pending(p, k)'
  <2>1. Ahead(p, k) < Ahead(p, fetched[p]) /\ Pending(p, k)
    BY <1>5, <1>9 DEF Held
  <2>2. CASE \E i \in Waiting : HasCE(p, k, i)
    <3>1. PICK i \in Waiting : HasCE(p, k, i)
      BY <2>2
    <3>2. Of(cqRing'[i]) = <<p, sqRing'[p][k]>> /\ Ahead(p, k)' < Tells(i)'
      BY <1>5, <1>8, <3>1 DEF HasCE
    <3>3. i \in Waiting'
      BY <1>1
    <3> QED
      BY <3>2, <3>3 DEF Pending, HasCE, Of
  <2>3. CASE p = q /\ sqRing[p][k] = c
    <3>0. PICK i : i = cqTail
      OBVIOUS
    <3>1. Of(cqRing'[i]) = <<p, sqRing'[p][k]>> /\ Ahead(p, k)' < Tells(i)'
      BY <1>5, <1>6, <1>8, <2>1, <2>3, <3>0
    <3>2. i \in Waiting'
      BY <1>1, <3>0
    <3> QED
      BY <3>1, <3>2 DEF Pending, HasCE, Of
  <2>4. CASE sqRing[p][k] \in executing[p] /\ ~(p = q /\ sqRing[p][k] = c)
    <3>1. sqRing'[p][k] \in executing'[p]
      BY <1>7, <1>8, <2>4
    <3> QED
      BY <3>1 DEF Pending
  <2> QED
    BY <2>1, <2>2, <2>3, <2>4 DEF Pending
<1>10. Held'
  BY <1>9 DEF Held
<1>11. Apart'
  BY <1>5, <1>8 DEF Apart
<1> QED
  BY <1>10, <1>11

\* Seen from a head moved on to s, up to b, nothing before s is left.
LEMMA MovedOn ==
  ASSUME NEW n \in Nat \ {0}, NEW h \in 0 .. n - 1, NEW s \in 0 .. n - 1,
         NEW b \in 0 .. n - 1, NEW k \in 0 .. n - 1,
         Distance(h, s, n) <= Distance(h, b, n), Distance(s, k, n) < Distance(s, b, n)
  PROVE  /\ Distance(h, s, n) <= Distance(h, k, n)
         /\ Distance(h, k, n) < Distance(h, b, n)
         /\ Distance(s, k, n) = Distance(h, k, n) - Distance(h, s, n)
<1>1. /\ Distance(h, s, n) = IF h <= s THEN s - h ELSE s - h + n
      /\ Distance(h, b, n) = IF h <= b THEN b - h ELSE b - h + n
      /\ Distance(h, k, n) = IF h <= k THEN k - h ELSE k - h + n
      /\ Distance(s, k, n) = IF s <= k THEN k - s ELSE k - s + n
      /\ Distance(s, b, n) = IF s <= b THEN b - s ELSE b - s + n
  BY DistanceIs
<1> QED
  BY <1>1

LEMMA ReapHeld ==
  ASSUME QueuesInv, Held, Apart, NumReaped(1) = 1, Reap(1)
  PROVE  Held' /\ Apart'
<1>0. QueueTypes /\ CQOrder /\ \A p \in SQs : SQOrder(p)
  BY DEF QueuesInv
<1>1. /\ cqHead \in Waiting /\ Waiting' = Waiting \ {cqHead}
      /\ head_ptr' = [head_ptr EXCEPT ![cqRing[cqHead].SQID] = cqRing[cqHead].SQHD]
  BY OneReaped, ReapKeeps
<1>2. PICK q \in SQs, s \in 0 .. SQSize - 1 :
        cqRing[cqHead].SQID = q /\ cqRing[cqHead].SQHD = s
  BY <1>0, <1>1 DEF CQOrder, RingCE
<1>3. /\ cqHead \in Waiting /\ Waiting' = Waiting \ {cqHead}
      /\ head_ptr' = [head_ptr EXCEPT ![q] = s]
  BY <1>1, <1>2
<1>4. UNCHANGED <<sqElements, cqElements, tail_ptr_virt, tail_ptr, sqRing, cid,
                  fetched, executing, cqRing, cqTail>>
  BY DEF Reap, sizes, device
<1>5. Tells(cqHead) <= Ahead(q, fetched[q]) /\ Tells(cqHead) = Ahead(q, s)
  BY <1>0, <1>3, <1>2 DEF CQOrder, Tells
<1>6. head_ptr'[q] = s /\ \A p \in SQs \ {q} : head_ptr'[p] = head_ptr[p]
  BY <1>0, <1>3, <1>2 DEF QueueTypes
<1>7. /\ head_ptr[q] \in 0 .. SQSize - 1 /\ fetched[q] \in 0 .. SQSize - 1
      /\ tail_ptr[q] \in 0 .. SQSize - 1 /\ tail_ptr_virt[q] \in 0 .. SQSize - 1
  BY <1>0, <1>2, Pointers
<1>8. \A p \in SQs : \A x \in 0 .. SQSize - 1 : Ahead(p, x) \in Nat
  BY <1>0, AheadType
<1>9. /\ Ahead(q, s) <= Ahead(q, fetched[q]) /\ Ahead(q, s) <= Ahead(q, tail_ptr_virt[q])
  BY <1>0, <1>5, <1>2, <1>7, <1>8 DEF SQOrder
<1>10. ASSUME NEW b \in {fetched[q], tail_ptr_virt[q]}, NEW k \in 0 .. SQSize - 1,
             Distance(s, k, SQSize) < Distance(s, b, SQSize)
      PROVE  /\ Ahead(q, s) <= Ahead(q, k) /\ Ahead(q, k) < Ahead(q, b)
             /\ Distance(s, k, SQSize) = Ahead(q, k) - Ahead(q, s)
  <2>1. b \in 0 .. SQSize - 1 /\ Ahead(q, s) <= Ahead(q, b)
    BY <1>7, <1>9
  <2> QED
    BY <1>2, <1>7, <1>10, <2>1, SizeFacts, MovedOn DEF Ahead
<1>11. /\ \A k : Ahead(q, k)' = Distance(s, k, SQSize)
       /\ Ahead(q, fetched[q])' = Distance(s, fetched[q], SQSize)
       /\ Ahead(q, tail_ptr_virt[q])' = Distance(s, tail_ptr_virt[q], SQSize)
  BY <1>4, <1>6 DEF Ahead
<1>12. ASSUME NEW p \in SQs, p # q
       PROVE  /\ \A k : Ahead(p, k)' = Ahead(p, k)
              /\ Ahead(p, fetched[p])' = Ahead(p, fetched[p])
              /\ Ahead(p, tail_ptr_virt[p])' = Ahead(p, tail_ptr_virt[p])
  BY <1>4, <1>6, <1>12 DEF Ahead
<1>13. sqRing' = sqRing /\ executing' = executing /\ cqRing' = cqRing
  BY <1>4
<1>14. ASSUME NEW p \in SQs, NEW k \in 0 .. SQSize - 1,
              Ahead(p, k)' < Ahead(p, fetched[p])'
       PROVE  Pending(p, k)'
  <2>1. /\ Ahead(p, k) < Ahead(p, fetched[p])
        /\ p = q => /\ Ahead(q, s) <= Ahead(q, k)
                    /\ Ahead(q, k)' = Ahead(q, k) - Ahead(q, s)
    <3>1. CASE p = q
      BY <1>10, <1>11, <1>14, <3>1
    <3>2. CASE p # q
      BY <1>12, <1>14, <3>2
    <3> QED
      BY <3>1, <3>2
  <2>2. Pending(p, k)
    BY <2>1 DEF Held
  <2>3. CASE sqRing[p][k] \in executing[p]
    BY <1>13, <2>3 DEF Pending
  <2>4. CASE \E i \in Waiting : HasCE(p, k, i)
    <3>1. PICK i \in Waiting : HasCE(p, k, i)
      BY <2>4
    <3>2. cqRing[i] \in RingCE /\ cqRing[i].SQID = p /\ Ahead(p, k) < Tells(i)
      BY <1>0, <3>1 DEF CQOrder, HasCE, Of
    <3>3. cqRing[i].SQHD \in 0 .. SQSize - 1 /\ Tells(i) = Ahead(p, cqRing[i].SQHD)
      BY <3>2 DEF RingCE, Tells
    <3> DEFINE e == cqRing[i].SQHD
    <3>4. Tells(i)' = Ahead(p, e)'
      BY <1>4, <3>2 DEF Tells, Ahead
    <3>5. Ahead(p, k) \in Nat /\ Ahead(p, e) \in Nat /\ Ahead(q, s) \in Nat
      BY <1>2, <1>8, <3>3
    <3>6. i # cqHead /\ Ahead(p, k)' < Ahead(p, e)'
      <4>1. CASE p = q
        <5>1. Ahead(q, s) <= Ahead(q, k) /\ Ahead(q, k) < Ahead(q, e)
          BY <2>1, <3>2, <3>3, <4>1
        <5>2. Ahead(q, s) <= Ahead(q, e) /\ Ahead(q, s) # Ahead(q, e)
          BY <3>5, <4>1, <5>1
        <5>3. Distance(s, e, SQSize) = Ahead(q, e) - Ahead(q, s)
          BY <1>2, <1>7, <3>3, <5>2, SizeFacts, DistanceFrom DEF Ahead
        <5>4. Distance(s, k, SQSize) = Ahead(q, k) - Ahead(q, s)
          BY <1>11, <2>1, <4>1
        <5>5. Distance(s, k, SQSize) < Distance(s, e, SQSize)
          BY <3>5, <4>1, <5>1, <5>3, <5>4
        <5>6. Ahead(p, k)' < Ahead(p, e)'
          BY <1>4, <1>6, <4>1, <5>5 DEF Ahead
        <5>7. i # cqHead
          BY <1>5, <3>3, <4>1, <5>2
        <5> QED
          BY <5>6, <5>7
      <4>2. CASE p # q
        <5>1. i # cqHead
          BY <1>2, <3>2, <4>2
        <5>2. Ahead(p, k)' < Ahead(p, e)'
          BY <1>4, <1>6, <3>2, <3>3, <4>2 DEF Ahead
        <5> QED
          BY <5>1, <5>2
      <4> QED
        BY <4>1, <4>2
    <3>7. i \in Waiting' /\ Ahead(p, k)' < Tells(i)'
      BY <1>3, <3>4, <3>6
    <3>8. Of(cqRing'[i]) = <<p, sqRing'[p][k]>>
      BY <1>13, <3>1 DEF HasCE
    <3> QED
      BY <3>7, <3>8 DEF Pending, HasCE, Of
  <2> QED
    BY <2>2, <2>3, <2>4 DEF Pending
<1>15. ASSUME NEW p \in SQs, NEW k \in 0 .. SQSize - 1,
              Ahead(p, k)' < Ahead(p, tail_ptr_virt[p])'
       PROVE  Ahead(p, k) < Ahead(p, tail_ptr_virt[p])
  <2>1. CASE p = q
    BY <1>10, <1>11, <1>15, <2>1
  <2>2. CASE p # q
    BY <1>12, <1>15, <2>2
  <2> QED
    BY <2>1, <2>2
<1>16. Held'
  BY <1>14 DEF Held
<1>17. Apart'
  BY <1>13, <1>15 DEF Apart
<1> QED
  BY <1>16, <1>17

LEMMA HeldNext ==
  ASSUME Inv, Inv', Held, Apart, [Next]_vars
  PROVE  Held' /\ Apart'
<1>0. QueuesInv /\ QueuesInv' /\ ProgramInv /\ (pc # "thrown" => Known) /\ sq \in SQs
  BY DEF Inv, Tracked, ProgramInv, ProgramTypes
<1>1. CASE UNCHANGED queues \/ \E q \in SQs : Ring(q)
  <2>1. UNCHANGED <<cqElements, sqRing, tail_ptr_virt, head_ptr, fetched, executing,
                    cqRing, cqHead, cqTail>>
    BY <1>1 DEF Ring, queues, sizes, dnvme, device
  <2> QED
    BY <2>1, SameHeld
<1>2. CASE (pc = "send" \/ pc = "idle") /\ FreshCID(sq) /\ Send(sq)
  <2>1. <<sq, cid[sq]>> \notin InFlight /\ Known
    BY <1>0, <1>2 DEF InFlight, Calling, FreshCID, ProgramInv, Calls
  <2> QED
    BY <1>0, <1>2, <2>1, SendHeld
<1>3. CASE NumReaped(1) = 1 /\ Reap(1)
  BY <1>0, <1>3, ReapHeld
<1>4. CASE Device
  BY <1>0, <1>4, FetchHeld, CompleteHeld DEF Device
<1>5. \/ UNCHANGED queues \/ Device
      \/ \E q \in SQs : Ring(q)
      \/ (pc = "send" \/ pc = "idle") /\ FreshCID(sq) /\ Send(sq)
      \/ NumReaped(1) = 1 /\ Reap(1)
  <2>1. CASE SendAsync \/ SendCmd
    <3>1. pc = "send" => FreshCID(sq)
      BY <1>0 DEF ProgramInv, Calls
    <3> QED
      BY <2>1, <3>1 DEF SendAsync, SendCmd, Throw
  <2>2. CASE RingAsync \/ RingCmd
    BY <1>0, <2>2 DEF RingAsync, RingCmd
  <2>3. CASE ReapOne
    BY <2>3 DEF ReapOne, Throw
  <2>4. CASE ReapAsync \/ Inquire \/ Arrived \/ TimesOut \/ GetQMetrics \/ Peek
    BY <2>4 DEF ReapAsync, Inquire, Arrived, TimesOut, GetQMetrics, Peek, Throw
  <2>5. CASE DeviceStep
    BY <2>5 DEF DeviceStep
  <2>6. CASE UNCHANGED vars
    BY <2>6 DEF vars
  <2> QED
    BY <2>1, <2>2, <2>3, <2>4, <2>5, <2>6 DEF Next, Program
<1> QED
  BY <1>1, <1>2, <1>3, <1>4, <1>5

LEMMA HeldInit == Init => Held /\ Apart
<1> SUFFICES ASSUME Init PROVE Held /\ Apart
  OBVIOUS
<1>1. /\ tail_ptr_virt = [q \in SQs |-> 0] /\ head_ptr = [q \in SQs |-> 0]
      /\ fetched = [q \in SQs |-> 0]
  BY DEF Init, Created
<1>2. ASSUME NEW q \in SQs, NEW k \in 0 .. SQSize - 1
      PROVE  /\ ~(Ahead(q, k) < Ahead(q, fetched[q]))
             /\ ~(Ahead(q, k) < Ahead(q, tail_ptr_virt[q]))
  <2>1. 0 \in 0 .. SQSize - 1
    BY SizeFacts
  <2>2. Distance(0, 0, SQSize) = 0 /\ Distance(0, k, SQSize) \in Nat
    BY <2>1, SizeFacts, DistanceIs, DistanceTells
  <2> QED
    BY <1>1, <2>2 DEF Ahead
<1> QED
  BY <1>2 DEF Held, Apart

LEMMA HeldHolds == Spec => [](Held /\ Apart)
  BY HeldInit, HeldNext, InvHolds, PTL DEF Spec

-----------------------------------------------------------------------------
(***************************************************************************)
(* What is shown                                                           *)
(***************************************************************************)
\* Every variable keeps its type; each pointer stays inside its ring.
THEOREM SendReapTypes == Spec => []TypeOK
<1>1. Inv => TypeOK
  <2> SUFFICES ASSUME Inv PROVE TypeOK
    OBVIOUS
  <2>1. QueueTypes /\ ProgramTypes
    BY DEF Inv, QueuesInv, ProgramInv
  <2>2. RingCE \subseteq CE
    BY SizeFacts DEF RingCE, CE
  <2>3. SQSize \in Nat \ {0, 1} /\ CQSize \in Nat \ {0, 1}
    BY SendReapAssumption
  <2>4. /\ sqElements \in [SQs -> Nat \ {0, 1}] /\ cqElements \in Nat \ {0, 1}
        /\ cid \in [SQs -> CIDs] /\ {cqHead, cqTail} \subseteq 0 .. cqElements - 1
    BY <2>1, <2>3 DEF QueueTypes
  <2>5. cqRing \in [0 .. cqElements - 1 -> CE \cup {NoCE}]
    <3>1. cqRing \in [0 .. CQSize - 1 -> RingCE \cup {NoCE}] /\ cqElements = CQSize
      BY <2>1 DEF QueueTypes
    <3> QED
      BY <2>2, <3>1
  <2>6. ASSUME NEW q \in SQs
        PROVE  /\ sqRing[q] \in [0 .. sqElements[q] - 1 -> CIDs]
               /\ {tail_ptr_virt[q], tail_ptr[q], head_ptr[q], fetched[q]}
                    \subseteq 0 .. sqElements[q] - 1
               /\ executing[q] \subseteq CIDs
    <3>1. sqElements[q] = SQSize /\ sqRing[q] \in [0 .. SQSize - 1 -> CIDs]
      BY <2>1 DEF QueueTypes
    <3>2. executing[q] \subseteq CIDs
      BY <2>1 DEF QueueTypes
    <3> QED
      BY <2>1, <3>1, <3>2, Pointers
  <2>7. QueuesTypeOK
    BY <2>4, <2>5, <2>6 DEF QueuesTypeOK
  <2>8. before \in 0 .. cqElements - 1 /\ reaped \in CE \cup {NoCE}
    BY <2>1, <2>2 DEF QueueTypes, ProgramTypes
  <2> QED
    BY <2>1, <2>7, <2>8 DEF TypeOK, ProgramTypes
<1> QED
  BY <1>1, InvHolds, PTL

\* CQ::PeekCE() at the head read before CQ::Reap() still shows the CE that was
\* reaped, for a CQ of any size: the device may have written on meanwhile, but
\* not into the entry it must leave empty.
THEOREM PeeksWhatWasReaped == Spec => []PeekIsReaped
<1>1. Inv => PeekIsReaped
  BY DEF Inv, ProgramInv, Looked, PeekIsReaped, PeekCE
<1> QED
  BY <1>1, InvHolds, PTL

\* SQ::Send() refuses a call only if the test left as many commands with the
\* device as the SQ holds: for every size of the queues and any order in which
\* reads, completions and reaps come, no earlier call keeps an entry.
THEOREM RoomIsLeft == Spec => []RoomForCall
<1>1. Inv /\ Held /\ Apart => RoomForCall
  <2> SUFFICES ASSUME Inv, Held, Apart, pc = "send", SQFull(sq)
               PROVE  Cardinality({c \in async : c[1] = sq}) >= sqElements[sq] - 1
    BY DEF RoomForCall
  <2> DEFINE h == head_ptr[sq]
             at(j) == (h + j) % SQSize
             J == 0 .. SQSize - 2
             own == {c \in async : c[1] = sq}
             f == [j \in J |-> <<sq, sqRing[sq][at(j)]>>]
  <2>0. QueuesInv /\ QueueTypes /\ Known /\ sq \in SQs /\ async \subseteq SQs \X CIDs
    BY DEF Inv, QueuesInv, ProgramInv, ProgramTypes, Tracked
  <2>1. /\ h \in 0 .. SQSize - 1 /\ tail_ptr_virt[sq] \in 0 .. SQSize - 1
        /\ sqElements[sq] = SQSize
    BY <2>0, Pointers
  <2>2. InFlight = async
    BY DEF Inv, ProgramInv, Calls, InFlight, Calling
  <2>3. Ahead(sq, tail_ptr_virt[sq]) = SQSize - 1
    BY <2>1, SizeFacts, RoundComplete DEF SQFull, Ahead
  <2>4. ASSUME NEW j \in J
        PROVE  /\ at(j) \in 0 .. SQSize - 1 /\ Ahead(sq, at(j)) = j
               /\ Ahead(sq, at(j)) < Ahead(sq, tail_ptr_virt[sq])
    <3>1. j \in 0 .. SQSize - 1 /\ j < SQSize - 1
      BY SizeFacts
    <3>2. at(j) \in 0 .. SQSize - 1 /\ Distance(h, at(j), SQSize) = j
      BY <2>1, <3>1, SizeFacts, FurtherOn
    <3> QED
      BY <2>3, <3>1, <3>2 DEF Ahead
  <2> HIDE DEF at
  <2>5. f \in Injection(J, own)
    <3>1. ASSUME NEW j \in J PROVE <<sq, sqRing[sq][at(j)]>> \in own
      BY <2>0, <2>2, <2>4, UsedInFlight
    <3>2. ASSUME NEW i \in J, NEW j \in J, f[i] = f[j] PROVE i = j
      <4>1. sqRing[sq][at(i)] = sqRing[sq][at(j)]
        BY <3>2
      <4>2. at(i) = at(j)
        BY <2>0, <2>4, <4>1 DEF Apart
      <4> QED
        BY <2>4, <4>2
    <3>3. f \in [J -> own] /\ DOMAIN f = J
      BY <3>1
    <3> HIDE DEF f, J, own
    <3> QED
      BY <3>2, <3>3 DEF Injection, IsInjective
  <2>6. IsFiniteSet(own)
    <3>1. IsFiniteSet(CIDs)
      BY SizeFacts, FS_Interval DEF CIDs
    <3>2. IsFiniteSet({sq} \X CIDs)
      BY <3>1, FS_Singleton, FS_Product
    <3>3. own \in SUBSET ({sq} \X CIDs)
      BY <2>0
    <3> QED
      BY <3>2, <3>3, FS_Subset
  <2>7. Cardinality(J) = SQSize - 1
    <3>1. 0 \in Int /\ SQSize - 2 \in Int /\ ~(0 > SQSize - 2) /\ (SQSize - 2) - 0 + 1 = SQSize - 1
      BY SizeFacts
    <3>2. Cardinality(0 .. SQSize - 2) = IF 0 > SQSize - 2 THEN 0 ELSE (SQSize - 2) - 0 + 1
      BY <3>1, FS_Interval
    <3> QED
      BY <3>1, <3>2
  <2>8. Cardinality(J) <= Cardinality(own) /\ Cardinality(own) \in Nat
    <3> HIDE DEF f, J, own
    <3> QED
      BY <2>5, <2>6, FS_Injection, FS_CardinalityType
  <2> HIDE DEF J, own
  <2>9. Cardinality(own) >= sqElements[sq] - 1
    BY <2>1, <2>7, <2>8, SizeFacts
  <2> QED
    BY <2>9 DEF own
<1> QED
  BY <1>1, InvHolds, HeldHolds, PTL

\* A CE that is reaped is that of a command still outstanding, of the call or
\* left with the device before: never one that was reaped before, in spite of
\* the numbering coming round.
THEOREM ReapsOutstanding == Spec => []ReapedOutstanding
<1>1. Inv => ReapedOutstanding
  BY DEF Inv, Tracked, Known, InFlight, ReapedOutstanding
<1> QED
  BY <1>1, InvHolds, PTL

\* SendAndReapCmd() compares no CIDs, and yet returns the CE of its own
\* command whenever no other command is outstanding.
THEOREM ReturnsOwnCompletion == Spec => []OwnCompletion
<1>1. Inv => OwnCompletion
  BY DEF Inv, Tracked, Known, InFlight, OwnCompletion, Calling
<1> QED
  BY <1>1, InvHolds, PTL

-----------------------------------------------------------------------------
(***************************************************************************)
(* SendAndReapCmd() is a call                                              *)
(***************************************************************************)
\* Without asynchronous commands no CE waits between calls.
LEMMA NothingWaits ==
  ASSUME Inv, MaxAsync = 0, pc = "idle"
  PROVE  ReapInquiry = 0
<1>0. async = {} /\ Calls /\ Known /\ QueueTypes /\ EntriesAre
  BY Entries DEF Inv, ProgramInv, NoneLeft, Tracked, QueuesInv
<1>1. Waiting = {}
  BY <1>0 DEF Known, InFlight, Calling, Calls
<1>2. cqHead \in 0 .. CQSize - 1 /\ cqTail \in 0 .. CQSize - 1
  BY <1>0 DEF QueueTypes
<1>3. Arrival(cqHead) = 0
  BY <1>2, SizeFacts, DistanceTells DEF Arrival
<1>4. Arrival(cqTail) \in Nat
  BY <1>2, SizeFacts, DistanceIs DEF Arrival
<1>5. ~(Arrival(cqHead) < Arrival(cqTail))
  BY <1>0, <1>1, <1>2 DEF EntriesAre
<1> QED
  BY <1>0, <1>3, <1>4, <1>5 DEF EntriesAre

\* Every step of SendReap is a step of CmdCall, or none.
LEMMA CallStep ==
  ASSUME Inv, [Next]_vars, MaxAsync = 0
  PROVE  [Caller!Next]_(Caller!vars)
<1>0. /\ async = {} /\ ProgramTypes /\ Calls /\ Looked /\ QueuesInv
      /\ pc # "ringasync"
      /\ pc # "thrown" => Known
  BY DEF Inv, ProgramInv, NoneLeft, Tracked
<1>1. CASE UNCHANGED <<pc, call, ret>>
  BY <1>1 DEF Caller!vars
<1>2. CASE Throw /\ pc # "idle" /\ pc # "thrown"
  BY <1>2 DEF Throw, Caller!Next, Caller!Fail
<1>3. CASE Inquire
  <2>1. pc = "idle" /\ pc' = "send" /\ UNCHANGED <<call, ret>>
    BY <1>3, NothingWaits DEF Inquire, hist
  <2> QED
    BY <2>1 DEF Caller!Next, Caller!Begin
<1>4. CASE SendCmd
  <2>1. cid[sq] \in CIDs
    BY <1>0 DEF QueuesInv, QueueTypes, ProgramTypes
  <2>2. CASE ~Throw
    <3>1. /\ pc = "send" /\ pc' = "ring" /\ call = None /\ call' \in CIDs /\ ret' = ret
      BY <1>0, <1>4, <2>1, <2>2 DEF SendCmd, hist, Calls
    <3> QED
      BY <3>1 DEF Caller!Next, Caller!Submit
  <2> QED
    BY <1>2, <1>4, <2>2 DEF SendCmd
<1>5. CASE Peek
  <2>1. pc = "peek" /\ pc' = "idle" /\ call' = None
    BY <1>5 DEF Peek
  <2>2. Of(reaped) \in Calling
    BY <1>0, <2>1 DEF Known, InFlight
  <2>3. call # None /\ Of(reaped) = <<sq, call>>
    BY <2>2 DEF Calling
  <2>4. reaped.CID = call /\ cqRing[before] = reaped
    BY <1>0, <2>1, <2>3 DEF Of, Looked
  <2>5. ret' = call
    BY <1>5, <2>3, <2>4 DEF Peek, PeekCE
  <2> QED
    BY <2>1, <2>3, <2>5 DEF Caller!Next, Caller!Return
<1>6. CASE RingCmd \/ Arrived \/ TimesOut \/ GetQMetrics \/ ReapOne
  <2>1. CASE ~Throw
    <3>1. /\ pc \in {"ring", "wait", "metrics", "reap"}
          /\ pc' \in {"wait", "metrics", "reap", "peek"}
          /\ UNCHANGED <<call, ret>>
      BY <1>6, <2>1 DEF RingCmd, Arrived, TimesOut, GetQMetrics, ReapOne, hist
    <3> QED
      BY <3>1 DEF Caller!vars
  <2> QED
    BY <1>2, <1>6, <2>1 DEF RingCmd, Arrived, TimesOut, GetQMetrics, ReapOne
<1>7. CASE SendAsync \/ RingAsync \/ ReapAsync
  <2>1. ~SendAsync
    <3>1. Cardinality(async) = 0
      BY <1>0, FS_EmptySet
    <3> QED
      BY <3>1 DEF SendAsync
  <2>2. ~RingAsync
    BY <1>0 DEF RingAsync
  <2>3. ~ReapAsync
    BY NothingWaits DEF ReapAsync
  <2> QED
    BY <1>7, <2>1, <2>2, <2>3
<1>8. CASE DeviceStep
  BY <1>1, <1>8 DEF DeviceStep, prog, hist
<1>9. CASE UNCHANGED vars
  BY <1>1, <1>9 DEF vars, prog, hist
<1> QED
  BY <1>3, <1>4, <1>5, <1>6, <1>7, <1>8, <1>9 DEF Next, Program

\* SendAndReapCmd() implements CmdCall when no other command is with the
\* device: a call sends one command, and either returns the completion of that
\* command or throws.  That it does one of the two is CallEnds.
THEOREM ImplementsCall ==
  ASSUME MaxAsync = 0
  PROVE  Spec => Caller!Init /\ [][Caller!Next]_(Caller!vars)
<1>1. Init => Caller!Init
  BY DEF Init, Caller!Init
<1>2. Inv /\ [Next]_vars => [Caller!Next]_(Caller!vars)
  BY CallStep
<1> QED
  BY <1>1, <1>2, InvHolds, PTL DEF Spec
=============================================================================
