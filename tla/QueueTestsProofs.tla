-------------------------- MODULE QueueTestsProofs --------------------------
(***************************************************************************)
(* The tests of GrpQueues hold a conforming device to nothing it does not  *)
(* do, and reach what they set out to reach, whatever the sizes of the     *)
(* queues and the number of IO queues.                                     *)
(*                                                                         *)
(* All tests but ManySQtoCQAssoc use one SQ and send in batches.  What a   *)
(* batch is (Batch) survives every step, so that a wait that ends tells    *)
(* how many CE's there must be.                                            *)
(***************************************************************************)
EXTENDS QueueTests, NvmeQueuesProofs

-----------------------------------------------------------------------------
(***************************************************************************)
(* The inductive invariant                                                 *)
(***************************************************************************)
\* The sizes of its queues that a test relies on.
SizesInv ==
  /\ test = "Full" => sqN \in {cqN, cqN + 1}
  /\ test = "RollSame" => sqN = cqN
  /\ test = "ManyCmdSubmit" => sqN = MaxEntries /\ cqN = MaxEntries

QueueTypes ==
  /\ CQTypes
  /\ sqElements \in [SQs -> 2 .. MaxEntries] /\ \A q \in SQs : sqElements[q] = sqN
  /\ sqRing \in [SQs -> [0 .. sqN - 1 -> CIDs]]
  /\ tail_ptr_virt \in [SQs -> 0 .. sqN - 1]
  /\ tail_ptr \in [SQs -> 0 .. sqN - 1]
  /\ fetched \in [SQs -> 0 .. sqN - 1]
  /\ executing \in [SQs -> SUBSET CIDs]
  /\ DOMAIN cqRing = 0 .. cqN - 1
  /\ cid \in [SQs -> CIDs]

\* The device has nothing to do but what comes through the first SQ.
OnlyFirst ==
  \A q \in SQs \ {IOQ_ID} : fetched[q] = tail_ptr[q] /\ executing[q] = {}

\* How far an SQ entry p is from h, and how many commands ago CID c was given.
Off(h, p) == Distance(h, p, sqN)
Age(c) == Distance(c, cid[IOQ_ID], NumCIDs)

\* T commands were sent from SQ entry h on: where the pointers are, and which
\* CID's the entries hold.
Sent(h, T) ==
  /\ h \in 0 .. sqN - 1 /\ T \in 0 .. sqN - 1
  /\ Off(h, tail_ptr_virt[IOQ_ID]) = T
  /\ Off(h, fetched[IOQ_ID]) <= Off(h, tail_ptr[IOQ_ID])
  /\ Off(h, tail_ptr[IOQ_ID]) <= T
  /\ \A p \in 0 .. sqN - 1 : Off(h, p) < T => Age(sqRing[IOQ_ID][p]) = T - Off(h, p)

\* Of these the device is executing some it has read: all but the R that were
\* reaped and those that wait.
Executes(h, T, R) ==
  /\ R \in Nat /\ IsFiniteSet(executing[IOQ_ID])
  /\ Cardinality(executing[IOQ_ID]) = Off(h, fetched[IOQ_ID]) - R - ReapInquiry
  /\ \A c \in executing[IOQ_ID] : T - Off(h, fetched[IOQ_ID]) < Age(c) /\ Age(c) <= T

\* The newest CE tells of at least as many commands as were completed.
Completed(h, R) ==
  /\ \A i \in Waiting : cqRing[i].SQID = IOQ_ID /\ cqRing[i].SQHD \in 0 .. sqN - 1
  /\ \A i \in Waiting : (i + 1) % cqN = cqTail =>
       /\ R + ReapInquiry <= Off(h, cqRing[i].SQHD)
       /\ Off(h, cqRing[i].SQHD) <= Off(h, fetched[IOQ_ID])

Batch(h, T, R) == Sent(h, T) /\ Executes(h, T, R) /\ Completed(h, R)

Rung == tail_ptr[IOQ_ID] = tail_ptr_virt[IOQ_ID]

\* AdminQFull, IOQFull: nothing is reaped until the last command.
FullInv ==
  \E T, R \in Nat :
    /\ Batch(0, T, R)
    /\ T = (IF pc = "send" THEN n ELSE n + 1) /\ R = (IF pc = "last" THEN 1 ELSE 0)
    /\ pc \in {"send", "ring", "wait", "last"}
    /\ pc # "last" => head_ptr[IOQ_ID] = 0
    /\ pc # "ring" => Rung
    /\ pc = "send" => ReapInquiry = n
    /\ pc = "last" => n = sqN - 2 /\ sqN = cqN + 1 /\ full = {"SQ", "CQ"}
    /\ T = sqN - 1 => "SQ" \in full
    /\ ReapInquiry = cqN - 1 => "CQ" \in full
    /\ full \subseteq {"SQ", "CQ"}

\* The tests of rollover: one command at a time; what has come round so far.
RollInv ==
  \E h, T \in Nat :
    /\ Batch(h, T, 0)
    /\ h = n % sqN /\ T = (IF pc = "send" THEN 0 ELSE 1)
    /\ pc \in {"send", "ring", "wait"}
    /\ n <= Submissions /\ (pc # "send" => n < Submissions)
    /\ head_ptr[IOQ_ID] = h /\ cqHead = n % cqN
    /\ IF pc = "ring" THEN tail_ptr[IOQ_ID] = h ELSE Rung
    /\ rolled \subseteq {"tail", "head", "cq"}
    /\ n >= sqN => "head" \in rolled /\ "tail" \in rolled
    /\ pc = "wait" /\ n + 1 >= sqN => "tail" \in rolled
    /\ n >= cqN => "cq" \in rolled
    /\ pc = "send" /\ n > 0 => LastReaped.SQHD = h

\* ManyCmdSubmit: a batch begins at the head dnvme knows.
ManyInv ==
  \E h, T \in Nat :
    /\ Batch(h, T, 0)
    /\ h = head_ptr[IOQ_ID] /\ T = k
    /\ pc \in {"send", "wait"} /\ n >= 1
    /\ k <= n /\ (n >= MaxEntries => k = 0)
    /\ pc = "wait" => k = n /\ n < MaxEntries /\ Rung
    /\ increment \in Nat

\* SQCQSizeMismatch: one batch that fills the SQ, reaped one by one.
MismatchInv ==
  \E T, R \in Nat :
    /\ Batch(0, T, R)
    /\ T = k /\ R = n
    /\ pc \in {"send", "wait"}
    /\ pc = "wait" => k = sqN - 1 /\ Rung
    /\ pc = "send" => n = 0 /\ head_ptr[IOQ_ID] = 0

\* ManySQtoCQAssoc: the SQ's that have a command on its way.
Busy == IF pc = "wait" THEN left ELSE 1 .. k

\* An SQ without: the device and dnvme agree.
Idles(q) ==
  fetched[q] = SQIDToSQHD[q] /\ head_ptr[q] = SQIDToSQHD[q] /\ executing[q] = {}

\* An SQ with one: it is in the SQ, or with the device, or its CE waits.
HasCE(q) == \E i \in Waiting : cqRing[i].SQID = q

Works(q) ==
  /\ head_ptr[q] \in 0 .. sqN - 1 /\ SQIDToSQHD[q] = (head_ptr[q] + 1) % sqN
  /\ \/ fetched[q] = head_ptr[q] /\ executing[q] = {} /\ ~HasCE(q)
     \/ fetched[q] = SQIDToSQHD[q] /\ executing[q] # {} /\ ~HasCE(q)
     \/ fetched[q] = SQIDToSQHD[q] /\ executing[q] = {} /\ HasCE(q)
  /\ \A c, d \in executing[q] : c = d

AssocSQ(q) ==
  /\ tail_ptr[q] = SQIDToSQHD[q]
  /\ tail_ptr_virt[q] = IF pc = "ring" /\ q = k + 1 THEN (SQIDToSQHD[q] + 1) % sqN
                        ELSE SQIDToSQHD[q]
  /\ IF q \in Busy THEN Works(q) ELSE Idles(q)

AssocCEs ==
  /\ \A i \in Waiting : /\ cqRing[i].SQID \in Busy
                        /\ cqRing[i].SQHD = SQIDToSQHD[cqRing[i].SQID]
  /\ \A i, j \in Waiting : cqRing[i].SQID = cqRing[j].SQID => i = j

AssocInv ==
  /\ pc \in {"send", "ring", "wait"} /\ n \in 1 .. NumIOQs + 1
  /\ IF pc = "wait" THEN n <= NumIOQs /\ IsFiniteSet(left) /\ k = Cardinality(left)
     ELSE k <= n /\ (pc = "ring" => k < n)
  /\ n > NumIOQs => pc = "send" /\ k = 0
  /\ left \subseteq SQs
  /\ SQIDToSQHD \in [SQs -> 0 .. sqN - 1]
  /\ (\A q \in SQs : AssocSQ(q)) /\ AssocCEs

Inv ==
  /\ verdict = "running" =>
       /\ QueueTypes /\ SizesInv /\ n \in Nat /\ k \in Nat
       /\ test # "ManySQtoCQ" => OnlyFirst
       /\ test = "Full" => FullInv
       /\ test \in Rolls => RollInv
       /\ test = "ManyCmdSubmit" => ManyInv
       /\ test = "SizeMismatch" => MismatchInv
       /\ test = "ManySQtoCQ" => AssocInv
  /\ NoFalseFailure /\ FullFillsBoth /\ RollsOver

-----------------------------------------------------------------------------
(***************************************************************************)
(* Types                                                                   *)
(***************************************************************************)
LEMMA First == IOQ_ID \in SQs
  BY QueueTestsAssumption DEF IOQ_ID

LEMMA SizeFacts ==
  QueueTypes => /\ sqN \in Nat \ {0, 1} /\ sqN \in Nat \ {0} /\ sqN <= NumCIDs
                /\ NumCIDs \in Nat \ {0} /\ MaxEntries \in Nat /\ sqN <= MaxEntries
                /\ cqN \in Nat \ {0, 1} /\ cqN \in Nat \ {0}
                /\ CIDs = 0 .. NumCIDs - 1
                /\ \A q \in SQs : sqElements[q] = sqN
<1> SUFFICES ASSUME QueueTypes PROVE
      /\ sqN \in Nat \ {0, 1} /\ sqN \in Nat \ {0} /\ sqN <= NumCIDs
      /\ NumCIDs \in Nat \ {0} /\ MaxEntries \in Nat /\ sqN <= MaxEntries
      /\ cqN \in Nat \ {0, 1} /\ cqN \in Nat \ {0}
      /\ CIDs = 0 .. NumCIDs - 1
      /\ \A q \in SQs : sqElements[q] = sqN
  BY Zenon
<1>1. sqN \in 2 .. MaxEntries /\ \A q \in SQs : sqElements[q] = sqN
  BY First DEF QueueTypes, sqN
<1>2. MaxEntries \in Nat /\ MaxEntries <= NumCIDs /\ NumCIDs \in Nat \ {0}
  BY QueueTestsAssumption, QueuesAssumption
<1>3. cqN \in Nat \ {0, 1}
  BY DEF QueueTypes, CQTypes, cqN
<1> QED
  BY <1>1, <1>2, <1>3 DEF CIDs

LEMMA SendTypes ==
  ASSUME QueueTypes, NEW q \in SQs, Send(q)
  PROVE  /\ QueueTypes' /\ sqN' = sqN /\ cqN' = cqN
         /\ ReapInquiry' = ReapInquiry /\ Waiting' = Waiting
<1>1. sqElements' = sqElements /\ cqElements' = cqElements /\ sqN' = sqN /\ cqN' = cqN
  BY DEF Send, sizes, sqN, cqN
<1>2. tail_ptr' = tail_ptr /\ cqHead' = cqHead /\ cqTail' = cqTail /\ cqRing' = cqRing
      /\ fetched' = fetched /\ executing' = executing
  BY DEF Send, device
<1>3. (tail_ptr_virt[q] + 1) % sqElements[q] \in 0 .. sqN - 1
  BY SizeFacts, Successor DEF QueueTypes
<1>4. (cid[q] + 1) % NumCIDs \in CIDs
  BY SizeFacts, Successor DEF QueueTypes
<1>5. tail_ptr_virt' \in [SQs -> 0 .. sqN - 1]
  BY <1>3 DEF QueueTypes, Send
<1>6. cid' \in [SQs -> CIDs]
  BY <1>4 DEF QueueTypes, Send
<1>7. sqRing' \in [SQs -> [0 .. sqN - 1 -> CIDs]]
  BY DEF QueueTypes, Send
<1>8. CQTypes'
  BY <1>1, <1>2 DEF QueueTypes, CQTypes
<1>9. ReapInquiry' = ReapInquiry /\ Waiting' = Waiting
  BY <1>1, <1>2 DEF ReapInquiry, Waiting
<1> QED
  BY <1>1, <1>2, <1>5, <1>6, <1>7, <1>8, <1>9 DEF QueueTypes

LEMMA RingTypes ==
  ASSUME QueueTypes, NEW q \in SQs, Ring(q)
  PROVE  /\ QueueTypes' /\ sqN' = sqN /\ cqN' = cqN
         /\ ReapInquiry' = ReapInquiry /\ Waiting' = Waiting
<1>1. sqElements' = sqElements /\ cqElements' = cqElements /\ sqN' = sqN /\ cqN' = cqN
  BY DEF Ring, sizes, sqN, cqN
<1>2. /\ sqRing' = sqRing /\ cid' = cid /\ tail_ptr_virt' = tail_ptr_virt
      /\ cqHead' = cqHead /\ cqTail' = cqTail /\ cqRing' = cqRing
      /\ fetched' = fetched /\ executing' = executing
  BY DEF Ring, device
<1>3. tail_ptr' \in [SQs -> 0 .. sqN - 1]
  BY DEF QueueTypes, Ring
<1>4. CQTypes'
  BY <1>1, <1>2 DEF QueueTypes, CQTypes
<1>5. ReapInquiry' = ReapInquiry /\ Waiting' = Waiting
  BY <1>1, <1>2 DEF ReapInquiry, Waiting
<1> QED
  BY <1>1, <1>2, <1>3, <1>4, <1>5 DEF QueueTypes

LEMMA FetchTypes ==
  ASSUME QueueTypes, NEW q \in SQs, Fetch(q)
  PROVE  /\ QueueTypes' /\ sqN' = sqN /\ cqN' = cqN
         /\ ReapInquiry' = ReapInquiry /\ Waiting' = Waiting
<1>1. sqElements' = sqElements /\ cqElements' = cqElements /\ sqN' = sqN /\ cqN' = cqN
  BY DEF Fetch, sizes, sqN, cqN
<1>2. /\ sqRing' = sqRing /\ cid' = cid /\ tail_ptr_virt' = tail_ptr_virt
      /\ tail_ptr' = tail_ptr
      /\ cqHead' = cqHead /\ cqTail' = cqTail /\ cqRing' = cqRing
  BY DEF Fetch, dnvme
<1>3. (fetched[q] + 1) % sqElements[q] \in 0 .. sqN - 1
  BY SizeFacts, Successor DEF QueueTypes
<1>4. fetched' \in [SQs -> 0 .. sqN - 1]
  BY <1>3 DEF QueueTypes, Fetch
<1>5. executing' \in [SQs -> SUBSET CIDs]
  BY DEF QueueTypes, Fetch
<1>6. CQTypes'
  BY <1>1, <1>2 DEF QueueTypes, CQTypes
<1>7. ReapInquiry' = ReapInquiry /\ Waiting' = Waiting
  BY <1>1, <1>2 DEF ReapInquiry, Waiting
<1> QED
  BY <1>1, <1>2, <1>4, <1>5, <1>6, <1>7 DEF QueueTypes

\* The newest CE is the one written last.
LEMMA CompleteTypes ==
  ASSUME QueueTypes, NEW q \in SQs, Complete(q)
  PROVE  /\ QueueTypes' /\ sqN' = sqN /\ cqN' = cqN
         /\ ReapInquiry' = ReapInquiry + 1
         /\ Waiting' = Waiting \cup {cqTail} /\ cqTail \notin Waiting
         /\ \E c \in executing[q] :
              /\ executing' = [executing EXCEPT ![q] = @ \ {c}]
              /\ cqRing'[cqTail] = [SQID |-> q, CID |-> c, SQHD |-> fetched[q]]
         /\ \A i \in Waiting : cqRing'[i] = cqRing[i]
         /\ \A i \in Waiting' : (i + 1) % cqN = cqTail' => i = cqTail
<1>1. sqElements' = sqElements /\ cqElements' = cqElements /\ sqN' = sqN /\ cqN' = cqN
  BY DEF Complete, sizes, sqN, cqN
<1>2. /\ sqRing' = sqRing /\ cid' = cid /\ tail_ptr_virt' = tail_ptr_virt
      /\ tail_ptr' = tail_ptr /\ cqHead' = cqHead /\ fetched' = fetched
  BY DEF Complete, dnvme
<1>3. CQTypes /\ ~CQFull /\ cqTail' = (cqTail + 1) % cqElements
  BY DEF QueueTypes, Complete
<1>4. /\ CQTypes' /\ ReapInquiry' = ReapInquiry + 1
      /\ Waiting' = Waiting \cup {cqTail} /\ cqTail \notin Waiting
  BY <1>1, <1>2, <1>3, CEArrives
<1>5. PICK c \in executing[q] :
        /\ executing' = [executing EXCEPT ![q] = @ \ {c}]
        /\ cqRing' = [cqRing EXCEPT ![cqTail] =
                        [SQID |-> q, CID |-> c, SQHD |-> fetched[q]]]
  BY DEF Complete
<1>6. executing' \in [SQs -> SUBSET CIDs]
  BY <1>5 DEF QueueTypes
<1>7. /\ DOMAIN cqRing' = 0 .. cqN - 1
      /\ cqRing'[cqTail] = [SQID |-> q, CID |-> c, SQHD |-> fetched[q]]
      /\ \A i \in 0 .. cqN - 1 : i # cqTail => cqRing'[i] = cqRing[i]
  BY <1>3, <1>5 DEF QueueTypes, CQTypes, cqN
<1>8. Waiting \subseteq 0 .. cqN - 1 /\ cqTail \in 0 .. cqN - 1
  BY <1>3, Waits DEF WaitingIs, CQTypes, cqN
<1>9. \A i \in Waiting : cqRing'[i] = cqRing[i]
  BY <1>4, <1>7, <1>8
<1>10. \A i \in 0 .. cqN - 1 : (i + 1) % cqN = (cqTail + 1) % cqN => i = cqTail
  <2>1. \A i \in 0 .. cqN - 1 : (i + 1) % cqN = IF i = cqN - 1 THEN 0 ELSE i + 1
    BY SizeFacts, Successor
  <2>2. cqN \in Nat \ {0}
    BY SizeFacts
  <2> QED
    BY <1>8, <2>1, <2>2
<1>11. \A i \in Waiting' : (i + 1) % cqN = cqTail' => i = cqTail
  BY <1>3, <1>4, <1>8, <1>10 DEF cqN
<1>12. QueueTypes'
  BY <1>1, <1>2, <1>4, <1>6, <1>7 DEF QueueTypes
<1> QED
  BY <1>1, <1>4, <1>5, <1>7, <1>9, <1>11, <1>12

LEMMA ReapTypes ==
  ASSUME QueueTypes, NEW m, Reap(m), CQTypes'
  PROVE  QueueTypes' /\ sqN' = sqN /\ cqN' = cqN
<1>1. sqElements' = sqElements /\ cqElements' = cqElements /\ sqN' = sqN /\ cqN' = cqN
  BY DEF Reap, sizes, sqN, cqN
<1>2. /\ sqRing' = sqRing /\ cid' = cid /\ tail_ptr_virt' = tail_ptr_virt
      /\ tail_ptr' = tail_ptr /\ fetched' = fetched /\ executing' = executing
      /\ cqRing' = cqRing
  BY DEF Reap, device
<1> QED
  BY <1>1, <1>2 DEF QueueTypes

-----------------------------------------------------------------------------
(***************************************************************************)
(* Batches                                                                 *)
(***************************************************************************)
LEMMA Ranges ==
  ASSUME QueueTypes, NEW h \in 0 .. sqN - 1
  PROVE  /\ tail_ptr_virt[IOQ_ID] \in 0 .. sqN - 1 /\ tail_ptr[IOQ_ID] \in 0 .. sqN - 1
         /\ fetched[IOQ_ID] \in 0 .. sqN - 1 /\ cid[IOQ_ID] \in CIDs
         /\ executing[IOQ_ID] \subseteq CIDs
         /\ \A p \in 0 .. sqN - 1 : sqRing[IOQ_ID][p] \in CIDs /\ Off(h, p) \in 0 .. sqN - 1
         /\ \A c \in CIDs : Age(c) \in 0 .. NumCIDs - 1
         /\ ReapInquiry \in 0 .. cqN - 1
<1>1. /\ tail_ptr_virt[IOQ_ID] \in 0 .. sqN - 1 /\ tail_ptr[IOQ_ID] \in 0 .. sqN - 1
      /\ fetched[IOQ_ID] \in 0 .. sqN - 1 /\ cid[IOQ_ID] \in CIDs
      /\ executing[IOQ_ID] \subseteq CIDs
      /\ \A p \in 0 .. sqN - 1 : sqRing[IOQ_ID][p] \in CIDs
  BY First DEF QueueTypes
<1>2. ASSUME NEW p \in 0 .. sqN - 1 PROVE Off(h, p) \in 0 .. sqN - 1
  <2>1. sqN \in Nat \ {0}
    BY SizeFacts
  <2>2. Distance(h, p, sqN) \in 0 .. sqN - 1
    BY <2>1, DistanceIs
  <2> QED
    BY <2>2 DEF Off
<1>3. \A c \in CIDs : Age(c) \in 0 .. NumCIDs - 1
  BY <1>1, SizeFacts, DistanceIs DEF Age
<1>4. ReapInquiry \in 0 .. cqN - 1
  BY Waits DEF QueueTypes, WaitingIs, cqN
<1> QED
  BY <1>1, <1>2, <1>3, <1>4

\* A command sent joins the batch.
LEMMA BatchSend ==
  ASSUME QueueTypes, NEW h, NEW T, NEW R, Batch(h, T, R), T < sqN - 1, Send(IOQ_ID),
         NEW S, S = T + 1
  PROVE  Batch(h, S, R)'
<1> DEFINE q == IOQ_ID
           v == tail_ptr_virt[q]
<1>1. /\ QueueTypes' /\ sqN' = sqN /\ cqN' = cqN
      /\ ReapInquiry' = ReapInquiry /\ Waiting' = Waiting
  BY First, SendTypes
<1>2. /\ tail_ptr' = tail_ptr /\ cqTail' = cqTail /\ cqRing' = cqRing
      /\ fetched' = fetched /\ executing' = executing
  BY DEF Send, device
<1>3. /\ tail_ptr_virt'[q] = (v + 1) % sqN
      /\ cid'[q] = (cid[q] + 1) % NumCIDs
      /\ sqRing'[q][v] = cid[q]
      /\ \A p \in 0 .. sqN - 1 : p # v => sqRing'[q][p] = sqRing[q][p]
  BY First, SizeFacts DEF Send, QueueTypes
<1>4. h \in 0 .. sqN - 1 /\ T \in 0 .. sqN - 1 /\ R \in Nat /\ Off(h, v) = T
      /\ S \in Nat
  BY SizeFacts DEF Batch, Sent, Executes
<1>5. Off(h, tail_ptr_virt'[q]) = S
  <2>1. v \in 0 .. sqN - 1 /\ sqN \in Nat \ {0}
    BY <1>4, Ranges, SizeFacts
  <2>2. Off(h, v) # sqN - 1
    BY <1>4, <2>1
  <2>3. (v + 1) % sqN # h
    BY <1>4, <2>1, <2>2, RoundComplete, Zenon DEF Off
  <2> QED
    BY <1>3, <1>4, <2>1, <2>3, DistanceNext DEF Off
<1>7. ASSUME NEW c \in CIDs, Age(c) <= T
      PROVE  Age(c)' = Age(c) + 1
  <2>1. /\ c \in 0 .. NumCIDs - 1 /\ cid[q] \in 0 .. NumCIDs - 1 /\ NumCIDs \in Nat \ {0}
        /\ sqN <= NumCIDs /\ sqN \in Nat \ {0}
    BY <1>4, Ranges, SizeFacts
  <2>2. Age(c) # NumCIDs - 1
    BY <1>4, <1>7, <2>1
  <2>3. (cid[q] + 1) % NumCIDs # c
    BY <2>1, <2>2, RoundComplete DEF Age
  <2> QED
    BY <1>3, <2>1, <2>3, DistanceNext DEF Age
<1>8. ASSUME NEW p \in 0 .. sqN - 1, Off(h, p) < S
      PROVE  Age(sqRing[q][p])' = S - Off(h, p)
  <2>1. v \in 0 .. sqN - 1 /\ sqN \in Nat \ {0} /\ Off(h, p) \in 0 .. sqN - 1
    BY <1>4, Ranges, SizeFacts
  <2>2. CASE p = v
    <3>1. cid[q] \in CIDs /\ NumCIDs \in Nat \ {0} /\ CIDs = 0 .. NumCIDs - 1
      BY <1>4, Ranges, SizeFacts
    <3>2. Age(cid[q]) = 0
      BY <3>1, DistanceTells DEF Age
    <3>3. Distance(cid[q], cid'[q], NumCIDs) = 1
      <4>1. Age(cid[q]) <= T
        BY <1>4, <3>2, SizeFacts
      <4> DEFINE c == cid[q]
      <4>2. PICK d \in CIDs : d = c
        BY <3>1
      <4>3. Age(d)' = 0 + 1
        BY <1>7, <3>2, <4>1, <4>2
      <4> QED
        BY <4>2, <4>3 DEF Age
    <3> QED
      BY <1>3, <1>4, <2>1, <2>2, <3>3 DEF Age
  <2>3. CASE p # v
    <3>1. Off(h, p) # T
      BY <1>4, <2>1, <2>3, DistanceTells DEF Off
    <3>2. Off(h, p) < T
      BY <1>4, <1>8, <2>1, <3>1
    <3>3. Age(sqRing[q][p]) = T - Off(h, p)
      BY <3>2 DEF Batch, Sent
    <3>4. PICK c \in CIDs : c = sqRing[q][p]
      BY <1>4, Ranges
    <3>5. Age(c) <= T
      BY <1>4, <2>1, <3>3, <3>4
    <3>6. Age(c)' = T - Off(h, p) + 1
      BY <1>7, <3>3, <3>4, <3>5
    <3>7. c = sqRing'[q][p]
      BY <1>3, <2>3, <3>4
    <3>8. Age(sqRing[q][p])' = T - Off(h, p) + 1
      BY <3>6, <3>7 DEF Age
    <3> QED
      BY <1>4, <2>1, <3>8
  <2> QED
    BY <2>2, <2>3
<1>9. ASSUME NEW c \in executing[q]
      PROVE  S - Off(h, fetched[q]) < Age(c)' /\ Age(c)' <= S
  <2>1. c \in CIDs /\ Off(h, fetched[q]) \in 0 .. sqN - 1 /\ Age(c) \in 0 .. NumCIDs - 1
    BY <1>4, Ranges
  <2>2. T - Off(h, fetched[q]) < Age(c) /\ Age(c) <= T
    BY DEF Batch, Sent, Executes
  <2>3. Age(c)' = Age(c) + 1
    BY <1>7, <2>1, <2>2
  <2>4. sqN \in Nat /\ NumCIDs \in Nat
    BY SizeFacts
  <2> QED
    BY <1>4, <2>1, <2>2, <2>3, <2>4
<1>10. S \in 0 .. sqN - 1
  BY <1>4, SizeFacts
<1>11. /\ Off(h, fetched[q]) <= Off(h, tail_ptr[q]) /\ Off(h, tail_ptr[q]) <= S
  <2>1. Off(h, fetched[q]) <= Off(h, tail_ptr[q]) /\ Off(h, tail_ptr[q]) <= T
    BY DEF Batch, Sent
  <2>2. Off(h, tail_ptr[q]) \in 0 .. sqN - 1
    BY <1>4, Ranges
  <2> QED
    BY <1>4, <2>1, <2>2
<1>12. Sent(h, S)'
  <2>1. (h \in 0 .. sqN - 1 /\ S \in 0 .. sqN - 1)'
    BY <1>1, <1>4, <1>10
  <2>2. (Off(h, tail_ptr_virt[IOQ_ID]) = S)'
    BY <1>1, <1>5 DEF Off
  <2>3. (Off(h, fetched[IOQ_ID]) <= Off(h, tail_ptr[IOQ_ID]) /\ Off(h, tail_ptr[IOQ_ID]) <= S)'
    BY <1>1, <1>2, <1>11 DEF Off
  <2>4. ASSUME NEW p \in 0 .. sqN' - 1, Off(h, p)' < S
        PROVE  Age(sqRing[IOQ_ID][p])' = S - Off(h, p)'
    BY <1>1, <1>8, <2>4 DEF Off
  <2> QED
    BY <2>1, <2>2, <2>3, <2>4, Zenon DEF Sent
<1>13. Executes(h, S, R)'
  <2>1. (R \in Nat /\ IsFiniteSet(executing[IOQ_ID]))'
    BY <1>2, <1>4 DEF Batch, Executes
  <2>2. (Cardinality(executing[IOQ_ID]) = Off(h, fetched[IOQ_ID]) - R - ReapInquiry)'
    BY <1>1, <1>2 DEF Batch, Executes, Off
  <2>3. ASSUME NEW c \in executing'[IOQ_ID]
        PROVE  S - Off(h, fetched[IOQ_ID])' < Age(c)' /\ Age(c)' <= S
    BY <1>1, <1>2, <1>9 DEF Off
  <2> QED
    BY <2>1, <2>2, <2>3, Zenon DEF Executes
<1>14. Completed(h, R)'
  BY <1>1, <1>2 DEF Batch, Completed, Off
<1> QED
  BY <1>12, <1>13, <1>14 DEF Batch

\* What a batch says of the numbers behind it.
LEMMA BatchCounts ==
  ASSUME QueueTypes, NEW h, NEW T, NEW R, Batch(h, T, R)
  PROVE  /\ h \in 0 .. sqN - 1 /\ T \in 0 .. sqN - 1 /\ R \in Nat
         /\ ReapInquiry \in 0 .. cqN - 1
         /\ Off(h, fetched[IOQ_ID]) \in 0 .. sqN - 1
         /\ Off(h, tail_ptr[IOQ_ID]) \in 0 .. sqN - 1
         /\ Off(h, fetched[IOQ_ID]) <= Off(h, tail_ptr[IOQ_ID])
         /\ Off(h, tail_ptr[IOQ_ID]) <= T /\ Off(h, tail_ptr_virt[IOQ_ID]) = T
         /\ IsFiniteSet(executing[IOQ_ID])
         /\ Cardinality(executing[IOQ_ID]) \in Nat
         /\ Cardinality(executing[IOQ_ID]) = Off(h, fetched[IOQ_ID]) - R - ReapInquiry
         /\ R + ReapInquiry <= Off(h, fetched[IOQ_ID]) /\ R + ReapInquiry <= T
<1>1. h \in 0 .. sqN - 1 /\ T \in 0 .. sqN - 1 /\ R \in Nat
  BY DEF Batch, Sent, Executes
<1>2. /\ ReapInquiry \in 0 .. cqN - 1
      /\ Off(h, fetched[IOQ_ID]) \in 0 .. sqN - 1
      /\ Off(h, tail_ptr[IOQ_ID]) \in 0 .. sqN - 1
  BY <1>1, Ranges
<1>3. /\ Off(h, fetched[IOQ_ID]) <= Off(h, tail_ptr[IOQ_ID])
      /\ Off(h, tail_ptr[IOQ_ID]) <= T /\ Off(h, tail_ptr_virt[IOQ_ID]) = T
      /\ IsFiniteSet(executing[IOQ_ID])
      /\ Cardinality(executing[IOQ_ID]) = Off(h, fetched[IOQ_ID]) - R - ReapInquiry
  BY DEF Batch, Sent, Executes
<1>4. Cardinality(executing[IOQ_ID]) \in Nat
  BY <1>3, FS_CardinalityType
<1>5. R + ReapInquiry <= Off(h, fetched[IOQ_ID]) /\ R + ReapInquiry <= T
  BY <1>1, <1>2, <1>3, <1>4
<1> QED
  BY <1>1, <1>2, <1>3, <1>4, <1>5

LEMMA BatchRing ==
  ASSUME QueueTypes, NEW h, NEW T, NEW R, Batch(h, T, R), Ring(IOQ_ID)
  PROVE  Batch(h, T, R)' /\ Rung'
<1> DEFINE q == IOQ_ID
<1>1. /\ QueueTypes' /\ sqN' = sqN /\ cqN' = cqN
      /\ ReapInquiry' = ReapInquiry /\ Waiting' = Waiting
  BY First, RingTypes
<1>2. /\ sqRing' = sqRing /\ cid' = cid /\ tail_ptr_virt' = tail_ptr_virt
      /\ cqTail' = cqTail /\ cqRing' = cqRing /\ fetched' = fetched
      /\ executing' = executing
  BY DEF Ring, device
<1>3. tail_ptr'[q] = tail_ptr_virt[q]
  BY First DEF Ring, QueueTypes
<1>4. /\ Off(h, fetched[q]) <= Off(h, tail_ptr_virt[q])
      /\ Off(h, tail_ptr_virt[q]) <= T
  <2>1. /\ sqN \in Nat /\ T \in 0 .. sqN - 1
        /\ Off(h, fetched[q]) \in 0 .. sqN - 1 /\ Off(h, tail_ptr[q]) \in 0 .. sqN - 1
        /\ Off(h, fetched[q]) <= Off(h, tail_ptr[q]) /\ Off(h, tail_ptr[q]) <= T
        /\ Off(h, tail_ptr_virt[q]) = T
    BY BatchCounts, SizeFacts, Zenon
  <2> QED
    BY <2>1
<1>5. Sent(h, T)'
  BY <1>1, <1>2, <1>3, <1>4 DEF Batch, Sent, Off, Age
<1>6. Executes(h, T, R)'
  BY <1>1, <1>2 DEF Batch, Executes, Off, Age
<1>7. Completed(h, R)'
  BY <1>1, <1>2 DEF Batch, Completed, Off
<1> QED
  BY <1>2, <1>3, <1>5, <1>6, <1>7 DEF Batch, Rung

\* A command the device reads is one it is not executing yet.
LEMMA BatchFetch ==
  ASSUME QueueTypes, NEW h, NEW T, NEW R, Batch(h, T, R), Fetch(IOQ_ID)
  PROVE  Batch(h, T, R)'
<1> DEFINE q == IOQ_ID
           f == fetched[q]
           c == sqRing[q][f]
           F == Off(h, f)
<1>1. /\ QueueTypes' /\ sqN' = sqN /\ cqN' = cqN
      /\ ReapInquiry' = ReapInquiry /\ Waiting' = Waiting
  BY First, FetchTypes
<1>2. /\ sqRing' = sqRing /\ cid' = cid /\ tail_ptr_virt' = tail_ptr_virt
      /\ tail_ptr' = tail_ptr /\ cqTail' = cqTail /\ cqRing' = cqRing
  BY DEF Fetch, dnvme
<1>3. /\ f # tail_ptr[q] /\ fetched'[q] = (f + 1) % sqN
      /\ executing'[q] = executing[q] \cup {c}
  BY First, SizeFacts DEF Fetch, QueueTypes
<1>4. /\ h \in 0 .. sqN - 1 /\ f \in 0 .. sqN - 1 /\ tail_ptr[q] \in 0 .. sqN - 1
      /\ c \in CIDs /\ sqN \in Nat \ {0}
  <2>1. h \in 0 .. sqN - 1
    BY BatchCounts
  <2> QED
    BY <2>1, Ranges, SizeFacts
<1>5. F # Off(h, tail_ptr[q])
  BY <1>3, <1>4, DistanceTells DEF Off
<1>6. F < Off(h, tail_ptr[q]) /\ F < T /\ F < sqN - 1 /\ F \in Nat /\ T \in Nat
  <2> DEFINE U == Off(h, tail_ptr[q])
  <2>1. /\ F \in 0 .. sqN - 1 /\ U \in 0 .. sqN - 1 /\ T \in 0 .. sqN - 1
        /\ F <= U /\ U <= T
    BY BatchCounts
  <2> HIDE DEF F, U
  <2>2. F < U /\ F < T /\ F < sqN - 1 /\ F \in Nat /\ T \in Nat
    BY <1>4, <1>5, <2>1 DEF U
  <2> QED
    BY <2>2 DEF U
<1>7. Off(h, fetched'[q]) = F + 1
  <2>1. (f + 1) % sqN # h
    <3>1. F # sqN - 1
      BY <1>4, <1>6
    <3> QED
      BY <1>4, <3>1, RoundComplete, Zenon DEF Off
  <2> QED
    BY <1>3, <1>4, <2>1, DistanceNext DEF Off
<1>8. Age(c) = T - F
  BY <1>4, <1>6 DEF Batch, Sent
<1>9. c \notin executing[q]
  <2>1. \A d \in executing[q] : T - F < Age(d)
    BY DEF Batch, Executes
  <2>2. ~(T - F < T - F)
    BY <1>6
  <2> QED
    BY <1>8, <2>1, <2>2
<1>10. /\ IsFiniteSet(executing'[q])
       /\ Cardinality(executing'[q]) = Cardinality(executing[q]) + 1
  <2>1. IsFiniteSet(executing[q])
    BY BatchCounts
  <2>2. /\ IsFiniteSet(executing[q] \cup {c})
        /\ Cardinality(executing[q] \cup {c}) = Cardinality(executing[q]) + 1
    BY <1>9, <2>1, FS_AddElement, Zenon
  <2> QED
    BY <1>3, <2>2
<1>11. Sent(h, T)'
  <2>1. F + 1 <= Off(h, tail_ptr[q])
    BY <1>6, BatchCounts
  <2> QED
    BY <1>1, <1>2, <1>7, <2>1 DEF Batch, Sent, Off, Age
<1>12. Executes(h, T, R)'
  <2>1. (R \in Nat /\ IsFiniteSet(executing[IOQ_ID]))'
    BY <1>10, BatchCounts
  <2>2. (Cardinality(executing[IOQ_ID]) = Off(h, fetched[IOQ_ID]) - R - ReapInquiry)'
    <3>1. Cardinality(executing[q]) + 1 = (F + 1) - R - ReapInquiry
      BY <1>6, BatchCounts
    <3>2. Cardinality(executing'[q]) = (F + 1) - R - ReapInquiry
      BY <1>10, <3>1, Zenon
    <3>3. Cardinality(executing'[q]) = Off(h, fetched'[q]) - R - ReapInquiry
      BY <1>7, <3>2, Zenon
    <3> QED
      BY <1>1, <3>3 DEF Off
  <2>3. ASSUME NEW d \in executing'[IOQ_ID]
        PROVE  T - Off(h, fetched[IOQ_ID])' < Age(d)' /\ Age(d)' <= T
    <3>1. T - (F + 1) < Age(d) /\ Age(d) <= T
      <4>1. CASE d = c
        BY <1>6, <1>8, <4>1
      <4>2. CASE d # c
        <5>1. T - F < Age(d) /\ Age(d) <= T
          BY <1>3, <4>2 DEF Batch, Executes
        <5>2. d \in CIDs
          BY <1>3, <1>4, <4>2, Ranges
        <5>3. Age(d) \in 0 .. NumCIDs - 1
          BY <1>4, <5>2, Ranges
        <5> QED
          BY <1>6, <5>1, <5>3, SizeFacts
      <4> QED
        BY <4>1, <4>2
    <3>2. Off(h, fetched[IOQ_ID])' = F + 1 /\ Age(d)' = Age(d)
      BY <1>1, <1>2, <1>7 DEF Off, Age
    <3> QED
      BY <3>1, <3>2
  <2> QED
    BY <2>1, <2>2, <2>3, Zenon DEF Executes
<1>13. Completed(h, R)'
  <2>1. \A i \in Waiting : (i + 1) % cqN = cqTail =>
          /\ R + ReapInquiry <= Off(h, cqRing[i].SQHD)
          /\ Off(h, cqRing[i].SQHD) <= F + 1
    <3>1. \A i \in Waiting : cqRing[i].SQHD \in 0 .. sqN - 1
      BY DEF Batch, Completed
    <3>2. \A i \in Waiting : Off(h, cqRing[i].SQHD) \in 0 .. sqN - 1
      BY <1>4, <3>1, Ranges
    <3>3. \A i \in Waiting : (i + 1) % cqN = cqTail =>
            /\ R + ReapInquiry <= Off(h, cqRing[i].SQHD)
            /\ Off(h, cqRing[i].SQHD) <= F
      BY DEF Batch, Completed
    <3>4. \A x \in 0 .. sqN - 1 : x <= F => x <= F + 1
      BY <1>6
    <3> QED
      BY <3>2, <3>3, <3>4
  <2> QED
    BY <1>1, <1>2, <1>7, <2>1 DEF Batch, Completed, Off
<1> QED
  BY <1>11, <1>12, <1>13 DEF Batch

\* A CE tells how far the device has read, which is as far as it has completed
\* at least.
LEMMA BatchComplete ==
  ASSUME QueueTypes, NEW h, NEW T, NEW R, Batch(h, T, R), Complete(IOQ_ID)
  PROVE  Batch(h, T, R)'
<1> DEFINE q == IOQ_ID
           F == Off(h, fetched[q])
<1>1. /\ QueueTypes' /\ sqN' = sqN /\ cqN' = cqN
      /\ ReapInquiry' = ReapInquiry + 1
      /\ Waiting' = Waiting \cup {cqTail}
      /\ \A i \in Waiting : cqRing'[i] = cqRing[i]
      /\ \A i \in Waiting' : (i + 1) % cqN = cqTail' => i = cqTail
  BY First, CompleteTypes
<1>2. PICK c \in executing[q] :
        /\ executing' = [executing EXCEPT ![q] = @ \ {c}]
        /\ cqRing'[cqTail] = [SQID |-> q, CID |-> c, SQHD |-> fetched[q]]
  BY First, CompleteTypes
<1>3. /\ sqRing' = sqRing /\ cid' = cid /\ tail_ptr_virt' = tail_ptr_virt
      /\ tail_ptr' = tail_ptr /\ fetched' = fetched
  BY DEF Complete, dnvme
<1>4. executing'[q] = executing[q] \ {c}
  BY <1>2, First DEF QueueTypes
<1>5. /\ IsFiniteSet(executing[q]) /\ R \in Nat /\ ReapInquiry \in 0 .. cqN - 1
      /\ F \in 0 .. sqN - 1 /\ Cardinality(executing[q]) \in Nat
      /\ Cardinality(executing[q]) = F - R - ReapInquiry
      /\ h \in 0 .. sqN - 1 /\ fetched[q] \in 0 .. sqN - 1
  <2>1. h \in 0 .. sqN - 1
    BY BatchCounts
  <2> QED
    BY <2>1, BatchCounts, Ranges
<1>6. /\ IsFiniteSet(executing'[q])
      /\ Cardinality(executing'[q]) = Cardinality(executing[q]) - 1
  <2>1. /\ IsFiniteSet(executing[q] \ {c})
        /\ Cardinality(executing[q] \ {c}) = Cardinality(executing[q]) - 1
    BY <1>5, FS_RemoveElement
  <2> QED
    BY <1>4, <2>1
<1>7. R + (ReapInquiry + 1) <= F /\ Cardinality(executing'[q]) = F - R - (ReapInquiry + 1)
  <2>1. Cardinality(executing'[q]) \in Nat
    BY <1>6, FS_CardinalityType
  <2> DEFINE C == Cardinality(executing[q])
             D == Cardinality(executing'[q])
             W == ReapInquiry
  <2>2. C \in Nat /\ D \in Nat /\ D = C - 1 /\ C = F - R - W /\ W \in Int /\ F \in Int
    BY <1>5, <1>6, <2>1
  <2> HIDE DEF C, D, W, F
  <2>3. R + (W + 1) <= F /\ D = F - R - (W + 1)
    BY <1>5, <2>2
  <2> QED
    BY <2>3 DEF D, W
<1>8. Sent(h, T)'
  BY <1>1, <1>3 DEF Batch, Sent, Off, Age
<1>9. Executes(h, T, R)'
  <2>1. (Cardinality(executing[IOQ_ID]) = Off(h, fetched[IOQ_ID]) - R - ReapInquiry)'
    BY <1>1, <1>3, <1>7 DEF Off
  <2>2. \A d \in executing'[q] : T - F < Age(d) /\ Age(d) <= T
    BY <1>4 DEF Batch, Executes
  <2> QED
    BY <1>1, <1>3, <1>5, <1>6, <2>1, <2>2 DEF Executes, Off, Age
<1>10. Completed(h, R)'
  <2>1. cqRing'[cqTail].SQID = q /\ cqRing'[cqTail].SQHD = fetched[q]
    BY <1>2
  <2>2. \A i \in Waiting' : cqRing'[i].SQID = q /\ cqRing'[i].SQHD \in 0 .. sqN - 1
    <3>1. \A i \in Waiting : cqRing[i].SQID = q /\ cqRing[i].SQHD \in 0 .. sqN - 1
      BY DEF Batch, Completed
    <3> QED
      BY <1>1, <1>5, <2>1, <3>1
  <2>3. F <= F
    BY <1>5
  <2>4. \A i \in Waiting' : (i + 1) % cqN = cqTail' =>
          /\ R + (ReapInquiry + 1) <= Off(h, cqRing'[i].SQHD)
          /\ Off(h, cqRing'[i].SQHD) <= F
    BY <1>1, <1>7, <2>1, <2>3
  <2> QED
    BY <1>1, <1>3, <2>2, <2>4 DEF Completed, Off
<1> QED
  BY <1>8, <1>9, <1>10 DEF Batch

\* The other SQ's stay idle while a batch is on its way.
LEMMA BatchDevice ==
  ASSUME QueueTypes, OnlyFirst, NEW h, NEW T, NEW R, Batch(h, T, R), Device
  PROVE  /\ QueueTypes' /\ OnlyFirst' /\ Batch(h, T, R)'
         /\ sqN' = sqN /\ cqN' = cqN /\ Rung' = Rung
         /\ UNCHANGED <<tail_ptr_virt, tail_ptr, head_ptr, cqHead>>
<1>1. PICK q \in SQs : Fetch(q) \/ Complete(q)
  BY DEF Device
<1>2. q = IOQ_ID
  <2>1. CASE Fetch(q)
    BY <2>1 DEF Fetch, OnlyFirst
  <2>2. CASE Complete(q)
    BY <2>2 DEF Complete, OnlyFirst
  <2> QED
    BY <1>1, <2>1, <2>2
<1>3. UNCHANGED <<tail_ptr_virt, tail_ptr, head_ptr, cqHead>>
  BY <1>1 DEF Fetch, Complete, dnvme
<1>4. Rung' = Rung
  BY <1>3 DEF Rung
<1>5. QueueTypes' /\ sqN' = sqN /\ cqN' = cqN
  BY <1>1, FetchTypes, CompleteTypes
<1>6. \A p \in SQs \ {q} : fetched'[p] = fetched[p] /\ executing'[p] = executing[p]
  <2>1. CASE Fetch(q)
    BY <2>1 DEF Fetch, QueueTypes
  <2>2. CASE Complete(q)
    BY <2>2 DEF Complete, QueueTypes
  <2> QED
    BY <1>1, <2>1, <2>2
<1>7. OnlyFirst'
  BY <1>2, <1>3, <1>6 DEF OnlyFirst
<1>8. Batch(h, T, R)'
  BY <1>1, <1>2, BatchFetch, BatchComplete
<1> QED
  BY <1>3, <1>4, <1>5, <1>7, <1>8

\* When the device can do nothing more and the CQ has room, all is completed.
LEMMA BatchQuiet ==
  ASSUME QueueTypes, NEW h, NEW T, NEW R, Batch(h, T, R), Rung, Quiescent, ~CQFull
  PROVE  R + ReapInquiry = T
<1>1. fetched[IOQ_ID] = tail_ptr[IOQ_ID] /\ executing[IOQ_ID] = {}
  BY First DEF Quiescent
<1>2. Off(h, fetched[IOQ_ID]) = T
  BY <1>1, BatchCounts DEF Rung
<1>3. Cardinality(executing[IOQ_ID]) = 0
  BY <1>1, FS_EmptySet
<1>4. /\ T - R - ReapInquiry = 0 /\ T \in 0 .. sqN - 1 /\ R \in Nat
      /\ ReapInquiry \in 0 .. cqN - 1
  BY <1>2, <1>3, BatchCounts
<1> QED
  BY <1>4, SizeFacts

LEMMA RoomLeft == QueueTypes => (CQFull <=> ReapInquiry = cqN - 1)
  BY Waits DEF QueueTypes, WaitingIs, cqN

\* One CE is reaped.
LEMMA BatchTakeOne ==
  ASSUME QueueTypes, NEW h, NEW T, NEW R, Batch(h, T, R), ReapInquiry # 0, Reap(1),
         NEW S, S = R + 1
  PROVE  /\ QueueTypes' /\ Batch(h, T, S)' /\ sqN' = sqN /\ cqN' = cqN
         /\ Rung' = Rung /\ ReapInquiry' = ReapInquiry - 1
<1>1. CQTypes /\ NumReaped(1) = 1
  BY OneOrNone DEF QueueTypes
<1>2. cqHead' = (cqHead + 1) % cqElements
  BY <1>1, ReapsFirst
<1>3. /\ cqTail' = cqTail /\ cqElements' = cqElements /\ cqRing' = cqRing
      /\ sqRing' = sqRing /\ cid' = cid /\ tail_ptr_virt' = tail_ptr_virt
      /\ tail_ptr' = tail_ptr /\ fetched' = fetched /\ executing' = executing
  BY DEF Reap, device, sizes
<1>4. CQTypes' /\ ReapInquiry' = ReapInquiry - 1 /\ Waiting' = Waiting \ {cqHead}
  BY <1>1, <1>2, <1>3, CETaken
<1>5. QueueTypes' /\ sqN' = sqN /\ cqN' = cqN
  BY <1>4, ReapTypes
<1>6. R \in Nat /\ ReapInquiry \in 0 .. cqN - 1 /\ cqN \in Nat
      /\ Off(h, fetched[IOQ_ID]) \in 0 .. sqN - 1 /\ sqN \in Nat
      /\ IsFiniteSet(executing[IOQ_ID])
      /\ Cardinality(executing[IOQ_ID]) = Off(h, fetched[IOQ_ID]) - R - ReapInquiry
  BY BatchCounts, SizeFacts
<1>7. /\ S \in Nat /\ S + (ReapInquiry - 1) = R + ReapInquiry
      /\ Off(h, fetched[IOQ_ID]) - S - (ReapInquiry - 1)
           = Off(h, fetched[IOQ_ID]) - R - ReapInquiry
  BY <1>6
<1>8. Sent(h, T)'
  BY <1>3, <1>5 DEF Batch, Sent, Off, Age
<1>9. Executes(h, T, S)'
  <2>1. (Cardinality(executing[IOQ_ID]) = Off(h, fetched[IOQ_ID]) - S - ReapInquiry)'
    BY <1>3, <1>4, <1>5, <1>6, <1>7 DEF Off
  <2>2. \A c \in executing[IOQ_ID] :
          T - Off(h, fetched[IOQ_ID]) < Age(c) /\ Age(c) <= T
    BY DEF Batch, Executes
  <2> QED
    BY <1>3, <1>5, <1>6, <1>7, <2>1, <2>2 DEF Executes, Off, Age
<1>10. Completed(h, S)'
  BY <1>3, <1>4, <1>5, <1>7 DEF Batch, Completed, Off
<1>11. Rung' = Rung
  BY <1>3 DEF Rung
<1> QED
  BY <1>4, <1>5, <1>8, <1>9, <1>10, <1>11 DEF Batch

\* Once all of a batch waits, its newest CE says that all of it was read.
LEMMA NewestTells ==
  ASSUME QueueTypes, NEW h, NEW T, Batch(h, T, 0), ReapInquiry = T,
         NEW e \in Waiting, (e + 1) % cqN = cqTail
  PROVE  cqRing[e].SQHD = tail_ptr_virt[IOQ_ID]
<1> DEFINE s == cqRing[e].SQHD
<1>1. /\ s \in 0 .. sqN - 1 /\ 0 + ReapInquiry <= Off(h, s)
      /\ Off(h, s) <= Off(h, fetched[IOQ_ID])
  BY DEF Batch, Completed
<1>2. /\ h \in 0 .. sqN - 1 /\ T \in 0 .. sqN - 1 /\ sqN \in Nat \ {0}
      /\ Off(h, fetched[IOQ_ID]) \in 0 .. sqN - 1
      /\ Off(h, fetched[IOQ_ID]) <= Off(h, tail_ptr[IOQ_ID])
      /\ Off(h, tail_ptr[IOQ_ID]) \in 0 .. sqN - 1
      /\ Off(h, tail_ptr[IOQ_ID]) <= T /\ Off(h, tail_ptr_virt[IOQ_ID]) = T
  BY BatchCounts, SizeFacts
<1>3. Off(h, s) \in 0 .. sqN - 1 /\ tail_ptr_virt[IOQ_ID] \in 0 .. sqN - 1
  BY <1>1, <1>2, Ranges
<1> HIDE DEF s
<1>4. Off(h, s) = Off(h, tail_ptr_virt[IOQ_ID])
  BY <1>1, <1>2, <1>3
<1>5. s = tail_ptr_virt[IOQ_ID]
  BY <1>1, <1>2, <1>3, <1>4, DistanceTells DEF Off
<1> QED
  BY <1>5 DEF s

\* All of a batch waits and is reaped: the next begins where it ended.
LEMMA BatchOver ==
  ASSUME QueueTypes, NEW h, NEW T, Batch(h, T, 0), T # 0, ReapInquiry = T,
         NEW m, NumReaped(m) = T, Reap(m), NEW g, g = tail_ptr_virt[IOQ_ID]
  PROVE  /\ QueueTypes' /\ sqN' = sqN /\ cqN' = cqN
         /\ Batch(g, 0, 0)' /\ head_ptr'[IOQ_ID] = g /\ tail_ptr'[IOQ_ID] = g
         /\ tail_ptr_virt'[IOQ_ID] = g /\ cqHead' = cqTail
<1> DEFINE q == IOQ_ID
<1>1. CQTypes /\ \A i \in Waiting : cqRing[i].SQID = q
  BY DEF QueueTypes, Batch, Completed
<1>2. PICK e \in Waiting : /\ cqHead' = cqTail
                           /\ (e + 1) % cqElements = cqTail
                           /\ head_ptr'[q] = cqRing[e].SQHD
  BY <1>1, First, ReapsAll
<1>3. head_ptr'[q] = g
  BY <1>2, NewestTells DEF cqN
<1>4. /\ cqTail' = cqTail /\ cqElements' = cqElements /\ cqRing' = cqRing
      /\ sqRing' = sqRing /\ cid' = cid /\ tail_ptr_virt' = tail_ptr_virt
      /\ tail_ptr' = tail_ptr /\ fetched' = fetched /\ executing' = executing
  BY DEF Reap, device, sizes
<1>5. CQTypes'
  BY <1>1, <1>2, <1>4 DEF CQTypes
<1>6. QueueTypes' /\ sqN' = sqN /\ cqN' = cqN
  BY <1>5, ReapTypes
<1>7. ReapInquiry' = 0 /\ Waiting' = {}
  <2>1. WaitingIs'
    BY <1>5, Waits, PTL
  <2> QED
    BY <1>2, <1>4, <2>1 DEF WaitingIs
<1> DEFINE F == Off(h, fetched[q])
           U == Off(h, tail_ptr[q])
<1>8. /\ h \in 0 .. sqN - 1 /\ sqN \in Nat \ {0}
      /\ g \in 0 .. sqN - 1 /\ fetched[q] \in 0 .. sqN - 1 /\ tail_ptr[q] \in 0 .. sqN - 1
  <2>1. h \in 0 .. sqN - 1
    BY BatchCounts
  <2> QED
    BY <2>1, Ranges, SizeFacts
<1>9. F = T /\ U = T /\ Cardinality(executing[q]) = 0
  <2> DEFINE C == Cardinality(executing[q])
  <2>1. /\ F \in 0 .. sqN - 1 /\ U \in 0 .. sqN - 1 /\ T \in 0 .. sqN - 1
        /\ C \in Nat /\ F <= U /\ U <= T /\ C = F - 0 - T
    BY BatchCounts
  <2> HIDE DEF F, U, C
  <2>2. F = T /\ U = T /\ C = 0
    BY <1>8, <2>1
  <2> QED
    BY <2>2 DEF C
<1>10. Off(h, g) = T
  BY BatchCounts
<1>11. fetched[q] = g /\ tail_ptr[q] = g
  <2>1. Off(h, fetched[q]) = Off(h, g) /\ Off(h, tail_ptr[q]) = Off(h, g)
    BY <1>9, <1>10
  <2>2. ASSUME NEW x \in 0 .. sqN - 1, Off(h, x) = Off(h, g)
        PROVE  x = g
    BY <1>8, <2>2, DistanceTells, Zenon DEF Off
  <2> QED
    BY <1>8, <2>1, <2>2
<1>12. executing[q] = {}
  BY <1>9, BatchCounts, FS_EmptySet
<1>13. Off(g, g) = 0
  BY <1>8, DistanceTells DEF Off
<1>14. Sent(g, 0)'
  <2>1. \A p \in 0 .. sqN - 1 : Off(g, p) \in 0 .. sqN - 1
    BY <1>8, Ranges
  <2>2. \A p \in 0 .. sqN - 1 : ~(Off(g, p) < 0)
    BY <2>1
  <2>3. 0 \in 0 .. sqN - 1 /\ 0 <= 0
    BY <1>8
  <2> QED
    BY <1>4, <1>6, <1>8, <1>11, <1>13, <2>2, <2>3 DEF Sent, Off
<1>15. Executes(g, 0, 0)'
  <2>1. IsFiniteSet({}) /\ Cardinality({}) = 0
    BY FS_EmptySet
  <2>2. 0 = 0 - 0 - 0
    OBVIOUS
  <2> QED
    BY <1>4, <1>6, <1>7, <1>11, <1>12, <1>13, <2>1, <2>2 DEF Executes, Off
<1>16. Completed(g, 0)'
  BY <1>7 DEF Completed
<1> QED
  BY <1>2, <1>3, <1>4, <1>6, <1>11, <1>14, <1>15, <1>16 DEF Batch

-----------------------------------------------------------------------------
(***************************************************************************)
(* The operations of a test with one SQ                                    *)
(***************************************************************************)
LEMMA SizesStay ==
  ASSUME SizesInv, test' = test, sqN' = sqN, cqN' = cqN
  PROVE  SizesInv'
  BY DEF SizesInv

LEMMA OnlyFirstStays ==
  ASSUME QueueTypes, OnlyFirst, Send(IOQ_ID) \/ Ring(IOQ_ID) \/ \E m : Reap(m)
  PROVE  OnlyFirst'
<1>1. fetched' = fetched /\ executing' = executing
  BY DEF Send, Ring, Reap, device
<1>2. \A q \in SQs \ {IOQ_ID} : tail_ptr'[q] = tail_ptr[q]
  BY DEF Send, Ring, Reap, QueueTypes
<1> QED
  BY <1>1, <1>2 DEF OnlyFirst

\* dnvme takes the SQ for full when one entry is left.
LEMMA FullIs ==
  ASSUME QueueTypes, NEW h, NEW T, NEW R, Batch(h, T, R), head_ptr[IOQ_ID] = h
  PROVE  SQFull(IOQ_ID) <=> T = sqN - 1
<1>1. /\ h \in 0 .. sqN - 1 /\ sqN \in Nat \ {0} /\ Off(h, tail_ptr_virt[IOQ_ID]) = T
  BY BatchCounts, SizeFacts
<1>2. tail_ptr_virt[IOQ_ID] \in 0 .. sqN - 1
  BY <1>1, Ranges
<1>3. (tail_ptr_virt[IOQ_ID] + 1) % sqN = h <=> T = sqN - 1
  BY <1>1, <1>2, RoundComplete, Zenon DEF Off
<1> QED
  BY <1>3 DEF SQFull, sqN

LEMMA SendStep ==
  ASSUME QueueTypes, OnlyFirst, NEW h, NEW T, NEW R, Batch(h, T, R),
         T < sqN - 1, Send(IOQ_ID), NEW S, S = T + 1
  PROVE  /\ QueueTypes' /\ OnlyFirst' /\ Batch(h, S, R)'
         /\ sqN' = sqN /\ cqN' = cqN /\ ReapInquiry' = ReapInquiry
         /\ UNCHANGED <<tail_ptr, head_ptr, cqHead>>
<1>1. UNCHANGED <<tail_ptr, head_ptr, cqHead>>
  BY DEF Send
<1> QED
  BY <1>1, BatchSend, SendTypes, OnlyFirstStays, First

LEMMA RingStep ==
  ASSUME QueueTypes, OnlyFirst, NEW h, NEW T, NEW R, Batch(h, T, R), Ring(IOQ_ID)
  PROVE  /\ QueueTypes' /\ OnlyFirst' /\ Batch(h, T, R)' /\ Rung'
         /\ sqN' = sqN /\ cqN' = cqN /\ ReapInquiry' = ReapInquiry
         /\ UNCHANGED <<tail_ptr_virt, head_ptr, cqHead>>
<1>1. UNCHANGED <<tail_ptr_virt, head_ptr, cqHead>>
  BY DEF Ring
<1> QED
  BY <1>1, BatchRing, RingTypes, OnlyFirstStays, First

\* A step that only the program takes.
LEMMA Stays ==
  ASSUME UNCHANGED queues
  PROVE  /\ UNCHANGED <<QueueTypes, OnlyFirst, Rung, sqN, cqN, ReapInquiry>>
         /\ UNCHANGED <<tail_ptr_virt, tail_ptr, head_ptr, cqHead>>
         /\ \A h, T, R : Batch(h, T, R) => Batch(h, T, R)'
<1>1. /\ UNCHANGED <<sqElements, cqElements, sqRing, cid, tail_ptr_virt, tail_ptr>>
      /\ UNCHANGED <<head_ptr, cqHead, fetched, executing, cqRing, cqTail>>
  BY DEF queues, sizes, dnvme, device
<1>2. UNCHANGED <<sqN, cqN, ReapInquiry, Waiting, CQTypes, Rung, OnlyFirst>>
  BY <1>1 DEF sqN, cqN, ReapInquiry, Waiting, CQTypes, Rung, OnlyFirst
<1>3. QueueTypes' = QueueTypes
  BY <1>1, <1>2 DEF QueueTypes
<1>4. ASSUME NEW h, NEW T, NEW R, Batch(h, T, R)
      PROVE  Batch(h, T, R)'
  <2>1. Sent(h, T)'
    BY <1>1, <1>2, <1>4 DEF Batch, Sent, Off, Age
  <2>2. Executes(h, T, R)'
    BY <1>1, <1>2, <1>4 DEF Batch, Executes, Off, Age
  <2>3. Completed(h, R)'
    BY <1>1, <1>2, <1>4 DEF Batch, Completed, Off
  <2> QED
    BY <2>1, <2>2, <2>3 DEF Batch
<1> QED
  BY <1>1, <1>2, <1>3, <1>4

-----------------------------------------------------------------------------
(***************************************************************************)
(* AdminQFull, IOQFull                                                     *)
(***************************************************************************)
\* What Observe records of queues that are full after the step.
LEMMA FullSeen ==
  ASSUME QueueTypes', NEW T, NEW R, Batch(0, T, R)', head_ptr'[IOQ_ID] = 0, Observe
  PROVE  T = sqN' - 1 => "SQ" \in full'
<1> SUFFICES ASSUME T = sqN' - 1 PROVE SQFull(IOQ_ID)'
  BY DEF Observe
<1>1. PICK N \in 2 .. MaxEntries : N = sqN'
  BY First DEF QueueTypes, sqN
<1>2. PICK v \in 0 .. N - 1 : v = tail_ptr_virt'[IOQ_ID]
  BY <1>1, First DEF QueueTypes
<1>3. N \in Nat \ {0} /\ 0 \in 0 .. N - 1
  BY QueueTestsAssumption
<1>4. Distance(0, v, N) = N - 1
  BY <1>1, <1>2 DEF Batch, Sent, Off
<1>5. (v + 1) % N = 0
  <2>1. (v + 1) % N = 0 <=> Distance(0, v, N) = N - 1
    BY <1>3, RoundComplete
  <2> QED
    BY <1>4, <2>1, Zenon
<1> QED
  BY <1>1, <1>2, <1>5 DEF SQFull, sqN

LEMMA CQSeen ==
  ASSUME QueueTypes', Observe
  PROVE  /\ ReapInquiry' = cqN' - 1 => "CQ" \in full'
         /\ full \subseteq full' /\ (full \subseteq {"SQ", "CQ"} => full' \subseteq {"SQ", "CQ"})
<1>1. (CQFull <=> ReapInquiry = cqN - 1)'
  BY RoomLeft, PTL
<1> QED
  BY <1>1 DEF Observe

LEMMA FullSends ==
  ASSUME Inv, FullSend, Observe
  PROVE  Inv'
<1>1. /\ test = "Full" /\ pc = "send" /\ verdict = "running"
      /\ QueueTypes /\ SizesInv /\ n \in Nat /\ k \in Nat /\ OnlyFirst
  BY DEF FullSend, At, Inv
<1>2. PICK T \in Nat :
        /\ T = n /\ Batch(0, T, 0) /\ head_ptr[IOQ_ID] = 0 /\ Rung
        /\ ReapInquiry = n /\ full \subseteq {"SQ", "CQ"}
        /\ T = sqN - 1 => "SQ" \in full
        /\ ReapInquiry = cqN - 1 => "CQ" \in full
  BY <1>1 DEF Inv, FullInv
<1>3. /\ sqN \in Nat \ {0, 1} /\ cqN \in Nat \ {0, 1} /\ T \in 0 .. sqN - 1
      /\ ReapInquiry \in 0 .. cqN - 1
  <2>1. sqN \in Nat \ {0, 1} /\ cqN \in Nat \ {0, 1}
    BY <1>1, SizeFacts
  <2>2. T \in 0 .. sqN - 1
    BY <1>1, <1>2, BatchCounts
  <2>3. ReapInquiry \in 0 .. cqN - 1
    BY <1>1, <1>2, BatchCounts
  <2> QED
    BY <2>1, <2>2, <2>3
<1>4. SQFull(IOQ_ID) <=> T = sqN - 1
  BY <1>1, <1>2, FullIs
<1>5. CASE n < sqN - 1
  <2>1. /\ Send(IOQ_ID) /\ pc' = "ring" /\ n' = n /\ k' = k
        /\ test' = test /\ verdict' = verdict
    BY <1>1, <1>2, <1>3, <1>4, <1>5 DEF FullSend, SendOrFail, Goto
  <2>2. PICK S \in Nat : S = n + 1
    BY <1>1
  <2>3. /\ QueueTypes' /\ OnlyFirst' /\ Batch(0, S, 0)' /\ sqN' = sqN /\ cqN' = cqN
        /\ head_ptr' = head_ptr
    BY <1>1, <1>2, <1>5, <2>1, <2>2, SendStep
  <2>4. S = sqN' - 1 => "SQ" \in full'
    BY <1>2, <2>3, FullSeen
  <2>5. FullInv'
    BY <1>2, <2>1, <2>2, <2>3, <2>4, CQSeen DEF FullInv
  <2>6. SizesInv'
    BY <1>1, <2>1, <2>3, SizesStay
  <2> QED
    BY <1>1, <2>1, <2>3, <2>5, <2>6
       DEF Inv, NoFalseFailure, FullFillsBoth, RollsOver, Rolls
<1>6. CASE ~(n < sqN - 1)
  <2>1. verdict' = "pass" /\ test' = test /\ UNCHANGED queues
    BY <1>1, <1>6 DEF FullSend, Ends
  <2>2. n = sqN - 1 /\ sqN \in {cqN, cqN + 1}
    BY <1>1, <1>2, <1>3, <1>6 DEF SizesInv
  <2>3. full = {"SQ", "CQ"}
    <3>1. T = sqN - 1 /\ ReapInquiry = cqN - 1
      BY <1>2, <1>3, <2>2
    <3> QED
      BY <1>2, <3>1
  <2>4. QueueTypes'
    BY <1>1, <2>1, Stays
  <2>5. full' = {"SQ", "CQ"}
    BY <2>3, <2>4, CQSeen
  <2> QED
    BY <1>1, <2>1, <2>5 DEF Inv, NoFalseFailure, FullFillsBoth, RollsOver, Rolls
<1> QED
  BY <1>5, <1>6

LEMMA FullRings ==
  ASSUME Inv, FullRing, Observe
  PROVE  Inv'
<1>1. /\ test = "Full" /\ pc = "ring" /\ verdict = "running"
      /\ QueueTypes /\ SizesInv /\ n \in Nat /\ k \in Nat /\ OnlyFirst
  BY DEF FullRing, At, Inv
<1>2. PICK T \in Nat :
        /\ T = n + 1 /\ Batch(0, T, 0) /\ head_ptr[IOQ_ID] = 0
        /\ full \subseteq {"SQ", "CQ"}
  BY <1>1 DEF Inv, FullInv
<1>3. /\ Ring(IOQ_ID) /\ pc' = "wait" /\ n' = n /\ k' = k
      /\ test' = test /\ verdict' = verdict
  BY DEF FullRing, Goto
<1>4. /\ QueueTypes' /\ OnlyFirst' /\ Batch(0, T, 0)' /\ Rung' /\ sqN' = sqN /\ cqN' = cqN
      /\ head_ptr' = head_ptr
  BY <1>1, <1>2, <1>3, RingStep
<1>5. T = sqN' - 1 => "SQ" \in full'
  BY <1>2, <1>4, FullSeen
<1>6. FullInv'
  BY <1>2, <1>3, <1>4, <1>5, CQSeen DEF FullInv
<1>7. SizesInv'
  BY <1>1, <1>3, <1>4, SizesStay
<1> QED
  BY <1>1, <1>3, <1>4, <1>6, <1>7
     DEF Inv, NoFalseFailure, FullFillsBoth, RollsOver, Rolls

LEMMA FullArrived ==
  ASSUME Inv, FullArrives, Observe
  PROVE  Inv'
<1>1. /\ test = "Full" /\ pc = "wait" /\ verdict = "running" /\ ReapInquiry >= n + 1
      /\ QueueTypes /\ SizesInv /\ n \in Nat /\ k \in Nat /\ OnlyFirst
  BY DEF FullArrives, At, Inv
<1>2. PICK T \in Nat :
        /\ T = n + 1 /\ Batch(0, T, 0) /\ head_ptr[IOQ_ID] = 0 /\ Rung
        /\ full \subseteq {"SQ", "CQ"}
  BY <1>1 DEF Inv, FullInv
<1>3. ReapInquiry = n + 1
  <2>1. 0 + ReapInquiry <= T /\ ReapInquiry \in 0 .. cqN - 1 /\ cqN \in Nat
    BY <1>1, <1>2, BatchCounts, SizeFacts
  <2> QED
    BY <1>1, <1>2, <2>1
<1>4. /\ UNCHANGED queues /\ pc' = "send" /\ n' = n + 1 /\ k' = k
      /\ test' = test /\ verdict' = verdict
  BY <1>3 DEF FullArrives, Goto
<1>5. /\ QueueTypes' /\ OnlyFirst' /\ Batch(0, T, 0)' /\ Rung' /\ sqN' = sqN /\ cqN' = cqN
      /\ head_ptr' = head_ptr /\ ReapInquiry' = ReapInquiry
  BY <1>1, <1>2, <1>4, Stays
<1>6. T = sqN' - 1 => "SQ" \in full'
  BY <1>2, <1>5, FullSeen
<1>7. FullInv'
  BY <1>1, <1>2, <1>3, <1>4, <1>5, <1>6, CQSeen DEF FullInv
<1>8. SizesInv'
  BY <1>1, <1>4, <1>5, SizesStay
<1>9. n' \in Nat
  BY <1>1, <1>4
<1> QED
  BY <1>1, <1>4, <1>5, <1>7, <1>8, <1>9
     DEF Inv, NoFalseFailure, FullFillsBoth, RollsOver, Rolls

\* Only the last command of an SQ that is one larger than the CQ finds no room.
LEMMA FullTimedOut ==
  ASSUME Inv, FullTimesOut, Observe
  PROVE  Inv'
<1>1. /\ test = "Full" /\ pc = "wait" /\ verdict = "running" /\ TimedOut(n + 1)
      /\ QueueTypes /\ SizesInv /\ n \in Nat /\ k \in Nat /\ OnlyFirst
  BY DEF FullTimesOut, At, Inv
<1>2. PICK T \in Nat :
        /\ T = n + 1 /\ Batch(0, T, 0) /\ head_ptr[IOQ_ID] = 0 /\ Rung
        /\ full \subseteq {"SQ", "CQ"}
        /\ T = sqN - 1 => "SQ" \in full
        /\ ReapInquiry = cqN - 1 => "CQ" \in full
  BY <1>1 DEF Inv, FullInv
<1>3. /\ T \in 0 .. sqN - 1 /\ ReapInquiry \in 0 .. cqN - 1
      /\ sqN \in Nat \ {0, 1} /\ cqN \in Nat \ {0, 1}
  BY <1>1, <1>2, BatchCounts, SizeFacts
<1>4. ReapInquiry < n + 1 /\ Quiescent
  BY <1>1 DEF TimedOut
<1>5. ReapInquiry = cqN - 1
  <2>1. CASE CQFull
    BY <1>1, <2>1, RoomLeft
  <2>2. CASE ~CQFull
    <3>1. 0 + ReapInquiry = T
      BY <1>1, <1>2, <1>4, <2>2, BatchQuiet
    <3> QED
      BY <1>1, <1>2, <1>3, <1>4, <3>1
  <2> QED
    BY <2>1, <2>2
<1>6. sqN = cqN + 1 /\ n = sqN - 2 /\ T = sqN - 1
  <2>1. sqN \in {cqN, cqN + 1}
    BY <1>1 DEF SizesInv
  <2> QED
    BY <1>1, <1>2, <1>3, <1>4, <1>5, <2>1
<1>7. ReapInquiry # 0 /\ NumReaped(1) = 1
  <2>1. ReapInquiry # 0
    BY <1>3, <1>5
  <2> QED
    BY <1>1, <2>1, OneOrNone DEF QueueTypes
<1>8. /\ Reap(1) /\ pc' = "last" /\ n' = n /\ k' = k /\ test' = test /\ verdict' = verdict
  BY <1>6, <1>7 DEF FullTimesOut, Goto
<1>9. PICK S \in Nat : S = 0 + 1
  OBVIOUS
<1>10. /\ QueueTypes' /\ Batch(0, T, S)' /\ sqN' = sqN /\ cqN' = cqN /\ Rung'
  BY <1>1, <1>2, <1>7, <1>8, <1>9, BatchTakeOne
<1>11. OnlyFirst'
  BY <1>1, <1>8, OnlyFirstStays
<1>12. full' = {"SQ", "CQ"}
  <2>1. full = {"SQ", "CQ"}
    BY <1>2, <1>5, <1>6
  <2> QED
    BY <1>10, <2>1, CQSeen
<1>13. FullInv'
  <2>1. S = 1
    BY <1>9
  <2> QED
    BY <1>2, <1>6, <1>8, <1>10, <1>12, <2>1 DEF FullInv
<1>14. SizesInv'
  BY <1>1, <1>8, <1>10, SizesStay
<1> QED
  BY <1>1, <1>8, <1>10, <1>11, <1>13, <1>14
     DEF Inv, NoFalseFailure, FullFillsBoth, RollsOver, Rolls

LEMMA FullLasts ==
  ASSUME Inv, FullLast, Observe
  PROVE  Inv'
<1>1. /\ test = "Full" /\ pc = "last" /\ verdict = "running" /\ Waited(n)
      /\ QueueTypes /\ n \in Nat
  BY DEF FullLast, At, Inv
<1>2. PICK T \in Nat :
        /\ T = n + 1 /\ Batch(0, T, 1) /\ Rung
        /\ n = sqN - 2 /\ sqN = cqN + 1 /\ full = {"SQ", "CQ"}
  BY <1>1 DEF Inv, FullInv
<1>3. /\ ReapInquiry \in 0 .. cqN - 1 /\ sqN \in Nat \ {0, 1} /\ cqN \in Nat \ {0, 1}
  BY <1>1, <1>2, BatchCounts, SizeFacts
<1>4. ReapInquiry >= n
  <2> SUFFICES ASSUME ~(ReapInquiry >= n) PROVE FALSE
    OBVIOUS
  <2>1. ReapInquiry < n /\ Quiescent
    BY <1>1 DEF Waited, TimedOut
  <2>2. ~CQFull
    <3>1. ReapInquiry # cqN - 1
      BY <1>2, <1>3, <2>1
    <3> QED
      BY <1>1, <3>1, RoomLeft
  <2>3. 1 + ReapInquiry = T
    BY <1>1, <1>2, <2>1, <2>2, BatchQuiet
  <2> QED
    BY <1>1, <1>2, <1>3, <2>1, <2>3
<1>5. verdict' = "pass" /\ test' = test /\ UNCHANGED queues
  BY <1>4 DEF FullLast, Ends
<1>6. QueueTypes'
  BY <1>1, <1>5, Stays
<1>7. full' = {"SQ", "CQ"}
  BY <1>2, <1>6, CQSeen
<1> QED
  BY <1>1, <1>5, <1>7 DEF Inv, NoFalseFailure, FullFillsBoth, RollsOver, Rolls

-----------------------------------------------------------------------------
(***************************************************************************)
(* The tests of rollover                                                   *)
(***************************************************************************)
\* The N-th step of a pointer brings it back to the first entry.
LEMMA ComesRound ==
  ASSUME NEW N \in Nat \ {0, 1}, NEW x \in Nat, x + 1 >= N, ~(x >= N)
  PROVE  (x + 1) % N < x % N
<1>1. x + 1 = N /\ x \in 0 .. N - 1 /\ x > 0
  OBVIOUS
<1>2. x % N = x
  BY <1>1
<1>3. (x + 1) % N = 0
  <2>1. N % N = 0
    OBVIOUS
  <2> QED
    BY <1>1, <2>1
<1> QED
  BY <1>1, <1>2, <1>3

\* "2, or 0 where the pointer is 0": only a ring of two entries ends at 0.
LEMMA TwoFurther ==
  ASSUME NEW N \in Nat \ {0, 1}
  PROVE  (N + 2) % N \in {0, 2}
<1>1. CASE N = 2
  <2>1. (2 + 2) % 2 = 0
    OBVIOUS
  <2> QED
    BY <1>1, <2>1
<1>2. CASE N # 2
  <2>1. 2 \in 0 .. N - 1 /\ N + 2 = N * 1 + 2 /\ N \in Nat \ {0} /\ 1 \in Int
    BY <1>2
  <2>2. (N * 1 + 2) % N = 2
    BY <2>1, Remainder
  <2> QED
    BY <2>1, <2>2
<1> QED
  BY <1>1, <1>2

LEMMA TailIs ==
  ASSUME QueueTypes, NEW h, NEW T, NEW R, Batch(h, T, R)
  PROVE  /\ T = 0 => tail_ptr_virt[IOQ_ID] = h
         /\ T = 1 => tail_ptr_virt[IOQ_ID] = (h + 1) % sqN
<1> DEFINE v == tail_ptr_virt[IOQ_ID]
<1>1. /\ h \in 0 .. sqN - 1 /\ sqN \in Nat \ {0} /\ sqN \in Nat \ {0, 1}
      /\ Distance(h, v, sqN) = T
  BY BatchCounts, SizeFacts DEF Off
<1>2. v \in 0 .. sqN - 1
  BY <1>1, Ranges
<1> HIDE DEF v
<1>3. Distance(h, h, sqN) = 0
  BY <1>1, DistanceTells
<1>4. Distance(h, (h + 1) % sqN, sqN) = 1 /\ (h + 1) % sqN \in 0 .. sqN - 1
  BY <1>1, Steps, Successor
<1>5. ASSUME NEW x \in 0 .. sqN - 1, Distance(h, x, sqN) = T PROVE v = x
  <2>1. Distance(h, v, sqN) = Distance(h, x, sqN) => v = x
    BY <1>1, <1>2, DistanceTells
  <2> QED
    BY <1>1, <1>5, <2>1, Zenon
<1>6. T = 0 => v = h
  BY <1>1, <1>3, <1>5, Zenon
<1>7. T = 1 => v = (h + 1) % sqN
  BY <1>4, <1>5, Zenon
<1> QED
  BY <1>6, <1>7 DEF v

\* What Observe records of pointers that come round.
LEMMA RollSeen ==
  ASSUME Observe
  PROVE  /\ rolled \subseteq rolled'
         /\ rolled \subseteq {"tail", "head", "cq"} => rolled' \subseteq {"tail", "head", "cq"}
         /\ tail_ptr'[IOQ_ID] < tail_ptr[IOQ_ID] => "tail" \in rolled'
         /\ head_ptr'[IOQ_ID] < head_ptr[IOQ_ID] => "head" \in rolled'
         /\ cqHead' < cqHead => "cq" \in rolled'
  BY DEF Observe

LEMMA RollSends ==
  ASSUME Inv, RollSend, Observe
  PROVE  Inv'
<1>1. /\ test \in Rolls /\ pc = "send" /\ verdict = "running" /\ n < Submissions
      /\ QueueTypes /\ SizesInv /\ n \in Nat /\ k \in Nat /\ OnlyFirst
  BY DEF RollSend, At, Inv, Rolls
<1>2. PICK h, T \in Nat :
        /\ Batch(h, T, 0) /\ h = n % sqN /\ T = 0
        /\ head_ptr[IOQ_ID] = h /\ cqHead = n % cqN /\ Rung
        /\ rolled \subseteq {"tail", "head", "cq"}
        /\ n >= sqN => "head" \in rolled /\ "tail" \in rolled
        /\ n >= cqN => "cq" \in rolled
  BY <1>1 DEF Inv, RollInv
<1>3. /\ sqN \in Nat \ {0, 1} /\ ReapInquiry \in 0 .. cqN - 1 /\ cqN \in Nat
      /\ 0 + ReapInquiry <= T
  BY <1>1, <1>2, BatchCounts, SizeFacts
<1>4. ReapInquiry = 0 /\ T < sqN - 1 /\ ~SQFull(IOQ_ID)
  <2>1. ReapInquiry = 0 /\ T < sqN - 1 /\ T # sqN - 1
    BY <1>2, <1>3
  <2> QED
    BY <1>1, <1>2, <2>1, FullIs
<1>5. /\ Send(IOQ_ID) /\ pc' = "ring" /\ n' = n /\ k' = k
      /\ test' = test /\ verdict' = verdict
  BY <1>4 DEF RollSend, SendOrFail, Goto
<1>6. PICK S \in Nat : S = T + 1
  OBVIOUS
<1>7. /\ QueueTypes' /\ OnlyFirst' /\ Batch(h, S, 0)' /\ sqN' = sqN /\ cqN' = cqN
      /\ tail_ptr' = tail_ptr /\ head_ptr' = head_ptr /\ cqHead' = cqHead
  BY <1>1, <1>2, <1>4, <1>5, <1>6, SendStep
<1>8. tail_ptr[IOQ_ID] = h
  BY <1>1, <1>2, TailIs DEF Rung
<1>9. Submissions' = Submissions
  BY <1>7 DEF Submissions
<1>10. S = 1 /\ n <= Submissions
  <2>1. Submissions \in Nat
    BY <1>3 DEF Submissions, Larger
  <2> QED
    BY <1>1, <1>2, <1>6, <2>1
<1>11. RollInv'
  BY <1>1, <1>2, <1>5, <1>7, <1>8, <1>9, <1>10, RollSeen DEF RollInv
<1>12. SizesInv'
  BY <1>1, <1>5, <1>7, SizesStay
<1> QED
  BY <1>1, <1>5, <1>7, <1>11, <1>12
     DEF Inv, NoFalseFailure, FullFillsBoth, RollsOver, Rolls

LEMMA RollRings ==
  ASSUME Inv, RollRing, Observe
  PROVE  Inv'
<1>1. /\ test \in Rolls /\ pc = "ring" /\ verdict = "running"
      /\ QueueTypes /\ SizesInv /\ n \in Nat /\ k \in Nat /\ OnlyFirst
  BY DEF RollRing, At, Inv, Rolls
<1>2. PICK h, T \in Nat :
        /\ Batch(h, T, 0) /\ h = n % sqN /\ T = 1 /\ n < Submissions /\ n <= Submissions
        /\ head_ptr[IOQ_ID] = h /\ cqHead = n % cqN /\ tail_ptr[IOQ_ID] = h
        /\ rolled \subseteq {"tail", "head", "cq"}
        /\ n >= sqN => "head" \in rolled /\ "tail" \in rolled
        /\ n >= cqN => "cq" \in rolled
  BY <1>1 DEF Inv, RollInv
<1>3. /\ Ring(IOQ_ID) /\ pc' = "wait" /\ n' = n /\ k' = k
      /\ test' = test /\ verdict' = verdict
  BY DEF RollRing, Goto
<1>4. /\ QueueTypes' /\ OnlyFirst' /\ Batch(h, T, 0)' /\ Rung' /\ sqN' = sqN /\ cqN' = cqN
      /\ tail_ptr_virt' = tail_ptr_virt /\ head_ptr' = head_ptr /\ cqHead' = cqHead
  BY <1>1, <1>2, <1>3, RingStep
<1>5. Submissions' = Submissions
  BY <1>4 DEF Submissions
<1>6. n + 1 >= sqN => "tail" \in rolled'
  <2>1. CASE n >= sqN
    BY <1>2, <2>1, RollSeen
  <2>2. CASE n + 1 >= sqN /\ ~(n >= sqN)
    <3>1. sqN \in Nat \ {0, 1} /\ sqN \in Nat \ {0}
      BY <1>1, SizeFacts
    <3>2. tail_ptr'[IOQ_ID] = (h + 1) % sqN
      BY <1>1, <1>2, <1>4, TailIs DEF Rung
    <3>3. tail_ptr'[IOQ_ID] = (n + 1) % sqN
      BY <1>1, <1>2, <3>1, <3>2, CountOn
    <3>4. tail_ptr'[IOQ_ID] < tail_ptr[IOQ_ID]
      BY <1>1, <1>2, <2>2, <3>1, <3>3, ComesRound
    <3> QED
      BY <3>4, RollSeen
  <2> QED
    BY <2>1, <2>2
<1>7. RollInv'
  BY <1>1, <1>2, <1>3, <1>4, <1>5, <1>6, RollSeen DEF RollInv
<1>8. SizesInv'
  BY <1>1, <1>3, <1>4, SizesStay
<1> QED
  BY <1>1, <1>3, <1>4, <1>7, <1>8
     DEF Inv, NoFalseFailure, FullFillsBoth, RollsOver, Rolls

\* A wait for one CE of a batch of which none was reaped ends with that CE.
LEMMA OneArrives ==
  ASSUME QueueTypes, NEW h, NEW T, NEW R, Batch(h, T, R), Rung, R < T, Waited(1)
  PROVE  ReapInquiry # 0
<1> SUFFICES ASSUME ReapInquiry = 0 PROVE FALSE
  OBVIOUS
<1>1. Quiescent
  BY DEF Waited, TimedOut
<1>2. ~CQFull
  <2>1. cqN \in Nat \ {0, 1}
    BY SizeFacts
  <2>2. ReapInquiry # cqN - 1
    BY <2>1
  <2> QED
    BY <2>2, RoomLeft
<1>3. R + ReapInquiry = T
  BY <1>1, <1>2, BatchQuiet
<1>4. R \in Nat /\ T \in 0 .. sqN - 1
  BY BatchCounts
<1> QED
  BY <1>3, <1>4

\* The one CE has the SQID and the SQHD that are looked for.
LEMMA RollReaps ==
  ASSUME Inv, RollReap, Observe
  PROVE  Inv'
<1>1. /\ test \in Rolls /\ pc = "wait" /\ verdict = "running" /\ Waited(1)
      /\ QueueTypes /\ SizesInv /\ n \in Nat /\ k \in Nat /\ OnlyFirst
  BY DEF RollReap, At, Inv, Rolls
<1>2. PICK h, T \in Nat :
        /\ Batch(h, T, 0) /\ h = n % sqN /\ T = 1 /\ n < Submissions
        /\ head_ptr[IOQ_ID] = h /\ cqHead = n % cqN /\ Rung
        /\ rolled \subseteq {"tail", "head", "cq"}
        /\ n >= sqN => "head" \in rolled /\ "tail" \in rolled
        /\ n + 1 >= sqN => "tail" \in rolled
        /\ n >= cqN => "cq" \in rolled
  BY <1>1 DEF Inv, RollInv
<1>3. /\ sqN \in Nat \ {0, 1} /\ sqN \in Nat \ {0} /\ cqN \in Nat \ {0, 1}
      /\ cqN \in Nat \ {0}
  BY <1>1, SizeFacts
<1>4. ReapInquiry = 1
  <2>1. 0 < T
    BY <1>2
  <2>2. ReapInquiry # 0
    BY <1>1, <1>2, <2>1, OneArrives
  <2>3. ReapInquiry \in 0 .. cqN - 1 /\ 0 + ReapInquiry <= T
    BY <1>1, <1>2, BatchCounts
  <2> QED
    BY <1>2, <1>3, <2>2, <2>3
<1>5. NumReaped(1) = 1
  BY <1>1, <1>4, OneOrNone DEF QueueTypes
<1>6. cqHead \in Waiting /\ (cqHead + 1) % cqN = cqTail
  BY <1>1, <1>4, TheOnlyOne DEF QueueTypes, cqN
<1>7. PICK g \in Nat : g = tail_ptr_virt[IOQ_ID] /\ g = (h + 1) % sqN /\ g = (n + 1) % sqN
  <2>1. tail_ptr_virt[IOQ_ID] = (h + 1) % sqN
    BY <1>1, <1>2, TailIs
  <2>2. (h + 1) % sqN = (n + 1) % sqN
    BY <1>1, <1>2, <1>3, CountOn
  <2>3. (n + 1) % sqN \in Nat
    BY <1>1, <1>3
  <2> QED
    BY <2>1, <2>2, <2>3
<1>8. PeekCE(cqHead).SQID = IOQ_ID /\ PeekCE(cqHead).SQHD = (n + 1) % sqN
  <2>1. cqRing[cqHead].SQID = IOQ_ID
    BY <1>2, <1>6 DEF Batch, Completed
  <2>2. cqRing[cqHead].SQHD = g
    BY <1>1, <1>2, <1>4, <1>6, <1>7, NewestTells
  <2> QED
    BY <1>7, <2>1, <2>2 DEF PeekCE
<1>9. /\ Reap(1) /\ pc' = "send" /\ n' = n + 1 /\ k' = k
      /\ test' = test /\ verdict' = verdict
  BY <1>4, <1>5, <1>8 DEF RollReap, ReapChecked, Goto
<1>10. /\ QueueTypes' /\ sqN' = sqN /\ cqN' = cqN /\ Batch(g, 0, 0)'
       /\ head_ptr'[IOQ_ID] = g /\ tail_ptr'[IOQ_ID] = g /\ tail_ptr_virt'[IOQ_ID] = g
       /\ cqHead' = cqTail
  <2>1. T # 0 /\ ReapInquiry = T /\ NumReaped(1) = T
    BY <1>2, <1>4, <1>5
  <2> QED
    BY <1>1, <1>2, <1>7, <1>9, <2>1, BatchOver
<1>11. OnlyFirst'
  BY <1>1, <1>9, OnlyFirstStays
<1>12. cqHead' = (n + 1) % cqN
  BY <1>1, <1>2, <1>3, <1>6, <1>10, CountOn
<1>13. n + 1 >= sqN => "head" \in rolled'
  <2>1. CASE n >= sqN
    BY <1>2, <2>1, RollSeen
  <2>2. CASE n + 1 >= sqN /\ ~(n >= sqN)
    <3>1. head_ptr'[IOQ_ID] < head_ptr[IOQ_ID]
      BY <1>1, <1>2, <1>3, <1>7, <1>10, <2>2, ComesRound
    <3> QED
      BY <3>1, RollSeen
  <2> QED
    BY <2>1, <2>2
<1>14. n + 1 >= cqN => "cq" \in rolled'
  <2>1. CASE n >= cqN
    BY <1>2, <2>1, RollSeen
  <2>2. CASE n + 1 >= cqN /\ ~(n >= cqN)
    <3>1. cqHead' < cqHead
      BY <1>1, <1>2, <1>3, <1>12, <2>2, ComesRound
    <3> QED
      BY <3>1, RollSeen
  <2> QED
    BY <2>1, <2>2
<1>15. Submissions' = Submissions /\ n + 1 <= Submissions /\ n + 1 \in Nat
  <2>1. Submissions \in Nat
    BY <1>3 DEF Submissions, Larger
  <2> QED
    BY <1>1, <1>2, <1>10, <2>1 DEF Submissions
<1>16. RollInv'
  <2>1. Rung'
    BY <1>10 DEF Rung
  <2>2. n + 1 >= sqN => "tail" \in rolled'
    BY <1>2, RollSeen
  <2>3. rolled' \subseteq {"tail", "head", "cq"}
    BY <1>2, RollSeen
  <2>4. LastReaped.SQHD' = g
    <3>1. cqHead \in 0 .. cqN - 1 /\ cqHead' = (cqHead + 1) % cqN
      BY <1>1, <1>6, <1>10 DEF QueueTypes, CQTypes, cqN
    <3>2. cqHead' = IF cqHead = cqN - 1 THEN 0 ELSE cqHead + 1
      BY <1>3, <3>1, Successor
    <3>3. cqHead = IF cqHead' = 0 THEN cqN - 1 ELSE cqHead' - 1
      BY <1>3, <3>1, <3>2
    <3>4. cqRing' = cqRing /\ cqRing[cqHead].SQHD = g
      BY <1>7, <1>8, <1>9 DEF Reap, device, PeekCE
    <3>5. cqRing'[IF cqHead' = 0 THEN cqN' - 1 ELSE cqHead' - 1].SQHD = g
      BY <1>10, <3>3, <3>4
    <3> QED
      BY <3>5 DEF LastReaped, PeekCE
  <2> QED
    BY <1>7, <1>9, <1>10, <1>12, <1>13, <1>14, <1>15, <2>1, <2>2, <2>3, <2>4 DEF RollInv
<1>17. SizesInv'
  BY <1>1, <1>9, <1>10, SizesStay
<1> QED
  BY <1>1, <1>9, <1>10, <1>11, <1>15, <1>16, <1>17
     DEF Inv, NoFalseFailure, FullFillsBoth, RollsOver, Rolls

\* VerifyQPointers() finds the pointers where it looks for them.
LEMMA RollVerifies ==
  ASSUME Inv, RollVerify, Observe
  PROVE  Inv'
<1>1. /\ test \in Rolls /\ pc = "send" /\ verdict = "running" /\ n >= Submissions
      /\ QueueTypes /\ SizesInv /\ n \in Nat
  BY DEF RollVerify, At, Inv, Rolls
<1>2. PICK h, T \in Nat :
        /\ Batch(h, T, 0) /\ h = n % sqN /\ T = 0 /\ n <= Submissions
        /\ cqHead = n % cqN /\ Rung
        /\ rolled \subseteq {"tail", "head", "cq"}
        /\ n >= sqN => "head" \in rolled /\ "tail" \in rolled
        /\ n >= cqN => "cq" \in rolled
        /\ n > 0 => LastReaped.SQHD = h
  BY <1>1 DEF Inv, RollInv
<1>3. sqN \in Nat \ {0, 1} /\ cqN \in Nat \ {0, 1}
  BY <1>1, SizeFacts
<1>4. n = 2 + Larger(cqN, sqN) /\ n >= sqN /\ n >= cqN
  BY <1>1, <1>2, <1>3 DEF Submissions, Larger
<1>5. tail_ptr[IOQ_ID] = n % sqN /\ LastReaped.SQHD = n % sqN
  <2>1. n > 0
    BY <1>1, <1>3, <1>4
  <2> QED
    BY <1>1, <1>2, <2>1, TailIs DEF Rung
<1>6. test = "RollDiff" => DiffPointers
  BY <1>2, <1>4, <1>5 DEF DiffPointers
<1>7. test # "RollDiff" => SamePointers
  <2> SUFFICES ASSUME test = "RollSame" PROVE SamePointers
    BY <1>1 DEF Rolls
  <2>1. sqN = cqN
    BY <1>1 DEF SizesInv
  <2>2. n = sqN + 2
    BY <1>3, <1>4, <2>1 DEF Larger
  <2>3. n % sqN \in {0, 2}
    BY <1>3, <2>2, TwoFurther
  <2> QED
    BY <1>2, <1>5, <2>1, <2>3 DEF SamePointers
<1>8. verdict' = "pass" /\ test' = test
  BY <1>6, <1>7 DEF RollVerify, Ends
<1>9. rolled' = {"tail", "head", "cq"}
  BY <1>2, <1>4, RollSeen
<1> QED
  BY <1>1, <1>8, <1>9 DEF Inv, NoFalseFailure, FullFillsBoth, RollsOver, Rolls

-----------------------------------------------------------------------------
(***************************************************************************)
(* ManyCmdSubmit                                                           *)
(***************************************************************************)
LEMMA ManySends ==
  ASSUME Inv, ManySend, Observe
  PROVE  Inv'
<1>1. /\ test = "ManyCmdSubmit" /\ pc = "send" /\ verdict = "running"
      /\ QueueTypes /\ SizesInv /\ n \in Nat /\ k \in Nat /\ OnlyFirst
  BY DEF ManySend, At, Inv
<1>2. PICK h, T \in Nat :
        /\ Batch(h, T, 0) /\ h = head_ptr[IOQ_ID] /\ T = k /\ n >= 1 /\ k <= n
        /\ increment \in Nat
  BY <1>1 DEF Inv, ManyInv
<1>3. sqN = MaxEntries /\ MaxEntries \in Nat
  BY <1>1, SizeFacts DEF SizesInv
<1>4. CASE n >= MaxEntries
  <2>1. verdict' = "pass" /\ test' = test
    BY <1>4 DEF ManySend, Ends
  <2> QED
    BY <1>1, <2>1 DEF Inv, NoFalseFailure, FullFillsBoth, RollsOver, Rolls
<1>5. CASE ~(n >= MaxEntries) /\ k < n
  <2>1. T < sqN - 1 /\ T # sqN - 1 /\ k + 1 \in Nat /\ k + 1 <= n
    BY <1>1, <1>2, <1>3, <1>5
  <2>2. ~SQFull(IOQ_ID)
    BY <1>1, <1>2, <2>1, FullIs
  <2>3. /\ Send(IOQ_ID) /\ pc' = "send" /\ n' = n /\ k' = k + 1
        /\ test' = test /\ verdict' = verdict /\ increment' = increment
    BY <1>5, <2>2 DEF ManySend, SendOrFail, Goto, Idle
  <2>4. PICK S \in Nat : S = T + 1
    OBVIOUS
  <2>5. /\ QueueTypes' /\ OnlyFirst' /\ Batch(h, S, 0)' /\ sqN' = sqN /\ cqN' = cqN
        /\ head_ptr' = head_ptr
    BY <1>1, <1>2, <2>1, <2>3, <2>4, SendStep
  <2>6. ManyInv'
    BY <1>2, <1>5, <2>1, <2>3, <2>4, <2>5 DEF ManyInv
  <2>7. SizesInv'
    BY <1>1, <2>3, <2>5, SizesStay
  <2> QED
    BY <1>1, <2>1, <2>3, <2>5, <2>6, <2>7
       DEF Inv, NoFalseFailure, FullFillsBoth, RollsOver, Rolls
<1>6. CASE ~(n >= MaxEntries) /\ ~(k < n)
  <2>1. k = n /\ n < MaxEntries
    BY <1>1, <1>2, <1>3, <1>6
  <2>2. /\ Ring(IOQ_ID) /\ pc' = "wait" /\ n' = n /\ k' = k
        /\ test' = test /\ verdict' = verdict /\ increment' = increment
    BY <1>6 DEF ManySend, Goto, Idle
  <2>3. /\ QueueTypes' /\ OnlyFirst' /\ Batch(h, T, 0)' /\ Rung' /\ sqN' = sqN
        /\ cqN' = cqN /\ head_ptr' = head_ptr
    BY <1>1, <1>2, <2>2, RingStep
  <2>4. ManyInv'
    BY <1>2, <1>6, <2>1, <2>2, <2>3 DEF ManyInv
  <2>5. SizesInv'
    BY <1>1, <2>2, <2>3, SizesStay
  <2> QED
    BY <1>1, <2>2, <2>3, <2>4, <2>5
       DEF Inv, NoFalseFailure, FullFillsBoth, RollsOver, Rolls
<1> QED
  BY <1>4, <1>5, <1>6

\* All CE's of the batch arrive, since the CQ is as large as the SQ.
LEMMA ManyReaps ==
  ASSUME Inv, ManyReap, Observe
  PROVE  Inv'
<1>1. /\ test = "ManyCmdSubmit" /\ pc = "wait" /\ verdict = "running" /\ Waited(n)
      /\ QueueTypes /\ SizesInv /\ n \in Nat /\ k \in Nat /\ OnlyFirst
  BY DEF ManyReap, At, Inv
<1>2. PICK h, T \in Nat :
        /\ Batch(h, T, 0) /\ T = k /\ n >= 1 /\ k = n /\ n < MaxEntries /\ Rung
        /\ increment \in Nat
  BY <1>1 DEF Inv, ManyInv
<1>3. sqN = MaxEntries /\ cqN = MaxEntries /\ MaxEntries \in Nat
  BY <1>1, SizeFacts DEF SizesInv
<1>4. ReapInquiry \in 0 .. cqN - 1 /\ 0 + ReapInquiry <= T
  BY <1>1, <1>2, BatchCounts
<1>5. ReapInquiry = n
  <2>1. CASE ReapInquiry >= n
    BY <1>1, <1>2, <1>3, <1>4, <2>1
  <2>2. CASE ~(ReapInquiry >= n)
    <3>1. Quiescent
      BY <1>1, <2>2 DEF Waited, TimedOut
    <3>2. ReapInquiry # cqN - 1
      BY <1>1, <1>2, <1>3, <1>4, <2>2
    <3>3. 0 + ReapInquiry = T
      BY <1>1, <1>2, <3>1, <3>2, RoomLeft, BatchQuiet
    <3> QED
      BY <1>2, <1>3, <1>4, <3>3
  <2> QED
    BY <2>1, <2>2
<1>6. NumReaped(n) = n
  BY <1>1, <1>2, <1>3, <1>5 DEF NumReaped, CEDesired, Least, cqN
<1>7. /\ Reap(n) /\ pc' = "send" /\ n' = n + Increment(n) /\ k' = 0
      /\ test' = test /\ verdict' = verdict /\ increment' = Increment(n)
  BY <1>5, <1>6 DEF ManyReap, Goto
<1>8. PICK g \in Nat : g = tail_ptr_virt[IOQ_ID]
  BY First, SizeFacts, <1>1 DEF QueueTypes
<1>9. /\ QueueTypes' /\ sqN' = sqN /\ cqN' = cqN /\ Batch(g, 0, 0)'
      /\ head_ptr'[IOQ_ID] = g
  <2>1. PICK m : m = n
    OBVIOUS
  <2>2. T # 0 /\ ReapInquiry = T /\ NumReaped(m) = T /\ Reap(m)
    BY <1>2, <1>5, <1>6, <1>7, <2>1
  <2> QED
    BY <1>1, <1>2, <1>8, <2>2, BatchOver
<1>10. OnlyFirst'
  BY <1>1, <1>7, OnlyFirstStays
<1>11. Increment(n) \in Nat
  BY <1>2 DEF Increment
<1>12. n' \in Nat /\ n' >= 1 /\ 0 <= n'
  BY <1>1, <1>2, <1>7, <1>11
<1>13. ManyInv'
  BY <1>7, <1>8, <1>9, <1>11, <1>12 DEF ManyInv
<1>14. SizesInv'
  BY <1>1, <1>7, <1>9, SizesStay
<1> QED
  BY <1>1, <1>7, <1>9, <1>10, <1>12, <1>13, <1>14
     DEF Inv, NoFalseFailure, FullFillsBoth, RollsOver, Rolls

-----------------------------------------------------------------------------
(***************************************************************************)
(* SQCQSizeMismatch                                                        *)
(***************************************************************************)
LEMMA MismatchSends ==
  ASSUME Inv, MismatchSend, Observe
  PROVE  Inv'
<1>1. /\ test = "SizeMismatch" /\ pc = "send" /\ verdict = "running"
      /\ QueueTypes /\ SizesInv /\ n \in Nat /\ k \in Nat /\ OnlyFirst
  BY DEF MismatchSend, At, Inv
<1>2. PICK T, R \in Nat :
        /\ Batch(0, T, R) /\ T = k /\ R = n /\ n = 0 /\ head_ptr[IOQ_ID] = 0
  BY <1>1 DEF Inv, MismatchInv
<1>3. T \in 0 .. sqN - 1 /\ sqN \in Nat \ {0, 1}
  BY <1>1, <1>2, BatchCounts, SizeFacts
<1>4. CASE k < sqN - 1
  <2>1. T < sqN - 1 /\ T # sqN - 1 /\ k + 1 \in Nat
    BY <1>1, <1>2, <1>3, <1>4
  <2>2. ~SQFull(IOQ_ID)
    BY <1>1, <1>2, <2>1, FullIs
  <2>3. /\ Send(IOQ_ID) /\ pc' = "send" /\ n' = n /\ k' = k + 1
        /\ test' = test /\ verdict' = verdict
    BY <1>4, <2>2 DEF MismatchSend, SendOrFail, Goto
  <2>4. PICK S \in Nat : S = T + 1
    OBVIOUS
  <2>5. /\ QueueTypes' /\ OnlyFirst' /\ Batch(0, S, R)' /\ sqN' = sqN /\ cqN' = cqN
        /\ head_ptr' = head_ptr
    BY <1>1, <1>2, <2>1, <2>3, <2>4, SendStep
  <2>6. MismatchInv'
    BY <1>2, <2>3, <2>4, <2>5 DEF MismatchInv
  <2>7. SizesInv'
    BY <1>1, <2>3, <2>5, SizesStay
  <2> QED
    BY <1>1, <2>1, <2>3, <2>5, <2>6, <2>7
       DEF Inv, NoFalseFailure, FullFillsBoth, RollsOver, Rolls
<1>5. CASE ~(k < sqN - 1)
  <2>1. k = sqN - 1
    BY <1>2, <1>3, <1>5
  <2>2. /\ Ring(IOQ_ID) /\ pc' = "wait" /\ n' = n /\ k' = k
        /\ test' = test /\ verdict' = verdict
    BY <1>5 DEF MismatchSend, Goto
  <2>3. /\ QueueTypes' /\ OnlyFirst' /\ Batch(0, T, R)' /\ Rung' /\ sqN' = sqN
        /\ cqN' = cqN
    BY <1>1, <1>2, <2>2, RingStep
  <2>4. MismatchInv'
    BY <1>2, <2>1, <2>2, <2>3 DEF MismatchInv
  <2>5. SizesInv'
    BY <1>1, <2>2, <2>3, SizesStay
  <2> QED
    BY <1>1, <2>2, <2>3, <2>4, <2>5
       DEF Inv, NoFalseFailure, FullFillsBoth, RollsOver, Rolls
<1> QED
  BY <1>4, <1>5

\* However small the CQ, there is always another CE until all are reaped.
LEMMA MismatchReaps ==
  ASSUME Inv, MismatchReap, Observe
  PROVE  Inv'
<1>1. /\ test = "SizeMismatch" /\ pc = "wait" /\ verdict = "running"
      /\ n >= sqN - 1 \/ Waited(1)
      /\ QueueTypes /\ SizesInv /\ n \in Nat /\ k \in Nat /\ OnlyFirst
  BY DEF MismatchReap, At, Inv
<1>2. PICK T, R \in Nat :
        /\ Batch(0, T, R) /\ T = k /\ R = n /\ k = sqN - 1 /\ Rung
  BY <1>1 DEF Inv, MismatchInv
<1>3. CASE n >= sqN - 1
  <2>1. verdict' = "pass" /\ test' = test
    BY <1>3 DEF MismatchReap, Ends
  <2> QED
    BY <1>1, <2>1 DEF Inv, NoFalseFailure, FullFillsBoth, RollsOver, Rolls
<1>4. CASE ~(n >= sqN - 1)
  <2>1. R < T /\ Waited(1)
    BY <1>1, <1>2, <1>4, SizeFacts
  <2>2. ReapInquiry # 0
    BY <1>1, <1>2, <2>1, OneArrives
  <2>3. NumReaped(1) = 1
    BY <1>1, <2>2, OneOrNone DEF QueueTypes
  <2>4. PeekCE(cqHead).SQID = IOQ_ID
    <3>1. cqHead \in Waiting
      <4>1. CQTypes
        BY <1>1 DEF QueueTypes
      <4> QED
        BY <2>2, <4>1, HeadWaits
    <3> QED
      BY <1>2, <3>1 DEF PeekCE, Batch, Completed
  <2>5. /\ Reap(1) /\ pc' = "wait" /\ n' = n + 1 /\ k' = k
        /\ test' = test /\ verdict' = verdict
    BY <1>4, <2>2, <2>3, <2>4 DEF MismatchReap, ReapChecked, Goto
  <2>6. PICK S \in Nat : S = R + 1
    OBVIOUS
  <2>7. QueueTypes' /\ Batch(0, T, S)' /\ sqN' = sqN /\ cqN' = cqN /\ Rung' = Rung
    BY <1>1, <1>2, <2>2, <2>5, <2>6, BatchTakeOne
  <2>8. OnlyFirst'
    BY <1>1, <2>5, OnlyFirstStays
  <2>9. MismatchInv'
    BY <1>2, <2>5, <2>6, <2>7 DEF MismatchInv
  <2>10. SizesInv'
    BY <1>1, <2>5, <2>7, SizesStay
  <2>11. n' \in Nat
    BY <1>1, <2>5
  <2> QED
    BY <1>1, <2>5, <2>7, <2>8, <2>9, <2>10, <2>11
       DEF Inv, NoFalseFailure, FullFillsBoth, RollsOver, Rolls
<1> QED
  BY <1>3, <1>4

-----------------------------------------------------------------------------
(***************************************************************************)
(* ManySQtoCQAssoc                                                         *)
(***************************************************************************)
\* An SQ that a step does not touch stays as it was.
LEMMA Untouched ==
  ASSUME NEW q, sqN' = sqN, fetched'[q] = fetched[q], head_ptr'[q] = head_ptr[q],
         executing'[q] = executing[q], SQIDToSQHD'[q] = SQIDToSQHD[q],
         HasCE(q)' <=> HasCE(q)
  PROVE  (Works(q) => Works(q)') /\ (Idles(q) => Idles(q)')
<1>1. Works(q) => Works(q)'
  BY DEF Works
<1>2. Idles(q) => Idles(q)'
  BY DEF Idles
<1> QED
  BY <1>1, <1>2

LEMMA AssocSends ==
  ASSUME Inv, AssocSend, Observe
  PROVE  Inv'
<1>1. /\ test = "ManySQtoCQ" /\ pc = "send" /\ verdict = "running"
      /\ QueueTypes /\ SizesInv /\ n \in Nat /\ k \in Nat /\ AssocInv
  BY DEF AssocSend, At, Inv
<1>2. /\ k <= n /\ n \in 1 .. NumIOQs + 1 /\ left \subseteq SQs
      /\ SQIDToSQHD \in [SQs -> 0 .. sqN - 1]
      /\ (\A q \in SQs : AssocSQ(q)) /\ AssocCEs
      /\ SQs = 1 .. NumIOQs /\ NumIOQs \in Nat
  BY <1>1, QueueTestsAssumption DEF AssocInv
<1>3. CASE n > NumIOQs
  <2>1. verdict' = "pass" /\ test' = test
    BY <1>3 DEF AssocSend, Ends
  <2> QED
    BY <1>1, <2>1 DEF Inv, NoFalseFailure, FullFillsBoth, RollsOver, Rolls
<1>4. CASE ~(n > NumIOQs) /\ k < n
  <2>1. PICK p \in SQs : p = k + 1
    BY <1>1, <1>2, <1>4
  <2>2. p \notin Busy
    BY <1>1, <2>1 DEF Busy
  <2>3. /\ tail_ptr_virt[p] = SQIDToSQHD[p] /\ head_ptr[p] = SQIDToSQHD[p]
        /\ SQIDToSQHD[p] \in 0 .. sqN - 1 /\ sqElements[p] = sqN /\ sqN \in Nat \ {0, 1}
    BY <1>1, <1>2, <2>2, SizeFacts DEF AssocSQ, Idles
  <2>4. ~SQFull(p)
    BY <2>3, Steps DEF SQFull
  <2>5. /\ Send(p) /\ pc' = "ring" /\ n' = n /\ k' = k /\ test' = test
        /\ verdict' = verdict /\ SQIDToSQHD' = SQIDToSQHD /\ left' = left
    BY <1>4, <2>1, <2>4 DEF AssocSend, SendOrFail, Goto, Idle
  <2>6. /\ QueueTypes' /\ sqN' = sqN /\ cqN' = cqN /\ Waiting' = Waiting
    BY <1>1, <2>5, SendTypes
  <2>7. /\ tail_ptr' = tail_ptr /\ head_ptr' = head_ptr /\ fetched' = fetched
        /\ executing' = executing /\ cqRing' = cqRing
        /\ \A q \in SQs : tail_ptr_virt'[q] = IF q = p THEN (tail_ptr_virt[q] + 1) % sqN
                                              ELSE tail_ptr_virt[q]
    BY <1>1, <2>3, <2>5 DEF Send, device, QueueTypes
  <2>8. Busy' = Busy
    BY <1>1, <2>5 DEF Busy
  <2>9. ASSUME NEW q \in SQs
        PROVE  AssocSQ(q)'
    <3>1. HasCE(q)' <=> HasCE(q)
      BY <2>6, <2>7 DEF HasCE
    <3>2. AssocSQ(q)
      BY <1>2
    <3>3. IF q \in Busy THEN Works(q)' ELSE Idles(q)'
      BY <2>5, <2>6, <2>7, <3>1, <3>2, Untouched DEF AssocSQ
    <3>4. tail_ptr'[q] = SQIDToSQHD'[q]
      BY <2>5, <2>7, <3>2 DEF AssocSQ
    <3>5. tail_ptr_virt'[q] = IF q = p THEN (SQIDToSQHD[q] + 1) % sqN ELSE SQIDToSQHD[q]
      BY <1>1, <2>7, <3>2 DEF AssocSQ
    <3> QED
      BY <2>1, <2>5, <2>6, <2>8, <3>3, <3>4, <3>5 DEF AssocSQ
  <2>10. AssocCEs'
    BY <1>2, <2>5, <2>6, <2>7, <2>8 DEF AssocCEs
  <2>11. AssocInv'
    BY <1>2, <1>4, <2>5, <2>6, <2>9, <2>10 DEF AssocInv
  <2>12. SizesInv'
    BY <1>1, <2>5, <2>6, SizesStay
  <2> QED
    BY <1>1, <2>5, <2>6, <2>11, <2>12
       DEF Inv, NoFalseFailure, FullFillsBoth, RollsOver, Rolls
<1>5. CASE ~(n > NumIOQs) /\ ~(k < n)
  <2>1. k = n /\ n <= NumIOQs
    BY <1>1, <1>2, <1>5
  <2>2. /\ UNCHANGED queues /\ pc' = "wait" /\ n' = n /\ k' = k /\ test' = test
        /\ verdict' = verdict /\ SQIDToSQHD' = SQIDToSQHD /\ left' = 1 .. n
    BY <1>5 DEF AssocSend, Goto
  <2>3. QueueTypes' /\ sqN' = sqN /\ cqN' = cqN
    BY <1>1, <2>2, Stays
  <2>4. Busy' = Busy
    BY <1>1, <2>1, <2>2 DEF Busy
  <2>5. IsFiniteSet(1 .. n) /\ Cardinality(1 .. n) = n
    <3>1. 1 \in Int /\ n \in Int /\ ~(1 > n) /\ n - 1 + 1 = n
      BY <1>2
    <3> QED
      BY <3>1, FS_Interval
  <2>6. left' \subseteq SQs
    BY <1>2, <2>1, <2>2
  <2>7. \A q \in SQs : AssocSQ(q)'
    <3> SUFFICES ASSUME NEW q \in SQs PROVE AssocSQ(q)'
      OBVIOUS
    <3>1. UNCHANGED <<tail_ptr, tail_ptr_virt, fetched, head_ptr, executing, Waiting, cqRing>>
      BY <2>2 DEF queues, sizes, dnvme, device, Waiting, ReapInquiry
    <3>2. AssocSQ(q) /\ (HasCE(q)' <=> HasCE(q))
      BY <1>2, <3>1 DEF HasCE
    <3>3. IF q \in Busy THEN Works(q)' ELSE Idles(q)'
      BY <2>2, <2>3, <3>1, <3>2, Untouched DEF AssocSQ
    <3> QED
      BY <1>1, <2>2, <2>3, <2>4, <3>1, <3>2, <3>3 DEF AssocSQ
  <2>8. AssocCEs'
    <3>1. UNCHANGED <<Waiting, cqRing>>
      BY <2>2 DEF queues, sizes, dnvme, device, Waiting, ReapInquiry
    <3> QED
      BY <1>2, <2>2, <2>4, <3>1 DEF AssocCEs
  <2>9. AssocInv'
    BY <1>2, <2>1, <2>2, <2>3, <2>5, <2>6, <2>7, <2>8 DEF AssocInv
  <2>10. SizesInv'
    BY <1>1, <2>2, <2>3, SizesStay
  <2> QED
    BY <1>1, <2>2, <2>3, <2>9, <2>10
       DEF Inv, NoFalseFailure, FullFillsBoth, RollsOver, Rolls
<1> QED
  BY <1>3, <1>4, <1>5

LEMMA AssocRings ==
  ASSUME Inv, AssocRing, Observe
  PROVE  Inv'
<1>1. /\ test = "ManySQtoCQ" /\ pc = "ring" /\ verdict = "running"
      /\ QueueTypes /\ SizesInv /\ n \in Nat /\ k \in Nat /\ AssocInv
  BY DEF AssocRing, At, Inv
<1>2. /\ k < n /\ n \in 1 .. NumIOQs + 1 /\ ~(n > NumIOQs) /\ left \subseteq SQs
      /\ SQIDToSQHD \in [SQs -> 0 .. sqN - 1]
      /\ (\A q \in SQs : AssocSQ(q)) /\ AssocCEs
      /\ SQs = 1 .. NumIOQs /\ NumIOQs \in Nat
  BY <1>1, QueueTestsAssumption DEF AssocInv
<1>3. PICK p \in SQs : p = k + 1
  BY <1>1, <1>2
<1>4. p \notin Busy
  BY <1>1, <1>3 DEF Busy
<1>5. /\ tail_ptr_virt[p] = (SQIDToSQHD[p] + 1) % sqN /\ Idles(p)
      /\ SQIDToSQHD[p] \in 0 .. sqN - 1 /\ sqElements[p] = sqN
      /\ (SQIDToSQHD[p] + 1) % sqN \in 0 .. sqN - 1
  <2>1. SQIDToSQHD[p] \in 0 .. sqN - 1 /\ sqN \in Nat \ {0}
    BY <1>1, <1>2, SizeFacts
  <2> QED
    BY <1>1, <1>2, <1>3, <1>4, <2>1, SizeFacts, Successor DEF AssocSQ
<1>6. /\ Ring(p) /\ pc' = "send" /\ n' = n /\ k' = k + 1 /\ test' = test
      /\ verdict' = verdict /\ left' = left
      /\ SQIDToSQHD' = [SQIDToSQHD EXCEPT ![p] = (@ + 1) % sqElements[p]]
  BY <1>3 DEF AssocRing, Goto
<1>7. QueueTypes' /\ sqN' = sqN /\ cqN' = cqN /\ Waiting' = Waiting
  BY <1>1, <1>6, RingTypes
<1>8. /\ tail_ptr_virt' = tail_ptr_virt /\ head_ptr' = head_ptr /\ fetched' = fetched
      /\ executing' = executing /\ cqRing' = cqRing
      /\ \A q \in SQs : tail_ptr'[q] = IF q = p THEN tail_ptr_virt[q] ELSE tail_ptr[q]
  BY <1>1, <1>6 DEF Ring, device, QueueTypes
<1>9. /\ SQIDToSQHD' \in [SQs -> 0 .. sqN - 1]
      /\ \A q \in SQs : SQIDToSQHD'[q] = IF q = p THEN (SQIDToSQHD[q] + 1) % sqN
                                         ELSE SQIDToSQHD[q]
  BY <1>2, <1>5, <1>6
<1>10. Busy' = Busy \cup {p}
  <2>1. 1 .. k + 1 = (1 .. k) \cup {k + 1}
    BY <1>1
  <2> QED
    BY <1>1, <1>3, <1>6, <2>1 DEF Busy
<1>11. ~HasCE(p)
  BY <1>2, <1>4 DEF HasCE, AssocCEs
<1>12. ASSUME NEW q \in SQs
       PROVE  AssocSQ(q)'
  <2>1. HasCE(q)' <=> HasCE(q)
    BY <1>7, <1>8 DEF HasCE
  <2>2. AssocSQ(q)
    BY <1>2
  <2>3. CASE q = p
    <3>1. Works(p)'
      <4>1. HasCE(p)' <=> HasCE(p)
        BY <2>1, <2>3
      <4>2. head_ptr[p] = SQIDToSQHD[p] /\ fetched[p] = head_ptr[p] /\ executing[p] = {}
        BY <1>5 DEF Idles
      <4> QED
        BY <1>5, <1>7, <1>8, <1>9, <1>11, <4>1, <4>2 DEF Works
    <3>2. tail_ptr'[p] = SQIDToSQHD'[p] /\ tail_ptr_virt'[p] = SQIDToSQHD'[p]
      BY <1>5, <1>8, <1>9
    <3> QED
      BY <1>6, <1>10, <2>3, <3>1, <3>2 DEF AssocSQ
  <2>4. CASE q # p
    <3>1. SQIDToSQHD'[q] = SQIDToSQHD[q]
      BY <1>9, <2>4
    <3>2. IF q \in Busy THEN Works(q)' ELSE Idles(q)'
      BY <1>7, <1>8, <2>1, <2>2, <3>1, Untouched DEF AssocSQ
    <3>3. tail_ptr'[q] = SQIDToSQHD'[q] /\ tail_ptr_virt'[q] = SQIDToSQHD'[q]
      BY <1>3, <1>8, <2>2, <2>4, <3>1 DEF AssocSQ
    <3> QED
      BY <1>6, <1>10, <2>4, <3>2, <3>3 DEF AssocSQ
  <2> QED
    BY <2>3, <2>4
<1>13. AssocCEs'
  <2>1. \A i \in Waiting : cqRing[i].SQID \in SQs /\ cqRing[i].SQID # p
    BY <1>1, <1>2, <1>4 DEF AssocCEs, Busy
  <2> QED
    BY <1>2, <1>7, <1>8, <1>9, <1>10, <2>1 DEF AssocCEs
<1>14. k + 1 \in Nat /\ k + 1 <= n
  BY <1>1, <1>2
<1>15. AssocInv'
  BY <1>2, <1>6, <1>7, <1>9, <1>12, <1>13, <1>14 DEF AssocInv
<1>16. SizesInv'
  BY <1>1, <1>6, <1>7, SizesStay
<1> QED
  BY <1>1, <1>6, <1>7, <1>14, <1>15, <1>16
     DEF Inv, NoFalseFailure, FullFillsBoth, RollsOver, Rolls

\* A wait for a CE ends with one, of an SQ that is not struck off.
LEMMA AssocReaps ==
  ASSUME Inv, AssocReap, Observe
  PROVE  Inv'
<1>1. /\ test = "ManySQtoCQ" /\ pc = "wait" /\ verdict = "running" /\ k > 0 /\ Waited(1)
      /\ QueueTypes /\ SizesInv /\ n \in Nat /\ k \in Nat /\ AssocInv /\ CQTypes
  BY DEF AssocReap, At, Inv, QueueTypes
<1>2. /\ n \in 1 .. NumIOQs + 1 /\ n <= NumIOQs /\ ~(n > NumIOQs) /\ left \subseteq SQs
      /\ SQIDToSQHD \in [SQs -> 0 .. sqN - 1]
      /\ (\A q \in SQs : AssocSQ(q)) /\ AssocCEs
      /\ IsFiniteSet(left) /\ k = Cardinality(left) /\ Busy = left
  BY <1>1, QueueTestsAssumption DEF AssocInv, Busy
<1>3. ReapInquiry # 0
  <2> SUFFICES ASSUME ReapInquiry = 0 PROVE FALSE
    OBVIOUS
  <2>1. Quiescent
    BY <1>1 DEF Waited, TimedOut
  <2>2. cqN \in Nat \ {0, 1} /\ sqN \in Nat \ {0, 1}
    BY <1>1, SizeFacts
  <2>3. ~CQFull
    <3>1. ReapInquiry # cqN - 1
      BY <2>2
    <3> QED
      BY <1>1, <3>1, RoomLeft
  <2>4. Waiting = {}
    BY <1>1, Waits DEF WaitingIs
  <2>5. PICK q \in left : TRUE
    <3>1. left # {}
      BY <1>1, <1>2, FS_EmptySet
    <3> QED
      BY <3>1
  <2>6. q \in SQs /\ Works(q) /\ fetched[q] = SQIDToSQHD[q]
    BY <1>2, <2>1, <2>5 DEF AssocSQ, Quiescent
  <2>7. executing[q] = {} /\ ~HasCE(q)
    BY <2>1, <2>3, <2>4, <2>6 DEF Quiescent, HasCE
  <2>8. SQIDToSQHD[q] = head_ptr[q] /\ head_ptr[q] \in 0 .. sqN - 1
        /\ SQIDToSQHD[q] = (head_ptr[q] + 1) % sqN
    BY <2>6, <2>7 DEF Works
  <2> QED
    BY <2>2, <2>8, Steps
<1>4. NumReaped(1) = 1 /\ cqHead \in Waiting
  BY <1>1, <1>3, OneOrNone, HeadWaits
<1>5. PICK p \in left : p = cqRing[cqHead].SQID
  BY <1>2, <1>4 DEF AssocCEs
<1>6. p \in SQs /\ cqRing[cqHead].SQHD = SQIDToSQHD[p]
  BY <1>2, <1>4, <1>5 DEF AssocCEs
<1>7. /\ Reap(1) /\ left' = left \ {p} /\ k' = k - 1 /\ pc' = "wait" /\ n' = n
      /\ test' = test /\ verdict' = verdict /\ SQIDToSQHD' = SQIDToSQHD
  BY <1>3, <1>4, <1>5, <1>6 DEF AssocReap, ReapChecked, PeekCE, Goto
<1>8. /\ cqHead' = (cqHead + 1) % cqElements
      /\ head_ptr' = [q \in SQs |-> IF q = p THEN SQIDToSQHD[p] ELSE head_ptr[q]]
  BY <1>1, <1>4, <1>5, <1>6, <1>7, ReapsFirst
<1>9. /\ cqTail' = cqTail /\ cqElements' = cqElements /\ cqRing' = cqRing
      /\ tail_ptr_virt' = tail_ptr_virt /\ tail_ptr' = tail_ptr
      /\ fetched' = fetched /\ executing' = executing
  BY <1>7 DEF Reap, device, sizes
<1>10. CQTypes' /\ Waiting' = Waiting \ {cqHead}
  BY <1>1, <1>3, <1>8, <1>9, CETaken
<1>11. QueueTypes' /\ sqN' = sqN /\ cqN' = cqN
  BY <1>1, <1>7, <1>10, ReapTypes
<1>12. Busy' = left \ {p}
  BY <1>7 DEF Busy
<1>13. ASSUME NEW q \in SQs
       PROVE  AssocSQ(q)'
  <2>1. AssocSQ(q)
    BY <1>2
  <2>2. tail_ptr'[q] = SQIDToSQHD'[q] /\ tail_ptr_virt'[q] = SQIDToSQHD'[q]
    BY <1>1, <1>7, <1>9, <2>1 DEF AssocSQ
  <2>3. CASE q = p
    <3>1. HasCE(p)
      BY <1>4, <1>5 DEF HasCE
    <3>2. Works(p)
      BY <1>2, <1>5, <2>1, <2>3 DEF AssocSQ
    <3>3. fetched[p] = SQIDToSQHD[p] /\ executing[p] = {}
      BY <3>1, <3>2 DEF Works
    <3>4. Idles(p)'
      BY <1>6, <1>7, <1>8, <1>9, <3>3 DEF Idles
    <3> QED
      BY <1>7, <1>12, <2>2, <2>3, <3>4 DEF AssocSQ
  <2>4. CASE q # p
    <3>1. HasCE(q)' <=> HasCE(q)
      BY <1>5, <1>9, <1>10, <2>4 DEF HasCE
    <3>2. head_ptr'[q] = head_ptr[q]
      BY <1>8, <2>4
    <3>3. IF q \in Busy THEN Works(q)' ELSE Idles(q)'
      BY <1>7, <1>9, <1>11, <2>1, <3>1, <3>2, Untouched DEF AssocSQ
    <3>4. q \in Busy' <=> q \in Busy
      BY <1>2, <1>12, <2>4
    <3> QED
      BY <1>7, <2>2, <3>3, <3>4 DEF AssocSQ
  <2> QED
    BY <2>3, <2>4
<1>14. AssocCEs'
  <2>1. \A i \in Waiting \ {cqHead} : cqRing[i].SQID # p
    BY <1>2, <1>4, <1>5 DEF AssocCEs
  <2> QED
    BY <1>2, <1>7, <1>9, <1>10, <1>12, <2>1 DEF AssocCEs
<1>15. /\ IsFiniteSet(left') /\ k - 1 = Cardinality(left') /\ k - 1 \in Nat
  <2>1. /\ IsFiniteSet(left \ {p})
        /\ Cardinality(left \ {p}) = Cardinality(left) - 1
    BY <1>2, <1>5, FS_RemoveElement
  <2> QED
    BY <1>1, <1>2, <1>7, <2>1
<1>16. AssocInv'
  <2>1. left' \subseteq SQs
    BY <1>2, <1>7
  <2> QED
    BY <1>2, <1>7, <1>11, <1>13, <1>14, <1>15, <2>1 DEF AssocInv
<1>17. SizesInv'
  BY <1>1, <1>7, <1>11, SizesStay
<1> QED
  BY <1>1, <1>7, <1>11, <1>15, <1>16, <1>17
     DEF Inv, NoFalseFailure, FullFillsBoth, RollsOver, Rolls

LEMMA AssocNexts ==
  ASSUME Inv, AssocNext, Observe
  PROVE  Inv'
<1>1. /\ test = "ManySQtoCQ" /\ pc = "wait" /\ verdict = "running" /\ k = 0
      /\ QueueTypes /\ SizesInv /\ n \in Nat /\ AssocInv
  BY DEF AssocNext, At, Inv
<1>2. /\ n \in 1 .. NumIOQs + 1 /\ n <= NumIOQs /\ left \subseteq SQs
      /\ SQIDToSQHD \in [SQs -> 0 .. sqN - 1]
      /\ (\A q \in SQs : AssocSQ(q)) /\ AssocCEs /\ Busy = left
      /\ NumIOQs \in Nat
  BY <1>1, QueueTestsAssumption DEF AssocInv, Busy
<1>3. left = {}
  BY <1>1, FS_EmptySet DEF AssocInv
<1>4. /\ UNCHANGED queues /\ n' = n + 1 /\ k' = k /\ pc' = "send" /\ test' = test
      /\ verdict' = verdict /\ SQIDToSQHD' = SQIDToSQHD /\ left' = left
  BY <1>3 DEF AssocNext, Goto
<1>5. QueueTypes' /\ sqN' = sqN /\ cqN' = cqN
  BY <1>1, <1>4, Stays
<1>6. UNCHANGED <<tail_ptr, tail_ptr_virt, fetched, head_ptr, executing, Waiting, cqRing>>
  BY <1>4 DEF queues, sizes, dnvme, device, Waiting, ReapInquiry
<1>7. Busy' = Busy
  <2>1. 1 .. 0 = {}
    OBVIOUS
  <2> QED
    BY <1>1, <1>2, <1>3, <1>4, <2>1 DEF Busy
<1>8. ASSUME NEW q \in SQs
      PROVE  AssocSQ(q)'
  <2>1. AssocSQ(q) /\ (HasCE(q)' <=> HasCE(q))
    BY <1>2, <1>6 DEF HasCE
  <2>2. IF q \in Busy THEN Works(q)' ELSE Idles(q)'
    BY <1>4, <1>5, <1>6, <2>1, Untouched DEF AssocSQ
  <2> QED
    BY <1>1, <1>4, <1>5, <1>6, <1>7, <2>1, <2>2 DEF AssocSQ
<1>9. AssocCEs'
  BY <1>2, <1>4, <1>6, <1>7 DEF AssocCEs
<1>10. n' \in Nat /\ n' \in 1 .. NumIOQs + 1 /\ k <= n'
  BY <1>1, <1>2, <1>4
<1>11. AssocInv'
  BY <1>1, <1>2, <1>4, <1>5, <1>8, <1>9, <1>10 DEF AssocInv
<1>12. SizesInv'
  BY <1>1, <1>4, <1>5, SizesStay
<1> QED
  BY <1>1, <1>4, <1>5, <1>10, <1>11, <1>12
     DEF Inv, NoFalseFailure, FullFillsBoth, RollsOver, Rolls

\* The device moves one command on, of an SQ that has one.
LEMMA AssocDevice ==
  ASSUME Inv, DeviceStep, test = "ManySQtoCQ"
  PROVE  Inv'
<1>1. /\ verdict = "running" /\ Device /\ AssocInv /\ QueueTypes /\ SizesInv
      /\ n \in Nat /\ k \in Nat
      /\ UNCHANGED <<test, pc, n, k, SQIDToSQHD, left, verdict>>
  BY DEF DeviceStep, Inv, prog
<1>2. /\ SQIDToSQHD \in [SQs -> 0 .. sqN - 1]
      /\ (\A q \in SQs : AssocSQ(q)) /\ AssocCEs
  BY <1>1 DEF AssocInv
<1>3. Busy' = Busy
  BY <1>1 DEF Busy
<1>4. PICK p \in SQs : Fetch(p) \/ Complete(p)
  BY <1>1 DEF Device
<1>5. UNCHANGED <<tail_ptr_virt, tail_ptr, head_ptr>>
  BY <1>4 DEF Fetch, Complete, dnvme
<1>6. QueueTypes' /\ sqN' = sqN /\ cqN' = cqN
  BY <1>1, <1>4, FetchTypes, CompleteTypes
<1>7. \A q \in SQs : q # p => fetched'[q] = fetched[q] /\ executing'[q] = executing[q]
  <2>1. CASE Fetch(p)
    BY <1>1, <2>1 DEF Fetch, QueueTypes
  <2>2. CASE Complete(p)
    BY <1>1, <2>2 DEF Complete, QueueTypes
  <2> QED
    BY <1>4, <2>1, <2>2
<1>8. p \in Busy /\ Works(p) /\ tail_ptr[p] = SQIDToSQHD[p]
  <2>1. AssocSQ(p)
    BY <1>2
  <2>2. fetched[p] # tail_ptr[p] \/ executing[p] # {}
    BY <1>4 DEF Fetch, Complete
  <2> QED
    BY <2>1, <2>2 DEF AssocSQ, Idles
<1>9. /\ Works(p)' /\ (\A q \in SQs : q # p => (HasCE(q)' <=> HasCE(q)))
      /\ AssocCEs'
  <2>1. CASE Fetch(p)
    <3>1. Waiting' = Waiting /\ cqRing' = cqRing
      BY <1>1, <2>1, FetchTypes DEF Fetch
    <3>2. \A q : HasCE(q)' <=> HasCE(q)
      BY <3>1 DEF HasCE
    <3>3. AssocCEs'
      BY <1>1, <1>2, <1>3, <3>1 DEF AssocCEs
    <3>4. fetched[p] = head_ptr[p] /\ executing[p] = {} /\ ~HasCE(p)
      BY <1>8, <2>1 DEF Works, Fetch
    <3>5. /\ fetched'[p] = (head_ptr[p] + 1) % sqN
          /\ executing'[p] = {sqRing[p][fetched[p]]}
      BY <1>1, <2>1, <3>4, SizeFacts DEF Fetch, QueueTypes
    <3>6. Works(p)'
      BY <1>1, <1>5, <1>6, <1>8, <3>2, <3>4, <3>5 DEF Works
    <3> QED
      BY <3>2, <3>3, <3>6
  <2>2. CASE Complete(p)
    <3>1. /\ Waiting' = Waiting \cup {cqTail}
          /\ \A i \in Waiting : cqRing'[i] = cqRing[i]
          /\ cqTail \notin Waiting
      BY <1>1, <2>2, CompleteTypes
    <3>2. PICK c \in executing[p] :
            /\ executing' = [executing EXCEPT ![p] = @ \ {c}]
            /\ cqRing'[cqTail] = [SQID |-> p, CID |-> c, SQHD |-> fetched[p]]
      BY <1>1, <2>2, CompleteTypes
    <3>3. cqRing'[cqTail].SQID = p /\ cqRing'[cqTail].SQHD = fetched[p]
      BY <3>2
    <3>4. fetched' = fetched
      BY <2>2 DEF Complete
    <3>5. /\ fetched[p] = SQIDToSQHD[p] /\ ~HasCE(p)
          /\ \A a, b \in executing[p] : a = b
      BY <1>8, <3>2 DEF Works
    <3>6. executing'[p] = {}
      BY <1>1, <3>2, <3>5 DEF QueueTypes
    <3>7. HasCE(p)'
      BY <3>1, <3>3 DEF HasCE
    <3>8. \A q \in SQs : q # p => (HasCE(q)' <=> HasCE(q))
      BY <3>1, <3>3 DEF HasCE
    <3>9. Works(p)'
      BY <1>1, <1>5, <1>6, <1>8, <3>4, <3>5, <3>6, <3>7 DEF Works
    <3>10. AssocCEs'
      <4>1. \A i \in Waiting : cqRing[i].SQID # p
        BY <3>5 DEF HasCE
      <4> QED
        BY <1>1, <1>2, <1>3, <1>8, <3>1, <3>3, <3>5, <4>1 DEF AssocCEs
    <3> QED
      BY <3>8, <3>9, <3>10
  <2> QED
    BY <1>4, <2>1, <2>2
<1>10. ASSUME NEW q \in SQs
       PROVE  AssocSQ(q)'
  <2>1. AssocSQ(q)
    BY <1>2
  <2>2. IF q \in Busy THEN Works(q)' ELSE Idles(q)'
    <3>1. CASE q = p
      BY <1>8, <1>9, <3>1
    <3>2. CASE q # p
      BY <1>1, <1>5, <1>6, <1>7, <1>9, <2>1, <3>2, Untouched DEF AssocSQ
    <3> QED
      BY <3>1, <3>2
  <2> QED
    BY <1>1, <1>3, <1>5, <1>6, <2>1, <2>2 DEF AssocSQ
<1>11. AssocInv'
  BY <1>1, <1>6, <1>9, <1>10 DEF AssocInv
<1>12. SizesInv'
  BY <1>1, <1>6, SizesStay
<1> QED
  BY <1>1, <1>6, <1>11, <1>12
     DEF Inv, NoFalseFailure, FullFillsBoth, RollsOver, Rolls

-----------------------------------------------------------------------------
(***************************************************************************)
(* The device, in the tests with one SQ                                    *)
(***************************************************************************)
LEMMA NothingLeft ==
  ASSUME QueueTypes, OnlyFirst, NEW h, NEW T, NEW R, Batch(h, T, R), R + ReapInquiry = T
  PROVE  ~Device
<1> DEFINE F == Off(h, fetched[IOQ_ID])
           U == Off(h, tail_ptr[IOQ_ID])
           C == Cardinality(executing[IOQ_ID])
<1>1. /\ F \in 0 .. sqN - 1 /\ U \in 0 .. sqN - 1 /\ T \in 0 .. sqN - 1 /\ sqN \in Nat
      /\ F <= U /\ U <= T /\ T <= F /\ C = F - R - ReapInquiry /\ R \in Nat
      /\ ReapInquiry \in 0 .. cqN - 1 /\ cqN \in Nat /\ IsFiniteSet(executing[IOQ_ID])
      /\ h \in 0 .. sqN - 1 /\ sqN \in Nat \ {0}
  BY BatchCounts, SizeFacts
<1>2. fetched[IOQ_ID] \in 0 .. sqN - 1 /\ tail_ptr[IOQ_ID] \in 0 .. sqN - 1
  BY <1>1, Ranges
<1>3. F = U /\ C = 0
  <2> HIDE DEF F, U, C
  <2> QED
    BY <1>1
<1>4. fetched[IOQ_ID] = tail_ptr[IOQ_ID]
  <2>1. Distance(h, fetched[IOQ_ID], sqN) = Distance(h, tail_ptr[IOQ_ID], sqN)
    BY <1>3 DEF Off
  <2>2. h \in 0 .. sqN - 1 /\ sqN \in Nat \ {0}
    BY <1>1
  <2> QED
    BY <1>2, <2>1, <2>2, DistanceTells, Zenon
<1>5. executing[IOQ_ID] = {}
  BY <1>1, <1>3, FS_EmptySet
<1>6. \A q \in SQs : fetched[q] = tail_ptr[q] /\ executing[q] = {}
  BY <1>4, <1>5 DEF OnlyFirst
<1> QED
  BY <1>6 DEF Device, Fetch, Complete

LEMMA DeviceMoves ==
  ASSUME Inv, DeviceStep, Observe, test # "ManySQtoCQ"
  PROVE  Inv'
<1>1. /\ verdict = "running" /\ Device /\ QueueTypes /\ SizesInv /\ OnlyFirst
      /\ n \in Nat /\ k \in Nat
      /\ UNCHANGED <<test, pc, n, k, increment, verdict>>
  BY DEF DeviceStep, Inv, prog
<1>2. /\ (test = "Full" => FullInv) /\ (test \in Rolls => RollInv)
      /\ (test = "ManyCmdSubmit" => ManyInv) /\ (test = "SizeMismatch" => MismatchInv)
  BY <1>1 DEF Inv
<1>3. \A h, T, R : Batch(h, T, R) =>
        /\ QueueTypes' /\ OnlyFirst' /\ Batch(h, T, R)'
        /\ sqN' = sqN /\ cqN' = cqN /\ Rung' = Rung
        /\ UNCHANGED <<tail_ptr_virt, tail_ptr, head_ptr, cqHead>>
  BY <1>1, BatchDevice
<1>4. /\ QueueTypes' /\ OnlyFirst' /\ sqN' = sqN /\ cqN' = cqN
      /\ UNCHANGED <<tail_ptr_virt, tail_ptr, head_ptr, cqHead>>
  <2>1. PICK p \in SQs : Fetch(p) \/ Complete(p)
    BY <1>1 DEF Device
  <2>2. UNCHANGED <<tail_ptr_virt, tail_ptr, head_ptr, cqHead>>
    BY <2>1 DEF Fetch, Complete, dnvme
  <2>3. QueueTypes' /\ sqN' = sqN /\ cqN' = cqN
    BY <1>1, <2>1, FetchTypes, CompleteTypes
  <2>4. p = IOQ_ID
    BY <1>1, <2>1 DEF OnlyFirst, Fetch, Complete
  <2>5. \A q \in SQs \ {p} : fetched'[q] = fetched[q] /\ executing'[q] = executing[q]
    <3>1. CASE Fetch(p)
      BY <1>1, <3>1 DEF Fetch, QueueTypes
    <3>2. CASE Complete(p)
      BY <1>1, <3>2 DEF Complete, QueueTypes
    <3> QED
      BY <2>1, <3>1, <3>2
  <2>6. OnlyFirst'
    BY <1>1, <2>2, <2>4, <2>5 DEF OnlyFirst
  <2> QED
    BY <2>2, <2>3, <2>6
<1>5. ASSUME test = "Full" PROVE FullInv'
  <2>1. PICK T, R \in Nat :
          /\ Batch(0, T, R)
          /\ T = (IF pc = "send" THEN n ELSE n + 1) /\ R = (IF pc = "last" THEN 1 ELSE 0)
          /\ pc \in {"send", "ring", "wait", "last"}
          /\ pc # "last" => head_ptr[IOQ_ID] = 0
          /\ pc # "ring" => Rung
          /\ pc = "send" => ReapInquiry = n
          /\ pc = "last" => n = sqN - 2 /\ sqN = cqN + 1 /\ full = {"SQ", "CQ"}
          /\ full \subseteq {"SQ", "CQ"}
    BY <1>2, <1>5 DEF FullInv
  <2>2. Batch(0, T, R)' /\ Rung' = Rung
    BY <1>3, <2>1
  <2>3. pc # "send"
    <3> SUFFICES ASSUME pc = "send" PROVE FALSE
      OBVIOUS
    <3>1. R + ReapInquiry = T
      BY <1>1, <2>1
    <3> QED
      BY <1>1, <2>1, <3>1, NothingLeft
  <2>4. CASE pc = "last"
    <3>1. full' = {"SQ", "CQ"}
      BY <1>4, <2>1, <2>4, CQSeen
    <3> QED
      BY <1>1, <1>4, <2>1, <2>2, <2>4, <3>1 DEF FullInv
  <2>5. CASE pc # "last"
    <3>1. T = sqN' - 1 => "SQ" \in full'
      BY <1>4, <2>1, <2>2, <2>5, FullSeen
    <3>2. /\ ReapInquiry' = cqN' - 1 => "CQ" \in full'
          /\ full' \subseteq {"SQ", "CQ"}
      BY <1>4, <2>1, CQSeen
    <3> QED
      BY <1>1, <1>4, <2>1, <2>2, <2>3, <2>5, <3>1, <3>2 DEF FullInv
  <2> QED
    BY <2>4, <2>5
<1>6. ASSUME test \in Rolls PROVE RollInv'
  <2>1. PICK h, T \in Nat :
          /\ Batch(h, T, 0)
          /\ h = n % sqN /\ T = (IF pc = "send" THEN 0 ELSE 1)
          /\ pc \in {"send", "ring", "wait"}
          /\ n <= Submissions /\ (pc # "send" => n < Submissions)
          /\ head_ptr[IOQ_ID] = h /\ cqHead = n % cqN
          /\ (IF pc = "ring" THEN tail_ptr[IOQ_ID] = h ELSE Rung)
          /\ rolled \subseteq {"tail", "head", "cq"}
          /\ n >= sqN => "head" \in rolled /\ "tail" \in rolled
          /\ pc = "wait" /\ n + 1 >= sqN => "tail" \in rolled
          /\ n >= cqN => "cq" \in rolled
    BY <1>2, <1>6 DEF RollInv
  <2>2. Batch(h, T, 0)' /\ Rung' = Rung
    BY <1>3, <2>1
  <2>3. Submissions' = Submissions
    BY <1>4 DEF Submissions
  <2>4. /\ rolled \subseteq rolled'
        /\ rolled' \subseteq {"tail", "head", "cq"}
    BY <2>1, RollSeen
  <2>5. pc # "send"
    <3> SUFFICES ASSUME pc = "send" PROVE FALSE
      OBVIOUS
    <3>1. 0 + ReapInquiry = T
      BY <1>1, <2>1, BatchCounts
    <3> QED
      BY <1>1, <2>1, <3>1, NothingLeft
  <2> QED
    BY <1>1, <1>4, <2>1, <2>2, <2>3, <2>4, <2>5 DEF RollInv
<1>7. ASSUME test = "ManyCmdSubmit" PROVE ManyInv'
  <2>1. PICK h, T \in Nat :
          /\ Batch(h, T, 0)
          /\ h = head_ptr[IOQ_ID] /\ T = k
          /\ pc \in {"send", "wait"} /\ n >= 1
          /\ k <= n /\ (n >= MaxEntries => k = 0)
          /\ pc = "wait" => k = n /\ n < MaxEntries /\ Rung
          /\ increment \in Nat
    BY <1>2, <1>7 DEF ManyInv
  <2>2. Batch(h, T, 0)' /\ Rung' = Rung
    BY <1>3, <2>1
  <2> QED
    BY <1>1, <1>4, <2>1, <2>2 DEF ManyInv
<1>8. ASSUME test = "SizeMismatch" PROVE MismatchInv'
  <2>1. PICK T, R \in Nat :
          /\ Batch(0, T, R)
          /\ T = k /\ R = n
          /\ pc \in {"send", "wait"}
          /\ pc = "wait" => k = sqN - 1 /\ Rung
          /\ pc = "send" => n = 0 /\ head_ptr[IOQ_ID] = 0
    BY <1>2, <1>8 DEF MismatchInv
  <2>2. Batch(0, T, R)' /\ Rung' = Rung
    BY <1>3, <2>1
  <2> QED
    BY <1>1, <1>4, <2>1, <2>2 DEF MismatchInv
<1>9. SizesInv'
  BY <1>1, <1>4, SizesStay
<1> QED
  BY <1>1, <1>4, <1>5, <1>6, <1>7, <1>8, <1>9
     DEF Inv, NoFalseFailure, FullFillsBoth, RollsOver

-----------------------------------------------------------------------------
(***************************************************************************)
(* The first state, and the theorems                                       *)
(***************************************************************************)
LEMMA SizesFit ==
  ASSUME NEW t \in Tests, NEW s \in SizesOf(t)
  PROVE  /\ s[1] \in 2 .. MaxEntries /\ s[2] \in Nat \ {0, 1}
         /\ t = "Full" => s[1] \in {s[2], s[2] + 1}
         /\ t = "RollSame" => s[1] = s[2]
         /\ t = "ManyCmdSubmit" => s[1] = MaxEntries /\ s[2] = MaxEntries
<1>1. /\ MaxEntries \in Nat /\ MaxEntries >= 6 /\ NumIOQs \in Nat \ {0}
      /\ t \in {"Full", "RollDiff", "RollSame", "ManyCmdSubmit", "SizeMismatch",
                "ManySQtoCQ"}
  BY QueueTestsAssumption
<1>2. Half \in 3 .. MaxEntries
  BY <1>1 DEF Half
<1>3. CASE t = "Full"
  <2>1. s \in FullSizes
    BY <1>3 DEF SizesOf
  <2> QED
    BY <1>1, <1>2, <1>3, <2>1 DEF FullSizes
<1>4. CASE t = "RollDiff"
  <2>1. s \in RollDiffSizes
    BY <1>4 DEF SizesOf
  <2> QED
    BY <1>1, <1>4, <2>1 DEF RollDiffSizes
<1>5. CASE t = "RollSame"
  <2>1. s \in RollSameSizes
    BY <1>5 DEF SizesOf
  <2> QED
    BY <1>1, <1>5, <2>1 DEF RollSameSizes
<1>6. CASE t = "ManyCmdSubmit"
  <2>1. s \in ManyCmdSizes
    BY <1>6 DEF SizesOf
  <2> QED
    BY <1>1, <1>6, <2>1 DEF ManyCmdSizes
<1>7. CASE t = "SizeMismatch"
  <2>1. s \in MismatchSizes
    BY <1>7 DEF SizesOf
  <2> DEFINE largest == Least(NumIOQs + 2, MaxEntries)
             turns(i) == Least(i - 1, MaxEntries - 2)
  <2>2. PICK i \in 1 .. NumIOQs : s = <<2 + turns(i), largest - turns(i)>>
    BY <2>1 DEF MismatchSizes
  <2>3. turns(i) \in 0 .. MaxEntries - 2 /\ largest - turns(i) \in Nat \ {0, 1}
    BY <1>1 DEF Least
  <2> HIDE DEF turns, largest
  <2> QED
    BY <1>1, <1>7, <2>2, <2>3
<1>8. CASE t = "ManySQtoCQ"
  <2>1. s \in ManySQSizes
    BY <1>8 DEF SizesOf
  <2> QED
    BY <1>1, <1>2, <1>8, <2>1 DEF ManySQSizes
<1> QED
  BY <1>1, <1>3, <1>4, <1>5, <1>6, <1>7, <1>8

LEMMA InitInv == Init => Inv
<1> SUFFICES ASSUME Init PROVE Inv
  OBVIOUS
<1>1. PICK s \in SizesOf(test) : Created([q \in SQs |-> s[1]], s[2])
  BY DEF Init
<1>2. /\ s[1] \in 2 .. MaxEntries /\ s[2] \in Nat \ {0, 1}
      /\ test = "Full" => s[1] \in {s[2], s[2] + 1}
      /\ test = "RollSame" => s[1] = s[2]
      /\ test = "ManyCmdSubmit" => s[1] = MaxEntries /\ s[2] = MaxEntries
  BY <1>1, SizesFit DEF Init
<1>3. /\ sqElements = [q \in SQs |-> s[1]] /\ cqElements = s[2]
      /\ sqRing = [q \in SQs |-> [i \in 0 .. s[1] - 1 |-> 0]]
      /\ cqRing = [i \in 0 .. s[2] - 1 |-> NoCE]
      /\ cid = [q \in SQs |-> 0]
      /\ tail_ptr_virt = [q \in SQs |-> 0] /\ tail_ptr = [q \in SQs |-> 0]
      /\ head_ptr = [q \in SQs |-> 0] /\ fetched = [q \in SQs |-> 0]
      /\ executing = [q \in SQs |-> {}]
      /\ cqHead = 0 /\ cqTail = 0
  BY <1>1 DEF Created
<1>4. sqN = s[1] /\ cqN = s[2]
  BY <1>3, First DEF sqN, cqN
<1>5. MaxEntries \in Nat /\ NumCIDs \in Nat \ {0}
  BY QueueTestsAssumption, QueuesAssumption
<1>6. QueueTypes
  <2>1. CQTypes
    BY <1>2, <1>3 DEF CQTypes
  <2>2. 0 \in 0 .. sqN - 1 /\ 0 \in CIDs
    BY <1>2, <1>4, <1>5 DEF CIDs
  <2> QED
    BY <1>2, <1>3, <1>4, <2>1, <2>2 DEF QueueTypes
<1>7. SizesInv
  BY <1>2, <1>4 DEF SizesInv
<1>8. OnlyFirst
  BY <1>3 DEF OnlyFirst
<1>9. ReapInquiry = 0 /\ Waiting = {}
  BY <1>3, <1>6, Waits DEF QueueTypes, WaitingIs
<1>10. sqN \in Nat \ {0, 1} /\ sqN \in Nat \ {0} /\ 0 \in 0 .. sqN - 1
       /\ cqN \in Nat \ {0, 1} /\ cqN \in Nat \ {0}
  BY <1>6, SizeFacts
<1>11. Off(0, 0) = 0
  BY <1>10, DistanceTells DEF Off
<1>12. Batch(0, 0, 0)
  <2>1. \A p \in 0 .. sqN - 1 : ~(Off(0, p) < 0)
    <3>1. \A p \in 0 .. sqN - 1 : Off(0, p) \in 0 .. sqN - 1
      BY <1>6, <1>10, Ranges
    <3> QED
      BY <3>1
  <2>2. /\ tail_ptr_virt[IOQ_ID] = 0 /\ tail_ptr[IOQ_ID] = 0 /\ fetched[IOQ_ID] = 0
        /\ executing[IOQ_ID] = {}
    BY <1>3, First
  <2>3. Sent(0, 0)
    BY <1>10, <1>11, <2>1, <2>2 DEF Sent
  <2>4. Executes(0, 0, 0)
    <3>1. IsFiniteSet({}) /\ Cardinality({}) = 0
      BY FS_EmptySet
    <3> QED
      BY <1>9, <1>11, <2>2, <3>1 DEF Executes
  <2>5. Completed(0, 0)
    BY <1>9 DEF Completed
  <2> QED
    BY <2>3, <2>4, <2>5 DEF Batch
<1>13. head_ptr[IOQ_ID] = 0 /\ Rung /\ tail_ptr[IOQ_ID] = 0
  BY <1>3, First DEF Rung
<1>14. /\ pc = "send" /\ k = 0 /\ increment = 1 /\ verdict = "running" /\ full = {}
       /\ rolled = {} /\ left = {} /\ SQIDToSQHD = [q \in SQs |-> 0]
       /\ n = IF test \in {"ManyCmdSubmit", "ManySQtoCQ"} THEN 1 ELSE 0
  BY DEF Init
<1>15. ASSUME test = "Full" PROVE FullInv
  <2>1. n = 0 /\ sqN - 1 # 0 /\ cqN - 1 # 0
    BY <1>10, <1>14, <1>15
  <2> QED
    BY <1>9, <1>12, <1>13, <1>14, <2>1 DEF FullInv
<1>16. ASSUME test \in Rolls PROVE RollInv
  <2>1. n = 0
    BY <1>14, <1>16 DEF Rolls
  <2>2. 0 % sqN = 0 /\ 0 % cqN = 0 /\ ~(0 >= sqN) /\ ~(0 >= cqN)
    BY <1>10
  <2>3. 0 <= Submissions
    BY <1>10 DEF Submissions, Larger
  <2> QED
    BY <1>3, <1>12, <1>13, <1>14, <2>1, <2>2, <2>3 DEF RollInv
<1>17. ASSUME test = "ManyCmdSubmit" PROVE ManyInv
  <2>1. n = 1
    BY <1>14, <1>17
  <2> QED
    BY <1>12, <1>13, <1>14, <2>1 DEF ManyInv
<1>18. ASSUME test = "SizeMismatch" PROVE MismatchInv
  <2>1. n = 0
    BY <1>14, <1>18
  <2> QED
    BY <1>12, <1>13, <1>14, <2>1 DEF MismatchInv
<1>19. ASSUME test = "ManySQtoCQ" PROVE AssocInv
  <2>1. n = 1
    BY <1>14, <1>19
  <2>2. n \in 1 .. NumIOQs + 1 /\ ~(n > NumIOQs)
    BY <2>1, QueueTestsAssumption
  <2>3. Busy = {}
    BY <1>14 DEF Busy
  <2>4. \A q \in SQs : AssocSQ(q)
    BY <1>3, <1>14, <2>3 DEF AssocSQ, Idles
  <2>5. AssocCEs
    BY <1>9 DEF AssocCEs
  <2>6. SQIDToSQHD \in [SQs -> 0 .. sqN - 1]
    BY <1>10, <1>14
  <2> QED
    BY <1>14, <2>1, <2>2, <2>4, <2>5, <2>6 DEF AssocInv
<1> QED
  BY <1>6, <1>7, <1>8, <1>14, <1>15, <1>16, <1>17, <1>18, <1>19
     DEF Inv, NoFalseFailure, FullFillsBoth, RollsOver

LEMMA Inductive == Inv /\ [Next]_vars => Inv'
<1> SUFFICES ASSUME Inv, [Next]_vars PROVE Inv'
  OBVIOUS
<1>1. ASSUME FullSend, Observe PROVE Inv'
  BY <1>1, FullSends
<1>2. ASSUME FullRing, Observe PROVE Inv'
  BY <1>2, FullRings
<1>3. ASSUME FullArrives, Observe PROVE Inv'
  BY <1>3, FullArrived
<1>4. ASSUME FullTimesOut, Observe PROVE Inv'
  BY <1>4, FullTimedOut
<1>5. ASSUME FullLast, Observe PROVE Inv'
  BY <1>5, FullLasts
<1>6. ASSUME RollSend, Observe PROVE Inv'
  BY <1>6, RollSends
<1>7. ASSUME RollRing, Observe PROVE Inv'
  BY <1>7, RollRings
<1>8. ASSUME RollReap, Observe PROVE Inv'
  BY <1>8, RollReaps
<1>9. ASSUME RollVerify, Observe PROVE Inv'
  BY <1>9, RollVerifies
<1>10. ASSUME ManySend, Observe PROVE Inv'
  BY <1>10, ManySends
<1>11. ASSUME ManyReap, Observe PROVE Inv'
  BY <1>11, ManyReaps
<1>12. ASSUME MismatchSend, Observe PROVE Inv'
  BY <1>12, MismatchSends
<1>13. ASSUME MismatchReap, Observe PROVE Inv'
  BY <1>13, MismatchReaps
<1>14. ASSUME AssocSend, Observe PROVE Inv'
  BY <1>14, AssocSends
<1>15. ASSUME AssocRing, Observe PROVE Inv'
  BY <1>15, AssocRings
<1>16. ASSUME AssocReap, Observe PROVE Inv'
  BY <1>16, AssocReaps
<1>17. ASSUME AssocNext, Observe PROVE Inv'
  BY <1>17, AssocNexts
<1>18. ASSUME DeviceStep, Observe PROVE Inv'
  BY <1>18, AssocDevice, DeviceMoves
<1>19. ASSUME UNCHANGED vars PROVE Inv'
  <2>1. UNCHANGED queues /\ UNCHANGED <<test, pc, n, k, increment, SQIDToSQHD, left>>
        /\ UNCHANGED <<verdict, full, rolled>>
    BY <1>19 DEF vars, prog
  <2>2. CASE verdict # "running"
    BY <2>1, <2>2 DEF Inv, NoFalseFailure, FullFillsBoth, RollsOver
  <2>3. CASE verdict = "running"
    <3>1. /\ QueueTypes /\ SizesInv /\ n \in Nat /\ k \in Nat
          /\ test # "ManySQtoCQ" => OnlyFirst
          /\ test = "Full" => FullInv
          /\ test \in Rolls => RollInv
          /\ test = "ManyCmdSubmit" => ManyInv
          /\ test = "SizeMismatch" => MismatchInv
          /\ test = "ManySQtoCQ" => AssocInv
      BY <2>3 DEF Inv
    <3>2. /\ UNCHANGED <<QueueTypes, OnlyFirst, Rung, sqN, cqN, ReapInquiry>>
          /\ UNCHANGED <<tail_ptr_virt, tail_ptr, head_ptr, cqHead>>
          /\ \A h, T, R : Batch(h, T, R) => Batch(h, T, R)'
      BY <2>1, Stays
    <3>3. SizesInv'
      BY <2>1, <3>1, <3>2 DEF SizesInv
    <3>4. test = "Full" => FullInv'
      BY <2>1, <3>1, <3>2 DEF FullInv
    <3>5. test \in Rolls => RollInv'
      <4>1. Submissions' = Submissions
        BY <3>2 DEF Submissions
      <4>2. LastReaped' = LastReaped
        BY <2>1, <3>2 DEF LastReaped, PeekCE, queues, device
      <4> QED
        BY <2>1, <3>1, <3>2, <4>1, <4>2 DEF RollInv
    <3>6. test = "ManyCmdSubmit" => ManyInv'
      BY <2>1, <3>1, <3>2 DEF ManyInv
    <3>7. test = "SizeMismatch" => MismatchInv'
      BY <2>1, <3>1, <3>2 DEF MismatchInv
    <3>8. test = "ManySQtoCQ" => AssocInv'
      <4>1. UNCHANGED <<fetched, executing, cqRing, Waiting>>
        BY <2>1 DEF queues, sizes, dnvme, device, Waiting, ReapInquiry
      <4>2. Busy' = Busy
        BY <2>1 DEF Busy
      <4>3. \A q : HasCE(q)' <=> HasCE(q)
        BY <4>1 DEF HasCE
      <4>4. ASSUME NEW q \in SQs, AssocSQ(q) PROVE AssocSQ(q)'
        <5>1. IF q \in Busy THEN Works(q)' ELSE Idles(q)'
          BY <2>1, <3>2, <4>1, <4>3, <4>4, Untouched DEF AssocSQ
        <5> QED
          BY <2>1, <3>2, <4>2, <4>4, <5>1 DEF AssocSQ
      <4>5. AssocCEs => AssocCEs'
        BY <2>1, <4>1, <4>2 DEF AssocCEs
      <4> QED
        BY <2>1, <3>1, <3>2, <4>4, <4>5 DEF AssocInv
    <3> QED
      BY <2>1, <2>3, <3>1, <3>2, <3>3, <3>4, <3>5, <3>6, <3>7, <3>8
         DEF Inv, NoFalseFailure, FullFillsBoth, RollsOver
  <2> QED
    BY <2>2, <2>3
<1> QED
  BY <1>1, <1>2, <1>3, <1>4, <1>5, <1>6, <1>7, <1>8, <1>9, <1>10, <1>11, <1>12, <1>13,
     <1>14, <1>15, <1>16, <1>17, <1>18, <1>19, Zenon DEF Next, Program

LEMMA Always == Spec => []Inv
<1> QED
  BY InitInv, Inductive, PTL DEF Spec

\* No test of GrpQueues fails a device that conforms and is prompt, for every
\* size of queue and every number of IO queues: whenever a wait ends, the CE's
\* that the test then looks for are there, with the SQID and the SQHD it
\* expects, and SQ::Send() finds room for every command.
THEOREM ConformingPass == Spec => []NoFalseFailure
<1>1. Inv => NoFalseFailure
  BY DEF Inv
<1> QED
  BY <1>1, Always, PTL

\* AdminQFull and IOQFull end with a pass only after the SQ and the CQ have
\* both been full, also where the SQ is one entry larger than the CQ.
THEOREM BothWereFull == Spec => []FullFillsBoth
<1>1. Inv => FullFillsBoth
  BY DEF Inv
<1> QED
  BY <1>1, Always, PTL

\* The tests of rollover end with a pass only after the tail and the head of
\* the SQ and the head of the CQ have all come round.
THEOREM PointersRolled == Spec => []RollsOver
<1>1. Inv => RollsOver
  BY DEF Inv
<1> QED
  BY <1>1, Always, PTL
=============================================================================
