----------------------------- MODULE NvmeQueues -----------------------------
(***************************************************************************)
(* Submission queues and the completion queue they share: the operations   *)
(* of SQ and CQ (Queues/sq.cpp, Queues/cq.cpp), dnvme's view of the rings  *)
(* as the metrics of struct nvme_gen_sq and nvme_gen_cq show it, and a     *)
(* device that conforms to NVMe.  This module has no behaviours of its     *)
(* own; SendReap and QueueTests run programs on it.                        *)
(*                                                                         *)
(* A command is its CID, which dnvme counts up for each SQ.  dnvme refuses *)
(* to put a command into a ring it takes to be full; it learns from the    *)
(* SQHD of the CE's it reaps how far the device has read.  The device      *)
(* reads what was rung, completes in any order, and leaves one entry of a  *)
(* CQ empty.                                                               *)
(***************************************************************************)
EXTENDS Integers, FiniteSets

CONSTANTS
  SQs,       \* IDs of the submission queues
  NumCIDs,   \* 2^16: dnvme numbers commands with a uint16_t
  NoCE       \* what a CQ holds where no CE was written

ASSUME QueuesAssumption ==
  /\ SQs # {}
  /\ NumCIDs \in Nat \ {0}

VARIABLES
  sqElements, cqElements,   \* number of entries, at least 2
  sqRing, cqRing,           \* memory of the queues, indexed from 0
  cid,                      \* the CID dnvme assigns next
  tail_ptr_virt,            \* where dnvme puts the next command
  tail_ptr,                 \* what was last rung
  head_ptr,                 \* how far the device has read, as dnvme knows
  cqHead,                   \* head_ptr of the CQ
  fetched,                  \* how far the device has read
  executing,                \* commands the device has read, not completed
  cqTail                    \* where the device writes the next CE

dnvme  == <<sqRing, cid, tail_ptr_virt, tail_ptr, head_ptr, cqHead>>
device == <<fetched, executing, cqRing, cqTail>>
sizes  == <<sqElements, cqElements>>
queues == <<sizes, dnvme, device>>

CIDs == 0 .. NumCIDs - 1
CE == [SQID : SQs, CID : CIDs, SQHD : Nat]

\* The phase bit tells an entry that was not written from every CE.
ASSUME NoCEAssumption == NoCE \notin CE

\* Queues that were just created: SQ sizes ns, CQ size n.
Created(ns, n) ==
  /\ sqElements = ns /\ cqElements = n
  /\ sqRing = [q \in SQs |-> [i \in 0 .. ns[q] - 1 |-> 0]]
  /\ cqRing = [i \in 0 .. n - 1 |-> NoCE]
  /\ cid = [q \in SQs |-> 0]
  /\ tail_ptr_virt = [q \in SQs |-> 0] /\ tail_ptr = [q \in SQs |-> 0]
  /\ head_ptr = [q \in SQs |-> 0] /\ fetched = [q \in SQs |-> 0]
  /\ executing = [q \in SQs |-> {}]
  /\ cqHead = 0 /\ cqTail = 0

\* Entries from a to b in a ring of n.
Distance(a, b, n) == (b - a) % n

-----------------------------------------------------------------------------
(***************************************************************************)
(* SQ and CQ                                                               *)
(***************************************************************************)
SQFull(q) == (tail_ptr_virt[q] + 1) % sqElements[q] = head_ptr[q]

\* SQ::Send(): the CID assigned becomes the command's.
Send(q) ==
  /\ ~SQFull(q)
  /\ sqRing' = [sqRing EXCEPT ![q][tail_ptr_virt[q]] = cid[q]]
  /\ tail_ptr_virt' = [tail_ptr_virt EXCEPT ![q] = (@ + 1) % sqElements[q]]
  /\ cid' = [cid EXCEPT ![q] = (@ + 1) % NumCIDs]
  /\ UNCHANGED <<sizes, tail_ptr, head_ptr, cqHead, device>>

\* SQ::Ring().
Ring(q) ==
  /\ tail_ptr' = [tail_ptr EXCEPT ![q] = tail_ptr_virt[q]]
  /\ UNCHANGED <<sizes, sqRing, cid, tail_ptr_virt, head_ptr, cqHead, device>>

\* CQ::ReapInquiry(): the CE's dnvme finds by their phase bits.
ReapInquiry == Distance(cqHead, cqTail, cqElements)

\* CQ::PeekCE().
PeekCE(i) == cqRing[i]

\* What CQ::Reap() asks for: 0 and too large a number mean all that fit.
CEDesired(n) == IF n = 0 \/ n > cqElements - 1 THEN cqElements - 1 ELSE n

Least(a, b) == IF a < b THEN a ELSE b

NumReaped(n) == Least(CEDesired(n), ReapInquiry)

\* Variant: the head stays.
ReapStays(n) == UNCHANGED queues

\* CQ::Reap() of n CE's: the last CE of an SQ that is reaped moves the head
\* dnvme knows for it.
Reap(n) ==
  LET reaped == {(cqHead + i) % cqElements : i \in 0 .. NumReaped(n) - 1}
      ofSQ(q) == {i \in reaped : cqRing[i].SQID = q}
      last(q) == CHOOSE i \in ofSQ(q) : \A j \in ofSQ(q) :
                   Distance(cqHead, j, cqElements) <= Distance(cqHead, i, cqElements)
  IN  /\ cqHead' = (cqHead + NumReaped(n)) % cqElements
      /\ head_ptr' = [q \in SQs |-> IF ofSQ(q) = {} THEN head_ptr[q]
                                    ELSE cqRing[last(q)].SQHD]
      /\ UNCHANGED <<sizes, sqRing, cid, tail_ptr_virt, tail_ptr, device>>

-----------------------------------------------------------------------------
(***************************************************************************)
(* The device                                                              *)
(***************************************************************************)
Fetch(q) ==
  /\ fetched[q] # tail_ptr[q]
  /\ executing' = [executing EXCEPT ![q] = @ \cup {sqRing[q][fetched[q]]}]
  /\ fetched' = [fetched EXCEPT ![q] = (@ + 1) % sqElements[q]]
  /\ UNCHANGED <<sizes, dnvme, cqRing, cqTail>>

CQFull == (cqTail + 1) % cqElements = cqHead

Complete(q) ==
  /\ ~CQFull
  /\ \E c \in executing[q] :
       /\ executing' = [executing EXCEPT ![q] = @ \ {c}]
       /\ cqRing' = [cqRing EXCEPT ![cqTail] =
                       [SQID |-> q, CID |-> c, SQHD |-> fetched[q]]]
  /\ cqTail' = (cqTail + 1) % cqElements
  /\ UNCHANGED <<sizes, dnvme, fetched>>

Device == \E q \in SQs : Fetch(q) \/ Complete(q)

\* The device can do nothing more on its own.
Quiescent ==
  /\ \A q \in SQs : fetched[q] = tail_ptr[q]
  /\ CQFull \/ \A q \in SQs : executing[q] = {}

-----------------------------------------------------------------------------
(***************************************************************************)
(* Types, and the entries the pointers delimit                             *)
(***************************************************************************)
QueuesTypeOK ==
  /\ sqElements \in [SQs -> Nat \ {0, 1}] /\ cqElements \in Nat \ {0, 1}
  /\ \A q \in SQs :
       /\ sqRing[q] \in [0 .. sqElements[q] - 1 -> CIDs]
       /\ {tail_ptr_virt[q], tail_ptr[q], head_ptr[q], fetched[q]}
            \subseteq 0 .. sqElements[q] - 1
       /\ executing[q] \subseteq CIDs
  /\ cqRing \in [0 .. cqElements - 1 -> CE \cup {NoCE}]
  /\ {cqHead, cqTail} \subseteq 0 .. cqElements - 1
  /\ cid \in [SQs -> CIDs]

\* Commands the device has not read, and CE's dnvme has not reaped.
Unread(q) == {(fetched[q] + i) % sqElements[q] :
                i \in 0 .. Distance(fetched[q], tail_ptr_virt[q], sqElements[q]) - 1}

Waiting == {(cqHead + i) % cqElements : i \in 0 .. ReapInquiry - 1}
=============================================================================
