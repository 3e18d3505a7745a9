------------------------------ MODULE SendReap ------------------------------
(***************************************************************************)
(* IO::SendAndReapCmd() (Utils/io.cpp) step by step, while dnvme and the   *)
(* device go on: the inquiry that no CE waits, SQ::Send(), SQ::Ring(), the *)
(* loop of CQ::DoReapInquiry(), CQ::GetQMetrics(), CQ::Reap() and          *)
(* CQ::PeekCE() at the head_ptr read before reaping.                       *)
(*                                                                         *)
(* Between two calls a test may leave commands with the device, as the     *)
(* tests of GrpAdminAsyncCmd do with asynchronous event requests, and reap *)
(* their CE's with IO::ReapCE().                                           *)
(***************************************************************************)
EXTENDS NvmeQueues

CONSTANTS
  SQSize, CQSize,   \* entries of the queues
  MaxAsync          \* bound: commands a test leaves with the device

ASSUME SendReapAssumption ==
  /\ SQSize \in Nat \ {0, 1} /\ CQSize \in Nat \ {0, 1}
  /\ MaxAsync \in Nat
  /\ MaxAsync + 1 < NumCIDs

None == -1
Thrown == -2

VARIABLES
  pc,
  sq,        \* the SQ of the call
  call,      \* uniqueId of the call in progress, None if there is none
  before,    \* cqMetrics.head_ptr, read before reaping
  (*************************************************************************)
  (* History, read by no action.                                           *)
  (*************************************************************************)
  reaped,    \* the CE CQ::Reap() took
  ret,       \* CID of the CE the last call returned, Thrown, or None
  async      \* commands a test left with the device, not reaped so far

\* Commands as <<SQ, CID>>: of a CE, and of the call in progress.
Of(ce) == <<ce.SQID, ce.CID>>
Calling == IF call = None THEN {} ELSE {<<sq, call>>}

prog == <<pc, sq, call, before>>
hist == <<reaped, ret, async>>
vars == <<queues, prog, hist>>

Init ==
  /\ Created([q \in SQs |-> SQSize], CQSize)
  /\ pc = "idle" /\ sq \in SQs /\ call = None /\ before = 0
  /\ reaped = NoCE /\ ret = None /\ async = {}

\* FrmwkEx: the device is disabled completely and the test ends; the next one
\* creates its queues anew.
Throw ==
  /\ pc' = "thrown" /\ call' = None /\ ret' = Thrown
  /\ UNCHANGED <<queues, sq, before, reaped, async>>

-----------------------------------------------------------------------------
\* Bound: the numbering does not come round to a command still outstanding.
FreshCID(q) == <<q, cid[q]>> \notin async

\* A test sends a command and goes on.
SendAsync ==
  /\ pc = "idle" /\ Cardinality(async) < MaxAsync /\ FreshCID(sq)
  /\ Send(sq)
  /\ async' = async \cup {<<sq, cid[sq]>>}
  /\ pc' = "ringasync"
  /\ UNCHANGED <<sq, call, before, reaped, ret>>

RingAsync ==
  /\ pc = "ringasync"
  /\ Ring(sq)
  /\ pc' = "idle"
  /\ UNCHANGED <<sq, call, before, hist>>

\* A test reaps one CE that has arrived, by IO::ReapCE().
ReapAsync ==
  /\ pc = "idle" /\ ReapInquiry # 0
  /\ pc' = "metrics"
  /\ UNCHANGED <<queues, sq, call, before, hist>>

-----------------------------------------------------------------------------
(***************************************************************************)
(* SendCmd()                                                               *)
(***************************************************************************)
\* A call begins: no CE may wait in the CQ.
Inquire ==
  /\ pc = "idle"
  /\ \/ /\ ReapInquiry = 0
        /\ sq' \in {q \in SQs : FreshCID(q)} /\ pc' = "send"
        /\ UNCHANGED <<queues, call, before, hist>>
     \/ ReapInquiry # 0 /\ Throw

SendCmd ==
  /\ pc = "send"
  /\ \/ /\ Send(sq)
        /\ pc' = "ring" /\ call' = cid[sq]
        /\ UNCHANGED <<sq, before, hist>>
     \/ SQFull(sq) /\ Throw

RingCmd ==
  /\ pc = "ring"
  /\ Ring(sq)
  /\ pc' = "wait"
  /\ UNCHANGED <<sq, call, before, hist>>

(***************************************************************************)
(* WaitForReap()                                                           *)
(***************************************************************************)
\* A turn of DoReapInquiry() that finds CE's.
Arrived ==
  /\ pc = "wait" /\ ReapInquiry # 0
  /\ \/ /\ ReapInquiry = 1
        /\ pc' = "metrics"
        /\ UNCHANGED <<queues, sq, call, before, hist>>
     \/ ReapInquiry # 1 /\ Throw

\* Variants: a timeout goes unnoticed; it needs a CE.
TimesOutSilently ==
  /\ pc = "wait" /\ pc' = "idle" /\ call' = None
  /\ UNCHANGED <<queues, sq, before, hist>>

TimesOutArrived ==
  /\ pc = "wait" /\ ReapInquiry # 0
  /\ Throw

\* CalcTimeout() is asked before the CQ is: time may be up although a CE has
\* arrived since the last inquiry.
TimesOut ==
  /\ pc = "wait"
  /\ Throw

(***************************************************************************)
(* RetrieveCE()                                                            *)
(***************************************************************************)
\* Variant: the metrics of an earlier call are used.
GetQMetricsOnce ==
  /\ pc = "metrics" /\ pc' = "reap"
  /\ UNCHANGED <<queues, sq, call, before, hist>>

GetQMetrics ==
  /\ pc = "metrics"
  /\ before' = cqHead
  /\ pc' = "reap"
  /\ UNCHANGED <<queues, sq, call, hist>>

\* Variant: the metrics are read again after reaping.
ReapOneFirst ==
  /\ pc = "reap"
  /\ IF NumReaped(1) = 1
       THEN /\ Reap(1)
            /\ before' = cqHead' /\ reaped' = cqRing[cqHead]
            /\ pc' = "peek"
            /\ UNCHANGED <<sq, call, ret, async>>
       ELSE Throw

ReapOne ==
  /\ pc = "reap"
  /\ IF NumReaped(1) = 1
       THEN /\ Reap(1)
            /\ reaped' = cqRing[cqHead]
            /\ pc' = "peek"
            /\ UNCHANGED <<sq, call, before, ret, async>>
       ELSE Throw

\* The CE is looked at in the CQ, and the call returns it.
Peek ==
  /\ pc = "peek"
  /\ ret' = IF call = None THEN ret ELSE PeekCE(before).CID
  /\ pc' = "idle" /\ call' = None
  /\ reaped' = NoCE
  /\ async' = (async \cup Calling) \ {Of(reaped)}
  /\ UNCHANGED <<queues, sq, before>>

-----------------------------------------------------------------------------
DeviceStep == pc # "thrown" /\ Device /\ UNCHANGED <<prog, hist>>

Program ==
  \/ SendAsync \/ RingAsync \/ ReapAsync
  \/ Inquire \/ SendCmd \/ RingCmd \/ Arrived \/ TimesOut
  \/ GetQMetrics \/ ReapOne \/ Peek

Next == Program \/ DeviceStep

Spec == Init /\ [][Next]_vars

\* The process keeps running, in particular its clock; nothing is assumed of
\* the device.
FairSpec == Spec /\ WF_vars(SendCmd) /\ WF_vars(RingCmd) /\ WF_vars(TimesOut)
                 /\ WF_vars(GetQMetrics) /\ WF_vars(ReapOne) /\ WF_vars(Peek)

-----------------------------------------------------------------------------
(***************************************************************************)
(* Properties                                                              *)
(***************************************************************************)
TypeOK ==
  /\ QueuesTypeOK
  /\ pc \in {"idle", "ringasync", "send", "ring", "wait", "metrics", "reap",
             "peek", "thrown"}
  /\ sq \in SQs /\ call \in CIDs \cup {None} /\ before \in 0 .. cqElements - 1
  /\ reaped \in CE \cup {NoCE} /\ ret \in CIDs \cup {None, Thrown}
  /\ async \subseteq SQs \X CIDs

\* The entry looked at after reaping is still the one that was reaped,
\* although the device may reuse entries from then on: one entry of a CQ is
\* left empty and with a single CE reaped it is this one.
PeekIsReaped == pc = "peek" => PeekCE(before) = reaped

\* The CE a call returns belongs to the command it sent, as long as no other
\* command is with the device; CID's are never compared by the code.
OwnCompletion ==
  pc = "peek" /\ call # None /\ async = {} => Of(reaped) = <<sq, call>>

\* With other commands outstanding the CE may be theirs, but it is never the
\* CE of a command that was completed before, nor one reaped twice.
ReapedOutstanding ==
  pc = "peek" => Of(reaped) \in async \cup Calling

\* SQ::Send() refuses a call only if the test itself has as many commands with
\* the device as the SQ holds: no earlier call leaves an entry of the SQ behind
\* that stays in use (one that timed out is followed by no other), although
\* dnvme learns of free entries from the SQHD of reaped CE's alone, and these
\* come in any order.
RoomForCall ==
  pc = "send" /\ SQFull(sq) =>
    Cardinality({c \in async : c[1] = sq}) >= sqElements[sq] - 1

\* A call comes to an end, whatever the device does.
CallEnds == pc = "send" ~> pc \in {"idle", "thrown"}

-----------------------------------------------------------------------------
(***************************************************************************)
(* What a caller sees                                                      *)
(***************************************************************************)
Caller == INSTANCE CmdCall WITH
  phase <- CASE pc = "idle" -> "idle" [] pc = "thrown" -> "failed" [] OTHER -> "busy",
  cmd <- call,
  result <- ret

\* SendAndReapCmd() is a call: it returns the completion of its command or
\* throws, when no other command is with the device (MaxAsync = 0).
IsCall == Caller!Spec
=============================================================================
