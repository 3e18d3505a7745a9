----------------------------- MODULE QueueTests -----------------------------
(***************************************************************************)
(* Tests of GrpQueues as programs against a device that conforms: a        *)
(* compliance test is correct only if such a device passes it.             *)
(*                                                                         *)
(* The device is also prompt: a wait times out only when the device can do *)
(* nothing more.  SendReap covers the steps within the reaping of one CE,  *)
(* which are a single step here.  Creating and deleting queues are not     *)
(* steps of these programs: each case starts with its queues created.      *)
(***************************************************************************)
EXTENDS NvmeQueues

CONSTANTS
  MaxEntries,   \* MAX_ADMIN_Q_SIZE, or CAP.MQES + 1
  NumIOQs,      \* number of IO queues the device supports
  Tests         \* the tests considered

IOQ_ID == 1

ASSUME QueueTestsAssumption ==
  /\ MaxEntries \in Nat /\ MaxEntries >= 6
  /\ NumIOQs \in Nat \ {0}
  /\ SQs = 1 .. NumIOQs
  /\ MaxEntries <= NumCIDs      \* CAP.MQES + 1 and the number of CIDs: 2^16
  /\ Tests \subseteq {"Full", "RollDiff", "RollSame", "ManyCmdSubmit",
                      "SizeMismatch", "ManySQtoCQ"}

VARIABLES
  test,       \* the test that runs
  pc,
  n,          \* counter of the outer loop: nCmds, nsubmitTimes, x, j
  k,          \* counter of the inner loop
  increment,  \* of ManyCmdSubmit
  SQIDToSQHD, \* mSQIDToSQHDVector
  left,       \* entries of mSQIDToSQHDVector not struck off
  verdict,    \* "running", "pass", or "fail" once a FrmwkEx was thrown
  (*************************************************************************)
  (* History, read by no action.                                           *)
  (*************************************************************************)
  full,       \* queues that have been full
  rolled      \* pointers that have rolled over

prog == <<test, pc, n, k, increment, SQIDToSQHD, left, verdict>>
vars == <<queues, prog, full, rolled>>

Larger(a, b) == IF a > b THEN a ELSE b

-----------------------------------------------------------------------------
(***************************************************************************)
(* The sizes of SQ and CQ each test runs with                              *)
(***************************************************************************)
Half == MaxEntries \div 2

\* SQ = CQ and SQ = CQ + 1: minimum, middle and maximum.
FullSizes == {<<2, 2>>, <<Half, Half>>, <<MaxEntries, MaxEntries>>,
              <<3, 2>>, <<Half, Half - 1>>, <<MaxEntries, MaxEntries - 1>>}

RollDiffSizes == {<<MaxEntries, 2>>, <<2, MaxEntries>>}

RollSameSizes == {<<2, 2>>, <<MaxEntries, MaxEntries>>}

ManyCmdSizes == {<<MaxEntries, MaxEntries>>}

\* The loop that creates all pairs: SQ's grow from 2 as CQ's shrink.
MismatchSizes ==
  LET largest == Least(NumIOQs + 2, MaxEntries)
      turns(i) == Least(i - 1, MaxEntries - 2)
  IN  {<<2 + turns(i), largest - turns(i)>> : i \in 1 .. NumIOQs}

\* NumEntriesIOQ, for all SQ's and for the CQ they share.
ManySQSizes == {<<2, 2>>, <<Half, Half>>}

SizesOf(t) ==
  CASE t = "Full" -> FullSizes
    [] t = "RollDiff" -> RollDiffSizes
    [] t = "RollSame" -> RollSameSizes
    [] t = "ManyCmdSubmit" -> ManyCmdSizes
    [] t = "SizeMismatch" -> MismatchSizes
    [] t = "ManySQtoCQ" -> ManySQSizes

Init ==
  /\ test \in Tests
  /\ \E s \in SizesOf(test) : Created([q \in SQs |-> s[1]], s[2])
  /\ pc = "send"
  /\ n = IF test \in {"ManyCmdSubmit", "ManySQtoCQ"} THEN 1 ELSE 0
  /\ k = 0 /\ increment = 1
  /\ SQIDToSQHD = [q \in SQs |-> 0] /\ left = {}
  /\ verdict = "running"
  /\ full = {} /\ rolled = {}

-----------------------------------------------------------------------------
(***************************************************************************)
(* Steps the tests share                                                   *)
(***************************************************************************)
sqN == sqElements[IOQ_ID]
cqN == cqElements

At(t, where) == test \in t /\ pc = where /\ verdict = "running"

Ends(v) ==
  /\ verdict' = v
  /\ UNCHANGED <<queues, test, pc, n, k, increment, SQIDToSQHD, left>>

Goto(where) ==
  /\ pc' = where
  /\ UNCHANGED <<test, verdict>>

Idle == UNCHANGED <<increment, SQIDToSQHD, left>>

\* SQ::Send() throws if dnvme takes the SQ to be full.
SendOrFail(q, then) ==
  IF SQFull(q) THEN Ends("fail") ELSE Send(q) /\ then

\* DoReapInquiry() for til CE's is over: they are there, or time is up.
TimedOut(til) == ReapInquiry < til /\ Quiescent
Waited(til) == ReapInquiry >= til \/ TimedOut(til)

\* A CE is reaped and looked at, and must have the values expected.
ReapChecked(SQID, SQHD, then) ==
  LET ce == PeekCE(cqHead)
  IN  IF NumReaped(1) = 1 /\ ce.SQID = SQID /\ ce.SQHD = SQHD
        THEN Reap(1) /\ then
        ELSE Ends("fail")

-----------------------------------------------------------------------------
(***************************************************************************)
(* AdminQFull, IOQFull                                                     *)
(***************************************************************************)
\* Variant: one command short of full.
FullSendShort ==
  /\ At({"Full"}, "send")
  /\ IF n < sqN - 2
       THEN SendOrFail(IOQ_ID, Goto("ring") /\ UNCHANGED <<n, k>> /\ Idle)
       ELSE Ends("pass")

FullSend ==
  /\ At({"Full"}, "send")
  /\ IF n < sqN - 1
       THEN SendOrFail(IOQ_ID, Goto("ring") /\ UNCHANGED <<n, k>> /\ Idle)
       ELSE Ends("pass")

FullRing ==
  /\ At({"Full"}, "ring")
  /\ Ring(IOQ_ID)
  /\ Goto("wait") /\ UNCHANGED <<n, k>> /\ Idle

\* All CE's so far stay in the CQ.
FullArrives ==
  /\ At({"Full"}, "wait") /\ ReapInquiry >= n + 1
  /\ IF ReapInquiry = n + 1
       THEN n' = n + 1 /\ Goto("send") /\ UNCHANGED <<queues, k>> /\ Idle
       ELSE Ends("fail")

\* Variant: the last command is taken to be the one after it.
FullTimesOutLate ==
  /\ At({"Full"}, "wait") /\ TimedOut(n + 1)
  /\ IF sqN = cqN + 1 /\ n = sqN - 1 /\ NumReaped(1) = 1
       THEN Reap(1) /\ Goto("last") /\ UNCHANGED <<n, k>> /\ Idle
       ELSE Ends("fail")

\* "When asq size = acq size + 1, last CE will never arrive": one CE is reaped
\* to make room.
FullTimesOut ==
  /\ At({"Full"}, "wait") /\ TimedOut(n + 1)
  /\ IF sqN = cqN + 1 /\ n = sqN - 2 /\ NumReaped(1) = 1
       THEN Reap(1) /\ Goto("last") /\ UNCHANGED <<n, k>> /\ Idle
       ELSE Ends("fail")

FullLast ==
  /\ At({"Full"}, "last") /\ Waited(n)
  /\ Ends(IF ReapInquiry >= n THEN "pass" ELSE "fail")

-----------------------------------------------------------------------------
(***************************************************************************)
(* AdminQRollChkDiff, IOQRollChkDiff, AdminQRollChkSame, IOQRollChkSame    *)
(***************************************************************************)
Rolls == {"RollDiff", "RollSame"}
\* Variant: the size of the queues is left out.
SubmissionsTwo == 2

Submissions == Larger(sqN, cqN) + 2

RollSend ==
  /\ At(Rolls, "send") /\ n < Submissions
  /\ IF ReapInquiry = 0
       THEN SendOrFail(IOQ_ID, Goto("ring") /\ UNCHANGED <<n, k>> /\ Idle)
       ELSE Ends("fail")

RollRing ==
  /\ At(Rolls, "ring")
  /\ Ring(IOQ_ID)
  /\ Goto("wait") /\ UNCHANGED <<n, k>> /\ Idle

\* Each CE: exactly one has arrived, of this SQ, with the next SQHD.
RollReap ==
  /\ At(Rolls, "wait") /\ Waited(1)
  /\ IF ReapInquiry = 1
       THEN ReapChecked(IOQ_ID, (n + 1) % sqN,
              n' = n + 1 /\ Goto("send") /\ UNCHANGED k /\ Idle)
       ELSE Ends("fail")

\* The CE before the head: the one reaped last.
LastReaped == PeekCE(IF cqHead = 0 THEN cqN - 1 ELSE cqHead - 1)

\* VerifyQPointers(), on the metrics and the CE it reads.  Those of the IO
\* queues do without the SQHD, and the Same test compares each pointer alone:
\* what is modelled is the stricter ones, of the admin queues.
DiffPointers ==
  /\ cqHead = (2 + Larger(cqN, sqN)) % cqN
  /\ {tail_ptr[IOQ_ID], LastReaped.SQHD} = {(2 + Larger(cqN, sqN)) % sqN}

SamePointers ==
  LET expectedVal == IF cqHead = 0 THEN 0 ELSE 2
  IN  {tail_ptr[IOQ_ID], cqHead, LastReaped.SQHD} = {expectedVal}

RollVerify ==
  /\ At(Rolls, "send") /\ n >= Submissions
  /\ LET ok == IF test = "RollDiff" THEN DiffPointers ELSE SamePointers
     IN  Ends(IF ok THEN "pass" ELSE "fail")

-----------------------------------------------------------------------------
(***************************************************************************)
(* ManyCmdSubmit                                                           *)
(***************************************************************************)

\* a % x of a uint32_t a, where a may have become negative.
UMod(a, x) == (IF a < 0 THEN a + (65536 % x) * (65536 % x) ELSE a) % x

\* "Testing every cmd takes numerous hrs, so compromise."
Increment(x) ==
  IF UMod(MaxEntries - 1000, x) = 0 THEN 100
  ELSE IF x % 1000 = 0 THEN 1000
  ELSE IF UMod(MaxEntries - 100, x) = 0 THEN 10
  ELSE IF x % 100 = 0 THEN 100
  ELSE IF UMod(MaxEntries - 10, x) = 0 THEN 1
  ELSE IF x % 10 = 0 THEN 10
  ELSE increment

\* n commands are sent, then rung together.
ManySend ==
  /\ At({"ManyCmdSubmit"}, "send")
  /\ IF n >= MaxEntries THEN Ends("pass")
     ELSE IF k < n
       THEN SendOrFail(IOQ_ID, k' = k + 1 /\ Goto("send") /\ UNCHANGED n /\ Idle)
       ELSE Ring(IOQ_ID) /\ Goto("wait") /\ UNCHANGED <<n, k>> /\ Idle

ManyReap ==
  /\ At({"ManyCmdSubmit"}, "wait") /\ Waited(n)
  /\ IF ReapInquiry = n /\ NumReaped(n) = n
       THEN /\ Reap(n)
            /\ increment' = Increment(n) /\ n' = n + Increment(n)
            /\ k' = 0 /\ Goto("send") /\ UNCHANGED <<SQIDToSQHD, left>>
       ELSE Ends("fail")

-----------------------------------------------------------------------------
(***************************************************************************)
(* SQCQSizeMismatch                                                        *)
(***************************************************************************)

\* The SQ is filled, then rung.
MismatchSend ==
  /\ At({"SizeMismatch"}, "send")
  /\ IF k < sqN - 1
       THEN SendOrFail(IOQ_ID, k' = k + 1 /\ Goto("send") /\ UNCHANGED n /\ Idle)
       ELSE Ring(IOQ_ID) /\ Goto("wait") /\ UNCHANGED <<n, k>> /\ Idle

\* ReapVerifyOnCQ(): as many CE's as commands, one at a time; what is checked
\* of a CE is its SQID.
MismatchReap ==
  /\ At({"SizeMismatch"}, "wait") /\ (n >= sqN - 1 \/ Waited(1))
  /\ IF n >= sqN - 1 THEN Ends("pass")
     ELSE IF ReapInquiry = 0 THEN Ends("fail")
     ELSE ReapChecked(IOQ_ID, PeekCE(cqHead).SQHD,
            n' = n + 1 /\ Goto("wait") /\ UNCHANGED k /\ Idle)

-----------------------------------------------------------------------------
(***************************************************************************)
(* ManySQtoCQAssoc                                                         *)
(***************************************************************************)

\* Each of the n SQ's created so far gets one command, rung at once.
AssocSend ==
  /\ At({"ManySQtoCQ"}, "send")
  /\ IF n > NumIOQs THEN Ends("pass")
     ELSE IF k < n
       THEN SendOrFail(k + 1, Goto("ring") /\ UNCHANGED <<n, k>> /\ Idle)
       ELSE /\ left' = 1 .. n /\ Goto("wait")
            /\ UNCHANGED <<queues, n, k, increment, SQIDToSQHD>>

AssocRing ==
  /\ At({"ManySQtoCQ"}, "ring")
  /\ Ring(k + 1)
  /\ SQIDToSQHD' = [SQIDToSQHD EXCEPT ![k + 1] = (@ + 1) % sqElements[k + 1]]
  /\ k' = k + 1
  /\ Goto("send") /\ UNCHANGED <<n, increment, left>>

\* ReapIOCQAndVerifyCE(): n CE's in any order, one of each SQ.
AssocReap ==
  /\ At({"ManySQtoCQ"}, "wait") /\ k > 0 /\ Waited(1)
  /\ IF ReapInquiry = 0 \/ PeekCE(cqHead).SQID \notin left
       THEN Ends("fail")
       ELSE LET q == PeekCE(cqHead).SQID
            IN  ReapChecked(q, SQIDToSQHD[q],
                  /\ left' = left \ {q} /\ k' = k - 1
                  /\ Goto("wait") /\ UNCHANGED <<n, increment, SQIDToSQHD>>)

\* Variant: no further SQ is created.
AssocNextStays ==
  /\ At({"ManySQtoCQ"}, "wait") /\ k = 0
  /\ IF left # {}
       THEN Ends("fail")
       ELSE Goto("send") /\ UNCHANGED <<queues, n, k, increment, SQIDToSQHD, left>>

\* "Validate all SQIDs submitted have arrived", then one more SQ is created.
AssocNext ==
  /\ At({"ManySQtoCQ"}, "wait") /\ k = 0
  /\ IF left # {}
       THEN Ends("fail")
       ELSE /\ n' = n + 1 /\ Goto("send")
            /\ UNCHANGED <<queues, k, increment, SQIDToSQHD, left>>

-----------------------------------------------------------------------------
DeviceStep == verdict = "running" /\ Device /\ UNCHANGED prog

\* What the step has filled and which pointers it moved over the end.
Observe ==
  /\ full' = full \cup {p \in {"SQ", "CQ"} :
                IF p = "SQ" THEN SQFull(IOQ_ID)' ELSE CQFull'}
  /\ rolled' = rolled \cup {p \in {"tail", "head", "cq"} :
                  \/ p = "tail" /\ tail_ptr'[IOQ_ID] < tail_ptr[IOQ_ID]
                  \/ p = "head" /\ head_ptr'[IOQ_ID] < head_ptr[IOQ_ID]
                  \/ p = "cq" /\ cqHead' < cqHead}

Program ==
  \/ FullSend /\ Observe
  \/ FullRing /\ Observe
  \/ FullArrives /\ Observe
  \/ FullTimesOut /\ Observe
  \/ FullLast /\ Observe
  \/ RollSend /\ Observe
  \/ RollRing /\ Observe
  \/ RollReap /\ Observe
  \/ RollVerify /\ Observe
  \/ ManySend /\ Observe
  \/ ManyReap /\ Observe
  \/ MismatchSend /\ Observe
  \/ MismatchReap /\ Observe
  \/ AssocSend /\ Observe
  \/ AssocRing /\ Observe
  \/ AssocReap /\ Observe
  \/ AssocNext /\ Observe

Next ==
  \/ Program
  \/ DeviceStep /\ Observe

Spec == Init /\ [][Next]_vars

\* The process and the device both go on.
FairSpec == Spec /\ WF_vars(Program) /\ WF_vars(DeviceStep /\ Observe)

-----------------------------------------------------------------------------
(***************************************************************************)
(* Properties                                                              *)
(***************************************************************************)
TypeOK ==
  /\ QueuesTypeOK
  /\ test \in Tests
  /\ pc \in {"send", "ring", "wait", "last"}
  /\ n \in Nat /\ k \in Nat /\ increment \in {1, 10, 100, 1000}
  /\ SQIDToSQHD \in [SQs -> Nat] /\ left \subseteq SQs
  /\ verdict \in {"running", "pass", "fail"}

\* No test fails a device that conforms and is prompt.
NoFalseFailure == verdict # "fail"

\* "Submit (ASQ.size-1) cmds into ASQ always fills both queues": a device that
\* passes has had both full.
FullFillsBoth == test = "Full" /\ verdict = "pass" => full = {"SQ", "CQ"}

\* "To fill and rollover the Q's": a device that passes has had every pointer
\* roll over.
RollsOver ==
  test \in Rolls /\ verdict = "pass" => rolled = {"tail", "head", "cq"}

\* Every test comes to a verdict.
TestEnds == <>(verdict # "running")
=============================================================================
