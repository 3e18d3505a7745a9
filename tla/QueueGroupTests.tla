-------------------------- MODULE QueueGroupTests --------------------------
(***************************************************************************)
(* Group GrpQueues as a whole: the queues its tests make, use and delete.  *)
(* QueueTests has the steps of those that fill queues or roll them over.   *)
(***************************************************************************)
EXTENDS ComboTests

\* Send() c, Ring() and reap, k times from new queues on: each CE names the
\* SQ and the head it should, and the pointers of dnvme are right at the end.
Roll(q, c, k) == <<[op |-> "roll", q |-> q, c |-> c, k |-> k]>>

\* For each SQ of counts that many c, sent before any is reaped; each CE is
\* looked at, for its status and the SQ it names, or they are only counted.
IOBatch(counts, c) ==
  <<[op |-> "iobatch", counts |-> counts, c |-> c, looks |-> TRUE]>>
IOBatchCounted(counts, c) ==
  <<[op |-> "iobatch", counts |-> counts, c |-> c, looks |-> FALSE]>>

WriteOne(d) == Write(Get1stBareMetaE2E(d), 0, 1, "none")
IdentifyCtrlr == Identify(CNS_Controller, 0)

\* A pair of IO queues, contiguous or, if the device has them, not.
ContigPair(cq, cqN, sq, sqN) ==
  CreateIOCQContigToHdw(cq, cqN, "tst", FALSE, 0)
    \o CreateIOSQContigToHdw(sq, sqN, "tst", cq)
AnyPair(d, cq, cqN, sq, sqN) ==
  IF SupportDiscontigIOQ(d)
    THEN CreateIOCQDiscontigToHdw(cq, cqN, "tst", FALSE, 0, cqN)
           \o CreateIOSQDiscontigToHdw(sq, sqN, "tst", cq, sqN * (d.cqpp \div d.sqpp))
    ELSE ContigPair(cq, cqN, sq, sqN)
\* Variant: the CQ first, while the SQ still uses it.
DeleteQsCQFirst(sq, cq) == DeleteIOCQToHdw(cq) \o DeleteIOSQToHdw(sq)

DeleteQs(sq, cq) == DeleteIOSQToHdw(sq) \o DeleteIOCQToHdw(cq)

\* Tests on the queues of the group; those that write must have leave to.
OnGroupAdminQs(runnable, calls, finds) == Test(runnable, GetAdminQs \o calls, finds)
\* Variant: whether to preserve the device is not asked.
WritesBlockAlways(d, calls, finds) ==
  OnGroupAdminQs(TRUE, Check(d.ns[Get1stBareMetaE2E(d)] \notin E2E) \o calls, finds)

WritesBlock(d, calls, finds) ==
  OnGroupAdminQs(~d.preserve, Check(d.ns[Get1stBareMetaE2E(d)] \notin E2E) \o calls,
                 finds)

-----------------------------------------------------------------------------
\* The pointers of the admin queues start from 0 again after CC.EN = 0.
InitialStateAdmin_r10b(d) ==
  Test(TRUE,
       DisableCompletely \o AdminQs("tst", 5)
         \o ForEach(<<1, 2>>, LAMBDA i : Enable \o Roll(0, IdentifyCtrlr, 1) \o Disable),
       {"Reset.pointers"})

\* Sizes of the ASQ and the ACQ for each turn; MIN_ADMIN_Q_SIZE is 2.
RollAdminQs(sizes) ==
  DisableCompletely
    \o ForEach(sizes, LAMBDA s :
         DisableCompletely \o AdminQs2("tst", s[1], s[2]) \o Enable
           \o Roll(0, IdentifyCtrlr, Max({s[1], s[2]}) + 2))
AdminQRollChkSame_r10b(d) ==
  Test(TRUE, RollAdminQs(<<<<2, 2>>, <<MAX_ADMIN_Q_SIZE, MAX_ADMIN_Q_SIZE>>>>),
       {"CE.sqhd"})
AdminQRollChkDiff_r10b(d) ==
  Test(TRUE, RollAdminQs(<<<<MAX_ADMIN_Q_SIZE, 2>>, <<2, MAX_ADMIN_Q_SIZE>>>>),
       {"CE.sqhd"})

\* SQ = CQ and SQ = CQ + 1: minimum, middle and maximum.
FullCases(max) ==
  LET half == max \div 2
  IN  <<<<2, 2>>, <<half, half>>, <<max, max>>,
        <<3, 2>>, <<half, half - 1>>, <<max, max - 1>>>>

\* All but the last CE arrive without any being reaped.
FillQs(q, c, s) == IOFill(q, c, s[1] - 1, Min({s[1], s[2]}) - 1)

AdminQFull_r10b(d) ==
  Test(TRUE,
       ForEach(FullCases(MAX_ADMIN_Q_SIZE), LAMBDA s :
         DisableCompletely \o AdminQs2("tst", s[1], s[2]) \o Enable
           \o FillQs(0, IdentifyCtrlr, s)),
       {"Queue.full"})

IllegalCreateOrder_r10b(d) ==
  Test(TRUE,
       DisableCompletely \o AdminQs("tst", 5) \o Enable \o SetIOQES({"SQ"})
         \o InitIOSQ(IOQ_ID, 2, "tst")
         \o AdminWant(CreateIOSQ(IOQ_ID, 2, TRUE, IOQ_ID), {"CQ_INVALID"}),
       {"CreateIOSQ.cqid"})

Queues_CreateResources_r10b(d) == Test(TRUE, SetupAdminQs("grp", 5) \o BothIOQES, {})

RollIOQs(d, sizes) ==
  ForEach(sizes, LAMBDA s : ContigPair(IOQ_ID, s[2], IOQ_ID, s[1])
                              \o Roll(IOQ_ID, WriteOne(d), Max({s[1], s[2]}) + 2)
                              \o DeleteQs(IOQ_ID, IOQ_ID))
IOQRollChkSame_r10b(d) ==
  WritesBlock(d, RollIOQs(d, <<<<2, 2>>, <<d.mqes, d.mqes>>>>), {"CE.sqhd"})
IOQRollChkDiff_r10b(d) ==
  WritesBlock(d, RollIOQs(d, <<<<d.mqes, 2>>, <<2, d.mqes>>>>), {"CE.sqhd"})

\* One SQ more with each turn, all of them on one CQ.
ManySQtoCQAssoc_r10b(d) ==
  LET n == Min({5, d.mqes})
      ids == Ascending(1 .. GetFeaturesNumOfIOSQs(d))
  IN  WritesBlock(d,
        CreateIOCQContigToHdw(IOQ_ID, n, "tst", FALSE, 0)
          \o ForEach(ids, LAMBDA j :
               CreateIOSQContigToHdw(j, n, "tst", IOQ_ID)
                 \o IOBatch([i \in 1 .. j |-> 1], WriteOne(d)))
          \o ForEach(ids, DeleteIOSQToHdw) \o DeleteIOCQToHdw(IOQ_ID),
        {"CE.sqid"})

IOQFull_r10b(d) ==
  WritesBlock(d,
    ForEach(FullCases(d.mqes), LAMBDA s :
      AnyPair(d, IOQ_ID, s[2], IOQ_ID, s[1]) \o FillQs(IOQ_ID, WriteOne(d), s)
        \o DeleteQs(IOQ_ID, IOQ_ID)),
    {"Queue.full"})

\* (max - m) % x of uint32_t's, in numbers TLC has.
UMod(max, m, x) == (IF max < m THEN max - m + (65536 % x) * (65536 % x) ELSE max - m) % x

\* "Testing every cmd takes numerous hrs, so compromise."
NextIncrement(max, x, increment) ==
  IF UMod(max, 1000, x) = 0 THEN 100
  ELSE IF x % 1000 = 0 THEN 1000
  ELSE IF UMod(max, 100, x) = 0 THEN 10
  ELSE IF x % 100 = 0 THEN 100
  ELSE IF UMod(max, 10, x) = 0 THEN 1
  ELSE IF x % 10 = 0 THEN 10
  ELSE increment

\* Numbers of commands sent at once, from x on; as (max - 1000) % 1 is 0, the
\* second is 101.
RECURSIVE AtOnce(_, _, _)
AtOnce(max, x, increment) ==
  IF x >= max THEN <<>>
  ELSE LET i == NextIncrement(max, x, increment)
       IN  <<x>> \o AtOnce(max, x + i, i)

ManyCmdSubmit_r10b(d) ==
  WritesBlock(d,
    CreateIOCQContigToHdw(IOQ_ID, d.mqes, "tst", TRUE, 0)
      \o CreateIOSQContigToHdw(IOQ_ID, d.mqes, "tst", IOQ_ID)
      \o ForEach(AtOnce(d.mqes, 1, 1), LAMBDA x :
           IOBatchCounted([i \in {IOQ_ID} |-> x], WriteOne(d)))
      \o DeleteQs(IOQ_ID, IOQ_ID),
    {"Ring.many"})

\* The admin queues cannot be deleted.
IllegalDeleteQs_r10b(d) ==
  OnGroupAdminQs(TRUE, AdminWant(DeleteIOSQ(0), {"INVALID_QID"})
                         \o AdminWant(DeleteIOCQ(0), {"INVALID_QID"}),
                 {"DeleteIOSQ.qid", "DeleteIOCQ.qid"})

\* All pairs at once, a pattern of its own through each.
MaxIOQ_r10b(d) ==
  LET ids == Ascending(1 .. GetFeaturesNumOfIOSQs(d))
  IN  OnGroupAdminQs(~d.preserve,
        Check(GetFeaturesNumOfIOSQs(d) <= GetFeaturesNumOfIOCQs(d))
          \o Check(d.ns[Get1stBareMetaE2E(d)] \notin E2E)
          \o ForEach(ids, LAMBDA i : ContigPair(i, 2, i, 2))
          \o ForEach(ids, LAMBDA i : WriteReadOn(d, i) \o Verify(ToString(i)))
          \o ForEach(ids, LAMBDA i : DeleteQs(i, i)),
        {"Read.data"})

\* The k-th pair: the SQ's get larger and the CQ's smaller, as long as an SQ
\* may have one entry more.
MaxIOQSupport(d) == Min({GetFeaturesNumOfIOSQs(d), GetFeaturesNumOfIOCQs(d)})
Steps(d, k) == Min({k - 1, d.mqes - 2})
SQSize(d, k) == 2 + Steps(d, k)
CQSize(d, k) == Min({MaxIOQSupport(d) + 2, d.mqes}) - Steps(d, k)

\* Every SQ is filled, then every CQ is reaped; SQOf(k) is the SQ of CQ k.
MismatchedPairs(d, Pair(_), SQOf(_)) ==
  LET ids == Ascending(1 .. MaxIOQSupport(d))
      size(q) == SQSize(d, CHOOSE k \in Range(ids) : SQOf(k) = q)
  IN  ForEach(ids, Pair)
        \o IOBatch([q \in Range(ids) |-> size(q) - 1], WriteOne(d))
        \o ForEach(ids, LAMBDA k : DeleteQs(SQOf(k), k))

SQCQSizeMismatch_r10b(d) ==
  LET same(k) == k
  IN  WritesBlock(d,
        MismatchedPairs(d, LAMBDA k : ContigPair(k, CQSize(d, k), k, SQSize(d, k)), same),
        {"CE.sqid"})

\* The SQ's have their ID's in the opposite order.
QIDVariations_r10b(d) ==
  LET sq(k) == MaxIOQSupport(d) - k + 1
  IN  WritesBlock(d,
        MismatchedPairs(d, LAMBDA k : AnyPair(d, k, CQSize(d, k), sq(k), SQSize(d, k)),
                        sq),
        {"CE.sqid", "CE.cqid"})

\* SendToxicCmd(): the ID's are changed once the command is in the ASQ; dnvme
\* goes by what they were.
IllegalCreateQs_r10b(d) ==
  LET refused(c) == AdminWant(With(c, "was", IOQ_ID), {"INVALID_QID"})
  IN  OnGroupAdminQs(TRUE,
        InitIOCQ(IOQ_ID, 2, "tst") \o refused(CreateIOCQ(0, 2, TRUE, TRUE, 0))
          \o InitIOSQ(IOQ_ID, 2, "tst") \o refused(CreateIOSQ(0, 2, TRUE, IOQ_ID))
          \o InitIOSQ(IOQ_ID, 2, "tst") \o refused(CreateIOSQ(IOQ_ID, 2, TRUE, 0)),
        {"CreateIOCQ.qid", "CreateIOSQ.qid", "CreateIOSQ.admin"})

GrpQueues(d) ==
  <<X(InitialStateAdmin_r10b(d)),
    X(AdminQRollChkSame_r10b(d)),
    X(AdminQRollChkDiff_r10b(d)),
    X(AdminQFull_r10b(d)),
    X(IllegalCreateOrder_r10b(d)),
    X(Queues_CreateResources_r10b(d)),
    Y(IOQRollChkSame_r10b(d)),
    Y(IOQRollChkDiff_r10b(d)),
    Y(ManySQtoCQAssoc_r10b(d)),
    Y(IOQFull_r10b(d)),
    Y(ManyCmdSubmit_r10b(d)),
    Y(IllegalDeleteQs_r10b(d)),
    Y(MaxIOQ_r10b(d)),
    Y(SQCQSizeMismatch_r10b(d)),
    Y(QIDVariations_r10b(d)),
    Y(IllegalCreateQs_r10b(d))>>
=============================================================================
