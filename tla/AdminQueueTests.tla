-------------------------- MODULE AdminQueueTests --------------------------
(***************************************************************************)
(* Groups GrpAdminCreateIOCQCmd, GrpAdminCreateIOSQCmd,                    *)
(* GrpAdminCreateIOQCmd, GrpAdminDeleteIOCQCmd and GrpAdminDeleteIOSQCmd:  *)
(* tests of the admin commands that create and delete IO queues.           *)
(*                                                                         *)
(* Test names have the class name after that of their group.               *)
(***************************************************************************)
EXTENDS TestOps, FiniteSetsExt

\* Numbers from, 2 from, 4 from, ... below limit, with their neighbours.
Around(from, limit) ==
  UNION {{q - 1, q, q + 1} :
           q \in {p \in from .. limit - 1 : \E k \in 0 .. 16 : p = from * 2 ^ k}}

\* GetIllegalQIDs(): from m to the largest 16-bit ID.
GetIllegalQIDs(m) ==
  Ascending(Around(m + 1, MAX_IOQ_ID)
              \cup (IF m < MAX_IOQ_ID THEN {MAX_IOQ_ID - 1, MAX_IOQ_ID} ELSE {}))

\* GetIllegalQSizes(): the sizes above m.
GetIllegalQSizes(m) ==
  Ascending(Around(m + 2, MAX_Q_ENTRIES)
              \cup (IF m < MAX_Q_ENTRIES THEN {MAX_Q_ENTRIES} ELSE {}))

\* The test that makes the admin queues of the tests below it; each of these
\* groups has its own copy of the class.
CreateResources(n) == Test(TRUE, SetupAdminQs("grp", n), {})

-----------------------------------------------------------------------------
(***************************************************************************)
(* GrpAdminCreateIOCQCmd                                                   *)
(***************************************************************************)
CreateIOCQ_CreateResources_r10b(d) == CreateResources(5)

\* The queues stay in the device when the test is over.
CreateIOCQ_UnsupportRsvdFields(d) ==
  GetAdminQs \o BothIOQES
    \o InitIOCQ(IOQ_ID, 2, "tst")
    \o Admin(Rsvd(CreateIOCQ(IOQ_ID, 2, TRUE, TRUE, 0)))
    \o CreateIOSQContigToHdw(IOQ_ID, 2, "tst", IOQ_ID)
    \o WriteReadVerify(d)

CreateIOCQ_UnsupportRsvdFields_r10b(d) ==
  Test(~d.preserve /\ d.rsvdfields, CreateIOCQ_UnsupportRsvdFields(d),
       {"CreateIOCQ.rsvd"})
CreateIOCQ_UnsupportRsvdFields_r11b(d) ==
  Test(~d.preserve /\ d.rsvdfields, CreateIOCQ_UnsupportRsvdFields(d),
       {"CreateIOCQ.rsvd"})
\* No longer optional, and no longer asks whether to preserve the DUT.
CreateIOCQ_UnsupportRsvdFields_r12(d) ==
  Test(TRUE, CreateIOCQ_UnsupportRsvdFields(d), {"CreateIOCQ.rsvd"})

CreateIOCQ_InvalidQID_r10b(d) ==
  LET create(id) ==
        InitIOCQ(id, 2, "tst")
          \o AdminWant(CreateIOCQ(id, 2, TRUE, TRUE, 0), {"INVALID_QID"})
  IN  Test(TRUE,
           SetupAdminQs("tst", 5) \o SetIOQES({"CQ"})
             \o ForEach(GetIllegalQIDs(GetFeaturesNumOfIOCQs(d) + 1), create),
           IF d.cqs + 1 < MAX_IOQ_ID THEN {"CreateIOCQ.qid"} ELSE {})

CreateIOCQ_MaxQSizeExceed_r10b(d) ==
  LET create(n) ==
        InitIOCQ(IOQ_ID, n, "tst")
          \o AdminWant(CreateIOCQ(IOQ_ID, n, TRUE, TRUE, 0),
                       {"MAX_Q_SIZE_EXCEED"})
  IN  Test(TRUE,
           SetupAdminQs("tst", 5) \o SetIOQES({"CQ"})
             \o ForEach(GetIllegalQSizes(d.mqes), create),
           IF d.mqes < MAX_Q_ENTRIES THEN {"CreateIOCQ.qsize"} ELSE {})

GrpAdminCreateIOCQCmd(d) ==
  <<X(CreateIOCQ_CreateResources_r10b(d)),
    Y(CASE d.rev = "10b" -> CreateIOCQ_UnsupportRsvdFields_r10b(d)
        [] d.rev = "11" -> CreateIOCQ_UnsupportRsvdFields_r11b(d)
        [] d.rev = "12" -> CreateIOCQ_UnsupportRsvdFields_r12(d)),
    X(CreateIOCQ_InvalidQID_r10b(d)),
    X(CreateIOCQ_MaxQSizeExceed_r10b(d))>>

-----------------------------------------------------------------------------
(***************************************************************************)
(* GrpAdminCreateIOSQCmd                                                   *)
(***************************************************************************)
CreateIOSQ_CreateResources_r10b(d) == CreateResources(5)

CreateIOSQ_UnsupportRsvdFields(d) ==
  GetAdminQs \o BothIOQES
    \o CreateIOCQContigToHdw(IOQ_ID, 2, "tst", TRUE, 0)
    \o InitIOSQ(IOQ_ID, 2, "tst")
    \o Admin(Rsvd(CreateIOSQ(IOQ_ID, 2, TRUE, IOQ_ID)))
    \o WriteReadVerify(d)
    \o DeleteIOSQToHdw(IOQ_ID) \o DeleteIOCQToHdw(IOQ_ID)

CreateIOSQ_UnsupportRsvdFields_r10b(d) ==
  Test(~d.preserve /\ d.rsvdfields, CreateIOSQ_UnsupportRsvdFields(d),
       {"CreateIOSQ.rsvd"})
CreateIOSQ_UnsupportRsvdFields_r11b(d) ==
  Test(~d.preserve /\ d.rsvdfields, CreateIOSQ_UnsupportRsvdFields(d),
       {"CreateIOSQ.rsvd"})
CreateIOSQ_UnsupportRsvdFields_r12(d) ==
  Test(TRUE, CreateIOSQ_UnsupportRsvdFields(d), {"CreateIOSQ.rsvd"})

\* The largest size allowed is accepted.
CreateIOSQ_MaxQSizeExceed_r10b(d) ==
  LET create(n) ==
        InitIOSQ(IOQ_ID, n, "tst")
          \o AdminWant(CreateIOSQ(IOQ_ID, n, TRUE, IOQ_ID),
                       {"MAX_Q_SIZE_EXCEED"})
  IN  Test(TRUE,
           GetAdminQs \o BothIOQES
             \o CreateIOCQContigToHdw(IOQ_ID, 2, "tst", FALSE, 0)
             \o ForEach(GetIllegalQSizes(d.mqes), create)
             \o CreateIOSQContigToHdw(IOQ_ID, d.mqes, "tst", IOQ_ID)
             \o DeleteIOSQToHdw(IOQ_ID) \o DeleteIOCQToHdw(IOQ_ID),
           IF d.mqes < MAX_Q_ENTRIES THEN {"CreateIOSQ.qsize"} ELSE {})

\* No CQ but IOQ_ID exists.
CreateIOSQ_CompletionQInvalid_r10b(d) ==
  LET create(i) ==
        InitIOSQ(IOQ_ID, 2, "tst")
          \o AdminWant(CreateIOSQ(IOQ_ID, 2, TRUE, i), {"CQ_INVALID"})
  IN  Test(TRUE,
           GetAdminQs \o BothIOQES
             \o CreateIOCQContigToHdw(IOQ_ID, 2, "tst", FALSE, 0)
             \o ForEach(Ascending(2 .. MAX_IOQ_ID), create)
             \o DeleteIOCQToHdw(IOQ_ID),
           {"CreateIOSQ.cqid"})

CreateIOSQ_InvalidQID_r10b(d) ==
  LET create(id) ==
        InitIOSQ(id, 2, "tst")
          \o AdminWant(CreateIOSQ(id, 2, TRUE, IOQ_ID), {"INVALID_QID"})
  IN  Test(TRUE,
           SetupAdminQs("tst", 5) \o BothIOQES
             \o CreateIOCQContigToHdw(IOQ_ID, 2, "tst", TRUE, 0)
             \o ForEach(GetIllegalQIDs(GetFeaturesNumOfIOSQs(d) + 1), create),
           IF d.sqs + 1 < MAX_IOQ_ID THEN {"CreateIOSQ.qid"} ELSE {})

\* All four priorities, whatever the arbitration mechanism.
CreateIOSQ_AcceptQPriority_r10b(d) ==
  LET create(prio) ==
        InitIOSQ(IOQ_ID, 2, "tst")
          \o Admin(With(CreateIOSQ(IOQ_ID, 2, TRUE, IOQ_ID), "prio", prio))
          \o DeleteIOSQToHdw(IOQ_ID)
  IN  Test(TRUE,
           SetupAdminQs("tst", 5) \o BothIOQES
             \o CreateIOCQContigToHdw(IOQ_ID, 2, "tst", TRUE, 0)
             \o ForEach(<<0, 1, 2, 3>>, create),
           {"CreateIOSQ.prio"})

GrpAdminCreateIOSQCmd(d) ==
  <<X(CreateIOSQ_CreateResources_r10b(d)),
    Y(CASE d.rev = "10b" -> CreateIOSQ_UnsupportRsvdFields_r10b(d)
        [] d.rev = "11" -> CreateIOSQ_UnsupportRsvdFields_r11b(d)
        [] d.rev = "12" -> CreateIOSQ_UnsupportRsvdFields_r12(d)),
    Y(CreateIOSQ_MaxQSizeExceed_r10b(d)),
    Y(CreateIOSQ_CompletionQInvalid_r10b(d)),
    X(CreateIOSQ_InvalidQID_r10b(d)),
    X(CreateIOSQ_AcceptQPriority_r10b(d))>>

-----------------------------------------------------------------------------
(***************************************************************************)
(* GrpAdminCreateIOQCmd: queues of a page of memory, more or less.         *)
(***************************************************************************)
\* One command more than the SQ has entries, each followed by its read.
WriteAndVerifyAll(d, entries) ==
  LET nsid == Get1stBareMetaE2E(d)
      turn(x) == IO(IOQ_ID, Write(nsid, 0, 1, ToString(x)))
                   \o IO(IOQ_ID, Read(nsid, 0, 1))
                   \o Verify(ToString(x))
  IN  Check(d.ns[nsid] \notin E2E) \o ForEach(Ascending(1 .. entries + 1), turn)

\* The queues last as long as the group does, or until the next disable.
PRPContig(d, entriesCQ, entriesSQ) ==
  Test(~d.preserve,
       IF d.mqes < entriesCQ THEN <<>>
       ELSE SetupAdminQs("tst", 5) \o BothIOQES
              \o CreateIOCQContigToHdw(IOQ_ID, entriesCQ, "grp", TRUE, 0)
              \o CreateIOSQContigToHdw(IOQ_ID, entriesSQ, "grp", IOQ_ID)
              \o WriteAndVerifyAll(d, entriesSQ),
       {})

PRPDiscontig(d, entriesCQ, entriesSQ) ==
  Test(~d.preserve,
       IF ~SupportDiscontigIOQ(d) \/ d.mqes < entriesCQ THEN <<>>
       ELSE SetupAdminQs("tst", 5) \o BothIOQES
              \o CreateIOCQDiscontigToHdw(IOQ_ID, entriesCQ, "tst", TRUE, 0,
                                          entriesCQ)
              \o CreateIOSQDiscontigToHdw(IOQ_ID, entriesSQ, "tst", IOQ_ID,
                                          entriesSQ * (d.cqpp \div d.sqpp))
              \o WriteAndVerifyAll(d, entriesSQ),
       IF SupportDiscontigIOQ(d) /\ d.mqes >= entriesCQ
         THEN {"CreateIOCQ.contig"} ELSE {})

PRPLessPageContig_r10b(d) == PRPContig(d, d.cqpp - 1, d.sqpp - 1)
PRPSinglePageContig_r10b(d) == PRPContig(d, d.cqpp, d.sqpp)
PRPGreaterPageContig_r10b(d) == PRPContig(d, d.cqpp + 1, d.sqpp + 1)
PRPLessPageDiscontig_r10b(d) == PRPDiscontig(d, d.cqpp - 1, d.sqpp - 1)
PRPSinglePageDiscontig_r10b(d) == PRPDiscontig(d, d.cqpp, d.sqpp)
PRPGreaterPageDiscontig_r10b(d) == PRPDiscontig(d, d.cqpp + 1, d.sqpp + 1)

GrpAdminCreateIOQCmd(d) ==
  <<X(PRPLessPageContig_r10b(d)), X(PRPLessPageDiscontig_r10b(d)),
    X(PRPSinglePageContig_r10b(d)), X(PRPSinglePageDiscontig_r10b(d)),
    X(PRPGreaterPageContig_r10b(d)), X(PRPGreaterPageDiscontig_r10b(d))>>

-----------------------------------------------------------------------------
(***************************************************************************)
(* GrpAdminDeleteIOCQCmd                                                   *)
(***************************************************************************)
DeleteIOCQ_CreateResources_r10b(d) == CreateResources(5)

DeleteIOCQ_UnsupportRsvdFields(d) ==
  GetAdminQs \o BothIOQES
    \o CreateIOCQContigToHdw(IOQ_ID, 2, "tst", TRUE, 0)
    \o Admin(DeleteIOCQ(IOQ_ID))
    \o CreateIOCQContigToHdw(IOQ_ID, 2, "tst", TRUE, 0)
    \o Admin(Rsvd(DeleteIOCQ(IOQ_ID)))

DeleteIOCQ_UnsupportRsvdFields_r10b(d) ==
  Test(d.rsvdfields, DeleteIOCQ_UnsupportRsvdFields(d), {"DeleteIOCQ.rsvd"})
DeleteIOCQ_UnsupportRsvdFields_r11b(d) ==
  Test(d.rsvdfields, DeleteIOCQ_UnsupportRsvdFields(d), {"DeleteIOCQ.rsvd"})
DeleteIOCQ_UnsupportRsvdFields_r12(d) ==
  Test(TRUE, DeleteIOCQ_UnsupportRsvdFields(d), {"DeleteIOCQ.rsvd"})

\* IDs that do not exist, before IOQ_ID is created and after it is deleted.
DeleteIOCQ_InvalidQID_r10b(d) ==
  LET delete(id) == AdminWant(DeleteIOCQ(id), {"INVALID_QID"})
  IN  Test(TRUE,
           SetupAdminQs("tst", 5)
             \o ForEach(GetIllegalQIDs(1), delete)
             \o SetIOQES({"CQ"})
             \o CreateIOCQContigToHdw(IOQ_ID, 2, "tst", TRUE, 0)
             \o Admin(DeleteIOCQ(IOQ_ID))
             \o ForEach(GetIllegalQIDs(2), delete),
           {"DeleteIOCQ.qid"})

\* X: as many IO queues as the ASQ has entries, or as there may be.
NumToDelete(d) ==
  Min({MAX_ADMIN_Q_SIZE, GetFeaturesNumOfIOSQs(d), GetFeaturesNumOfIOCQs(d)})

\* DelAllIOSQsAndVerify(), DelAllIOCQsAndVerify(): that the CE's carry each
\* CID of the range just used once is implied by their being the answers.
DelAllIOSQsAndVerify(x) == AdminBatch([i \in 1 .. x |-> DeleteIOSQ(i)])
DelAllIOCQsAndVerify(x) == AdminBatch([i \in 1 .. x |-> DeleteIOCQ(i)])

DeleteAllAtOnce_r10b(d) ==
  LET create(id) == CreateIOCQContigToHdw(id, 2, "tst", TRUE, 0)
                      \o CreateIOSQContigToHdw(id, 2, "tst", id)
  IN  Test(TRUE,
           SetupAdminQs("tst", MAX_ADMIN_Q_SIZE) \o BothIOQES
             \o ForEach(Ascending(1 .. NumToDelete(d)), create)
             \o DelAllIOSQsAndVerify(NumToDelete(d))
             \o DelAllIOCQsAndVerify(NumToDelete(d)),
           {})

MIN_REQ_IOQ_ENTRIES == 4

\* DeleteFullIOQs() with SendCmdsToFillQsAndVerify(): more commands than the
\* CQ has room for, so that both queues are full when they are deleted.
DeleteFullIOQs(d, n) ==
  LET nsid == Get1stBareMetaE2E(d)
  IN  CreateIOCQContigToHdw(IOQ_ID, n \div 2, "tst", TRUE, 0)
        \o CreateIOSQContigToHdw(IOQ_ID, n, "tst", IOQ_ID)
        \o Check(d.ns[nsid] \notin E2E)
        \o IOFill(IOQ_ID, Write(nsid, 0, 1, "none"), n - 1, n \div 2 - 1)
        \o DeleteIOSQToHdw(IOQ_ID) \o DeleteIOCQToHdw(IOQ_ID)

DeleteFullQ_r10b(d) ==
  Test(~d.preserve,
       IF d.mqes < MIN_REQ_IOQ_ENTRIES THEN <<>>
       ELSE SetupAdminQs("tst", 5) \o BothIOQES
              \o DeleteFullIOQs(d, MIN_REQ_IOQ_ENTRIES)
              \o DeleteFullIOQs(d, d.mqes),
       IF d.mqes < MIN_REQ_IOQ_ENTRIES THEN {} ELSE {"DeleteIOSQ.full"})

GrpAdminDeleteIOCQCmd(d) ==
  <<X(DeleteIOCQ_CreateResources_r10b(d)),
    Y(CASE d.rev = "10b" -> DeleteIOCQ_UnsupportRsvdFields_r10b(d)
        [] d.rev = "11" -> DeleteIOCQ_UnsupportRsvdFields_r11b(d)
        [] d.rev = "12" -> DeleteIOCQ_UnsupportRsvdFields_r12(d)),
    X(DeleteIOCQ_InvalidQID_r10b(d)),
    X(DeleteAllAtOnce_r10b(d)),
    X(DeleteFullQ_r10b(d))>>

-----------------------------------------------------------------------------
(***************************************************************************)
(* GrpAdminDeleteIOSQCmd                                                   *)
(***************************************************************************)
DeleteIOSQ_CreateResources_r10b(d) == CreateResources(5)

\* The CQ stays in the device when the test is over.
DeleteIOSQ_UnsupportRsvdFields(d) ==
  GetAdminQs \o BothIOQES
    \o CreateIOCQContigToHdw(IOQ_ID, 2, "tst", TRUE, 0)
    \o CreateIOSQContigToHdw(IOQ_ID, 2, "tst", IOQ_ID)
    \o Admin(DeleteIOSQ(IOQ_ID))
    \o CreateIOSQContigToHdw(IOQ_ID, 2, "tst", IOQ_ID)
    \o Admin(Rsvd(DeleteIOSQ(IOQ_ID)))

DeleteIOSQ_UnsupportRsvdFields_r10b(d) ==
  Test(~d.preserve /\ d.rsvdfields, DeleteIOSQ_UnsupportRsvdFields(d),
       {"DeleteIOSQ.rsvd"})
DeleteIOSQ_UnsupportRsvdFields_r11b(d) ==
  Test(~d.preserve /\ d.rsvdfields, DeleteIOSQ_UnsupportRsvdFields(d),
       {"DeleteIOSQ.rsvd"})
DeleteIOSQ_UnsupportRsvdFields_r12(d) ==
  Test(TRUE, DeleteIOSQ_UnsupportRsvdFields(d), {"DeleteIOSQ.rsvd"})

DeleteIOSQ_InvalidQID_r10b(d) ==
  LET delete(id) == AdminWant(DeleteIOSQ(id), {"INVALID_QID"})
  IN  Test(TRUE,
           SetupAdminQs("tst", 5)
             \o ForEach(GetIllegalQIDs(1), delete)
             \o BothIOQES
             \o CreateIOCQContigToHdw(IOQ_ID, 2, "tst", TRUE, 0)
             \o CreateIOSQContigToHdw(IOQ_ID, 2, "tst", IOQ_ID)
             \o Admin(DeleteIOSQ(IOQ_ID))
             \o ForEach(GetIllegalQIDs(2), delete),
           {"DeleteIOSQ.qid"})

GrpAdminDeleteIOSQCmd(d) ==
  <<X(DeleteIOSQ_CreateResources_r10b(d)),
    Y(CASE d.rev = "10b" -> DeleteIOSQ_UnsupportRsvdFields_r10b(d)
        [] d.rev = "11" -> DeleteIOSQ_UnsupportRsvdFields_r11b(d)
        [] d.rev = "12" -> DeleteIOSQ_UnsupportRsvdFields_r12(d)),
    X(DeleteIOSQ_InvalidQID_r10b(d))>>
=============================================================================
