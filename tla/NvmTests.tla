------------------------------ MODULE NvmTests ------------------------------
(***************************************************************************)
(* Groups GrpNVMDatasetMgmtCmd, GrpNVMFlushCmd, GrpNVMReadCmd and          *)
(* GrpNVMWriteCmd: tests of the commands of the NVM command set, one       *)
(* command at a time.  Meta data goes with the data of its block.          *)
(***************************************************************************)
EXTENDS DeviceTests

CONSTANT
  MAX_DATA_TX_SIZE   \* 256 KB, in blocks

ASSUME TransferAssumption == MAX_DATA_TX_SIZE \in Nat \ {0}

\* The tests of these groups look up the IO queues CreateResources_r10b made.
OnGroupIOQs(runnable, calls, finds) ==
  Test(runnable, GetIOQs(IOQ_ID) \o calls, finds)

OnIOQ(c) == IO(IOQ_ID, c)

\* The test that makes the queues of the tests below it; each of these groups
\* has its own copy of the class.
NvmCreateResources(d, runnable) ==
  LET n == Min({2, d.mqes})
  IN  Test(runnable,
           SetupAdminQs("grp", 5)
             \o SetIOQES({"CQ"}) \o CreateIOCQContigToHdw(IOQ_ID, n, "grp", TRUE, 0)
             \o SetIOQES({"SQ"}) \o CreateIOSQContigToHdw(IOQ_ID, n, "grp", IOQ_ID),
           {})

\* GetBareNamespaces(), GetMetaNamespaces(), GetMetaINamespaces()
GetBareNamespaces(d) == Ascending(NamespacesOf(d, "BARE"))
GetMetaNamespaces(d) ==
  Ascending(NamespacesOf(d, "METAS") \cup NamespacesOf(d, "METAI"))
GetMetaINamespaces(d) == Ascending(NamespacesOf(d, "METAI"))

\* isZeroFilled(): the tests for 1.2 leave out a namespace that is not active.
Active(d, nsids) == SelectSeq(nsids, LAMBDA n : n \in d.active)

\* The first bare, else meta namespace; E2E is left for the future.
OnNamespace(d, Body(_)) ==
  LET nsid == Get1stBareMetaE2E(d)
  IN  Check(d.ns[nsid] \notin E2E) \o Body(nsid)

\* A test for each meta namespace: the device is reset and has new IO queues
\* with the lifetime of the test.
CreateIOQsOnVector(d, vec) ==
  IF SupportDiscontigIOQ(d)
    THEN CreateIOCQDiscontigToHdw(IOQ_ID, 2, "tst", TRUE, vec, 2)
           \o CreateIOSQDiscontigToHdw(IOQ_ID, 2, "tst", IOQ_ID,
                                       2 * (d.cqpp \div d.sqpp))
    ELSE CreateIOCQContigToHdw(IOQ_ID, 2, "tst", TRUE, vec)
           \o CreateIOSQContigToHdw(IOQ_ID, 2, "tst", IOQ_ID)
ForEachMeta(d, nsids, Body(_)) ==
  DisableCompletely \o AdminQs("tst", 5)
    \o ForEach(nsids, LAMBDA n : Disable \o SetIRQ(1) \o Enable \o BothIOQES
                                   \o CreateIOQsOnVector(d, 0) \o Body(n))

\* Commands that are all refused, one after the other.
IOAll(cs, want) == <<[op |-> "ioall", q |-> IOQ_ID, cs |-> cs, want |-> want]>>

\* IO::SendAndReapCmdIgnore(): whatever the status.
AnyStatus == Refusals \cup {"SUCCESS"}

MaxWrBlks(d) == IF d.mdts = 0 THEN MAX_DATA_TX_SIZE ELSE d.mdts

\* A different pattern in each block, told by the number of the block.
PerBlock == "lba"
VerifyFrom(pat, slba) == <<[op |-> "verifyfrom", pat |-> pat, slba |-> slba]>>

-----------------------------------------------------------------------------
(***************************************************************************)
(* GrpNVMDatasetMgmtCmd                                                    *)
(***************************************************************************)
\* One range, from block 0; ad: it is to be deallocated.
DatasetMgmt(nsid, nlb, ad) ==
  [name |-> "DatasetMgmt", nsid |-> nsid, slba |-> 0, nlb |-> nlb, ad |-> ad]

HasDSM(d) == "dsm" \in d.oncs

DSM_CreateResources_r10b(d) == NvmCreateResources(d, HasDSM(d))

DSM_InvalidNamspc_r10b(d) ==
  OnGroupIOQs(HasDSM(d),
              IOAll({DatasetMgmt(n, 1, FALSE) : n \in InvalidNSIDs(d)},
                    {"INVAL_NAMSPC"}),
              {"DatasetMgmt.nsid"})

DSM_UnsupportRsvdFields(d) ==
  OnGroupIOQs(HasDSM(d) /\ d.rsvdfields,
              ForEach(Ascending(1 .. NN(d)),
                      LAMBDA n : OnIOQ(DatasetMgmt(n, 1, d.setAD))
                                   \o OnIOQ(Rsvd(DatasetMgmt(n, 1, d.setAD)))),
              {"DatasetMgmt.rsvd"})
DSM_UnsupportRsvdFields_r10b(d) == DSM_UnsupportRsvdFields(d)
DSM_UnsupportRsvdFields_r11b(d) == DSM_UnsupportRsvdFields(d)
DSM_UnsupportRsvdFields_r12(d) == DSM_UnsupportRsvdFields(d)

\* The status is ignored, although the descriptions ask for success.
DSMWhateverStatus(c) == IOWant(IOQ_ID, c, AnyStatus)

\* 1 to 256 ranges, which cover the whole namespace.
DSM_PRP1PRP2NR_r10b(d) ==
  LET manage(n) == DSMWhateverStatus(
                     With(DatasetMgmt(n, d.nsze, d.setAD), "prp2", TRUE))
  IN  OnGroupIOQs(HasDSM(d), ForEach(Ascending(1 .. NN(d)), manage),
                  {"DatasetMgmt.prp2"})

\* GetUniqueCtxAttribs(): every legal context attribute.
DSM_Attributes_r10b(d) ==
  LET nsid == Get1stBareMetaE2E(d)
  IN  OnGroupIOQs(HasDSM(d),
                  DSMWhateverStatus(
                    With(DatasetMgmt(nsid, d.nsze, d.setAD), "attr", TRUE)),
                  {"DatasetMgmt.attr"})

\* Identify, and what the test looks at of the data structure.
IdentifyNUSE(nsid) == With(Identify(CNS_Namespace, nsid), "field", "NUSE")

DSM_VerifyNUSE_r10b(d) ==
  LET nuse(nsid, n) == Admin(IdentifyNUSE(nsid))
                         \o IF d.thin THEN Verify(ToString(n)) ELSE <<>>
      nsid == Get1stBareMetaE2E(d)
  IN  Test(HasDSM(d) /\ ~d.preserve,
           GetAdminQs \o GetIOQs(IOQ_ID)
             \o OnIOQ(DatasetMgmt(nsid, d.nsze, TRUE)) \o nuse(nsid, 0)
             \o Check(d.ns[nsid] \notin E2E)
             \o OnIOQ(Write(nsid, 0, 1, "dword++")) \o nuse(nsid, 1),
           IF d.thin THEN {"Identify.nuse"} ELSE {})

GrpNVMDatasetMgmtCmd(d) ==
  <<X(DSM_CreateResources_r10b(d)),
    Y(DSM_InvalidNamspc_r10b(d)),
    Y(ByRev(d, DSM_UnsupportRsvdFields_r10b(d), DSM_UnsupportRsvdFields_r11b(d),
            DSM_UnsupportRsvdFields_r12(d))),
    Y(DSM_PRP1PRP2NR_r10b(d)),
    Y(DSM_Attributes_r10b(d)),
    Y(DSM_VerifyNUSE_r10b(d))>>

-----------------------------------------------------------------------------
(***************************************************************************)
(* GrpNVMFlushCmd                                                          *)
(***************************************************************************)
Flush(nsid) == [name |-> "Flush", nsid |-> nsid]

Flush_CreateResources_r10b(d) == NvmCreateResources(d, TRUE)

Flush_InvalidNamspc_r10b(d) ==
  OnGroupIOQs(TRUE,
              Check(NN(d) > 0)
                \o IOAll({Flush(n) : n \in InvalidNSIDs(d)}, {"INVAL_NAMSPC"}),
              {"Flush.nsid"})

FlushTwice(n) == OnIOQ(Flush(n)) \o OnIOQ(Rsvd(Flush(n)))

Flush_UnsupportRsvdFields_r10b(d) ==
  OnGroupIOQs(d.rsvdfields, ForEach(Ascending(1 .. NN(d)), FlushTwice),
              {"Flush.rsvd"})
Flush_UnsupportRsvdFields_r11b(d) ==
  OnGroupIOQs(d.rsvdfields, ForEach(Ascending(1 .. NN(d)), FlushTwice),
              {"Flush.rsvd"})

CNS_NamespaceListActive == 2

\* The namespaces the device lists as active; then 1, 2, 4, ... above NN.
Flush_UnsupportRsvdFields_r12(d) ==
  LET above == {n \in NN(d) + 1 .. MAX_NSID - 1 : \E k \in 0 .. n : n = 2 ^ k}
  IN  Test(TRUE,
           GetAdminQs \o Admin(Identify(CNS_NamespaceListActive, 0))
             \o GetIOQs(IOQ_ID) \o ForEach(Ascending(d.active), FlushTwice)
             \o IOAll({Flush(n) : n \in above}, {"INVAL_NAMSPC"}),
           {"Flush.rsvd"})

\* Blocks slba on, as many as max or as are left, each with a pattern of its
\* own.
ChunkAt(d, slba, max) == Min({max, d.nsze - slba})
WriteFlushRead(d, n, slba, max) ==
  OnIOQ(Write(n, slba, ChunkAt(d, slba, max), PerBlock)) \o OnIOQ(Flush(n))
    \o OnIOQ(Read(n, slba, ChunkAt(d, slba, max))) \o VerifyFrom(PerBlock, slba)

\* for (sLBA = 0; sLBA < limit; sLBA += max)
ChunksBelow(limit, max) ==
  Ascending({b \in 0 .. limit - 1 : b % max = 0})

FlushChunks(d, n, limit) ==
  LET max == MaxWrBlks(d)
  IN  ForEach(ChunksBelow(limit, max), LAMBDA b : WriteFlushRead(d, n, b, max))

Flush_FunctionalityBare_r10b(d) ==
  OnGroupIOQs(~d.preserve,
              ForEach(GetBareNamespaces(d), LAMBDA n : FlushChunks(d, n, d.nsze - 1)),
              {"Flush.bare"})

\* sLBA < maxWrBlks: with the limit it had commented out, one chunk only.
MetaLimit(d) == MaxWrBlks(d)

Flush_FunctionalityMeta_r10b(d) ==
  Test(~d.preserve,
       ForEachMeta(d, GetMetaNamespaces(d), LAMBDA n : FlushChunks(d, n, MetaLimit(d))),
       {"Flush.meta"})

GrpNVMFlushCmd(d) ==
  <<X(Flush_CreateResources_r10b(d)),
    Y(Flush_InvalidNamspc_r10b(d)),
    Y(ByRev(d, Flush_UnsupportRsvdFields_r10b(d), Flush_UnsupportRsvdFields_r11b(d),
            Flush_UnsupportRsvdFields_r12(d))),
    Y(Flush_FunctionalityBare_r10b(d)),
    X(Flush_FunctionalityMeta_r10b(d))>>

-----------------------------------------------------------------------------
(***************************************************************************)
(* GrpNVMReadCmd and GrpNVMWriteCmd.  The tests of the two groups are the  *)
(* same but for the command, Op(nsid, slba, nlb), and for leave: the tests *)
(* that write must have leave to.                                          *)
(***************************************************************************)
ReadOp(nsid, slba, nlb) == Read(nsid, slba, nlb)
WriteOp(nsid, slba, nlb) == Write(nsid, slba, nlb, "none")

OutOfRange == {"LBA_OUT_RANGE"}

\* Two blocks, of which the second, or both, are beyond the last.
OutOfRangeBare(d, Op(_,_,_), nsids) ==
  ForEach(nsids, LAMBDA n : OnIOQ(Op(n, d.nsze - 2, 2))
                              \o IOAll({Op(n, d.nsze - 1, 2)}, OutOfRange)
                              \o IOAll({Op(n, d.nsze, 2)}, OutOfRange))
OutOfRangeMeta(d, Op(_,_,_), nsids) ==
  ForEachMeta(d, nsids, LAMBDA n : IOAll({Op(n, d.nsze - 1, 2)}, OutOfRange)
                                     \o IOAll({Op(n, d.nsze, 2)}, OutOfRange)
                                     \o OnIOQ(Op(n, d.nsze - 2, 2)))

InvalidNamspc(d, Op(_,_,_)) ==
  Check(NN(d) > 0)
    \o IOAll({Op(n, 0, 1) : n \in InvalidNSIDs(d)}, {"INVAL_NAMSPC"})

\* Block 0, without and with a field of the command.
WithField(d, Op(_,_,_), field) ==
  OnNamespace(d, LAMBDA n : OnIOQ(Op(n, 0, 1)) \o OnIOQ(With(Op(n, 0, 1), field, TRUE)))

\* Reserved values of the access frequency: whatever the status.
RsvdAccessFreq(d, Op(_,_,_)) ==
  OnNamespace(d, LAMBDA n :
    ForEach(<<7, 15>>, LAMBDA f : IOWant(IOQ_ID, With(Op(n, 0, 1), "dsm", f),
                                         AnyStatus)))

\* A field that is to be ignored.
Ignored(Op(_,_,_), field, nsids) ==
  ForEach(nsids, LAMBDA n : OnIOQ(With(Op(n, 0, 1), field, TRUE)))

FindsMptr(d, flaw) == IF GetMetaINamespaces(d) = <<>> THEN {} ELSE {flaw}

\* All values of PRINFO; a namespace without protection information.
PROTINFO == <<0, 15>>
ProtInfo(Op(_,_,_), n) ==
  ForEach(PROTINFO, LAMBDA v : OnIOQ(With(Op(n, 0, 1), "prinfo", v)))

Read_CreateResources_r10b(d) == NvmCreateResources(d, TRUE)
Read_LBAOutOfRangeBare_r10b(d) ==
  OnGroupIOQs(TRUE, OutOfRangeBare(d, ReadOp, GetBareNamespaces(d)), {"Read.range"})
Read_LBAOutOfRangeBare_r12(d) ==
  OnGroupIOQs(TRUE, OutOfRangeBare(d, ReadOp, Active(d, GetBareNamespaces(d))),
              {"Read.range"})
Read_InvalidNamspc_r10b(d) ==
  OnGroupIOQs(TRUE, InvalidNamspc(d, ReadOp), {"Read.nsid"})
Read_UnsupportRsvdFields_r10b(d) ==
  OnGroupIOQs(d.rsvdfields, WithField(d, ReadOp, "rsvd"), {"Read.rsvd"})
Read_UnsupportRsvdFields_r11b(d) ==
  OnGroupIOQs(d.rsvdfields, WithField(d, ReadOp, "rsvd") \o RsvdAccessFreq(d, ReadOp),
              {"Read.rsvd"})
Read_UnsupportRsvdFields_r12(d) ==
  OnGroupIOQs(TRUE, WithField(d, ReadOp, "rsvd") \o RsvdAccessFreq(d, ReadOp),
              {"Read.rsvd"})
Read_ProtInfoIgnoreBare_r10b(d) ==
  OnGroupIOQs(TRUE, ForEach(GetBareNamespaces(d), LAMBDA n : ProtInfo(ReadOp, n)),
              {"Read.prinfo"})
Read_ProtInfoIgnoreBare_r12(d) ==
  OnGroupIOQs(TRUE,
              ForEach(Active(d, GetBareNamespaces(d)), LAMBDA n : ProtInfo(ReadOp, n)),
              {"Read.prinfo"})
Read_IgnoreMetaPtrBare_r10b(d) ==
  OnGroupIOQs(TRUE, Ignored(ReadOp, "mptr", GetBareNamespaces(d)), {"Read.mptr"})
Read_IgnoreMetaPtrBare_r12(d) ==
  OnGroupIOQs(TRUE, Ignored(ReadOp, "mptr", Active(d, GetBareNamespaces(d))),
              {"Read.mptr"})
Read_FUA_r10b(d) == OnGroupIOQs(TRUE, WithField(d, ReadOp, "fua"), {"Read.fua"})
Read_LimitedRetry_r10b(d) == OnGroupIOQs(TRUE, WithField(d, ReadOp, "lr"), {"Read.lr"})
Read_IgnoreMetaPtrMeta_r10b(d) ==
  OnGroupIOQs(TRUE, Ignored(ReadOp, "mptr", GetMetaINamespaces(d)),
              FindsMptr(d, "Read.mptr"))
Read_IgnoreMetaPtrMeta_r12(d) ==
  OnGroupIOQs(TRUE, Ignored(ReadOp, "mptr", Active(d, GetMetaINamespaces(d))),
              FindsMptr(d, "Read.mptr"))
Read_LBAOutOfRangeMeta_r10b(d) ==
  Test(TRUE, OutOfRangeMeta(d, ReadOp, GetMetaNamespaces(d)), {"Read.range"})
Read_LBAOutOfRangeMeta_r12(d) ==
  Test(TRUE, OutOfRangeMeta(d, ReadOp, Active(d, GetMetaNamespaces(d))), {"Read.range"})
Read_ProtInfoIgnoreMeta_r10b(d) ==
  Test(TRUE, ForEachMeta(d, GetMetaNamespaces(d), LAMBDA n : ProtInfo(ReadOp, n)),
       {"Read.prinfo"})
Read_ProtInfoIgnoreMeta_r12(d) ==
  Test(TRUE,
       ForEachMeta(d, Active(d, GetMetaNamespaces(d)), LAMBDA n : ProtInfo(ReadOp, n)),
       {"Read.prinfo"})

\* The tests of 1.1 are those of 1.0b but for one.
SinceR12(d, r10b, r12) == ByRev(d, r10b, r10b, r12)

GrpNVMReadCmd(d) ==
  <<X(Read_CreateResources_r10b(d)),
    Y(SinceR12(d, Read_LBAOutOfRangeBare_r10b(d), Read_LBAOutOfRangeBare_r12(d))),
    Y(Read_InvalidNamspc_r10b(d)),
    Y(ByRev(d, Read_UnsupportRsvdFields_r10b(d), Read_UnsupportRsvdFields_r11b(d),
            Read_UnsupportRsvdFields_r12(d))),
    Y(SinceR12(d, Read_ProtInfoIgnoreBare_r10b(d), Read_ProtInfoIgnoreBare_r12(d))),
    Y(SinceR12(d, Read_IgnoreMetaPtrBare_r10b(d), Read_IgnoreMetaPtrBare_r12(d))),
    Y(Read_FUA_r10b(d)),
    Y(Read_LimitedRetry_r10b(d)),
    Y(SinceR12(d, Read_IgnoreMetaPtrMeta_r10b(d), Read_IgnoreMetaPtrMeta_r12(d))),
    X(SinceR12(d, Read_LBAOutOfRangeMeta_r10b(d), Read_LBAOutOfRangeMeta_r12(d))),
    X(SinceR12(d, Read_ProtInfoIgnoreMeta_r10b(d), Read_ProtInfoIgnoreMeta_r12(d)))>>

Write_CreateResources_r10b(d) == NvmCreateResources(d, TRUE)
Write_LBAOutOfRangeBare_r10b(d) ==
  OnGroupIOQs(~d.preserve, OutOfRangeBare(d, WriteOp, GetBareNamespaces(d)),
              {"Write.range"})
Write_LBAOutOfRangeBare_r12(d) ==
  OnGroupIOQs(~d.preserve, OutOfRangeBare(d, WriteOp, Active(d, GetBareNamespaces(d))),
              {"Write.range"})
Write_InvalidNamspc_r10b(d) ==
  OnGroupIOQs(TRUE, InvalidNamspc(d, WriteOp), {"Write.nsid"})
Write_UnsupportRsvdFields_r10b(d) ==
  OnGroupIOQs(~d.preserve /\ d.rsvdfields, WithField(d, WriteOp, "rsvd"),
              {"Write.rsvd"})
Write_UnsupportRsvdFields_r11b(d) ==
  OnGroupIOQs(~d.preserve /\ d.rsvdfields,
              WithField(d, WriteOp, "rsvd") \o RsvdAccessFreq(d, WriteOp),
              {"Write.rsvd"})
\* It no longer asks whether to preserve the DUT.
Write_UnsupportRsvdFields_r12(d) ==
  OnGroupIOQs(TRUE, WithField(d, WriteOp, "rsvd") \o RsvdAccessFreq(d, WriteOp),
              {"Write.rsvd"})
Write_ProtInfoIgnoreBare_r10b(d) ==
  OnGroupIOQs(~d.preserve,
              ForEach(GetBareNamespaces(d), LAMBDA n : ProtInfo(WriteOp, n)),
              {"Write.prinfo"})
Write_ProtInfoIgnoreBare_r12(d) ==
  OnGroupIOQs(~d.preserve,
              ForEach(Active(d, GetBareNamespaces(d)), LAMBDA n : ProtInfo(WriteOp, n)),
              {"Write.prinfo"})
Write_IgnoreMetaPtrBare_r10b(d) ==
  OnGroupIOQs(~d.preserve, Ignored(WriteOp, "mptr", GetBareNamespaces(d)),
              {"Write.mptr"})
Write_IgnoreMetaPtrBare_r12(d) ==
  OnGroupIOQs(~d.preserve, Ignored(WriteOp, "mptr", Active(d, GetBareNamespaces(d))),
              {"Write.mptr"})
Write_FUA_r10b(d) ==
  OnGroupIOQs(~d.preserve, WithField(d, WriteOp, "fua"), {"Write.fua"})
Write_LimitedRetry_r10b(d) ==
  OnGroupIOQs(~d.preserve, WithField(d, WriteOp, "lr"), {"Write.lr"})
Write_IgnoreMetaPtrMeta_r10b(d) ==
  OnGroupIOQs(~d.preserve, Ignored(WriteOp, "mptr", GetMetaINamespaces(d)),
              FindsMptr(d, "Write.mptr"))
Write_IgnoreMetaPtrMeta_r12(d) ==
  OnGroupIOQs(~d.preserve, Ignored(WriteOp, "mptr", Active(d, GetMetaINamespaces(d))),
              FindsMptr(d, "Write.mptr"))
Write_LBAOutOfRangeMeta_r10b(d) ==
  Test(~d.preserve, OutOfRangeMeta(d, WriteOp, GetMetaNamespaces(d)), {"Write.range"})
Write_LBAOutOfRangeMeta_r12(d) ==
  Test(~d.preserve, OutOfRangeMeta(d, WriteOp, Active(d, GetMetaNamespaces(d))),
       {"Write.range"})
Write_ProtInfoIgnoreMeta_r10b(d) ==
  Test(~d.preserve,
       ForEachMeta(d, GetMetaNamespaces(d), LAMBDA n : ProtInfo(WriteOp, n)),
       {"Write.prinfo"})
Write_ProtInfoIgnoreMeta_r12(d) ==
  Test(~d.preserve,
       ForEachMeta(d, Active(d, GetMetaNamespaces(d)), LAMBDA n : ProtInfo(WriteOp, n)),
       {"Write.prinfo"})

GrpNVMWriteCmd(d) ==
  <<X(Write_CreateResources_r10b(d)),
    Y(SinceR12(d, Write_LBAOutOfRangeBare_r10b(d), Write_LBAOutOfRangeBare_r12(d))),
    Y(Write_InvalidNamspc_r10b(d)),
    Y(ByRev(d, Write_UnsupportRsvdFields_r10b(d), Write_UnsupportRsvdFields_r11b(d),
            Write_UnsupportRsvdFields_r12(d))),
    Y(SinceR12(d, Write_IgnoreMetaPtrBare_r10b(d), Write_ProtInfoIgnoreBare_r12(d))),
    Y(SinceR12(d, Write_ProtInfoIgnoreBare_r10b(d), Write_IgnoreMetaPtrBare_r12(d))),
    Y(Write_FUA_r10b(d)),
    Y(Write_LimitedRetry_r10b(d)),
    Y(SinceR12(d, Write_IgnoreMetaPtrMeta_r10b(d), Write_IgnoreMetaPtrMeta_r12(d))),
    X(SinceR12(d, Write_LBAOutOfRangeMeta_r10b(d), Write_LBAOutOfRangeMeta_r12(d))),
    X(SinceR12(d, Write_ProtInfoIgnoreMeta_r10b(d), Write_ProtInfoIgnoreMeta_r12(d)))>>
=============================================================================
