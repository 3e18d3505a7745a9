----------------------------- MODULE ComboTests -----------------------------
(***************************************************************************)
(* Groups GrpNVMWriteReadCombo and GrpGeneralCmds: what is written is read *)
(* back, over all lengths, places and offsets; opcodes and command ID's.   *)
(***************************************************************************)
EXTENDS NvmTests

CONSTANTS
  BLOCK_UNITS,   \* offsets into memory within a block; steps of 4 bytes
  MAX_CMDS       \* 65536 + 1, one more than there are command ID's

ASSUME UnitsAssumption == BLOCK_UNITS \in Nat \ {0} /\ MAX_CMDS \in Nat \ {0}

-----------------------------------------------------------------------------
(***************************************************************************)
(* GrpNVMWriteReadCombo                                                    *)
(***************************************************************************)
\* IO queues of group lifetime, in discontiguous memory if that is possible.
GrpIOQsOnVector(d, vec) ==
  IF SupportDiscontigIOQ(d)
    THEN CreateIOCQDiscontigToHdw(IOQ_ID, 2, "grp", TRUE, vec, 2)
           \o CreateIOSQDiscontigToHdw(IOQ_ID, 2, "grp", IOQ_ID,
                                       2 * (d.cqpp \div d.sqpp))
    ELSE CreateIOCQContigToHdw(IOQ_ID, 2, "grp", TRUE, vec)
           \o CreateIOSQContigToHdw(IOQ_ID, 2, "grp", IOQ_ID)

Combo_CreateResources_r10b(d) ==
  Test(TRUE, SetupAdminQs("grp", 5) \o BothIOQES \o GrpIOQsOnVector(d, 0), {})

\* Blocks 0 on, of ns, out of and into memory at an offset in its page.
At(c, off) == With(c, "off", off)
WriteReadAt(ns, nlb, off) ==
  LET pat == ToString(<<off, nlb>>)
  IN  OnIOQ(At(Write(ns, 0, nlb, pat), off)) \o OnIOQ(At(Read(ns, 0, nlb), off))
        \o Verify(pat)

PageUnits(d) == d.bpp * BLOCK_UNITS

\* Offsets at which a block lies within the first page.
PageOffsets(d) == Ascending(0 .. PageUnits(d) - BLOCK_UNITS)

\* Blocks from an offset to the end of as many pages.
BlocksIn(d, pages, off) == (pages * PageUnits(d) - off) \div BLOCK_UNITS

\* The inner loop breaks at the first transfer beyond the device's limit.
WithinMDTS(d, nlbs) == SelectSeq(nlbs, LAMBDA n : d.mdts = 0 \/ n <= d.mdts)

\* InitTstRsrcs(): vector 1 is that of the IO queues.
OnOwnQueues(d, Body(_)) ==
  DisableCompletely \o AdminQs("tst", 5) \o SetIRQ(2) \o Enable
    \o BothIOQES \o CreateIOQsOnVector(d, 1) \o OnNamespace(d, Body)

PRPOffsetMultiBlk(d, pages) ==
  OnOwnQueues(d, LAMBDA ns :
    ForEach(PageOffsets(d), LAMBDA off :
      ForEach(WithinMDTS(d, Ascending(1 .. BlocksIn(d, pages, off))), LAMBDA n :
        WriteReadAt(ns, n, off))))

\* More than one block in a page, or one that need not begin a page.
HasOffsets(d) == PageUnits(d) > BLOCK_UNITS

PRPOffsetSinglePgMultiBlk_r10b(d) ==
  Test(~d.preserve, PRPOffsetMultiBlk(d, 1),
       IF HasOffsets(d) THEN {"PRP.offset"} ELSE {})
PRPOffsetDualPgMultiBlk_r10b(d) ==
  Test(~d.preserve, PRPOffsetMultiBlk(d, 2), {"PRP.dual"})

\* Powers of two up to the limit, with their neighbours; the limit does not
\* apply to the neighbours.
LengthsAround(limit) ==
  FlattenSeq([k \in 1 .. Cardinality({j \in 1 .. 8 : 2 ^ j <= limit}) |->
                <<2 ^ k - 1, 2 ^ k, 2 ^ k + 1>>])

\* Y = ((2 * ccMPS) - pgOff) / lbaDataSize, not the most the device takes.
MultiPgLimit(d, off) == BlocksIn(d, 2, off)

PRPOffsetMultiPgMultiBlk_r10b(d) ==
  LET within(nlbs) == SelectSeq(nlbs, LAMBDA n : n <= MaxWrBlks(d))
      pages(off, n) == (off + n * BLOCK_UNITS + PageUnits(d) - 1) \div PageUnits(d)
      \* transfers the description speaks of
      most == pages(0, MaxWrBlks(d))
  IN  Test(~d.preserve,
           OnOwnQueues(d, LAMBDA ns :
             ForEach(PageOffsets(d), LAMBDA off :
               ForEach(within(LengthsAround(MultiPgLimit(d, off))),
                       LAMBDA n : WriteReadAt(ns, n, off)))),
           (IF most >= 3 THEN {"PRP.list"} ELSE {})
             \cup (IF most >= 4 THEN {"PRP.long"} ELSE {}))

\* Nothing is tested if a block fills a page.
PRPOffsetSinglePgSingleBlk_r10b(d) ==
  OnGroupIOQs(~d.preserve,
              OnNamespace(d, LAMBDA ns :
                IF ~HasOffsets(d) THEN <<>>
                ELSE ForEach(PageOffsets(d), LAMBDA off : WriteReadAt(ns, 1, off))),
              IF HasOffsets(d) THEN {"PRP.offset"} ELSE {})

WriteReadChunk(d, n, slba, max) ==
  OnIOQ(Write(n, slba, ChunkAt(d, slba, max), PerBlock))
    \o OnIOQ(Read(n, slba, ChunkAt(d, slba, max))) \o VerifyFrom(PerBlock, slba)

\* Variant: one block less.
StartingLimitShort(d) == d.nsze - 2

\* nWrBlks < (ncap - 1): a chunk of the last block alone is left out.
StartingLimit(d) == d.nsze - 1

StartingLBA(d, n) ==
  ForEach(ChunksBelow(StartingLimit(d), MaxWrBlks(d)),
          LAMBDA b : WriteReadChunk(d, n, b, MaxWrBlks(d)))

StartingLBABare_r10b(d) ==
  OnGroupIOQs(~d.preserve,
              ForEach(GetBareNamespaces(d), LAMBDA n : StartingLBA(d, n)),
              {"Write.last.BARE"})
StartingLBAMeta_r10b(d) ==
  Test(~d.preserve,
       ForEachMeta(d, GetMetaNamespaces(d), LAMBDA n : StartingLBA(d, n)),
       {"Write.last.METAS"})

\* Lengths about the powers of two, to the largest there is.
NLBA(d, n) ==
  LET most == Min({MAX_U16 + 1, d.nsze} \cup IF d.mdts = 0 THEN {} ELSE {d.mdts})
  IN  ForEach(SelectSeq(LengthsAround(most), LAMBDA k : k <= most),
              LAMBDA k : OnIOQ(Write(n, 0, k, ToString(k))) \o OnIOQ(Read(n, 0, k))
                           \o Verify(ToString(k)))

NLBABare_r10b(d) ==
  OnGroupIOQs(~d.preserve, ForEach(GetBareNamespaces(d), LAMBDA n : NLBA(d, n)),
              {"Read.data"})
NLBAMeta_r10b(d) ==
  Test(~d.preserve, ForEachMeta(d, GetMetaNamespaces(d), LAMBDA n : NLBA(d, n)),
       {"Read.data"})

\* Every value of DSM whose access frequency is not reserved.
DSM_VALUES == {v \in 0 .. 255 : v % 16 < 9}
DatasetMgmt_r10b(d) ==
  LET attr(c, v) == With(c, "dsm", v)
  IN  OnGroupIOQs(~d.preserve,
                  OnNamespace(d, LAMBDA n :
                    ForEach(Ascending({Min(DSM_VALUES), Max(DSM_VALUES)}), LAMBDA v :
                      OnIOQ(attr(Write(n, 0, 1, ToString(v)), v))
                        \o OnIOQ(attr(Read(n, 0, 1), v)) \o Verify(ToString(v)))),
                  {"Write.dsm", "Read.dsm", "Read.data"})

\* PRP2 is not used, and has a value in it.
PRP2Rsvd_r10b(d) ==
  LET prp2(calls) == [i \in DOMAIN calls |->
                        IF calls[i].op = "io"
                          THEN [calls[i] EXCEPT !.c = With(@, "prp2", TRUE)]
                          ELSE calls[i]]
  IN  Test(~d.preserve /\ d.rsvdfields,
           OnOwnQueues(d, LAMBDA ns :
             ForEach(PageOffsets(d), LAMBDA off :
               ForEach(WithinMDTS(d, Ascending(1 .. BlocksIn(d, 1, off))), LAMBDA n :
                 prp2(WriteReadAt(ns, n, off))))),
           {"Write.prp2", "Read.prp2"})

GrpNVMWriteReadCombo(d) ==
  <<X(PRPOffsetSinglePgMultiBlk_r10b(d)),
    X(PRPOffsetDualPgMultiBlk_r10b(d)),
    X(PRPOffsetMultiPgMultiBlk_r10b(d)),
    X(Combo_CreateResources_r10b(d)),
    Y(PRPOffsetSinglePgSingleBlk_r10b(d)),
    Y(StartingLBABare_r10b(d)),
    Y(NLBABare_r10b(d)),
    Y(DatasetMgmt_r10b(d)),
    X(StartingLBAMeta_r10b(d)),
    X(NLBAMeta_r10b(d)),
    X(PRP2Rsvd_r10b(d))>>

-----------------------------------------------------------------------------
(***************************************************************************)
(* GrpGeneralCmds                                                          *)
(***************************************************************************)
General_CreateResources_r10b(d) ==
  Test(TRUE,
       DisableCompletely \o AdminQs("grp", 5) \o SetIRQ(2) \o Enable \o BothIOQES
         \o GrpIOQsOnVector(d, 1),
       {})

\* Opcodes below those of the vendor.
AdminCmd(opc) == [name |-> "AdminCmd", opc |-> opc]
NVMCmd(opc) == [name |-> "NVMCmd", opc |-> opc, nsid |-> 1]

\* GetIllegalOpcodes(): what is not in the admin command set.
AdminOptional(d) ==
  (IF "security" \in d.oacs THEN {129, 130} ELSE {})
    \cup (IF "format" \in d.oacs THEN {128} ELSE {})
    \cup (IF "firmware" \in d.oacs THEN {16, 17} ELSE {})
IllegalAdmin_r10b(d) == ({3, 7, 11} \cup 13 .. 191) \ AdminOptional(d)
IllegalAdmin_r12(d) ==
  IllegalAdmin_r10b(d) \ IF d.nsmgmt THEN {13, 21} ELSE {}

IllegalAdminCmds(opcs) ==
  OnGroupQueues(TRUE,
                AdminAll({AdminCmd(o) : o \in opcs}, {"INVAL_OPCODE"}),
                {"AdminCmd.opcode"})
IllegalAdminCmds_r10b(d) == IllegalAdminCmds(IllegalAdmin_r10b(d))
IllegalAdminCmds_r12(d) == IllegalAdminCmds(IllegalAdmin_r12(d))

NVMOptional(d) ==
  (IF "uncorr" \in d.oncs THEN {4} ELSE {}) \cup (IF "compare" \in d.oncs THEN {5} ELSE {})
    \cup (IF "zeroes" \in d.oncs THEN {8} ELSE {}) \cup (IF HasDSM(d) THEN {9} ELSE {})
IllegalNVM_r10b(d) == (3 .. 127) \ NVMOptional(d)
IllegalNVM_r11(d) ==
  IllegalNVM_r10b(d) \ IF d.rsrv THEN {13, 14, 17, 21} ELSE {}

IllegalNVMCmds(opcs) ==
  OnGroupIOQs(TRUE, IOAll({NVMCmd(o) : o \in opcs}, {"INVAL_OPCODE"}),
              {"NVMCmd.opcode"})
IllegalNVMCmds_r10b(d) == IllegalNVMCmds(IllegalNVM_r10b(d))
IllegalNVMCmds_r11(d) == IllegalNVMCmds(IllegalNVM_r11(d))

\* A command is sent to q; dnvme numbers it one more than the one before it,
\* and its CE has this ID, and that of its SQ where the test looks at it.  The
\* last of the SQ's sets the ID the next round starts from.
NextCID(q, c, first, sets) ==
  <<[op |-> "cid", q |-> q, c |-> c, first |-> first, sets |-> sets]>>

\* One command more than there are ID's.  The last one sent is not rung.
CIDAcceptedASQ_r10b(d) ==
  OnGroupQueues(TRUE,
                ForEach(Ascending(0 .. MAX_CMDS), LAMBDA i :
                  NextCID(0, Identify(CNS_Controller, 0), i = 0, TRUE)),
                {"CE.cid"})

CIDAcceptedIOSQ_r10b(d) ==
  LET sqs == Ascending(1 .. Min({2, GetFeaturesNumOfIOSQs(d)}))
      contig == ~SupportDiscontigIOQ(d)
      mem == 2 * (d.cqpp \div d.sqpp)
      createCQ == IF contig THEN CreateIOCQContigToHdw(IOQ_ID, 2, "tst", TRUE, 1)
                  ELSE CreateIOCQDiscontigToHdw(IOQ_ID, 2, "tst", TRUE, 1, 2)
      createSQ(q) == IF contig THEN CreateIOSQContigToHdw(q, 2, "tst", IOQ_ID)
                     ELSE CreateIOSQDiscontigToHdw(q, 2, "tst", IOQ_ID, mem)
      write(n, i, q) == NextCID(q, Write(n, 0, 1, "none"), i = 0, q = Len(sqs))
  IN  Test(~d.preserve,
           DisableCompletely \o AdminQs("tst", 5) \o SetIRQ(2) \o Enable \o BothIOQES
             \o createCQ \o ForEach(sqs, createSQ)
             \o OnNamespace(d, LAMBDA n :
                  ForEach(Ascending(0 .. MAX_CMDS), LAMBDA i :
                    ForEach(sqs, LAMBDA q : write(n, i, q)))),
           {"CE.cid"} \cup IF Len(sqs) > 1 THEN {"CE.sqid"} ELSE {})

GrpGeneralCmds(d) ==
  <<X(General_CreateResources_r10b(d)),
    Y(ByRev(d, IllegalNVMCmds_r10b(d), IllegalNVMCmds_r11(d), IllegalNVMCmds_r11(d))),
    Y(SinceR12(d, IllegalAdminCmds_r10b(d), IllegalAdminCmds_r12(d))),
    Y(CIDAcceptedASQ_r10b(d)),
    X(CIDAcceptedIOSQ_r10b(d))>>
=============================================================================
