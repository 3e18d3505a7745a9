---------------------------- MODULE DeviceTests ----------------------------
(***************************************************************************)
(* Groups GrpBasicInit, GrpPciRegisters, GrpCtrlRegisters, GrpResets and   *)
(* GrpInterrupts.                                                          *)
(***************************************************************************)
EXTENDS AdminTests

CONSTANT MAX_MSIX_IRQ_VEC   \* CtrlrConfig: 2047

-----------------------------------------------------------------------------
(***************************************************************************)
(* GrpBasicInit: one sequence, every test uses what those before it left.  *)
(***************************************************************************)
ContigID == 1
DiscontigID == 2
NumEntriesIOQ(d) == Min({5, d.mqes})
WRITE_DATA_PAT_NUM_BLKS == 5

\* Whether there are that many queues is asked only of a device that has
\* the number of entries wanted.
EnoughIOQs(d, n, cq, sq) == d.mqes < n \/ (d.cqs >= cq /\ d.sqs >= sq)

BasicInit_CreateACQASQ_r10b(d) ==
  Test(TRUE, DisableCompletely \o AdminQs("grp", 5) \o Enable, {})

CreateContigPair(d, irq) ==
  SetIOQES({"CQ"})
    \o CreateIOCQContigToHdw(ContigID, NumEntriesIOQ(d), "grp", irq, 0)
    \o SetIOQES({"SQ"})
    \o CreateIOSQContigToHdw(ContigID, NumEntriesIOQ(d), "grp", ContigID)

CreateDiscontigPair(d, irq) ==
  LET n == NumEntriesIOQ(d)
  IN  SetIOQES({"CQ"})
        \o CreateIOCQDiscontigToHdw(DiscontigID, n, "grp", irq, 0, n)
        \o SetIOQES({"SQ"})
        \o CreateIOSQDiscontigToHdw(DiscontigID, n, "grp", DiscontigID,
                                    n * (d.cqpp \div d.sqpp))

BasicInit_CreateIOQContigPoll_r10b(d) ==
  Test(TRUE,
       GetAdminQs \o Check(EnoughIOQs(d, 5, ContigID, ContigID))
         \o CreateContigPair(d, FALSE), {})

BasicInit_CreateIOQDiscontigPoll_r10b(d) ==
  Test(TRUE,
       IF d.cqr THEN <<>>
       ELSE GetAdminQs \o Check(EnoughIOQs(d, 5, DiscontigID, DiscontigID))
              \o CreateDiscontigPair(d, FALSE), {})

\* Interrupts are changed while the device is disabled, which loses the IO
\* queues of the tests before.
BasicInit_CreateIOQContigIrq_r10b(d) ==
  Test(TRUE,
       GetAdminQs \o Check(EnoughIOQs(d, 5, ContigID, ContigID))
         \o Disable \o SetIRQ(1) \o Enable
         \o CreateContigPair(d, TRUE), {})

BasicInit_CreateIOQDiscontigIrq_r10b(d) ==
  Test(TRUE,
       GetAdminQs
         \o IF d.cqr THEN <<>>
            ELSE Check(EnoughIOQs(d, 5, DiscontigID, DiscontigID))
                   \o CreateDiscontigPair(d, TRUE), {})

\* SendToIOSQ() of the contiguous and, if there are any, of the other queues.
OnBothPairs(d, Op(_)) ==
  GetIOQs(ContigID) \o GetIOQs(DiscontigID) \o Op(ContigID)
    \o IF d.cqr THEN <<>> ELSE Op(DiscontigID)

BasicInit_WriteDataPat_r10b(d) ==
  LET nsid == Get1stBareMetaE2E(d)
      send(q) == IO(q, Write(nsid, 0, WRITE_DATA_PAT_NUM_BLKS, "inc16"))
  IN  Test(~d.preserve, Check(d.ns[nsid] \notin E2E) \o OnBothPairs(d, send), {})

BasicInit_VerifyDataPat_r10b(d) ==
  LET nsid == Get1stBareMetaE2E(d)
      send(q) == IO(q, Read(nsid, 0, WRITE_DATA_PAT_NUM_BLKS)) \o Verify("inc16")
  IN  Test(TRUE, Check(d.ns[nsid] \notin E2E) \o OnBothPairs(d, send),
           {"Read.data"})

DeletePair(id) ==
  GetAdminQs \o GetIOQs(id) \o DeleteIOSQToHdw(id) \o DeleteIOCQToHdw(id)

BasicInit_DeleteIOQContig_r10b(d) == Test(TRUE, DeletePair(ContigID), {})
BasicInit_DeleteIOQDiscontig_r10b(d) ==
  Test(TRUE, IF d.cqr THEN <<>> ELSE DeletePair(DiscontigID), {})

GrpBasicInit(d) ==
  <<X(BasicInit_CreateACQASQ_r10b(d)),
    Z(BasicInit_CreateIOQContigPoll_r10b(d)),
    Z(BasicInit_CreateIOQDiscontigPoll_r10b(d)),
    Z(BasicInit_WriteDataPat_r10b(d)), Z(BasicInit_VerifyDataPat_r10b(d)),
    Z(BasicInit_DeleteIOQContig_r10b(d)), Z(BasicInit_DeleteIOQDiscontig_r10b(d)),
    Z(BasicInit_CreateIOQContigIrq_r10b(d)),
    Z(BasicInit_CreateIOQDiscontigIrq_r10b(d)),
    Z(BasicInit_WriteDataPat_r10b(d)), Z(BasicInit_VerifyDataPat_r10b(d)),
    Z(BasicInit_DeleteIOQContig_r10b(d)), Z(BasicInit_DeleteIOQDiscontig_r10b(d))>>

-----------------------------------------------------------------------------
(***************************************************************************)
(* The tables of registers: name, revisions it is in, whether it is an     *)
(* area that is never written, and the value of its RO bits.               *)
(***************************************************************************)
AllRevs == {"10b", "11", "12"}
Reg(name, revs, res, dflt) ==
  [name |-> name, revs |-> revs, res |-> res, dflt |-> dflt]

\* CTLSPC_TABLE.  The version register is in it once for each revision.
CtlMetrics ==
  <<Reg("CAP", AllRevs, FALSE, 0), Reg("VS", {"10b"}, FALSE, 0),
    Reg("VS_11", {"11"}, FALSE, 1), Reg("VS_12", {"12"}, FALSE, 2),
    Reg("INTMS", AllRevs, FALSE, 0), Reg("INTMC", AllRevs, FALSE, 0),
    Reg("CC", AllRevs, FALSE, 0), Reg("RES0", AllRevs, FALSE, 0),
    Reg("CSTS", {"10b"}, FALSE, 0), Reg("CSTS_11", {"11", "12"}, FALSE, 0),
    Reg("RES1", {"10b"}, TRUE, 0), Reg("NSSR", {"11", "12"}, FALSE, 0),
    Reg("AQA", AllRevs, FALSE, 0), Reg("ASQ", AllRevs, FALSE, 0),
    Reg("ACQ", AllRevs, FALSE, 0), Reg("RES2", AllRevs, TRUE, 0),
    Reg("RES3", AllRevs, TRUE, 0)>>

\* PCISPC_TABLE, by capability: all of it is in every revision.
PciHeader ==
  <<"ID", "CMD", "STS", "RID", "PCICC", "CLS", "MLT", "HTYPE", "BIST", "BAR0",
    "BAR1", "BAR2", "BAR3", "BAR4", "BAR5", "CCPTR", "SS", "EROM", "PCICAP",
    "PCIRES0", "INTR", "MGNT", "MLAT">>
PciCapability(cap) ==
  CASE cap = "PMCAP" -> <<"PID", "PC", "PMCS">>
    [] cap = "MSICAP" -> <<"MID", "MC", "MA", "MUA", "MD", "MMASK", "MPEND">>
    [] cap = "MSIXCAP" -> <<"MXID", "MXC", "MTAB", "MPBA">>
    [] cap = "PXCAP" -> <<"PXID", "PXCAP", "PXDCAP", "PXDC", "PXDS", "PXLCAP",
                          "PXLC", "PXLS", "PCIRES1", "PXDCAP2", "PXDC2">>
    [] cap = "AERCAP" -> <<"AERID", "AERUCES", "AERUCEM", "AERUCESEV", "AERCS",
                           "AERCEM", "AERCC", "AERHL", "AERTLP">>

PciReg(name) == Reg(name, AllRevs, name \in {"PCIRES0", "PCIRES1"}, 0)

\* Registers::DiscoverPciCapabilities(): capabilities in the order of the
\* device's list, the extended one last; others are passed over.
PciCap(d) ==
  SelectSeq(d.pcicaps, LAMBDA c : c \in {"PMCAP", "MSICAP", "PXCAP", "MSIXCAP"})
    \o SelectSeq(d.pcicaps, LAMBDA c : c = "AERCAP")
PciMetrics(d) ==
  ForEach(PciHeader \o ForEach(PciCap(d), PciCapability), LAMBDA n : <<PciReg(n)>>)

\* Read() of each of regs: their RO bits are not those of the table, and it
\* throws, or is remembered until the test ends.
ValidateRO(regs, throw) ==
  <<[op |-> "readro", regs |-> regs, throw |-> throw]>>

\* Write() of the value read, but with every RO bit set, or none.
WriteRO(reg, ones) == <<[op |-> "writero", reg |-> reg, ones |-> ones]>>

OfRevision(regs, d) == SelectSeq(regs, LAMBDA r : d.rev \in r.revs)
Writable(regs) == SelectSeq(regs, LAMBDA r : ~r.res)

ValidateDefaultValues(regs, throw) == ValidateRO(Range(regs), throw)

ValidateROBitsAfterWriting(regs, throw) ==
  LET attempt(r) == WriteRO(r, TRUE) \o ValidateRO({r}, throw)
                      \o WriteRO(r, FALSE) \o ValidateRO({r}, throw)
  IN  ForEach(Writable(regs), attempt)

AllPciRegs_r10b(d) ==
  Test(TRUE,
       DisableCompletely
         \o ValidateDefaultValues(OfRevision(PciMetrics(d), d), FALSE)
         \o ValidateROBitsAfterWriting(OfRevision(PciMetrics(d), d), FALSE)
         \o ThrowIfMismatch,
       {"Pci.default", "Pci.readonly"})

AllCtrlRegs(d) ==
  Test(TRUE,
       DisableCompletely
         \o ValidateDefaultValues(OfRevision(CtlMetrics, d), TRUE)
         \o ValidateROBitsAfterWriting(OfRevision(CtlMetrics, d), TRUE),
       {"Ctl.default", "Ctl.readonly"})
AllCtrlRegs_r10b(d) == AllCtrlRegs(d)
AllCtrlRegs_r11(d) == AllCtrlRegs(d)
AllCtrlRegs_r12(d) == AllCtrlRegs(d)

AdminQRegs == {"AQA", "ASQ", "ACQ"}

\* ModifyRWBitsOfCtrlrRegisters(): every bit the other way round, but for the
\* registers of the admin queues, which are read.
ModifyRWBits(d) ==
  <<[op |-> "writerw",
     regs |-> {r.name : r \in Range(Writable(OfRevision(CtlMetrics, d)))}
                \ ({"INTMC"} \cup AdminQRegs)]>>

\* ValidateCtrlrRWDefaultsAfterReset(): RW bits are 0 again, the registers of
\* the admin queues have kept theirs.
ValidateRWDefaults(d) == <<[op |-> "readrw"]>>

CtrlrResetDefaults_r10b(d) ==
  Test(TRUE,
       DisableCompletely \o AdminQs("tst", 5) \o Enable
         \o ModifyRWBits(d) \o Disable \o ValidateRWDefaults(d),
       {"Reset.regs", "Reset.adminqs"})

GrpPciRegisters(d) == <<X(AllPciRegs_r10b(d))>>
GrpCtrlRegisters(d) ==
  <<X(ByRev(d, AllCtrlRegs_r10b(d), AllCtrlRegs_r11(d), AllCtrlRegs_r12(d))),
    X(CtrlrResetDefaults_r10b(d))>>

-----------------------------------------------------------------------------
(***************************************************************************)
(* GrpResets                                                               *)
(***************************************************************************)
\* The same queues, two SQ's on one CQ, are made again after CC.EN = 0.
CtrlrResetIOQDeleted_r10b(d) ==
  LET n == Min({10, d.mqes})
      turn(i) == Enable \o SetIOQES({"CQ"})
                   \o CreateIOCQContigToHdw(1, n, "tst", FALSE, 0)
                   \o SetIOQES({"SQ"})
                   \o CreateIOSQContigToHdw(1, n, "tst", 1)
                   \o CreateIOSQContigToHdw(2, n, "tst", 1)
                   \o Disable
  IN  Test(TRUE,
           DisableCompletely \o Check(EnoughIOQs(d, 10, 1, 2)) \o AdminQs("tst", 15)
             \o ForEach(<<1, 2>>, turn),
           {"Reset.ioqs"})

CtrlrResetNotEffectAdminQ_r10b(d) ==
  LET identify == Admin(Identify(CNS_Controller, 0))
  IN  Test(TRUE,
           DisableCompletely \o AdminQs("tst", 15) \o Enable \o identify
             \o Disable \o Enable \o identify,
           {"Reset.adminqs"})

GrpResets(d) ==
  <<X(CtrlrResetIOQDeleted_r10b(d)), X(CtrlrResetNotEffectAdminQ_r10b(d))>>

-----------------------------------------------------------------------------
(***************************************************************************)
(* GrpInterrupts                                                           *)
(***************************************************************************)
\* The number of IRQ's that CQ q has had.
IsrCount(q, n) == <<[op |-> "isr", q |-> q, n |-> n]>>

\* Only a device with MSI-X is tested.
WithMSIX(d, n, calls) ==
  IF ~d.msix THEN <<>> ELSE Disable \o SetIRQ(n) \o Enable \o GetAdminQs \o calls

Interrupts_CreateResources_r10b(d) ==
  Test(TRUE, DisableCompletely \o AdminQs("grp", 5) \o Enable, {})

\* SendToxicCmd(): the command is changed once it is in the ASQ, so that
\* dnvme does not refuse the vector first.
InvalidMSIXIRQ_r10b(d) ==
  LET create(i) == InitIOCQ(IOQ_ID, 2, "tst")
                     \o AdminWant(CreateIOCQ(IOQ_ID, 2, TRUE, TRUE, i),
                                  {"INVALID_INT_VEC"})
  IN  Test(TRUE,
           WithMSIX(d, d.irqs, SetIOQES({"CQ"})
             \o ForEach(Ascending(d.irqs .. MAX_MSIX_IRQ_VEC), create)),
           IF d.msix /\ d.irqs <= MAX_MSIX_IRQ_VEC THEN {"CreateIOCQ.vec"} ELSE {})

NUM_CMDS_ISSUE == 10

\* Two IRQ's for the queues and one for the first command; then another one
\* each time a CE is reaped and others are left.
PartialReapMSIX_r10b(d) ==
  LET nsid == Get1stBareMetaE2E(d)
      send(i) == IOSend(IOQ_ID, Write(nsid, 0, 1, "none"), i) \o IsrCount(IOQ_ID, 3)
      reap(i) == IsrCount(IOQ_ID, 2 + i) \o IOReap(IOQ_ID)
  IN  Test(~d.preserve,
           IF d.mqes < NUM_CMDS_ISSUE + 1 THEN <<>>
           ELSE WithMSIX(d, 1, SetIOQES({"CQ"})
             \o CreateIOCQContigToHdw(IOQ_ID, NUM_CMDS_ISSUE + 1, "tst", TRUE, 0)
             \o SetIOQES({"SQ"})
             \o CreateIOSQContigToHdw(IOQ_ID, NUM_CMDS_ISSUE + 1, "tst", IOQ_ID)
             \o Check(d.ns[nsid] \notin E2E)
             \o ForEach(Ascending(1 .. NUM_CMDS_ISSUE), send)
             \o ForEach(Ascending(1 .. NUM_CMDS_ISSUE), reap)),
           IF d.msix /\ d.mqes > NUM_CMDS_ISSUE THEN {"Irq.none", "Irq.partial"}
           ELSE {})

\* CreateIOQs() of the 1:1 test, on a vector of their own.
CreateIOQs(d, id, irq) ==
  IF SupportDiscontigIOQ(d)
    THEN CreateIOCQDiscontigToHdw(id, 2, "tst", irq, id, 2)
           \o CreateIOSQDiscontigToHdw(id, 2, "tst", id, 2 * (d.cqpp \div d.sqpp))
    ELSE CreateIOCQContigToHdw(id, 2, "tst", irq, id)
           \o CreateIOSQContigToHdw(id, 2, "tst", id)

\* A block with the pattern of queue q is written and read.
WriteReadOn(d, q) ==
  LET nsid == Get1stBareMetaE2E(d)
  IN  IO(q, Write(nsid, 0, 1, ToString(q))) \o IO(q, Read(nsid, 0, 1))

\* Every other CQ is polled at first, and made again with IRQ's.
MaxIOQMSIX1To1_r10b(d) ==
  LET pairs == Ascending(1 .. Min({d.irqs, d.sqs + 1, d.cqs + 1}) - 1)
      even(q) == q % 2 = 0
      create(q) == CreateIOQs(d, q, even(q))
      use1(q) == WriteReadOn(d, q) \o IsrCount(q, IF even(q) THEN 2 ELSE 0)
                   \o Verify(ToString(q))
      remake(q) == IF even(q) THEN <<>>
                   ELSE DeleteIOSQToHdw(q) \o DeleteIOCQToHdw(q)
                          \o CreateIOQs(d, q, TRUE)
      use2(q) == WriteReadOn(d, q) \o IsrCount(q, IF even(q) THEN 4 ELSE 2)
                   \o Verify(ToString(q))
  IN  Test(~d.preserve,
           WithMSIX(d, Min({d.irqs, d.sqs + 1, d.cqs + 1}),
             Check(d.ns[Get1stBareMetaE2E(d)] \notin E2E) \o BothIOQES
               \o ForEach(pairs, create) \o ForEach(pairs, use1)
               \o ForEach(pairs, remake) \o ForEach(pairs, use2)),
           IF d.msix /\ Len(pairs) > 1 THEN {"Irq.none", "Irq.vec"} ELSE {})

\* All CQ's share vector 0 with the ACQ, whose IRQ's count too.
MaxIOQMSIXManyTo1_r10b(d) ==
  LET pairs == Ascending(1 .. Min({d.sqs, d.cqs}))
      nsid == Get1stBareMetaE2E(d)
      before == 2 * Len(pairs)
      create(q) == CreateIOCQContigToHdw(q, 2, "tst", TRUE, 0)
                     \o CreateIOSQContigToHdw(q, 2, "tst", q)
      use(q) == IO(q, Write(nsid, 0, 1, ToString(q)))
                  \o IsrCount(q, before + 2 * q - 1)
                  \o IO(q, Read(nsid, 0, 1)) \o IsrCount(q, before + 2 * q)
                  \o Verify(ToString(q))
  IN  Test(~d.preserve,
           WithMSIX(d, 1, Check(d.ns[nsid] \notin E2E) \o BothIOQES
             \o ForEach(pairs, create) \o ForEach(pairs, use)),
           IF d.msix THEN {"Irq.none"} ELSE {})

GrpInterrupts(d) ==
  <<X(Interrupts_CreateResources_r10b(d)), Y(InvalidMSIXIRQ_r10b(d)),
    Y(PartialReapMSIX_r10b(d)), Y(MaxIOQMSIX1To1_r10b(d)),
    Y(MaxIOQMSIXManyTo1_r10b(d))>>
=============================================================================
