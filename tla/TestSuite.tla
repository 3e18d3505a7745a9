----------------------------- MODULE TestSuite -----------------------------
(***************************************************************************)
(* A group of tests run against a device: what the calls of the tests do   *)
(* to the framework, to the driver and to the device.                      *)
(*                                                                         *)
(* The device and its driver are not part of the source: they are modelled *)
(* from what the tests and the framework expect of them.  The device       *)
(* conforms to the specification except for one flaw it may have, and      *)
(* answers every command; SendReap has the steps within one command, its   *)
(* time-out included.  Which tests of a group fall with another one is     *)
(* taken from GroupRunner, which has ExecuteTests() in full.               *)
(***************************************************************************)
EXTENDS QueueGroupTests

CONSTANT
  Programmes \* the groups to run, each for a device: ProgrammesOf a
             \* sequence of devices under test, with the command line

VARIABLES
  prog,      \* the group: its tests and the device it runs against
  tst,       \* index of its present test
  part,      \* what RunTest() is about: "save", the "test", or "restore"
  pc,        \* number of its calls already made; -1 before a test starts
  last,      \* test that ended last and its verdict
  down,      \* what falls with an earlier test: "X" the rest of its xLev,
             \* "Z" the rest of its sequence, or "none"
  objs,      \* mObjGrpLife: the queues with group lifetime
  missed,    \* those of them FreeAllObjNotASQACQ() has passed over
  null,      \* queues the test looked up in vain: its pointers are NULL
  state,     \* gCtrlrConfig: "enabled" or "disabled"
  ioqes,     \* CC.IOCQES, CC.IOSQES: those set to a legal size
  irq,       \* number of IRQ vectors in use; 0: IRQ's are off
  nodes,     \* dnvme: size of each queue it prepared, ID 0 the admin queues
  payload,   \* what the last command returned, unit by unit
  mismatch,  \* a feature read back differed, and the test will throw
  saved,     \* values SaveState() read
  dev        \* the device

script == <<prog, tst, part, pc, last, down>>
host == <<objs, missed, null, state, ioqes, irq, nodes, payload, mismatch, saved>>
vars == <<script, host, dev>>

-----------------------------------------------------------------------------
(***************************************************************************)
(* The groups                                                              *)
(***************************************************************************)
Programme(g, dv, matrix) ==
  [grp |-> g, d |-> dv, matrix |-> matrix, save |-> <<>>, restore |-> <<>>]

\* With -y (--restore) RunTest() has a group save the state of the device and
\* restore it, which for all others are empty.
WithRestore(p) ==
  IF p.d.restore
    THEN [p EXCEPT !.save = SaveState(p.d), !.restore = RestoreState(p.d)]
    ELSE p

\* InstantiateGroups(): the constructor of each group.
GroupsFor(dv) ==
  <<Programme("GrpAdminCreateIOCQCmd", dv, GrpAdminCreateIOCQCmd(dv)),
    Programme("GrpAdminCreateIOSQCmd", dv, GrpAdminCreateIOSQCmd(dv)),
    Programme("GrpAdminCreateIOQCmd", dv, GrpAdminCreateIOQCmd(dv)),
    Programme("GrpAdminDeleteIOCQCmd", dv, GrpAdminDeleteIOCQCmd(dv)),
    Programme("GrpAdminDeleteIOSQCmd", dv, GrpAdminDeleteIOSQCmd(dv)),
    Programme("GrpAdminIdentifyCmd", dv, GrpAdminIdentifyCmd(dv)),
    Programme("GrpAdminGetFeatCmd", dv, GrpAdminGetFeatCmd(dv)),
    Programme("GrpAdminSetFeatCmd", dv, GrpAdminSetFeatCmd(dv)),
    Programme("GrpAdminGetLogPgCmd", dv, GrpAdminGetLogPgCmd(dv)),
    Programme("GrpAdminAsyncCmd", dv, GrpAdminAsyncCmd(dv)),
    WithRestore(Programme("GrpAdminSetGetFeatCombo", dv,
                          GrpAdminSetGetFeatCombo(dv))),
    Programme("GrpAdminNamespaceManagement", dv, GrpAdminNamespaceManagement(dv)),
    Programme("GrpBasicInit", dv, GrpBasicInit(dv)),
    Programme("GrpPciRegisters", dv, GrpPciRegisters(dv)),
    Programme("GrpCtrlRegisters", dv, GrpCtrlRegisters(dv)),
    Programme("GrpResets", dv, GrpResets(dv)),
    Programme("GrpInterrupts", dv, GrpInterrupts(dv)),
    Programme("GrpNVMDatasetMgmtCmd", dv, GrpNVMDatasetMgmtCmd(dv)),
    Programme("GrpNVMFlushCmd", dv, GrpNVMFlushCmd(dv)),
    Programme("GrpNVMReadCmd", dv, GrpNVMReadCmd(dv)),
    Programme("GrpNVMWriteCmd", dv, GrpNVMWriteCmd(dv)),
    Programme("GrpNVMWriteReadCombo", dv, GrpNVMWriteReadCombo(dv)),
    Programme("GrpGeneralCmds", dv, GrpGeneralCmds(dv)),
    Programme("GrpQueues", dv, GrpQueues(dv))>>

\* Every group for every device.
ProgrammesOf(devices) == ForEach(devices, GroupsFor)

d == prog.d
Matrix == prog.matrix
Over == tst > Len(Matrix) /\ part = "test"
Present == Matrix[tst].test
Code == CASE part = "save" -> prog.save [] part = "restore" -> prog.restore
          [] part = "test" -> Present.calls
Call == Code[pc + 1]
Calls(op) == pc >= 0 /\ pc < Len(Code) /\ Call.op = op

-----------------------------------------------------------------------------
(***************************************************************************)
(* State of the framework, of dnvme and of the device                      *)
(***************************************************************************)
EmptyFunction == <<>>
AdminNodes == {<<"CQ", 0>>, <<"SQ", 0>>}
NoQueues == [CQ |-> {}, SQ |-> {}]

\* Asynchronous events: requests outstanding, events not yet reported,
\* whether they are masked, CE's in the ACQ not yet reaped, and entries of
\* the ASQ no CE has given back.
NoAER == [out |-> 0, pending |-> 0, masked |-> FALSE, ces |-> <<>>, used |-> 0]

OldMedia(dv) == [n \in DOMAIN dv.ns |-> [b \in 0 .. dv.nsze - 1 |-> "old"]]

\* No vector has had an IRQ.
NoIRQs(dv) == [v \in 0 .. dv.irqs - 1 |-> 0]

\* Registers whose RO bits do not have the value the table says.
WrongRegs(dv) ==
  CASE dv.flaw = "Ctl.default" -> {"CAP"} [] dv.flaw = "Pci.default" -> {"PMCS"}
    [] OTHER -> {}

\* queues: IO queues that exist, SQ's with their CQ; media: pattern in each
\* block of each namespace; feats: features that do not have the value they
\* came with; exist, attached: namespaces; isr: IRQ's of each vector;
\* wrong, dirty: registers whose RO, RW bits are not what they should be;
\* aq: the registers of the admin queues are as they were set; cid: last ID
\* of the commands of each SQ, head: of the ASQ, where a test looks at them.
NewDevice(dv) ==
  [queues |-> NoQueues, media |-> OldMedia(dv), feats |-> EmptyFunction,
   aer |-> NoAER, exist |-> DOMAIN dv.ns, attached |-> dv.active,
   isr |-> NoIRQs(dv), wrong |-> WrongRegs(dv), dirty |-> {}, aq |-> FALSE,
   cid |-> EmptyFunction, head |-> 0]

\* The user asked for the group.  A flawed device is given the groups with a
\* test that claims to find the flaw.
WorthRunning ==
  /\ prog.grp \in d.groups
  /\ d.flaw # "none" => \E i \in DOMAIN Matrix : d.flaw \in Matrix[i].test.finds

Init ==
  /\ prog \in Range(Programmes) /\ WorthRunning
  /\ tst = 1
  /\ IF prog.save = <<>> THEN part = "test" /\ pc = -1 ELSE part = "save" /\ pc = 0
  /\ last = [tst |-> 0, verdict |-> "none"]
  /\ down = "none"
  /\ objs = {} /\ missed = {} /\ null = {} /\ state = "disabled" /\ ioqes = {} /\ irq = 0
  /\ nodes = EmptyFunction /\ payload = <<>> /\ mismatch = FALSE
  /\ saved = EmptyFunction
  /\ dev = NewDevice(d)

\* CC.EN = 0: the device forgets its IO queues and outstanding requests, and
\* its registers are reset, but for those of the admin queues.
DevDisabled ==
  [dev EXCEPT !.queues = IF d.flaw = "Reset.ioqs" THEN @ ELSE NoQueues,
              !.dirty = IF d.flaw = "Reset.regs" THEN @ ELSE {},
              !.aq = @ /\ d.flaw # "Reset.adminqs",
              !.isr = NoIRQs(d), !.cid = EmptyFunction,
              !.head = IF d.flaw = "Reset.pointers" THEN @ ELSE 0,
              !.feats = IF d.keeps THEN @ ELSE EmptyFunction,
              !.aer = IF d.flaw = "AER.reset" THEN [NoAER EXCEPT !.out = dev.aer.out]
                      ELSE NoAER]

\* ST_DISABLE_COMPLETELY with Notify(): everything is freed and reset.
Reset ==
  /\ objs' = {} /\ missed' = {} /\ state' = "disabled" /\ ioqes' = {} /\ irq' = 0
  /\ nodes' = EmptyFunction /\ dev' = DevDisabled

-----------------------------------------------------------------------------
(***************************************************************************)
(* Test by test                                                            *)
(***************************************************************************)
\* Variant: a failed or skipped test takes only its own sequence along.
NextTstSequence(fell) ==
  Min({t \in tst + 1 .. Len(Matrix) + 1 :
         t = Len(Matrix) + 1 \/ fell = "none" \/ Matrix[t].lev \in {"X", "Y"}})

\* The test the group goes on with, if fell falls with the present one.
NextTst(fell) ==
  Min({t \in tst + 1 .. Len(Matrix) + 1 :
         \/ t = Len(Matrix) + 1
         \/ Matrix[t].lev = "X"
         \/ fell = "Z" /\ Matrix[t].lev = "Y"
         \/ fell = "none"})

\* Variant: only the last test is followed by a restore.
RestoreDueAtEnd(verdict, next) == prog.restore # <<>> /\ next > Len(Matrix)

\* The state of the device is restored after the last test of the set, run or
\* skipped, and after one that failed.
RestoreDue(verdict, next) ==
  prog.restore # <<>> /\ (next > Len(Matrix) \/ verdict = "failed")

\* A test is over, and with it what it made for itself.
Ends(verdict, fell) ==
  /\ last' = [tst |-> tst, verdict |-> verdict]
  /\ down' = fell
  /\ tst' = NextTst(fell)
  /\ IF RestoreDue(verdict, NextTst(fell)) THEN part' = "restore" /\ pc' = 0
     ELSE part' = "test" /\ pc' = -1
  /\ UNCHANGED prog

\* No further test of the group is run: its state could not be saved or
\* restored, or the process is gone.
GroupIsOver(verdict) ==
  /\ last' = [last EXCEPT !.verdict = verdict]
  /\ tst' = Len(Matrix) + 1 /\ part' = "test" /\ pc' = -1
  /\ UNCHANGED <<prog, down>>

\* throw FrmwkEx: the constructor disables the device completely.
Throws ==
  /\ Reset /\ mismatch' = FALSE
  /\ IF part = "test" THEN Ends("failed", "X") ELSE GroupIsOver("failed")
  /\ null' = {} /\ UNCHANGED <<payload, saved>>

\* tnvme uses a NULL pointer.
Crashes == GroupIsOver("crashed") /\ UNCHANGED <<host, dev>>

\* The destructor of a queue without a buffer throws.
Terminates == GroupIsOver("terminated") /\ UNCHANGED <<host, dev>>

\* It was the use of an erased iterator, at once or by what it left behind.
Dies == GroupIsOver("died") /\ UNCHANGED <<host, dev>>

GoesOn == pc' = pc + 1 /\ UNCHANGED <<prog, tst, part, last, down>>

\* The conditions hold and the call does what eff says, or it throws.
CallOrThrow(ok, eff) == IF ok THEN GoesOn /\ eff ELSE Throws

Start ==
  /\ ~Over /\ pc = -1
  /\ Present.runnable
  /\ pc' = 0
  /\ UNCHANGED <<prog, tst, part, last, down, host, dev>>

\* The test cannot run, or the user wants it skipped or did not ask for it.
Skip ==
  /\ ~Over /\ pc = -1
  /\ Ends("skipped", IF Matrix[tst].lev = "X" THEN "X" ELSE "Z")
  /\ UNCHANGED <<host, dev>>

Complete ==
  /\ part = "test" /\ ~Over /\ pc = Len(Present.calls)
  /\ Ends("passed", "none")
  /\ null' = {}
  /\ UNCHANGED <<objs, missed, state, ioqes, irq, nodes, payload, mismatch, saved, dev>>

\* SaveState() or RestoreState() returns true.
StateDone ==
  /\ part # "test" /\ pc = Len(Code)
  /\ part' = "test" /\ pc' = -1
  /\ UNCHANGED <<prog, tst, last, down, host, dev>>

\* No more tests: tnvme goes on to the next group.
Finish == Over /\ UNCHANGED vars

-----------------------------------------------------------------------------
(***************************************************************************)
(* Calls into the framework                                                *)
(***************************************************************************)
SetStateDisableCompletely ==
  /\ Calls("disable") /\ Call.completely
  /\ Reset
  /\ GoesOn /\ UNCHANGED <<null, payload, mismatch, saved>>

\* SetState(ST_DISABLE) keeps the admin queues.  FreeAllObjNotASQACQ() goes on
\* with the iterator of an object it has erased: once it has erased one it may
\* miss any of the others, or be the end of the process.
SetStateDisable ==
  /\ Calls("disable") /\ ~Call.completely
  /\ LET others == objs \ AdminNodes
     IN  \/ /\ \E left \in SUBSET others :
                 /\ left = {} \/ left # others
                 /\ objs' = (objs \cap AdminNodes) \cup left /\ missed' = left
            /\ state' = "disabled" /\ irq' = 0
            /\ nodes' = Restrict(nodes, AdminNodes \cap DOMAIN nodes)
            /\ dev' = DevDisabled
            /\ GoesOn /\ UNCHANGED <<ioqes, null, payload, mismatch, saved>>
         \/ others # {} /\ Dies

\* The device becomes ready only with admin queues.
SetStateEnable ==
  /\ Calls("enable")
  /\ CallOrThrow(AdminNodes \subseteq DOMAIN nodes /\ dev.aq,
                 /\ state' = "enabled"
                 /\ UNCHANGED <<objs, missed, null, ioqes, irq, nodes, payload, mismatch, saved,
                                dev>>)

\* SetAnySchemeSpecifyNum(): only while the device is disabled.
SetIrqScheme ==
  /\ Calls("irq")
  /\ CallOrThrow(state = "disabled" /\ Call.n <= d.irqs,
                 /\ irq' = Call.n
                 /\ UNCHANGED <<objs, missed, null, state, ioqes, nodes, payload, mismatch, saved,
                                dev>>)

\* AllocObj() of a name that is taken, and an Init() that throws, leave an
\* object without a buffer to be destroyed.
CreateAdminQs ==
  /\ Calls("adminqs")
  /\ IF \/ Call.life = "grp" /\ objs \cap AdminNodes # {}
        \/ AdminNodes \cap DOMAIN nodes # {}
       THEN Terminates
       ELSE /\ objs' = IF Call.life = "grp" THEN objs \cup AdminNodes ELSE objs
            /\ nodes' = (<<"SQ", 0>> :> Call.sq) @@ (<<"CQ", 0>> :> Call.cq) @@ nodes
            /\ dev' = [dev EXCEPT !.aq = TRUE]
            /\ GoesOn
            /\ UNCHANGED <<missed, null, state, ioqes, irq, payload, mismatch, saved>>

\* An object not found is not noticed.
GetObj ==
  /\ Calls("get")
  /\ GoesOn
  /\ null' = null \cup (Call.objs \ objs)
  /\ UNCHANGED <<objs, missed, state, ioqes, irq, nodes, payload, mismatch, saved, dev>>

SetIOQESizes ==
  /\ Calls("ioqes")
  /\ GoesOn
  /\ ioqes' = ioqes \cup Call.which
  /\ UNCHANGED <<objs, missed, null, state, irq, nodes, payload, mismatch, saved, dev>>

\* IOCQ::Init(), IOSQ::Init(): dnvme refuses an ID that is in use.
InitQueue ==
  /\ Calls("initq")
  /\ CASE Call.life = "grp" /\ Call.q \in missed -> Dies
       [] Call.life = "grp" /\ Call.q \in objs \ missed -> Terminates
       [] Call.life # "grp" \/ Call.q \notin objs ->
            IF Call.q[1] \notin ioqes \/ Call.q \in DOMAIN nodes THEN Terminates
            ELSE /\ nodes' = nodes @@ (Call.q :> Call.n)
                 /\ objs' = IF Call.life = "grp" THEN objs \cup {Call.q} ELSE objs
                 /\ GoesOn
                 /\ UNCHANGED <<missed, null, state, ioqes, irq, payload, mismatch,
                                saved, dev>>

CheckOk ==
  /\ Calls("check")
  /\ CallOrThrow(Call.ok, UNCHANGED <<host, dev>>)

ThrowOnMismatch ==
  /\ Calls("mismatch")
  /\ CallOrThrow(~mismatch, UNCHANGED <<host, dev>>)

-----------------------------------------------------------------------------
(***************************************************************************)
(* The device                                                              *)
(***************************************************************************)
Has(c, field) == field \in DOMAIN c

\* What the device must refuse, and what it must not refuse.
Requires(flaw, ok, status) ==
  [refuses |-> ~ok /\ d.flaw # flaw, status |-> status]
Tolerates(flaw, ok, status) ==
  [refuses |-> ~ok /\ d.flaw = flaw, status |-> status]

CQExists(id) == \E q \in dev.queues.CQ : q.id = id
SQExists(id) == \E q \in dev.queues.SQ : q.id = id
SQsOf(cq) == {q \in dev.queues.SQ : q.cq = cq}

\* What each revision of the specification knows.
CNSValues == CASE d.rev = "10b" -> {0, 1} [] d.rev = "11" -> {0, 1, 2}
               [] d.rev = "12" -> {0, 1, 2} \cup 16 .. 19
FIDs == (CASE d.rev = "10b" -> 1 .. 11 [] d.rev = "11" -> 1 .. 12
           [] d.rev = "12" -> 1 .. 13)
          \cup {128, 129} \cup IF d.rsrv THEN {130, 131} ELSE {}
LIDs == {1, 2, 3} \cup d.lids

\* In the order in which the device looks at them.
AdminRules(c) ==
  CASE c.name = "CreateIOCQ" ->
         <<Requires("CreateIOCQ.qid", c.id \in 1 .. d.cqs, "INVALID_QID"),
           Requires("CreateIOCQ.again", ~CQExists(c.id), "INVALID_QID"),
           Requires("CreateIOCQ.qsize", c.n \in 2 .. d.mqes,
                    "MAX_Q_SIZE_EXCEED"),
           Requires("CreateIOCQ.cqr", c.contig \/ ~d.cqr, "INVALID_FIELD"),
           Requires("CreateIOCQ.vec", c.irq => c.vec < d.irqs,
                    "INVALID_INT_VEC"),
           Tolerates("CreateIOCQ.contig", c.contig, "INVALID_FIELD")>>
    [] c.name = "CreateIOSQ" ->
         <<Requires("CreateIOSQ.qid", c.id \in 1 .. d.sqs, "INVALID_QID"),
           Requires("CreateIOSQ.admin", c.cq # 0, "INVALID_QID"),
           Requires("CreateIOSQ.cqid", CQExists(c.cq), "CQ_INVALID"),
           Requires("CreateIOSQ.again", ~SQExists(c.id), "INVALID_QID"),
           Requires("CreateIOSQ.qsize", c.n \in 2 .. d.mqes,
                    "MAX_Q_SIZE_EXCEED"),
           Requires("CreateIOSQ.cqr", c.contig \/ ~d.cqr, "INVALID_FIELD"),
           Tolerates("CreateIOSQ.prio", ~Has(c, "prio"), "INVALID_FIELD")>>
    [] c.name = "DeleteIOCQ" ->
         <<Requires("DeleteIOCQ.qid", CQExists(c.id), "INVALID_QID"),
           Requires("DeleteIOCQ.inuse", SQsOf(c.id) = {}, "INVALID_Q_DELETION")>>
    [] c.name = "DeleteIOSQ" ->
         <<Requires("DeleteIOSQ.qid", SQExists(c.id), "INVALID_QID"),
           Tolerates("DeleteIOSQ.full",
                     ~\E q \in dev.queues.SQ : q.id = c.id /\ q.full, "ABORT")>>
    [] c.name = "Identify" ->
         <<Requires("Identify.cns", c.cns \in CNSValues, "INVALID_FIELD"),
           Requires("Identify.nsid", c.cns \in {0, 17} => c.nsid \in DOMAIN d.ns,
                    "INVAL_NAMSPC")>>
    [] c.name = "GetFeatures" ->
         <<Requires("GetFeatures.fid", c.fid \in FIDs, "INVALID_FIELD"),
           Requires("GetFeatures.select", ~Has(c, "sel") \/ c.sel < 4,
                    "INVALID_FIELD")>>
    [] c.name = "SetFeatures" ->
         <<Requires("SetFeatures.fid", c.fid \in FIDs, "INVALID_FIELD")>>
    [] c.name = "GetLogPage" ->
         <<Requires("GetLogPage.lid", c.lid \in LIDs, "INVAL_LOG_PAGE"),
           Requires("GetLogPage.nsid",
                    c.lid = LID_SMART =>
                      c.nsid \in {MAX_NSID} \cup IF d.lpa THEN DOMAIN d.ns ELSE {},
                    IF d.lpa \/ d.rev = "10b" THEN "INVAL_NAMSPC"
                    ELSE "INVALID_FIELD")>>
    [] c.name = "AdminCmd" ->
         <<Requires("AdminCmd.opcode", FALSE, "INVAL_OPCODE")>>
    [] c.name = "NamespaceManagement" ->
         <<Requires("Namespace.delete",
                    c.sel = "delete" => c.nsid \in dev.exist, "INVALID_FIELD")>>
    [] c.name = "NamespaceAttach" ->
         <<Requires("Namespace.detach",
                    c.sel = "detach" => c.nsid \in dev.attached, "NS_NOT_ATTACHED"),
           Requires("Namespace.attach",
                    c.sel = "attach" => c.nsid \notin dev.attached,
                    "NS_ALREADY_ATTACHED")>>

\* Fields the device must ignore, or take.
Optional(c, field) ==
  Tolerates(c.name \o "." \o field, ~Has(c, field), "INVALID_FIELD")

IORules(c) ==
  <<Requires("NVMCmd.opcode", c.name # "NVMCmd", "INVAL_OPCODE"),
    Requires(c.name \o ".nsid", c.nsid \in dev.attached, "INVAL_NAMSPC"),
    Requires(c.name \o ".range", Has(c, "slba") => c.slba + c.nlb <= d.nsze,
             "LBA_OUT_RANGE"),
    Requires("IO.mdts", c.name \in {"Read", "Write"} /\ d.mdts > 0 => c.nlb <= d.mdts,
             "INVALID_FIELD")>>
    \o [i \in 1 .. 7 |->
          Optional(c, <<"mptr", "prinfo", "fua", "lr", "prp2", "dsm", "attr">>[i])]

RsvdIgnored(c) == Tolerates(c.name \o ".rsvd", ~Has(c, "rsvd"), "INVALID_FIELD")

\* Status of a command under these rules.
Answer(c, rules) ==
  LET all == Append(rules, RsvdIgnored(c))
      refused == {i \in DOMAIN all : all[i].refuses}
  IN  IF refused = {} THEN "SUCCESS" ELSE all[Min(refused)].status

\* ces: CE's in it no one has reaped.
NewCQ(c) == [id |-> c.id, irq |-> c.irq, vec |-> c.vec, ces |-> 0]
NewSQ(c) == [id |-> c.id, n |-> c.n, cq |-> c.cq, full |-> FALSE]

\* A feature has the value -1 until it is set.
FeatureOf(dv, key) == IF key \in DOMAIN dv.feats THEN dv.feats[key] ELSE -1
Forgotten(c) ==
  \/ d.flaw = "SetFeatures." \o ToString(c.fid)
  \/ d.flaw = "SetFeatures.vec1" /\ c.fid = FID_IRQ_VEC_CONFIG /\ c.sub = 1
FeatsAfter(feats, c) ==
  LET key == <<c.fid, c.sub>>
  IN  IF Forgotten(c) THEN feats
      ELSE IF c.v = -1 THEN Restrict(feats, DOMAIN feats \ {key})
      ELSE (key :> c.v) @@ feats

Gone(dv, n) == [dv EXCEPT !.exist = @ \ {n}, !.attached = @ \ {n},
                          !.media[n] = [b \in DOMAIN @ |-> "gone"]]
FreeNSID(dv) == Min(DOMAIN d.ns \ dv.exist)

\* The device after an admin command that succeeded.
DevAfter(dv, c) ==
  CASE c.name = "CreateIOCQ" -> [dv EXCEPT !.queues.CQ = @ \cup {NewCQ(c)}]
    [] c.name = "CreateIOSQ" -> [dv EXCEPT !.queues.SQ = @ \cup {NewSQ(c)}]
    [] c.name = "DeleteIOCQ" -> [dv EXCEPT !.queues.CQ = {q \in @ : q.id # c.id}]
    [] c.name = "DeleteIOSQ" ->
         [dv EXCEPT !.queues.SQ = {q \in @ : q.id # c.id}]
    [] c.name = "SetFeatures" -> [dv EXCEPT !.feats = FeatsAfter(@, c)]
    [] c.name = "GetLogPage" /\ c.lid = LID_ErrInfo ->
         [dv EXCEPT !.aer.masked = FALSE]
    [] c.name = "NamespaceManagement" ->
         IF c.sel = "delete" THEN Gone(dv, c.nsid)
         ELSE [dv EXCEPT !.exist = @ \cup {FreeNSID(dv)}]
    [] c.name = "NamespaceAttach" ->
         IF c.sel = "detach" THEN [dv EXCEPT !.attached = @ \ {c.nsid}]
         ELSE [dv EXCEPT !.attached = @ \cup {c.nsid}]
    [] OTHER -> dv

\* Units of a log page the device writes.
LogLength(c) ==
  IF d.flaw # "GetLogPage.numd" THEN c.numd
  ELSE IF c.lid = LID_ErrInfo THEN c.numd + 1 ELSE Min({c.numd + 1, LOG_NUMD})

Unallocated ==
  Len(d.ns) - Cardinality(dev.exist)
    + IF d.flaw = "Namespace.capacity" THEN 1 ELSE 0

\* Blocks in use, as far as they are known.
NUSE(n) ==
  Cardinality({b \in DOMAIN dev.media[n] : dev.media[n][b] # "gone"})
    + IF d.flaw = "Identify.nuse" THEN 1 ELSE 0

\* What an admin command returns.
AdminPayload(c) ==
  CASE c.name = "GetLogPage" -> [i \in 1 .. LogLength(c) |-> "log"]
    [] c.name = "Identify" /\ Has(c, "field") -> <<ToString(NUSE(c.nsid))>>
    [] c.name = "Identify" /\ c.cns = CNS_Namespace ->
         <<IF c.nsid \in dev.attached THEN "struct" ELSE "zero">>
    [] c.name = "Identify" /\ c.cns = CNS_Controller -> <<Unallocated>>
    [] c.name = "Identify" /\ c.cns = CNS_NamespaceListSubsystem ->
         Ascending(dev.exist)
    [] OTHER -> payload

\* Queues dnvme forgets when the status of a command arrives: the one that
\* could not be created, the one that was deleted.
Freed(c, status) ==
  LET id == IF Has(c, "was") THEN c.was ELSE c.id
  IN  CASE c.name = "CreateIOCQ" /\ status # "SUCCESS" -> {<<"CQ", id>>}
        [] c.name = "CreateIOSQ" /\ status # "SUCCESS" -> {<<"SQ", id>>}
        [] c.name = "DeleteIOCQ" /\ status = "SUCCESS" -> {<<"CQ", id>>}
        [] c.name = "DeleteIOSQ" /\ status = "SUCCESS" -> {<<"SQ", id>>}
        [] OTHER -> {}

NodesWithout(freed) == Restrict(nodes, DOMAIN nodes \ freed)

-----------------------------------------------------------------------------
(***************************************************************************)
(* Commands                                                                *)
(***************************************************************************)
\* A command on queue q: its pointers are NULL, or the conditions hold and
\* the call does what eff says, or it throws.
CommandOrThrow(q, ok, eff) ==
  IF {<<"CQ", q>>, <<"SQ", q>>} \cap null # {} THEN Crashes
  ELSE CallOrThrow(ok, eff)

AdminReady == state = "enabled" /\ AdminNodes \subseteq DOMAIN nodes
IOReady(q) == state = "enabled" /\ <<"SQ", q>> \in DOMAIN nodes /\ SQExists(q)

\* A CE came to a CQ with this vector.
Interrupted(dv, vec) ==
  IF irq = 0 \/ d.flaw = "Irq.none" THEN dv
  ELSE [dv EXCEPT !.isr[IF d.flaw = "Irq.vec" THEN 0 ELSE vec] = @ + 1]

CQOf(q) == CHOOSE cq \in dev.queues.CQ :
             \E sq \in dev.queues.SQ : sq.id = q /\ sq.cq = cq.id
InterruptedBy(dv, cq) == IF cq.irq THEN Interrupted(dv, cq.vec) ELSE dv

\* IO::SendAndReapCmd() on the admin queues.  IRQ's are counted for the
\* calls the tests of GrpInterrupts make, the only ones to look at them.
SendAndReapAdmin ==
  /\ Calls("admin")
  /\ LET status == Answer(Call.c, AdminRules(Call.c))
     IN  CommandOrThrow(0, AdminReady /\ status \in Call.want,
                     /\ dev' = Interrupted(IF status = "SUCCESS"
                                           THEN DevAfter(dev, Call.c) ELSE dev, 0)
                     /\ payload' = IF status = "SUCCESS" THEN AdminPayload(Call.c)
                                   ELSE payload
                     /\ nodes' = NodesWithout(Freed(Call.c, status))
                     /\ UNCHANGED <<objs, missed, null, state, ioqes, irq, mismatch, saved>>)

SendAndReapAll ==
  /\ Calls("all")
  /\ CommandOrThrow(0, AdminReady /\ \A c \in Call.cs :
                                 Answer(c, AdminRules(c)) \in Call.want,
                 UNCHANGED <<host, dev>>)

\* Commands sent before any is reaped; an SQ holds one less than its size.
SendAndReapBatch ==
  /\ Calls("batch")
  /\ LET cs == Call.cs
         freed == UNION {Freed(cs[i], "SUCCESS") : i \in DOMAIN cs}
     IN  CommandOrThrow(0, /\ AdminReady /\ Len(cs) < nodes[<<"SQ", 0>>]
                           /\ \A i \in DOMAIN cs :
                                Answer(cs[i], AdminRules(cs[i])) = "SUCCESS",
                     /\ dev' = FoldLeft(DevAfter, dev, cs)
                     /\ nodes' = NodesWithout(freed)
                     /\ UNCHANGED <<objs, missed, null, state, ioqes, irq, payload, mismatch,
                                    saved>>)

\* SetFeatures, then GetFeatures with its CE.DW0; the status of the first
\* was success, or the second is not sent.
SetAndGetFeature ==
  /\ Calls("setget")
  /\ LET c == Call.c
         after == DevAfter(dev, c)
         differs == FeatureOf(after, <<c.fid, c.sub>>) # c.v
     IN  CommandOrThrow(0, /\ AdminReady /\ Answer(c, AdminRules(c)) = "SUCCESS"
                           /\ ~(Call.mode = "throw" /\ differs),
                     /\ dev' = after
                     /\ mismatch' = CASE Call.mode = "any" -> mismatch \/ differs
                                      [] Call.mode = "last" -> differs
                                      [] OTHER -> mismatch
                     /\ UNCHANGED <<objs, missed, null, state, ioqes, irq, nodes, payload, saved>>)

SaveOne ==
  /\ Calls("save")
  /\ CommandOrThrow(0, AdminReady,
                 /\ saved' = (Call.key :> FeatureOf(dev, Call.key)) @@ saved
                 /\ UNCHANGED <<objs, missed, null, state, ioqes, irq, nodes, payload, mismatch,
                                dev>>)

\* The feature does not take its value back: RestoreState() returns false and
\* RunTest() TR_FAIL.
RestoreOne ==
  /\ Calls("restore")
  /\ LET v == saved[Call.key]
         after == DevAfter(dev, SetFeatures(Call.key[1], Call.key[2], v))
     IN  IF ~AdminReady THEN Throws
         ELSE /\ dev' = after /\ UNCHANGED host
              /\ IF FeatureOf(after, Call.key) = v THEN GoesOn
                 ELSE GroupIsOver("failed")

Blocks(c) == c.slba .. c.slba + c.nlb - 1

\* What a block has in it after a write.
PatAt(pat, b) == IF pat = PerBlock THEN pat \o ToString(b) ELSE pat

\* The flaw is about the last block of a namespace of this type.
LosesLast(c, b) ==
  /\ b = d.nsze - 1
  /\ \/ c.name = "Write" /\ d.flaw = "Write.last." \o d.ns[c.nsid]
     \/ c.name = "Flush" /\ d.flaw = IF d.ns[c.nsid] = "BARE" THEN "Flush.bare"
                                     ELSE "Flush.meta"

BlockAfter(c, b, old) ==
  CASE LosesLast(c, b) -> "old"
    [] c.name = "Write" /\ b \in Blocks(c) -> PatAt(c.pat, b)
    [] c.name = "DatasetMgmt" /\ b \in Blocks(c) /\ c.ad -> "gone"
    [] OTHER -> old

MediaAfter(c) ==
  IF c.nsid \notin DOMAIN dev.media THEN dev.media
  ELSE [dev.media EXCEPT ![c.nsid] = [b \in DOMAIN @ |-> BlockAfter(c, b, @[b])]]

\* Pages of memory a transfer needs, from the page of its offset on.
Pages(c) == (c.off + c.nlb * BLOCK_UNITS + PageUnits(d) - 1) \div PageUnits(d)

\* Flaws of the way the device finds the memory.
Garbled(c) ==
  \/ d.flaw = "Read.data"
  \/ /\ Has(c, "off")
     /\ \/ d.flaw = "PRP.offset" /\ c.off > 0
        \/ d.flaw = "PRP.dual" /\ Pages(c) >= 2
        \/ d.flaw = "PRP.list" /\ Pages(c) >= 3
        \/ d.flaw = "PRP.long" /\ Pages(c) >= 4

PayloadAfter(c) ==
  IF c.name = "Read" /\ c.nsid \in DOMAIN dev.media /\ c.slba + c.nlb <= d.nsze
    THEN [i \in 1 .. c.nlb |->
            IF Garbled(c) THEN "old" ELSE dev.media[c.nsid][c.slba + i - 1]]
    ELSE payload

SendAndReapIO ==
  /\ Calls("io")
  /\ LET status == Answer(Call.c, IORules(Call.c))
     IN  CommandOrThrow(Call.q, IOReady(Call.q) /\ status \in Call.want,
                     /\ dev' = InterruptedBy(
                                 IF status = "SUCCESS"
                                   THEN [dev EXCEPT !.media = MediaAfter(Call.c)]
                                   ELSE dev, CQOf(Call.q))
                     /\ payload' = IF status = "SUCCESS"
                                   THEN PayloadAfter(Call.c) ELSE payload
                     /\ UNCHANGED <<objs, missed, null, state, ioqes, irq, nodes, mismatch, saved>>)

SendAndReapIOAll ==
  /\ Calls("ioall")
  /\ CommandOrThrow(Call.q, IOReady(Call.q) /\ \A c \in Call.cs :
                                 Answer(c, IORules(c)) \in Call.want,
                    UNCHANGED <<host, dev>>)

\* The ID of an SQ the device puts into a CE.
SQIDInCE(q) ==
  CASE d.flaw = "CE.sqid" -> 1 [] d.flaw = "CE.cqid" -> CQOf(q).id [] OTHER -> q

\* The next command of an SQ: what dnvme numbers it, and what its CE says.
SendVerifyCID ==
  /\ Calls("cid")
  /\ LET q == Call.q
         cids == MAX_U16 + 1
         cid == IF q \in DOMAIN dev.cid THEN (dev.cid[q] + 1) % cids ELSE 0
         right == /\ ~(d.flaw = "CE.cid" /\ cid = 0 /\ ~Call.first)
                  /\ q > 0 => SQIDInCE(q) = q
         after == [dev EXCEPT !.cid = (q :> cid) @@ @,
                              !.media = IF q > 0 THEN MediaAfter(Call.c) ELSE @]
     IN  CommandOrThrow(q, /\ AdminReady /\ right
                           /\ Call.first \/ cid = (payload[1] + 1) % cids,
                     /\ dev' = after
                     /\ payload' = IF Call.sets THEN <<cid>> ELSE payload
                     /\ UNCHANGED <<objs, missed, null, state, ioqes, irq, nodes, mismatch, saved>>)

\* Status of a command on queue q.
AnswerOn(q, c) == Answer(c, IF q = 0 THEN AdminRules(c) ELSE IORules(c))
Ready(q) == IF q = 0 THEN AdminReady ELSE IOReady(q)
EntriesOfCQ(q) == nodes[<<"CQ", IF q = 0 THEN 0 ELSE CQOf(q).id>>]

\* As many CE's as their CQ holds appear; no one reaps them.
FillQueues ==
  /\ Calls("fill")
  /\ LET q == Call.q
         room == EntriesOfCQ(q) - IF d.flaw = "Queue.full" THEN 2 ELSE 1
     IN  CommandOrThrow(q, /\ Ready(q) /\ Call.k < nodes[<<"SQ", q>>]
                           /\ AnswerOn(q, Call.c) = "SUCCESS"
                           /\ Call.ces <= Min({Call.k, room}),
                     /\ dev' = IF q = 0 THEN dev
                               ELSE [dev EXCEPT !.media = MediaAfter(Call.c),
                                       !.queues.SQ = {[s EXCEPT !.full = @ \/ s.id = q] :
                                                        s \in @}]
                     /\ UNCHANGED host)

\* The pointers of dnvme are 0 when the queues are new; the head of the
\* device in the last CE, and the pointers, have rolled over as often.
RollOver ==
  /\ Calls("roll")
  /\ LET q == Call.q
         n == nodes[<<"SQ", q>>]
         from == IF q = 0 THEN dev.head ELSE 0
     IN  CommandOrThrow(q, /\ Ready(q) /\ AnswerOn(q, Call.c) = "SUCCESS"
                           /\ (from + Call.k) % n = Call.k % n
                           /\ d.flaw = "CE.sqhd" => Call.k < n,
                     /\ dev' = IF q = 0 THEN [dev EXCEPT !.head = (@ + Call.k) % n]
                               ELSE [dev EXCEPT !.media = MediaAfter(Call.c)]
                     /\ UNCHANGED host)

\* A device that forgets the commands after the first one never answers them.
SendAndReapIOBatch ==
  /\ Calls("iobatch")
  /\ LET qs == DOMAIN Call.counts
         done == \A q \in qs : AnswerOn(q, Call.c) = "SUCCESS"
     IN  CommandOrThrow(0, /\ \A q \in qs :
                               /\ IOReady(q) /\ Call.counts[q] < nodes[<<"SQ", q>>]
                               /\ d.flaw = "Ring.many" => Call.counts[q] = 1
                           /\ Call.looks => done /\ \A q \in qs : SQIDInCE(q) = q,
                     /\ dev' = IF done THEN [dev EXCEPT !.media = MediaAfter(Call.c)]
                               ELSE dev
                     /\ UNCHANGED host)

CEsIn(dv, cq, n) ==
  [dv EXCEPT !.queues.CQ = {IF q = cq THEN [q EXCEPT !.ces = n] ELSE q : q \in @}]

\* A CE in a CQ that had none, and one left by a reap, cause an IRQ.
SendToIOSQ ==
  /\ Calls("send")
  /\ LET cq == CQOf(Call.q)
         after == CEsIn([dev EXCEPT !.media = MediaAfter(Call.c)], cq, cq.ces + 1)
     IN  CommandOrThrow(Call.q, /\ IOReady(Call.q)
                                /\ Answer(Call.c, IORules(Call.c)) = "SUCCESS"
                                /\ cq.ces + 1 < nodes[<<"CQ", cq.id>>]
                                /\ cq.ces + 1 = Call.ces,
                     /\ dev' = IF cq.ces = 0 THEN InterruptedBy(after, cq) ELSE after
                     /\ UNCHANGED host)

ReapIOCE ==
  /\ Calls("reapio")
  /\ LET cq == CQOf(Call.q)
         after == CEsIn(dev, cq, cq.ces - 1)
     IN  CommandOrThrow(Call.q, cq.ces > 0,
                     /\ dev' = IF cq.ces > 1 /\ d.flaw # "Irq.partial"
                               THEN InterruptedBy(after, cq) ELSE after
                     /\ UNCHANGED host)

CheckIsrCount ==
  /\ Calls("isr")
  /\ LET cq == CQOf(Call.q)
     IN  CallOrThrow(Call.n = IF cq.irq THEN dev.isr[cq.vec] ELSE 0,
                     UNCHANGED <<host, dev>>)

VerifyDataPat ==
  /\ Calls("verify")
  /\ CallOrThrow(\A i \in DOMAIN payload : payload[i] = Call.pat,
                 UNCHANGED <<host, dev>>)

VerifyDataPatFrom ==
  /\ Calls("verifyfrom")
  /\ CallOrThrow(\A i \in DOMAIN payload :
                   payload[i] = PatAt(Call.pat, Call.slba + i - 1),
                 UNCHANGED <<host, dev>>)

VerifyLength ==
  /\ Calls("verifylen")
  /\ CallOrThrow(Len(payload) = Call.n, UNCHANGED <<host, dev>>)

-----------------------------------------------------------------------------
(***************************************************************************)
(* Asynchronous events                                                     *)
(***************************************************************************)
\* An event waits until a request is outstanding and it is not masked; it
\* uses up the request and masks its type.
Reported(aer) ==
  IF aer.pending > 0 /\ aer.out > 0 /\ ~aer.masked
    THEN [aer EXCEPT !.pending = @ - 1, !.out = @ - 1,
                     !.masked = d.flaw # "AER.mask",
                     !.ces = Append(@, "event")]
    ELSE aer

\* One request: refused beyond the limit, else outstanding.
Requested(aer, rsvd) ==
  IF aer.out > d.aerl /\ d.flaw # "AER.limit"
    THEN [aer EXCEPT !.used = @ + 1, !.ces = Append(@, "exceed")]
  ELSE IF rsvd /\ d.flaw = "AER.rsvd"
    THEN [aer EXCEPT !.used = @ + 1, !.ces = Append(@, "error")]
  ELSE Reported([aer EXCEPT !.used = @ + 1, !.out = @ + 1])

SendAsyncEventRequests ==
  /\ Calls("aer")
  /\ CommandOrThrow(0, AdminReady /\ dev.aer.used + Call.n < nodes[<<"SQ", 0>>],
                 /\ dev' = [dev EXCEPT !.aer =
                              FoldLeft(LAMBDA aer, i : Requested(aer, Call.rsvd), @,
                                       [i \in 1 .. Call.n |-> i])]
                 /\ UNCHANGED host)

\* An event that is masked, or that a flawed device does not keep, is lost.
InvalidSQWriteDoorbell ==
  /\ Calls("doorbell")
  /\ LET aer == dev.aer
         lost == \/ aer.masked \/ d.flaw = "AER.event"
                 \/ d.flaw = "AER.queue" /\ aer.out = 0
     IN  CommandOrThrow(0, AdminReady,
                     /\ dev' = IF lost THEN dev
                               ELSE [dev EXCEPT !.aer =
                                       Reported([@ EXCEPT !.pending = @ + 1])]
                     /\ UNCHANGED host)

ReapInquiryWaitSpecify ==
  /\ Calls("expect")
  /\ CommandOrThrow(0, (Len(dev.aer.ces) >= Call.n) = Call.come, UNCHANGED <<host, dev>>)

\* The CE gives back the entries of the ASQ the device has fetched.
ReapOne ==
  /\ Calls("reap")
  /\ CommandOrThrow(0, dev.aer.ces = <<Call.kind>>,
                 /\ dev' = [dev EXCEPT !.aer.ces = <<>>, !.aer.used = 0]
                 /\ UNCHANGED host)

-----------------------------------------------------------------------------
(***************************************************************************)
(* Registers                                                               *)
(***************************************************************************)
ROBitsRight(r) ==
  /\ r.name \notin dev.wrong
  /\ r.name \in {"VS", "VS_11", "VS_12"} => r.dflt = d.vs

ReadROBits ==
  /\ Calls("readro")
  /\ LET right == \A r \in Call.regs : ROBitsRight(r)
     IN  CallOrThrow(Call.throw => right,
                     /\ mismatch' = (mismatch \/ ~right)
                     /\ UNCHANGED <<objs, missed, null, state, ioqes, irq, nodes, payload, saved,
                                    dev>>)

\* Writing RO bits has no effect, but for one register of a flawed device.
WriteROBits ==
  /\ Calls("writero")
  /\ LET takes == \/ d.flaw = "Ctl.readonly" /\ Call.reg.name = "AQA"
                  \/ d.flaw = "Pci.readonly" /\ Call.reg.name = "MXC"
         reg == {Call.reg.name}
     IN  /\ GoesOn
         /\ dev' = IF takes
                     THEN [dev EXCEPT !.wrong = IF Call.ones THEN @ \cup reg ELSE @ \ reg]
                     ELSE dev
         /\ UNCHANGED host

WriteRWBits ==
  /\ Calls("writerw")
  /\ GoesOn
  /\ dev' = [dev EXCEPT !.dirty = Call.regs]
  /\ UNCHANGED host

ReadRWBits ==
  /\ Calls("readrw")
  /\ CallOrThrow(dev.dirty = {} /\ dev.aq, UNCHANGED <<host, dev>>)

Next ==
  \/ Start \/ Skip \/ Complete \/ StateDone \/ Finish
  \/ SetStateDisableCompletely \/ SetStateDisable \/ SetStateEnable \/ SetIrqScheme \/ CreateAdminQs
  \/ GetObj \/ SetIOQESizes \/ InitQueue \/ CheckOk \/ ThrowOnMismatch
  \/ SendAndReapAdmin \/ SendAndReapAll \/ SendAndReapBatch
  \/ SetAndGetFeature \/ SaveOne \/ RestoreOne
  \/ SendAndReapIO \/ FillQueues \/ VerifyDataPat \/ VerifyLength
  \/ SendAsyncEventRequests \/ InvalidSQWriteDoorbell
  \/ ReapInquiryWaitSpecify \/ ReapOne
  \/ SendToIOSQ \/ ReapIOCE \/ CheckIsrCount
  \/ SendAndReapIOAll \/ SendVerifyCID \/ VerifyDataPatFrom
  \/ RollOver \/ SendAndReapIOBatch
  \/ ReadROBits \/ WriteROBits \/ WriteRWBits \/ ReadRWBits

Spec == Init /\ [][Next]_vars

-----------------------------------------------------------------------------
\* A device that conforms fails no test, whichever tests ran before it, were
\* skipped or were not asked for, and no test makes a queue that is there.
NoFalseFailure == d.flaw = "none" => last.verdict \notin {"failed", "terminated"}

\* Whatever the device does, no test uses a queue that is not there: a test
\* does not run when the one that makes its queues did not pass, nor when
\* the queues were freed by the failure of another.
NeverNull == last.verdict # "crashed"

\* A test a flawed device passes does not claim to find its flaw.
FlawFound ==
  last.verdict = "passed" => d.flaw \notin Matrix[last.tst].test.finds

\* With -p the blocks of the device keep their contents.
PreserveKept == d.preserve => dev.media = OldMedia(d)

\* With -y (--restore) the features have the values they had before the first
\* test when RunTest() is through with a test that failed, and when it is
\* through with the last one: whatever the tests before changed, passed,
\* failed or were skipped, and whatever they left enabled.
FeaturesRestored ==
  /\ d.restore /\ pc = -1 /\ (Over \/ last.verdict = "failed")
  /\ last.verdict \in {"passed", "failed", "skipped"}
  => dev.feats = EmptyFunction
=============================================================================
