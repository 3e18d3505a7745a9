------------------------------ MODULE TestOps ------------------------------
(***************************************************************************)
(* What a test case is made of.                                            *)
(*                                                                         *)
(* RunCoreTest() of a test is a straight sequence of calls into the        *)
(* framework whose loops and branches depend on what the device reported   *)
(* at start-up and on the command line, both known before the test runs.   *)
(* A test is therefore the sequence of these calls, one record per call;   *)
(* TestSuite executes it.  Names and values that only end up in a log, the *)
(* layout of buffers and the names of dump files are left out.             *)
(*                                                                         *)
(* A parameter d is the device under test with the command line:           *)
(*   rev           spec revision asked for: "10b", "11" or "12" (1.2 on)   *)
(*   preserve, rsvdfields    options of the command line                   *)
(*   sqs, cqs      number of IO SQ's and CQ's the device allocated         *)
(*   mqes          largest number of entries of an IO queue                *)
(*   cqr           CAP.CQR: IO queues must be contiguous                   *)
(*   irqs          number of interrupt vectors                             *)
(*   cqpp, sqpp    CQ and SQ entries in a page of memory                   *)
(*   ns            types of its namespaces, in the order of their IDs      *)
(*   aerl, elpe, npss    limits of Identify Controller, zero based         *)
(*   lpa, vwc, nsmgmt, sel, rsrv   whether it has SMART data per namespace,*)
(*                 a volatile cache, namespace management, the save and    *)
(*                 select fields of features, reservations                 *)
(*   lids          optional log pages it has                               *)
(*   dulbe, nsfeat whether error recovery has DULBE, is kept per namespace *)
(*   msix, keeps   whether it has MSI-X, keeps features through a reset    *)
(*   nsze          blocks of each namespace                                *)
(*   vs            minor version it reports, 3 with revision 1.3 asked for *)
(*   pcicaps       its list of PCI capabilities                            *)
(*   restore, setAD    options of the command line                         *)
(*   groups        the groups the command line asks for                    *)
(*   active        ID's of its active namespaces                           *)
(*   oacs, oncs    optional admin and NVM commands it has                  *)
(*   thin          whether it reports the blocks a namespace really uses   *)
(*   mdts          most blocks of a transfer, or 0                         *)
(*   bpp           blocks in a page of memory                              *)
(*   flaw          what is wrong with the device, or "none"                *)
(***************************************************************************)
EXTENDS Integers, Sequences, FiniteSets, SequencesExt

CONSTANTS
  MAX_IOQ_ID,        \* 0xFFFF
  MAX_Q_ENTRIES,     \* 64 * 1024
  MAX_ADMIN_Q_SIZE,  \* 4096
  MAX_NSID,          \* 0xFFFFFFFF, which also stands for all namespaces
  MAX_U16,           \* 0xFFFF, the largest value of a 16-bit field
  LOG_NUMD           \* dwords of a log page: 128

ASSUME LimitsAssumption ==
  /\ MAX_IOQ_ID \in Nat \ {0} /\ MAX_Q_ENTRIES \in Nat \ {0, 1}
  /\ MAX_ADMIN_Q_SIZE \in Nat /\ MAX_ADMIN_Q_SIZE >= 5
  /\ MAX_NSID \in Nat \ {0} /\ MAX_U16 \in Nat \ {0} /\ LOG_NUMD \in Nat \ {0}

IOQ_ID == 1

-----------------------------------------------------------------------------
(***************************************************************************)
(* Calls                                                                   *)
(***************************************************************************)
\* gCtrlrConfig->SetState()
Disable == <<[op |-> "disable", completely |-> FALSE]>>
DisableCompletely == <<[op |-> "disable", completely |-> TRUE]>>
Enable == <<[op |-> "enable"]>>

\* IRQ::SetAnySchemeSpecifyNum()
SetIRQ(n) == <<[op |-> "irq", n |-> n]>>

\* An ACQ and an ASQ are made and Init()'ed, with the lifetime of the group
\* (gRsrcMngr->AllocObj()) or of the test.
AdminQs2(life, sq, cq) == <<[op |-> "adminqs", life |-> life, sq |-> sq, cq |-> cq]>>
AdminQs(life, n) == AdminQs2(life, n, n)

\* gRsrcMngr->GetObj(): queues with group lifetime, ID 0 the admin queues.
Get(objs) == <<[op |-> "get", objs |-> objs]>>
GetAdminQs == Get({<<"CQ", 0>>, <<"SQ", 0>>})
GetIOQs(id) == Get({<<"CQ", id>>, <<"SQ", id>>})

\* SetIOCQES(), SetIOSQES() with the sizes the device requires.
SetIOQES(which) == <<[op |-> "ioqes", which |-> which]>>
BothIOQES == SetIOQES({"CQ", "SQ"})

\* throw FrmwkEx unless ok
Check(ok) == <<[op |-> "check", ok |-> ok]>>

\* IO::SendAndReapCmd() on the admin queues, and on IO queue q: the command
\* completes with one of the statuses in want.
AdminWant(c, want) == <<[op |-> "admin", c |-> c, want |-> want]>>
Admin(c) == AdminWant(c, {"SUCCESS"})
IO(q, c) == <<[op |-> "io", q |-> q, c |-> c, want |-> {"SUCCESS"}]>>
IOWant(q, c, want) == <<[op |-> "io", q |-> q, c |-> c, want |-> want]>>

\* A set of commands, one after the other, none of which changes the device.
AdminAll(cs, want) == <<[op |-> "all", cs |-> cs, want |-> want]>>

\* IO::SendAndReapCmdNot(): whatever the status, it is not success.
Refusals == {"INVALID_FIELD", "INVALID_QID", "MAX_Q_SIZE_EXCEED", "CQ_INVALID",
             "INVALID_INT_VEC", "INVALID_Q_DELETION", "INVAL_NAMSPC",
             "INVAL_LOG_PAGE", "INVAL_OPCODE", "LBA_OUT_RANGE", "ABORT"}

\* Send() each of cs, Ring(), and reap as many CE's, all of them successful.
AdminBatch(cs) == <<[op |-> "batch", cs |-> cs]>>

\* Send() k times c to IO SQ q, Ring(), and wait for ces CE's, not reaped.
IOFill(q, c, k, ces) ==
  <<[op |-> "fill", q |-> q, c |-> c, k |-> k, ces |-> ces]>>

\* Send() c to IO SQ q and Ring(): there are then ces CE's in its CQ.
IOSend(q, c, ces) == <<[op |-> "send", q |-> q, c |-> c, ces |-> ces]>>
\* IO::ReapCE() of one of them.
IOReap(q) == <<[op |-> "reapio", q |-> q]>>

\* VerifyDataPat(): the payload of the last read is pat, block by block.
Verify(pat) == <<[op |-> "verify", pat |-> pat]>>

\* The payload received has n units, the rest of the buffer is untouched.
VerifyLen(n) == <<[op |-> "verifylen", n |-> n]>>

\* A command with a field more.
With(c, field, val) ==
  [f \in DOMAIN c \cup {field} |-> IF f = field THEN val ELSE c[f]]

\* A command with every unsupported DW and reserved field set.
Rsvd(c) == With(c, "rsvd", TRUE)

\* The calls for each element of s, one after the other.
ForEach(s, Op(_)) == FlattenSeq([i \in DOMAIN s |-> Op(s[i])])

\* A set of numbers, smallest first.
Ascending(S) ==
  [i \in 1 .. Cardinality(S) |->
     CHOOSE x \in S : Cardinality({y \in S : y < x}) = i - 1]

-----------------------------------------------------------------------------
(***************************************************************************)
(* Utils/queues.cpp                                                        *)
(***************************************************************************)
\* IOCQ::Init() and IOSQ::Init(): dnvme prepares memory for the queue.
InitIOCQ(id, n, life) ==
  <<[op |-> "initq", q |-> <<"CQ", id>>, n |-> n, life |-> life]>>
InitIOSQ(id, n, life) ==
  <<[op |-> "initq", q |-> <<"SQ", id>>, n |-> n, life |-> life]>>

CreateIOCQ(id, n, contig, irq, vec) ==
  [name |-> "CreateIOCQ", id |-> id, n |-> n, contig |-> contig, irq |-> irq,
   vec |-> vec]
CreateIOSQ(id, n, contig, cq) ==
  [name |-> "CreateIOSQ", id |-> id, n |-> n, contig |-> contig, cq |-> cq]
DeleteIOCQ(id) == [name |-> "DeleteIOCQ", id |-> id]
DeleteIOSQ(id) == [name |-> "DeleteIOSQ", id |-> id]

CreateIOCQContigToHdw(id, n, life, irq, vec) ==
  InitIOCQ(id, n, life) \o Admin(CreateIOCQ(id, n, TRUE, irq, vec))

CreateIOSQContigToHdw(id, n, life, cq) ==
  InitIOSQ(id, n, life) \o Admin(CreateIOSQ(id, n, TRUE, cq))

\* The memory supplied, of a size in CQ entries, must hold the queue.
CreateIOCQDiscontigToHdw(id, n, life, irq, vec, mem) ==
  Check(mem >= n) \o InitIOCQ(id, n, life)
    \o Admin(CreateIOCQ(id, n, FALSE, irq, vec))

\* The size of an SQ, too, is reckoned in CQ entries.
CreateIOSQDiscontigToHdw(id, n, life, cq, mem) ==
  Check(mem >= n) \o InitIOSQ(id, n, life)
    \o Admin(CreateIOSQ(id, n, FALSE, cq))

DeleteIOCQToHdw(id) == Admin(DeleteIOCQ(id))
DeleteIOSQToHdw(id) == Admin(DeleteIOSQ(id))

SupportDiscontigIOQ(d) == ~d.cqr

\* DISABLE_COMPLETELY, the admin queues, one IRQ vector, ENABLE: as in
\* BasicAdminQueueSetup() and as most tests begin.
SetupAdminQs(life, n) ==
  DisableCompletely \o AdminQs(life, n) \o SetIRQ(1) \o Enable

-----------------------------------------------------------------------------
(***************************************************************************)
(* Singletons/informative.cpp                                              *)
(***************************************************************************)
GetFeaturesNumOfIOCQs(d) == d.cqs
GetFeaturesNumOfIOSQs(d) == d.sqs

E2E == {"E2ES", "E2EI"}

\* IDs of the namespaces of a type.
NamespacesOf(d, type) == {n \in DOMAIN d.ns : d.ns[n] = type}

\* Get1stBareMetaE2E(): the ID of the first namespace of the first type in
\* this order there is one of.
Get1stBareMetaE2E(d) ==
  LET types == <<"BARE", "METAS", "METAI", "E2ES", "E2EI">>
      first == CHOOSE i \in DOMAIN types :
                 /\ NamespacesOf(d, types[i]) # {}
                 /\ \A j \in 1 .. i - 1 : NamespacesOf(d, types[j]) = {}
  IN  CHOOSE n \in NamespacesOf(d, types[first]) :
        \A m \in NamespacesOf(d, types[first]) : n <= m

-----------------------------------------------------------------------------
(***************************************************************************)
(* Commands of the NVM command set                                         *)
(***************************************************************************)
\* nlb blocks from slba, all of them with the pattern pat.
Write(nsid, slba, nlb, pat) ==
  [name |-> "Write", nsid |-> nsid, slba |-> slba, nlb |-> nlb, pat |-> pat]
Read(nsid, slba, nlb) ==
  [name |-> "Read", nsid |-> nsid, slba |-> slba, nlb |-> nlb]

\* WriteReadVerify() of several tests: block 0 of the first bare, else meta
\* namespace is written, read and compared; E2E is left for the future.
WriteReadVerify(d) ==
  LET nsid == Get1stBareMetaE2E(d)
  IN  Check(d.ns[nsid] \notin E2E)
        \o IO(IOQ_ID, Write(nsid, 0, 1, "word++"))
        \o IO(IOQ_ID, Read(nsid, 0, 1))
        \o Verify("word++")

-----------------------------------------------------------------------------
(***************************************************************************)
(* Test matrices                                                           *)
(***************************************************************************)
\* A test: whether RunnableCoreTest() lets it run, its calls, and what its
\* description says it finds wrong with a device.
Test(runnable, calls, finds) ==
  [runnable |-> runnable, calls |-> calls, finds |-> finds]

\* APPEND_TEST_AT_XLEVEL, _YLEVEL, _ZLEVEL
X(t) == [lev |-> "X", test |-> t]
Y(t) == [lev |-> "Y", test |-> t]
Z(t) == [lev |-> "Z", test |-> t]
=============================================================================
