----------------------------- MODULE AdminTests -----------------------------
(***************************************************************************)
(* Groups GrpAdminIdentifyCmd, GrpAdminGetFeatCmd, GrpAdminSetFeatCmd,     *)
(* GrpAdminGetLogPgCmd, GrpAdminAsyncCmd, GrpAdminSetGetFeatCombo and      *)
(* GrpAdminNamespaceManagement: tests of the other admin commands.         *)
(***************************************************************************)
EXTENDS AdminQueueTests

\* The tests of these groups look up the queues CreateResources_r10b made.
OnGroupQueues(runnable, calls, finds) ==
  Test(runnable, GetAdminQs \o calls, finds)

ByRev(d, r10b, r11, r12) ==
  CASE d.rev = "10b" -> r10b [] d.rev = "11" -> r11 [] d.rev = "12" -> r12

NN(d) == Len(d.ns)

-----------------------------------------------------------------------------
(***************************************************************************)
(* GrpAdminIdentifyCmd                                                     *)
(***************************************************************************)
CNS_Namespace == 0
CNS_Controller == 1

Identify(cns, nsid) == [name |-> "Identify", cns |-> cns, nsid |-> nsid]

Identify_CreateResources_r10b(d) == CreateResources(5)

\* The first namespace, into a buffer that needs PRP1 only, and both PRP's.
Identify_PRP1_r10b(d) ==
  OnGroupQueues(TRUE, Check(NN(d) > 0) \o Admin(Identify(CNS_Namespace, 1)), {})
Identify_PRP1PRP2_r10b(d) ==
  OnGroupQueues(TRUE, Check(NN(d) > 0) \o Admin(Identify(CNS_Namespace, 1)), {})

Identify_Rsvd(d) ==
  Check(NN(d) > 0) \o Admin(Identify(CNS_Namespace, 1))
    \o Admin(Rsvd(Identify(CNS_Namespace, 1)))

Identify_UnsupportRsvdFields_r10b(d) ==
  OnGroupQueues(d.rsvdfields, Identify_Rsvd(d), {"Identify.rsvd"})
Identify_UnsupportRsvdFields_r11b(d) ==
  OnGroupQueues(d.rsvdfields,
                Identify_Rsvd(d) \o AdminWant(Identify(3, 1), Refusals),
                {"Identify.rsvd", "Identify.cns"})
Identify_UnsupportRsvdFields_r12(d) ==
  LET rsvd == (0 .. 255) \ ({0, 1, 2} \cup 16 .. 19)
  IN  OnGroupQueues(d.rsvdfields,
                    Identify_Rsvd(d)
                      \o AdminAll({Identify(cns, 1) : cns \in rsvd}, Refusals),
                    {"Identify.rsvd", "Identify.cns"})

\* The ID's above NN; the code takes samples of them.
InvalidNSIDs(d) == NN(d) + 1 .. MAX_NSID - 1

Identify_InvalidNamspc_r10b(d) ==
  OnGroupQueues(TRUE,
                AdminAll({Identify(CNS_Namespace, n) : n \in InvalidNSIDs(d)},
                         {"INVAL_NAMSPC"}),
                {"Identify.nsid"})

GrpAdminIdentifyCmd(d) ==
  <<X(Identify_CreateResources_r10b(d)),
    Y(Identify_PRP1_r10b(d)),
    Y(Identify_PRP1PRP2_r10b(d)),
    Y(ByRev(d, Identify_UnsupportRsvdFields_r10b(d),
            Identify_UnsupportRsvdFields_r11b(d),
            Identify_UnsupportRsvdFields_r12(d))),
    Y(Identify_InvalidNamspc_r10b(d))>>

-----------------------------------------------------------------------------
(***************************************************************************)
(* GrpAdminGetFeatCmd and GrpAdminSetFeatCmd                               *)
(***************************************************************************)
\* A feature by its number, and what tells its instances apart: a namespace
\* or an interrupt vector.
GetFeatures(fid, sub) == [name |-> "GetFeatures", fid |-> fid, sub |-> sub]
SetFeatures(fid, sub, v) ==
  [name |-> "SetFeatures", fid |-> fid, sub |-> sub, v |-> v]

GetFeat_CreateResources_r10b(d) == CreateResources(5)

\* getInvalidFIDs() fills its own copy of the vector.
InvalidFIDs(fids) == {}

GetFeat_InvalidField(fids) ==
  OnGroupQueues(TRUE,
                AdminAll({GetFeatures(f, 0) : f \in InvalidFIDs(fids)},
                         {"INVALID_FIELD"}),
                {"GetFeatures.fid"})

GetFeat_InvalidFieldInCmd_r10b(d) ==
  GetFeat_InvalidField({0} \cup 12 .. 127 \cup 129 .. 191)
GetFeat_InvalidFieldInCmd_r11(d) ==
  GetFeat_InvalidField({0} \cup 13 .. 127 \cup (IF d.rsrv THEN 132 ELSE 129) .. 191)
GetFeat_InvalidFieldInCmd_r12(d) ==
  GetFeat_InvalidField({0} \cup 14 .. 127 \cup (IF d.rsrv THEN 132 ELSE 129) .. 191)

GetFeat_UnsupportRsvdFields_r10b(d) ==
  OnGroupQueues(d.rsvdfields, Admin(Rsvd(GetFeatures(1, 0))),
                {"GetFeatures.rsvd"})

\* The reserved values of Select replace the whole of DW10, and with it FID.
RsvdSelect(d) ==
  IF d.sel
    THEN AdminAll({With(GetFeatures(0, 0), "sel", s) : s \in 4 .. 7},
                  {"INVALID_FIELD"})
    ELSE <<>>

GetFeat_UnsupportRsvdFields_r11b(d) ==
  OnGroupQueues(d.rsvdfields,
                Admin(Rsvd(GetFeatures(1, 0))) \o RsvdSelect(d)
                  \o AdminAll({GetFeatures(f, 0) : f \in 13 .. 127}, Refusals),
                {"GetFeatures.rsvd", "GetFeatures.fid"}
                  \cup IF d.sel THEN {"GetFeatures.select"} ELSE {})
GetFeat_UnsupportRsvdFields_r12(d) ==
  LET rsvd == {0, 14} \cup 16 .. 125 \cup 132 .. 191
  IN  OnGroupQueues(TRUE,
                    Admin(GetFeatures(1, 0)) \o Admin(Rsvd(GetFeatures(1, 0)))
                      \o RsvdSelect(d)
                      \o AdminAll({GetFeatures(f, 0) : f \in rsvd}, Refusals),
                    {"GetFeatures.rsvd", "GetFeatures.fid"}
                      \cup IF d.sel THEN {"GetFeatures.select"} ELSE {})

GrpAdminGetFeatCmd(d) ==
  <<X(GetFeat_CreateResources_r10b(d)),
    Y(ByRev(d, GetFeat_InvalidFieldInCmd_r10b(d),
            GetFeat_InvalidFieldInCmd_r11(d),
            GetFeat_InvalidFieldInCmd_r12(d))),
    Y(ByRev(d, GetFeat_UnsupportRsvdFields_r10b(d),
            GetFeat_UnsupportRsvdFields_r11b(d),
            GetFeat_UnsupportRsvdFields_r12(d)))>>

\* No IRQ scheme is set.
SetFeat_InvalidField(d, fids) ==
  LET above == (IF d.rsrv THEN 132 ELSE 130) .. 191
  IN  Test(TRUE,
           DisableCompletely \o AdminQs("tst", 5) \o Enable
             \o AdminAll({SetFeatures(f, 0, 0) : f \in fids \cup above},
                         {"INVALID_FIELD"}),
           {"SetFeatures.fid"})

SetFeat_InvalidFieldInCmd_r10b(d) ==
  SetFeat_InvalidField(d, {0} \cup 13 .. 127)
SetFeat_InvalidFieldInCmd_r12(d) ==
  SetFeat_InvalidField(d, {0, 14} \cup 16 .. 119)

GrpAdminSetFeatCmd(d) ==
  <<X(ByRev(d, SetFeat_InvalidFieldInCmd_r10b(d),
            SetFeat_InvalidFieldInCmd_r10b(d),
            SetFeat_InvalidFieldInCmd_r12(d)))>>

-----------------------------------------------------------------------------
(***************************************************************************)
(* GrpAdminGetLogPgCmd                                                     *)
(***************************************************************************)
LID_ErrInfo == 1
LID_SMART == 2
LID_FW == 3

\* numd in dwords; of the error information, in entries.
GetLogPage(lid, nsid, numd) ==
  [name |-> "GetLogPage", lid |-> lid, nsid |-> nsid, numd |-> numd]

GetLogPg_CreateResources_r10b(d) == CreateResources(5)

GetLogPg_PRP1_r10b(d) ==
  OnGroupQueues(TRUE, Admin(GetLogPage(LID_FW, MAX_NSID, LOG_NUMD)), {})
GetLogPg_PRP1PRP2_r10b(d) ==
  OnGroupQueues(TRUE, Admin(GetLogPage(LID_FW, MAX_NSID, LOG_NUMD)), {})

GetLogPg_Rsvd(d) ==
  Admin(GetLogPage(LID_FW, MAX_NSID, LOG_NUMD))
    \o Admin(Rsvd(GetLogPage(LID_FW, MAX_NSID, LOG_NUMD)))
RsvdLIDs(lids) ==
  AdminAll({GetLogPage(lid, MAX_NSID, LOG_NUMD) : lid \in lids}, Refusals)

GetLogPg_UnsupportRsvdFields_r10b(d) ==
  OnGroupQueues(d.rsvdfields, GetLogPg_Rsvd(d), {"GetLogPage.rsvd"})
GetLogPg_UnsupportRsvdFields_r11b(d) ==
  OnGroupQueues(d.rsvdfields,
                GetLogPg_Rsvd(d)
                  \o RsvdLIDs({0} \cup 4 .. 127 \cup 129 .. 191),
                {"GetLogPage.rsvd", "GetLogPage.lid"})
GetLogPg_UnsupportRsvdFields_r12(d) ==
  OnGroupQueues(TRUE,
                GetLogPg_Rsvd(d) \o RsvdLIDs(7 .. 111 \cup 129 .. 191),
                {"GetLogPage.rsvd", "GetLogPage.lid"})

GetLogPg_InvalidLogPage(lids) ==
  OnGroupQueues(TRUE,
                AdminAll({GetLogPage(lid, MAX_NSID, LOG_NUMD) : lid \in lids},
                         {"INVAL_LOG_PAGE"}),
                {"GetLogPage.lid"})
GetLogPg_InvalidLogPageNVMSet_r10b(d) ==
  GetLogPg_InvalidLogPage({0} \cup 4 .. 191)
\* Also appended for 1.2, where 4, 5 and 6 are no longer reserved.
GetLogPg_InvalidLogPageNVMSet_r11b(d) ==
  GetLogPg_InvalidLogPage({0} \cup 4 .. 127 \cup 129 .. 191)

\* SMART data of namespaces that do not exist, that do, and of all of them.
GetLogPg_InvalidNamspc(d, status) ==
  LET smart(n) == GetLogPage(LID_SMART, n, LOG_NUMD)
  IN  OnGroupQueues(TRUE,
        Check(NN(d) > 0)
          \o AdminAll({smart(n) : n \in InvalidNSIDs(d)}, {status})
          \o AdminAll({smart(n) : n \in IF d.lpa THEN 1 .. NN(d) ELSE {}},
                      {"SUCCESS"})
          \o Admin(smart(MAX_NSID)),
        {"GetLogPage.nsid"})
GetLogPg_InvalidNamspc_r10b(d) == GetLogPg_InvalidNamspc(d, "INVAL_NAMSPC")
GetLogPg_InvalidNamspc_r11a(d) ==
  GetLogPg_InvalidNamspc(d, IF d.lpa THEN "INVAL_NAMSPC" ELSE "INVALID_FIELD")

\* No byte beyond NUMD is written.
LessDwords(lid, nsid, upto) ==
  LET ask(n) == Admin(GetLogPage(lid, nsid, n)) \o VerifyLen(n)
  IN  ForEach(Ascending(1 .. upto), ask)

GetLogPg_NUMDIsAdhered_r10b(d) ==
  LET half == LOG_NUMD \div 2
  IN  OnGroupQueues(TRUE,
                    Admin(GetLogPage(LID_FW, MAX_NSID, half)) \o VerifyLen(half),
                    {"GetLogPage.numd"})
\* As many entries as there are, or fit two pages.
GetLogPg_MandatoryErrInfo_r10b(d) ==
  OnGroupQueues(TRUE, LessDwords(LID_ErrInfo, MAX_NSID, Min({d.elpe + 1, 128})),
                {"GetLogPage.numd"})
GetLogPg_MandatorySMART_r10b(d) ==
  LET perNamspc(n) == LessDwords(LID_SMART, n, LOG_NUMD)
  IN  OnGroupQueues(TRUE,
        Check(NN(d) > 0) \o LessDwords(LID_SMART, MAX_NSID, LOG_NUMD)
          \o ForEach(IF d.lpa THEN Ascending(1 .. NN(d)) ELSE <<>>, perNamspc),
        {"GetLogPage.numd"})
GetLogPg_MandatoryFW_r10b(d) ==
  OnGroupQueues(TRUE, LessDwords(LID_FW, MAX_NSID, LOG_NUMD),
                {"GetLogPage.numd"})

GrpAdminGetLogPgCmd(d) ==
  <<X(GetLogPg_CreateResources_r10b(d)),
    Y(GetLogPg_PRP1_r10b(d)),
    Y(GetLogPg_PRP1PRP2_r10b(d)),
    Y(ByRev(d, GetLogPg_UnsupportRsvdFields_r10b(d),
            GetLogPg_UnsupportRsvdFields_r11b(d),
            GetLogPg_UnsupportRsvdFields_r12(d))),
    Y(GetLogPg_NUMDIsAdhered_r10b(d)),
    Y(ByRev(d, GetLogPg_InvalidLogPageNVMSet_r10b(d),
            GetLogPg_InvalidLogPageNVMSet_r11b(d),
            GetLogPg_InvalidLogPageNVMSet_r11b(d))),
    Y(ByRev(d, GetLogPg_InvalidNamspc_r10b(d), GetLogPg_InvalidNamspc_r11a(d),
            GetLogPg_InvalidNamspc_r11a(d))),
    Y(GetLogPg_MandatoryErrInfo_r10b(d)),
    Y(GetLogPg_MandatorySMART_r10b(d)),
    Y(GetLogPg_MandatoryFW_r10b(d))>>

-----------------------------------------------------------------------------
(***************************************************************************)
(* GrpAdminAsyncCmd                                                        *)
(***************************************************************************)
\* SendAsyncEventRequests(): Send() and Ring() n times, nothing is reaped.
SendAER(n, rsvd) == <<[op |-> "aer", n |-> n, rsvd |-> rsvd]>>

\* InvalidSQWriteDoorbell(): the doorbell of an IO SQ that does not exist.
BadDoorbell == <<[op |-> "doorbell"]>>

\* ReapInquiryWaitSpecify() for n CE's of the ACQ: they must, must not come.
ExpectCE(n) == <<[op |-> "expect", n |-> n, come |-> TRUE]>>
ExpectNoCE(n) == <<[op |-> "expect", n |-> n, come |-> FALSE]>>

\* Reap(): the number inquired, which must be one, of this kind.
ReapCE(kind) == <<[op |-> "reap", kind |-> kind]>>

\* ReadLogPage(): the log the event names, which unmasks the event.
ReadLogPage(d) == Admin(GetLogPage(LID_ErrInfo, 0, d.elpe + 1))

Event == ExpectCE(1) \o ReapCE("event")

\* The request is answered only when there is an event.
TestAsyncEvents(d, rsvd) ==
  SendAER(1, rsvd) \o ExpectNoCE(1) \o BadDoorbell \o Event \o ReadLogPage(d)

AsyncRsvd(d) ==
  Test(d.rsvdfields /\ ~d.preserve,
       SetupAdminQs("tst", 5) \o TestAsyncEvents(d, FALSE)
         \o TestAsyncEvents(d, TRUE),
       {"AER.rsvd", "AER.event"})
Async_UnsupportRsvdFields_r10b(d) == AsyncRsvd(d)
Async_UnsupportRsvdFields_r11b(d) == AsyncRsvd(d)
\* Asks up to ten times for the CE.
Async_UnsupportRsvdFields_r12(d) == AsyncRsvd(d)

\* A reset takes the request away, so the event after it is not reported.
AbortByReset_r10b(d) ==
  LET again == Disable \o SetIRQ(1) \o Enable
  IN  Test(~d.preserve,
           SetupAdminQs("tst", 5) \o SendAER(1, FALSE) \o ExpectNoCE(1)
             \o again \o BadDoorbell \o ExpectNoCE(1) \o again,
           {"AER.reset"})

\* uint8_t nAerlimit
nAerlimit(d) == (d.aerl + 1) % 256

VerifyMaxEvents_r10b(d) ==
  LET event(i) == BadDoorbell \o Event \o ReadLogPage(d)
  IN  Test(~d.preserve,
           SetupAdminQs("tst", nAerlimit(d) + 2)
             \o SendAER(nAerlimit(d) + 1, FALSE)
             \o ExpectCE(1) \o ReapCE("exceed")
             \o ForEach(Ascending(1 .. nAerlimit(d)), event),
           {"AER.limit"})

\* The first event is reaped, but its log is not read: no other is reported.
\* The test then waits for two CE's, although the first was reaped already.
VerifyMasking_r10b(d) ==
  LET event(i) == BadDoorbell \o IF i = 1 THEN Event ELSE ExpectNoCE(2)
  IN  Test(d.aerl + 1 >= 2 /\ ~d.preserve,
           SetupAdminQs("tst", nAerlimit(d) + 1)
             \o SendAER(nAerlimit(d), FALSE)
             \o ForEach(Ascending(1 .. nAerlimit(d)), event)
             \o SetupAdminQs("tst", nAerlimit(d) + 1),
           {"AER.mask"})

\* An event without a request waits for one.
VerifyEventQueueing_r10b(d) ==
  Test(~d.preserve,
       SetupAdminQs("tst", 5) \o BadDoorbell \o ExpectNoCE(1)
         \o SendAER(1, FALSE) \o Event,
       {"AER.queue"})

GrpAdminAsyncCmd(d) ==
  <<X(ByRev(d, Async_UnsupportRsvdFields_r10b(d),
            Async_UnsupportRsvdFields_r11b(d),
            Async_UnsupportRsvdFields_r12(d))),
    X(AbortByReset_r10b(d)),
    X(VerifyMaxEvents_r10b(d)),
    X(VerifyMasking_r10b(d)),
    X(VerifyEventQueueing_r10b(d))>>

-----------------------------------------------------------------------------
(***************************************************************************)
(* GrpAdminSetGetFeatCombo                                                 *)
(***************************************************************************)
\* SetFeatures of v, GetFeatures: a value other than v makes the test throw
\* at once ("throw"), or is remembered from any of these calls ("any"), or
\* from the last one only ("last").
SetGet(fid, sub, v, mode) ==
  <<[op |-> "setget", c |-> SetFeatures(fid, sub, v), mode |-> mode]>>
ThrowIfMismatch == <<[op |-> "mismatch"]>>

\* The powers of two up to the limit of a field, with their neighbours.
PowersOf2 == Ascending({p \in 1 .. MAX_U16 : \E k \in 0 .. 15 : p = 2 ^ k})
PowerValues ==
  LET near(p) == SelectSeq(<<p - 1, p, p + 1>>, LAMBDA v : v <= MAX_U16)
  IN  ForEach(PowersOf2, near)

\* What a device does when it accepts a value and does not keep it.
Forgets(fid) == {"SetFeatures." \o ToString(fid)}

FID_ARBITRATION == 1
FID_PWR_MGMT == 2
FID_TEMP_THRESHOLD == 4
FID_ERR_RECOVERY == 5
FID_VOL_WR_CACHE == 6
FID_IRQ_COALESCING == 8
FID_IRQ_VEC_CONFIG == 9
FID_WRITE_ATOMICITY == 10
FID_ASYNC_EVENT_CONFIG == 11

\* Each value is set and read back; all of them are tried before it throws.
FIDTest(d, fid, values) ==
  LET try(v) == SetGet(fid, 0, v, "any")
  IN  Test(~d.preserve,
           SetupAdminQs("tst", 5) \o ForEach(values, try) \o ThrowIfMismatch,
           Forgets(fid))

\* A value the device refuses is not compared; the 32-bit values are
\* represented by a few.
FIDArbitration_r10b(d) ==
  LET try(v) == SetGet(FID_ARBITRATION, 0, v, "throw")
  IN  Test(~d.preserve, SetupAdminQs("tst", 5) \o ForEach(<<0, 1, 2, 7>>, try),
           Forgets(FID_ARBITRATION))
FIDPwrMgmt_r10b(d) ==
  LET t == FIDTest(d, FID_PWR_MGMT, Ascending(0 .. d.npss))
  IN  [t EXCEPT !.finds = IF d.npss = 0 THEN {} ELSE @]
FIDTempThres_r10b(d) == FIDTest(d, FID_TEMP_THRESHOLD, PowerValues)
\* BasicAdminQueueSetup() makes admin queues with the lifetime of the group.
FIDErrRecovery_r10b(d) ==
  LET try(v) == SetGet(FID_ERR_RECOVERY, 0, v, "any")
  IN  Test(~d.preserve,
           SetupAdminQs("grp", 5) \o ForEach(PowerValues, try)
             \o ThrowIfMismatch,
           Forgets(FID_ERR_RECOVERY))
FIDIRQCoalescing_r10b(d) == FIDTest(d, FID_IRQ_COALESCING, PowerValues)
FIDWriteAtomicity_r10b(d) == FIDTest(d, FID_WRITE_ATOMICITY, <<0, 1>>)
FIDAsyncEventCfg_r10b(d) ==
  FIDTest(d, FID_ASYNC_EVENT_CONFIG, Ascending(0 .. 31))

FIDVolatileCash_r10b(d) ==
  LET try(v) == SetGet(FID_VOL_WR_CACHE, 0, v, "throw")
  IN  Test(d.vwc /\ ~d.preserve,
           SetupAdminQs("tst", 5) \o ForEach(<<0, 1>>, try),
           Forgets(FID_VOL_WR_CACHE))

\* TLER with and, if supported, with DULBE; of namespace 1 if the feature is
\* kept per namespace, or if the device cannot tell.
FIDErrRecovery_r12(d) ==
  LET nsid == IF d.sel /\ ~d.nsfeat THEN 0 ELSE 1
      try(v) == SetGet(FID_ERR_RECOVERY, nsid, v, "throw")
                  \o IF d.dulbe
                       THEN SetGet(FID_ERR_RECOVERY, nsid, MAX_U16 + 1 + v, "throw")
                       ELSE <<>>
  IN  Test(~d.preserve,
           SetupAdminQs("grp", 5) \o Admin(Identify(2, 0))
             \o (IF d.sel
                   THEN Admin(With(GetFeatures(FID_ERR_RECOVERY, 0), "sel", 3))
                   ELSE <<>>)
             \o ForEach(PowerValues, try),
           Forgets(FID_ERR_RECOVERY))

\* CD = 0 and 1 for each vector; the value of a vector read back counts only
\* until the next one is.
FIDIRQVec_r10b(d) ==
  LET cd(v) == ForEach(Ascending(1 .. d.irqs - 1),
                       LAMBDA ivec : SetGet(FID_IRQ_VEC_CONFIG, ivec, v, "last"))
  IN  Test(~d.preserve,
           SetupAdminQs("tst", 5) \o ForEach(<<0, 1>>, cd) \o ThrowIfMismatch,
           IF d.irqs > 1 THEN Forgets(FID_IRQ_VEC_CONFIG)
                                \cup {"SetFeatures.vec1"} ELSE {})

\* As many vectors as may be in use, each with a CQ of its own.
FIDIRQVec_r11(d) ==
  LET vecs == Min({d.irqs, d.sqs + 1, d.cqs + 1})
      cd(v) == ForEach(Ascending(1 .. vecs - 1),
                 LAMBDA ivec : SetIOQES({"CQ"})
                   \o CreateIOCQContigToHdw(IOQ_ID, 2, "tst", TRUE, ivec)
                   \o SetGet(FID_IRQ_VEC_CONFIG, ivec, v, "last")
                   \o DeleteIOCQToHdw(IOQ_ID))
  IN  Test((d.msix \/ d.irqs > 1) /\ ~d.preserve,
           DisableCompletely \o AdminQs("tst", 5) \o SetIRQ(vecs) \o Enable
             \o ForEach(<<0, 1>>, cd) \o ThrowIfMismatch,
           IF vecs > 1 THEN Forgets(FID_IRQ_VEC_CONFIG)
                              \cup {"SetFeatures.vec1"} ELSE {})

GrpAdminSetGetFeatCombo(d) ==
  <<X(FIDArbitration_r10b(d)), X(FIDPwrMgmt_r10b(d)), X(FIDTempThres_r10b(d)),
    X(ByRev(d, FIDErrRecovery_r10b(d), FIDErrRecovery_r10b(d),
            FIDErrRecovery_r12(d))),
    X(FIDVolatileCash_r10b(d)), X(FIDIRQCoalescing_r10b(d)),
    X(ByRev(d, FIDIRQVec_r10b(d), FIDIRQVec_r11(d), FIDIRQVec_r11(d))),
    X(FIDWriteAtomicity_r10b(d)), X(FIDAsyncEventCfg_r10b(d))>>

\* The features SaveState() reads and RestoreState() sets, in their order;
\* a namespace is never given.
SavedFeatures(d) ==
  <<<<FID_ARBITRATION, 0>>, <<FID_PWR_MGMT, 0>>, <<FID_TEMP_THRESHOLD, 0>>,
    <<FID_ERR_RECOVERY, 0>>>>
    \o (IF d.vwc THEN <<<<FID_VOL_WR_CACHE, 0>>>> ELSE <<>>)
    \o <<<<FID_IRQ_COALESCING, 0>>>>
    \o [i \in 1 .. d.irqs |-> <<FID_IRQ_VEC_CONFIG, i - 1>>]
    \o <<<<FID_WRITE_ATOMICITY, 0>>, <<FID_ASYNC_EVENT_CONFIG, 0>>>>

\* SaveArbitration() ... SaveAsyncEvent(): GetFeatures, the value is kept.
SaveFeature(key) == <<[op |-> "save", key |-> key]>>
\* RestoreArbitration() ... RestoreAsyncEvent(): SetFeatures with the value,
\* GetFeatures; a difference ends RestoreState() with false.
RestoreFeature(key) == <<[op |-> "restore", key |-> key]>>

SaveState(d) == SetupAdminQs("tst", 5) \o ForEach(SavedFeatures(d), SaveFeature)
RestoreState(d) ==
  SetupAdminQs("tst", 5) \o ForEach(SavedFeatures(d), RestoreFeature)

-----------------------------------------------------------------------------
(***************************************************************************)
(* GrpAdminNamespaceManagement                                             *)
(***************************************************************************)
NamespaceCreate == [name |-> "NamespaceManagement", sel |-> "create", nsid |-> 0]
NamespaceDelete(n) ==
  [name |-> "NamespaceManagement", sel |-> "delete", nsid |-> n]
NamespaceAttach(n) == [name |-> "NamespaceAttach", sel |-> "attach", nsid |-> n]
NamespaceDetach(n) == [name |-> "NamespaceAttach", sel |-> "detach", nsid |-> n]

CNS_NamespaceListSubsystem == 16
CNS_NamespaceStructSubsystem == 17
CNS_ControllerListAttachedToNSID == 18
CNS_ControllerListSubsystem == 19

NamespaceManagement_CreateResources_r12(d) ==
  LET entries == Min({2, d.mqes})
  IN  Test(d.nsmgmt,
           SetupAdminQs("grp", 5) \o SetIOQES({"CQ"})
             \o CreateIOCQContigToHdw(IOQ_ID, entries, "grp", TRUE, 0)
             \o SetIOQES({"SQ"})
             \o CreateIOSQContigToHdw(IOQ_ID, entries, "grp", IOQ_ID),
           {})

GetGroupQs == GetIOQs(IOQ_ID) \o GetAdminQs

\* Each namespace is detached, identified, deleted, deleted again and
\* identified again.  The user's wish to preserve the device is not asked.
DeleteAllNamespacesAndVerify(d) ==
  LET delete(n) ==
        Admin(Identify(CNS_ControllerListAttachedToNSID, n))
          \o Admin(NamespaceDetach(n))
          \o AdminWant(NamespaceDetach(n), {"NS_NOT_ATTACHED"})
          \o Admin(Identify(CNS_Namespace, n)) \o Verify("zero")
          \o Admin(Identify(CNS_NamespaceStructSubsystem, n))
          \o Admin(NamespaceDelete(n))
          \o AdminWant(NamespaceDelete(n), {"INVALID_FIELD"})
          \o Admin(Identify(CNS_Namespace, n))
          \o Admin(Identify(CNS_NamespaceStructSubsystem, n))
      list == Admin(Identify(CNS_NamespaceListSubsystem, 0))
  IN  Test(d.nsmgmt,
           GetGroupQs \o list \o ForEach(Ascending(1 .. NN(d)), delete)
             \o list \o VerifyLen(0),
           {"Namespace.detach", "Namespace.delete"})

\* NN namespaces of equal size, each attached twice; the capacity left over,
\* in units of this size, shrinks with each.
CreateAndAttachMaxNamespacesAndVerify(d) ==
  LET create(n) ==
        Admin(NamespaceCreate)
          \o Admin(Identify(CNS_Namespace, n)) \o Verify("zero")
          \o Admin(NamespaceAttach(n))
          \o Admin(Identify(CNS_Namespace, n)) \o Verify("struct")
          \o Admin(Identify(CNS_Controller, 0)) \o Verify(NN(d) - n)
          \o AdminWant(NamespaceAttach(n), {"NS_ALREADY_ATTACHED"})
  IN  Test(d.nsmgmt,
           GetGroupQs \o Admin(Identify(CNS_Controller, 0))
             \o Admin(Identify(CNS_NamespaceListSubsystem, 0)) \o VerifyLen(0)
             \o Admin(Identify(CNS_ControllerListSubsystem, 0))
             \o ForEach(Ascending(1 .. NN(d)), create),
           {"Namespace.attach", "Namespace.capacity"})

GrpAdminNamespaceManagement(d) ==
  IF d.rev # "12" THEN <<>>
  ELSE <<X(NamespaceManagement_CreateResources_r12(d)),
         Y(DeleteAllNamespacesAndVerify(d)),
         Z(CreateAndAttachMaxNamespacesAndVerify(d))>>
=============================================================================
