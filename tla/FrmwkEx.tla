------------------------------- MODULE FrmwkEx -------------------------------
(***************************************************************************)
(* A test, the controller's state and an exception: CtrlrConfig::SetState()*)
(* telling RsrcMngr of every change (Singletons/ctrlrConfig.cpp, subject.h,*)
(* rsrcMngr.cpp, objRsrc.cpp), the lifetimes of queue objects (Queues/),   *)
(* what constructing a FrmwkEx does (Exception/frmwkEx.cpp), and Test::Run *)
(* catching it (test.cpp).                                                 *)
(*                                                                         *)
(* A queue object is its name, at most one of a name exists per lifetime;  *)
(* "AQ" is an ACQ with its ASQ, which tests create and lose together.      *)
(* Group lifetime objects live in mObjGrpLife and in the shared_ptr's a    *)
(* test has obtained; test lifetime objects on the stack of the test.      *)
(***************************************************************************)
EXTENDS Integers, FiniteSets

CONSTANTS
  IOQs,       \* names of IO queues
  PostFail,   \* the values of gCmdLine.postfail considered
  ThrowNew,   \* whether tests may "throw new FrmwkEx"
  MaxDepth    \* bound: FrmwkEx constructors on the stack when it overflows

ASSUME FrmwkExAssumption ==
  /\ "AQ" \notin IOQs
  /\ PostFail \subseteq BOOLEAN
  /\ ThrowNew \in BOOLEAN
  /\ MaxDepth \in Nat /\ MaxDepth > 2

Admin == {"AQ"}
Queues == Admin \cup IOQs

VARIABLES
  pc,
  postfail,
  hdw,          \* CSTS.RDY: "enabled" or "disabled"
  kq,           \* queues dnvme has memory for
  mObjGrpLife,  \* group lifetime objects
  held,         \* the group lifetime objects the test has a shared_ptr to
  local,        \* test lifetime objects
  post,         \* objects of PreliminaryProcessing()
  raw,          \* objects whose Init() did not succeed: no buffer
  mPrelimProcessingInProgress,
  depth,        \* FrmwkEx constructors on the stack
  exc,          \* what is being thrown
  (*************************************************************************)
  (* History, read by no action.                                           *)
  (*************************************************************************)
  leaked,       \* a FrmwkEx thrown by pointer was never destroyed
  stuck,        \* the device refused to disable for this exception
  mute,         \* dnvme refused a log entry for this exception
  missed,       \* objects FreeAllObjNotASQACQ() has passed over
  deleted       \* queues the device was told to delete, not made again since

dev  == <<hdw, kq>>
objs == <<mObjGrpLife, held, local, post, raw>>
hist == <<leaked, stuck, mute, missed, deleted>>
ex   == <<mPrelimProcessingInProgress, depth, exc>>
vars == <<pc, postfail, dev, objs, ex, hist>>

Init ==
  /\ pc = "idle" /\ postfail \in PostFail
  /\ hdw = "disabled" /\ kq = {}
  /\ mObjGrpLife = {} /\ held = {} /\ local = {} /\ post = {} /\ raw = {}
  /\ mPrelimProcessingInProgress = FALSE /\ depth = 0 /\ exc = "none"
  /\ leaked = FALSE /\ stuck = FALSE /\ mute = FALSE /\ missed = {} /\ deleted = {}

-----------------------------------------------------------------------------
(***************************************************************************)
(* CtrlrConfig::SetState() and its observer                                *)
(***************************************************************************)

\* std::terminate(): ~SQ() and ~CQ() ask GetIsContig(), which throws for a
\* queue without a buffer, and a destructor may not throw.
Dies(objects) == objects \cap raw # {}

Group(qs) == {<<"group", q>> : q \in qs}

\* Variant: mObjGrpLife is only cleared of objects other than ASQ and ACQ.
RemainAll(state) == {mObjGrpLife \cap Admin}

\* FreeAllObj() and FreeAllObjNotASQACQ(): what mObjGrpLife may hold after
\* it.  The latter increments an iterator after erasing its element, so once
\* it has erased one object it may miss any of the others.
Remain(state) ==
  IF state = "ST_DISABLE_COMPLETELY" THEN {{}}
  ELSE {(mObjGrpLife \cap Admin) \cup left :
          left \in {l \in SUBSET (mObjGrpLife \ Admin) :
                      l = {} \/ l # mObjGrpLife \ Admin}}

\* The ioctl() succeeds: dnvme disables the device and frees its memory, then
\* RsrcMngr::Update() drops objects; an object nobody else holds is destroyed.
\* The use of an erased iterator may also end the process.  Whatever is left
\* but ACQ and ASQ was passed over.
Disable(state, then) ==
  LET erases == state = "ST_DISABLE" /\ ~(mObjGrpLife \subseteq Admin)
      dying == Group(mObjGrpLife \ (mObjGrpLife' \cup held))
  IN
  /\ hdw' = "disabled"
  /\ kq' = IF state = "ST_DISABLE" THEN kq \cap Admin ELSE {}
  /\ mObjGrpLife' \in Remain(state)
  /\ missed' = mObjGrpLife' \ Admin /\ deleted' = {}
  /\ pc' \in IF Dies(dying) THEN {"dead"} ELSE IF erases THEN {then, "dead"} ELSE {then}
  /\ raw' = raw \ dying
  /\ UNCHANGED <<held, local, post>>

-----------------------------------------------------------------------------
(***************************************************************************)
(* Tests                                                                   *)
(***************************************************************************)

\* ExecuteTests() disables completely before a new group, and gives up if the
\* device does not.
StartGroup ==
  /\ pc = "idle"
  /\ \/ Disable("ST_DISABLE_COMPLETELY", "idle")
        /\ UNCHANGED <<postfail, ex, leaked, stuck, mute>>
     \/ /\ pc' = "done"
        /\ UNCHANGED <<postfail, dev, objs, ex, hist>>

StartTest ==
  /\ pc = "idle"
  /\ pc' = "test"
  /\ UNCHANGED <<postfail, dev, objs, ex, hist>>

\* throw FrmwkEx(...): control enters the constructor.
Throw ==
  /\ pc' = "log" /\ exc' = "FrmwkEx"
  /\ depth' = 1
  /\ UNCHANGED <<postfail, mPrelimProcessingInProgress>>

Objects == {<<"test", k>> : k \in Queues \ local}
             \cup Group(Queues \ (mObjGrpLife \cup held))

\* The queue o is constructed, by new or by RsrcMngr::AllocObj().
Construct(o) ==
  /\ local' = IF o[1] = "test" THEN local \cup {o[2]} ELSE local
  /\ mObjGrpLife' = IF o[1] = "group" THEN mObjGrpLife \cup {o[2]} ELSE mObjGrpLife
  /\ held' = IF o[1] = "group" THEN held \cup {o[2]} ELSE held
  /\ UNCHANGED post

\* SQ/CQ::Init() works: dnvme allocates, the buffer is mapped.
CreateQ ==
  /\ pc = "test"
  /\ \E o \in Objects :
       /\ o[2] \notin kq
       /\ o[2] \in Admin => hdw = "disabled"
       /\ Construct(o)
       /\ kq' = kq \cup {o[2]}
       /\ deleted' = deleted \ {o[2]}
  /\ UNCHANGED <<pc, postfail, hdw, raw, ex, leaked, stuck, mute, missed>>

\* Init() throws: an admin queue while the device is enabled, a refusal by
\* dnvme, an illegal number of entries.
CreateQFails ==
  /\ pc = "test"
  /\ \E o \in Objects : Construct(o) /\ raw' = raw \cup {o}
  /\ Throw
  /\ UNCHANGED <<dev, hist>>

\* RsrcMngr::AllocObj() of a name that is taken: the object it has made is
\* destroyed without ever having had a buffer.
AllocObjTaken ==
  /\ pc = "test" /\ mObjGrpLife # {}
  /\ pc' = "dead"
  /\ UNCHANGED <<postfail, dev, objs, ex, hist>>

\* Queues::DeleteIOSQToHdw(), DeleteIOCQToHdw(): dnvme frees the memory of an
\* IO queue along with the device, and no object is told.
DeleteQ ==
  /\ pc = "test" /\ hdw = "enabled" /\ Admin \subseteq kq
  /\ \E q \in (kq \cap (held \cup local)) \ Admin :
       kq' = kq \ {q} /\ deleted' = deleted \cup {q}
  /\ UNCHANGED <<pc, postfail, hdw, objs, ex, leaked, stuck, mute, missed>>

\* RsrcMngr::GetObj() of an object an earlier test of the group has made.
GetObj ==
  /\ pc = "test" /\ mObjGrpLife # {}
  /\ \E k \in mObjGrpLife : held' = held \cup {k}
  /\ UNCHANGED <<pc, postfail, dev, mObjGrpLife, local, post, raw, ex, hist>>

EnableInTest ==
  /\ pc = "test" /\ hdw' = "enabled"
  /\ UNCHANGED <<pc, postfail, kq, objs, ex, hist>>

DisableInTest ==
  /\ pc = "test"
  /\ \E state \in {"ST_DISABLE", "ST_DISABLE_COMPLETELY"} : Disable(state, "test")
  /\ UNCHANGED <<postfail, ex, leaked, stuck, mute>>

\* SetState() returns false, a command times out, a comparison fails, ...
TestThrows ==
  /\ pc = "test"
  /\ Throw
  /\ UNCHANGED <<dev, objs, hist>>

\* The same with "throw new FrmwkEx": catch (...) gets a pointer.
TestThrowsNew ==
  /\ pc = "test" /\ ThrowNew
  /\ pc' = "log" /\ exc' = "FrmwkEx*" /\ depth' = 1
  /\ leaked' = TRUE
  /\ UNCHANGED <<postfail, dev, objs, mPrelimProcessingInProgress, stuck, mute,
                 missed, deleted>>

\* RunCoreTest() returns, or throws something not derived from FrmwkEx.
TestLeaves ==
  /\ pc = "test" /\ pc' = "unwind"
  /\ exc' \in {"none", "other"}
  /\ UNCHANGED <<postfail, dev, objs, mPrelimProcessingInProgress, depth, hist>>

\* Variant: ~FrmwkEx() does not reset the mark.
UnwindKeepsMark ==
  /\ pc = "unwind" /\ pc' = "idle"
  /\ held' = {} /\ local' = {} /\ post' = {}
  /\ depth' = 0 /\ exc' = "none"
  /\ stuck' = FALSE /\ mute' = FALSE
  /\ UNCHANGED <<postfail, dev, mObjGrpLife, raw, mPrelimProcessingInProgress,
                 leaked, missed, deleted>>

\* The test's objects are destroyed; Test::Run() catches, which destroys a
\* FrmwkEx thrown by value but not one thrown by pointer.
Unwind ==
  /\ pc = "unwind"
  /\ LET dying == {<<"test", k>> : k \in local} \cup {<<"post", k>> : k \in post}
                    \cup Group(held \ mObjGrpLife)
     IN  /\ pc' = IF Dies(dying) THEN "dead" ELSE "idle"
         /\ raw' = raw \ dying
  /\ held' = {} /\ local' = {} /\ post' = {}
  /\ mPrelimProcessingInProgress' =
       IF exc = "FrmwkEx" THEN FALSE ELSE mPrelimProcessingInProgress
  /\ depth' = 0 /\ exc' = "none"
  /\ stuck' = FALSE /\ mute' = FALSE
  /\ UNCHANGED <<postfail, dev, mObjGrpLife, leaked, missed, deleted>>

-----------------------------------------------------------------------------
(***************************************************************************)
(* FrmwkEx::DumpStateOfTheSystem() and PreliminaryProcessing()             *)
(***************************************************************************)

\* Variant: the stack has no end.
NestedEndless ==
  /\ pc' = "log" /\ exc' = "FrmwkEx" /\ depth' = depth + 1
  /\ UNCHANGED <<postfail, mPrelimProcessingInProgress>>

\* Something the constructor calls throws a FrmwkEx of its own.
Nested ==
  /\ IF depth = MaxDepth
       THEN pc' = "dead" /\ UNCHANGED <<exc, depth>>
       ELSE pc' = "log" /\ exc' = "FrmwkEx" /\ depth' = depth + 1
  /\ UNCHANGED <<postfail, mPrelimProcessingInProgress>>

\* Variants: the exception is logged and nothing else; the check for an
\* exception within an exception is missing.
WriteToLogOnly ==
  /\ pc = "log" /\ pc' = "unwind"
  /\ mPrelimProcessingInProgress' = TRUE
  /\ UNCHANGED <<postfail, dev, objs, depth, exc, hist>>

WriteToLogUnmarked ==
  /\ pc = "log"
  /\ mPrelimProcessingInProgress' = TRUE
  /\ pc' = IF postfail THEN "dump" ELSE "disable"
  /\ UNCHANGED <<postfail, dev, objs, depth, exc, hist>>

\* WriteToDnvmeLog(), then the check for an exception within an exception:
\* the innermost one is thrown, out of the constructors around it.
WriteToLog ==
  /\ pc = "log"
  /\ mPrelimProcessingInProgress' = TRUE
  /\ pc' = IF mPrelimProcessingInProgress THEN "unwind"
           ELSE IF postfail THEN "dump" ELSE "disable"
  /\ UNCHANGED <<postfail, dev, objs, depth, exc, hist>>

WriteToLogFails ==
  /\ pc = "log"
  /\ Nested
  /\ mute' = TRUE
  /\ UNCHANGED <<dev, objs, leaked, stuck, missed, deleted>>

\* Without --postfail: "Allways reset to sync kernel with user space".
\* With it, the same as a step of PreliminaryProcessing().
Reset ==
  /\ pc \in {"disable", "postdisable"}
  /\ \/ /\ Disable("ST_DISABLE_COMPLETELY",
                   IF pc = "disable" THEN "unwind" ELSE "postqueues")
        /\ UNCHANGED <<postfail, ex, leaked, stuck, mute>>
     \/ /\ Nested
        /\ stuck' = TRUE
        /\ UNCHANGED <<dev, objs, leaked, mute, missed, deleted>>

\* Kernel metrics and registers are dumped to files.
DumpFiles ==
  /\ pc = "dump"
  /\ \/ /\ pc' = "postdisable"
        /\ UNCHANGED <<postfail, dev, objs, ex, hist>>
     \/ /\ Nested
        /\ UNCHANGED <<dev, objs, hist>>

\* An ACQ and an ASQ are constructed and initialised.
PostQueues ==
  /\ pc = "postqueues"
  /\ post' = {"AQ"}
  /\ \/ /\ kq' = kq \cup {"AQ"}
        /\ pc' = "postenable"
        /\ UNCHANGED <<postfail, raw, ex>>
     \/ /\ raw' = raw \cup {<<"post", "AQ">>}
        /\ Nested
        /\ UNCHANGED kq
  /\ UNCHANGED <<hdw, mObjGrpLife, held, local, hist>>

PostEnable ==
  /\ pc = "postenable"
  /\ \/ /\ hdw' = "enabled" /\ pc' = "postlog"
        /\ UNCHANGED <<postfail, kq, objs, ex, hist>>
     \/ /\ Nested
        /\ UNCHANGED <<dev, objs, hist>>

\* The error log page is fetched; returning destroys ASQ and ACQ ...
PostLogPage ==
  /\ pc = "postlog"
  /\ \/ /\ pc' = "poststop" /\ post' = {}
        /\ UNCHANGED <<postfail, dev, mObjGrpLife, held, local, raw, ex, hist>>
     \/ /\ Nested
        /\ UNCHANGED <<dev, objs, hist>>

\* ... and the device is disabled, or refuses, which is not verified.
PostStop ==
  /\ pc = "poststop"
  /\ \/ /\ Disable("ST_DISABLE", "unwind")
        /\ UNCHANGED <<postfail, ex, leaked, stuck, mute>>
     \/ /\ pc' = "unwind" /\ stuck' = TRUE
        /\ UNCHANGED <<postfail, dev, objs, ex, leaked, mute, missed, deleted>>

Next ==
  \/ StartGroup \/ StartTest \/ CreateQ \/ CreateQFails \/ AllocObjTaken
  \/ DeleteQ \/ GetObj
  \/ EnableInTest \/ DisableInTest \/ TestThrows \/ TestThrowsNew
  \/ TestLeaves \/ Unwind
  \/ WriteToLog \/ WriteToLogFails \/ Reset \/ DumpFiles \/ PostQueues
  \/ PostEnable \/ PostLogPage \/ PostStop

Spec == Init /\ [][Next]_vars

-----------------------------------------------------------------------------
(***************************************************************************)
(* Properties                                                              *)
(***************************************************************************)
TypeOK ==
  /\ pc \in {"idle", "test", "log", "disable", "dump", "postdisable",
             "postqueues", "postenable", "postlog", "poststop", "unwind", "done", "dead"}
  /\ postfail \in BOOLEAN
  /\ hdw \in {"enabled", "disabled"} /\ kq \subseteq Queues
  /\ mObjGrpLife \subseteq Queues /\ held \subseteq Queues
  /\ local \subseteq Queues /\ post \subseteq Admin
  /\ raw \subseteq {"group", "test", "post"} \X Queues
  /\ mPrelimProcessingInProgress \in BOOLEAN /\ depth \in 0 .. MaxDepth
  /\ exc \in {"none", "FrmwkEx", "FrmwkEx*", "other"}
  /\ leaked \in BOOLEAN /\ stuck \in BOOLEAN /\ mute \in BOOLEAN
  /\ missed \subseteq IOQs /\ deleted \subseteq IOQs

\* "Immediately, after throwing, test lifetime objects go out of scope and so
\* hdw must be immediately disabled to prevent access to freed resources"
\* (frmwkEx.h:43-46), unless the device itself refuses.
DisabledOnException ==
  pc = "unwind" /\ exc \in {"FrmwkEx", "FrmwkEx*"} /\ ~stuck => hdw = "disabled"

\* The same without --postfail, as long as every FrmwkEx was thrown by value.
DisabledOnThrow == ~postfail /\ ~leaked => DisabledOnException

\* "Reset for possible subsequent exception to occur": no test ever starts
\* with the mark of an earlier exception, so that its own will disable.
MarkIsReset ==
  pc = "test" /\ ~leaked => ~mPrelimProcessingInProgress

\* "Only ACQ/ASQ objects remain, all others must be released" (rsrcMngr.cpp:72).
OnlyAdminRemain == missed = {}

\* "Sync kernel with user space or risk core dump" (frmwkEx.cpp:87): whatever
\* a test finds in mObjGrpLife is a queue dnvme still has memory for, but for
\* an object whose Init() failed, an IO queue that a test has had deleted, and
\* one that an earlier disable passed over.  ACQ and ASQ are always backed,
\* also after the use of an erased iterator.
GroupObjectsBacked ==
  pc \in {"idle", "test"} =>
    \A q \in mObjGrpLife :
      <<"group", q>> \in raw \/ q \in kq \/ q \in missed \cup deleted

\* "Avoid exception processing within exception processing looping"
\* (frmwkEx.cpp:79): a failure of the device while an exception is being
\* constructed adds one level of nesting and no more.  This needs dnvme to
\* accept log entries: they are written before the mark is looked at.
NestingBounded == ~mute => depth <= 2

\* "This method will catch all exceptions and convert them into a return
\* value" (test.h:99-100): no exception ends the process.
CatchesAll == pc # "dead"
=============================================================================
