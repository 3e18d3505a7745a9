---------------------------- MODULE GroupRunner ----------------------------
(***************************************************************************)
(* The execution of test cases: ExecuteTests() of tnvme.cpp driving        *)
(* Group::GetTestSet() and Group::RunTest() (group.cpp), the verdict of    *)
(* Test::Runnable()/Test::Run() (test.cpp), the counters of TestResults    *)
(* and the process exit code computed by main().                           *)
(*                                                                         *)
(* The program is sequential; what is nondeterministic is the device under *)
(* test (does it disable, does a test pass, fail or refuse to run, does    *)
(* saving or restoring its state work) and the command line.               *)
(***************************************************************************)
EXTENDS TestRefs, FiniteSets

CONSTANTS
  Saves,      \* the groups that override SaveState()/RestoreState()
  CmdLines    \* the command lines considered

ASSUME SavesAssumption == Saves \subseteq GroupNums

\* struct CmdLine, as far as ExecuteTests() and Group use it.
ASSUME CmdLinesAssumption ==
  \A cl \in CmdLines : 
    /\ cl.target \in TestRef
    /\ cl.skiptest \subseteq TestRef
    /\ cl.ignore \in BOOLEAN
    /\ cl.restore \in BOOLEAN
    /\ cl.loop \in Nat \ {0}      \* main() refuses --loop <= 0

TR == {"TR_SUCCESS", "TR_FAIL", "TR_SKIPPING", "TR_NOTFOUND"}

\* How a bool function that may also throw FrmwkEx ends.
Outcomes == {"true", "false", "throws"}

VARIABLES
  pc,             \* where ExecuteTests() is
  cl,             \* gCmdLine
  iLoop, iGrp,    \* loop counters of ExecuteTests()
  testsToRun,     \* the test set of the present group
  thisTest,       \* cursor of GetTestSet() while it lists a whole group
  tstIdx,         \* index of the next test within testsToRun, or -1
  results,        \* TestResults::results
  failedTests, skippedTests,
  exitCode,       \* 0 success, 1 failure, -1 still running
  dut,            \* permanent configuration of the device
  saved,          \* what SaveState() recorded
  (*************************************************************************)
  (* History, read by no action.                                           *)
  (*************************************************************************)
  inForce,        \* tests that passed since the last DISABLE_COMPLETELY
  executed,       \* tests whose RunCoreTest() was entered, in order
  offered,        \* tests of the sets worked through so far
  stateErr        \* SaveState()/RestoreState() did not return true

ctl  == <<cl, iLoop, iGrp>>
set  == <<testsToRun, thisTest>>
tally == <<results, failedTests, skippedTests>>
hist == <<inForce, executed, offered, stateErr>>
vars == <<pc, ctl, set, tstIdx, tally, exitCode, dut, saved, hist>>

Init ==
  /\ pc = "start"
  /\ cl \in CmdLines
  /\ iLoop = 0 /\ iGrp = 0
  /\ testsToRun = <<>> /\ thisTest = Ref(0, 0, 0, 0)
  /\ tstIdx = 0
  /\ results = [r \in TR |-> 0]
  /\ failedTests = <<>> /\ skippedTests = <<>>
  /\ exitCode = -1
  /\ dut = "original" /\ saved = "none"
  /\ inForce = {} /\ executed = <<>> /\ offered = 0 /\ stateErr = FALSE

-----------------------------------------------------------------------------
(***************************************************************************)
(* ExecuteTests(): the loops over iterations and groups                    *)
(***************************************************************************)
\* Variant: a run that passed anything counts as passed.
AnyTestPasses(res) == res["TR_SUCCESS"] # 0

AllTestsPass(res) == res["TR_FAIL"] = 0

\* ABORT_OUT: ExecuteTests() returns false.
Abort ==
  /\ pc' = "done" /\ exitCode' = 1
  /\ UNCHANGED <<ctl, set, tstIdx, tally, dut, saved, hist>>

\* The target group must exist and VerifySpecCompatibility() must agree.
CheckTarget ==
  /\ pc = "start"
  /\ \/ /\ cl.target.group = ALL \/ cl.target.group < Len(mTests)
        /\ pc' = "group"
        /\ UNCHANGED <<ctl, set, tstIdx, tally, exitCode, dut, saved, hist>>
     \/ Abort

\* Variants: the loop over groups has no end; it does not advance.
SkipGroupEndless ==
  /\ pc = "group"
  /\ cl.target.group # ALL /\ cl.target.group # iGrp
  /\ iGrp' = iGrp + 1
  /\ UNCHANGED <<pc, cl, iLoop, set, tstIdx, tally, exitCode, dut, saved, hist>>

SkipGroupStays ==
  /\ pc = "group" /\ iGrp < Len(mTests)
  /\ cl.target.group # ALL /\ cl.target.group # iGrp
  /\ UNCHANGED vars

\* Groups the command line does not name are passed over.
SkipGroup ==
  /\ pc = "group" /\ iGrp < Len(mTests)
  /\ cl.target.group # ALL /\ cl.target.group # iGrp
  /\ iGrp' = iGrp + 1
  /\ UNCHANGED <<pc, cl, iLoop, set, tstIdx, tally, exitCode, dut, saved, hist>>

Targeted == /\ pc = "group" /\ iGrp < Len(mTests)
            /\ cl.target.group \in {ALL, iGrp}

\* What GetTestSet() is asked for in the present group.
TargetTst ==
  IF cl.target.group = ALL THEN Ref(iGrp, ALL, ALL, ALL) ELSE cl.target

ConfigTest(tr) == Ref(tr.group, tr.xLev, 0, 0)

\* GetTestSet() for a single test: its configuration test, then its sequence
\* from z = 0.  The target itself is looked up only if it has predecessors
\* in its sequence (zLev # 0).
TargetSetOK(tr) ==
  \/ tr.yLev = 0 /\ tr.zLev = 0
  \/ tr.zLev = 0 /\ TestExists(ConfigTest(tr))
  \/ tr.zLev # 0 /\ TestExists(tr)

\* Variant: the configuration test is left out.
TargetSetBare(tr) == [i \in 1 .. tr.zLev + 1 |-> [tr EXCEPT !.zLev = i - 1]]

TargetSet(tr) ==
  (IF tr.yLev = 0 THEN <<>> ELSE <<ConfigTest(tr)>>)
    \o [i \in 1 .. tr.zLev + 1 |-> [tr EXCEPT !.zLev = i - 1]]

\* "Executing a new group, start from known point" failed: the device does
\* not disable, or there is no test set.
GroupAborts ==
  /\ Targeted
  /\ Abort

\* Disable the controller, then obtain the set of one test.
StartTarget ==
  /\ Targeted
  /\ ~IsWholeGroup(TargetTst) /\ TargetSetOK(TargetTst)
  /\ testsToRun' = TargetSet(TargetTst)
  /\ tstIdx' = 0 /\ inForce' = {}
  /\ pc' = "run"
  /\ UNCHANGED <<ctl, thisTest, tally, exitCode, dut, saved, executed,
                 offered, stateErr>>

\* Disable the controller, then start to list the whole group.
StartGroup ==
  /\ Targeted
  /\ IsWholeGroup(TargetTst)
  /\ testsToRun' = <<>> /\ thisTest' = Ref(iGrp, 0, 0, 0)
  /\ inForce' = {}
  /\ pc' = "collect"
  /\ UNCHANGED <<ctl, tstIdx, tally, exitCode, dut, saved, executed, offered,
                 stateErr>>

\* One turn of the loop of GetTestSet() over IteraterToTestRef().  Iterator 0
\* is 0.0.0 whether or not the group has any test.
CollectTest ==
  /\ pc = "collect"
  /\ testsToRun' = Append(testsToRun, thisTest)
  /\ IF HasNextTest(thisTest)
       THEN /\ thisTest' = NextTest(thisTest)
            /\ UNCHANGED <<pc, tstIdx>>
       ELSE /\ pc' = "run" /\ tstIdx' = 0
            /\ UNCHANGED thisTest
  /\ UNCHANGED <<ctl, tally, exitCode, dut, saved, hist>>

\* Variant: the counters start anew with each iteration.
EndIterationResets ==
  /\ pc = "group" /\ iGrp = Len(mTests)
  /\ iLoop' = iLoop + 1 /\ iGrp' = 0
  /\ IF iLoop + 1 < cl.loop
       THEN results' = [r \in TR |-> 0] /\ UNCHANGED <<pc, exitCode>>
       ELSE /\ pc' = "done"
            /\ exitCode' = IF AllTestsPass(results) THEN 0 ELSE 1
            /\ UNCHANGED results
  /\ UNCHANGED <<cl, set, tstIdx, failedTests, skippedTests, dut, saved, hist>>

\* After the last group: the iteration is reported, the next one begins.
EndIteration ==
  /\ pc = "group" /\ iGrp = Len(mTests)
  /\ iLoop' = iLoop + 1 /\ iGrp' = 0
  /\ IF iLoop + 1 < cl.loop
       THEN UNCHANGED <<pc, exitCode>>
       ELSE /\ pc' = "done"
            /\ exitCode' = IF AllTestsPass(results) THEN 0 ELSE 1
  /\ UNCHANGED <<cl, set, tstIdx, tally, dut, saved, hist>>

-----------------------------------------------------------------------------
(***************************************************************************)
(* Group::RunTest(), and what ExecuteTests() makes of its result           *)
(***************************************************************************)
Present == testsToRun[tstIdx + 1]

Found == /\ tstIdx # -1 /\ tstIdx < Len(testsToRun)
         /\ TestExists(Present)

\* Variants: a missing configuration test only takes its own sequence along;
\* any missing test takes all of its xLev along.
FallsWithSequence(st, dt, failed) ==
  dt.xLev = st.xLev /\ (failed \/ dt.yLev = st.yLev)

FallsWithLevel(st, dt, failed) == dt.xLev = st.xLev

\* st falls with dt in AdvanceDependencies(): everything left of dt's xLev
\* after a failure or when the configuration test is missing, otherwise the
\* rest of dt's sequence.
FallsWith(st, dt, failed) ==
  /\ dt.xLev = st.xLev
  /\ \/ failed
     \/ dt.yLev = 0 /\ dt.zLev = 0
     \/ dt.yLev = st.yLev

\* AdvanceDependencies(): 0-based index of the first test after tstIdx that
\* does not fall with the present one; Len(testsToRun) if there is none.
FirstKept(failed) ==
  CHOOSE n \in tstIdx + 1 .. Len(testsToRun) :
    /\ \A j \in tstIdx + 1 .. n - 1 : 
         FallsWith(testsToRun[j + 1], Present, failed)
    /\ n = Len(testsToRun) \/ ~FallsWith(testsToRun[n + 1], Present, failed)

Dependents(failed) == SubSeq(testsToRun, tstIdx + 2, FirstKept(failed))

\* Variant: the end of the set is noticed one test late.
AsTstIdxLate(n) == IF n > Len(testsToRun) THEN -1 ELSE n

\* tstIdx becomes -1 past the end of the set.
AsTstIdx(n) == IF n >= Len(testsToRun) THEN -1 ELSE n

\* ExecuteTests() on the value of RunTest(): addResult(result), and the
\* number of tests skipped along with a skipped or failed one.
AddResult(result, numSkipped) ==
  results' = [r \in TR |->
    CASE r = "TR_SKIPPING" /\ result \in {"TR_SKIPPING", "TR_FAIL"} -> 
           results[r] + numSkipped
      [] r = result /\ r # "TR_SKIPPING" -> results[r] + 1
      [] OTHER -> results[r]]

Continue(result) ==
  IF result = "TR_FAIL" /\ ~cl.ignore
    THEN pc' = "done" /\ exitCode' = 1           \* EARLY_OUT
    ELSE UNCHANGED <<pc, exitCode>>

\* SaveState()/RestoreState() throw outside of any try block of Group: the
\* exception reaches main(), which keeps exitCode at "assume success".
Unforeseen == pc' = "done" /\ exitCode' = 0

\* No more tests, or a target which turns out not to exist.
RunNotFound ==
  /\ pc = "run" /\ ~Found
  /\ tstIdx' = -1
  /\ AddResult("TR_NOTFOUND", 0)
  /\ offered' = offered + IF tstIdx = -1 THEN Len(testsToRun) ELSE tstIdx
  /\ pc' = "group" /\ iGrp' = iGrp + 1
  /\ UNCHANGED <<cl, iLoop, set, failedTests, skippedTests, exitCode, dut,
                 saved, inForce, executed, stateErr>>

SaveDue == cl.restore /\ tstIdx = 0

\* SaveState() before the first test of a group.
SaveOutcome(out) ==
  /\ out \in IF SaveDue /\ iGrp \in Saves THEN Outcomes ELSE {"true"}
  /\ saved' = IF SaveDue /\ iGrp \in Saves /\ out = "true" THEN dut ELSE saved

SaveFails ==
  /\ pc = "run" /\ Found
  /\ \E out \in {"false", "throws"} :
       /\ SaveOutcome(out)
       /\ IF out = "throws"
            THEN Unforeseen /\ UNCHANGED <<tstIdx, results>>
            ELSE /\ tstIdx' = -1
                 /\ AddResult("TR_FAIL", 0)
                 /\ Continue("TR_FAIL")
  /\ stateErr' = TRUE
  /\ UNCHANGED <<ctl, set, failedTests, skippedTests, dut, inForce, executed,
                 offered>>

\* The rest of RunTest() once the test has its verdict: the next index n, the
\* chance to restore the device, then ExecuteTests().  now is the device's
\* configuration and force the tests in force before restoring; the
\* overridden RestoreState() begins with a DISABLE_COMPLETELY.
Finish(result, n, numSkipped, now, force) ==
  LET nxt == AsTstIdx(n)
      due == /\ cl.restore /\ iGrp \in Saves
             /\ nxt = -1 \/ result = "TR_FAIL"
  IN  \E out \in IF due THEN Outcomes ELSE {"true"} :
        /\ dut' = IF due /\ out = "true" THEN saved' ELSE now
        /\ inForce' = IF due THEN {} ELSE force
        /\ stateErr' = (stateErr \/ out # "true")
        /\ \/ /\ out = "true"
              /\ tstIdx' = nxt
              /\ AddResult(result, numSkipped)
              /\ Continue(result)
           \/ /\ out = "false"
              /\ tstIdx' = -1
              /\ AddResult("TR_FAIL", numSkipped)
              /\ Continue("TR_FAIL")
           \/ /\ out = "throws"
              /\ Unforeseen
              /\ UNCHANGED <<tstIdx, results>>

\* A test that runs may change the configuration its group saves.
RunDut == IF iGrp \in Saves THEN "modified" ELSE dut

\* Runnable() says RUN_TRUE and Run() returns TR_SUCCESS.
TestPasses ==
  /\ pc = "run" /\ Found
  /\ SaveOutcome("true")
  /\ ~SkippingTest(Present, cl.skiptest)
  /\ executed' = Append(executed, Present)
  /\ Finish("TR_SUCCESS", tstIdx + 1, 0, RunDut, inForce \cup {Present})
  /\ UNCHANGED <<ctl, set, failedTests, skippedTests, offered>>

\* Runnable() says RUN_FAIL (not ran), or Run() returns TR_FAIL.  A FrmwkEx
\* disables the controller as it is constructed; a status register that
\* shows an error, or an exception of another type, does not.
Failures == [ran : BOOLEAN, disables : BOOLEAN]

TestFails ==
  /\ pc = "run" /\ Found
  /\ SaveOutcome("true")
  /\ ~SkippingTest(Present, cl.skiptest)
  /\ failedTests' = Append(failedTests, Present)
  /\ skippedTests' = skippedTests \o Dependents(TRUE)
  /\ \E f \in Failures :
       /\ executed' = IF f.ran THEN Append(executed, Present) ELSE executed
       /\ Finish("TR_FAIL", FirstKept(TRUE), Len(Dependents(TRUE)),
                 IF f.ran THEN RunDut ELSE dut,
                 IF f.disables THEN {} ELSE inForce)
  /\ UNCHANGED <<ctl, set, offered>>

\* The command line skips the test, or Runnable() says RUN_FALSE.
TestSkipped ==
  /\ pc = "run" /\ Found
  /\ SaveOutcome("true")
  /\ skippedTests' = skippedTests \o <<Present>> \o Dependents(FALSE)
  /\ Finish("TR_SKIPPING", FirstKept(FALSE), Len(Dependents(FALSE)) + 1, dut,
            inForce)
  /\ UNCHANGED <<ctl, set, failedTests, executed, offered>>

Next ==
  \/ CheckTarget \/ SkipGroup \/ GroupAborts \/ StartTarget \/ StartGroup
  \/ CollectTest \/ EndIteration \/ RunNotFound \/ SaveFails
  \/ TestPasses \/ TestFails \/ TestSkipped

Spec == Init /\ [][Next]_vars

\* A process that is neither blocked nor killed keeps executing: every
\* ioctl() returns and every wait of the suite has a timeout.
FairSpec == Spec /\ WF_vars(Next)

-----------------------------------------------------------------------------
(***************************************************************************)
(* Properties                                                              *)
(***************************************************************************)
TypeOK ==
  /\ pc \in {"start", "group", "collect", "run", "done"}
  /\ cl \in CmdLines
  /\ iLoop \in Nat /\ iGrp \in 0 .. Len(mTests)
  /\ pc \in {"collect", "run"} => iGrp \in GroupNums
  /\ testsToRun \in Seq(TestRef) /\ thisTest \in TestRef
  /\ tstIdx \in Nat \cup {-1}
  /\ results \in [TR -> Nat]
  /\ failedTests \in Seq(TestRef) /\ skippedTests \in Seq(TestRef)
  /\ exitCode \in {-1, 0, 1}
  /\ dut \in {"original", "modified", "none"}
  /\ saved \in {"none", "original", "modified"}
  /\ inForce \subseteq TestRef /\ executed \in Seq(TestRef)
  /\ offered \in Nat /\ stateErr \in BOOLEAN

\* The set a group is asked to run is in traversal order without repetition,
\* and holds every test a member depends on before that member.
TestSetSound == Ordered(testsToRun) /\ DependenciesPrecede(testsToRun)

\* A whole group is all of it: the walk of IteraterToTestRef() through the
\* three levels of the matrix passes over no test.
GroupListed ==
  pc = "run" /\ IsWholeGroup(TargetTst) =>
    \A s \in TestsOf(iGrp) : \E i \in DOMAIN testsToRun : testsToRun[i] = s

\* A test enters RunCoreTest() only while everything it depends on has passed
\* and is still in force in the device: no failure, skip, restore or group
\* change since may have torn it down.
RunsOnPreparedDevice ==
  [][executed' # executed =>
       DependenciesOf(executed'[Len(executed')]) \subseteq inForce]_vars

\* Skipping never spreads further than it must: without a failure, every test
\* dropped along with a skipped one depends on it ("only those dependents
\* which rely upon the now missing logic").
SkipsOnlyDependents ==
  [][Len(skippedTests') > Len(skippedTests) /\ failedTests' = failedTests =>
       \A i \in Len(skippedTests) + 2 .. Len(skippedTests') :
         skippedTests'[Len(skippedTests) + 1] \in DependenciesOf(skippedTests'[i])]_vars

\* How far RunTest() has come in the set.
Position == IF tstIdx = -1 THEN Len(testsToRun) ELSE tstIdx

\* While GetTestSet() lists a group, its cursor stands on a test of the group
\* (on 0.0.0 of an empty group), and the list holds exactly the tests before.
Listing ==
  pc = "collect" =>
    /\ thisTest.group = iGrp
    /\ TestExists(thisTest) \/ thisTest = Ref(iGrp, 0, 0, 0)
    /\ \A i \in DOMAIN testsToRun : Precedes(testsToRun[i], thisTest)
    /\ \A s \in TestsOf(iGrp) :
         Precedes(s, thisTest) => \E i \in DOMAIN testsToRun : testsToRun[i] = s

OneGroup ==
  pc \in {"collect", "run"} =>
    \A i \in DOMAIN testsToRun : testsToRun[i].group = iGrp

\* What the rest of the set still depends on is in force.
StillInForce ==
  pc = "run" =>
    \A k \in Position + 1 .. Len(testsToRun) : \A i \in 1 .. Position :
      testsToRun[i] \in DependenciesOf(testsToRun[k]) => testsToRun[i] \in inForce

\* The inductive invariant behind RunsOnPreparedDevice.
PreparedInv == TypeOK /\ TestSetSound /\ Listing /\ OneGroup /\ StillInForce

\* The report adds up: as long as saving and restoring work, passed + failed +
\* skipped is the number of tests worked through, each exactly once.
TotalsAddUp ==
  ~stateErr /\ pc # "done" =>
    results["TR_SUCCESS"] + results["TR_FAIL"] + results["TR_SKIPPING"] =
      offered + IF pc = "run" THEN Position ELSE 0

\* "The error itself won't be lost": a run in which a test failed does not
\* end with the exit code of a success (tnvme.cpp:720-729).
FailureNeverLost == pc = "done" /\ failedTests # <<>> => exitCode = 1

\* The same as long as SaveState() and RestoreState() return true.
FailureNotLost == ~stateErr => FailureNeverLost

\* --restore: "The last test within every group or a test failure must be
\* following with a chance to restore the state of the DUT": whenever a group
\* has been left and nothing went wrong in saving or restoring, the permanent
\* configuration is what it was at the start.
RestoredAfterGroup ==
  cl.restore /\ ~stateErr /\ pc \in {"group", "collect", "done"} => dut = "original"

TargetPresent ==
  IF cl.target.group = ALL \/ IsWholeGroup(cl.target) THEN TRUE
  ELSE IF cl.target.group < Len(mTests) THEN TestExists(cl.target) ELSE TRUE

\* The same when the test asked for exists.
RestoredAfterTarget == TargetPresent => RestoredAfterGroup

\* Every run comes to an end with an exit code.
Terminates == <>(pc = "done")
=============================================================================
