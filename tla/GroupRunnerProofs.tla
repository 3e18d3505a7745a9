------------------------ MODULE GroupRunnerProofs ------------------------
(***************************************************************************)
(* Proofs about GroupRunner, for every test matrix and command line.       *)
(***************************************************************************)
EXTENDS GroupRunner, WellFoundedInduction, SequenceTheorems, TLAPS

\* Every nonempty set of naturals has a least element.
LEMMA LeastNatural ==
  ASSUME NEW S \in SUBSET Nat, S # {}
  PROVE  \E n \in S : \A m \in S : n <= m
<1>1. \E n \in S : \A m \in S : ~(<<m, n>> \in OpToRel(<, Nat))
  BY WFMin, NatLessThanWellFounded
<1>2. \A m, n \in Nat : m < n => <<m, n>> \in OpToRel(<, Nat)
  BY Zenon DEF OpToRel
<1>3. \E n \in S : \A m \in S : ~(m < n)
  BY <1>1, <1>2, Zenon
<1> QED BY <1>3

\* AdvanceDependencies() stops, at the first test that does not fall with
\* the present one or at the end of the set.
LEMMA FirstKeptStops ==
  ASSUME testsToRun \in Seq(TestRef), tstIdx \in Nat, tstIdx < Len(testsToRun),
         NEW failed \in BOOLEAN
  PROVE  /\ FirstKept(failed) \in tstIdx + 1 .. Len(testsToRun)
         /\ \A j \in tstIdx + 1 .. FirstKept(failed) - 1 :
              FallsWith(testsToRun[j + 1], Present, failed)
         /\ \/ FirstKept(failed) = Len(testsToRun)
            \/ ~FallsWith(testsToRun[FirstKept(failed) + 1], Present, failed)
<1> DEFINE S == {n \in tstIdx + 1 .. Len(testsToRun) :
                   n = Len(testsToRun) 
                     \/ ~FallsWith(testsToRun[n + 1], Present, failed)}
<1>1. S \in SUBSET Nat /\ Len(testsToRun) \in S
  OBVIOUS
<1>2. PICK n \in S : \A m \in S : n <= m
  BY <1>1, LeastNatural
<1>3. \A j \in tstIdx + 1 .. n - 1 : FallsWith(testsToRun[j + 1], Present, failed)
  <2> SUFFICES ASSUME NEW j \in tstIdx + 1 .. n - 1,
                      ~FallsWith(testsToRun[j + 1], Present, failed)
               PROVE  FALSE
    OBVIOUS
  <2>1. j \in S
    BY <1>2
  <2> QED BY <2>1, <1>2
<1> HIDE DEF S
<1>4. /\ n \in tstIdx + 1 .. Len(testsToRun)
      /\ n = Len(testsToRun) \/ ~FallsWith(testsToRun[n + 1], Present, failed)
  BY <1>2 DEF S
<1> QED BY <1>3, <1>4 DEF FirstKept

\* The tests AdvanceDependencies() drops are those between the present one
\* and the one it stops at.
LEMMA DependentsAre ==
  ASSUME testsToRun \in Seq(TestRef), tstIdx \in Nat, tstIdx < Len(testsToRun),
         NEW failed \in BOOLEAN
  PROVE  /\ Dependents(failed) \in Seq(TestRef)
         /\ Len(Dependents(failed)) = FirstKept(failed) - tstIdx - 1
         /\ \A i \in 1 .. Len(Dependents(failed)) :
              Dependents(failed)[i] = testsToRun[tstIdx + 1 + i]
<1> DEFINE n == FirstKept(failed)
<1>1. n \in tstIdx + 1 .. Len(testsToRun)
  BY FirstKeptStops
<1> HIDE DEF n
<1>2. /\ SubSeq(testsToRun, tstIdx + 2, n) \in Seq(TestRef)
      /\ Len(SubSeq(testsToRun, tstIdx + 2, n)) = n - tstIdx - 1
      /\ \A i \in 1 .. n - tstIdx - 1 : 
           SubSeq(testsToRun, tstIdx + 2, n)[i] = testsToRun[tstIdx + 1 + i]
  BY <1>1
<1> QED BY <1>2 DEF Dependents, n

-----------------------------------------------------------------------------
(***************************************************************************)
(* Type correctness                                                        *)
(***************************************************************************)
LEMMA AddResultType ==
  ASSUME results \in [TR -> Nat], NEW result \in TR, NEW k \in Nat,
         AddResult(result, k)
  PROVE  results' \in [TR -> Nat]
BY DEF AddResult, TR

LEMMA FinishType ==
  ASSUME TypeOK, pc = "run",
         saved' \in {"none", "original", "modified"},
         NEW result \in TR, NEW n \in Nat, NEW k \in Nat,
         NEW now \in {"original", "modified", "none"}, NEW force \in SUBSET TestRef,
         Finish(result, n, k, now, force)
  PROVE  /\ pc' \in {"run", "done"} /\ exitCode' \in {-1, 0, 1}
         /\ tstIdx' \in Nat \cup {-1}
         /\ results' \in [TR -> Nat]
         /\ dut' \in {"original", "modified", "none"}
         /\ inForce' \subseteq TestRef /\ stateErr' \in BOOLEAN
<1>1. AsTstIdx(n) \in Nat \cup {-1}
  BY DEF AsTstIdx
<1>2. ASSUME NEW r \in TR, AddResult(r, k) PROVE results' \in [TR -> Nat]
  BY <1>2, AddResultType DEF TypeOK
<1>3. "TR_FAIL" \in TR
  BY DEF TR
<1>4. results' \in [TR -> Nat] /\ tstIdx' \in Nat \cup {-1}
  BY <1>1, <1>2, <1>3 DEF Finish, TypeOK
<1>5. pc' \in {"run", "done"} /\ exitCode' \in {-1, 0, 1}
  BY DEF Finish, TypeOK, Continue, Unforeseen
<1>6. /\ dut' \in {"original", "modified", "none"}
      /\ inForce' \subseteq TestRef /\ stateErr' \in BOOLEAN
  BY DEF Finish, TypeOK
<1> QED BY <1>4, <1>5, <1>6

\* In RunTest() past its preliminary error checking.
LEMMA FoundFacts ==
  ASSUME TypeOK, Found
  PROVE  /\ tstIdx \in Nat /\ tstIdx < Len(testsToRun)
         /\ Present \in TestRef
BY DEF TypeOK, Found, Present

LEMMA DependentsType ==
  ASSUME TypeOK, Found, NEW failed \in BOOLEAN
  PROVE  /\ Dependents(failed) \in Seq(TestRef)
         /\ Len(Dependents(failed)) \in Nat
         /\ FirstKept(failed) \in Nat
<1>1. /\ tstIdx \in Nat /\ tstIdx < Len(testsToRun)
      /\ testsToRun \in Seq(TestRef)
  BY FoundFacts DEF TypeOK
<1>2. Dependents(failed) \in Seq(TestRef)
  BY <1>1, DependentsAre
<1>3. FirstKept(failed) \in tstIdx + 1 .. Len(testsToRun)
  BY <1>1, FirstKeptStops
<1> QED BY <1>1, <1>2, <1>3

LEMMA RefType ==
  ASSUME NEW tr \in TestRef, NEW x \in Nat, NEW y \in Nat, NEW z \in Nat
  PROVE  /\ [tr EXCEPT !.zLev = z] \in TestRef
         /\ [tr EXCEPT !.yLev = y, !.zLev = z] \in TestRef
         /\ [tr EXCEPT !.xLev = x, !.yLev = y, !.zLev = z] \in TestRef
BY DEF TestRef

LEMMA NextTestType ==
  ASSUME NEW tr \in TestRef
  PROVE  NextTest(tr) \in TestRef
<1>1. tr.xLev + 1 \in Nat /\ tr.yLev + 1 \in Nat /\ tr.zLev + 1 \in Nat
  BY DEF TestRef
<1> QED BY <1>1, RefType DEF NextTest

LEMMA TypeInit == Init => TypeOK
<1> SUFFICES ASSUME Init PROVE TypeOK
  OBVIOUS
<1>1. Len(mTests) \in Nat /\ <<>> \in Seq(TestRef)
  BY ShapeAssumption
<1>2. Ref(0, 0, 0, 0) \in TestRef
  BY DEF Ref, TestRef
<1>3. results \in [TR -> Nat]
  BY DEF Init
<1>4. cl \in CmdLines /\ iGrp \in 0 .. Len(mTests)
  BY <1>1 DEF Init
<1> QED BY <1>1, <1>2, <1>3, <1>4 DEF Init, TypeOK

LEMMA TypeNext == TypeOK /\ [Next]_vars => TypeOK'
<1> SUFFICES ASSUME TypeOK, [Next]_vars PROVE TypeOK'
  OBVIOUS
<1> USE DEF ctl, set, tally, hist
<1>0. Len(mTests) \in Nat
  BY ShapeAssumption
<1>1. CASE CheckTarget
  BY <1>1 DEF CheckTarget, Abort, TypeOK
<1>2. CASE SkipGroup
  BY <1>0, <1>2 DEF SkipGroup, TypeOK
<1>3. CASE GroupAborts
  BY <1>3 DEF GroupAborts, Abort, TypeOK
<1>4. CASE StartTarget
  <2>1. cl.target \in TestRef
    BY CmdLinesAssumption DEF TypeOK
  <2>2. TargetTst = cl.target
    BY <1>4 DEF StartTarget, TargetTst, IsWholeGroup, Ref
  <2>3. TargetSet(TargetTst) \in Seq(TestRef)
    <3> DEFINE q == [i \in 1 .. cl.target.zLev + 1 |-> [cl.target EXCEPT !.zLev = i - 1]]
    <3>1. cl.target.zLev \in Nat
      BY <2>1 DEF TestRef
    <3>2. q \in Seq(TestRef)
      <4>1. \A i \in 1 .. cl.target.zLev + 1 : [cl.target EXCEPT !.zLev = i - 1] \in TestRef
        <5> SUFFICES ASSUME NEW i \in 1 .. cl.target.zLev + 1
                     PROVE  [cl.target EXCEPT !.zLev = i - 1] \in TestRef
          OBVIOUS
        <5>1. i - 1 \in Nat
          BY <3>1
        <5> QED BY <2>1, <5>1, RefType
      <4>2. cl.target.zLev + 1 \in Nat
        BY <3>1
      <4> HIDE DEF q
      <4>3. q \in [1 .. cl.target.zLev + 1 -> TestRef]
        BY <4>1 DEF q
      <4> QED BY <4>2, <4>3, SeqDef
    <3>3. ConfigTest(cl.target) \in TestRef
      BY <2>1 DEF ConfigTest, Ref, TestRef
    <3> QED BY <2>2, <3>2, <3>3 DEF TargetSet
  <2> QED BY <1>0, <1>4, <2>3 DEF StartTarget, Targeted, TypeOK, GroupNums
<1>5. CASE StartGroup
  BY <1>0, <1>5 DEF StartGroup, TypeOK, Targeted, Ref, TestRef, GroupNums
<1>6. CASE CollectTest
  <2>1. NextTest(thisTest) \in TestRef
    BY NextTestType DEF TypeOK
  <2> QED BY <1>6, <2>1 DEF CollectTest, TypeOK
<1>7. CASE EndIteration
  BY <1>0, <1>7 DEF EndIteration, TypeOK
<1>8. CASE RunNotFound
  <2>1. results' \in [TR -> Nat]
    BY <1>8, AddResultType DEF RunNotFound, TypeOK, TR
  <2>2. iGrp' \in 0 .. Len(mTests) /\ offered' \in Nat
    BY <1>0, <1>8 DEF RunNotFound, TypeOK, GroupNums
  <2> QED BY <1>8, <2>1, <2>2 DEF RunNotFound, TypeOK
<1>9. CASE SaveFails
  <2>1. results' \in [TR -> Nat]
    BY <1>9, AddResultType DEF SaveFails, TypeOK, TR
  <2> QED BY <1>9, <2>1 DEF SaveFails, TypeOK, SaveOutcome, Unforeseen, Continue
<1>10. CASE TestPasses
  <2>1. /\ saved' \in {"none", "original", "modified"}
        /\ RunDut \in {"original", "modified", "none"}
    BY <1>10 DEF TestPasses, SaveOutcome, TypeOK, RunDut
  <2>2. inForce \cup {Present} \in SUBSET TestRef /\ tstIdx + 1 \in Nat
    BY <1>10, FoundFacts DEF TestPasses, TypeOK
  <2>3. executed' \in Seq(TestRef)
    BY <1>10, FoundFacts DEF TestPasses, TypeOK
  <2>4. Finish("TR_SUCCESS", tstIdx + 1, 0, RunDut, inForce \cup {Present})
    BY <1>10 DEF TestPasses
  <2>5. /\ pc' \in {"run", "done"} /\ exitCode' \in {-1, 0, 1}
        /\ tstIdx' \in Nat \cup {-1}
        /\ results' \in [TR -> Nat]
        /\ dut' \in {"original", "modified", "none"}
        /\ inForce' \subseteq TestRef /\ stateErr' \in BOOLEAN
    BY <1>10, <2>1, <2>2, <2>4, FinishType DEF TestPasses, TR
  <2> QED BY <1>10, <2>1, <2>3, <2>5 DEF TestPasses, TypeOK
<1>11. CASE TestFails
  <2>1. /\ saved' \in {"none", "original", "modified"}
        /\ RunDut \in {"original", "modified", "none"}
    BY <1>11 DEF TestFails, SaveOutcome, TypeOK, RunDut
  <2>2. /\ Dependents(TRUE) \in Seq(TestRef) /\ FirstKept(TRUE) \in Nat
        /\ Len(Dependents(TRUE)) \in Nat
    <3>1. Found /\ TRUE \in BOOLEAN
      BY <1>11 DEF TestFails
    <3>2. /\ Dependents(TRUE) \in Seq(TestRef)
          /\ Len(Dependents(TRUE)) \in Nat /\ FirstKept(TRUE) \in Nat
      BY <3>1, DependentsType
    <3> QED BY <3>2
  <2>3. /\ executed' \in Seq(TestRef)
        /\ failedTests' \in Seq(TestRef) /\ skippedTests' \in Seq(TestRef)
    <3>1. Present \in TestRef
      BY <1>11, FoundFacts DEF TestFails
    <3>2. /\ executed' \in Seq(TestRef) /\ failedTests' \in Seq(TestRef)
      BY <1>11, <3>1 DEF TestFails, TypeOK
    <3> DEFINE d == Dependents(TRUE)
    <3>3. d \in Seq(TestRef) /\ skippedTests' = skippedTests \o d
      BY <1>11, <2>2 DEF TestFails
    <3> HIDE DEF d
    <3> QED BY <3>2, <3>3 DEF TypeOK
  <2>4. PICK f \in Failures :
          Finish("TR_FAIL", FirstKept(TRUE), Len(Dependents(TRUE)),
                 IF f.ran THEN RunDut ELSE dut,
                 IF f.disables THEN {} ELSE inForce)
    BY <1>11 DEF TestFails
  <2>5. /\ (IF f.ran THEN RunDut ELSE dut) \in {"original", "modified", "none"}
        /\ (IF f.disables THEN {} ELSE inForce) \in SUBSET TestRef
    BY <2>1 DEF TypeOK
  <2>6. /\ pc' \in {"run", "done"} /\ exitCode' \in {-1, 0, 1}
        /\ tstIdx' \in Nat \cup {-1}
        /\ results' \in [TR -> Nat]
        /\ dut' \in {"original", "modified", "none"}
        /\ inForce' \subseteq TestRef /\ stateErr' \in BOOLEAN
    BY <1>11, <2>1, <2>2, <2>4, <2>5, FinishType, ZenonT(60) DEF TestFails, TR
  <2> QED BY <1>11, <2>1, <2>3, <2>6 DEF TestFails, TypeOK
<1>12. CASE TestSkipped
  <2>1. saved' \in {"none", "original", "modified"}
    BY <1>12 DEF TestSkipped, SaveOutcome, TypeOK
  <2>2. /\ Dependents(FALSE) \in Seq(TestRef) /\ FirstKept(FALSE) \in Nat
        /\ Len(Dependents(FALSE)) + 1 \in Nat
    <3>1. Found /\ FALSE \in BOOLEAN
      BY <1>12 DEF TestSkipped
    <3>2. /\ Dependents(FALSE) \in Seq(TestRef)
          /\ Len(Dependents(FALSE)) \in Nat /\ FirstKept(FALSE) \in Nat
      BY <3>1, DependentsType
    <3>3. \A k : k \in Nat => k + 1 \in Nat
      OBVIOUS
    <3> QED BY <3>2, <3>3, Zenon
  <2>3. skippedTests' \in Seq(TestRef)
    <3>1. Present \in TestRef
      BY <1>12, FoundFacts DEF TestSkipped
    <3>2. <<Present>> \in Seq(TestRef)
      BY <3>1
    <3> DEFINE d == Dependents(FALSE)
    <3>3. d \in Seq(TestRef) /\ skippedTests' = skippedTests \o <<Present>> \o d
      BY <1>12, <2>2 DEF TestSkipped
    <3> HIDE DEF d
    <3> QED BY <3>2, <3>3 DEF TypeOK
  <2>4. Finish("TR_SKIPPING", FirstKept(FALSE), Len(Dependents(FALSE)) + 1, dut, inForce)
    BY <1>12 DEF TestSkipped
  <2>5. /\ pc' \in {"run", "done"} /\ exitCode' \in {-1, 0, 1}
        /\ tstIdx' \in Nat \cup {-1}
        /\ results' \in [TR -> Nat]
        /\ dut' \in {"original", "modified", "none"}
        /\ inForce' \subseteq TestRef /\ stateErr' \in BOOLEAN
    <3>1. dut \in {"original", "modified", "none"} /\ inForce \in SUBSET TestRef
      BY DEF TypeOK
    <3> QED BY <1>12, <2>1, <2>2, <2>4, <3>1, FinishType DEF TestSkipped, TR
  <2> QED BY <1>12, <2>1, <2>3, <2>5 DEF TestSkipped, TypeOK
<1>13. CASE UNCHANGED vars
  BY <1>13 DEF vars, TypeOK
<1> QED BY <1>1, <1>2, <1>3, <1>4, <1>5, <1>6, <1>7, <1>8, <1>9, <1>10, <1>11,
           <1>12, <1>13 DEF Next

\* TypeOK holds in every reachable state, whatever the matrix and the
\* command line.
THEOREM TypeCorrect == Spec => []TypeOK
<1>1. Init => TypeOK
  BY TypeInit
<1>2. TypeOK /\ [Next]_vars => TypeOK'
  BY TypeNext
<1> QED BY <1>1, <1>2, PTL DEF Spec

-----------------------------------------------------------------------------
(***************************************************************************)
(* The traversal of the matrix                                             *)
(***************************************************************************)
\* The levels of the matrix have sizes, and the inner ones are not empty.
LEMMA Sizes ==
  ASSUME NEW g \in GroupNums
  PROVE  /\ XSize(g) \in Nat
         /\ \A x \in Nat : x < XSize(g) =>
              /\ YSize(g, x) \in Nat \ {0}
              /\ \A y \in Nat : y < YSize(g, x) => ZSize(g, x, y) \in Nat \ {0}
<1>1. g + 1 \in DOMAIN mTests /\ mTests[g + 1] \in Seq(Seq(Nat \ {0}))
  BY ShapeAssumption DEF GroupNums
<1>2. ASSUME NEW x \in Nat, x < XSize(g)
      PROVE  /\ mTests[g + 1][x + 1] \in Seq(Nat \ {0})
             /\ mTests[g + 1][x + 1] # <<>>
  <2>1. x + 1 \in DOMAIN mTests[g + 1]
    BY <1>1, <1>2 DEF XSize
  <2> QED BY <1>1, <2>1, ShapeAssumption
<1>3. ASSUME NEW x \in Nat, x < XSize(g)
      PROVE  YSize(g, x) \in Nat \ {0}
  BY <1>2, <1>3, EmptySeq DEF YSize
<1>4. ASSUME NEW x \in Nat, x < XSize(g), NEW y \in Nat, y < YSize(g, x)
      PROVE  ZSize(g, x, y) \in Nat \ {0}
  BY <1>2, <1>4 DEF YSize, ZSize
<1>5. XSize(g) \in Nat
  BY <1>1 DEF XSize
<1> QED BY <1>3, <1>4, <1>5

LEMMA TestsOfType ==
  ASSUME NEW g \in GroupNums, NEW s \in TestsOf(g)
  PROVE  s \in TestRef
<1>1. PICK x \in 0 .. XSize(g) - 1 : \E y \in 0 .. YSize(g, x) - 1 :
        s \in {Ref(g, x, y, z) : z \in 0 .. ZSize(g, x, y) - 1}
  BY DEF TestsOf
<1>2. PICK y \in 0 .. YSize(g, x) - 1 :
        s \in {Ref(g, x, y, z) : z \in 0 .. ZSize(g, x, y) - 1}
  BY <1>1
<1>3. PICK z \in 0 .. ZSize(g, x, y) - 1 : s = Ref(g, x, y, z)
  BY <1>2
<1>4. g \in Nat /\ x \in Nat /\ y \in Nat /\ z \in Nat
  BY ShapeAssumption DEF GroupNums
<1> QED BY <1>3, <1>4 DEF Ref, TestRef

LEMMA TestsOfIs ==
  ASSUME NEW g \in GroupNums, NEW s \in TestRef
  PROVE  s \in TestsOf(g) <=> s.group = g /\ TestExists(s)
<1>0. g \in Nat
  BY ShapeAssumption DEF GroupNums
<1>1. ASSUME s \in TestsOf(g) PROVE s.group = g /\ TestExists(s)
  <2>1. PICK x \in 0 .. XSize(g) - 1 : \E y \in 0 .. YSize(g, x) - 1 :
          s \in {Ref(g, x, y, z) : z \in 0 .. ZSize(g, x, y) - 1}
    BY <1>1 DEF TestsOf
  <2>2. PICK y \in 0 .. YSize(g, x) - 1 :
          s \in {Ref(g, x, y, z) : z \in 0 .. ZSize(g, x, y) - 1}
    BY <2>1
  <2>3. PICK z \in 0 .. ZSize(g, x, y) - 1 : s = Ref(g, x, y, z)
    BY <2>2
  <2>4. x \in Nat /\ x < XSize(g) /\ YSize(g, x) \in Nat
    BY Sizes
  <2>5. y \in Nat /\ y < YSize(g, x) /\ ZSize(g, x, y) \in Nat
    BY <2>4, Sizes
  <2> QED BY <1>0, <2>3, <2>4, <2>5 DEF TestExists, Ref
<1>2. ASSUME s.group = g, TestExists(s) PROVE s \in TestsOf(g)
  <2>1. /\ s.xLev \in 0 .. XSize(g) - 1
        /\ s.yLev \in 0 .. YSize(g, s.xLev) - 1
        /\ s.zLev \in 0 .. ZSize(g, s.xLev, s.yLev) - 1
    BY <1>0, <1>2, Sizes DEF TestExists, TestRef
  <2>2. s = Ref(g, s.xLev, s.yLev, s.zLev)
    BY <1>2 DEF Ref, TestRef
  <2> QED BY <2>1, <2>2 DEF TestsOf
<1> QED BY <1>1, <1>2

\* NextTest() is the successor in traversal order: IteraterToTestRef() passes
\* over no test of the group.
LEMMA NextIsSuccessor ==
  ASSUME NEW t \in TestRef, t.group \in GroupNums, TestExists(t), HasNextTest(t)
  PROVE  /\ NextTest(t) \in TestRef /\ NextTest(t).group = t.group
         /\ TestExists(NextTest(t))
         /\ Precedes(t, NextTest(t))
         /\ \A s \in TestRef :
              s.group = t.group /\ TestExists(s) /\ Precedes(s, NextTest(t))
                => s = t \/ Precedes(s, t)
<1> DEFINE a == [t EXCEPT !.zLev = t.zLev + 1]
           b == [t EXCEPT !.yLev = t.yLev + 1, !.zLev = 0]
           c == [t EXCEPT !.xLev = t.xLev + 1, !.yLev = 0, !.zLev = 0]
<1>0. /\ t.group \in Nat /\ t.xLev \in Nat /\ t.yLev \in Nat /\ t.zLev \in Nat
  BY DEF TestRef
<1>1. /\ a.group = t.group /\ a.xLev = t.xLev /\ a.yLev = t.yLev /\ a.zLev = t.zLev + 1
      /\ b.group = t.group /\ b.xLev = t.xLev /\ b.yLev = t.yLev + 1 /\ b.zLev = 0
      /\ c.group = t.group /\ c.xLev = t.xLev + 1 /\ c.yLev = 0 /\ c.zLev = 0
  BY DEF TestRef
<1>2. NextTest(t) \in {a, b, c} /\ TestExists(NextTest(t))
  BY DEF NextTest, HasNextTest
<1>3. ASSUME NEW s \in TestRef, s.group = t.group, TestExists(s), 
             Precedes(s, NextTest(t)), ~Precedes(s, t), s # t
      PROVE  FALSE
  <2>0. /\ s.xLev \in Nat /\ s.yLev \in Nat /\ s.zLev \in Nat
        /\ s.xLev # t.xLev \/ s.yLev # t.yLev \/ s.zLev # t.zLev
    BY <1>3 DEF TestRef
  <2>s. /\ XSize(t.group) \in Nat
        /\ YSize(t.group, t.xLev) \in Nat
        /\ ZSize(t.group, t.xLev, t.yLev) \in Nat
        /\ s.xLev < XSize(t.group) /\ s.yLev < YSize(t.group, s.xLev)
        /\ s.zLev < ZSize(t.group, s.xLev, s.yLev)
    BY <1>0, <1>3, <2>0, Sizes DEF TestExists
  <2>1. CASE TestExists(a)
    BY <1>0, <1>1, <1>3, <2>0, <2>1 DEF NextTest, Precedes, Ref
  <2>2. CASE ~TestExists(a) /\ TestExists(b)
    <3>1. t.zLev + 1 >= ZSize(t.group, t.xLev, t.yLev)
      BY <1>0, <1>1, <2>2, <2>s DEF TestExists, Ref
    <3> QED BY <1>0, <1>1, <1>3, <2>0, <2>2, <2>s, <3>1 DEF NextTest, Precedes, Ref
  <2>3. CASE ~TestExists(a) /\ ~TestExists(b) /\ TestExists(c)
    <3>1. t.zLev + 1 >= ZSize(t.group, t.xLev, t.yLev)
      BY <1>0, <1>1, <2>3, <2>s DEF TestExists, Ref
    <3>2. t.yLev + 1 >= YSize(t.group, t.xLev)
      BY <1>0, <1>1, <2>3, <2>s, Sizes DEF TestExists, Ref
    <3> QED BY <1>0, <1>1, <1>3, <2>0, <2>3, <2>s, <3>1, <3>2 DEF NextTest, Precedes, Ref
  <2> QED BY <2>1, <2>2, <2>3 DEF HasNextTest
<1>4. Precedes(t, NextTest(t)) /\ NextTest(t).group = t.group
  <2>1. Precedes(t, a) /\ Precedes(t, b) /\ Precedes(t, c)
    BY <1>0, <1>1 DEF Precedes
  <2> HIDE DEF a, b, c
  <2> QED BY <1>1, <1>2, <2>1
<1> QED BY <1>2, <1>3, <1>4, NextTestType

\* A test without a next one is the last of its group.
LEMMA NoNextIsLast ==
  ASSUME NEW t \in TestRef, t.group \in GroupNums, ~HasNextTest(t),
         NEW s \in TestsOf(t.group)
  PROVE  s = t \/ Precedes(s, t)
<1> DEFINE a == [t EXCEPT !.zLev = t.zLev + 1]
           b == [t EXCEPT !.yLev = t.yLev + 1, !.zLev = 0]
           c == [t EXCEPT !.xLev = t.xLev + 1, !.yLev = 0, !.zLev = 0]
<1>0. /\ t.group \in Nat /\ t.xLev \in Nat /\ t.yLev \in Nat /\ t.zLev \in Nat
  BY DEF TestRef
<1>1. /\ a.group = t.group /\ a.xLev = t.xLev /\ a.yLev = t.yLev /\ a.zLev = t.zLev + 1
      /\ b.group = t.group /\ b.xLev = t.xLev /\ b.yLev = t.yLev + 1 /\ b.zLev = 0
      /\ c.group = t.group /\ c.xLev = t.xLev + 1 /\ c.yLev = 0 /\ c.zLev = 0
  BY DEF TestRef
<1>2. ~TestExists(a) /\ ~TestExists(b) /\ ~TestExists(c)
  BY DEF HasNextTest
<1>3. s \in TestRef /\ s.group = t.group /\ TestExists(s)
  BY TestsOfType, TestsOfIs
<1>4. /\ s.xLev \in Nat /\ s.yLev \in Nat /\ s.zLev \in Nat
      /\ s.xLev < XSize(t.group) /\ s.yLev < YSize(t.group, s.xLev)
      /\ s.zLev < ZSize(t.group, s.xLev, s.yLev)
  BY <1>3 DEF TestExists, TestRef
<1>5. /\ XSize(t.group) \in Nat
      /\ \A x \in Nat : x < XSize(t.group) =>
           /\ YSize(t.group, x) \in Nat \ {0}
           /\ \A y \in Nat : y < YSize(t.group, x) => ZSize(t.group, x, y) \in Nat \ {0}
  BY Sizes
<1> HIDE DEF a, b, c
<1>6. ~(s.xLev > t.xLev)
  <2> SUFFICES ASSUME s.xLev > t.xLev PROVE FALSE
    OBVIOUS
  <2>1. t.xLev + 1 \in Nat /\ t.xLev + 1 < XSize(t.group)
    BY <1>0, <1>4, <1>5
  <2>2. 0 < YSize(t.group, t.xLev + 1) /\ 0 < ZSize(t.group, t.xLev + 1, 0)
    BY <1>5, <2>1
  <2> QED BY <1>1, <1>2, <2>1, <2>2 DEF TestExists
<1>7. s.xLev = t.xLev => ~(s.yLev > t.yLev)
  <2> SUFFICES ASSUME s.xLev = t.xLev, s.yLev > t.yLev PROVE FALSE
    OBVIOUS
  <2>1. t.xLev < XSize(t.group) /\ t.yLev + 1 \in Nat /\ t.yLev + 1 < YSize(t.group, t.xLev)
    BY <1>0, <1>4, <1>5
  <2>2. 0 < ZSize(t.group, t.xLev, t.yLev + 1)
    BY <1>0, <1>5, <2>1
  <2> QED BY <1>1, <1>2, <2>1, <2>2 DEF TestExists
<1>8. s.xLev = t.xLev /\ s.yLev = t.yLev => ~(s.zLev > t.zLev)
  <2> SUFFICES ASSUME s.xLev = t.xLev, s.yLev = t.yLev, s.zLev > t.zLev PROVE FALSE
    OBVIOUS
  <2>1. /\ t.xLev < XSize(t.group) /\ t.yLev < YSize(t.group, t.xLev)
        /\ t.zLev + 1 < ZSize(t.group, t.xLev, t.yLev)
    BY <1>0, <1>4, <1>5
  <2> QED BY <1>1, <1>2, <2>1 DEF TestExists
<1>9. CASE s.xLev = t.xLev /\ s.yLev = t.yLev /\ s.zLev = t.zLev
  BY <1>3, <1>9 DEF TestRef
<1> QED BY <1>0, <1>4, <1>6, <1>7, <1>8, <1>9 DEF Precedes

\* What a test depends on comes before it in its group, and exists if it does.
LEMMA DependencyFacts ==
  ASSUME NEW t \in TestRef, NEW s \in DependenciesOf(t)
  PROVE  /\ s \in TestRef /\ s.group = t.group /\ s.xLev = t.xLev
         /\ Precedes(s, t)
         /\ s.yLev = t.yLev \/ (s.yLev = 0 /\ s.zLev = 0)
<1>0. /\ t.group \in Nat /\ t.xLev \in Nat /\ t.yLev \in Nat /\ t.zLev \in Nat
  BY DEF TestRef
<1>1. CASE \E z \in 0 .. t.zLev - 1 : s = [t EXCEPT !.zLev = z]
  <2>1. PICK z \in 0 .. t.zLev - 1 : s = [t EXCEPT !.zLev = z]
    BY <1>1
  <2>2. /\ s \in TestRef /\ s.group = t.group /\ s.xLev = t.xLev
        /\ s.yLev = t.yLev /\ s.zLev = z
    <3>1. z \in Nat /\ 0 \in Nat
      BY <1>0
    <3>2. s \in TestRef
      BY <2>1, <3>1, RefType
    <3> QED BY <2>1, <3>2 DEF TestRef
  <2> QED BY <1>0, <2>2 DEF Precedes
<1>2. CASE t.yLev # 0 /\ s = Ref(t.group, t.xLev, 0, 0)
  BY <1>0, <1>2 DEF Ref, Precedes, TestRef
<1> QED BY <1>1, <1>2 DEF DependenciesOf

LEMMA DependencyExists ==
  ASSUME NEW t \in TestRef, t.group \in GroupNums, TestExists(t),
         NEW s \in DependenciesOf(t)
  PROVE  TestExists(s)
<1>0. /\ t.group \in Nat /\ t.xLev \in Nat /\ t.yLev \in Nat /\ t.zLev \in Nat
  BY DEF TestRef
<1>s. /\ XSize(t.group) \in Nat
      /\ YSize(t.group, t.xLev) \in Nat
      /\ ZSize(t.group, t.xLev, 0) \in Nat \ {0}
      /\ ZSize(t.group, t.xLev, t.yLev) \in Nat
  BY <1>0, Sizes DEF TestExists
<1>1. CASE \E z \in 0 .. t.zLev - 1 : s = [t EXCEPT !.zLev = z]
  <2>1. PICK z \in 0 .. t.zLev - 1 : s = [t EXCEPT !.zLev = z]
    BY <1>1
  <2>2. /\ s.group = t.group /\ s.xLev = t.xLev /\ s.yLev = t.yLev /\ s.zLev = z
    BY <2>1 DEF TestRef
  <2> QED BY <1>0, <1>s, <2>2 DEF TestExists
<1>2. CASE t.yLev # 0 /\ s = Ref(t.group, t.xLev, 0, 0)
  BY <1>0, <1>s, <1>2 DEF Ref, TestExists
<1> QED BY <1>1, <1>2 DEF DependenciesOf

-----------------------------------------------------------------------------
(***************************************************************************)
(* GetTestSet() hands out sound sets                                       *)
(***************************************************************************)
\* The elements of the set of a single test: its configuration test if it
\* has one, then its sequence.
LEMMA TargetSetElements ==
  ASSUME NEW t \in TestRef
  PROVE  /\ TargetSet(t) \in Seq(TestRef)
         /\ t.yLev = 0 =>
              /\ Len(TargetSet(t)) = t.zLev + 1
              /\ \A i \in 1 .. t.zLev + 1 : TargetSet(t)[i] = [t EXCEPT !.zLev = i - 1]
         /\ t.yLev # 0 =>
              /\ Len(TargetSet(t)) = t.zLev + 2
              /\ TargetSet(t)[1] = Ref(t.group, t.xLev, 0, 0)
              /\ \A i \in 2 .. t.zLev + 2 : TargetSet(t)[i] = [t EXCEPT !.zLev = i - 2]
<1> DEFINE q == [i \in 1 .. t.zLev + 1 |-> [t EXCEPT !.zLev = i - 1]]
<1>1. t.zLev \in Nat
  BY DEF TestRef
<1>2. q \in Seq(TestRef) /\ Len(q) = t.zLev + 1
  <2>1. \A i \in 1 .. t.zLev + 1 : [t EXCEPT !.zLev = i - 1] \in TestRef
    <3> SUFFICES ASSUME NEW i \in 1 .. t.zLev + 1
                 PROVE  [t EXCEPT !.zLev = i - 1] \in TestRef
      OBVIOUS
    <3>1. i - 1 \in Nat
      BY <1>1
    <3> QED BY <3>1, RefType
  <2>2. q \in [1 .. t.zLev + 1 -> TestRef] /\ t.zLev + 1 \in Nat
    BY <1>1, <2>1
  <2> HIDE DEF q
  <2> QED BY <2>2, SeqDef
<1>3. ConfigTest(t) = Ref(t.group, t.xLev, 0, 0) /\ ConfigTest(t) \in TestRef
  BY DEF ConfigTest, Ref, TestRef
<1>4. \A i \in 1 .. Len(q) : q[i] = [t EXCEPT !.zLev = i - 1]
  BY <1>2
<1>5. TargetSet(t) = IF t.yLev = 0 THEN <<>> \o q ELSE <<ConfigTest(t)>> \o q
  BY DEF TargetSet
<1> HIDE DEF q
<1>6. CASE t.yLev = 0
  <2>1. TargetSet(t) = q
    BY <1>2, <1>5, <1>6, ConcatEmptySeq
  <2> QED BY <1>1, <1>2, <1>4, <1>6, <2>1
<1>7. CASE t.yLev # 0
  <2>1. TargetSet(t) = <<ConfigTest(t)>> \o q
    BY <1>5, <1>7
  <2>2. /\ TargetSet(t) \in Seq(TestRef)
        /\ Len(TargetSet(t)) = 1 + Len(q)
        /\ TargetSet(t)[1] = ConfigTest(t)
        /\ \A i \in 2 .. 1 + Len(q) : TargetSet(t)[i] = q[i - 1]
    BY <1>2, <1>3, <2>1
  <2>3. ASSUME NEW i \in 2 .. Len(TargetSet(t))
        PROVE  TargetSet(t)[i] = [t EXCEPT !.zLev = i - 2]
    <3>1. i - 1 \in 1 .. Len(q) /\ (i - 1) - 1 = i - 2
      BY <1>1, <1>2, <2>2
    <3> QED BY <1>4, <2>2, <3>1
  <2> QED BY <1>1, <1>2, <1>3, <1>7, <2>2, <2>3
<1> QED BY <1>6, <1>7

LEMMA TargetSetSound ==
  ASSUME NEW t \in TestRef
  PROVE  /\ Ordered(TargetSet(t)) /\ DependenciesPrecede(TargetSet(t))
         /\ \A i \in DOMAIN TargetSet(t) : TargetSet(t)[i].group = t.group
<1> DEFINE ts == TargetSet(t)
<1>0. /\ t.group \in Nat /\ t.xLev \in Nat /\ t.yLev \in Nat /\ t.zLev \in Nat
  BY DEF TestRef
<1>1. \A z \in Nat : LET e == [t EXCEPT !.zLev = z] IN
        e.group = t.group /\ e.xLev = t.xLev /\ e.yLev = t.yLev /\ e.zLev = z
  BY DEF TestRef
<1>t. /\ ts \in Seq(TestRef)
      /\ t.yLev = 0 =>
              /\ Len(ts) = t.zLev + 1
              /\ \A i \in 1 .. t.zLev + 1 : ts[i] = [t EXCEPT !.zLev = i - 1]
      /\ t.yLev # 0 =>
              /\ Len(ts) = t.zLev + 2
              /\ ts[1] = Ref(t.group, t.xLev, 0, 0)
              /\ \A i \in 2 .. t.zLev + 2 : ts[i] = [t EXCEPT !.zLev = i - 2]
  BY TargetSetElements
<1> HIDE DEF ts
<1>2. CASE t.yLev = 0
  <2>1. /\ ts \in Seq(TestRef) /\ DOMAIN ts = 1 .. t.zLev + 1
        /\ \A i \in 1 .. t.zLev + 1 : ts[i] = [t EXCEPT !.zLev = i - 1]
    BY <1>2, <1>t
  <2>2. \A i \in 1 .. t.zLev + 1 :
          /\ ts[i].group = t.group /\ ts[i].xLev = t.xLev
          /\ ts[i].yLev = 0 /\ ts[i].zLev = i - 1
    <3> SUFFICES ASSUME NEW i \in 1 .. t.zLev + 1
                 PROVE  /\ ts[i].group = t.group /\ ts[i].xLev = t.xLev
                        /\ ts[i].yLev = 0 /\ ts[i].zLev = i - 1
      OBVIOUS
    <3>1. i - 1 \in Nat /\ ts[i] = [t EXCEPT !.zLev = i - 1]
      BY <1>0, <2>1
    <3> QED BY <1>1, <1>2, <3>1
  <2>3. Ordered(ts)
    BY <1>0, <2>1, <2>2 DEF Ordered, Precedes
  <2>4. ASSUME NEW k \in 1 .. t.zLev + 1, NEW s \in DependenciesOf(ts[k])
        PROVE  \E i \in 1 .. k - 1 : ts[i] = s
    <3>1. PICK z \in 0 .. k - 2 : s = [ts[k] EXCEPT !.zLev = z]
      BY <1>0, <2>2, <2>4 DEF DependenciesOf
    <3>2. z + 1 \in 1 .. k - 1 /\ z + 1 \in 1 .. t.zLev + 1 /\ (z + 1) - 1 = z
      BY <1>0
    <3>3. ts[z + 1] = [t EXCEPT !.zLev = z]
      BY <2>1, <3>2
    <3>4. [ts[k] EXCEPT !.zLev = z] = [t EXCEPT !.zLev = z]
      BY <2>1 DEF TestRef
    <3> QED BY <3>1, <3>2, <3>3, <3>4
  <2> QED BY <2>1, <2>2, <2>3, <2>4 DEF DependenciesPrecede, ts
<1>3. CASE t.yLev # 0
  <2>1. /\ ts \in Seq(TestRef) /\ DOMAIN ts = 1 .. t.zLev + 2
        /\ ts[1] = Ref(t.group, t.xLev, 0, 0)
        /\ \A i \in 2 .. t.zLev + 2 : ts[i] = [t EXCEPT !.zLev = i - 2]
    BY <1>0, <1>3, <1>t
  <2>2. /\ ts[1].group = t.group /\ ts[1].xLev = t.xLev
        /\ ts[1].yLev = 0 /\ ts[1].zLev = 0
        /\ \A i \in 2 .. t.zLev + 2 :
             /\ ts[i].group = t.group /\ ts[i].xLev = t.xLev
             /\ ts[i].yLev = t.yLev /\ ts[i].zLev = i - 2
    <3>1. ASSUME NEW i \in 2 .. t.zLev + 2
          PROVE  /\ ts[i].group = t.group /\ ts[i].xLev = t.xLev
                 /\ ts[i].yLev = t.yLev /\ ts[i].zLev = i - 2
      <4>1. i - 2 \in Nat /\ ts[i] = [t EXCEPT !.zLev = i - 2]
        BY <1>0, <2>1
      <4> QED BY <1>1, <4>1
    <3> QED BY <2>1, <3>1 DEF Ref
  <2>3. Ordered(ts)
    BY <1>0, <1>3, <2>1, <2>2 DEF Ordered, Precedes
  <2>4. ASSUME NEW k \in 1 .. t.zLev + 2, NEW s \in DependenciesOf(ts[k])
        PROVE  \E i \in 1 .. k - 1 : ts[i] = s
    <3>1. CASE k = 1
      BY <2>2, <2>4, <3>1 DEF DependenciesOf
    <3>2. CASE k # 1 /\ s = Ref(t.group, t.xLev, 0, 0)
      BY <2>1, <3>2
    <3>3. CASE k # 1 /\ s # Ref(t.group, t.xLev, 0, 0)
      <4>1. PICK z \in 0 .. k - 3 : s = [ts[k] EXCEPT !.zLev = z]
        BY <1>0, <2>2, <2>4, <3>3 DEF DependenciesOf
      <4>2. z + 2 \in 1 .. k - 1 /\ z + 2 \in 2 .. t.zLev + 2 /\ (z + 2) - 2 = z
        BY <1>0, <3>3
      <4>3. ts[z + 2] = [t EXCEPT !.zLev = z]
        BY <2>1, <4>2
      <4>4. [ts[k] EXCEPT !.zLev = z] = [t EXCEPT !.zLev = z]
        <5>1. k \in 2 .. t.zLev + 2
          BY <1>0, <3>3
        <5>2. ts[k] = [t EXCEPT !.zLev = k - 2]
          BY <2>1, <5>1
        <5> QED BY <5>2 DEF TestRef
      <4> QED BY <4>1, <4>2, <4>3, <4>4
    <3> QED BY <3>1, <3>2, <3>3
  <2> QED BY <1>0, <2>1, <2>2, <2>3, <2>4 DEF DependenciesPrecede, ts
<1> QED BY <1>2, <1>3 DEF ts

\* Appending the cursor's test keeps a listing sound.
LEMMA ListingStep ==
  ASSUME NEW ts \in Seq(TestRef), NEW t \in TestRef, t.group \in GroupNums,
         TestExists(t) \/ t = Ref(t.group, 0, 0, 0),
         Ordered(ts), DependenciesPrecede(ts),
         \A i \in DOMAIN ts : Precedes(ts[i], t),
         \A s \in TestsOf(t.group) :
           Precedes(s, t) => \E i \in DOMAIN ts : ts[i] = s
  PROVE  /\ Ordered(Append(ts, t)) /\ DependenciesPrecede(Append(ts, t))
         /\ HasNextTest(t) =>
              /\ TestExists(NextTest(t)) /\ NextTest(t).group = t.group
              /\ \A i \in DOMAIN Append(ts, t) : Precedes(Append(ts, t)[i], NextTest(t))
              /\ \A s \in TestsOf(t.group) : Precedes(s, NextTest(t)) =>
                   \E i \in DOMAIN Append(ts, t) : Append(ts, t)[i] = s
<1> DEFINE us == Append(ts, t)
<1>0. /\ t.group \in Nat /\ t.xLev \in Nat /\ t.yLev \in Nat /\ t.zLev \in Nat
  BY DEF TestRef
<1>1. /\ us \in Seq(TestRef) /\ Len(us) = Len(ts) + 1
      /\ DOMAIN us = 1 .. Len(ts) + 1 /\ DOMAIN ts = 1 .. Len(ts) /\ Len(ts) \in Nat
      /\ us[Len(ts) + 1] = t
      /\ \A i \in 1 .. Len(ts) : us[i] = ts[i]
  OBVIOUS
<1> HIDE DEF us
<1>2. Ordered(us)
  BY <1>1 DEF Ordered
<1>3. ASSUME NEW s \in DependenciesOf(t) PROVE \E i \in 1 .. Len(ts) : us[i] = s
  <2>1. CASE TestExists(t)
    <3>1. /\ s \in TestRef /\ s.group = t.group /\ Precedes(s, t)
          /\ TestExists(s)
      BY <1>3, <2>1, DependencyFacts, DependencyExists
    <3>2. s \in TestsOf(t.group)
      BY <3>1, TestsOfIs
    <3> QED BY <1>1, <3>1, <3>2
  <2>2. CASE t = Ref(t.group, 0, 0, 0)
    <3>1. t.yLev = 0 /\ t.zLev = 0
      BY <2>2 DEF Ref
    <3> QED BY <1>3, <3>1 DEF DependenciesOf
  <2> QED BY <2>1, <2>2
<1>4. DependenciesPrecede(us)
  <2> SUFFICES ASSUME NEW k \in 1 .. Len(ts) + 1, NEW s \in DependenciesOf(us[k])
               PROVE  \E i \in 1 .. k - 1 : us[i] = s
    BY <1>1 DEF DependenciesPrecede
  <2>1. CASE k = Len(ts) + 1
    BY <1>1, <1>3, <2>1
  <2>2. CASE k # Len(ts) + 1
    <3>1. k \in DOMAIN ts /\ us[k] = ts[k]
      BY <1>1, <2>2
    <3>2. PICK i \in 1 .. k - 1 : ts[i] = s
      BY <3>1 DEF DependenciesPrecede
    <3> QED BY <1>1, <3>1, <3>2
  <2> QED BY <2>1, <2>2
<1>5. ASSUME HasNextTest(t)
      PROVE  /\ TestExists(NextTest(t)) /\ NextTest(t).group = t.group
             /\ \A i \in DOMAIN us : Precedes(us[i], NextTest(t))
             /\ \A s \in TestsOf(t.group) : Precedes(s, NextTest(t)) =>
                  \E i \in DOMAIN us : us[i] = s
  <2>1. TestExists(t)
    <3> SUFFICES ASSUME t = Ref(t.group, 0, 0, 0) PROVE TestExists(t)
      OBVIOUS
    <3>1. t.xLev = 0 /\ t.yLev = 0 /\ t.zLev = 0
      BY DEF Ref
    <3>2. XSize(t.group) \in Nat /\ 0 < XSize(t.group)
      <4>1. XSize(t.group) \in Nat
        BY Sizes
      <4>2. \E x \in {0, 1} : x < XSize(t.group)
        BY <1>5, <3>1 DEF HasNextTest, TestExists, TestRef
      <4> QED BY <4>1, <4>2
    <3>3. YSize(t.group, 0) \in Nat \ {0} /\ ZSize(t.group, 0, 0) \in Nat \ {0}
      BY <3>2, Sizes
    <3> QED BY <3>1, <3>2, <3>3 DEF TestExists
  <2>2. /\ TestExists(NextTest(t)) /\ NextTest(t).group = t.group
        /\ NextTest(t) \in TestRef /\ Precedes(t, NextTest(t))
        /\ \A s \in TestRef :
             s.group = t.group /\ TestExists(s) /\ Precedes(s, NextTest(t))
               => s = t \/ Precedes(s, t)
    BY <1>5, <2>1, NextIsSuccessor
  <2>3. ASSUME NEW i \in DOMAIN us PROVE Precedes(us[i], NextTest(t))
    <3>1. us[i] \in TestRef /\ (us[i] = t \/ Precedes(us[i], t))
      BY <1>1
    <3> QED BY <2>2, <3>1 DEF Precedes, TestRef
  <2>4. ASSUME NEW s \in TestsOf(t.group), Precedes(s, NextTest(t))
        PROVE  \E i \in DOMAIN us : us[i] = s
    <3>1. s \in TestRef
      BY <2>4, TestsOfType
    <3>2. s.group = t.group /\ TestExists(s)
      BY <2>4, <3>1, TestsOfIs
    <3>3. s = t \/ Precedes(s, t)
      BY <2>2, <2>4, <3>1, <3>2
    <3> QED BY <1>1, <2>4, <3>3
  <2> QED BY <2>2, <2>3, <2>4
<1> QED BY <1>2, <1>4, <1>5 DEF us

-----------------------------------------------------------------------------
(***************************************************************************)
(* AdvanceDependencies() drops everything that must be dropped             *)
(***************************************************************************)
\* After a failure, no test that is kept depends on any test before it.
LEMMA NothingKeptAfterFailure ==
  ASSUME testsToRun \in Seq(TestRef), tstIdx \in Nat, tstIdx < Len(testsToRun),
         Ordered(testsToRun),
         NEW k \in FirstKept(TRUE) + 1 .. Len(testsToRun),
         NEW i \in 1 .. FirstKept(TRUE)
  PROVE  testsToRun[i] \notin DependenciesOf(testsToRun[k])
<1> DEFINE n == FirstKept(TRUE)
<1>1. /\ n \in tstIdx + 1 .. Len(testsToRun)
      /\ \A j \in tstIdx + 1 .. n - 1 : testsToRun[j + 1].xLev = Present.xLev
      /\ n = Len(testsToRun) \/ testsToRun[n + 1].xLev # Present.xLev
  BY FirstKeptStops DEF FallsWith
<1>k. k \in n + 1 .. Len(testsToRun) /\ i \in 1 .. n
  OBVIOUS
<1> HIDE DEF n
<1>2. \A j \in 1 .. Len(testsToRun) :
        testsToRun[j] \in TestRef /\ testsToRun[j].xLev \in Nat
  <2>1. \A j \in 1 .. Len(testsToRun) : testsToRun[j] \in TestRef
    OBVIOUS
  <2>2. \A t \in TestRef : t.xLev \in Nat
    BY DEF TestRef
  <2> QED BY <2>1, <2>2
<1>3. ASSUME NEW a \in 1 .. Len(testsToRun), NEW b \in 1 .. Len(testsToRun), a <= b
      PROVE  testsToRun[a].xLev <= testsToRun[b].xLev
  <2>1. a = b \/ Precedes(testsToRun[a], testsToRun[b])
    BY <1>3 DEF Ordered
  <2> QED BY <1>2, <2>1 DEF Precedes
<1>4. testsToRun[i].xLev <= Present.xLev
  <2>1. CASE i <= tstIdx + 1
    BY <1>1, <1>k, <1>3, <2>1 DEF Present
  <2>2. CASE i > tstIdx + 1
    <3>1. i - 1 \in tstIdx + 1 .. n - 1 /\ (i - 1) + 1 = i
      BY <1>1, <1>k, <2>2
    <3>2. testsToRun[i].xLev = Present.xLev
      BY <1>1, <3>1
    <3> QED BY <1>1, <1>k, <1>2, <3>2
  <2> QED BY <1>1, <1>k, <2>1, <2>2
<1>5. Present.xLev < testsToRun[k].xLev
  <2>1. /\ n + 1 \in 1 .. Len(testsToRun) /\ tstIdx + 1 \in 1 .. Len(testsToRun)
        /\ tstIdx + 1 <= n + 1 /\ n + 1 <= k /\ k \in 1 .. Len(testsToRun)
    BY <1>1, <1>k
  <2>2. Present.xLev <= testsToRun[n + 1].xLev /\ testsToRun[n + 1].xLev <= testsToRun[k].xLev
    BY <1>3, <2>1 DEF Present
  <2>3. testsToRun[n + 1].xLev # Present.xLev
    BY <1>1, <1>k
  <2> QED BY <1>2, <2>1, <2>2, <2>3 DEF Present
<1>6. testsToRun[i].xLev # testsToRun[k].xLev
  BY <1>1, <1>k, <1>2, <1>4, <1>5 DEF Present
<1> QED BY <1>1, <1>k, <1>2, <1>6, DependencyFacts

\* After a skip, no test that is kept depends on a test that was skipped.
LEMMA NothingKeptAfterSkip ==
  ASSUME testsToRun \in Seq(TestRef), tstIdx \in Nat, tstIdx < Len(testsToRun),
         Ordered(testsToRun),
         NEW k \in FirstKept(FALSE) + 1 .. Len(testsToRun),
         NEW i \in tstIdx + 1 .. FirstKept(FALSE)
  PROVE  testsToRun[i] \notin DependenciesOf(testsToRun[k])
<1> DEFINE n == FirstKept(FALSE)
           p == testsToRun[tstIdx + 1]
           t == testsToRun[k]
           s == testsToRun[i]
           u == testsToRun[n + 1]
           Falls(r) == /\ p.xLev = r.xLev
                       /\ (p.yLev = 0 /\ p.zLev = 0) \/ p.yLev = r.yLev
<1>1. /\ n \in tstIdx + 1 .. Len(testsToRun)
      /\ \A j \in tstIdx + 1 .. n - 1 : Falls(testsToRun[j + 1])
      /\ n = Len(testsToRun) \/ ~Falls(u)
  BY FirstKeptStops DEF Present, FallsWith
<1>k. k \in n + 1 .. Len(testsToRun) /\ i \in tstIdx + 1 .. n
  OBVIOUS
<1> HIDE DEF n
<1>2. \A j \in 1 .. Len(testsToRun) : testsToRun[j] \in TestRef
  OBVIOUS
<1>3. /\ p \in TestRef /\ t \in TestRef /\ s \in TestRef /\ u \in TestRef
      /\ s = p \/ (Precedes(p, s) /\ Falls(s))
      /\ Precedes(p, u) /\ (t = u \/ Precedes(u, t))
      /\ ~Falls(u)
  <2>1. p \in TestRef /\ t \in TestRef /\ s \in TestRef /\ u \in TestRef
    BY <1>1, <1>k, <1>2
  <2>2. s = p \/ (Precedes(p, s) /\ Falls(s))
    <3>1. CASE i = tstIdx + 1
      BY <3>1
    <3>2. CASE i # tstIdx + 1
      <4>1. i - 1 \in tstIdx + 1 .. n - 1 /\ (i - 1) + 1 = i
        BY <1>1, <1>k, <3>2
      <4>2. Falls(s)
        BY <1>1, <4>1
      <4>3. Precedes(p, s)
        BY <1>1, <1>k, <3>2 DEF Ordered
      <4> QED BY <4>2, <4>3
    <3> QED BY <3>1, <3>2
  <2>3. Precedes(p, u) /\ (t = u \/ Precedes(u, t))
    BY <1>1, <1>k DEF Ordered
  <2> QED BY <1>1, <1>k, <2>1, <2>2, <2>3
<1> HIDE DEF p, t, s, u
<1>4. ASSUME s \in DependenciesOf(t) PROVE FALSE
  <2>1. s.xLev = t.xLev /\ (s.yLev = t.yLev \/ (s.yLev = 0 /\ s.zLev = 0))
    BY <1>3, <1>4, DependencyFacts
  <2>2. /\ p.xLev \in Nat /\ p.yLev \in Nat /\ p.zLev \in Nat
        /\ s.xLev \in Nat /\ s.yLev \in Nat /\ s.zLev \in Nat
        /\ t.xLev \in Nat /\ t.yLev \in Nat /\ t.zLev \in Nat
        /\ u.xLev \in Nat /\ u.yLev \in Nat /\ u.zLev \in Nat
    BY <1>3 DEF TestRef
  <2>3. s.xLev = p.xLev /\ p.xLev <= u.xLev /\ u.xLev <= t.xLev
    <3>1. s.xLev = p.xLev
      BY <1>3
    <3>2. p.xLev <= u.xLev
      BY <1>3, <2>2, SMTT(30) DEF Precedes
    <3>3. u.xLev <= t.xLev
      BY <1>3, <2>2, SMTT(30) DEF Precedes
    <3> QED BY <3>1, <3>2, <3>3
  <2>4. u.xLev = p.xLev /\ (p.yLev # 0 \/ p.zLev # 0) /\ u.yLev > p.yLev
    BY <1>3, <2>1, <2>2, <2>3 DEF Precedes
  <2>5. s.yLev = p.yLev /\ t.yLev >= u.yLev
    BY <1>3, <2>1, <2>2, <2>3, <2>4 DEF Precedes
  <2>6. s.yLev = 0 /\ s.zLev = 0
    BY <2>1, <2>2, <2>4, <2>5
  <2> QED BY <1>3, <2>2, <2>4, <2>5, <2>6 DEF Precedes
<1> QED BY <1>4 DEF s, t

-----------------------------------------------------------------------------
(***************************************************************************)
(* PreparedInv is inductive                                                *)
(***************************************************************************)
\* How Finish() moves on: to index n with the tests in force given to it (or
\* none, after a failure), to the end of the set, or out of RunTest().
LEMMA FinishMoves ==
  ASSUME TypeOK, pc = "run", NEW result, NEW n \in Nat, NEW k, NEW now, NEW force,
         Finish(result, n, k, now, force), pc' = "run"
  PROVE  \/ tstIdx' = -1
         \/ /\ tstIdx' = n /\ n < Len(testsToRun)
            /\ inForce' = force \/ (result = "TR_FAIL" /\ inForce' = {})
BY DEF Finish, AsTstIdx, Unforeseen, TypeOK

\* RunTest() leaves the set alone.
LEMMA SetStays ==
  ASSUME PreparedInv, UNCHANGED <<set, iGrp>>, pc' # "collect", pc \in {"collect", "run"} \/ pc' # "run"
  PROVE  TestSetSound' /\ Listing' /\ OneGroup'
BY DEF PreparedInv, TestSetSound, Listing, OneGroup, set

LEMMA PreparedPass ==
  ASSUME PreparedInv, TestPasses PROVE StillInForce'
<1> SUFFICES ASSUME pc' = "run" PROVE StillInForce'
  BY DEF StillInForce
<1>1. /\ tstIdx \in Nat /\ tstIdx < Len(testsToRun) /\ testsToRun \in Seq(TestRef)
      /\ TypeOK /\ pc = "run"
  BY FoundFacts DEF PreparedInv, TestPasses, TypeOK
<1>2. \/ tstIdx' = -1
      \/ /\ tstIdx' = tstIdx + 1 /\ tstIdx + 1 < Len(testsToRun)
         /\ inForce' = inForce \cup {Present}
  <2>1. tstIdx + 1 \in Nat
    BY <1>1
  <2>2. Finish("TR_SUCCESS", tstIdx + 1, 0, RunDut, inForce \cup {Present})
    BY DEF TestPasses
  <2> QED BY <1>1, <2>1, <2>2, FinishMoves
<1>3. testsToRun' = testsToRun
  BY DEF TestPasses, set
<1>4. CASE tstIdx' = -1
  BY <1>1, <1>3, <1>4 DEF StillInForce, Position
<1>5. CASE tstIdx' = tstIdx + 1 /\ inForce' = inForce \cup {Present}
  <2>1. Position = tstIdx /\ Position' = tstIdx + 1
    BY <1>1, <1>5 DEF Position
  <2> QED BY <1>1, <1>3, <1>5, <2>1 DEF StillInForce, PreparedInv, Present
<1> QED BY <1>2, <1>4, <1>5

LEMMA PreparedFail ==
  ASSUME PreparedInv, TestFails PROVE StillInForce'
<1> SUFFICES ASSUME pc' = "run" PROVE StillInForce'
  BY DEF StillInForce
<1>1. /\ tstIdx \in Nat /\ tstIdx < Len(testsToRun) /\ testsToRun \in Seq(TestRef)
      /\ TypeOK /\ pc = "run" /\ Ordered(testsToRun)
  BY FoundFacts DEF PreparedInv, TestFails, TypeOK, TestSetSound
<1>2. tstIdx' = -1 \/ tstIdx' = FirstKept(TRUE)
  <2>1. FirstKept(TRUE) \in Nat
    <3> DEFINE n == FirstKept(TRUE)
    <3>1. n \in tstIdx + 1 .. Len(testsToRun)
      BY <1>1, FirstKeptStops
    <3> HIDE DEF n
    <3>2. n \in Nat
      BY <1>1, <3>1
    <3> QED BY <3>2 DEF n
  <2> QED BY <1>1, <2>1, FinishMoves DEF TestFails
<1>3. testsToRun' = testsToRun
  BY DEF TestFails, set
<1>4. CASE tstIdx' = -1
  BY <1>1, <1>3, <1>4 DEF StillInForce, Position
<1>5. CASE tstIdx' = FirstKept(TRUE) /\ tstIdx' # -1
  <2>1. Position' = FirstKept(TRUE)
    BY <1>5 DEF Position
  <2>2. \A k \in FirstKept(TRUE) + 1 .. Len(testsToRun) : \A i \in 1 .. FirstKept(TRUE) :
          testsToRun[i] \notin DependenciesOf(testsToRun[k])
    BY <1>1, NothingKeptAfterFailure
  <2> QED BY <1>3, <2>1, <2>2, Zenon DEF StillInForce
<1> QED BY <1>2, <1>4, <1>5

LEMMA PreparedSkip ==
  ASSUME PreparedInv, TestSkipped PROVE StillInForce'
<1> SUFFICES ASSUME pc' = "run" PROVE StillInForce'
  BY DEF StillInForce
<1>1. /\ tstIdx \in Nat /\ tstIdx < Len(testsToRun) /\ testsToRun \in Seq(TestRef)
      /\ TypeOK /\ pc = "run" /\ Ordered(testsToRun)
  BY FoundFacts DEF PreparedInv, TestSkipped, TypeOK, TestSetSound
<1> DEFINE n == FirstKept(FALSE)
<1>2. n \in tstIdx + 1 .. Len(testsToRun)
  BY <1>1, FirstKeptStops
<1>3. tstIdx' = -1 \/ (tstIdx' = n /\ inForce' = inForce)
  <2>2. Finish("TR_SKIPPING", n, Len(Dependents(FALSE)) + 1, dut, inForce)
    BY DEF TestSkipped
  <2> HIDE DEF n
  <2>1. n \in Nat /\ "TR_SKIPPING" # "TR_FAIL"
    BY <1>1, <1>2
  <2> QED BY <1>1, <2>1, <2>2, FinishMoves
<1>4. testsToRun' = testsToRun
  BY DEF TestSkipped, set
<1>5. \A k \in n + 1 .. Len(testsToRun) : \A i \in tstIdx + 1 .. n :
        testsToRun[i] \notin DependenciesOf(testsToRun[k])
  BY <1>1, NothingKeptAfterSkip
<1> HIDE DEF n
<1>6. CASE tstIdx' = -1
  BY <1>1, <1>4, <1>6 DEF StillInForce, Position
<1>7. CASE tstIdx' = n /\ inForce' = inForce
  <2>1. Position = tstIdx /\ Position' = n
    BY <1>1, <1>2, <1>7 DEF Position
  <2>2. ASSUME NEW k \in n + 1 .. Len(testsToRun), NEW i \in 1 .. n,
               testsToRun[i] \in DependenciesOf(testsToRun[k])
        PROVE  testsToRun[i] \in inForce
    <3>1. i \in 1 .. tstIdx /\ k \in tstIdx + 1 .. Len(testsToRun)
      BY <1>1, <1>2, <1>5, <2>2
    <3> QED BY <1>1, <2>1, <2>2, <3>1 DEF PreparedInv, StillInForce
  <2> QED BY <1>4, <1>7, <2>1, <2>2 DEF StillInForce
<1> QED BY <1>3, <1>6, <1>7

LEMMA PreparedNext == PreparedInv /\ [Next]_vars => PreparedInv'
<1> SUFFICES ASSUME PreparedInv, [Next]_vars PROVE PreparedInv'
  OBVIOUS
<1> USE DEF ctl, set, tally, hist
<1>0. TypeOK /\ TypeOK'
  BY TypeNext DEF PreparedInv
<1>1. CASE CheckTarget
  BY <1>0, <1>1 DEF CheckTarget, Abort, PreparedInv, TestSetSound, Listing, OneGroup, StillInForce
<1>2. CASE SkipGroup
  BY <1>0, <1>2 DEF SkipGroup, PreparedInv, TestSetSound, Listing, OneGroup, StillInForce
<1>3. CASE GroupAborts
  BY <1>0, <1>3 DEF GroupAborts, Abort, PreparedInv, TestSetSound, Listing, OneGroup, StillInForce
<1>4. CASE StartTarget
  <2>1. TargetTst = cl.target /\ cl.target \in TestRef /\ cl.target.group = iGrp
    <3>1. cl.target \in TestRef
      BY <1>0, CmdLinesAssumption DEF TypeOK
    <3>2. TargetTst = cl.target /\ cl.target.group # ALL
      BY <1>4 DEF StartTarget, TargetTst, IsWholeGroup, Ref
    <3> QED BY <1>4, <3>1, <3>2 DEF StartTarget, Targeted
  <2>2. testsToRun' = TargetSet(cl.target) /\ iGrp' = iGrp /\ pc' = "run" /\ tstIdx' = 0
    BY <1>4, <2>1 DEF StartTarget
  <2>3. TestSetSound' /\ OneGroup'
    BY <2>1, <2>2, TargetSetSound DEF TestSetSound, OneGroup
  <2>4. Listing' /\ StillInForce'
    BY <2>2 DEF Listing, StillInForce, Position
  <2> QED BY <1>0, <2>3, <2>4 DEF PreparedInv
<1>5. CASE StartGroup
  <2>1. /\ testsToRun' = <<>> /\ thisTest' = Ref(iGrp, 0, 0, 0) /\ pc' = "collect"
        /\ iGrp' = iGrp /\ iGrp \in GroupNums
    BY <1>0, <1>5 DEF StartGroup, TypeOK
  <2>2. TestSetSound' /\ OneGroup' /\ StillInForce'
    BY <2>1 DEF TestSetSound, Ordered, DependenciesPrecede, OneGroup, StillInForce
  <2>3. ASSUME NEW s \in TestsOf(iGrp) PROVE ~Precedes(s, Ref(iGrp, 0, 0, 0))
    <3>1. s \in TestRef
      BY <2>1, TestsOfType
    <3> QED BY <3>1 DEF Precedes, Ref, TestRef
  <2>4. Listing'
    BY <2>1, <2>3 DEF Listing, Ref
  <2> QED BY <1>0, <2>2, <2>4 DEF PreparedInv
<1>6. CASE CollectTest
  <2>1. /\ testsToRun' = Append(testsToRun, thisTest) /\ iGrp' = iGrp
        /\ pc = "collect" /\ iGrp \in GroupNums
    BY <1>0, <1>6 DEF CollectTest, TypeOK
  <2>2. /\ thisTest \in TestRef /\ thisTest.group = iGrp /\ testsToRun \in Seq(TestRef)
        /\ TestExists(thisTest) \/ thisTest = Ref(thisTest.group, 0, 0, 0)
        /\ Ordered(testsToRun) /\ DependenciesPrecede(testsToRun)
        /\ \A i \in DOMAIN testsToRun : Precedes(testsToRun[i], thisTest)
        /\ \A s \in TestsOf(thisTest.group) :
             Precedes(s, thisTest) => \E i \in DOMAIN testsToRun : testsToRun[i] = s
        /\ \A i \in DOMAIN testsToRun : testsToRun[i].group = iGrp
    BY <1>0, <2>1 DEF PreparedInv, TestSetSound, Listing, OneGroup, TypeOK
  <2> DEFINE us == Append(testsToRun, thisTest)
  <2>3. /\ Ordered(us) /\ DependenciesPrecede(us)
        /\ HasNextTest(thisTest) =>
             /\ TestExists(NextTest(thisTest)) /\ NextTest(thisTest).group = thisTest.group
             /\ \A i \in DOMAIN us : Precedes(us[i], NextTest(thisTest))
             /\ \A s \in TestsOf(thisTest.group) : Precedes(s, NextTest(thisTest)) =>
                  \E i \in DOMAIN us : us[i] = s
    BY <2>1, <2>2, ListingStep
  <2>4. \A i \in DOMAIN us : us[i].group = iGrp
    BY <2>2
  <2>5. testsToRun' = us
    BY <2>1
  <2> HIDE DEF us
  <2>6. TestSetSound' /\ OneGroup'
    BY <2>1, <2>3, <2>4, <2>5 DEF TestSetSound, OneGroup
  <2>7. CASE HasNextTest(thisTest)
    <3>1. thisTest' = NextTest(thisTest) /\ pc' = "collect"
      BY <1>6, <2>7 DEF CollectTest
    <3>2. Listing' /\ StillInForce'
      BY <2>1, <2>2, <2>3, <2>5, <2>7, <3>1 DEF Listing, StillInForce
    <3> QED BY <1>0, <2>6, <3>2 DEF PreparedInv
  <2>8. CASE ~HasNextTest(thisTest)
    <3>1. pc' = "run" /\ tstIdx' = 0
      BY <1>6, <2>8 DEF CollectTest
    <3>2. Listing' /\ StillInForce'
      BY <3>1 DEF Listing, StillInForce, Position
    <3> QED BY <1>0, <2>6, <3>2 DEF PreparedInv
  <2> QED BY <2>7, <2>8
<1>7. CASE EndIteration
  BY <1>0, <1>7 DEF EndIteration, PreparedInv, TestSetSound, Listing, OneGroup, StillInForce
<1>8. CASE RunNotFound
  BY <1>0, <1>8 DEF RunNotFound, PreparedInv, TestSetSound, Listing, OneGroup, StillInForce
<1>9. CASE SaveFails
  <2>1. /\ UNCHANGED <<set, iGrp>> /\ pc = "run" /\ pc' \in {"run", "done"}
        /\ pc' = "run" => tstIdx' = -1
    BY <1>9 DEF SaveFails, Unforeseen, Continue
  <2>2. StillInForce'
    BY <1>0, <2>1 DEF StillInForce, Position, TypeOK
  <2>3. TestSetSound' /\ Listing' /\ OneGroup'
    BY <2>1, SetStays
  <2> QED BY <1>0, <2>2, <2>3 DEF PreparedInv
<1>10. CASE TestPasses
  <2>1. UNCHANGED <<set, iGrp>> /\ pc = "run" /\ pc' \in {"run", "done"}
    BY <1>10 DEF TestPasses, Finish, Unforeseen, Continue
  <2>2. TestSetSound' /\ Listing' /\ OneGroup'
    BY <2>1, SetStays
  <2> QED BY <1>0, <1>10, <2>2, PreparedPass DEF PreparedInv
<1>11. CASE TestFails
  <2>1. UNCHANGED <<set, iGrp>> /\ pc = "run" /\ pc' \in {"run", "done"}
    BY <1>11 DEF TestFails, Finish, Unforeseen, Continue
  <2>2. TestSetSound' /\ Listing' /\ OneGroup'
    BY <2>1, SetStays
  <2> QED BY <1>0, <1>11, <2>2, PreparedFail DEF PreparedInv
<1>12. CASE TestSkipped
  <2>1. UNCHANGED <<set, iGrp>> /\ pc = "run" /\ pc' \in {"run", "done"}
    BY <1>12 DEF TestSkipped, Finish, Unforeseen, Continue
  <2>2. TestSetSound' /\ Listing' /\ OneGroup'
    BY <2>1, SetStays
  <2> QED BY <1>0, <1>12, <2>2, PreparedSkip DEF PreparedInv
<1>13. CASE UNCHANGED vars
  BY <1>0, <1>13 DEF vars, PreparedInv, TestSetSound, Listing, OneGroup, StillInForce, Position
<1> QED BY <1>1, <1>2, <1>3, <1>4, <1>5, <1>6, <1>7, <1>8, <1>9, <1>10, <1>11,
           <1>12, <1>13 DEF Next

LEMMA PreparedInit == Init => PreparedInv
<1> SUFFICES ASSUME Init PROVE PreparedInv
  OBVIOUS
<1>1. TypeOK
  BY TypeInit
<1>2. testsToRun = <<>> /\ pc = "start"
  BY DEF Init
<1> QED BY <1>1, <1>2 DEF PreparedInv, TestSetSound, Ordered, DependenciesPrecede,
           Listing, OneGroup, StillInForce

\* The sets that GetTestSet() returns, for any matrix of tests and any
\* target, are in traversal order and put every dependency first.
THEOREM TestSetsSound == Spec => []TestSetSound
<1>1. PreparedInv => TestSetSound
  BY DEF PreparedInv
<1> QED BY <1>1, PreparedInit, PreparedNext, PTL DEF Spec

LEMMA ListedNext == PreparedInv /\ GroupListed /\ [Next]_vars => GroupListed'
<1> SUFFICES ASSUME PreparedInv, GroupListed, [Next]_vars, pc' = "run",
                    IsWholeGroup(TargetTst)'
             PROVE  \A s \in TestsOf(iGrp') : 
                      \E i \in DOMAIN testsToRun' : testsToRun'[i] = s
  BY DEF GroupListed
<1>1. CASE UNCHANGED <<cl, iGrp, testsToRun, pc>>
  BY <1>1 DEF GroupListed, TargetTst
<1>2. CASE CollectTest
  <2>1. /\ pc = "collect" /\ iGrp' = iGrp /\ ~HasNextTest(thisTest)
        /\ testsToRun' = Append(testsToRun, thisTest)
    BY <1>2 DEF CollectTest, ctl
  <2>2. /\ thisTest \in TestRef /\ thisTest.group = iGrp /\ iGrp \in GroupNums
        /\ testsToRun \in Seq(TestRef)
        /\ \A s \in TestsOf(iGrp) :
             Precedes(s, thisTest) => \E i \in DOMAIN testsToRun : testsToRun[i] = s
    BY <2>1 DEF PreparedInv, TypeOK, Listing
  <2>3. /\ DOMAIN testsToRun' = 1 .. Len(testsToRun) + 1 /\ Len(testsToRun) \in Nat
        /\ DOMAIN testsToRun = 1 .. Len(testsToRun)
        /\ testsToRun'[Len(testsToRun) + 1] = thisTest
        /\ \A i \in DOMAIN testsToRun : testsToRun'[i] = testsToRun[i]
    BY <2>1, <2>2
  <2>4. ASSUME NEW s \in TestsOf(iGrp)
        PROVE  \E i \in DOMAIN testsToRun' : testsToRun'[i] = s
    <3>1. CASE s = thisTest
      BY <2>3, <3>1
    <3>2. CASE Precedes(s, thisTest)
      <4>1. PICK i \in DOMAIN testsToRun : testsToRun[i] = s
        BY <2>2, <2>4, <3>2
      <4>2. i \in DOMAIN testsToRun' /\ testsToRun'[i] = s
        BY <2>3, <4>1
      <4> QED BY <4>2
    <3> QED BY <2>1, <2>2, <2>4, <3>1, <3>2, NoNextIsLast
  <2> QED BY <2>1, <2>4
<1>3. CASE StartTarget
  BY <1>3 DEF StartTarget, ctl, TargetTst
<1> QED BY <1>1, <1>2, <1>3
        DEF Next, vars, ctl, set, CheckTarget, Abort, SkipGroup, GroupAborts, StartGroup,
            EndIteration, RunNotFound, SaveFails, TestPasses, TestFails, TestSkipped,
            PreparedInv, TypeOK

\* Asked for a whole group, GetTestSet() lists every test of it, for any
\* matrix of tests.
THEOREM GroupsListed == Spec => []GroupListed
<1>1. Init => GroupListed
  BY DEF Init, GroupListed
<1> QED BY <1>1, PreparedInit, PreparedNext, ListedNext, PTL DEF Spec

\* A step of RunTest() enters RunCoreTest() only when everything the test
\* depends on is in force.
LEMMA RunsPrepared ==
  ASSUME PreparedInv, Next, executed' # executed
  PROVE  DependenciesOf(executed'[Len(executed')]) \subseteq inForce
<1>1. pc = "run" /\ Found /\ executed' = Append(executed, Present)
  BY DEF Next, CheckTarget, Abort, SkipGroup, GroupAborts, StartTarget, StartGroup,
         CollectTest, EndIteration, RunNotFound, SaveFails, TestPasses, TestFails,
         TestSkipped, hist
<1>2. /\ tstIdx \in Nat /\ tstIdx < Len(testsToRun) /\ testsToRun \in Seq(TestRef)
      /\ Present \in TestRef /\ executed \in Seq(TestRef)
  BY <1>1, FoundFacts DEF PreparedInv, TypeOK
<1>3. executed'[Len(executed')] = Present
  BY <1>1, <1>2
<1>4. ASSUME NEW s \in DependenciesOf(Present) PROVE s \in inForce
  <2>1. tstIdx + 1 \in DOMAIN testsToRun /\ Present = testsToRun[tstIdx + 1]
    BY <1>2 DEF Present
  <2>2. PICK i \in 1 .. (tstIdx + 1) - 1 : testsToRun[i] = s
    BY <1>4, <2>1 DEF PreparedInv, TestSetSound, DependenciesPrecede
  <2>3. Position = tstIdx /\ i \in 1 .. tstIdx /\ tstIdx + 1 \in tstIdx + 1 .. Len(testsToRun)
    BY <1>2, <2>2 DEF Position
  <2> QED BY <1>1, <1>4, <2>1, <2>2, <2>3 DEF PreparedInv, StillInForce
<1> QED BY <1>3, <1>4

\* No test runs on a device that is not prepared for it: whatever fails, is
\* skipped or refuses to run, the dependencies of a test that runs have
\* passed and have not been torn down since.
THEOREM RunsOnlyPrepared == Spec => RunsOnPreparedDevice
<1>1. PreparedInv /\ [Next]_vars =>
        [executed' # executed =>
           DependenciesOf(executed'[Len(executed')]) \subseteq inForce]_vars
  BY RunsPrepared
<1> QED BY <1>1, PreparedInit, PreparedNext, PTL DEF Spec, RunsOnPreparedDevice

-----------------------------------------------------------------------------
(***************************************************************************)
(* The report: what ExecuteTests() reports is what happened.  The totals   *)
(* add up, a failure is not lost, a skip takes along only what depends on  *)
(* it, and --restore leaves the device as it was.                          *)
(***************************************************************************)

(***************************************************************************)
(* One verdict                                                             *)
(***************************************************************************)
Verdicts == {"TR_SUCCESS", "TR_FAIL", "TR_SKIPPING"}

\* The number of tests skipped along with a verdict that moves on to index n.
Along(result, n) ==
  CASE result = "TR_SUCCESS" -> 0
    [] result = "TR_FAIL" -> n - tstIdx - 1
    [] result = "TR_SKIPPING" -> n - tstIdx

Restores(result, n) ==
  cl.restore /\ iGrp \in Saves /\ (AsTstIdx(n) = -1 \/ result = "TR_FAIL")

\* What RunTest() does for the report when saving and restoring work.
Reported(result, n, now) ==
  /\ tstIdx' = AsTstIdx(n)
  /\ AddResult(result, Along(result, n))
  /\ Continue(result)
  /\ dut' = IF Restores(result, n) THEN saved' ELSE now
  /\ result = "TR_SUCCESS" => n = tstIdx + 1
  /\ result # "TR_FAIL" => failedTests' = failedTests

LEMMA FinishReports ==
  ASSUME stateErr \in BOOLEAN, NEW result, NEW n, NEW k, NEW now, NEW force,
         Finish(result, n, k, now, force), ~stateErr'
  PROVE  /\ ~stateErr
         /\ tstIdx' = AsTstIdx(n) /\ AddResult(result, k) /\ Continue(result)
         /\ dut' = IF Restores(result, n) THEN saved' ELSE now
<1> DEFINE due == /\ cl.restore /\ iGrp \in Saves
                  /\ AsTstIdx(n) = -1 \/ result = "TR_FAIL"
<1>1. PICK out \in IF due THEN Outcomes ELSE {"true"} :
        /\ dut' = IF due /\ out = "true" THEN saved' ELSE now
        /\ stateErr' = (stateErr \/ out # "true")
        /\ \/ /\ out = "true"
              /\ tstIdx' = AsTstIdx(n)
              /\ AddResult(result, k)
              /\ Continue(result)
           \/ out = "false"
           \/ out = "throws"
  BY DEF Finish
<1>2. ~stateErr /\ out = "true"
  BY <1>1, Zenon
<1> HIDE DEF due
<1>3. tstIdx' = AsTstIdx(n) /\ AddResult(result, k) /\ Continue(result)
  BY <1>1, <1>2
<1>4. dut' = IF due THEN saved' ELSE now
  BY <1>1, <1>2
<1> QED
  BY <1>2, <1>3, <1>4 DEF due, Restores

\* The three verdicts: n is the next test that is neither finished nor skipped.
LEMMA VerdictReports ==
  ASSUME TypeOK, TestPasses \/ TestFails \/ TestSkipped, ~stateErr'
  PROVE  /\ ~stateErr /\ Found /\ pc = "run"
         /\ UNCHANGED <<cl, iLoop, iGrp, testsToRun, thisTest, offered>>
         /\ saved' = IF SaveDue /\ iGrp \in Saves THEN dut ELSE saved
         /\ \E result \in Verdicts, n \in tstIdx + 1 .. Len(testsToRun),
               now \in {dut, RunDut} : Reported(result, n, now)
<1>1. /\ pc = "run" /\ Found /\ SaveOutcome("true")
      /\ UNCHANGED <<cl, iLoop, iGrp, testsToRun, thisTest, offered>>
  BY DEF TestPasses, TestFails, TestSkipped, ctl, set
<1>2. saved' = IF SaveDue /\ iGrp \in Saves THEN dut ELSE saved
  BY <1>1 DEF SaveOutcome
<1>3. /\ tstIdx \in Nat /\ tstIdx < Len(testsToRun) /\ testsToRun \in Seq(TestRef)
      /\ stateErr \in BOOLEAN /\ Len(testsToRun) \in Nat
  BY <1>1, FoundFacts DEF TypeOK
<1>4. CASE TestPasses
  <2>1. /\ Finish("TR_SUCCESS", tstIdx + 1, 0, RunDut, inForce \cup {Present})
        /\ failedTests' = failedTests
    BY <1>4 DEF TestPasses
  <2>2. /\ ~stateErr
        /\ tstIdx' = AsTstIdx(tstIdx + 1) /\ AddResult("TR_SUCCESS", 0)
        /\ Continue("TR_SUCCESS")
        /\ dut' = IF Restores("TR_SUCCESS", tstIdx + 1) THEN saved' ELSE RunDut
    BY <1>3, <2>1, FinishReports
  <2>3. Along("TR_SUCCESS", tstIdx + 1) = 0
    BY DEF Along
  <2>4. Reported("TR_SUCCESS", tstIdx + 1, RunDut)
    BY <2>1, <2>2, <2>3 DEF Reported
  <2>5. tstIdx + 1 \in tstIdx + 1 .. Len(testsToRun) /\ "TR_SUCCESS" \in Verdicts
    BY <1>3 DEF Verdicts
  <2> QED
    BY <1>1, <1>2, <2>2, <2>4, <2>5
<1>5. CASE TestFails
  <2> DEFINE n == FirstKept(TRUE)
             d == Len(Dependents(TRUE))
  <2>1. n \in tstIdx + 1 .. Len(testsToRun) /\ d = n - tstIdx - 1
    BY <1>3, FirstKeptStops, DependentsAre
  <2>2. PICK f \in Failures :
          Finish("TR_FAIL", n, d, IF f.ran THEN RunDut ELSE dut,
                 IF f.disables THEN {} ELSE inForce)
    BY <1>5 DEF TestFails
  <2> DEFINE now == IF f.ran THEN RunDut ELSE dut
  <2>3. now \in {dut, RunDut}
    OBVIOUS
  <2> HIDE DEF n, d, now
  <2>4. /\ ~stateErr
        /\ tstIdx' = AsTstIdx(n) /\ AddResult("TR_FAIL", d) /\ Continue("TR_FAIL")
        /\ dut' = IF Restores("TR_FAIL", n) THEN saved' ELSE now
    BY <1>3, <2>2, FinishReports DEF now
  <2>5. Along("TR_FAIL", n) = d
    BY <2>1 DEF Along
  <2>6. Reported("TR_FAIL", n, now) /\ "TR_FAIL" \in Verdicts
    BY <2>4, <2>5 DEF Reported, Verdicts
  <2> QED
    BY <1>1, <1>2, <2>1, <2>3, <2>4, <2>6
<1>6. CASE TestSkipped
  <2> DEFINE n == FirstKept(FALSE)
             d == Len(Dependents(FALSE)) + 1
  <2>1. n \in tstIdx + 1 .. Len(testsToRun) /\ Len(Dependents(FALSE)) = n - tstIdx - 1
    BY <1>3, FirstKeptStops, DependentsAre
  <2>2. Finish("TR_SKIPPING", n, d, dut, inForce) /\ failedTests' = failedTests
    BY <1>6 DEF TestSkipped
  <2>3. d = (n - tstIdx - 1) + 1
    BY <2>1
  <2> HIDE DEF n, d
  <2>4. /\ ~stateErr
        /\ tstIdx' = AsTstIdx(n) /\ AddResult("TR_SKIPPING", d)
        /\ Continue("TR_SKIPPING")
        /\ dut' = IF Restores("TR_SKIPPING", n) THEN saved' ELSE dut
    BY <1>3, <2>2, FinishReports
  <2>5. Along("TR_SKIPPING", n) = d
    BY <1>3, <2>1, <2>3 DEF Along
  <2>6. Reported("TR_SKIPPING", n, dut) /\ "TR_SKIPPING" \in Verdicts
    BY <2>2, <2>4, <2>5 DEF Reported, Verdicts
  <2> QED
    BY <1>1, <1>2, <2>1, <2>4, <2>6
<1> QED
  BY <1>4, <1>5, <1>6

\* A step that is none of the three verdicts and does not spoil the report.
LEMMA OtherSteps ==
  ASSUME TypeOK, Next, ~stateErr', ~(TestPasses \/ TestFails \/ TestSkipped)
  PROVE  /\ ~stateErr /\ UNCHANGED <<cl, failedTests, dut, saved>>
         /\ \/ CheckTarget \/ SkipGroup \/ GroupAborts \/ StartTarget
            \/ StartGroup \/ CollectTest \/ EndIteration \/ RunNotFound
  BY DEF Next, CheckTarget, SkipGroup, GroupAborts, StartTarget, StartGroup,
         CollectTest, EndIteration, RunNotFound, SaveFails, Abort, ctl, tally,
         hist, TypeOK

\* addResult(): what each verdict adds to each counter.
LEMMA Adds ==
  ASSUME TypeOK, Found, NEW result \in Verdicts,
         NEW n \in tstIdx + 1 .. Len(testsToRun),
         AddResult(result, Along(result, n)),
         result = "TR_SUCCESS" => n = tstIdx + 1
  PROVE  /\ results'["TR_SUCCESS"] + results'["TR_FAIL"] + results'["TR_SKIPPING"] =
              results["TR_SUCCESS"] + results["TR_FAIL"] + results["TR_SKIPPING"]
                + n - tstIdx
         /\ results'["TR_FAIL"] >= results["TR_FAIL"]
         /\ result = "TR_FAIL" => results'["TR_FAIL"] = results["TR_FAIL"] + 1
<1>1. /\ tstIdx \in Nat /\ n \in Nat /\ n > tstIdx
      /\ results["TR_SUCCESS"] \in Nat /\ results["TR_FAIL"] \in Nat
      /\ results["TR_SKIPPING"] \in Nat
  BY FoundFacts DEF TypeOK, TR
<1> DEFINE a == results["TR_SUCCESS"]
           b == results["TR_FAIL"]
           c == results["TR_SKIPPING"]
           S == results'["TR_SUCCESS"]
           F == results'["TR_FAIL"]
           K == results'["TR_SKIPPING"]
<1>2. CASE result = "TR_SUCCESS"
  <2>1. S = a + 1 /\ F = b /\ K = c
    BY <1>2 DEF AddResult, TR
  <2>2. n = tstIdx + 1 /\ result # "TR_FAIL"
    BY <1>2
  <2> HIDE DEF a, b, c, S, F, K
  <2>3. a \in Nat /\ b \in Nat /\ c \in Nat
    BY <1>1 DEF a, b, c
  <2>4. S + F + K = a + b + c + n - tstIdx /\ F >= b
    BY <1>1, <2>1, <2>2, <2>3
  <2> QED
    BY <2>2, <2>4 DEF a, b, c, S, F, K
<1>3. CASE result = "TR_FAIL"
  <2>1. Along(result, n) = n - tstIdx - 1
    BY <1>3 DEF Along
  <2>2. S = a /\ F = b + 1 /\ K = c + Along(result, n)
    BY <1>3 DEF AddResult, TR
  <2> HIDE DEF a, b, c, S, F, K
  <2>3. a \in Nat /\ b \in Nat /\ c \in Nat
    BY <1>1 DEF a, b, c
  <2>4. S + F + K = a + b + c + n - tstIdx /\ F >= b
    BY <1>1, <2>1, <2>2, <2>3
  <2> QED
    BY <2>2, <2>4 DEF a, b, c, S, F, K
<1>4. CASE result = "TR_SKIPPING"
  <2>1. Along(result, n) = n - tstIdx /\ result # "TR_FAIL"
    BY <1>4 DEF Along
  <2>2. S = a /\ F = b /\ K = c + Along(result, n)
    BY <1>4 DEF AddResult, TR
  <2> HIDE DEF a, b, c, S, F, K
  <2>3. a \in Nat /\ b \in Nat /\ c \in Nat
    BY <1>1 DEF a, b, c
  <2>4. S + F + K = a + b + c + n - tstIdx /\ F >= b
    BY <1>1, <2>1, <2>2, <2>3
  <2> QED
    BY <2>1, <2>4 DEF a, b, c, S, F, K
<1> QED
  BY <1>2, <1>3, <1>4 DEF Verdicts

-----------------------------------------------------------------------------
(***************************************************************************)
(* The totals                                                              *)
(***************************************************************************)
LEMMA TotalsNext == TypeOK /\ TotalsAddUp /\ [Next]_vars => TotalsAddUp'
<1> DEFINE Sum == results["TR_SUCCESS"] + results["TR_FAIL"] + results["TR_SKIPPING"]
<1> SUFFICES ASSUME TypeOK, TotalsAddUp, [Next]_vars, ~stateErr', pc' # "done"
             PROVE  Sum' = offered' + IF pc' = "run" THEN Position' ELSE 0
  BY DEF TotalsAddUp
<1>0. ~stateErr /\ pc # "done" => Sum = offered + IF pc = "run" THEN Position ELSE 0
  BY DEF TotalsAddUp
<1>1. CASE UNCHANGED vars
  BY <1>0, <1>1 DEF vars, ctl, set, tally, hist, Position
<1>2. CASE TestPasses \/ TestFails \/ TestSkipped
  <2>1. /\ ~stateErr /\ Found /\ pc = "run" /\ UNCHANGED <<testsToRun, offered>>
    BY <1>2, VerdictReports
  <2>2. PICK result \in Verdicts, n \in tstIdx + 1 .. Len(testsToRun),
             now \in {dut, RunDut} : Reported(result, n, now)
    BY <1>2, VerdictReports
  <2>3. tstIdx \in Nat /\ tstIdx < Len(testsToRun) /\ Len(testsToRun) \in Nat
    BY <2>1, FoundFacts DEF TypeOK
  <2>4. Sum' = Sum + n - tstIdx
    BY <2>1, <2>2, Adds DEF Reported
  <2>5. Position = tstIdx /\ Position' = n /\ pc' = "run"
    BY <2>1, <2>2, <2>3 DEF Position, Reported, AsTstIdx, Continue
  <2>6. Sum \in Nat /\ offered \in Nat
    BY DEF TypeOK, TR
  <2> HIDE DEF Sum
  <2> QED
    BY <1>0, <2>1, <2>3, <2>4, <2>5, <2>6
<1>3. CASE Next /\ ~(TestPasses \/ TestFails \/ TestSkipped)
  <2>1. /\ ~stateErr
        /\ \/ CheckTarget \/ SkipGroup \/ GroupAborts \/ StartTarget
           \/ StartGroup \/ CollectTest \/ EndIteration \/ RunNotFound
    BY <1>3, OtherSteps
  <2>2. CASE RunNotFound
    <3>1. Sum' = Sum
      BY <2>2 DEF RunNotFound, AddResult, TR, TypeOK
    <3>2. pc = "run" /\ pc' = "group" /\ offered' = offered + Position
      BY <2>2 DEF RunNotFound, Position
    <3>3. offered + Position \in Nat
      BY DEF TypeOK, Position
    <3> HIDE DEF Sum
    <3> QED
      BY <1>0, <2>1, <3>1, <3>2, <3>3
  <2>3. CASE ~RunNotFound
    <3>1. /\ UNCHANGED <<results, offered>> /\ pc # "run" /\ pc # "done"
          /\ pc' = "run" => tstIdx' = 0
      BY <2>1, <2>3 DEF CheckTarget, SkipGroup, GroupAborts, StartTarget, Targeted,
         StartGroup, CollectTest, EndIteration, Abort, tally, hist
    <3>2. offered + 0 = offered
      BY DEF TypeOK
    <3> QED
      BY <1>0, <2>1, <3>1, <3>2 DEF Position
  <2> QED
    BY <2>2, <2>3
<1> QED
  BY <1>1, <1>2, <1>3

\* The report adds up for every matrix and command line: each test that was
\* worked through is counted once, as passed, failed or skipped, however many
\* are skipped along with a failed or a skipped one.
THEOREM ReportAddsUp == Spec => []TotalsAddUp
<1>1. Init => TotalsAddUp
  BY DEF Init, TotalsAddUp, TR
<1> QED
  BY <1>1, TypeCorrect, TotalsNext, PTL DEF Spec

-----------------------------------------------------------------------------
(***************************************************************************)
(* Failures                                                                *)
(***************************************************************************)
\* A failed test is in the counter that main()'s exit code is computed from.
FailureCounted == ~stateErr /\ failedTests # <<>> => results["TR_FAIL"] > 0

FailureInv == TypeOK /\ FailureCounted /\ FailureNotLost

LEMMA FailureNext == FailureInv /\ [Next]_vars => FailureInv'
<1> SUFFICES ASSUME FailureInv, [Next]_vars PROVE FailureCounted' /\ FailureNotLost'
  BY TypeNext DEF FailureInv
<1>0. TypeOK /\ FailureCounted /\ FailureNotLost
  BY DEF FailureInv
<1>1. CASE UNCHANGED vars
  BY <1>0, <1>1 DEF vars, ctl, set, tally, hist, FailureCounted, FailureNotLost,
                    FailureNeverLost
<1>2. CASE stateErr'
  BY <1>2 DEF FailureCounted, FailureNotLost
<1>3. CASE ~stateErr' /\ (TestPasses \/ TestFails \/ TestSkipped)
  <2>1. ~stateErr /\ Found /\ pc = "run"
    BY <1>0, <1>3, VerdictReports
  <2>2. PICK result \in Verdicts, n \in tstIdx + 1 .. Len(testsToRun),
             now \in {dut, RunDut} : Reported(result, n, now)
    BY <1>0, <1>3, VerdictReports
  <2>3. /\ results'["TR_FAIL"] >= results["TR_FAIL"]
        /\ result = "TR_FAIL" => results'["TR_FAIL"] = results["TR_FAIL"] + 1
    BY <1>0, <2>1, <2>2, Adds DEF Reported
  <2>4. results["TR_FAIL"] \in Nat /\ results'["TR_FAIL"] \in Nat
    BY <1>0, TypeNext DEF TypeOK, TR
  <2>5. FailureCounted'
    <3>1. CASE result = "TR_FAIL"
      BY <2>3, <2>4, <3>1 DEF FailureCounted
    <3>2. CASE result # "TR_FAIL"
      BY <1>0, <2>1, <2>2, <2>3, <2>4, <3>2 DEF FailureCounted, Reported
    <3> QED
      BY <3>1, <3>2
  <2>6. FailureNotLost'
    BY <2>1, <2>2 DEF FailureNotLost, FailureNeverLost, Reported, Continue
  <2> QED
    BY <2>5, <2>6
<1>4. CASE ~stateErr' /\ Next /\ ~(TestPasses \/ TestFails \/ TestSkipped)
  <2>1. /\ ~stateErr /\ UNCHANGED failedTests
        /\ \/ CheckTarget \/ SkipGroup \/ GroupAborts \/ StartTarget
           \/ StartGroup \/ CollectTest \/ EndIteration \/ RunNotFound
    BY <1>0, <1>4, OtherSteps
  <2>2. results'["TR_FAIL"] = results["TR_FAIL"]
    BY <1>0, <2>1 DEF CheckTarget, SkipGroup, GroupAborts, StartTarget, StartGroup,
       CollectTest, EndIteration, RunNotFound, AddResult, TR, Abort, tally, TypeOK
  <2>3. FailureCounted'
    BY <1>0, <2>1, <2>2 DEF FailureCounted
  <2>4. pc' = "done" => exitCode' = 1 \/ (EndIteration /\ exitCode' = IF AllTestsPass(results) THEN 0 ELSE 1)
    BY <2>1 DEF CheckTarget, SkipGroup, GroupAborts, StartTarget, StartGroup,
       CollectTest, EndIteration, RunNotFound, Abort
  <2>5. AllTestsPass(results) => failedTests = <<>>
    BY <1>0, <2>1 DEF AllTestsPass, FailureCounted
  <2>6. FailureNotLost'
    BY <2>1, <2>4, <2>5 DEF FailureNotLost, FailureNeverLost
  <2> QED
    BY <2>3, <2>6
<1> QED
  BY <1>1, <1>2, <1>3, <1>4

\* A run in which a test failed does not end with the exit code of a success,
\* with --ignore and any number of iterations too, as long as SaveState() and
\* RestoreState() return true.
THEOREM FailuresReported == Spec => []FailureNotLost
<1>1. Init => FailureInv
  <2>1. Init => TypeOK
    BY TypeInit
  <2>2. Init => FailureCounted /\ FailureNotLost
    BY DEF Init, FailureCounted, FailureNotLost, FailureNeverLost
  <2> QED
    BY <2>1, <2>2 DEF FailureInv
<1>2. FailureInv => FailureNotLost
  BY DEF FailureInv
<1> QED
  BY <1>1, <1>2, FailureNext, PTL DEF Spec

-----------------------------------------------------------------------------
(***************************************************************************)
(* Skips                                                                   *)
(***************************************************************************)
\* What AdvanceDependencies() drops after a skip depends on the skipped test.
LEMMA DroppedDepend ==
  ASSUME NEW p \in TestRef, NEW t \in TestRef, p.group = t.group,
         Precedes(p, t), FallsWith(t, p, FALSE)
  PROVE  p \in DependenciesOf(t)
<1>1. /\ p.xLev \in Nat /\ p.yLev \in Nat /\ p.zLev \in Nat
      /\ t.xLev \in Nat /\ t.yLev \in Nat /\ t.zLev \in Nat
  BY DEF TestRef
<1>2. p.xLev = t.xLev /\ ((p.yLev = 0 /\ p.zLev = 0) \/ p.yLev = t.yLev)
  BY DEF FallsWith
<1>3. CASE p.yLev = t.yLev
  <2>1. p.zLev \in 0 .. t.zLev - 1
    BY <1>1, <1>2, <1>3 DEF Precedes
  <2>2. p = [t EXCEPT !.zLev = p.zLev]
    BY <1>2, <1>3 DEF TestRef
  <2> QED
    BY <2>1, <2>2 DEF DependenciesOf
<1>4. CASE p.yLev # t.yLev
  <2>1. t.yLev # 0 /\ p = Ref(t.group, t.xLev, 0, 0)
    BY <1>1, <1>2, <1>4 DEF TestRef, Ref
  <2> QED
    BY <2>1 DEF DependenciesOf
<1> QED
  BY <1>3, <1>4

LEMMA SkipStep ==
  ASSUME PreparedInv, TestSkipped,
         NEW i \in Len(skippedTests) + 2 .. Len(skippedTests')
  PROVE  skippedTests'[Len(skippedTests) + 1] \in DependenciesOf(skippedTests'[i])
<1> DEFINE d == Dependents(FALSE)
           sk == skippedTests
           n == FirstKept(FALSE)
<1>1. /\ tstIdx \in Nat /\ tstIdx < Len(testsToRun) /\ testsToRun \in Seq(TestRef)
      /\ Present \in TestRef /\ sk \in Seq(TestRef) /\ pc = "run"
      /\ Ordered(testsToRun) /\ Present = testsToRun[tstIdx + 1]
      /\ \A k \in 1 .. Len(testsToRun) : testsToRun[k].group = iGrp
  BY FoundFacts DEF TestSkipped, PreparedInv, TypeOK, TestSetSound, OneGroup, Present
<1>2. /\ d \in Seq(TestRef) /\ Len(d) = n - tstIdx - 1
      /\ \A k \in 1 .. Len(d) : d[k] = testsToRun[tstIdx + 1 + k]
      /\ n \in tstIdx + 1 .. Len(testsToRun)
      /\ \A j \in tstIdx + 1 .. n - 1 : FallsWith(testsToRun[j + 1], Present, FALSE)
  BY <1>1, DependentsAre, FirstKeptStops
<1>3. skippedTests' = sk \o <<Present>> \o d
  BY DEF TestSkipped
<1> HIDE DEF d, n
<1>4. /\ Len(skippedTests') = Len(sk) + 1 + Len(d)
      /\ skippedTests'[Len(sk) + 1] = Present
      /\ \A k \in 1 .. Len(d) : skippedTests'[Len(sk) + 1 + k] = d[k]
  <2> DEFINE q == sk \o <<Present>>
  <2>1. q \in Seq(TestRef) /\ Len(q) = Len(sk) + 1 /\ q[Len(sk) + 1] = Present
    BY <1>1
  <2>2. skippedTests' = q \o d
    BY <1>3
  <2> HIDE DEF q
  <2>6. /\ Len(q \o d) = Len(q) + Len(d)
        /\ \A m \in 1 .. Len(q) + Len(d) :
             (q \o d)[m] = IF m <= Len(q) THEN q[m] ELSE d[m - Len(q)]
    <3>1. q \in Seq(TestRef) /\ d \in Seq(TestRef)
      BY <1>2, <2>1
    <3> QED
      BY <3>1, ConcatProperties, Zenon
  <2>7. Len(q) \in Nat /\ Len(d) \in Nat
    BY <1>2, <2>1
  <2>3. /\ Len(q \o d) = Len(q) + Len(d) /\ Len(q) \in Nat /\ Len(d) \in Nat
        /\ \A m \in 1 .. Len(q) + Len(d) :
             (q \o d)[m] = IF m <= Len(q) THEN q[m] ELSE d[m - Len(q)]
    BY <2>6, <2>7
  <2>4. skippedTests'[Len(sk) + 1] = Present
    BY <1>1, <2>1, <2>2, <2>3
  <2>5. ASSUME NEW m \in 1 .. Len(d) PROVE skippedTests'[Len(sk) + 1 + m] = d[m]
    <3>1. /\ Len(q) + m \in 1 .. Len(q) + Len(d) /\ ~(Len(q) + m <= Len(q))
          /\ (Len(q) + m) - Len(q) = m
      BY <2>3
    <3> QED
      BY <2>1, <2>2, <2>3, <3>1
  <2> QED
    BY <2>1, <2>2, <2>3, <2>4, <2>5
<1> DEFINE k == i - Len(sk) - 1
           j == tstIdx + k
<1>5. k \in 1 .. Len(d) /\ i = Len(sk) + 1 + k /\ Len(d) \in Nat
  BY <1>1, <1>2, <1>4
<1>6. j \in tstIdx + 1 .. n - 1 /\ j + 1 = tstIdx + 1 + k /\ j + 1 \in 1 .. Len(testsToRun)
  BY <1>1, <1>2, <1>5
<1> HIDE DEF k, j
<1>7. skippedTests'[i] = testsToRun[j + 1]
  BY <1>2, <1>4, <1>5, <1>6
<1>8. /\ testsToRun[j + 1] \in TestRef /\ testsToRun[j + 1].group = Present.group
      /\ Precedes(Present, testsToRun[j + 1])
      /\ FallsWith(testsToRun[j + 1], Present, FALSE)
  <2>1. FallsWith(testsToRun[j + 1], Present, FALSE)
    BY <1>2, <1>6
  <2>2. tstIdx + 1 \in 1 .. Len(testsToRun) /\ tstIdx + 1 < j + 1
    BY <1>1, <1>2, <1>6
  <2>3. Precedes(Present, testsToRun[j + 1])
    BY <1>1, <1>6, <2>2 DEF Ordered
  <2>4. testsToRun[j + 1] \in TestRef
    <3>1. testsToRun \in Seq(TestRef) /\ j + 1 \in 1 .. Len(testsToRun)
      BY <1>1, <1>6
    <3> QED
      BY <3>1
  <2>5. testsToRun[j + 1].group = iGrp
    BY <1>1, <1>6, Zenon
  <2>6. Present.group = iGrp
    BY <1>1, <2>2, Zenon
  <2> QED
    BY <2>1, <2>3, <2>4, <2>5, <2>6
<1> QED
  BY <1>1, <1>4, <1>7, <1>8, DroppedDepend

\* Without a failure, a test that is dropped along with a skipped one depends
\* on it: AdvanceDependencies() goes no further than the missing logic, for
\* any matrix of tests.
THEOREM SkipsAreNeeded == Spec => SkipsOnlyDependents
<1> DEFINE Needed ==
      Len(skippedTests') > Len(skippedTests) /\ failedTests' = failedTests =>
        \A i \in Len(skippedTests) + 2 .. Len(skippedTests') :
          skippedTests'[Len(skippedTests) + 1] \in DependenciesOf(skippedTests'[i])
<1>1. PreparedInv /\ [Next]_vars => [Needed]_vars
  <2> SUFFICES ASSUME PreparedInv, Next, Len(skippedTests') > Len(skippedTests),
                      failedTests' = failedTests,
                      NEW i \in Len(skippedTests) + 2 .. Len(skippedTests')
               PROVE  skippedTests'[Len(skippedTests) + 1]
                        \in DependenciesOf(skippedTests'[i])
    BY DEF vars
  <2>1. ~TestFails
    <3> SUFFICES ASSUME TestFails PROVE FALSE
      OBVIOUS
    <3>1. failedTests' = Append(failedTests, Present) /\ failedTests \in Seq(TestRef)
          /\ Present \in TestRef
      BY FoundFacts DEF TestFails, PreparedInv, TypeOK
    <3>2. Len(failedTests') = Len(failedTests) + 1 /\ Len(failedTests) \in Nat
      BY <3>1
    <3> QED
      BY <3>2
  <2>2. skippedTests' = skippedTests => FALSE
    BY DEF PreparedInv, TypeOK
  <2>3. TestSkipped
    BY <2>1, <2>2 DEF Next, CheckTarget, Abort, SkipGroup, GroupAborts, StartTarget,
       StartGroup, CollectTest, EndIteration, RunNotFound, SaveFails, TestPasses, tally
  <2> QED
    BY <2>3, SkipStep
<1> QED
  BY <1>1, PreparedInit, PreparedNext, PTL DEF Spec, SkipsOnlyDependents
-----------------------------------------------------------------------------
(***************************************************************************)
(* Restoring the device                                                    *)
(***************************************************************************)
InSet == pc = "run" /\ tstIdx # -1 => tstIdx < Len(testsToRun)

\* Only the first test of a set may be one that the group does not have: a
\* group is entered at 0.0.0 even if it is empty.
Existing ==
  TargetPresent =>
    /\ pc = "collect" /\ testsToRun # <<>> => TestExists(thisTest)
    /\ pc \in {"collect", "run"} =>
         \A i \in 2 .. Len(testsToRun) : TestExists(testsToRun[i])

\* The device is as it was, or a test of the group has run and SaveState() has
\* kept what it was.
Restorable ==
  TargetPresent /\ cl.restore /\ ~stateErr =>
    /\ pc # "run" \/ tstIdx \in {-1, 0} \/ iGrp \notin Saves => dut = "original"
    /\ pc = "run" /\ tstIdx \notin {-1, 0} /\ iGrp \in Saves => saved = "original"

RestoreInv == PreparedInv /\ InSet /\ Existing /\ Restorable

LEMMA InSetNext == PreparedInv /\ InSet /\ [Next]_vars => InSet'
<1> SUFFICES ASSUME PreparedInv, InSet, [Next]_vars, pc' = "run", tstIdx' # -1
             PROVE  tstIdx' < Len(testsToRun')
  BY DEF InSet
<1>0. TypeOK
  BY DEF PreparedInv
<1>1. CASE TestPasses \/ TestFails \/ TestSkipped
  <2>1. Found /\ pc = "run" /\ testsToRun' = testsToRun
    BY <1>1 DEF TestPasses, TestFails, TestSkipped, set
  <2>2. tstIdx + 1 \in Nat /\ FirstKept(TRUE) \in Nat /\ FirstKept(FALSE) \in Nat
    <3>1. tstIdx + 1 \in Nat
      BY <1>0, <2>1, FoundFacts
    <3>2. \A failed \in BOOLEAN : FirstKept(failed) \in Nat
      BY <1>0, <2>1, DependentsType
    <3> QED
      BY <3>1, <3>2
  <2>3. CASE TestPasses
    <3>1. Finish("TR_SUCCESS", tstIdx + 1, 0, RunDut, inForce \cup {Present})
      BY <2>3 DEF TestPasses
    <3> QED
      BY <1>0, <2>1, <2>2, <3>1, FinishMoves
  <2>4. CASE TestFails
    <3>1. PICK f \in Failures :
            Finish("TR_FAIL", FirstKept(TRUE), Len(Dependents(TRUE)),
                   IF f.ran THEN RunDut ELSE dut, IF f.disables THEN {} ELSE inForce)
      BY <2>4 DEF TestFails
    <3> QED
      BY <1>0, <2>1, <2>2, <3>1, FinishMoves
  <2>5. CASE TestSkipped
    <3>1. Finish("TR_SKIPPING", FirstKept(FALSE), Len(Dependents(FALSE)) + 1, dut,
                 inForce)
      BY <2>5 DEF TestSkipped
    <3> QED
      BY <1>0, <2>1, <2>2, <3>1, FinishMoves
  <2> QED
    BY <1>1, <2>3, <2>4, <2>5
<1>2. CASE StartTarget
  <2>1. TargetTst \in TestRef
    BY <1>0, <1>2, CmdLinesAssumption
       DEF TypeOK, StartTarget, TargetTst, IsWholeGroup, Ref
  <2>2. TargetTst.yLev \in Nat /\ TargetTst.zLev \in Nat
    BY <2>1 DEF TestRef
  <2>3. Len(TargetSet(TargetTst)) \in {TargetTst.zLev + 1, TargetTst.zLev + 2}
    BY <2>1, TargetSetElements
  <2>4. tstIdx' = 0 /\ testsToRun' = TargetSet(TargetTst)
    BY <1>2 DEF StartTarget
  <2> QED
    BY <2>2, <2>3, <2>4
<1>3. CASE CollectTest
  <2>1. tstIdx' = 0 /\ testsToRun' = Append(testsToRun, thisTest)
    BY <1>3 DEF CollectTest
  <2> QED
    BY <1>0, <2>1 DEF TypeOK
<1>4. CASE UNCHANGED vars
  BY <1>4 DEF vars, set, InSet
<1>5. CASE SaveFails
  BY <1>5 DEF SaveFails, Unforeseen
<1>6. CASE CheckTarget \/ SkipGroup \/ GroupAborts \/ StartGroup \/ EndIteration
           \/ RunNotFound
  BY <1>6 DEF CheckTarget, SkipGroup, GroupAborts, Abort, StartGroup, EndIteration,
              RunNotFound
<1> QED
  BY <1>1, <1>2, <1>3, <1>4, <1>5, <1>6 DEF Next

\* Every member of the set of an existing test exists.
LEMMA TargetSetExists ==
  ASSUME NEW t \in TestRef, t.group \in GroupNums, TestExists(t),
         NEW i \in 1 .. Len(TargetSet(t))
  PROVE  TestExists(TargetSet(t)[i])
<1>0. /\ t.yLev \in Nat /\ t.zLev \in Nat
      /\ \A z \in 0 .. t.zLev : [t EXCEPT !.zLev = z] = t
                                  \/ [t EXCEPT !.zLev = z] \in DependenciesOf(t)
  <2>1. t.yLev \in Nat /\ t.zLev \in Nat
    BY DEF TestRef
  <2>2. ASSUME NEW z \in 0 .. t.zLev
        PROVE  [t EXCEPT !.zLev = z] = t \/ [t EXCEPT !.zLev = z] \in DependenciesOf(t)
    <3>1. CASE z = t.zLev
      BY <3>1 DEF TestRef
    <3>2. CASE z # t.zLev
      <4>1. z \in 0 .. t.zLev - 1
        BY <2>1, <3>2
      <4> QED
        BY <4>1 DEF DependenciesOf
    <3> QED
      BY <3>1, <3>2
  <2> QED
    BY <2>1, <2>2
<1>1. \A z \in 0 .. t.zLev : TestExists([t EXCEPT !.zLev = z])
  <2> SUFFICES ASSUME NEW z \in 0 .. t.zLev PROVE TestExists([t EXCEPT !.zLev = z])
    OBVIOUS
  <2> DEFINE e == [t EXCEPT !.zLev = z]
  <2>1. e = t \/ e \in DependenciesOf(t)
    BY <1>0
  <2> HIDE DEF e
  <2>2. TestExists(e)
    BY <2>1, DependencyExists
  <2> QED
    BY <2>2 DEF e
<1>2. CASE t.yLev = 0
  <2>1. i \in 1 .. t.zLev + 1 /\ TargetSet(t)[i] = [t EXCEPT !.zLev = i - 1]
    BY <1>2, TargetSetElements
  <2>2. i - 1 \in 0 .. t.zLev
    BY <1>0, <2>1
  <2> QED
    BY <1>1, <2>1, <2>2
<1>3. CASE t.yLev # 0
  <2>0. Len(TargetSet(t)) = t.zLev + 2
    BY <1>3, TargetSetElements
  <2>1. CASE i = 1
    <3>1. TargetSet(t)[i] = Ref(t.group, t.xLev, 0, 0)
      BY <1>3, <2>1, TargetSetElements
    <3>2. Ref(t.group, t.xLev, 0, 0) \in DependenciesOf(t)
      BY <1>3 DEF DependenciesOf
    <3> QED
      BY <3>1, <3>2, DependencyExists
  <2>2. CASE i # 1
    <3>1. i \in 2 .. t.zLev + 2 /\ i - 2 \in 0 .. t.zLev
      BY <1>0, <2>0, <2>2
    <3>2. TargetSet(t)[i] = [t EXCEPT !.zLev = i - 2]
      BY <1>3, <3>1, TargetSetElements
    <3> QED
      BY <1>1, <3>1, <3>2
  <2> QED
    BY <2>1, <2>2
<1> QED
  BY <1>2, <1>3

LEMMA ExistingNext == PreparedInv /\ Existing /\ [Next]_vars => Existing'
<1> SUFFICES ASSUME PreparedInv, Existing, [Next]_vars, TargetPresent'
             PROVE  /\ pc' = "collect" /\ testsToRun' # <<>> => TestExists(thisTest')
                    /\ pc' \in {"collect", "run"} =>
                         \A i \in 2 .. Len(testsToRun') : TestExists(testsToRun'[i])
  BY DEF Existing
<1>0. TypeOK
  BY DEF PreparedInv
<1>1. cl' = cl
  BY DEF Next, vars, ctl, CheckTarget, Abort, SkipGroup, GroupAborts, StartTarget,
         StartGroup, CollectTest, EndIteration, RunNotFound, SaveFails, TestPasses,
         TestFails, TestSkipped
<1>2. TargetPresent
  BY <1>1 DEF TargetPresent
<1>3. /\ pc = "collect" /\ testsToRun # <<>> => TestExists(thisTest)
      /\ pc \in {"collect", "run"} =>
           \A i \in 2 .. Len(testsToRun) : TestExists(testsToRun[i])
  BY <1>2 DEF Existing
<1>4. CASE StartTarget
  <2>1. /\ TargetTst = cl.target /\ cl.target \in TestRef /\ cl.target.group = iGrp
        /\ iGrp \in GroupNums
    <3>1. cl.target \in TestRef
      BY <1>0, CmdLinesAssumption DEF TypeOK
    <3>2. TargetTst = cl.target /\ cl.target.group # ALL
      BY <1>4 DEF StartTarget, TargetTst, IsWholeGroup, Ref
    <3>3. cl.target.group = iGrp /\ iGrp < Len(mTests)
      BY <1>4, <3>2 DEF StartTarget, Targeted
    <3>4. iGrp \in GroupNums
      BY <1>0, <3>3, ShapeAssumption DEF TypeOK, GroupNums
    <3> QED
      BY <3>1, <3>2, <3>3, <3>4
  <2>2. TestExists(cl.target)
    <3>1. ~IsWholeGroup(cl.target) /\ cl.target.group # ALL
      BY <1>4, <2>1 DEF StartTarget, TargetTst, IsWholeGroup, Ref
    <3>2. cl.target.group < Len(mTests)
      BY <1>4, <2>1 DEF StartTarget, Targeted
    <3> QED
      BY <1>2, <3>1, <3>2 DEF TargetPresent
  <2>3. pc' = "run" /\ testsToRun' = TargetSet(cl.target)
    BY <1>4, <2>1 DEF StartTarget
  <2>4. \A i \in 1 .. Len(TargetSet(cl.target)) : TestExists(TargetSet(cl.target)[i])
    BY <2>1, <2>2, TargetSetExists
  <2> QED
    BY <2>3, <2>4
<1>5. CASE StartGroup
  BY <1>5 DEF StartGroup
<1>6. CASE CollectTest
  <2>1. /\ pc = "collect" /\ thisTest \in TestRef /\ testsToRun \in Seq(TestRef)
        /\ testsToRun' = Append(testsToRun, thisTest)
    BY <1>0, <1>6 DEF CollectTest, TypeOK
  <2>2. ASSUME NEW i \in 2 .. Len(testsToRun') PROVE TestExists(testsToRun'[i])
    <3>1. CASE i \in 2 .. Len(testsToRun)
      BY <1>3, <2>1, <3>1
    <3>2. CASE i \notin 2 .. Len(testsToRun)
      <4>1. testsToRun'[i] = thisTest /\ testsToRun # <<>>
        BY <2>1, <3>2
      <4> QED
        BY <1>3, <2>1, <4>1
    <3> QED
      BY <3>1, <3>2
  <2>3. ASSUME pc' = "collect" PROVE TestExists(thisTest')
    <3>1. HasNextTest(thisTest) /\ thisTest' = NextTest(thisTest)
      BY <1>6, <2>3 DEF CollectTest
    <3>2. /\ thisTest.group \in GroupNums
          /\ TestExists(thisTest) \/ thisTest = Ref(thisTest.group, 0, 0, 0)
          /\ Ordered(testsToRun) /\ DependenciesPrecede(testsToRun)
          /\ \A i \in DOMAIN testsToRun : Precedes(testsToRun[i], thisTest)
          /\ \A s \in TestsOf(thisTest.group) :
               Precedes(s, thisTest) => \E i \in DOMAIN testsToRun : testsToRun[i] = s
      BY <1>0, <2>1 DEF PreparedInv, TestSetSound, Listing, TypeOK
    <3> QED
      BY <2>1, <3>1, <3>2, ListingStep
  <2> QED
    BY <2>2, <2>3
<1>7. CASE pc' \in {"collect", "run"} /\ UNCHANGED <<set, pc>>
  BY <1>3, <1>7 DEF set
<1>8. CASE pc' \notin {"collect", "run"}
  BY <1>8
<1> QED
  BY <1>4, <1>5, <1>6, <1>7, <1>8 DEF Next, vars, CheckTarget, Abort, SkipGroup,
     GroupAborts, EndIteration, RunNotFound, SaveFails, Unforeseen, Continue,
     TestPasses, TestFails, TestSkipped, Finish

LEMMA RestorableNext == RestoreInv /\ [Next]_vars => Restorable'
<1> SUFFICES ASSUME RestoreInv, [Next]_vars, TargetPresent', cl'.restore, ~stateErr'
             PROVE  /\ pc' # "run" \/ tstIdx' \in {-1, 0} \/ iGrp' \notin Saves
                         => dut' = "original"
                    /\ pc' = "run" /\ tstIdx' \notin {-1, 0} /\ iGrp' \in Saves
                         => saved' = "original"
  BY DEF Restorable
<1>0. TypeOK /\ InSet /\ Existing /\ Restorable
  BY DEF RestoreInv, PreparedInv
<1>1. CASE UNCHANGED vars
  BY <1>0, <1>1 DEF vars, ctl, hist, set, Restorable, TargetPresent
<1>2. CASE TestPasses \/ TestFails \/ TestSkipped
  <2>1. /\ ~stateErr /\ Found /\ pc = "run" /\ UNCHANGED <<cl, iGrp>>
        /\ saved' = IF SaveDue /\ iGrp \in Saves THEN dut ELSE saved
    BY <1>0, <1>2, VerdictReports
  <2>2. PICK result \in Verdicts, n \in tstIdx + 1 .. Len(testsToRun),
             now \in {dut, RunDut} : Reported(result, n, now)
    BY <1>0, <1>2, VerdictReports
  <2>3. cl.restore /\ TargetPresent
    BY <2>1 DEF TargetPresent
  <2>4. /\ tstIdx \in {-1, 0} \/ iGrp \notin Saves => dut = "original"
        /\ tstIdx \notin {-1, 0} /\ iGrp \in Saves => saved = "original"
    BY <1>0, <2>1, <2>3 DEF Restorable
  <2>5. tstIdx \in Nat /\ tstIdx < Len(testsToRun) /\ Len(testsToRun) \in Nat
    BY <1>0, <2>1, FoundFacts DEF TypeOK
  <2>6. CASE iGrp \in Saves
    <3>1. saved' = "original"
      BY <2>1, <2>3, <2>4, <2>5, <2>6 DEF SaveDue
    <3>2. tstIdx' = AsTstIdx(n) /\ n # 0 /\ AsTstIdx(n) # 0
      BY <2>2, <2>5 DEF Reported, AsTstIdx
    <3>3. pc' # "run" => result = "TR_FAIL"
      BY <2>1, <2>2 DEF Reported, Continue
    <3>4. pc' # "run" \/ tstIdx' = -1 => Restores(result, n)
      BY <2>3, <2>6, <3>2, <3>3 DEF Restores
    <3>5. pc' # "run" \/ tstIdx' = -1 => dut' = "original"
      BY <2>2, <3>1, <3>4 DEF Reported
    <3> QED
      BY <2>1, <2>6, <3>1, <3>2, <3>5
  <2>7. CASE iGrp \notin Saves
    <3>1. now = dut /\ dut = "original" /\ ~Restores(result, n)
      BY <2>4, <2>7 DEF RunDut, Restores
    <3>2. dut' = "original"
      BY <2>2, <3>1 DEF Reported
    <3> QED
      BY <2>1, <2>7, <3>2
  <2> QED
    BY <2>6, <2>7
<1>3. CASE Next /\ ~(TestPasses \/ TestFails \/ TestSkipped)
  <2>1. /\ ~stateErr /\ UNCHANGED <<cl, dut, saved>>
        /\ \/ CheckTarget \/ SkipGroup \/ GroupAborts \/ StartTarget
           \/ StartGroup \/ CollectTest \/ EndIteration \/ RunNotFound
    BY <1>0, <1>3, OtherSteps
  <2>2. cl.restore /\ TargetPresent
    BY <2>1 DEF TargetPresent
  <2>3. pc' = "run" => tstIdx' = 0
    BY <2>1 DEF CheckTarget, SkipGroup, GroupAborts, Targeted, StartTarget, Abort,
       StartGroup, CollectTest, EndIteration, RunNotFound
  <2>4. pc # "run" \/ tstIdx \in {-1, 0}
    <3> SUFFICES ASSUME pc = "run", tstIdx # -1, tstIdx # 0 PROVE FALSE
      OBVIOUS
    <3>1. RunNotFound
      BY <2>1 DEF CheckTarget, SkipGroup, GroupAborts, Targeted, StartTarget,
         StartGroup, CollectTest, EndIteration
    <3>2. tstIdx < Len(testsToRun) /\ tstIdx \in Nat /\ Len(testsToRun) \in Nat
      BY <1>0 DEF InSet, TypeOK
    <3>3. tstIdx + 1 \in 2 .. Len(testsToRun)
      BY <3>2
    <3>4. TestExists(testsToRun[tstIdx + 1])
      BY <1>0, <2>2, <3>3 DEF Existing
    <3> QED
      BY <3>1, <3>2, <3>4 DEF RunNotFound, Found, Present
  <2>5. dut' = "original"
    BY <1>0, <2>1, <2>2, <2>4 DEF Restorable
  <2> QED
    BY <2>3, <2>5
<1> QED
  BY <1>1, <1>2, <1>3

\* With --restore, whenever a group has been left and SaveState() and
\* RestoreState() have worked, the device's permanent configuration is what it
\* was before the first test: whatever the groups, their tests and the target,
\* as long as the target exists.
THEOREM DeviceIsRestored == Spec => []RestoredAfterTarget
<1>1. Init => RestoreInv
  <2>1. Init => InSet /\ Existing /\ Restorable
    BY DEF Init, InSet, Existing, Restorable
  <2> QED
    BY <2>1, PreparedInit DEF RestoreInv
<1>2. RestoreInv /\ [Next]_vars => RestoreInv'
  <2> SUFFICES ASSUME RestoreInv, [Next]_vars PROVE RestoreInv'
    OBVIOUS
  <2>1. PreparedInv /\ InSet /\ Existing
    BY DEF RestoreInv
  <2>2. PreparedInv' /\ InSet' /\ Existing' /\ Restorable'
    BY <2>1, PreparedNext, InSetNext, ExistingNext, RestorableNext
  <2> QED
    BY <2>2 DEF RestoreInv
<1>3. RestoreInv => RestoredAfterTarget
  BY DEF RestoreInv, Restorable, RestoredAfterTarget, RestoredAfterGroup
<1> QED
  BY <1>1, <1>2, <1>3, PTL DEF Spec
=============================================================================
