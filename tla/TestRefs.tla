------------------------------ MODULE TestRefs ------------------------------
(***************************************************************************)
(* Test numbers and the test matrix of a group (testRef.h, group.h,        *)
(* group.cpp).                                                             *)
(*                                                                         *)
(* A test is numbered group:xLev.yLev.zLev.  x.0.0 configures the device   *)
(* for everything in x; x.y.z continues the sequence x.y.0, x.y.1, ... The *)
(* numbers of a group are the indices of its three-level deque mTests.     *)
(***************************************************************************)
EXTENDS Integers, Sequences

CONSTANTS
  mTests,   \* mTests[g][x][y] = number of tests at level x.y of group g
  ALL       \* UINT_MAX: "every test", in place of a level or a group

\* The APPEND_TEST_AT_?LEVEL macros (group.h:29-50) never leave an empty
\* y or z deque behind; a whole group may be empty.
ASSUME ShapeAssumption ==
  /\ mTests \in Seq(Seq(Seq(Nat \ {0})))
  /\ \A g \in DOMAIN mTests : \A x \in DOMAIN mTests[g] : mTests[g][x] # <<>>

\* UINT_MAX is larger than any level or group number of the suite.
ASSUME AllAssumption ==
  /\ ALL \in Nat
  /\ Len(mTests) < ALL
  /\ \A g \in DOMAIN mTests : 
       /\ Len(mTests[g]) < ALL
       /\ \A x \in DOMAIN mTests[g] :
            /\ Len(mTests[g][x]) < ALL
            /\ \A y \in DOMAIN mTests[g][x] : mTests[g][x][y] < ALL

TestRef == [group : Nat, xLev : Nat, yLev : Nat, zLev : Nat]

Ref(g, x, y, z) == [group |-> g, xLev |-> x, yLev |-> y, zLev |-> z]

\* The groups of the suite; group g is element g + 1 of mTests.
GroupNums == 0 .. Len(mTests) - 1

\* Level sizes of the deques: mTests.size(), mTests[x].size(), ...
XSize(g) == Len(mTests[g + 1])
YSize(g, x) == Len(mTests[g + 1][x + 1])
ZSize(g, x, y) == mTests[g + 1][x + 1][y + 1]

\* The check of grpNum is the choice of the matrix mTests[tr.group + 1].
TestExists(tr) ==
  /\ tr.xLev < XSize(tr.group)
  /\ tr.yLev < YSize(tr.group, tr.xLev)
  /\ tr.zLev < ZSize(tr.group, tr.xLev, tr.yLev)

\* One turn of the loop of IteraterToTestRef: the test after tr in the
\* traversal of the matrix.
HasNextTest(tr) ==
  \/ TestExists([tr EXCEPT !.zLev = tr.zLev + 1])
  \/ TestExists([tr EXCEPT !.yLev = tr.yLev + 1, !.zLev = 0])
  \/ TestExists([tr EXCEPT !.xLev = tr.xLev + 1, !.yLev = 0, !.zLev = 0])

\* Variant: the zLev is kept when the yLev advances.
NextTestLosesY(tr) ==
  IF TestExists([tr EXCEPT !.zLev = tr.zLev + 1])
    THEN [tr EXCEPT !.zLev = tr.zLev + 1]
    ELSE IF TestExists([tr EXCEPT !.yLev = tr.yLev + 1])
      THEN [tr EXCEPT !.yLev = tr.yLev + 1]
      ELSE [tr EXCEPT !.xLev = tr.xLev + 1, !.yLev = 0, !.zLev = 0]

NextTest(tr) ==
  IF TestExists([tr EXCEPT !.zLev = tr.zLev + 1])
    THEN [tr EXCEPT !.zLev = tr.zLev + 1]
    ELSE IF TestExists([tr EXCEPT !.yLev = tr.yLev + 1, !.zLev = 0])
      THEN [tr EXCEPT !.yLev = tr.yLev + 1, !.zLev = 0]
      ELSE [tr EXCEPT !.xLev = tr.xLev + 1, !.yLev = 0, !.zLev = 0]

\* A target with any level ALL stands for its whole group.
IsWholeGroup(tr) == tr.xLev = ALL \/ tr.yLev = ALL \/ tr.zLev = ALL

SkippingTest(tr, skipTest) ==
  \E s \in skipTest : s.group = tr.group /\ (s = tr \/ IsWholeGroup(s))

-----------------------------------------------------------------------------
\* What the numbering means, independently of how the code walks the matrix.

\* The tests of group g.
TestsOf(g) ==
  UNION {UNION {{Ref(g, x, y, z) : z \in 0 .. ZSize(g, x, y) - 1} :
                  y \in 0 .. YSize(g, x) - 1} : x \in 0 .. XSize(g) - 1}

\* Traversal order: lexicographic in x, y, z.
Precedes(s, t) ==
  \/ s.xLev < t.xLev
  \/ s.xLev = t.xLev /\ s.yLev < t.yLev
  \/ s.xLev = t.xLev /\ s.yLev = t.yLev /\ s.zLev < t.zLev

\* What t relies on: the test that configures its xLev, and the tests before
\* it in its sequence.
DependenciesOf(t) ==
  {[t EXCEPT !.zLev = z] : z \in 0 .. t.zLev - 1}
    \cup (IF t.yLev = 0 THEN {} ELSE {Ref(t.group, t.xLev, 0, 0)})

\* A test set in traversal order, without repetition.
Ordered(ts) == \A i, j \in DOMAIN ts : i < j => Precedes(ts[i], ts[j])

\* A test set in which every test comes after all it depends on.
DependenciesPrecede(ts) ==
  \A k \in DOMAIN ts : \A s \in DependenciesOf(ts[k]) :
    \E i \in 1 .. k - 1 : ts[i] = s
=============================================================================
