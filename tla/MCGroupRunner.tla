--------------------------- MODULE MCGroupRunner ---------------------------
(***************************************************************************)
(* Instances of GroupRunner for TLC.                                       *)
(***************************************************************************)
EXTENDS GroupRunner

MCAll == 9

\* Group 0: 0.0.0, 0.0.1, 0.1.0, 0.2.0, 0.2.1, 1.0.0, 1.1.0; group 1 is empty;
\* group 2: 0.0.0, 1.0.0.
MCTests == << << <<2, 1, 2>>, <<1, 1>> >>, <<>>, << <<1>>, <<1>> >> >>

MCSaves == {0, 2}

CL(target, skip, ign, rst, n) ==
  [target |-> target, skiptest |-> skip, ignore |-> ign, restore |-> rst,
   loop |-> n]

Everything == Ref(ALL, ALL, ALL, ALL)

\* The whole suite.
MCSuiteLines == {CL(Everything, {}, i, r, 1) : i \in BOOLEAN, r \in BOOLEAN}

\* A whole group, with skip lists that name a configuration test, a test in a
\* sequence, a test at the end and a whole group.
MCGroupLines ==
  {CL(Ref(0, ALL, ALL, ALL), s, i, r, 1) :
      s \in {{}, {Ref(0, 0, 0, 0)}, {Ref(0, 0, 0, 1), Ref(0, 2, 0, 0)},
             {Ref(0, 1, 1, 0)}, {Ref(0, ALL, 0, 0)}},
      i \in BOOLEAN, r \in BOOLEAN}

\* Every single test of the matrix, and some that do not exist.
MCTargetLines ==
  {CL(Ref(g, x, y, z), s, TRUE, r, 1) : g \in 0 .. 3, x \in 0 .. 2, y \in 0 .. 3,
      z \in 0 .. 2, s \in {{}, {Ref(0, 0, 0, 0)}}, r \in BOOLEAN}

\* Three iterations of a group.
MCLoopLines ==
  {CL(Ref(2, ALL, ALL, ALL), {}, i, r, 3) : i \in BOOLEAN, r \in BOOLEAN}

MCLines == MCSuiteLines \cup MCGroupLines \cup MCTargetLines \cup MCLoopLines
=============================================================================
