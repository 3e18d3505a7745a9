------------------------- MODULE ReservationsProofs -------------------------
(***************************************************************************)
(* For any number of runs of both groups: host A never fails a test unless *)
(* one was skipped, its block is kept, and host B fails only when it came  *)
(* before the reservation.                                                 *)
(***************************************************************************)
EXTENDS Reservations, TLAPS

-----------------------------------------------------------------------------
(***************************************************************************)
(* The inductive invariant                                                 *)
(***************************************************************************)
Keys == {None, "0xAE", "0xAF", "0xAD", "0xBD"}
Outcomes == {"none", "passed", "failed", "skipped", "killed"}

TypeOK ==
  /\ runs \in [Hosts -> Nat] /\ tst \in [Hosts -> 0 .. 5]
  /\ pc \in [Hosts -> 0 .. 4] /\ outcome \in [Hosts -> Outcomes]
  /\ skipped \in [Hosts -> BOOLEAN]
  /\ hostId \in [Hosts -> HostIds] /\ key \in [HostIds -> Keys]
  /\ holder \in {None, "0xAA"} /\ block \in {"old", "0xCC", "0xDD"}

\* The number of calls of each test.
Calls(h, t) ==
  CASE t = 1 -> 1
    [] t = 2 -> 4
    [] t = 3 -> IF h = "A" THEN 4 ELSE 2
    [] t = 4 -> 4
    [] OTHER -> 0

Placed ==
  \A h \in Hosts :
    /\ h = "B" => tst[h] <= 3
    /\ pc[h] <= Calls(h, tst[h])

\* Host h is in test t with n of its calls behind it, or further on.
Made(h, t, n) == tst[h] > t \/ (tst[h] = t /\ pc[h] >= n)
\* Host h is in test t with n to m of its calls behind it.
In(h, t, n, m) == tst[h] = t /\ pc[h] >= n /\ pc[h] <= m

\* Which identifier a host acts under: its own from the first call of the
\* registration on, and no key is ever registered under the default one.
Identified ==
  /\ hostId["A"] \in {"0x00", "0xAA"} /\ hostId["B"] \in {"0x00", "0xBB"}
  /\ key["0x00"] = None /\ key["0xBB"] \in {None, "0xBD"}
  /\ In("A", 2, 1, 4) \/ In("A", 3, 1, 4) \/ In("A", 4, 2, 4)
       => hostId["A"] = "0xAA"
  /\ In("B", 2, 1, 4) => hostId["B"] = "0xBB"

\* How far the registration of host A has got.
Registered ==
  /\ In("A", 2, 3, 3) => key["0xAA"] = None
  /\ In("A", 2, 4, 4) => key["0xAA"] = "0xAE"
  /\ ~skipped["A"] =>
       /\ Made("A", 2, 4) => hostId["A"] = "0xAA"
       /\ In("A", 3, 0, 0) => key["0xAA"] = "0xAE"
       /\ In("A", 3, 1, 2) => key["0xAA"] = "0xAF"
       /\ Made("A", 3, 3) => key["0xAA"] = "0xAD"

\* From its acquisition on host A holds the reservation, and from its write
\* on the block is what it wrote, also after the run has passed.
Held ==
  /\ In("A", 4, 2, 4) => holder = "0xAA"
  /\ ~skipped["A"] =>
       /\ Made("A", 4, 2) => holder = "0xAA"
       /\ Made("A", 4, 3) => block = "0xCC"
       /\ tst["A"] = 0 /\ outcome["A"] = "passed" => holder = "0xAA" /\ block = "0xCC"

Inv == TypeOK /\ Placed /\ Identified /\ Registered /\ Held /\ HostAPasses

-----------------------------------------------------------------------------
(***************************************************************************)
(* The tests of the groups, call by call                                   *)
(***************************************************************************)
\* The tests of each group and the number of their calls.
LEMMA Lengths ==
  /\ Len(Group("A")) = 5 /\ Len(Group("B")) = 3
  /\ \A t \in 1 .. 5 : Len(Group("A")[t]) = Calls("A", t)
  /\ \A t \in 1 .. 3 : Len(Group("B")[t]) = Calls("B", t)
  BY DEF Group, Calls, CreateResources_r11, RegisterReservation,
         ReplaceReservation, AcquireReservation, ReleaseReservation,
         ReadWriteToUnacquiredReservation

\* The calls of host A, test by test.
LEMMA CallsOfA ==
  LET G == Group("A") IN
  /\ G[1][1] = Command("reset", None, None, FALSE, Pass)
  /\ G[2][1] = Command("setid", None, "0xAA", FALSE, Pass)
  /\ G[2][2] = Command("getid", None, "0xAA", FALSE, Pass)
  /\ G[2][3] = Command("unregister", "0", "0", TRUE, Any)
  /\ G[2][4] = Command("register", "0xAE", "0xAE", TRUE, Pass)
  /\ G[3][1] = Command("replace", "0xAE", "0xAF", FALSE, Pass)
  /\ G[3][2] = Command("replace", "0xAA", "0xAD", FALSE, Conflict)
  /\ G[3][3] = Command("replace", "0xAA", "0xAD", TRUE, Pass)
  /\ G[3][4] = Command("unregister", "0xAA", "0", FALSE, Conflict)
  /\ G[4][1] = Command("acquire", "0xFA", None, FALSE, Conflict)
  /\ G[4][2] = Command("acquire", "0xAD", None, FALSE, Pass)
  /\ G[4][3] = Command("write", None, "0xCC", FALSE, Pass)
  /\ G[4][4] = Command("read", None, "0xCC", FALSE, Pass)
  BY SMTT(30) DEF Group, CreateResources_r11, RegisterReservation,
         ReplaceReservation, AcquireReservation

\* The calls of host B, test by test.
LEMMA CallsOfB ==
  LET G == Group("B") IN
  /\ G[1][1] = Command("reset", None, None, FALSE, Pass)
  /\ G[2][1] = Command("setid", None, "0xBB", FALSE, Pass)
  /\ G[2][2] = Command("getid", None, "0xBB", FALSE, Pass)
  /\ G[2][3] = Command("unregister", "0", "0", TRUE, Any)
  /\ G[2][4] = Command("register", "0xBD", "0xBD", TRUE, Pass)
  /\ G[3][1] = Command("write", None, "0xDD", FALSE, Conflict)
  /\ G[3][2] = Command("read", None, "0xDD", FALSE, Conflict)
  BY SMTT(30) DEF Group, CreateResources_r11, RegisterReservation,
         ReadWriteToUnacquiredReservation

-----------------------------------------------------------------------------
(***************************************************************************)
(* Every step preserves the invariant                                      *)
(***************************************************************************)
\* A call of host A: it is not thrown unless a test was skipped, whatever
\* host B did before it, and it leaves what the next call needs.
LEMMA CallByA ==
  ASSUME Inv, SendAndReapCmd("A")
  PROVE  Inv'
<1> DEFINE c == Group("A")[tst["A"]][pc["A"] + 1]
<1> USE DEF Hosts, HostIds, Outcomes, Keys, None, Pass, Conflict, Any
<1>1. /\ tst["A"] \in 1 .. 4 /\ pc["A"] \in 0 .. 3
      /\ tst["A"] = 1 => pc["A"] = 0
  <2>1. /\ tst["A"] \in 1 .. 5 /\ pc["A"] \in 0 .. 4
        /\ pc["A"] < Len(Group("A")[tst["A"]])
    BY DEF Inv, TypeOK, Placed, SendAndReapCmd, Running, Present
  <2>2. pc["A"] < Calls("A", tst["A"])
    BY <2>1, Lengths
  <2> QED
    BY <2>1, <2>2 DEF Calls
<1> USE DEF Inv, TypeOK, Placed, Calls, Identified, Registered, Held,
            HostAPasses, Made, In, SendAndReapCmd, Present, Executed, Status,
            KeyAfter, HolderAfter, HostIdAfter, Miscompares, Matches, Admitted,
            Command, Ends
<1>2. CASE tst["A"] = 1 /\ pc["A"] = 0
  <2>1. c = Command("reset", None, None, FALSE, Pass)
    BY <1>2, CallsOfA
  <2> QED
    BY <1>2, <2>1, SMTT(30)
<1>3. CASE tst["A"] = 2 /\ pc["A"] = 0
  <2>1. c = Command("setid", None, "0xAA", FALSE, Pass)
    BY <1>3, CallsOfA
  <2> QED
    BY <1>3, <2>1, SMTT(30)
<1>4. CASE tst["A"] = 2 /\ pc["A"] = 1
  <2>1. c = Command("getid", None, "0xAA", FALSE, Pass)
    BY <1>4, CallsOfA
  <2> QED
    BY <1>4, <2>1, SMTT(30)
<1>5. CASE tst["A"] = 2 /\ pc["A"] = 2
  <2>1. c = Command("unregister", "0", "0", TRUE, Any)
    BY <1>5, CallsOfA
  <2> QED
    BY <1>5, <2>1, SMTT(30)
<1>6. CASE tst["A"] = 2 /\ pc["A"] = 3
  <2>1. c = Command("register", "0xAE", "0xAE", TRUE, Pass)
    BY <1>6, CallsOfA
  <2> QED
    BY <1>6, <2>1, SMTT(30)
<1>7. CASE tst["A"] = 3 /\ pc["A"] = 0
  <2>1. c = Command("replace", "0xAE", "0xAF", FALSE, Pass)
    BY <1>7, CallsOfA
  <2> QED
    BY <1>7, <2>1, SMTT(30)
<1>8. CASE tst["A"] = 3 /\ pc["A"] = 1
  <2>1. c = Command("replace", "0xAA", "0xAD", FALSE, Conflict)
    BY <1>8, CallsOfA
  <2> QED
    BY <1>8, <2>1, SMTT(30)
<1>9. CASE tst["A"] = 3 /\ pc["A"] = 2
  <2>1. c = Command("replace", "0xAA", "0xAD", TRUE, Pass)
    BY <1>9, CallsOfA
  <2> QED
    BY <1>9, <2>1, SMTT(30)
<1>10. CASE tst["A"] = 3 /\ pc["A"] = 3
  <2>1. c = Command("unregister", "0xAA", "0", FALSE, Conflict)
    BY <1>10, CallsOfA
  <2> QED
    BY <1>10, <2>1, SMTT(30)
<1>11. CASE tst["A"] = 4 /\ pc["A"] = 0
  <2>1. c = Command("acquire", "0xFA", None, FALSE, Conflict)
    BY <1>11, CallsOfA
  <2> QED
    BY <1>11, <2>1, SMTT(30)
<1>12. CASE tst["A"] = 4 /\ pc["A"] = 1
  <2>1. c = Command("acquire", "0xAD", None, FALSE, Pass)
    BY <1>12, CallsOfA
  <2> QED
    BY <1>12, <2>1, SMTT(30)
<1>13. CASE tst["A"] = 4 /\ pc["A"] = 2
  <2>1. c = Command("write", None, "0xCC", FALSE, Pass)
    BY <1>13, CallsOfA
  <2> QED
    BY <1>13, <2>1, SMTT(30)
<1>14. CASE tst["A"] = 4 /\ pc["A"] = 3
  <2>1. c = Command("read", None, "0xCC", FALSE, Pass)
    BY <1>14, CallsOfA
  <2> QED
    BY <1>14, <2>1, SMTT(30)
<1> HIDE DEF Inv
<1> QED
  BY <1>1, <1>2, <1>3, <1>4, <1>5, <1>6, <1>7, <1>8, <1>9, <1>10,
     <1>11, <1>12, <1>13, <1>14

\* A call of host B: nothing host A relies on is lost, and it is thrown only
\* when host A does not hold the reservation.
LEMMA CallByB ==
  ASSUME Inv, SendAndReapCmd("B")
  PROVE  Inv' /\ (holder = "0xAA" => outcome' = outcome)
<1> DEFINE c == Group("B")[tst["B"]][pc["B"] + 1]
<1> USE DEF Hosts, HostIds, Outcomes, Keys, None, Pass, Conflict, Any
<1>1. /\ tst["B"] \in 1 .. 3 /\ pc["B"] \in 0 .. 3
      /\ tst["B"] = 1 => pc["B"] = 0
      /\ tst["B"] = 3 => pc["B"] < 2
  <2>1. /\ tst["B"] \in 1 .. 3 /\ pc["B"] \in 0 .. 4
        /\ pc["B"] < Len(Group("B")[tst["B"]])
    BY DEF Inv, TypeOK, Placed, SendAndReapCmd, Running, Present
  <2>2. pc["B"] < Calls("B", tst["B"])
    BY <2>1, Lengths
  <2> QED
    BY <2>1, <2>2 DEF Calls
<1> USE DEF Inv, TypeOK, Placed, Calls, Identified, Registered, Held,
            HostAPasses, Made, In, SendAndReapCmd, Present, Executed, Status,
            KeyAfter, HolderAfter, HostIdAfter, Miscompares, Matches, Admitted,
            Command, Ends
<1>2. CASE tst["B"] = 1 /\ pc["B"] = 0
  <2>1. c = Command("reset", None, None, FALSE, Pass)
    BY <1>2, CallsOfB
  <2> QED
    BY <1>2, <2>1, SMTT(30)
<1>3. CASE tst["B"] = 2 /\ pc["B"] = 0
  <2>1. c = Command("setid", None, "0xBB", FALSE, Pass)
    BY <1>3, CallsOfB
  <2> QED
    BY <1>3, <2>1, SMTT(30)
<1>4. CASE tst["B"] = 2 /\ pc["B"] = 1
  <2>1. c = Command("getid", None, "0xBB", FALSE, Pass)
    BY <1>4, CallsOfB
  <2> QED
    BY <1>4, <2>1, SMTT(30)
<1>5. CASE tst["B"] = 2 /\ pc["B"] = 2
  <2>1. c = Command("unregister", "0", "0", TRUE, Any)
    BY <1>5, CallsOfB
  <2> QED
    BY <1>5, <2>1, SMTT(30)
<1>6. CASE tst["B"] = 2 /\ pc["B"] = 3
  <2>1. c = Command("register", "0xBD", "0xBD", TRUE, Pass)
    BY <1>6, CallsOfB
  <2> QED
    BY <1>6, <2>1, SMTT(30)
<1>7. CASE tst["B"] = 3 /\ pc["B"] = 0
  <2>1. c = Command("write", None, "0xDD", FALSE, Conflict)
    BY <1>7, CallsOfB
  <2> QED
    BY <1>7, <2>1, SMTT(30)
<1>8. CASE tst["B"] = 3 /\ pc["B"] = 1
  <2>1. c = Command("read", None, "0xDD", FALSE, Conflict)
    BY <1>8, CallsOfB
  <2> QED
    BY <1>8, <2>1, SMTT(30)
<1> HIDE DEF Inv
<1> QED
  BY <1>1, <1>2, <1>3, <1>4, <1>5, <1>6, <1>7, <1>8

\* A host goes on to its next test when it has made all calls of the present
\* one, or skips it, or its run ends.
LEMMA Control ==
  ASSUME Inv, NEW h \in Hosts,
         Begin(h) \/ Complete(h) \/ Skip(h) \/ Killed(h)
  PROVE  Inv'
<1> USE DEF Hosts, HostIds, Outcomes, Keys, None
<1> USE DEF Inv, TypeOK, Placed, Identified, Registered, Held, HostAPasses,
            Made, In, Ends, device
<1>1. CASE Begin(h)
  BY <1>1, MaxRunsAssumption, SMTT(30) DEF Begin, Calls
<1> DEFINE last == IF h = "A" THEN 5 ELSE 3
<1>0. Len(Group(h)) = last /\ tst[h] \in 0 .. last
  BY Lengths
<1>2. CASE Complete(h)
  <2>1. tst[h] \in 1 .. last
    BY <1>0, <1>2 DEF Complete, Running
  <2>2. pc[h] = Calls(h, tst[h])
    BY <1>2, <2>1, Lengths DEF Complete, Present
  <2>3. CASE tst[h] = last
    BY <1>0, <1>2, <2>1, <2>2, <2>3 DEF Complete, GoesOn, Calls
  <2>4. CASE tst[h] # last
    BY <1>0, <1>2, <2>1, <2>2, <2>4 DEF Complete, GoesOn, Calls
  <2> QED
    BY <2>3, <2>4
<1>3. CASE Skip(h)
  <2>1. tst[h] \in 1 .. last
    BY <1>0, <1>3 DEF Skip, Running
  <2>3. CASE tst[h] \in {1, last}
    BY <1>0, <1>3, <2>1, <2>3 DEF Skip, GoesOn, Calls
  <2>4. CASE tst[h] \notin {1, last}
    BY <1>0, <1>3, <2>1, <2>4 DEF Skip, GoesOn, Calls
  <2> QED
    BY <2>3, <2>4
<1>4. CASE Killed(h)
  BY <1>4 DEF Killed, Running, Calls
<1> QED
  BY <1>1, <1>2, <1>3, <1>4

LEMMA InvHolds == Spec => []Inv
<1>1. Init => Inv
  BY DEF Init, Inv, TypeOK, Placed, Calls, Identified, Registered, Held,
         HostAPasses, Made, In, Hosts, HostIds, Outcomes, Keys, None
<1>2. Inv /\ [Next]_vars => Inv'
  <2> SUFFICES ASSUME Inv, [Next]_vars PROVE Inv'
    OBVIOUS
  <2>1. CASE UNCHANGED vars
    BY <2>1 DEF vars, Inv, TypeOK, Placed, Identified, Registered, Held,
                HostAPasses, Made, In
  <2>2. ASSUME NEW h \in Hosts, SendAndReapCmd(h) PROVE Inv'
    BY <2>2, CallByA, CallByB DEF Hosts
  <2> QED
    BY <2>1, <2>2, Control DEF Next
<1> QED
  BY <1>1, <1>2, PTL DEF Spec

-----------------------------------------------------------------------------
(***************************************************************************)
(* The theorems                                                            *)
(***************************************************************************)
\* However often both groups are run, killed and run again, every variable
\* keeps its type; in particular no host but 0xAA ever holds the reservation.
THEOREM TypesKept == Spec => []TypeOK
  BY InvHolds, PTL DEF Inv

\* No test of host A fails on a conforming device unless the user skipped
\* one: RegisterReservation removes what an earlier run left, and nothing
\* host B sends comes between a test of host A and the next.
THEOREM HostANeverFails == Spec => []HostAPasses
  BY InvHolds, PTL DEF Inv

\* The pattern AcquireReservation wrote is what it reads back, and it stays
\* until host A begins again: exclusive access keeps host B's write out.
THEOREM BlockIsKept == Spec => []ReservedBlockKept
<1>1. Inv => ReservedBlockKept
  BY DEF Inv, TypeOK, Held, ReservedBlockKept, WrittenByA, Made, Hosts
<1> QED
  BY <1>1, InvHolds, PTL

\* A test of host B throws only in a state in which host A does not hold the
\* reservation, so group B passes when it is run after group A.
THEOREM HostBFailsOnlyEarly == Spec => HostBFailsEarly
<1> DEFINE Early == outcome["B"] # "failed" /\ outcome'["B"] = "failed"
                      => holder # "0xAA"
<1>1. Inv /\ [Next]_vars => [Early]_vars
  <2> SUFFICES ASSUME Inv, [Next]_vars, holder = "0xAA",
                      outcome["B"] # "failed"
               PROVE  outcome'["B"] # "failed" \/ UNCHANGED vars
    OBVIOUS
  <2>1. CASE SendAndReapCmd("A")
    BY <2>1 DEF SendAndReapCmd, Ends, Inv, TypeOK, Hosts
  <2>2. CASE SendAndReapCmd("B")
    BY <2>2, CallByB
  <2>3. ASSUME NEW h \in Hosts, Begin(h) \/ Complete(h) \/ Skip(h) \/ Killed(h)
        PROVE  outcome'["B"] # "failed"
    BY <2>3 DEF Begin, Complete, Skip, Killed, GoesOn, Ends, Inv, TypeOK, Hosts
  <2> QED
    BY <2>1, <2>2, <2>3 DEF Next, Hosts
<1> QED
  BY <1>1, InvHolds, PTL DEF Spec, HostBFailsEarly
=============================================================================
