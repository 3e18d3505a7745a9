---------------------------- MODULE Reservations ----------------------------
(***************************************************************************)
(* Groups GrpReservationsHostA and GrpReservationsHostB: two instances of  *)
(* tnvme, each on a controller of its own, use one namespace at the same   *)
(* time.  An instance runs its group any number of times, may be killed    *)
(* between two commands, and may be told to skip tests.                    *)
(*                                                                         *)
(* Registrations and the reservation belong to the namespace and outlive   *)
(* the instances; the host identifier belongs to the controller and does   *)
(* not outlive a reset.  A command is one step of the device.              *)
(***************************************************************************)
EXTENDS Integers, Sequences

CONSTANT
  MaxRuns      \* bound on the number of times each group is run

ASSUME MaxRunsAssumption == MaxRuns \in Nat

VARIABLES
  runs,        \* number of times each group was begun
  tst,         \* present test of each group, 0 when no instance runs it
  pc,          \* number of calls of that test already made
  outcome,     \* of the last run of each group
  skipped,     \* a test of the present run was skipped
  hostId,      \* feature 0x81 of each controller
  key,         \* key registered with each host identifier
  holder,      \* host identifier that holds the reservation
  block        \* pattern in LBA 5

vars == <<runs, tst, pc, outcome, skipped, hostId, key, holder, block>>
device == <<hostId, key, holder, block>>

Hosts == {"A", "B"}
HostIds == {"0x00", "0xAA", "0xBB"}
None == "none"

-----------------------------------------------------------------------------
(***************************************************************************)
(* The tests                                                               *)
(***************************************************************************)
\* A call: crkey and nrkey the keys in its buffer, or the data of a write
\* or expected of a read; ignore: IEKEY; want: the statuses that do not throw.
Command(op, crkey, nrkey, ignore, want) ==
  [op |-> op, crkey |-> crkey, nrkey |-> nrkey, ignore |-> ignore, want |-> want]
Pass == {"SUCCESS"}
Conflict == {"RSRV_CONFLICT"}
Any == Pass \cup Conflict

\* DISABLE_COMPLETELY and the queues of the group; others do not notice.
CreateResources_r11 == <<Command("reset", None, None, FALSE, Pass)>>

\* Variant: the key of an earlier run is not removed.
RegisterReservationOnly(id, k) ==
  <<Command("setid", None, id, FALSE, Pass),
    Command("getid", None, id, FALSE, Pass),
    Command("register", k, k, TRUE, Pass)>>

\* The identifier is set and read back; a key left by an earlier run is
\* removed, if there is one, before the new one is registered.
RegisterReservation(id, k) ==
  <<Command("setid", None, id, FALSE, Pass),
    Command("getid", None, id, FALSE, Pass),
    Command("unregister", "0", "0", TRUE, Any),
    Command("register", k, k, TRUE, Pass)>>

\* RREGA 2 replaces a key and RREGA 1 removes it, not with a wrong one.
ReplaceReservation ==
  <<Command("replace", "0xAE", "0xAF", FALSE, Pass),
    Command("replace", "0xAA", "0xAD", FALSE, Conflict),
    Command("replace", "0xAA", "0xAD", TRUE, Pass),
    Command("unregister", "0xAA", "0", FALSE, Conflict)>>

\* Variant: the block is written before it is reserved.
AcquireReservationLate ==
  <<Command("acquire", "0xFA", None, FALSE, Conflict),
    Command("write", None, "0xCC", FALSE, Pass),
    Command("acquire", "0xAD", None, FALSE, Pass),
    Command("read", None, "0xCC", FALSE, Pass)>>

\* RTYPE 2, exclusive access, not with a wrong key; then a block is written
\* and compared.
AcquireReservation ==
  <<Command("acquire", "0xFA", None, FALSE, Conflict),
    Command("acquire", "0xAD", None, FALSE, Pass),
    Command("write", None, "0xCC", FALSE, Pass),
    Command("read", None, "0xCC", FALSE, Pass)>>

\* All of the test is commented out.
ReleaseReservation == <<>>

\* Variant: what host A wrote may be read.
ReadWriteAdmitted ==
  <<Command("write", None, "0xDD", FALSE, Conflict),
    Command("read", None, "0xCC", FALSE, Pass)>>

ReadWriteToUnacquiredReservation ==
  <<Command("write", None, "0xDD", FALSE, Conflict),
    Command("read", None, "0xDD", FALSE, Conflict)>>

\* CreateResources is at the X level, all others at the Y level.
Group(h) ==
  IF h = "A"
    THEN <<CreateResources_r11, RegisterReservation("0xAA", "0xAE"),
           ReplaceReservation, AcquireReservation, ReleaseReservation>>
    ELSE <<CreateResources_r11, RegisterReservation("0xBB", "0xBD"),
           ReadWriteToUnacquiredReservation>>

-----------------------------------------------------------------------------
(***************************************************************************)
(* The device                                                              *)
(***************************************************************************)
Admitted(h) == holder \in {None, hostId[h]}

\* The key of the host matches or need not.
Matches(h, c) == c.ignore \/ key[hostId[h]] = c.crkey

Status(h, c) ==
  LET mine == key[hostId[h]]
      ok == CASE c.op = "register" -> mine \in {None, c.nrkey}
              [] c.op = "unregister" -> mine # None /\ Matches(h, c)
              [] c.op = "replace" -> Matches(h, c)
              [] c.op = "acquire" -> mine = c.crkey /\ Admitted(h)
              [] c.op \in {"write", "read"} -> Admitted(h)
              [] OTHER -> TRUE
  IN  IF ok THEN "SUCCESS" ELSE "RSRV_CONFLICT"

KeyAfter(h, c) ==
  LET id == hostId[h]
  IN  CASE c.op \in {"register", "replace"} -> [key EXCEPT ![id] = c.nrkey]
        [] c.op = "unregister" -> [key EXCEPT ![id] = None]
        [] OTHER -> key

\* A host that is no longer registered gives up the reservation.
HolderAfter(h, c) ==
  CASE c.op = "acquire" -> hostId[h]
    [] c.op = "unregister" /\ holder = hostId[h] -> None
    [] OTHER -> holder

HostIdAfter(h, c) ==
  CASE c.op = "reset" -> [hostId EXCEPT ![h] = "0x00"]
    [] c.op = "setid" -> [hostId EXCEPT ![h] = c.nrkey]
    [] OTHER -> hostId

\* A command that is refused changes nothing.
Executed(h, c) ==
  IF Status(h, c) = "SUCCESS"
    THEN /\ key' = KeyAfter(h, c)
         /\ holder' = HolderAfter(h, c)
         /\ block' = IF c.op = "write" THEN c.nrkey ELSE block
    ELSE UNCHANGED <<key, holder, block>>

\* What the test compares with what it read.
Miscompares(h, c) ==
  \/ c.op = "getid" /\ hostId[h] # c.nrkey
  \/ c.op = "read" /\ Status(h, c) = "SUCCESS" /\ block # c.nrkey

-----------------------------------------------------------------------------
(***************************************************************************)
(* The instances                                                           *)
(***************************************************************************)
Init ==
  /\ runs = [h \in Hosts |-> 0] /\ tst = [h \in Hosts |-> 0]
  /\ pc = [h \in Hosts |-> 0] /\ outcome = [h \in Hosts |-> "none"]
  /\ skipped = [h \in Hosts |-> FALSE]
  /\ hostId = [h \in Hosts |-> "0x00"] /\ key = [i \in HostIds |-> None]
  /\ holder = None /\ block = "old"

Begin(h) ==
  /\ tst[h] = 0 /\ runs[h] < MaxRuns
  /\ runs' = [runs EXCEPT ![h] = @ + 1]
  /\ tst' = [tst EXCEPT ![h] = 1] /\ pc' = [pc EXCEPT ![h] = 0]
  /\ outcome' = [outcome EXCEPT ![h] = "none"]
  /\ skipped' = [skipped EXCEPT ![h] = FALSE]
  /\ UNCHANGED device

Ends(h, what) ==
  /\ tst' = [tst EXCEPT ![h] = 0] /\ pc' = [pc EXCEPT ![h] = 0]
  /\ outcome' = [outcome EXCEPT ![h] = what]

GoesOn(h) ==
  IF tst[h] = Len(Group(h)) THEN Ends(h, "passed")
  ELSE /\ tst' = [tst EXCEPT ![h] = @ + 1] /\ pc' = [pc EXCEPT ![h] = 0]
       /\ UNCHANGED outcome

Running(h) == tst[h] > 0
Present(h) == Group(h)[tst[h]]

\* A test that throws disables the device completely; all that is left of
\* the group depends on it.
SendAndReapCmd(h) ==
  /\ Running(h) /\ pc[h] < Len(Present(h))
  /\ LET c == Present(h)[pc[h] + 1]
         throws == Status(h, c) \notin c.want \/ Miscompares(h, c)
     IN  /\ Executed(h, c)
         /\ IF throws
              THEN /\ Ends(h, "failed")
                   /\ hostId' = [hostId EXCEPT ![h] = "0x00"]
              ELSE /\ pc' = [pc EXCEPT ![h] = @ + 1]
                   /\ hostId' = HostIdAfter(h, c)
                   /\ UNCHANGED <<tst, outcome>>
  /\ UNCHANGED <<runs, skipped>>

Complete(h) ==
  /\ Running(h) /\ pc[h] = Len(Present(h))
  /\ GoesOn(h)
  /\ UNCHANGED <<runs, skipped, device>>

\* All others depend on the test at the X level; no one on one at the Y level.
Skip(h) ==
  /\ Running(h) /\ pc[h] = 0
  /\ IF tst[h] = 1 THEN Ends(h, "skipped") ELSE GoesOn(h)
  /\ skipped' = [skipped EXCEPT ![h] = TRUE]
  /\ UNCHANGED <<runs, device>>

\* The user ends the process: nothing is undone.
Killed(h) ==
  /\ Running(h)
  /\ Ends(h, "killed")
  /\ UNCHANGED <<runs, skipped, device>>

Next ==
  \E h \in Hosts :
    Begin(h) \/ SendAndReapCmd(h) \/ Complete(h) \/ Skip(h) \/ Killed(h)

Spec == Init /\ [][Next]_vars

-----------------------------------------------------------------------------
\* Host A fails no test on a conforming device unless the user skips one,
\* whatever host B does meanwhile and whatever killed runs left behind.
HostAPasses == outcome["A"] = "failed" => skipped["A"]

\* Once host A has written LBA 5 the block keeps what it wrote: no command of
\* host B gets in between its write and its read, nor afterwards until host A
\* begins again.
WrittenByA ==
  \/ tst["A"] = 4 /\ pc["A"] >= 3
  \/ tst["A"] = 5
  \/ tst["A"] = 0 /\ outcome["A"] = "passed"
ReservedBlockKept == WrittenByA /\ ~skipped["A"] => block = "0xCC"

\* Host B fails only when one of its accesses came while host A did not hold
\* the reservation: group B must be run after group A.
HostBFailsEarly ==
  [][outcome["B"] # "failed" /\ outcome'["B"] = "failed" => holder # "0xAA"]_vars
=============================================================================
