----------------------------- MODULE Foundation -----------------------------
(***************************************************************************)
(* Several instances of tnvme on one device: BuildTestFoundation(),        *)
(* BuildSingletons(), the work the command line asks for,                  *)
(* DestroyTestFoundation() and DestroySingletons() (tnvme.cpp).            *)
(*                                                                         *)
(* The operating system keeps the write lock; it gives it up when its      *)
(* holder closes the device or ends, however it ends.                      *)
(***************************************************************************)
EXTENDS Integers, FiniteSets

CONSTANTS
  Procs,       \* instances of tnvme started on the device
  NumGroups,   \* groups InstantiateGroups() creates
  NoProc

ASSUME FoundationAssumption ==
  /\ NumGroups \in Nat \ {0}
  /\ NoProc \notin Procs

VARIABLES
  pc,        \* how far each instance is
  lock,      \* holder of the write lock on the device, or NoProc
  groups,    \* Group objects of each instance
  (*************************************************************************)
  (* History, read by no action.                                           *)
  (*************************************************************************)
  refused    \* instances whose fcntl(F_SETLK) failed

vars == <<pc, lock, groups, refused>>

Init ==
  /\ pc = [p \in Procs |-> "main"]
  /\ lock = NoProc
  /\ groups = [p \in Procs |-> 0]
  /\ refused = {}

At(p, from, to) == pc[p] = from /\ pc' = [pc EXCEPT ![p] = to]

\* What the operating system does when p closes the device or ends.
Unlock(p) == lock' = IF lock = p THEN NoProc ELSE lock

-----------------------------------------------------------------------------
(***************************************************************************)
(* BuildTestFoundation()                                                   *)
(***************************************************************************)
Open(p) ==
  /\ At(p, "main", "open")
  /\ UNCHANGED <<lock, groups, refused>>

\* Variant: the device is not locked.
LockNot(p) ==
  /\ At(p, "open", "locked")
  /\ UNCHANGED <<lock, groups, refused>>

\* fcntl(F_SETLK): that another instance has the lock is logged.
Lock(p) ==
  /\ At(p, "open", "locked")
  /\ IF lock = NoProc
       THEN lock' = p /\ UNCHANGED refused
       ELSE refused' = refused \cup {p} /\ UNCHANGED lock
  /\ UNCHANGED groups

\* The version of dnvme fits; InstantiateGroups().
Instantiate(p) ==
  /\ At(p, "locked", "built")
  /\ groups' = [groups EXCEPT ![p] = NumGroups]
  /\ UNCHANGED <<lock, refused>>

\* BuildSingletons(): from Informative::Init() on, which disables the device
\* and identifies it, the instance uses the device.
BuildSingletons(p) ==
  /\ At(p, "built", "using")
  /\ UNCHANGED <<lock, groups, refused>>

-----------------------------------------------------------------------------
\* The work is done, or an exception has reached main().  Half of the groups
\* are deleted: the loop compares a growing index with a shrinking size.  Then
\* the device is closed.
DestroyTestFoundation(p) ==
  /\ pc[p] \in {"built", "using"} /\ At(p, pc[p], "closed")
  /\ groups' = [groups EXCEPT ![p] = @ \div 2]
  /\ Unlock(p)
  /\ UNCHANGED refused

\* DestroySingletons(), exit(exitCode).
Exit(p) ==
  /\ At(p, "closed", "exited")
  /\ UNCHANGED <<lock, groups, refused>>

\* exit(1), std::terminate() or a signal, anywhere before that.
Dies(p) ==
  /\ pc[p] \notin {"exited", "died"}
  /\ At(p, pc[p], "died")
  /\ Unlock(p)
  /\ UNCHANGED <<groups, refused>>

Next ==
  \E p \in Procs : \/ Open(p) \/ Lock(p) \/ Instantiate(p) \/ BuildSingletons(p)
                   \/ DestroyTestFoundation(p) \/ Exit(p) \/ Dies(p)

Spec == Init /\ [][Next]_vars

-----------------------------------------------------------------------------
(***************************************************************************)
(* Properties                                                              *)
(***************************************************************************)
Users == {p \in Procs : pc[p] = "using"}

\* "The mutually exclusive write lock is expected to warrant off other
\* instances of this app from choosing to test against the same device"
\* (tnvme.cpp:645-647): two instances never use the device together.
OneUser == Cardinality(Users) <= 1

\* The same of the instances that were given the lock: it is taken before the
\* device is first used and given up after it is last used, whoever dies.
OneLockedUser == Cardinality(Users \ refused) <= 1

=============================================================================
