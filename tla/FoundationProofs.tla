-------------------------- MODULE FoundationProofs --------------------------
(***************************************************************************)
(* Proof about Foundation, for any number of instances.                    *)
(***************************************************************************)
EXTENDS Foundation, FiniteSetTheorems, TLAPS

\* An instance between Lock() and DestroyTestFoundation() has the lock, or knows
\* that it was refused.
LockInv ==
  /\ pc \in [Procs -> {"main", "open", "locked", "built", "using", "closed",
                       "exited", "died"}]
  /\ \A p \in Procs : pc[p] \in {"locked", "built", "using"} =>
       p \in refused \/ lock = p

\* Every step keeps it.
LEMMA LockStep == LockInv /\ [Next]_vars => LockInv'
<1> SUFFICES ASSUME LockInv, [Next]_vars
             PROVE  LockInv'
  OBVIOUS
<1> USE FoundationAssumption DEF LockInv
<1>1. CASE \E p \in Procs : Open(p) \/ Instantiate(p) \/ BuildSingletons(p) \/ Exit(p)
  BY <1>1 DEF Open, Instantiate, BuildSingletons, Exit, At
<1>2. CASE \E p \in Procs : Lock(p)
  BY <1>2 DEF Lock, At
<1>3. CASE \E p \in Procs : DestroyTestFoundation(p)
  BY <1>3 DEF DestroyTestFoundation, At, Unlock
<1>4. CASE \E p \in Procs : Dies(p)
  BY <1>4 DEF Dies, At, Unlock
<1>5. CASE UNCHANGED vars
  BY <1>5 DEF vars
<1> QED
  BY <1>1, <1>2, <1>3, <1>4, <1>5 DEF Next

\* Of the instances that were given the lock, at most one uses the device,
\* however many are started and whichever of them die.
THEOREM LockedUsersAlone == Spec => []OneLockedUser
<1>1. Init => LockInv
  BY DEF Init, LockInv
<1>2. LockInv => OneLockedUser
  <2> SUFFICES ASSUME LockInv
               PROVE  OneLockedUser
    OBVIOUS
  <2>1. \A p, q \in Users \ refused : p = q
    BY DEF LockInv, Users
  <2>2. CASE Users \ refused = {}
    BY <2>2, FS_EmptySet DEF OneLockedUser
  <2>3. CASE \E p : p \in Users \ refused
    <3>1. PICK p : p \in Users \ refused
      BY <2>3
    <3>2. Users \ refused = {p}
      BY <2>1, <3>1
    <3>3. Cardinality({p}) = 1
      BY FS_Singleton
    <3> QED
      BY <3>2, <3>3 DEF OneLockedUser
  <2> QED
    BY <2>2, <2>3
<1> QED
  BY <1>1, <1>2, LockStep, PTL DEF Spec
=============================================================================
