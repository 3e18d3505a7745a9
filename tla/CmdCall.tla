------------------------------ MODULE CmdCall ------------------------------
(***************************************************************************)
(* What IO::SendAndReapCmd() promises a test (Utils/io.h): a call that     *)
(* sends one command and either returns the completion of that command or  *)
(* throws, and does not take for ever.                                     *)
(***************************************************************************)
CONSTANTS CIDs, None, Thrown

VARIABLES
  phase,    \* "idle", "busy" within a call, "failed" once one has thrown
  cmd,      \* the command sent by the call, None before it was sent
  result    \* command whose completion was returned, Thrown, or None

vars == <<phase, cmd, result>>

Init == phase = "idle" /\ cmd = None /\ result = None

Begin ==
  /\ phase = "idle"
  /\ phase' = "busy"
  /\ UNCHANGED <<cmd, result>>

Submit ==
  /\ phase = "busy" /\ cmd = None
  /\ cmd' \in CIDs
  /\ UNCHANGED <<phase, result>>

Return ==
  /\ phase = "busy" /\ cmd # None
  /\ phase' = "idle" /\ result' = cmd /\ cmd' = None

Fail ==
  /\ phase = "busy"
  /\ phase' = "failed" /\ result' = Thrown /\ cmd' = None

Next == Begin \/ Submit \/ Return \/ Fail

Spec == Init /\ [][Next]_vars /\ WF_vars(Submit \/ Return \/ Fail)
=============================================================================
