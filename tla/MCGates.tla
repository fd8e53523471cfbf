------------------------------ MODULE MCGates ------------------------------
(* What stands between an answer of the model and its effect: the executors  *)
(* and the escalation pipeline. They share no variable, so to interleave     *)
(* them would add nothing: a behaviour is one of the first or of the second. *)
EXTENDS MCResilientExecutor, EscalationPipeline

VARIABLE explored

GateInit ==
  /\ explored \in {"executor", "pipeline"}
  /\ Init
  /\ EscalationInit

GateNext ==
  /\ UNCHANGED explored
  /\ \/ explored = "executor" /\ Next /\ UNCHANGED escalationVars
     \/ explored = "pipeline" /\ EscalationNext /\ UNCHANGED vars

(* The executors' fairness; of executors at rest it asks for nothing.        *)
GateSpec ==
  /\ GateInit /\ [][GateNext]_<<explored, vars, escalationVars>>
  /\ Fairness
=============================================================================
