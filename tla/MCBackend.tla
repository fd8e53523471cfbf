----------------------------- MODULE MCBackend -----------------------------
(* Values for the constants of LlamaBackend and BackendRefcount, and the two *)
(* explored in one specification. They share no variable, so to interleave   *)
(* them would add nothing: a behaviour is one of the first or of the second. *)
EXTENDS LlamaBackend, BackendRefcount, TLC

CONSTANTS e1, e2, s1, s2, s3

TwoEngines == {e1, e2}
Engines == Permutations(TwoEngines)

ThreeSlots == {s1, s2, s3}

VARIABLE explored

BackendInit ==
  /\ explored \in {"shared", "counted"}
  /\ Init
  /\ RefcountInit

BackendNext ==
  /\ UNCHANGED explored
  /\ \/ explored = "shared" /\ Next /\ UNCHANGED refcountVars
     \/ explored = "counted" /\ RefcountNext /\ UNCHANGED vars

BackendSpec == BackendInit /\ [][BackendNext]_<<explored, vars, refcountVars>>
=============================================================================
