------------------------ MODULE MCResilientExecutor ------------------------
(* Values for the constants of ResilientExecutor: two concurrent callers.   *)
EXTENDS ResilientExecutor

CONSTANTS c1, c2

TwoCallers == {c1, c2}
=============================================================================
