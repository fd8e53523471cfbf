------------------------- MODULE MCInferenceEngine -------------------------
(* Values for the constants of InferenceEngine. *)
EXTENDS InferenceEngine

NoHints == {}
SomeHints == {1, 6}
OneOrTwo == {1, 2}
OneToken == {1}
TwoTokens == {2}
WholeContext == {ContextSize}
=============================================================================
