---------------------------- MODULE MCAgentHost ----------------------------
(* Values for the constants of AgentHost. *)
EXTENDS AgentHost

CONSTANT a1

SomeAgents == {a1}
AnyKind == {"data", "interrupt", "halt", "notice"}
AnyReply == {[kind |-> "data", to |-> Everyone]}
=============================================================================
