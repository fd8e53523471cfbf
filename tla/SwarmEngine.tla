---------------------------- MODULE SwarmEngine ----------------------------
(***************************************************************************)
(* The swarm (src/actor/engine.rs): agents running the loop of AgentLoop,  *)
(* whose outbox is drained by one router that delivers into their bounded  *)
(* inboxes and signal channels. The router is a single task: while it      *)
(* waits for room in one channel it serves nobody else.                    *)
(***************************************************************************)
EXTENDS AgentLoop

CONSTANT MayDropEngine  (* the owner may drop the engine: run returned or not *)

ASSUME SwarmAssumption ==
  /\ MayDropEngine \in BOOLEAN
  /\ None \notin Agents

VARIABLES
  registered,    (* the keys of SwarmEngine::agents                          *)
  activeAgents,  (* metrics.active_agents                                    *)
  epc,           (* where the router is                                      *)
  routing,       (* the envelope being routed                                *)
  target,        (* the agent whose channel the router is sending to         *)
  todo,          (* agents still to be served by a broadcast or a shutdown   *)
  routed         (* history: ids received from the outbox; messages_routed   *)
                 (* is its length                                            *)

engineVars == <<registered, activeAgents, epc, routing, target, todo, routed>>
vars == <<agentVars, engineVars>>

EnginePhase == {"setup", "recv", "delivering", "signalling", "broadcasting",
                "halting", "grace", "clearing", "stopped", "dropping", "dropped"}

Init ==
  /\ AgentInit
  /\ registered = {}
  /\ activeAgents = 0
  /\ epc = "setup"
  /\ routing = None
  /\ target = None
  /\ todo = {}
  /\ routed = <<>>

-----------------------------------------------------------------------------
(* Before run: the owner spawns agents and hands them their first tasks.   *)

Spawn(a) ==
  /\ epc = "setup"
  /\ a \notin registered
  /\ registered' = registered \cup {a}
  /\ activeAgents' = Cardinality(registered')
  /\ UNCHANGED <<agentVars, epc, routing, target, todo, routed>>

SendTo(a) ==
  /\ epc = "setup"
  /\ a \in registered
  /\ pc[a] # "exited"
  /\ Len(inbox[a]) < InboxCapacity
  /\ issued < MaxEnvelopes
  /\ inbox' = [inbox EXCEPT ![a] = Append(@, NewEnvelope([kind |-> "data", to |-> a]))]
  /\ issued' = issued + 1
  /\ UNCHANGED <<signals, handle, outbox, outboxOpen, taskVars, historyVars, engineVars>>

Run ==
  /\ epc = "setup"
  /\ epc' = "recv"
  /\ UNCHANGED <<agentVars, registered, activeAgents, routing, target, todo, routed>>

-----------------------------------------------------------------------------
(* The routing loop. *)

Exited(a) == pc[a] = "exited"

(* Mutant: pruning forgets the count. *)
MutantPruneNoRecount ==
  /\ registered' = {a \in registered : ~ Exited(a)}
  /\ UNCHANGED activeAgents
  /\ handle' = [a \in Agents |-> IF a \in registered \ registered' THEN "closed" ELSE handle[a]]

(* prune_dead_agents: retain the handles of live tasks, recount if any died.*)
PruneDeadAgents ==
  /\ registered' = {a \in registered : ~ Exited(a)}
  /\ activeAgents' = IF registered' = registered THEN activeAgents
                     ELSE Cardinality(registered')
  /\ handle' = [a \in Agents |-> IF a \in registered \ registered' THEN "closed" ELSE handle[a]]

(* outbox_rx.recv(): the engine holds a sender of its own, so the channel   *)
(* is never closed and an empty outbox is waited on for ever.               *)
Incoming == Head(outbox)

Receive ==
  /\ epc = "recv"
  /\ outbox # <<>>
  /\ outbox' = Tail(outbox)
  /\ routed' = Append(routed, Incoming.id)

(* Mutant: an interrupt is counted but not forwarded. *)
MutantRouteHaltsOnly ==
  /\ Receive
  /\ Incoming.kind \in {"interrupt", "halt"}
  /\ IF Incoming.kind = "halt" /\ Incoming.to \in registered
       THEN epc' = "signalling" /\ routing' = Incoming /\ target' = Incoming.to
       ELSE UNCHANGED <<epc, routing, target>>
  /\ UNCHANGED <<inbox, signals, handle, outboxOpen, taskVars, issued, historyVars,
                 registered, activeAgents, todo>>

(* Interrupt and Halt are forwarded to the target's signal channel. *)
RouteSignal ==
  /\ Receive
  /\ Incoming.kind \in {"interrupt", "halt"}
  /\ IF Incoming.to \in registered
       THEN epc' = "signalling" /\ routing' = Incoming /\ target' = Incoming.to
       ELSE UNCHANGED <<epc, routing, target>>
  /\ UNCHANGED <<inbox, signals, handle, outboxOpen, taskVars, issued, historyVars,
                 registered, activeAgents, todo>>

(* The other signals are logged; like all signals, they skip the pruning. *)
LogSignal ==
  /\ Receive
  /\ Incoming.kind = "notice"
  /\ UNCHANGED <<inbox, signals, handle, outboxOpen, taskVars, issued, historyVars,
                 registered, activeAgents, epc, routing, target, todo>>

RouteShutdown ==
  /\ Receive
  /\ Incoming.kind = "shutdown"
  /\ epc' = "halting"
  /\ routing' = Incoming
  /\ todo' = registered
  /\ UNCHANGED <<inbox, signals, handle, outboxOpen, taskVars, issued, historyVars,
                 registered, activeAgents, target>>

RouteDirected ==
  /\ Receive
  /\ Incoming.kind = "data"
  /\ Incoming.to # Everyone
  /\ \/ /\ Incoming.to \in registered
        /\ epc' = "delivering"
        /\ routing' = Incoming
        /\ target' = Incoming.to
        /\ UNCHANGED <<registered, activeAgents, handle>>
     \/ /\ Incoming.to \notin registered
        /\ PruneDeadAgents
        /\ UNCHANGED <<epc, routing, target>>
  /\ UNCHANGED <<inbox, signals, outboxOpen, taskVars, issued, historyVars, todo>>

RouteBroadcast ==
  /\ Receive
  /\ Incoming.kind = "data"
  /\ Incoming.to = Everyone
  /\ epc' = "broadcasting"
  /\ routing' = Incoming
  /\ todo' = registered
  /\ UNCHANGED <<inbox, signals, handle, outboxOpen, taskVars, issued, historyVars,
                 registered, activeAgents, target>>

(* Mutant: a message goes to the front of the inbox. *)
MutantJumpQueue(a) ==
  \/ /\ ~ Exited(a)
     /\ Len(inbox[a]) < InboxCapacity
     /\ inbox' = [inbox EXCEPT ![a] = <<[routing EXCEPT !.to = a]>> \o @]
  \/ /\ Exited(a)
     /\ UNCHANGED inbox

(* AgentHandle::send: waits for room, fails once the receiver is gone. *)
SendInbox(a) ==
  \/ /\ ~ Exited(a)
     /\ Len(inbox[a]) < InboxCapacity
     /\ inbox' = [inbox EXCEPT ![a] = Append(@, [routing EXCEPT !.to = a])]
  \/ /\ Exited(a)
     /\ UNCHANGED inbox

(* AgentHandle::interrupt and halt; the forwarded signal keeps the id here. *)
SendSignal(a, kind) ==
  \/ /\ ~ Exited(a)
     /\ Len(signals[a]) < SignalCapacity
     /\ signals' = [signals EXCEPT ![a] =
                      Append(@, [routing EXCEPT !.to = a, !.kind = kind])]
  \/ /\ Exited(a)
     /\ UNCHANGED signals

Deliver ==
  /\ epc = "delivering"
  /\ SendInbox(target)
  /\ PruneDeadAgents
  /\ epc' = "recv"
  /\ routing' = None
  /\ target' = None
  /\ UNCHANGED <<signals, outbox, outboxOpen, taskVars, issued, historyVars, todo, routed>>

ForwardSignal ==
  /\ epc = "signalling"
  /\ SendSignal(target, routing.kind)
  /\ epc' = "recv"
  /\ routing' = None
  /\ target' = None
  /\ UNCHANGED <<inbox, handle, outbox, outboxOpen, taskVars, issued, historyVars,
                 registered, activeAgents, todo, routed>>

(* A broadcast and a shutdown serve the agents one after another, in the    *)
(* order of a HashMap: any order, but one at a time.                        *)
NextTarget ==
  /\ epc \in {"broadcasting", "halting"}
  /\ target = None
  /\ \E a \in todo : target' = a /\ todo' = todo \ {a}
  /\ UNCHANGED <<agentVars, registered, activeAgents, epc, routing, routed>>

DeliverCopy ==
  /\ epc = "broadcasting"
  /\ target # None
  /\ SendInbox(target)
  /\ target' = None
  /\ UNCHANGED <<signals, handle, outbox, outboxOpen, taskVars, issued, historyVars,
                 registered, activeAgents, epc, routing, todo, routed>>

BroadcastDone ==
  /\ epc = "broadcasting"
  /\ target = None
  /\ todo = {}
  /\ PruneDeadAgents
  /\ epc' = "recv"
  /\ routing' = None
  /\ UNCHANGED <<inbox, signals, outbox, outboxOpen, taskVars, issued, historyVars,
                 target, todo, routed>>

(* Mutant: a full signal channel makes shutdown_all skip the agent. *)
MutantTryHalt ==
  /\ epc = "halting"
  /\ target # None
  /\ (SendSignal(target, "halt") \/ (Len(signals[target]) = SignalCapacity /\ UNCHANGED signals))
  /\ target' = None
  /\ UNCHANGED <<inbox, handle, outbox, outboxOpen, taskVars, issued, historyVars,
                 registered, activeAgents, epc, routing, todo, routed>>

SendHalt ==
  /\ epc = "halting"
  /\ target # None
  /\ SendSignal(target, "halt")
  /\ target' = None
  /\ UNCHANGED <<inbox, handle, outbox, outboxOpen, taskVars, issued, historyVars,
                 registered, activeAgents, epc, routing, todo, routed>>

(* shutdown_all then sleeps: the agents get "a moment", however slow. *)
HaltsSent ==
  /\ epc = "halting"
  /\ target = None
  /\ todo = {}
  /\ epc' = "grace"
  /\ routing' = None
  /\ UNCHANGED <<agentVars, registered, activeAgents, target, todo, routed>>

GraceOver ==
  /\ epc = "grace"
  /\ epc' = "clearing"
  /\ todo' = registered
  /\ UNCHANGED <<agentVars, registered, activeAgents, routing, target, routed>>

(* The map's handles go, in agents.clear() or with the engine: each drops   *)
(* inbox_tx, then signal_tx; dropping a JoinHandle detaches the task.       *)
DropHandle ==
  /\ epc \in {"clearing", "dropping"}
  /\ \E a \in todo :
       /\ handle' = [handle EXCEPT ![a] = IF @ = "open" THEN "closing" ELSE "closed"]
       /\ todo' = IF handle[a] = "open" THEN todo ELSE todo \ {a}
  /\ UNCHANGED <<inbox, signals, outbox, outboxOpen, taskVars, issued, historyVars,
                 registered, activeAgents, epc, routing, target, routed>>

Stopped ==
  /\ epc = "clearing"
  /\ todo = {}
  /\ epc' = "stopped"
  /\ registered' = {}
  /\ activeAgents' = 0
  /\ UNCHANGED <<agentVars, routing, target, todo, routed>>

(* The owner drops the engine after run has returned: the map is empty and  *)
(* the outbox closes, with whatever it still holds.                         *)
DropEngine ==
  /\ MayDropEngine
  /\ epc = "stopped"
  /\ outboxOpen
  /\ outboxOpen' = FALSE
  /\ outbox' = <<>>
  /\ UNCHANGED <<inbox, signals, handle, taskVars, issued, historyVars, engineVars>>

(* Or earlier: before run, or with run's future at one of its awaits. No    *)
(* halt is sent; the fields are dropped in their order, the map first and   *)
(* the outbox's receiver after it.                                          *)
DropEarly ==
  /\ MayDropEngine
  /\ epc \in {"setup", "recv", "delivering", "signalling", "broadcasting", "halting", "grace"}
  /\ epc \in {"broadcasting", "halting"} => target # None
  /\ epc' = "dropping"
  /\ todo' = registered
  /\ routing' = None
  /\ target' = None
  /\ UNCHANGED <<agentVars, registered, activeAgents, routed>>

DroppedEarly ==
  /\ epc = "dropping"
  /\ todo = {}
  /\ epc' = "dropped"
  /\ outboxOpen' = FALSE
  /\ outbox' = <<>>
  /\ registered' = {}
  /\ activeAgents' = 0
  /\ UNCHANGED <<inbox, signals, handle, taskVars, issued, historyVars, routing, target,
                 todo, routed>>

EngineStep ==
  \/ RouteSignal \/ LogSignal \/ RouteShutdown \/ RouteDirected \/ RouteBroadcast
  \/ Deliver \/ ForwardSignal \/ NextTarget \/ DeliverCopy \/ BroadcastDone
  \/ SendHalt \/ HaltsSent \/ GraceOver \/ DropHandle \/ Stopped \/ DroppedEarly

Next ==
  \/ \E a \in Agents : AgentStep(a) /\ UNCHANGED engineVars
  \/ \E a \in Agents : Spawn(a) \/ SendTo(a)
  \/ Run \/ EngineStep \/ DropEngine \/ DropEarly

Spec == Init /\ [][Next]_vars

(* The runtime runs every ready task, the router included, and the owner    *)
(* does call run. It owes nobody a task, a spawn or the end of the engine.  *)
Fairness ==
  /\ \A a \in Agents : WF_vars(AgentStep(a) /\ UNCHANGED engineVars)
  /\ WF_vars(EngineStep)
  /\ WF_vars(Run)

FairSpec == Spec /\ Fairness

-----------------------------------------------------------------------------
(* The agents' part is AgentTypeOK; the router's variables keep their shape.*)
TypeOK ==
  /\ AgentTypeOK
  /\ registered \subseteq Agents
  /\ activeAgents \in Nat
  /\ epc \in EnginePhase
  /\ routing \in Envelope \cup {None}
  /\ target \in Agents \cup {None}
  /\ todo \subseteq Agents
  /\ routed \in Seq(1 .. MaxEnvelopes)

(* The bus is a total order: whatever way messages reach them, directly or  *)
(* by a broadcast that serves agents one by one, all agents handle the      *)
(* messages that went through the outbox in the order the router took them. *)
BusOrder ==
  \A a \in Agents : \A i, j \in DOMAIN done[a] :
    i < j => \A m, n \in DOMAIN routed :
      (routed[m] = done[a][i] /\ routed[n] = done[a][j]) => m < n

(* Nobody is cut off unawares by the engine's own doing: an agent whose     *)
(* handle run has dropped has ended, or has shutdown_all's halt waiting for *)
(* it, or has run shutdown(). An owner who drops the engine without waiting *)
(* for run cuts everybody off; that is not a promise of the code.           *)
HaltBeforeDrop ==
  epc \notin {"dropping", "dropped"} =>
    \A a \in Agents : handle[a] # "open" =>
      \/ Exited(a)
      \/ halted[a]
      \/ \E i \in DOMAIN deferred[a] : IsHaltOrShutdown(deferred[a][i])
      \/ \E i \in DOMAIN signals[a] : IsHaltOrShutdown(signals[a][i])

(* Pruning only forgets agents whose tasks have ended, whenever it runs     *)
(* relative to them, and the count follows the map; only shutdown_all and   *)
(* the engine's own end let go of running ones (engine.rs:288, 293-302).    *)
RegistryKept ==
  [][/\ activeAgents' = Cardinality(registered')
     /\ \A a \in registered \ registered' : Exited(a) \/ epc \in {"clearing", "dropping"}]_vars

(* An interrupt against agent a on the bus; a has acted on it. *)
Raised(id, a) ==
  /\ a \in registered
  /\ \E i \in DOMAIN outbox :
       outbox[i].id = id /\ outbox[i].kind = "interrupt" /\ outbox[i].to = a

ActedOn(id, a) == \E i \in DOMAIN acted[a] : acted[a][i] = id

(* The router waits for room in a channel of an agent that itself waits for *)
(* room in the outbox, which only the router drains: neither moves again.   *)
Wedged ==
  /\ target # None
  /\ \/ epc \in {"delivering", "broadcasting"} /\ Len(inbox[target]) = InboxCapacity
     \/ epc \in {"signalling", "halting"} /\ Len(signals[target]) = SignalCapacity
  /\ pc[target] \in {"responding", "idleReply", "drainReply"}
  /\ Len(outbox) = OutboxCapacity

(* mod.rs:29-32: on another agent's alarm the swarm instantly halts an      *)
(* agent's generation loop, without waiting for the token stream. Yet an    *)
(* interrupt on the bus may never reach the agent it is against: it is      *)
(* behind data that the router cannot deliver (engine.rs:196).              *)
InterruptReaches ==
  \A id \in 1 .. MaxEnvelopes, a \in Agents :
    Raised(id, a) ~> (ActedOn(id, a) \/ Exited(a))

(* What the code does give: that wait of two for each other is the only way *)
(* for an interrupt to get lost. However full the channels are, the router  *)
(* brings it to its target, which acts on it or ends, or they are wedged.   *)
InterruptReachesOrWedged ==
  \A id \in 1 .. MaxEnvelopes, a \in Agents :
    Raised(id, a) ~> (ActedOn(id, a) \/ Wedged \/ Exited(a))

(* mod.rs:29-32: the dual channels let the swarm halt an agent's generation *)
(* when another agent raises an alarm, without waiting for the current      *)
(* token stream to finish. Yet the alarm can sit in the outbox while the    *)
(* router waits for room in the inbox of the very agent to be halted.       *)
AlarmNotBehindData ==
  \A a \in Agents :
    ~ /\ pc[a] = "working"
      /\ epc = "delivering" /\ target = a /\ Len(inbox[a]) = InboxCapacity
      /\ \E i \in DOMAIN outbox : outbox[i].kind = "interrupt" /\ outbox[i].to = a

(* engine.rs:287 has the dropped handles abort any still-running task.      *)
ShutdownEndsAll ==
  \A a \in Agents : (epc = "stopped" /\ handle[a] = "closed") ~> Exited(a)

(* engine.rs:165-166: run stops when a Shutdown is received or when all     *)
(* agents have exited.                                                      *)
RunEnds ==
  (epc = "recv" /\ registered # {} /\ \A a \in registered : Exited(a)) ~> (epc = "stopped")

(* engine.rs:72-73, 304: the count is that of the currently active agents.  *)
DeadForgotten ==
  \A a \in Agents : (epc = "recv" /\ Exited(a)) ~> (a \notin registered)
=============================================================================
