---------------------------- MODULE SwarmProofs ----------------------------
(***************************************************************************)
(* Theorems about the swarm (SwarmEngine): agents whose messages go        *)
(* through one router, for every set of agents, capacity, amount of work   *)
(* and set of replies.                                                     *)
(***************************************************************************)
EXTENDS SwarmEngine, AgentLoopProofs, FiniteSetTheorems, SequenceTheorems

(* What the router holds where: an envelope while it serves somebody, the   *)
(* agents still to be served only while there are such, and a count that    *)
(* is that of the registry.                                                 *)
RouterInv ==
  /\ IsFiniteSet(registered)
  /\ activeAgents = Cardinality(registered)
  /\ todo \subseteq registered
  /\ todo # {} => epc \in {"broadcasting", "halting", "clearing", "dropping"}
  /\ target # None => epc \in {"delivering", "signalling", "broadcasting", "halting"}
  /\ epc \in {"delivering", "signalling"} => target \in Agents
  /\ target \notin todo
  /\ routing # None <=> epc \in {"delivering", "signalling", "broadcasting", "halting"}
  /\ epc = "signalling" => routing.kind \in {"interrupt", "halt"}

IInv == TypeOK /\ RouterInv

LEMMA InitInv == Init => IInv
<1> SUFFICES ASSUME Init
             PROVE  IInv
  OBVIOUS
<1>1. Cardinality({}) = 0 /\ IsFiniteSet({})
  BY FS_EmptySet
<1>2. AgentTypeOK
  BY AgentInitType DEF Init
<1>3. routed \in Seq(1 .. MaxEnvelopes)
  BY DEF Init
<1> QED
  BY <1>1, <1>2, <1>3 DEF Init, IInv, TypeOK, RouterInv, EnginePhase

(* An agent's own step concerns the router only through the channels. *)
LEMMA AgentInv ==
  ASSUME IInv, NEW a \in Agents, AgentStep(a), UNCHANGED engineVars
  PROVE  IInv'
  BY AgentStepType DEF IInv, TypeOK, RouterInv, engineVars

(* The steps of the owner and the router leave the tasks alone. *)
LEMMA KeptType ==
  ASSUME AgentTypeOK, UNCHANGED <<taskVars, historyVars>>,
         inbox' \in [Agents -> Seq(Envelope)],
         signals' \in [Agents -> Seq(Envelope)],
         \A b \in Agents : Len(inbox'[b]) <= InboxCapacity /\ Len(signals'[b]) <= SignalCapacity,
         handle' \in [Agents -> {"open", "closing", "closed"}],
         outbox' \in Seq(Envelope), Len(outbox') <= OutboxCapacity,
         outboxOpen' \in BOOLEAN,
         issued' \in 0 .. MaxEnvelopes
  PROVE  AgentTypeOK'
  BY DEF AgentTypeOK, taskVars, historyVars

(* One more envelope in one agent's channel. *)
LEMMA OneMoreType ==
  ASSUME NEW f \in [Agents -> Seq(Envelope)], NEW a \in Agents, NEW env \in Envelope,
         NEW Capacity \in Nat, Len(f[a]) < Capacity, \A b \in Agents : Len(f[b]) <= Capacity,
         NEW g, g = [f EXCEPT ![a] = Append(@, env)]
  PROVE  /\ g \in [Agents -> Seq(Envelope)]
         /\ \A b \in Agents : Len(g[b]) <= Capacity
<1> DEFINE longer == Append(f[a], env)
<1>1. longer \in Seq(Envelope) /\ Len(longer) = Len(f[a]) + 1
  BY AppendType
<1>2. g = [f EXCEPT ![a] = longer]
  OBVIOUS
<1>3. Len(f[a]) \in Nat
  OBVIOUS
<1> HIDE DEF longer
<1>4. g \in [Agents -> Seq(Envelope)]
  BY <1>1, <1>2
<1>5. \A b \in Agents : Len(g[b]) <= Capacity
  BY <1>1, <1>2, <1>3
<1> QED
  BY <1>4, <1>5

LEMMA SendInboxType ==
  ASSUME TypeOK, NEW a \in Agents, routing \in Envelope, SendInbox(a)
  PROVE  /\ inbox' \in [Agents -> Seq(Envelope)]
         /\ \A b \in Agents : Len(inbox'[b]) <= InboxCapacity
<1> DEFINE env == [routing EXCEPT !.to = a]
<1>1. env \in Envelope
  BY DEF Envelope
<1> HIDE DEF env
<1>2. CASE UNCHANGED inbox
  BY <1>2 DEF TypeOK, AgentTypeOK
<1>3. CASE Len(inbox[a]) < InboxCapacity /\ inbox' = [inbox EXCEPT ![a] = Append(@, env)]
  <2>1. inbox \in [Agents -> Seq(Envelope)] /\ \A b \in Agents : Len(inbox[b]) <= InboxCapacity
    BY DEF TypeOK, AgentTypeOK
  <2> QED
    BY <1>1, <1>3, <2>1, OneMoreType, AgentLoopAssumption
<1> QED
  BY <1>2, <1>3 DEF SendInbox, env

LEMMA SendSignalType ==
  ASSUME TypeOK, NEW a \in Agents, routing \in Envelope, NEW kind \in Kind, SendSignal(a, kind)
  PROVE  /\ signals' \in [Agents -> Seq(Envelope)]
         /\ \A b \in Agents : Len(signals'[b]) <= SignalCapacity
<1> DEFINE env == [routing EXCEPT !.to = a, !.kind = kind]
<1>1. env \in Envelope
  BY DEF Envelope
<1> HIDE DEF env
<1>2. CASE UNCHANGED signals
  BY <1>2 DEF TypeOK, AgentTypeOK
<1>3. CASE Len(signals[a]) < SignalCapacity /\ signals' = [signals EXCEPT ![a] = Append(@, env)]
  <2>1. /\ signals \in [Agents -> Seq(Envelope)]
        /\ \A b \in Agents : Len(signals[b]) <= SignalCapacity
    BY DEF TypeOK, AgentTypeOK
  <2> QED
    BY <1>1, <1>3, <2>1, OneMoreType, AgentLoopAssumption
<1> QED
  BY <1>2, <1>3 DEF SendSignal, env

(* What the router takes off the outbox. *)
LEMMA ReceiveType ==
  ASSUME TypeOK, Receive
  PROVE  /\ Incoming \in Envelope
         /\ outbox' \in Seq(Envelope) /\ Len(outbox') <= OutboxCapacity
         /\ routed' \in Seq(1 .. MaxEnvelopes)
<1>1. /\ Incoming \in Envelope /\ outbox' \in Seq(Envelope)
      /\ Len(outbox') < Len(outbox) /\ Len(outbox) <= OutboxCapacity
      /\ Len(outbox) \in Nat /\ Len(outbox') \in Nat
  BY ChannelType DEF Receive, Incoming, TypeOK, AgentTypeOK
<1>2. Incoming.id \in 1 .. MaxEnvelopes
  BY <1>1 DEF Envelope
<1>3. routed' \in Seq(1 .. MaxEnvelopes)
  BY <1>2, AppendType DEF Receive, TypeOK
<1> QED
  BY <1>1, <1>3, AgentLoopAssumption

(* Pruning keeps the count that of the registry and closes the handles of   *)
(* finished tasks only.                                                     *)
LEMMA PruneType ==
  ASSUME IInv, PruneDeadAgents
  PROVE  /\ registered' \subseteq registered
         /\ IsFiniteSet(registered')
         /\ activeAgents' = Cardinality(registered') /\ activeAgents' \in Nat
         /\ handle' \in [Agents -> {"open", "closing", "closed"}]
         /\ \A a \in Agents : handle'[a] # handle[a] => Exited(a)
         /\ \A a \in registered \ registered' : Exited(a)
<1>1. registered' \subseteq registered
  BY DEF PruneDeadAgents
<1>2. IsFiniteSet(registered')
  BY <1>1, FS_Subset DEF IInv, RouterInv
<1>3. activeAgents' = Cardinality(registered')
  BY DEF PruneDeadAgents, IInv, RouterInv
<1>4. activeAgents' \in Nat
  BY <1>2, <1>3, FS_CardinalityType
<1>5. handle' \in [Agents -> {"open", "closing", "closed"}]
  BY DEF PruneDeadAgents, IInv, TypeOK, AgentTypeOK
<1>6. \A a \in registered \ registered' : Exited(a)
  BY DEF PruneDeadAgents
<1>7. \A a \in Agents : handle'[a] # handle[a] => Exited(a)
  BY <1>6 DEF PruneDeadAgents
<1> QED
  BY <1>1, <1>2, <1>3, <1>4, <1>5, <1>6, <1>7

(* The router takes an envelope and turns to those it is for. *)
LEMMA RouteInv ==
  ASSUME IInv, RouteSignal \/ LogSignal \/ RouteShutdown \/ RouteDirected \/ RouteBroadcast
  PROVE  IInv'
<1>1. /\ Receive /\ epc = "recv" /\ todo = {} /\ routing = None /\ target = None
      /\ Incoming \in Envelope
      /\ outbox' \in Seq(Envelope) /\ Len(outbox') <= OutboxCapacity
      /\ routed' \in Seq(1 .. MaxEnvelopes)
  <2>1. Receive
    BY DEF RouteSignal, LogSignal, RouteShutdown, RouteDirected, RouteBroadcast
  <2> QED
    BY <2>1, ReceiveType DEF Receive, IInv, RouterInv
<1>2. Incoming # None
  BY <1>1, AgentLoopAssumption
<1>3. UNCHANGED <<inbox, signals, outboxOpen, taskVars, issued, historyVars>>
  BY DEF RouteSignal, LogSignal, RouteShutdown, RouteDirected, RouteBroadcast
<1>4. /\ handle' \in [Agents -> {"open", "closing", "closed"}]
      /\ registered' \subseteq registered
      /\ IsFiniteSet(registered')
      /\ activeAgents' = Cardinality(registered') /\ activeAgents' \in Nat
  <2>1. CASE PruneDeadAgents
    BY <2>1, PruneType
  <2>2. CASE UNCHANGED <<registered, activeAgents, handle>>
    BY <2>2 DEF IInv, RouterInv, TypeOK, AgentTypeOK
  <2> QED
    BY <2>1, <2>2 DEF RouteSignal, LogSignal, RouteShutdown, RouteDirected, RouteBroadcast
<1>5. AgentTypeOK'
  BY <1>1, <1>3, <1>4, KeptType DEF IInv, TypeOK, AgentTypeOK
<1>6. /\ epc' \in EnginePhase
      /\ routing' \in Envelope \cup {None}
      /\ target' \in Agents \cup {None}
      /\ todo' \subseteq registered' /\ todo' \subseteq Agents
      /\ todo' # {} => epc' \in {"broadcasting", "halting", "clearing", "dropping"}
      /\ epc' \in {"delivering", "signalling"} => target' \in Agents
      /\ target' # None => epc' \in {"delivering", "signalling", "broadcasting", "halting"}
      /\ target' \notin todo'
      /\ routing' # None <=> epc' \in {"delivering", "signalling", "broadcasting", "halting"}
      /\ epc' = "signalling" => routing'.kind \in {"interrupt", "halt"}
  <2> USE <1>1, <1>2, SwarmAssumption DEF EnginePhase, IInv, TypeOK, RouterInv
  <2>1. CASE RouteSignal
    BY <2>1 DEF RouteSignal
  <2>2. CASE LogSignal
    BY <2>2 DEF LogSignal
  <2>3. CASE RouteShutdown
    BY <2>3 DEF RouteShutdown
  <2>4. CASE RouteDirected
    BY <2>4 DEF RouteDirected
  <2>5. CASE RouteBroadcast
    BY <2>5 DEF RouteBroadcast
  <2> QED
    BY <2>1, <2>2, <2>3, <2>4, <2>5
<1>7. registered' \subseteq Agents
  BY <1>4 DEF IInv, TypeOK
<1> QED
  BY <1>1, <1>4, <1>5, <1>6, <1>7 DEF IInv, TypeOK, RouterInv

(* Whoever is served is an agent, and what it is served an envelope. *)
LEMMA ServingType ==
  ASSUME IInv, epc \in {"delivering", "signalling", "broadcasting", "halting"}
  PROVE  /\ routing \in Envelope
         /\ target # None => target \in Agents
         /\ epc \in {"delivering", "signalling"} => target \in Agents /\ todo = {}
  BY DEF IInv, TypeOK, RouterInv

LEMMA ServeInv ==
  ASSUME IInv,
         Deliver \/ ForwardSignal \/ NextTarget \/ DeliverCopy \/ BroadcastDone \/ SendHalt
  PROVE  IInv'
<1> USE SwarmAssumption DEF EnginePhase
<1>1. CASE Deliver
  <2>1. routing \in Envelope /\ target \in Agents /\ todo = {}
    BY <1>1, ServingType DEF Deliver
  <2>2. /\ inbox' \in [Agents -> Seq(Envelope)]
        /\ \A b \in Agents : Len(inbox'[b]) <= InboxCapacity
    BY <1>1, <2>1, SendInboxType DEF Deliver, IInv
  <2>3. /\ registered' \subseteq registered /\ IsFiniteSet(registered')
        /\ activeAgents' = Cardinality(registered') /\ activeAgents' \in Nat
        /\ handle' \in [Agents -> {"open", "closing", "closed"}]
    BY <1>1, PruneType DEF Deliver
  <2>4. AgentTypeOK'
    BY <1>1, <2>2, <2>3, KeptType DEF Deliver, IInv, TypeOK, AgentTypeOK
  <2> QED
    BY <1>1, <2>1, <2>3, <2>4 DEF Deliver, IInv, TypeOK, RouterInv
<1>2. CASE ForwardSignal
  <2>1. routing \in Envelope /\ target \in Agents /\ todo = {} /\ routing.kind \in Kind
    BY <1>2, ServingType DEF ForwardSignal, Envelope
  <2>2. /\ signals' \in [Agents -> Seq(Envelope)]
        /\ \A b \in Agents : Len(signals'[b]) <= SignalCapacity
    BY <1>2, <2>1, SendSignalType DEF ForwardSignal, IInv
  <2>3. AgentTypeOK'
    BY <1>2, <2>2, KeptType DEF ForwardSignal, IInv, TypeOK, AgentTypeOK
  <2> QED
    BY <1>2, <2>1, <2>3 DEF ForwardSignal, IInv, TypeOK, RouterInv
<1>3. CASE NextTarget
  <2>1. UNCHANGED agentVars
    BY <1>3 DEF NextTarget
  <2>2. AgentTypeOK'
    BY <2>1 DEF IInv, TypeOK, AgentTypeOK, agentVars, channelVars, taskVars, historyVars
  <2> QED
    BY <1>3, <2>2 DEF NextTarget, IInv, TypeOK, RouterInv
<1>4. CASE DeliverCopy
  <2>1. routing \in Envelope /\ target \in Agents
    BY <1>4, ServingType DEF DeliverCopy
  <2>2. /\ inbox' \in [Agents -> Seq(Envelope)]
        /\ \A b \in Agents : Len(inbox'[b]) <= InboxCapacity
    BY <1>4, <2>1, SendInboxType DEF DeliverCopy, IInv
  <2>3. AgentTypeOK'
    BY <1>4, <2>2, KeptType DEF DeliverCopy, IInv, TypeOK, AgentTypeOK
  <2> QED
    BY <1>4, <2>3 DEF DeliverCopy, IInv, TypeOK, RouterInv
<1>5. CASE BroadcastDone
  <2>1. /\ registered' \subseteq registered /\ IsFiniteSet(registered')
        /\ activeAgents' = Cardinality(registered') /\ activeAgents' \in Nat
        /\ handle' \in [Agents -> {"open", "closing", "closed"}]
    BY <1>5, PruneType DEF BroadcastDone
  <2>2. AgentTypeOK'
    BY <1>5, <2>1, KeptType DEF BroadcastDone, IInv, TypeOK, AgentTypeOK
  <2> QED
    BY <1>5, <2>1, <2>2 DEF BroadcastDone, IInv, TypeOK, RouterInv
<1>6. CASE SendHalt
  <2>1. routing \in Envelope /\ target \in Agents /\ "halt" \in Kind
    BY <1>6, ServingType DEF SendHalt, Kind
  <2>2. /\ signals' \in [Agents -> Seq(Envelope)]
        /\ \A b \in Agents : Len(signals'[b]) <= SignalCapacity
    BY <1>6, <2>1, SendSignalType DEF SendHalt, IInv
  <2>3. AgentTypeOK'
    BY <1>6, <2>2, KeptType DEF SendHalt, IInv, TypeOK, AgentTypeOK
  <2> QED
    BY <1>6, <2>3 DEF SendHalt, IInv, TypeOK, RouterInv
<1> QED
  BY <1>1, <1>2, <1>3, <1>4, <1>5, <1>6

(* The owner's steps before run, and after it. *)
LEMMA SendToType ==
  ASSUME TypeOK, NEW a \in Agents, SendTo(a)
  PROVE  AgentTypeOK'
<1> DEFINE env == NewEnvelope([kind |-> "data", to |-> a])
<1>1. env \in Envelope /\ issued' \in 0 .. MaxEnvelopes
  BY AgentLoopAssumption DEF SendTo, TypeOK, AgentTypeOK, NewEnvelope, Envelope, Kind
<1>2. inbox' = [inbox EXCEPT ![a] = Append(@, env)] /\ Len(inbox[a]) < InboxCapacity
  BY DEF SendTo
<1> HIDE DEF env
<1>3. inbox \in [Agents -> Seq(Envelope)] /\ \A b \in Agents : Len(inbox[b]) <= InboxCapacity
  BY DEF TypeOK, AgentTypeOK
<1>4. /\ inbox' \in [Agents -> Seq(Envelope)]
      /\ \A b \in Agents : Len(inbox'[b]) <= InboxCapacity
  BY <1>1, <1>2, <1>3, OneMoreType, AgentLoopAssumption
<1> QED
  BY <1>1, <1>4, KeptType DEF SendTo, TypeOK, AgentTypeOK

LEMMA OwnerInv ==
  ASSUME IInv,
         \/ \E a \in Agents : Spawn(a) \/ SendTo(a)
         \/ Run \/ DropEngine \/ DropEarly
  PROVE  IInv'
<1> USE SwarmAssumption DEF EnginePhase
<1>1. ASSUME UNCHANGED agentVars
      PROVE  AgentTypeOK'
  BY <1>1 DEF IInv, TypeOK, AgentTypeOK, agentVars, channelVars, taskVars, historyVars
<1>2. ASSUME NEW a \in Agents, Spawn(a)
      PROVE  IInv'
  <2>1. IsFiniteSet(registered') /\ Cardinality(registered') \in Nat
    BY <1>2, FS_AddElement, FS_CardinalityType DEF Spawn, IInv, RouterInv
  <2> QED
    BY <1>1, <1>2, <2>1 DEF Spawn, IInv, TypeOK, RouterInv
<1>3. ASSUME NEW a \in Agents, SendTo(a)
      PROVE  IInv'
  BY <1>3, SendToType DEF SendTo, engineVars, IInv, TypeOK, RouterInv
<1>4. CASE Run
  BY <1>1, <1>4 DEF Run, IInv, TypeOK, RouterInv
<1>5. CASE DropEngine
  <2>1. outbox' \in Seq(Envelope) /\ Len(outbox') <= OutboxCapacity /\ outboxOpen' \in BOOLEAN
    <3>1. <<>> \in Seq(Envelope) /\ Len(<<>>) = 0 /\ 0 <= OutboxCapacity
      BY AgentLoopAssumption
    <3>2. outbox' = <<>> /\ outboxOpen' = FALSE
      BY <1>5 DEF DropEngine
    <3> QED
      BY <3>1, <3>2, Zenon
  <2>2. AgentTypeOK'
    BY <1>5, <2>1, KeptType DEF DropEngine, IInv, TypeOK, AgentTypeOK
  <2> QED
    BY <1>5, <2>2 DEF DropEngine, engineVars, IInv, TypeOK, RouterInv
<1>6. CASE DropEarly
  BY <1>1, <1>6 DEF DropEarly, IInv, TypeOK, RouterInv
<1> QED
  BY <1>2, <1>3, <1>4, <1>5, <1>6

(* Shutting down: the registry and the count stay until all is dropped. *)
LEMMA ShutdownInv ==
  ASSUME IInv, HaltsSent \/ GraceOver \/ DropHandle \/ Stopped \/ DroppedEarly
  PROVE  IInv'
<1> USE SwarmAssumption DEF EnginePhase
<1>1. ASSUME UNCHANGED agentVars
      PROVE  AgentTypeOK'
  BY <1>1 DEF IInv, TypeOK, AgentTypeOK, agentVars, channelVars, taskVars, historyVars
<1>2. CASE HaltsSent
  BY <1>1, <1>2 DEF HaltsSent, IInv, TypeOK, RouterInv
<1>3. CASE GraceOver
  BY <1>1, <1>3 DEF GraceOver, IInv, TypeOK, RouterInv
<1>4. CASE DropHandle
  <2>1. handle' \in [Agents -> {"open", "closing", "closed"}] /\ todo' \subseteq todo
    BY <1>4 DEF DropHandle, IInv, TypeOK, AgentTypeOK
  <2>2. AgentTypeOK'
    BY <1>4, <2>1, KeptType DEF DropHandle, IInv, TypeOK, AgentTypeOK
  <2> QED
    BY <1>4, <2>1, <2>2 DEF DropHandle, IInv, TypeOK, RouterInv
<1>5. CASE Stopped
  <2>1. IsFiniteSet({}) /\ Cardinality({}) = 0
    BY FS_EmptySet
  <2>2. AgentTypeOK'
    BY <1>1, <1>5 DEF Stopped
  <2> QED
    BY <1>5, <2>1, <2>2 DEF Stopped, IInv, TypeOK, RouterInv
<1>6. CASE DroppedEarly
  <2>1. IsFiniteSet({}) /\ Cardinality({}) = 0
    BY FS_EmptySet
  <2>2. outbox' \in Seq(Envelope) /\ Len(outbox') <= OutboxCapacity /\ outboxOpen' \in BOOLEAN
    <3>1. <<>> \in Seq(Envelope) /\ Len(<<>>) = 0 /\ 0 <= OutboxCapacity
      BY AgentLoopAssumption
    <3>2. outbox' = <<>> /\ outboxOpen' = FALSE
      BY <1>6 DEF DroppedEarly
    <3> QED
      BY <3>1, <3>2, Zenon
  <2>3. AgentTypeOK'
    BY <1>6, <2>2, KeptType DEF DroppedEarly, IInv, TypeOK, AgentTypeOK
  <2> QED
    BY <1>6, <2>1, <2>3 DEF DroppedEarly, IInv, TypeOK, RouterInv
<1> QED
  BY <1>2, <1>3, <1>4, <1>5, <1>6

LEMMA NextInv ==
  ASSUME IInv, [Next]_vars
  PROVE  IInv'
<1>1. CASE UNCHANGED vars
  BY <1>1 DEF vars, agentVars, channelVars, taskVars, historyVars, engineVars, IInv, TypeOK,
              AgentTypeOK, RouterInv
<1>2. ASSUME NEW a \in Agents, AgentStep(a), UNCHANGED engineVars
      PROVE  IInv'
  BY <1>2, AgentInv
<1>3. CASE EngineStep
  BY <1>3, RouteInv, ServeInv, ShutdownInv DEF EngineStep
<1> QED
  BY <1>1, <1>2, <1>3, OwnerInv DEF Next

LEMMA Invariance == Spec => []IInv
  BY InitInv, NextInv, PTL DEF Spec

-----------------------------------------------------------------------------
(* The registry forgets an agent only when its task has ended, whatever the *)
(* agents do meanwhile, or in shutdown_all or the drop of the engine, and   *)
(* active_agents is at every moment the number of registered agents         *)
(* (engine.rs:288, 293-302).                                                *)
THEOREM RegistryIsKept == Spec => RegistryKept
<1>1. ASSUME IInv, [Next]_vars, NEW a \in registered \ registered'
      PROVE  Exited(a) \/ epc \in {"clearing", "dropping"}
  <2>1. CASE PruneDeadAgents
    BY <1>1, <2>1 DEF PruneDeadAgents
  <2>2. CASE UNCHANGED registered
    BY <1>1, <2>2
  <2>3. CASE \E b \in Agents : Spawn(b)
    BY <1>1, <2>3 DEF Spawn
  <2>4. CASE Stopped \/ DroppedEarly
    BY <2>4 DEF Stopped, DroppedEarly
  <2> QED
    BY <1>1, <2>1, <2>2, <2>3, <2>4
    DEF Next, vars, engineVars, SendTo, Run, DropEngine, DropEarly, EngineStep, RouteSignal, LogSignal,
        RouteShutdown, RouteDirected, RouteBroadcast, Deliver, ForwardSignal, NextTarget,
        DeliverCopy, BroadcastDone, SendHalt, HaltsSent, GraceOver, DropHandle
<1>2. IInv /\ [Next]_vars =>
        [/\ activeAgents' = Cardinality(registered')
         /\ \A a \in registered \ registered' :
              Exited(a) \/ epc \in {"clearing", "dropping"}]_vars
  BY <1>1, NextInv DEF IInv, RouterInv
<1> QED
  BY <1>2, Invariance, PTL DEF Spec, RegistryKept

-----------------------------------------------------------------------------
(* HaltBeforeDrop is not inductive: that the agents whose handles are about *)
(* to be dropped were warned has to be known from the moment their halts    *)
(* are sent, and survive whatever they do in the meantime. An engine that   *)
(* is dropped by its owner stays so, and promises nothing.                  *)
HaltIn(s) == \E i \in DOMAIN s : IsHaltOrShutdown(s[i])

Warned(a) == Exited(a) \/ halted[a] \/ HaltIn(deferred[a]) \/ HaltIn(signals[a])

Abandoned == epc \in {"dropping", "dropped"}

WarnInv ==
  /\ HaltBeforeDrop
  /\ epc = "halting" => \A a \in registered : a \in todo \/ a = target \/ Warned(a)
  /\ epc \in {"grace", "clearing"} => \A a \in registered : Warned(a)

LEMMA WarnedBeforeDrop ==
  ASSUME ~ Abandoned
  PROVE  HaltBeforeDrop <=> \A a \in Agents : handle[a] # "open" => Warned(a)
  BY DEF Abandoned, HaltBeforeDrop, Warned, HaltIn

LEMMA WarnedBeforeDropNext ==
  ASSUME \A a \in Agents : handle'[a] # "open" => Warned(a)'
  PROVE  HaltBeforeDrop'
  BY DEF HaltBeforeDrop, Warned, HaltIn, Exited, IsHaltOrShutdown

LEMMA AbandonedPromisesNothing ==
  ASSUME Abandoned'
  PROVE  WarnInv'
  BY DEF Abandoned, WarnInv, HaltBeforeDrop

LEMMA HaltInAppend ==
  ASSUME NEW s \in Seq(Envelope), NEW e \in Envelope
  PROVE  HaltIn(Append(s, e)) <=> HaltIn(s) \/ IsHaltOrShutdown(e)
<1>1. ASSUME HaltIn(Append(s, e))
      PROVE  HaltIn(s) \/ IsHaltOrShutdown(e)
  BY <1>1 DEF HaltIn
<1>2. ASSUME HaltIn(s)
      PROVE  HaltIn(Append(s, e))
  <2>1. PICK i \in DOMAIN s : IsHaltOrShutdown(s[i])
    BY <1>2 DEF HaltIn
  <2>2. i \in DOMAIN Append(s, e) /\ Append(s, e)[i] = s[i]
    OBVIOUS
  <2> QED
    BY <2>1, <2>2 DEF HaltIn
<1>3. ASSUME IsHaltOrShutdown(e)
      PROVE  HaltIn(Append(s, e))
  <2>1. Len(s) + 1 \in DOMAIN Append(s, e) /\ Append(s, e)[Len(s) + 1] = e
    OBVIOUS
  <2> QED
    BY <1>3, <2>1 DEF HaltIn
<1> QED
  BY <1>1, <1>2, <1>3

LEMMA HaltInTail ==
  ASSUME NEW s \in Seq(Envelope), s # <<>>
  PROVE  HaltIn(s) => IsHaltOrShutdown(Head(s)) \/ HaltIn(Tail(s))
<1> SUFFICES ASSUME NEW i \in DOMAIN s, IsHaltOrShutdown(s[i])
             PROVE  IsHaltOrShutdown(Head(s)) \/ HaltIn(Tail(s))
  BY DEF HaltIn
<1>1. CASE i = 1
  BY <1>1
<1>2. CASE i # 1
  <2>1. i - 1 \in DOMAIN Tail(s) /\ Tail(s)[i - 1] = s[i]
    BY <1>2
  <2> QED
    BY <2>1 DEF HaltIn
<1> QED
  BY <1>1, <1>2

(* An agent that was warned stays so: the halt moves from the channel to    *)
(* the deferred signals and from there to the hook, and is never lost.      *)
LEMMA StaysWarned ==
  ASSUME AgentTypeOK, NEW a \in Agents, AgentStep(a), NEW b \in Agents, Warned(b)
  PROVE  Warned(b)'
<1>1. CASE b # a
  BY <1>1, OthersKeep DEF Warned, HaltIn, Exited, IsHaltOrShutdown
<1> SUFFICES ASSUME b = a
             PROVE  Warned(a)'
  BY <1>1
<1>2. ASSUME UNCHANGED <<signals[a], deferred[a], halted[a]>>, pc[a] # "exited"
      PROVE  Warned(a)'
  BY <1>2 DEF Warned, HaltIn, Exited, IsHaltOrShutdown
<1>3. CASE \/ IdleHaltSignal(a) \/ IdleInboxHalt(a) \/ IdleSignalsClosed(a)
           \/ IdleInboxClosed(a) \/ ResponseFails(a) \/ ExitAfterTask(a)
  BY <1>3 DEF IdleHaltSignal, IdleInboxHalt, IdleSignalsClosed, IdleInboxClosed, ResponseFails,
              ExitAfterTask, Exit, Warned, Exited, AgentTypeOK
<1>4. CASE IdleSignal(a)
  <2>1. /\ pc[a] = "idle" /\ signals[a] # <<>> /\ ~ IsHaltOrShutdown(Head(signals[a]))
        /\ RunHook(a, Head(signals[a])) /\ deferred' = deferred
        /\ signals'[a] = Tail(signals[a]) /\ signals[a] \in Seq(Envelope)
    BY <1>4 DEF IdleSignal, HandleWhileIdle, AgentTypeOK
  <2>2. halted'[a] = halted[a]
    BY <2>1 DEF RunHook, AgentTypeOK
  <2>3. HaltIn(signals[a]) => HaltIn(signals'[a])
    BY <2>1, HaltInTail
  <2> QED
    BY <2>1, <2>2, <2>3 DEF Warned, HaltIn, Exited, IsHaltOrShutdown
<1>5. CASE IdleInboxInterrupt(a)
  <2>1. /\ pc[a] = "idle" /\ ~ IsHaltOrShutdown(Head(inbox[a]))
        /\ RunHook(a, Head(inbox[a])) /\ deferred' = deferred /\ signals' = signals
    BY <1>5 DEF IdleInboxInterrupt, HandleWhileIdle, IsHaltOrShutdown
  <2>2. halted'[a] = halted[a]
    BY <2>1 DEF RunHook, AgentTypeOK
  <2> QED
    BY <1>2, <2>1, <2>2
<1>6. CASE DeferSignal(a)
  <2>1. /\ pc[a] # "exited" /\ signals[a] # <<>> /\ halted' = halted
        /\ deferred'[a] = Append(deferred[a], Head(signals[a]))
        /\ signals'[a] = Tail(signals[a])
        /\ signals[a] \in Seq(Envelope) /\ deferred[a] \in Seq(Envelope)
        /\ Head(signals[a]) \in Envelope
    BY <1>6, ChannelType DEF DeferSignal, Racing, AgentTypeOK, historyVars
  <2>2. HaltIn(signals[a]) => IsHaltOrShutdown(Head(signals[a])) \/ HaltIn(signals'[a])
    BY <2>1, HaltInTail
  <2>3. HaltIn(deferred'[a]) <=> HaltIn(deferred[a]) \/ IsHaltOrShutdown(Head(signals[a]))
    BY <2>1, HaltInAppend
  <2>4. HaltIn(deferred'[a]) \/ HaltIn(signals'[a]) \/ halted'[a]
    BY <2>1, <2>2, <2>3 DEF Warned, Exited
  <2> QED
    BY <2>4 DEF Warned, HaltIn, IsHaltOrShutdown
<1>7. CASE DrainDeferred(a)
  <2>1. /\ pc[a] # "exited" /\ deferred[a] # <<>> /\ signals' = signals
        /\ deferred'[a] = Tail(deferred[a]) /\ RunHook(a, Head(deferred[a]))
        /\ deferred[a] \in Seq(Envelope)
    BY <1>7 DEF DrainDeferred, channelVars, AgentTypeOK
  <2>2. halted'[a] = (halted[a] \/ IsHaltOrShutdown(Head(deferred[a])))
    BY <2>1 DEF RunHook, AgentTypeOK
  <2>3. HaltIn(deferred[a]) => IsHaltOrShutdown(Head(deferred[a])) \/ HaltIn(deferred'[a])
    BY <2>1, HaltInTail
  <2>4. HaltIn(deferred'[a]) \/ HaltIn(signals'[a]) \/ halted'[a]
    BY <2>1, <2>2, <2>3 DEF Warned, Exited
  <2> QED
    BY <2>4 DEF Warned, HaltIn, IsHaltOrShutdown
<1>8. CASE \/ AcceptMessage(a) \/ SpinOnClosedSignals(a) \/ BeginMessage(a) \/ WorkUnit(a)
           \/ FinishMessage(a) \/ SendResponse(a) \/ SendInterruptReply(a) \/ NextIteration(a)
  BY <1>2, <1>8 DEF AcceptMessage, SpinOnClosedSignals, Racing, BeginMessage, WorkUnit,
     FinishMessage, SendResponse, SendInterruptReply, NextIteration, channelVars, historyVars
<1> QED
  BY <1>3, <1>4, <1>5, <1>6, <1>7, <1>8 DEF AgentStep

(* Nobody loses a halt to the router either; its halt is one. *)
LEMMA SignalWarns ==
  ASSUME IInv, NEW a \in Agents, routing \in Envelope, NEW kind \in Kind, SendSignal(a, kind),
         UNCHANGED <<taskVars, historyVars>>
  PROVE  /\ \A b \in Agents : Warned(b) => Warned(b)'
         /\ kind = "halt" => Warned(a)'
<1>1. UNCHANGED <<pc, deferred, halted>>
  BY DEF taskVars, historyVars
<1>2. CASE Exited(a) /\ UNCHANGED signals
  BY <1>1, <1>2 DEF Warned, HaltIn, Exited, IsHaltOrShutdown
<1> DEFINE env == [routing EXCEPT !.to = a, !.kind = kind]
<1>3. CASE signals' = [signals EXCEPT ![a] = Append(@, env)]
  <2>1. env \in Envelope /\ env.kind = kind
    BY DEF Envelope
  <2> HIDE DEF env
  <2>2. /\ signals'[a] = Append(signals[a], env) /\ signals[a] \in Seq(Envelope)
        /\ \A b \in Agents \ {a} : signals'[b] = signals[b]
    BY <1>3 DEF IInv, TypeOK, AgentTypeOK
  <2>3. HaltIn(signals'[a]) <=> HaltIn(signals[a]) \/ IsHaltOrShutdown(env)
    BY <2>1, <2>2, HaltInAppend
  <2>4. \A b \in Agents : HaltIn(signals[b]) => HaltIn(signals'[b])
    BY <2>2, <2>3
  <2> QED
    BY <1>1, <2>1, <2>3, <2>4 DEF Warned, HaltIn, Exited, IsHaltOrShutdown
<1> QED
  BY <1>2, <1>3 DEF SendSignal, env

(* While the tasks and the signal channels are left alone nobody forgets. *)
LEMMA QuietWarned ==
  ASSUME UNCHANGED <<signals, taskVars, historyVars>>, NEW b
  PROVE  Warned(b)' <=> Warned(b)
  BY DEF taskVars, historyVars, Warned, HaltIn, Exited, IsHaltOrShutdown

LEMMA AgentWarn ==
  ASSUME IInv, WarnInv, ~ Abandoned, NEW a \in Agents, AgentStep(a), UNCHANGED engineVars
  PROVE  WarnInv'
<1>1. \A b \in Agents : Warned(b) => Warned(b)'
  BY StaysWarned DEF IInv, TypeOK
<1>2. handle' = handle
  BY OthersKeep DEF AgentStep, IdleSignal, IdleHaltSignal, IdleSignalsClosed, IdleInboxInterrupt,
     IdleInboxHalt, IdleInboxClosed, AcceptMessage, DeferSignal, SpinOnClosedSignals,
     BeginMessage, WorkUnit, FinishMessage, SendResponse, ResponseFails, DrainDeferred,
     SendInterruptReply, NextIteration, ExitAfterTask, Exit, HandleWhileIdle, channelVars
<1>3. HaltBeforeDrop'
  BY <1>1, <1>2, WarnedBeforeDrop, WarnedBeforeDropNext DEF WarnInv
<1> QED
  BY <1>1, <1>3 DEF WarnInv, engineVars, IInv, TypeOK

(* Until a halt is sent and handles are dropped it is enough that handles   *)
(* are only closed for agents that have exited.                             *)
LEMMA KeepsWarn ==
  ASSUME WarnInv, ~ Abandoned, \A b \in Agents : Warned(b) => Warned(b)',
         \A b \in Agents : handle'[b] # handle[b] => Warned(b),
         epc' \notin {"halting", "grace", "clearing"}
  PROVE  WarnInv'
<1>1. HaltBeforeDrop'
  BY WarnedBeforeDrop, WarnedBeforeDropNext DEF WarnInv
<1> QED
  BY <1>1 DEF WarnInv

LEMMA StaysAbandoned ==
  ASSUME Abandoned, [Next]_vars
  PROVE  Abandoned'
  BY DEF Abandoned, Next, vars, engineVars, Spawn, SendTo, Run, DropEngine, DropEarly, EngineStep,
     Receive, RouteSignal, LogSignal, RouteShutdown, RouteDirected, RouteBroadcast, Deliver,
     ForwardSignal, NextTarget, DeliverCopy, BroadcastDone, SendHalt, HaltsSent, GraceOver,
     DropHandle, Stopped, DroppedEarly

LEMMA NextWarn ==
  ASSUME IInv, WarnInv, [Next]_vars
  PROVE  WarnInv'
<1>a. CASE Abandoned
  BY <1>a, StaysAbandoned, AbandonedPromisesNothing
<1>b. CASE DropEarly \/ DroppedEarly
  BY <1>b, AbandonedPromisesNothing DEF DropEarly, DroppedEarly, Abandoned
<1> SUFFICES ASSUME ~ Abandoned
             PROVE  WarnInv'
  BY <1>a
<1>1. CASE UNCHANGED vars
  <2>1. UNCHANGED <<signals, taskVars, historyVars, handle, epc, registered, todo, target>>
    BY <1>1 DEF vars, agentVars, channelVars, engineVars
  <2>2. HaltBeforeDrop'
    BY <2>1, QuietWarned, WarnedBeforeDrop, WarnedBeforeDropNext DEF WarnInv
  <2> QED
    BY <2>1, <2>2, QuietWarned DEF WarnInv
<1>2. ASSUME NEW a \in Agents, AgentStep(a), UNCHANGED engineVars
      PROVE  WarnInv'
  BY <1>2, AgentWarn
<1>3. CASE \/ \E a \in Agents : Spawn(a) \/ SendTo(a)
           \/ Run \/ DropEngine
  <2>1. /\ UNCHANGED <<signals, taskVars, historyVars, handle>>
        /\ epc' \notin {"halting", "grace", "clearing"}
    BY <1>3 DEF Spawn, SendTo, Run, DropEngine, engineVars, agentVars, channelVars
  <2> QED
    BY <2>1, QuietWarned, KeepsWarn
<1>4. CASE \/ RouteSignal \/ LogSignal \/ RouteDirected \/ RouteBroadcast
           \/ Deliver \/ DeliverCopy \/ BroadcastDone
  <2>1. UNCHANGED <<signals, taskVars, historyVars>>
    BY <1>4 DEF RouteSignal, LogSignal, RouteDirected, RouteBroadcast, Deliver, DeliverCopy,
                BroadcastDone
  <2>2. epc' \notin {"halting", "grace", "clearing"}
    BY <1>4 DEF RouteSignal, LogSignal, RouteDirected, RouteBroadcast, Deliver, DeliverCopy,
                BroadcastDone, Receive
  <2>3. PruneDeadAgents \/ UNCHANGED handle
    BY <1>4 DEF RouteSignal, LogSignal, RouteDirected, RouteBroadcast, Deliver, DeliverCopy,
                BroadcastDone
  <2>4. \A b \in Agents : handle'[b] # handle[b] => Warned(b)
    BY <2>3, PruneType DEF Warned
  <2> QED
    BY <2>1, <2>2, <2>4, QuietWarned, KeepsWarn
<1>5. CASE RouteShutdown \/ HaltsSent \/ GraceOver \/ Stopped
  <2>1. UNCHANGED <<signals, taskVars, historyVars, handle>>
    BY <1>5 DEF RouteShutdown, HaltsSent, GraceOver, Stopped, agentVars, channelVars
  <2>2. HaltBeforeDrop'
    BY <2>1, QuietWarned, WarnedBeforeDrop, WarnedBeforeDropNext DEF WarnInv
  <2>3. /\ epc' = "halting" => todo' = registered'
        /\ epc' \in {"grace", "clearing"} =>
             /\ registered' = registered
             /\ \/ epc \in {"grace", "clearing"}
                \/ epc = "halting" /\ todo = {} /\ target = None
    BY <1>5 DEF RouteShutdown, HaltsSent, GraceOver, Stopped, Receive
  <2> QED
    BY <2>1, <2>2, <2>3, QuietWarned, SwarmAssumption DEF WarnInv, IInv, TypeOK
<1>6. CASE NextTarget
  <2>1. /\ UNCHANGED <<signals, taskVars, historyVars, handle, registered, epc>>
        /\ epc \in {"broadcasting", "halting"} /\ target = None
        /\ \E a \in todo : target' = a /\ todo' = todo \ {a}
    BY <1>6 DEF NextTarget, agentVars, channelVars
  <2>2. HaltBeforeDrop'
    BY <2>1, QuietWarned, WarnedBeforeDrop, WarnedBeforeDropNext DEF WarnInv
  <2> QED
    BY <2>1, <2>2, QuietWarned, SwarmAssumption DEF WarnInv, IInv, TypeOK
<1>7. CASE ForwardSignal
  <2>1. routing \in Envelope /\ target \in Agents /\ routing.kind \in Kind
    BY <1>7, ServingType DEF ForwardSignal, Envelope
  <2>2. \A b \in Agents : Warned(b) => Warned(b)'
    BY <1>7, <2>1, SignalWarns DEF ForwardSignal
  <2> QED
    BY <1>7, <2>2, KeepsWarn DEF ForwardSignal
<1>8. CASE SendHalt
  <2>1. routing \in Envelope /\ target \in Agents /\ "halt" \in Kind
    BY <1>8, ServingType DEF SendHalt, Kind
  <2> PICK t \in Agents : t = target
    BY <2>1
  <2>2. (\A b \in Agents : Warned(b) => Warned(b)') /\ Warned(t)'
    BY <1>8, <2>1, SignalWarns DEF SendHalt
  <2>3. UNCHANGED <<handle, registered, epc, todo>> /\ epc = "halting"
    BY <1>8 DEF SendHalt
  <2>4. HaltBeforeDrop'
    BY <2>2, <2>3, WarnedBeforeDrop, WarnedBeforeDropNext DEF WarnInv
  <2>5. \A a \in registered : a \in todo \/ Warned(a)'
    BY <2>2, <2>3 DEF WarnInv, IInv, TypeOK
  <2> QED
    BY <2>3, <2>4, <2>5 DEF WarnInv
<1>9. CASE DropHandle
  <2>1. /\ UNCHANGED <<signals, taskVars, historyVars, registered, epc>> /\ epc = "clearing"
        /\ \A b \in Agents : handle'[b] # handle[b] => b \in todo
    BY <1>9 DEF DropHandle, Abandoned, IInv, TypeOK, AgentTypeOK
  <2>2. \A b \in Agents : handle'[b] # handle[b] => Warned(b)
    BY <2>1 DEF WarnInv, IInv, RouterInv
  <2>3. HaltBeforeDrop'
    BY <2>1, <2>2, QuietWarned, WarnedBeforeDrop, WarnedBeforeDropNext DEF WarnInv
  <2> QED
    BY <2>1, <2>3, QuietWarned DEF WarnInv
<1> QED
  BY <1>1, <1>2, <1>3, <1>4, <1>5, <1>6, <1>7, <1>8, <1>9, <1>b DEF Next, EngineStep

(* Nobody is cut off unawares by run: whatever the agents are busy with, it *)
(* drops a handle only after its agent has ended or was sent a halt, and    *)
(* that halt is waiting or was acted on (engine.rs:277-289, 293-302).       *)
THEOREM HaltComesFirst == Spec => []HaltBeforeDrop
<1>1. Init => WarnInv
  BY DEF Init, AgentInit, WarnInv, HaltBeforeDrop
<1>2. IInv /\ WarnInv /\ [Next]_vars => WarnInv'
  BY NextWarn
<1>3. WarnInv => HaltBeforeDrop
  BY DEF WarnInv
<1> QED
  BY <1>1, <1>2, <1>3, Invariance, PTL DEF Spec

-----------------------------------------------------------------------------
(* BusOrder speaks of the messages an agent has handled. They come from the *)
(* inbox by way of `current`, so the order is kept for the whole stream of  *)
(* ids that an agent has handled, is handling and has in its inbox.         *)
Numbers(s) == [i \in DOMAIN s |-> s[i].id]

Accepted(a) == IF current[a] = None THEN done[a] ELSE Append(done[a], current[a].id)

Stream(a) == Accepted(a) \o Numbers(inbox[a])

(* t is s with some elements left out. *)
Thinned(t, s) ==
  \E f \in [DOMAIN t -> DOMAIN s] :
    /\ \A i \in DOMAIN t : t[i] = s[f[i]]
    /\ \A i, j \in DOMAIN t : i < j => f[i] < f[j]

LEMMA ThinnedSame ==
  ASSUME NEW S, NEW s \in Seq(S)
  PROVE  Thinned(s, s)
<1> DEFINE f == [i \in DOMAIN s |-> i]
<1>1. f \in [DOMAIN s -> DOMAIN s] /\ \A i \in DOMAIN s : f[i] = i
  OBVIOUS
<1> QED
  BY <1>1 DEF Thinned

LEMMA ThinnedFirst ==
  ASSUME NEW S, NEW s \in Seq(S), NEW t \in Seq(S)
  PROVE  Thinned(s, s \o t)
<1> DEFINE f == [i \in DOMAIN s |-> i]
<1>1. f \in [DOMAIN s -> DOMAIN (s \o t)] /\ \A i \in DOMAIN s : f[i] = i
  OBVIOUS
<1>2. \A i \in DOMAIN s : (s \o t)[i] = s[i]
  OBVIOUS
<1> HIDE DEF f
<1> QED
  BY <1>1, <1>2 DEF Thinned

LEMMA ThinnedHead ==
  ASSUME NEW S, NEW s \in Seq(S), NEW t \in Seq(S), t # <<>>
  PROVE  Thinned(s \o Tail(t), s \o t)
<1> DEFINE f == [i \in DOMAIN (s \o Tail(t)) |-> IF i <= Len(s) THEN i ELSE i + 1]
<1>1. /\ DOMAIN (s \o Tail(t)) = 1 .. Len(s) + Len(t) - 1
      /\ DOMAIN (s \o t) = 1 .. Len(s) + Len(t)
      /\ Len(s) \in Nat /\ Len(t) \in Nat \ {0}
  OBVIOUS
<1>2. f \in [DOMAIN (s \o Tail(t)) -> DOMAIN (s \o t)]
  BY <1>1
<1>3. \A i \in DOMAIN (s \o Tail(t)) : (s \o Tail(t))[i] = (s \o t)[f[i]]
  <2> SUFFICES ASSUME NEW i \in DOMAIN (s \o Tail(t))
               PROVE  (s \o Tail(t))[i] = (s \o t)[f[i]]
    OBVIOUS
  <2>1. CASE i <= Len(s)
    BY <2>1
  <2>2. CASE ~ (i <= Len(s))
    <3>1. f[i] = i + 1 /\ i - Len(s) \in 1 .. Len(Tail(t))
      BY <1>1, <2>2
    <3>2. (s \o Tail(t))[i] = Tail(t)[i - Len(s)]
      BY <1>1, <2>2
    <3>3. (s \o t)[i + 1] = t[i + 1 - Len(s)]
      BY <1>1, <2>2
    <3> QED
      BY <3>1, <3>2, <3>3
  <2> QED
    BY <2>1, <2>2
<1>4. \A i, j \in DOMAIN (s \o Tail(t)) : i < j => f[i] < f[j]
  BY <1>1
<1> HIDE DEF f
<1> QED
  BY <1>2, <1>3, <1>4 DEF Thinned

(* The numbers of an inbox follow its envelopes. *)
LEMMA NumbersType ==
  ASSUME NEW s \in Seq(Envelope)
  PROVE  /\ Numbers(s) \in Seq(1 .. MaxEnvelopes)
         /\ Len(Numbers(s)) = Len(s)
         /\ s # <<>> => Numbers(s) # <<>>
<1>1. \A i \in DOMAIN s : s[i].id \in 1 .. MaxEnvelopes
  <2>1. \A i \in DOMAIN s : s[i] \in Envelope
    OBVIOUS
  <2> QED
    BY <2>1 DEF Envelope
<1>2. DOMAIN s = 1 .. Len(s) /\ Len(s) \in Nat
  OBVIOUS
<1>3. Numbers(s) \in [1 .. Len(s) -> 1 .. MaxEnvelopes]
  BY <1>1, <1>2 DEF Numbers
<1>4. Numbers(s) \in Seq(1 .. MaxEnvelopes)
  <2>1. Seq(1 .. MaxEnvelopes) = UNION {[1 .. n -> 1 .. MaxEnvelopes] : n \in Nat}
    BY SeqDef
  <2>2. [1 .. Len(s) -> 1 .. MaxEnvelopes] \in {[1 .. n -> 1 .. MaxEnvelopes] : n \in Nat}
    BY <1>2
  <2> QED
    BY <1>3, <2>1, <2>2, Zenon
<1>5. Len(Numbers(s)) = Len(s)
  BY <1>2, <1>3, <1>4
<1>6. s # <<>> => Numbers(s) # <<>>
  BY <1>4, <1>5
<1> QED
  BY <1>4, <1>5, <1>6

LEMMA NumbersAppend ==
  ASSUME NEW s \in Seq(Envelope), NEW e \in Envelope
  PROVE  Numbers(Append(s, e)) = Append(Numbers(s), e.id)
  BY DEF Numbers

LEMMA NumbersTail ==
  ASSUME NEW s \in Seq(Envelope), s # <<>>
  PROVE  Head(Numbers(s)) = Head(s).id /\ Tail(Numbers(s)) = Numbers(Tail(s))
  BY DEF Numbers

LEMMA StreamType ==
  ASSUME AgentTypeOK, NEW b \in Agents
  PROVE  /\ Accepted(b) \in Seq(1 .. MaxEnvelopes)
         /\ Numbers(inbox[b]) \in Seq(1 .. MaxEnvelopes)
         /\ Stream(b) \in Seq(1 .. MaxEnvelopes)
<1>1. Numbers(inbox[b]) \in Seq(1 .. MaxEnvelopes)
  BY NumbersType DEF AgentTypeOK
<1>2. done[b] \in Seq(1 .. MaxEnvelopes)
  BY DEF AgentTypeOK
<1>3. Accepted(b) \in Seq(1 .. MaxEnvelopes)
  <2>1. CASE current[b] = None
    BY <1>2, <2>1 DEF Accepted
  <2>2. CASE current[b] # None
    <3>1. current[b].id \in 1 .. MaxEnvelopes
      BY <2>2 DEF AgentTypeOK, Envelope
    <3> QED
      BY <1>2, <2>2, <3>1, AppendType DEF Accepted
  <2> QED
    BY <2>1, <2>2
<1>4. Stream(b) \in Seq(1 .. MaxEnvelopes)
  BY <1>1, <1>3 DEF Stream
<1> QED
  BY <1>1, <1>3, <1>4

(* Taking the first of a stream's inbox, or losing all of it. *)
LEMMA InboxTaken ==
  ASSUME AgentTypeOK, NEW a \in Agents, inbox[a] # <<>>, inbox'[a] = Tail(inbox[a]),
         UNCHANGED <<current[a], done[a]>>
  PROVE  Thinned(Stream(a)', Stream(a))
<1>1. Numbers(inbox[a]) # <<>> /\ Numbers(Tail(inbox[a])) = Tail(Numbers(inbox[a]))
  BY NumbersType, NumbersTail DEF AgentTypeOK
<1>2. Stream(a)' = Accepted(a) \o Tail(Numbers(inbox[a]))
  BY <1>1 DEF Stream, Accepted, Numbers
<1>3. Thinned(Accepted(a) \o Tail(Numbers(inbox[a])), Accepted(a) \o Numbers(inbox[a]))
  BY <1>1, StreamType, ThinnedHead
<1> QED
  BY <1>2, <1>3 DEF Stream

LEMMA InboxLost ==
  ASSUME AgentTypeOK, NEW a \in Agents, inbox'[a] = <<>>, UNCHANGED <<current[a], done[a]>>
  PROVE  Thinned(Stream(a)', Stream(a))
<1>1. Numbers(<<>>) = <<>>
  BY DEF Numbers
<1>2. Stream(a)' = Accepted(a) \o <<>>
  BY <1>1 DEF Stream, Accepted, Numbers
<1>3. Stream(a)' = Accepted(a)
  BY <1>2, StreamType
<1> QED
  BY <1>3, StreamType, ThinnedFirst DEF Stream

LEMMA StreamSame ==
  ASSUME AgentTypeOK, NEW a \in Agents, UNCHANGED <<inbox[a], current[a], done[a]>>
  PROVE  Stream(a)' = Stream(a) /\ Thinned(Stream(a)', Stream(a))
<1>1. Stream(a)' = Stream(a)
  BY DEF Stream, Accepted, Numbers
<1> QED
  BY <1>1, StreamType, ThinnedSame

(* What an agent does with a message takes nothing out of order: it goes    *)
(* from the inbox to handle_message and from there to the handled ones, or  *)
(* leaves the stream.                                                       *)
LEMMA AgentStreams ==
  ASSUME AgentTypeOK, NEW a \in Agents, AgentStep(a), NEW b \in Agents
  PROVE  Thinned(Stream(b)', Stream(b))
<1>1. CASE b # a
  BY <1>1, OthersKeep, StreamSame
<1> SUFFICES ASSUME b = a
             PROVE  Thinned(Stream(a)', Stream(a))
  BY <1>1
<1>2. CASE \/ IdleHaltSignal(a) \/ IdleInboxHalt(a) \/ IdleSignalsClosed(a)
           \/ IdleInboxClosed(a) \/ ResponseFails(a) \/ ExitAfterTask(a)
  <2>1. inbox'[a] = <<>> /\ current' = current /\ done' = done
    BY <1>2 DEF IdleHaltSignal, IdleInboxHalt, IdleSignalsClosed, IdleInboxClosed, ResponseFails,
                ExitAfterTask, Exit, RunHook, historyVars, AgentTypeOK
  <2> QED
    BY <2>1, InboxLost
<1>3. CASE IdleInboxInterrupt(a)
  <2>1. inbox[a] # <<>> /\ inbox'[a] = Tail(inbox[a]) /\ current' = current /\ done' = done
    BY <1>3 DEF IdleInboxInterrupt, HandleWhileIdle, RunHook, AgentTypeOK
  <2> QED
    BY <2>1, InboxTaken
<1>4. CASE AcceptMessage(a)
  <2>1. /\ inbox[a] # <<>> /\ inbox'[a] = Tail(inbox[a]) /\ current[a] = None
        /\ current'[a] = Head(inbox[a]) /\ done' = done
        /\ Head(inbox[a]) \in Envelope
    BY <1>4, ChannelType DEF AcceptMessage, historyVars, AgentTypeOK
  <2>2. /\ Numbers(inbox[a]) # <<>> /\ Head(Numbers(inbox[a])) = Head(inbox[a]).id
        /\ Numbers(Tail(inbox[a])) = Tail(Numbers(inbox[a]))
    BY <2>1, NumbersType, NumbersTail DEF AgentTypeOK
  <2>3. Accepted(a)' = Append(Accepted(a), Head(Numbers(inbox[a])))
    BY <2>1, <2>2, AgentLoopAssumption DEF Accepted
  <2>4. Stream(a)' = Append(Accepted(a), Head(Numbers(inbox[a]))) \o Tail(Numbers(inbox[a]))
    BY <2>1, <2>2, <2>3 DEF Stream, Numbers
  <2>5. Stream(a)' = Stream(a)
    BY <2>2, <2>4, StreamType, MoveOver DEF Stream
  <2> QED
    BY <2>5, StreamType, ThinnedSame
<1>5. CASE FinishMessage(a)
  <2>1. /\ current[a] # None /\ current'[a] = None
        /\ done'[a] = Append(done[a], current[a].id) /\ inbox' = inbox
    BY <1>5 DEF FinishMessage, channelVars, AgentTypeOK
  <2>2. Accepted(a)' = Accepted(a)
    BY <2>1 DEF Accepted
  <2>3. Stream(a)' = Stream(a)
    BY <2>1, <2>2 DEF Stream, Numbers
  <2> QED
    BY <2>3, StreamType, ThinnedSame
<1>6. CASE \/ IdleSignal(a) \/ DeferSignal(a) \/ SpinOnClosedSignals(a) \/ BeginMessage(a)
           \/ WorkUnit(a) \/ SendResponse(a) \/ DrainDeferred(a) \/ SendInterruptReply(a)
           \/ NextIteration(a)
  <2>1. UNCHANGED <<inbox, current, done>>
    BY <1>6 DEF IdleSignal, HandleWhileIdle, RunHook, DeferSignal, SpinOnClosedSignals,
       BeginMessage, WorkUnit, SendResponse, DrainDeferred, SendInterruptReply, NextIteration,
       channelVars, historyVars
  <2> QED
    BY <2>1, StreamSame
<1> QED
  BY <1>2, <1>3, <1>4, <1>5, <1>6 DEF AgentStep

(* One more message in an inbox is one more at the end of the stream. *)
LEMMA StreamGrows ==
  ASSUME AgentTypeOK, NEW a \in Agents, NEW e \in Envelope,
         inbox' = [inbox EXCEPT ![a] = Append(@, e)], UNCHANGED <<current, done>>
  PROVE  /\ Stream(a)' = Append(Stream(a), e.id)
         /\ \A b \in Agents \ {a} : Stream(b)' = Stream(b)
<1>1. inbox[a] \in Seq(Envelope) /\ inbox'[a] = Append(inbox[a], e)
  BY DEF AgentTypeOK
<1>2. Numbers(inbox'[a]) = Append(Numbers(inbox[a]), e.id)
  BY <1>1, NumbersAppend
<1>3. e.id \in 1 .. MaxEnvelopes
  BY DEF Envelope
<1>4. \A s, t \in Seq(1 .. MaxEnvelopes) : s \o Append(t, e.id) = Append(s \o t, e.id)
  BY <1>3, PutLast
<1>5. Stream(a)' = Accepted(a) \o Append(Numbers(inbox[a]), e.id)
  BY <1>2 DEF Stream, Accepted, Numbers
<1>6. Stream(a)' = Append(Stream(a), e.id)
  BY <1>4, <1>5, StreamType DEF Stream
<1>7. \A b \in Agents \ {a} : inbox'[b] = inbox[b]
  BY DEF AgentTypeOK
<1>8. \A b \in Agents \ {a} : Stream(b)' = Stream(b)
  BY <1>7, StreamSame
<1> QED
  BY <1>6, <1>8

-----------------------------------------------------------------------------
(* No id is used twice on its way: it waits in one reply or once in the     *)
(* outbox, is taken once by the router, and reaches no agent before that.   *)
Coming(id) ==
  \/ \E k \in DOMAIN outbox : outbox[k].id = id
  \/ \E a \in Agents : reply[a] # None /\ reply[a].id = id

Taken(id) == \E n \in DOMAIN routed : routed[n] = id

Reached(id) == \E a \in Agents : \E i \in DOMAIN Stream(a) : Stream(a)[i] = id

WaitOnce ==
  /\ \A m, n \in DOMAIN outbox : outbox[m].id = outbox[n].id => m = n
  /\ \A a, b \in Agents :
       reply[a] # None /\ reply[b] # None /\ reply[a].id = reply[b].id => a = b
  /\ \A a \in Agents : reply[a] # None => \A k \in DOMAIN outbox : outbox[k].id # reply[a].id

TakenOnce == \A m, n \in DOMAIN routed : routed[m] = routed[n] => m = n

IdsInv ==
  /\ WaitOnce
  /\ TakenOnce
  /\ \A id \in 1 .. MaxEnvelopes :
       /\ Coming(id) => id <= issued /\ ~ Taken(id) /\ ~ Reached(id)
       /\ Taken(id) \/ Reached(id) => id <= issued

(* What an agent does to the bus. *)
LEMMA AgentBus ==
  ASSUME AgentTypeOK, NEW a \in Agents, AgentStep(a)
  PROVE  \/ UNCHANGED <<outbox, reply, issued>>
         \/ outbox' = outbox /\ reply' = [reply EXCEPT ![a] = None] /\ issued' = issued
         \/ /\ outbox' = outbox /\ issued' = issued + 1
            /\ \E r \in Envelope : r.id = issued + 1 /\ reply' = [reply EXCEPT ![a] = r]
         \/ /\ reply[a] # None /\ outbox' = Append(outbox, reply[a])
            /\ reply' = [reply EXCEPT ![a] = None] /\ issued' = issued
<1>1. CASE \/ IdleHaltSignal(a) \/ IdleInboxHalt(a) \/ IdleSignalsClosed(a)
           \/ IdleInboxClosed(a) \/ ResponseFails(a) \/ ExitAfterTask(a)
  BY <1>1 DEF IdleHaltSignal, IdleInboxHalt, IdleSignalsClosed, IdleInboxClosed, ResponseFails,
              ExitAfterTask, Exit
<1>2. CASE \/ AcceptMessage(a) \/ DeferSignal(a) \/ SpinOnClosedSignals(a) \/ BeginMessage(a)
           \/ WorkUnit(a) \/ NextIteration(a)
  BY <1>2 DEF AcceptMessage, DeferSignal, SpinOnClosedSignals, BeginMessage, WorkUnit,
              NextIteration, channelVars
<1>3. CASE SendResponse(a) \/ SendInterruptReply(a)
  <2>1. reply[a] # None
    BY <1>3 DEF SendResponse, SendInterruptReply, AgentTypeOK
  <2> QED
    BY <1>3, <2>1 DEF SendResponse, SendInterruptReply, SendToOutbox
<1>4. ASSUME NEW waiting, NEW next, Answer(a, waiting, next), UNCHANGED outbox
      PROVE  \/ outbox' = outbox /\ reply' = [reply EXCEPT ![a] = None] /\ issued' = issued
             \/ /\ outbox' = outbox /\ issued' = issued + 1
                /\ \E r \in Envelope : r.id = issued + 1 /\ reply' = [reply EXCEPT ![a] = r]
  <2>1. PICK r \in Response :
          /\ reply' = [reply EXCEPT ![a] = r]
          /\ issued' = IF r = None THEN issued ELSE issued + 1
    BY <1>4 DEF Answer
  <2>2. CASE r = None
    BY <1>4, <2>1, <2>2
  <2>3. CASE r # None
    <3>1. r \in Envelope
      BY <2>3, ResponseType
    <3>2. r.id = issued + 1
      BY <2>3 DEF Response, NewEnvelope
    <3> QED
      BY <1>4, <2>1, <2>3, <3>1, <3>2
  <2> QED
    BY <2>2, <2>3
<1>5. CASE IdleSignal(a) \/ IdleInboxInterrupt(a)
  BY <1>4, <1>5 DEF IdleSignal, IdleInboxInterrupt, HandleWhileIdle, Proceed
<1>6. CASE FinishMessage(a)
  BY <1>4, <1>6 DEF FinishMessage, channelVars
<1>7. CASE DrainDeferred(a)
  BY <1>4, <1>7 DEF DrainDeferred, channelVars, Proceed
<1> QED
  BY <1>1, <1>2, <1>3, <1>5, <1>6, <1>7 DEF AgentStep

LEMMA ThinnedReached ==
  ASSUME \A a \in Agents : Thinned(Stream(a)', Stream(a)), NEW id, Reached(id)'
  PROVE  Reached(id)
<1>1. PICK a \in Agents : \E i \in DOMAIN Stream(a)' : Stream(a)'[i] = id
  BY DEF Reached
<1>2. PICK i \in DOMAIN Stream(a)' : Stream(a)'[i] = id
  BY <1>1
<1>3. \E j \in DOMAIN Stream(a) : Stream(a)'[i] = Stream(a)[j]
  BY <1>2 DEF Thinned
<1> QED
  BY <1>2, <1>3 DEF Reached

LEMMA AgentIds ==
  ASSUME IInv, IdsInv, NEW a \in Agents, AgentStep(a), UNCHANGED engineVars
  PROVE  IdsInv'
<1> USE DEF IInv, TypeOK
<1>1. \A id \in 1 .. MaxEnvelopes : Reached(id)' => Reached(id)
  BY AgentStreams, ThinnedReached
<1>2. /\ reply \in [Agents -> Envelope \cup {None}] /\ outbox \in Seq(Envelope)
      /\ issued \in Nat /\ routed' = routed
  BY AgentLoopAssumption DEF AgentTypeOK, engineVars
<1>3. TakenOnce' /\ \A id \in 1 .. MaxEnvelopes : Taken(id)' <=> Taken(id)
  BY <1>2 DEF IdsInv, TakenOnce, Taken
<1>4. CASE UNCHANGED <<outbox, reply, issued>>
  BY <1>1, <1>3, <1>4 DEF IdsInv, WaitOnce, Coming
<1>5. CASE outbox' = outbox /\ reply' = [reply EXCEPT ![a] = None] /\ issued' = issued
  BY <1>1, <1>2, <1>3, <1>5 DEF IdsInv, WaitOnce, Coming
<1>6. CASE /\ outbox' = outbox /\ issued' = issued + 1
           /\ \E r \in Envelope : r.id = issued + 1 /\ reply' = [reply EXCEPT ![a] = r]
  <2>1. PICK r \in Envelope : r.id = issued + 1 /\ reply' = [reply EXCEPT ![a] = r]
    BY <1>6
  <2>2. \A b \in Agents : reply'[b] = IF b = a THEN r ELSE reply[b]
    BY <1>2, <2>1
  <2>3. \A k \in DOMAIN outbox : outbox[k].id <= issued /\ outbox[k].id # issued + 1
    <3>1. \A k \in DOMAIN outbox : outbox[k].id \in 1 .. MaxEnvelopes
      <4>1. \A k \in DOMAIN outbox : outbox[k] \in Envelope
        BY <1>2
      <4> QED
        BY <4>1 DEF Envelope
    <3> QED
      BY <1>2, <3>1 DEF IdsInv, Coming
  <2>4. \A b \in Agents : reply[b] # None => reply[b].id <= issued /\ reply[b].id # issued + 1
    <3>1. \A b \in Agents : reply[b] # None => reply[b].id \in 1 .. MaxEnvelopes
      BY <1>2 DEF Envelope
    <3> QED
      BY <1>2, <3>1 DEF IdsInv, Coming
  <2>5. WaitOnce'
    BY <1>6, <2>1, <2>2, <2>3, <2>4 DEF IdsInv, WaitOnce
  <2>6. \A id \in 1 .. MaxEnvelopes : Coming(id)' => Coming(id) \/ id = issued + 1
    BY <1>6, <2>1, <2>2 DEF Coming
  <2> QED
    BY <1>1, <1>2, <1>3, <1>6, <2>5, <2>6 DEF IdsInv
<1>7. CASE /\ reply[a] # None /\ outbox' = Append(outbox, reply[a])
           /\ reply' = [reply EXCEPT ![a] = None] /\ issued' = issued
  <2>1. \A b \in Agents : reply'[b] = IF b = a THEN None ELSE reply[b]
    BY <1>2, <1>7
  <2>2. /\ DOMAIN outbox' = 1 .. Len(outbox) + 1 /\ DOMAIN outbox = 1 .. Len(outbox)
        /\ Len(outbox) \in Nat
        /\ \A k \in DOMAIN outbox' :
             IF k \in DOMAIN outbox THEN outbox'[k] = outbox[k]
                                    ELSE k = Len(outbox) + 1 /\ outbox'[k] = reply[a]
    BY <1>2, <1>7
  <2>3. WaitOnce'
    BY <1>7, <2>1, <2>2 DEF IdsInv, WaitOnce
  <2>4. \A id \in 1 .. MaxEnvelopes : Coming(id)' => Coming(id)
    BY <1>7, <2>1, <2>2 DEF Coming
  <2> QED
    BY <1>1, <1>3, <1>7, <2>3, <2>4 DEF IdsInv
<1> QED
  BY <1>4, <1>5, <1>6, <1>7, AgentBus

-----------------------------------------------------------------------------
(* The order of a stream: what the router took later comes later in it.     *)
InOrder(s, r) ==
  \A i, j \in DOMAIN s : i < j =>
    \A m, n \in DOMAIN r : r[m] = s[i] /\ r[n] = s[j] => m < n

(* The agents that are still to be given the message being routed. *)
Awaits(a) ==
  \/ epc = "delivering" /\ target = a
  \/ epc = "broadcasting" /\ (a \in todo \/ target = a)

OrderInv ==
  /\ \A a \in Agents : InOrder(Stream(a), routed)
  /\ epc \in {"delivering", "broadcasting"} =>
       routed # <<>> /\ routing.id = routed[Len(routed)]
  /\ \A a \in Agents : Awaits(a) => \A i \in DOMAIN Stream(a) : Stream(a)[i] # routing.id

BusInv == IdsInv /\ OrderInv

LEMMA OrderThinned ==
  ASSUME NEW s, NEW t, NEW r, InOrder(s, r), Thinned(t, s)
  PROVE  InOrder(t, r)
  BY DEF InOrder, Thinned

LEMMA OrderAppend ==
  ASSUME NEW S, NEW s \in Seq(S), NEW r \in Seq(S), NEW x \in S, InOrder(s, r),
         \/ /\ r # <<>> /\ x = r[Len(r)] /\ \A i \in DOMAIN s : s[i] # x
            /\ \A m, n \in DOMAIN r : r[m] = r[n] => m = n
         \/ \A n \in DOMAIN r : r[n] # x
  PROVE  InOrder(Append(s, x), r)
<1>1. /\ DOMAIN Append(s, x) = 1 .. Len(s) + 1 /\ DOMAIN s = 1 .. Len(s) /\ Len(s) \in Nat
      /\ \A i \in DOMAIN s : Append(s, x)[i] = s[i]
      /\ Append(s, x)[Len(s) + 1] = x
      /\ DOMAIN r = 1 .. Len(r) /\ Len(r) \in Nat
  OBVIOUS
<1> SUFFICES ASSUME NEW i \in DOMAIN Append(s, x), NEW j \in DOMAIN Append(s, x), i < j,
                    NEW m \in DOMAIN r, NEW n \in DOMAIN r,
                    r[m] = Append(s, x)[i], r[n] = Append(s, x)[j]
             PROVE  m < n
  BY DEF InOrder
<1>2. i \in DOMAIN s
  BY <1>1
<1>3. CASE j \in DOMAIN s
  BY <1>1, <1>2, <1>3 DEF InOrder
<1>4. CASE j = Len(s) + 1
  <2>1. r[n] = x /\ r[m] = s[i]
    BY <1>1, <1>2, <1>4
  <2>2. r # <<>> /\ x = r[Len(r)] /\ r[m] # x
    BY <1>2, <2>1
  <2>3. Len(r) \in DOMAIN r
    BY <1>1, <2>2
  <2>4. n = Len(r)
    BY <2>1, <2>2, <2>3
  <2> QED
    BY <1>1, <2>1, <2>2, <2>4
<1> QED
  BY <1>1, <1>3, <1>4

LEMMA OrderTaken ==
  ASSUME NEW S, NEW s \in Seq(S), NEW r \in Seq(S), NEW x \in S, InOrder(s, r),
         \A i \in DOMAIN s : s[i] # x
  PROVE  InOrder(s, Append(r, x))
<1>1. /\ DOMAIN Append(r, x) = 1 .. Len(r) + 1 /\ DOMAIN r = 1 .. Len(r) /\ Len(r) \in Nat
      /\ \A i \in DOMAIN r : Append(r, x)[i] = r[i]
      /\ Append(r, x)[Len(r) + 1] = x
  OBVIOUS
<1> QED
  BY <1>1 DEF InOrder

LEMMA AgentOrder ==
  ASSUME IInv, OrderInv, NEW a \in Agents, AgentStep(a), UNCHANGED engineVars
  PROVE  OrderInv'
<1>1. \A b \in Agents : Thinned(Stream(b)', Stream(b))
  BY AgentStreams DEF IInv, TypeOK
<1>2. UNCHANGED <<routed, routing, epc, target, todo>>
  BY DEF engineVars
<1>3. \A b \in Agents : InOrder(Stream(b)', routed)
  BY <1>1, OrderThinned DEF OrderInv
<1>4. ASSUME NEW b \in Agents, Awaits(b)', NEW i \in DOMAIN Stream(b)'
      PROVE  Stream(b)'[i] # routing.id
  <2>1. \E j \in DOMAIN Stream(b) : Stream(b)'[i] = Stream(b)[j]
    BY <1>1, <1>4 DEF Thinned
  <2>2. Awaits(b)
    BY <1>2, <1>4 DEF Awaits
  <2> QED
    BY <2>1, <2>2 DEF OrderInv
<1> QED
  BY <1>2, <1>3, <1>4 DEF OrderInv, InOrder

(* Steps that touch neither the bus nor the inboxes. *)
LEMMA StreamsSame ==
  ASSUME AgentTypeOK, UNCHANGED <<inbox, taskVars, historyVars>>
  PROVE  /\ \A a \in Agents : Stream(a)' = Stream(a)
         /\ \A id : Reached(id)' <=> Reached(id)
<1>1. UNCHANGED <<current, done>>
  BY DEF taskVars, historyVars
<1>2. \A a \in Agents : Stream(a)' = Stream(a)
  BY <1>1, StreamSame
<1> QED
  BY <1>2 DEF Reached

LEMMA QuietBus ==
  ASSUME IInv, BusInv,
         UNCHANGED <<inbox, outbox, taskVars, issued, historyVars, routed>>,
         epc' \in {"delivering", "broadcasting"} =>
           epc \in {"delivering", "broadcasting"} /\ routing' = routing,
         \A a \in Agents : Awaits(a)' => Awaits(a)
  PROVE  BusInv'
<1>1. /\ \A a \in Agents : Stream(a)' = Stream(a)
      /\ \A id \in 1 .. MaxEnvelopes : Reached(id)' <=> Reached(id)
  BY StreamsSame DEF IInv, TypeOK
<1>2. reply' = reply
  BY DEF taskVars
<1>3. IdsInv'
  BY <1>1, <1>2 DEF BusInv, IdsInv, WaitOnce, TakenOnce, Coming, Taken
<1>4. \A a \in Agents : Awaits(a)' => routing' = routing
  BY DEF Awaits
<1>5. OrderInv'
  BY <1>1, <1>4 DEF BusInv, OrderInv, InOrder
<1> QED
  BY <1>3, <1>5 DEF BusInv

(* The router takes the next envelope: its id was nowhere but in the outbox.*)
LEMMA ReceiveBus ==
  ASSUME IInv, BusInv, Receive, UNCHANGED <<inbox, taskVars, issued, historyVars>>,
         epc' \in {"delivering", "broadcasting"} => routing' = Incoming
  PROVE  BusInv'
<1> DEFINE x == Incoming.id
<1>1. /\ outbox \in Seq(Envelope) /\ outbox # <<>> /\ outbox' = Tail(outbox)
      /\ routed' = Append(routed, x) /\ routed \in Seq(1 .. MaxEnvelopes)
      /\ Incoming \in Envelope
  BY ReceiveType DEF Receive, IInv, TypeOK, AgentTypeOK
<1>2. x \in 1 .. MaxEnvelopes /\ x = outbox[1].id /\ 1 \in DOMAIN outbox
  BY <1>1 DEF Incoming, Envelope
<1> HIDE DEF x
<1>3. /\ \A a \in Agents : Stream(a)' = Stream(a)
      /\ \A id : Reached(id)' <=> Reached(id)
  BY StreamsSame DEF IInv, TypeOK
<1>4. reply' = reply
  BY DEF taskVars
<1>5. x <= issued /\ ~ Taken(x) /\ ~ Reached(x)
  BY <1>2 DEF BusInv, IdsInv, Coming
<1>6. /\ DOMAIN outbox' = 1 .. Len(outbox) - 1 /\ DOMAIN outbox = 1 .. Len(outbox)
      /\ Len(outbox) \in Nat
      /\ \A k \in DOMAIN outbox' : k + 1 \in DOMAIN outbox /\ outbox'[k] = outbox[k + 1]
  BY <1>1
<1>7. /\ DOMAIN routed' = 1 .. Len(routed) + 1 /\ DOMAIN routed = 1 .. Len(routed)
      /\ Len(routed) \in Nat
      /\ \A n \in DOMAIN routed : routed'[n] = routed[n]
      /\ routed'[Len(routed) + 1] = x
      /\ routed' # <<>> /\ Len(routed') = Len(routed) + 1
  BY <1>1, <1>2
<1>8. IdsInv'
  <2>1. WaitOnce'
    <3>1. \A m, n \in DOMAIN outbox' : outbox'[m].id = outbox'[n].id => m = n
      BY <1>6 DEF BusInv, IdsInv, WaitOnce
    <3> QED
      BY <1>4, <1>6, <3>1 DEF BusInv, IdsInv, WaitOnce
  <2>2. TakenOnce'
    <3>1. \A n \in DOMAIN routed : routed[n] # x
      BY <1>5 DEF Taken
    <3> QED
      BY <1>7, <3>1 DEF BusInv, IdsInv, TakenOnce
  <2>3. ASSUME NEW id \in 1 .. MaxEnvelopes
        PROVE  /\ Coming(id)' => Coming(id) /\ id # x
               /\ Taken(id)' => Taken(id) \/ id = x
    <3>1. ASSUME NEW k \in DOMAIN outbox', outbox'[k].id = id
          PROVE  Coming(id) /\ id # x
      <4>1. k + 1 \in DOMAIN outbox /\ outbox[k + 1].id = id /\ k + 1 # 1
        BY <1>6, <3>1
      <4> QED
        BY <1>2, <4>1 DEF Coming, BusInv, IdsInv, WaitOnce
    <3>2. ASSUME NEW a \in Agents, reply[a] # None, reply[a].id = id
          PROVE  Coming(id) /\ id # x
      BY <1>2, <3>2 DEF Coming, BusInv, IdsInv, WaitOnce
    <3>3. Coming(id)' => Coming(id) /\ id # x
      BY <1>4, <3>1, <3>2 DEF Coming
    <3>4. Taken(id)' => Taken(id) \/ id = x
      BY <1>7 DEF Taken
    <3> QED
      BY <3>3, <3>4
  <2> QED
    BY <1>3, <1>5, <2>1, <2>2, <2>3 DEF BusInv, IdsInv
<1>9. \A a \in Agents : \A i \in DOMAIN Stream(a) : Stream(a)[i] # x
  BY <1>5 DEF Reached
<1>10. OrderInv'
  <2>1. \A a \in Agents : InOrder(Stream(a)', routed')
    <3> SUFFICES ASSUME NEW a \in Agents
                 PROVE  InOrder(Stream(a), Append(routed, x))
      BY <1>1, <1>3
    <3>1. Stream(a) \in Seq(1 .. MaxEnvelopes) /\ InOrder(Stream(a), routed)
      BY StreamType DEF IInv, TypeOK, BusInv, OrderInv
    <3> QED
      BY <1>1, <1>2, <1>9, <3>1, OrderTaken
  <2>2. epc' \in {"delivering", "broadcasting"} => routing'.id = x
    BY DEF x
  <2>3. \A a \in Agents : Awaits(a)' => routing'.id = x
    BY <2>2 DEF Awaits
  <2> QED
    BY <1>3, <1>7, <1>9, <2>1, <2>2, <2>3 DEF OrderInv, InOrder
<1> QED
  BY <1>8, <1>10 DEF BusInv

(* A message put at the end of one agent's stream: the one being routed, to *)
(* an agent that still awaits it, or one the bus has never seen.            *)
LEMMA PutBus ==
  ASSUME IInv, BusInv, NEW a \in Agents, NEW e \in Envelope,
         inbox' = [inbox EXCEPT ![a] = Append(@, e)],
         UNCHANGED <<outbox, taskVars, historyVars, routed>>,
         \/ Awaits(a) /\ e.id = routing.id /\ issued' = issued
         \/ e.id = issued + 1 /\ issued' = issued + 1,
         epc' \in {"delivering", "broadcasting"} =>
           epc \in {"delivering", "broadcasting"} /\ routing' = routing,
         \A b \in Agents : Awaits(b)' => Awaits(b) /\ b # a /\ routing' = routing
  PROVE  BusInv'
<1>1. UNCHANGED <<current, done, reply>>
  BY DEF taskVars, historyVars
<1>2. /\ Stream(a)' = Append(Stream(a), e.id)
      /\ \A b \in Agents \ {a} : Stream(b)' = Stream(b)
  BY <1>1, StreamGrows DEF IInv, TypeOK
<1>3. /\ Stream(a) \in Seq(1 .. MaxEnvelopes) /\ e.id \in 1 .. MaxEnvelopes
      /\ routed \in Seq(1 .. MaxEnvelopes) /\ issued \in Nat
      /\ InOrder(Stream(a), routed)
  <2>1. AgentTypeOK /\ routed \in Seq(1 .. MaxEnvelopes)
    BY DEF IInv, TypeOK
  <2>2. Stream(a) \in Seq(1 .. MaxEnvelopes)
    BY <2>1, StreamType
  <2>3. e.id \in 1 .. MaxEnvelopes
    BY DEF Envelope
  <2>4. issued \in Nat
    BY <2>1, AgentLoopAssumption DEF AgentTypeOK
  <2>5. InOrder(Stream(a), routed)
    BY DEF BusInv, OrderInv
  <2> QED
    BY <2>1, <2>2, <2>3, <2>4, <2>5
<1>4. \/ /\ routed # <<>> /\ e.id = routed[Len(routed)] /\ issued' = issued
         /\ \A i \in DOMAIN Stream(a) : Stream(a)[i] # e.id
      \/ e.id = issued + 1 /\ issued' = issued + 1 /\ \A n \in DOMAIN routed : routed[n] # e.id
  <2>1. CASE Awaits(a) /\ e.id = routing.id /\ issued' = issued
    BY <2>1 DEF Awaits, BusInv, OrderInv
  <2>2. CASE e.id = issued + 1 /\ issued' = issued + 1
    BY <1>3, <2>2 DEF BusInv, IdsInv, Taken
  <2> QED
    BY <2>1, <2>2
<1>5. InOrder(Stream(a)', routed)
  <2>1. \A m, n \in DOMAIN routed : routed[m] = routed[n] => m = n
    BY DEF BusInv, IdsInv, TakenOnce
  <2>2. InOrder(Append(Stream(a), e.id), routed)
    BY <1>3, <1>4, <2>1, OrderAppend
  <2> QED
    BY <1>2, <2>2
<1>6. IdsInv'
  <2>1. WaitOnce' /\ TakenOnce'
    BY <1>1 DEF BusInv, IdsInv, WaitOnce, TakenOnce
  <2>2. \A id \in 1 .. MaxEnvelopes : /\ Coming(id)' <=> Coming(id)
                                      /\ Taken(id)' <=> Taken(id)
    BY <1>1 DEF Coming, Taken
  <2>3. ASSUME NEW id, Reached(id)'
        PROVE  Reached(id) \/ id = e.id
    <3>1. PICK b \in Agents : \E i \in DOMAIN Stream(b)' : Stream(b)'[i] = id
      BY <2>3 DEF Reached
    <3>2. CASE b # a
      BY <1>2, <3>1, <3>2 DEF Reached
    <3>3. CASE b = a
      <4>1. PICK i \in DOMAIN Append(Stream(a), e.id) : Append(Stream(a), e.id)[i] = id
        BY <1>2, <3>1, <3>3
      <4>2. \/ i \in DOMAIN Stream(a) /\ Append(Stream(a), e.id)[i] = Stream(a)[i]
            \/ Append(Stream(a), e.id)[i] = e.id
        BY <1>3
      <4> QED
        BY <4>1, <4>2 DEF Reached
    <3> QED
      BY <3>2, <3>3
  <2>4. Taken(e.id) \/ (e.id = issued + 1 /\ issued' = issued + 1)
    <3>1. CASE routed # <<>> /\ e.id = routed[Len(routed)]
      <4>1. Len(routed) \in DOMAIN routed
        BY <1>3, <3>1
      <4> QED
        BY <3>1, <4>1 DEF Taken
    <3> QED
      BY <1>4, <3>1
  <2>5. issued' \in {issued, issued + 1}
    BY <1>4
  <2> QED
    BY <1>3, <2>1, <2>2, <2>3, <2>4, <2>5 DEF BusInv, IdsInv
<1>7. OrderInv'
  <2>1. \A b \in Agents : InOrder(Stream(b)', routed)
    BY <1>2, <1>5 DEF BusInv, OrderInv
  <2>2. \A b \in Agents : Awaits(b)' => \A i \in DOMAIN Stream(b)' : Stream(b)'[i] # routing'.id
    BY <1>2 DEF BusInv, OrderInv
  <2> QED
    BY <2>1, <2>2 DEF BusInv, OrderInv, InOrder
<1> QED
  BY <1>6, <1>7 DEF BusInv

(* The router's message reaches the end of an inbox, unless its task ended. *)
LEMMA DeliverBus ==
  ASSUME IInv, BusInv, NEW a \in Agents, Awaits(a), SendInbox(a),
         UNCHANGED <<outbox, taskVars, historyVars, issued, routed>>,
         epc' \in {"delivering", "broadcasting"} =>
           epc \in {"delivering", "broadcasting"} /\ routing' = routing,
         \A b \in Agents : Awaits(b)' => Awaits(b) /\ b # a /\ routing' = routing
  PROVE  BusInv'
<1>1. CASE UNCHANGED inbox
  BY <1>1, QuietBus
<1>2. CASE inbox' = [inbox EXCEPT ![a] = Append(@, [routing EXCEPT !.to = a])]
  <2> DEFINE e == [routing EXCEPT !.to = a]
  <2>1. routing \in Envelope
    BY DEF Awaits, IInv, TypeOK, RouterInv
  <2>2. e \in Envelope /\ e.id = routing.id
    BY <2>1 DEF Envelope
  <2> HIDE DEF e
  <2>3. inbox' = [inbox EXCEPT ![a] = Append(@, e)]
    BY <1>2 DEF e
  <2> QED
    BY <2>2, <2>3, PutBus
<1> QED
  BY <1>1, <1>2 DEF SendInbox

LEMMA NextBus ==
  ASSUME IInv, BusInv, [Next]_vars
  PROVE  BusInv'
<1>1. CASE UNCHANGED vars
  BY <1>1, QuietBus DEF vars, agentVars, channelVars, engineVars, Awaits
<1>2. ASSUME NEW a \in Agents, AgentStep(a), UNCHANGED engineVars
      PROVE  BusInv'
  BY <1>2, AgentIds, AgentOrder DEF BusInv
<1>3. CASE RouteSignal \/ LogSignal \/ RouteShutdown \/ RouteDirected \/ RouteBroadcast
  <2>1. Receive /\ UNCHANGED <<inbox, taskVars, issued, historyVars>>
    BY <1>3 DEF RouteSignal, LogSignal, RouteShutdown, RouteDirected, RouteBroadcast
  <2>2. epc' \in {"delivering", "broadcasting"} => routing' = Incoming
    BY <1>3 DEF RouteSignal, LogSignal, RouteShutdown, RouteDirected, RouteBroadcast, Receive
  <2> QED
    BY <2>1, <2>2, ReceiveBus
<1>4. CASE Deliver
  <2>1. target \in Agents /\ Awaits(target)
    BY <1>4 DEF Deliver, Awaits, IInv, RouterInv
  <2>2. \A b \in Agents : ~ Awaits(b)'
    BY <1>4 DEF Deliver, Awaits
  <2> QED
    BY <1>4, <2>1, <2>2, DeliverBus DEF Deliver
<1>5. CASE DeliverCopy
  <2>1. target \in Agents /\ Awaits(target)
    BY <1>5 DEF DeliverCopy, Awaits, IInv, TypeOK
  <2>2. \A b \in Agents : Awaits(b)' => Awaits(b) /\ b # target
    BY <1>5, SwarmAssumption DEF DeliverCopy, Awaits, IInv, RouterInv
  <2> QED
    BY <1>5, <2>1, <2>2, DeliverBus DEF DeliverCopy
<1>6. ASSUME NEW a \in Agents, SendTo(a)
      PROVE  BusInv'
  <2> DEFINE e == NewEnvelope([kind |-> "data", to |-> a])
  <2>1. issued \in Nat /\ issued < MaxEnvelopes
    BY <1>6, AgentLoopAssumption DEF SendTo, IInv, TypeOK, AgentTypeOK
  <2>2. e \in Envelope /\ e.id = issued + 1
    BY <2>1, AgentLoopAssumption DEF NewEnvelope, Envelope, Kind
  <2> HIDE DEF e
  <2>3. inbox' = [inbox EXCEPT ![a] = Append(@, e)] /\ issued' = issued + 1
    BY <1>6 DEF SendTo, e
  <2>4. UNCHANGED <<outbox, taskVars, historyVars, routed, epc>> /\ epc = "setup"
    BY <1>6 DEF SendTo, engineVars
  <2>5. \A b \in Agents : ~ Awaits(b)'
    BY <2>4 DEF Awaits
  <2> QED
    BY <2>2, <2>3, <2>4, <2>5, PutBus
<1>7. CASE NextTarget
  <2>1. \A b \in Agents : Awaits(b)' => Awaits(b)
    BY <1>7 DEF NextTarget, Awaits
  <2> QED
    BY <1>7, <2>1, QuietBus DEF NextTarget, agentVars, channelVars
<1>8. CASE \/ \E a \in Agents : Spawn(a)
           \/ Run \/ ForwardSignal \/ BroadcastDone
           \/ SendHalt \/ HaltsSent \/ GraceOver \/ DropHandle \/ Stopped \/ DropEarly
  <2>1. /\ UNCHANGED <<inbox, outbox, taskVars, issued, historyVars, routed>>
        /\ epc' \notin {"delivering", "broadcasting"}
    BY <1>8 DEF Spawn, Run, ForwardSignal, BroadcastDone, SendHalt, HaltsSent, GraceOver,
                DropHandle, Stopped, DropEarly, agentVars, channelVars
  <2>2. \A b \in Agents : ~ Awaits(b)'
    BY <2>1 DEF Awaits
  <2> QED
    BY <2>1, <2>2, QuietBus
<1>9. CASE DropEngine \/ DroppedEarly
  <2>1. /\ outbox' = <<>>
        /\ UNCHANGED <<inbox, taskVars, issued, historyVars, routing, target, todo, routed>>
        /\ epc' \notin {"delivering", "broadcasting"}
    BY <1>9 DEF DropEngine, DroppedEarly, engineVars
  <2>2. /\ \A a \in Agents : Stream(a)' = Stream(a)
        /\ \A id \in 1 .. MaxEnvelopes : Reached(id)' <=> Reached(id)
    BY <2>1, StreamsSame DEF IInv, TypeOK
  <2>3. UNCHANGED <<reply, routed>> /\ DOMAIN outbox' = {}
    BY <2>1 DEF taskVars
  <2>4. IdsInv'
    BY <2>1, <2>2, <2>3 DEF BusInv, IdsInv, WaitOnce, TakenOnce, Coming, Taken
  <2>5. OrderInv'
    BY <2>1, <2>2, <2>3 DEF BusInv, OrderInv, InOrder, Awaits
  <2> QED
    BY <2>4, <2>5 DEF BusInv
<1> QED
  BY <1>1, <1>2, <1>3, <1>4, <1>5, <1>6, <1>7, <1>8, <1>9 DEF Next, EngineStep

LEMMA InitBus == Init => BusInv
<1> SUFFICES ASSUME Init
             PROVE  BusInv
  OBVIOUS
<1>1. /\ outbox = <<>> /\ routed = <<>> /\ epc = "setup"
      /\ \A a \in Agents : reply[a] = None /\ inbox[a] = <<>> /\ done[a] = <<>> /\ current[a] = None
  BY DEF Init, AgentInit
<1>2. \A a \in Agents : Stream(a) = <<>>
  <2>1. \A a \in Agents : Accepted(a) = <<>> /\ Numbers(inbox[a]) = <<>>
    BY <1>1 DEF Accepted, Numbers
  <2> QED
    BY <2>1 DEF Stream
<1>3. IdsInv
  BY <1>1, <1>2 DEF IdsInv, WaitOnce, TakenOnce, Coming, Taken, Reached
<1>4. OrderInv
  BY <1>1, <1>2 DEF OrderInv, InOrder, Awaits
<1> QED
  BY <1>3, <1>4 DEF BusInv

(* What an agent has handled is the beginning of its stream. *)
LEMMA BusOrdered ==
  ASSUME IInv, BusInv
  PROVE  BusOrder
<1> SUFFICES ASSUME NEW a \in Agents, NEW i \in DOMAIN done[a], NEW j \in DOMAIN done[a], i < j,
                    NEW m \in DOMAIN routed, NEW n \in DOMAIN routed,
                    routed[m] = done[a][i], routed[n] = done[a][j]
             PROVE  m < n
  BY DEF BusOrder
<1>1. AgentTypeOK
  BY DEF IInv, TypeOK
<1>2. done[a] \in Seq(1 .. MaxEnvelopes)
  BY <1>1 DEF AgentTypeOK
<1>3. \A k \in DOMAIN done[a] : k \in DOMAIN Accepted(a) /\ Accepted(a)[k] = done[a][k]
  <2>1. CASE current[a] = None
    BY <2>1 DEF Accepted
  <2>2. CASE current[a] # None
    BY <1>1, <1>2, <2>2 DEF Accepted
  <2> QED
    BY <2>1, <2>2
<1>4. \A k \in DOMAIN Accepted(a) : k \in DOMAIN Stream(a) /\ Stream(a)[k] = Accepted(a)[k]
  BY <1>1, StreamType DEF Stream
<1>5. InOrder(Stream(a), routed)
  BY DEF BusInv, OrderInv
<1> QED
  BY <1>3, <1>4, <1>5 DEF InOrder

(* Whatever the interleaving of agents and router, and however messages     *)
(* reach them, an agent handles those of the bus in the order the routing   *)
(* loop took them off the outbox (engine.rs:173-239).                       *)
THEOREM BusIsOrdered == Spec => []BusOrder
<1>1. Init => BusInv
  BY InitBus
<1>2. IInv /\ BusInv /\ [Next]_vars => BusInv'
  BY NextBus
<1>3. IInv /\ BusInv => BusOrder
  BY BusOrdered
<1> QED
  BY <1>1, <1>2, <1>3, Invariance, PTL DEF Spec
=============================================================================
