------------------------------ MODULE AgentLoop ------------------------------
(***************************************************************************)
(* The event loop that spawn_agent starts for every agent                  *)
(* (src/actor/agent.rs): the idle phase waiting on two bounded channels,    *)
(* the processing phase that races handle_message against the signal       *)
(* channel, and the post-processing of the signals deferred meanwhile.     *)
(*                                                                         *)
(* The module holds the agents' own steps only. Who sends on the channels, *)
(* drains the outbox and drops the handles is the business of the modules  *)
(* that extend it: AgentHost (a caller that owns the handles) and          *)
(* SwarmEngine (the message router).                                       *)
(*                                                                         *)
(* A step is what the task does between two awaits. Every select! is       *)
(* biased: the signal channel is looked at first.                          *)
(***************************************************************************)
EXTENDS Naturals, Sequences, FiniteSets

CONSTANTS
  Agents,          (* the agents of the swarm                                *)
  Everyone,        (* the "to" of a broadcast envelope                       *)
  None,            (* no envelope                                            *)
  InboxCapacity,   (* inbox_capacity of spawn_agent                          *)
  SignalCapacity,  (* the 16 of the signal channel                           *)
  OutboxCapacity,  (* outbox_capacity of the shared outbox                   *)
  WorkUnits,       (* work units of one handle_message                       *)
  MaxEnvelopes,    (* bound: envelopes ever created                          *)
  Replies          (* payloads an agent may return from a handler            *)

Kind == {"data", "interrupt", "halt", "shutdown", "notice"}
Payload == [kind : Kind, to : Agents \cup {Everyone}]
Envelope == [id : 1 .. MaxEnvelopes, kind : Kind, to : Agents \cup {Everyone}]

ASSUME AgentLoopAssumption ==
  /\ InboxCapacity \in Nat \ {0}
  /\ SignalCapacity \in Nat \ {0}
  /\ OutboxCapacity \in Nat \ {0}
  /\ WorkUnits \in Nat \ {0}
  /\ MaxEnvelopes \in Nat
  /\ Replies \subseteq Payload
  /\ None \notin Envelope

VARIABLES
  inbox,           (* inbox_rx of each agent                                 *)
  signals,         (* signal_rx of each agent                                *)
  handle,          (* "open", "closing" (inbox sender dropped) or "closed"   *)
  outbox,          (* the shared outbox channel                              *)
  outboxOpen,      (* its receiver is alive                                  *)
  pc,              (* where each agent's task is                             *)
  current,         (* the envelope handle_message works on                   *)
  work,            (* work units of handle_message begun                     *)
  cancelToken,     (* the Arc<AtomicBool> of cancel_token()                  *)
  deferred,        (* deferred_signals                                       *)
  unseen,          (* history: signals deferred before the first poll        *)
  shouldShutdown,  (* should_shutdown                                        *)
  reply,           (* response waiting for room in the outbox                *)
  issued,          (* history: envelopes created so far (the next id)        *)
  acted,           (* history: ids of control signals acted on, in order     *)
  done,            (* history: ids of messages handled, in order             *)
  halted           (* history: shutdown() has been called                    *)

channelVars == <<inbox, signals, handle, outbox, outboxOpen>>
taskVars == <<pc, current, work, cancelToken, deferred, unseen, shouldShutdown, reply>>
historyVars == <<acted, done, halted>>
agentVars == <<channelVars, taskVars, issued, historyVars>>

Phase == {"idle", "idleReply", "accepted", "working", "responding",
          "draining", "drainReply", "exited"}

IsControlSignal(env) == env.kind \in {"interrupt", "halt", "shutdown"}
IsHaltOrShutdown(env) == env.kind \in {"halt", "shutdown"}

(* Envelope::new: every envelope gets a fresh id. *)
NewEnvelope(p) == [id |-> issued + 1, kind |-> p.kind, to |-> p.to]

(* What a handler may return: nothing, or a fresh envelope. *)
Response ==
  {None} \cup (IF issued < MaxEnvelopes THEN {NewEnvelope(p) : p \in Replies} ELSE {})

AgentInit ==
  /\ inbox = [a \in Agents |-> <<>>]
  /\ signals = [a \in Agents |-> <<>>]
  /\ handle = [a \in Agents |-> "open"]
  /\ outbox = <<>>
  /\ outboxOpen = TRUE
  /\ pc = [a \in Agents |-> "idle"]
  /\ current = [a \in Agents |-> None]
  /\ work = [a \in Agents |-> 0]
  /\ cancelToken = [a \in Agents |-> FALSE]
  /\ deferred = [a \in Agents |-> <<>>]
  /\ unseen = [a \in Agents |-> 0]
  /\ shouldShutdown = [a \in Agents |-> FALSE]
  /\ reply = [a \in Agents |-> None]
  /\ issued = 0
  /\ acted = [a \in Agents |-> <<>>]
  /\ done = [a \in Agents |-> <<>>]
  /\ halted = [a \in Agents |-> FALSE]

-----------------------------------------------------------------------------
(* Leaving the event loop ends the task: both receivers are dropped, with   *)
(* whatever they still hold, and every local of the task.                   *)

Exit(a) ==
  /\ pc' = [pc EXCEPT ![a] = "exited"]
  /\ inbox' = [inbox EXCEPT ![a] = <<>>]
  /\ signals' = [signals EXCEPT ![a] = <<>>]
  /\ deferred' = [deferred EXCEPT ![a] = <<>>]
  /\ reply' = [reply EXCEPT ![a] = None]
  /\ UNCHANGED <<handle, outbox, outboxOpen, current, work, cancelToken, unseen,
                 shouldShutdown, issued>>

(* handle_control_signal calls shutdown() or handle_interrupt(). *)
RunHook(a, env) ==
  /\ acted' = [acted EXCEPT ![a] = IF IsControlSignal(env) THEN Append(@, env.id) ELSE @]
  /\ halted' = [halted EXCEPT ![a] = @ \/ IsHaltOrShutdown(env)]
  /\ UNCHANGED done

(* What a handler returns, if anything, has to wait for the outbox. *)
Answer(a, waiting, next) ==
  \E r \in Response :
    /\ reply' = [reply EXCEPT ![a] = r]
    /\ issued' = IF r = None THEN issued ELSE issued + 1
    /\ pc' = [pc EXCEPT ![a] = IF r = None THEN next ELSE waiting]

Proceed(a, next) ==
  /\ pc' = [pc EXCEPT ![a] = next]
  /\ UNCHANGED <<reply, issued>>

-----------------------------------------------------------------------------
(* Phase 1: idle. *)

SignalsQuiet(a) == signals[a] = <<>> /\ handle[a] # "closed"

(* A control signal taken while idle, from either channel. *)
HandleWhileIdle(a, env) ==
  /\ RunHook(a, env)
  /\ \/ /\ env.kind = "interrupt"
        /\ Answer(a, "idleReply", "idle")
     \/ /\ ~ IsControlSignal(env)
        /\ Proceed(a, "idle")
  /\ UNCHANGED <<handle, outbox, outboxOpen, current, work, cancelToken, deferred,
                 unseen, shouldShutdown>>

IdleSignal(a) ==
  /\ pc[a] = "idle"
  /\ signals[a] # <<>>
  /\ ~ IsHaltOrShutdown(Head(signals[a]))
  /\ HandleWhileIdle(a, Head(signals[a]))
  /\ signals' = [signals EXCEPT ![a] = Tail(@)]
  /\ UNCHANGED inbox

IdleHaltSignal(a) ==
  /\ pc[a] = "idle"
  /\ signals[a] # <<>>
  /\ IsHaltOrShutdown(Head(signals[a]))
  /\ RunHook(a, Head(signals[a]))
  /\ Exit(a)

(* The signal channel is closed and empty: break without shutdown(). *)
IdleSignalsClosed(a) ==
  /\ pc[a] = "idle"
  /\ signals[a] = <<>>
  /\ handle[a] = "closed"
  /\ Exit(a)
  /\ UNCHANGED historyVars

(* Only when the signal channel is pending is the inbox looked at. *)
IdleInboxInterrupt(a) ==
  /\ pc[a] = "idle"
  /\ SignalsQuiet(a)
  /\ inbox[a] # <<>>
  /\ Head(inbox[a]).kind = "interrupt"
  /\ HandleWhileIdle(a, Head(inbox[a]))
  /\ inbox' = [inbox EXCEPT ![a] = Tail(@)]
  /\ UNCHANGED signals

IdleInboxHalt(a) ==
  /\ pc[a] = "idle"
  /\ SignalsQuiet(a)
  /\ inbox[a] # <<>>
  /\ IsHaltOrShutdown(Head(inbox[a]))
  /\ RunHook(a, Head(inbox[a]))
  /\ Exit(a)

IdleInboxClosed(a) ==
  /\ pc[a] = "idle"
  /\ SignalsQuiet(a)
  /\ inbox[a] = <<>>
  /\ handle[a] = "closing"
  /\ Exit(a)
  /\ UNCHANGED historyVars

(* A message leaves the inbox; its handle_message future is not polled yet. *)
AcceptMessage(a) ==
  /\ pc[a] = "idle"
  /\ SignalsQuiet(a)
  /\ inbox[a] # <<>>
  /\ ~ IsControlSignal(Head(inbox[a]))
  /\ pc' = [pc EXCEPT ![a] = "accepted"]
  /\ current' = [current EXCEPT ![a] = Head(inbox[a])]
  /\ inbox' = [inbox EXCEPT ![a] = Tail(@)]
  /\ shouldShutdown' = [shouldShutdown EXCEPT ![a] = FALSE]
  /\ UNCHANGED <<signals, handle, outbox, outboxOpen, work, cancelToken, deferred,
                 unseen, reply, issued, historyVars>>

-----------------------------------------------------------------------------
(* Phase 2: handle_message raced against the signal channel. *)

Racing(a) == pc[a] \in {"accepted", "working"}

(* Mutant: only a halt sets the cancel token. *)
MutantDeferHaltCancels(a) ==
  /\ Racing(a)
  /\ signals[a] # <<>>
  /\ LET env == Head(signals[a]) IN
       /\ cancelToken' = [cancelToken EXCEPT ![a] = @ \/ IsHaltOrShutdown(env)]
       /\ shouldShutdown' = [shouldShutdown EXCEPT ![a] = @ \/ IsHaltOrShutdown(env)]
       /\ deferred' = [deferred EXCEPT ![a] = Append(@, env)]
  /\ signals' = [signals EXCEPT ![a] = Tail(@)]
  /\ UNCHANGED <<inbox, handle, outbox, outboxOpen, pc, current, work, unseen, reply,
                 issued, historyVars>>

DeferSignal(a) ==
  /\ Racing(a)
  /\ signals[a] # <<>>
  /\ LET env == Head(signals[a]) IN
       /\ cancelToken' = [cancelToken EXCEPT ![a] = @ \/ IsControlSignal(env)]
       /\ shouldShutdown' = [shouldShutdown EXCEPT ![a] = @ \/ IsHaltOrShutdown(env)]
       /\ deferred' = [deferred EXCEPT ![a] = Append(@, env)]
  /\ signals' = [signals EXCEPT ![a] = Tail(@)]
  /\ UNCHANGED <<inbox, handle, outbox, outboxOpen, pc, current, work, unseen, reply,
                 issued, historyVars>>

(* recv() of a closed channel is ready at once and wins the biased select,  *)
(* every time: the loop continues and msg_future is never polled again.     *)
SpinOnClosedSignals(a) ==
  /\ Racing(a)
  /\ signals[a] = <<>>
  /\ handle[a] = "closed"
  /\ shouldShutdown' = [shouldShutdown EXCEPT ![a] = TRUE]
  /\ UNCHANGED <<channelVars, pc, current, work, cancelToken, deferred, unseen, reply,
                 issued, historyVars>>

(* First poll: handle_message clears the token and begins its first unit. *)
BeginMessage(a) ==
  /\ pc[a] = "accepted"
  /\ SignalsQuiet(a)
  /\ pc' = [pc EXCEPT ![a] = "working"]
  /\ cancelToken' = [cancelToken EXCEPT ![a] = FALSE]
  /\ work' = [work EXCEPT ![a] = 1]
  /\ unseen' = [unseen EXCEPT ![a] = Len(deferred[a])]
  /\ UNCHANGED <<channelVars, current, deferred, shouldShutdown, reply, issued, historyVars>>

WorkUnit(a) ==
  /\ pc[a] = "working"
  /\ SignalsQuiet(a)
  /\ work[a] < WorkUnits
  /\ ~ cancelToken[a]
  /\ work' = [work EXCEPT ![a] = @ + 1]
  /\ UNCHANGED <<channelVars, pc, current, cancelToken, deferred, unseen, shouldShutdown,
                 reply, issued, historyVars>>

(* handle_message returns: cut short by the token, or after its last unit. *)
FinishMessage(a) ==
  /\ pc[a] = "working"
  /\ SignalsQuiet(a)
  /\ cancelToken[a] \/ work[a] = WorkUnits
  /\ Answer(a, "responding", "draining")
  /\ done' = [done EXCEPT ![a] = Append(@, current[a].id)]
  /\ current' = [current EXCEPT ![a] = None]
  /\ work' = [work EXCEPT ![a] = 0]
  /\ unseen' = [unseen EXCEPT ![a] = 0]
  /\ UNCHANGED <<channelVars, cancelToken, deferred, shouldShutdown, acted, halted>>

-----------------------------------------------------------------------------
(* Post-processing: the response, then the deferred signals. *)

(* Mutant: an unbounded outbox. *)
MutantUnboundedOutbox(a) ==
  /\ outboxOpen
  /\ outbox' = Append(outbox, reply[a])

(* Sending on the outbox blocks while it is full. *)
SendToOutbox(a) ==
  /\ outboxOpen
  /\ Len(outbox) < OutboxCapacity
  /\ outbox' = Append(outbox, reply[a])

SendResponse(a) ==
  /\ pc[a] = "responding"
  /\ SendToOutbox(a)
  /\ pc' = [pc EXCEPT ![a] = "draining"]
  /\ reply' = [reply EXCEPT ![a] = None]
  /\ UNCHANGED <<inbox, signals, handle, outboxOpen, current, work, cancelToken, deferred,
                 unseen, shouldShutdown, issued, historyVars>>

(* The outbox is gone: break, deferred signals and all. *)
ResponseFails(a) ==
  /\ pc[a] = "responding"
  /\ ~ outboxOpen
  /\ Exit(a)
  /\ UNCHANGED historyVars

(* Mutant: the deferred signals are popped, newest first. *)
MutantDrainNewest(a) ==
  /\ pc[a] = "draining"
  /\ deferred[a] # <<>>
  /\ LET env == deferred[a][Len(deferred[a])] IN
       /\ RunHook(a, env)
       /\ shouldShutdown' = [shouldShutdown EXCEPT ![a] = @ \/ IsHaltOrShutdown(env)]
       /\ \/ /\ env.kind = "interrupt"
             /\ Answer(a, "drainReply", "draining")
          \/ /\ env.kind # "interrupt"
             /\ Proceed(a, "draining")
  /\ deferred' = [deferred EXCEPT ![a] = SubSeq(@, 1, Len(@) - 1)]
  /\ UNCHANGED <<channelVars, current, work, cancelToken, unseen>>

(* Mutant: only the first deferred signal is handled. *)
MutantDrainOnlyFirst(a) ==
  /\ pc[a] = "draining"
  /\ deferred[a] # <<>>
  /\ LET env == Head(deferred[a]) IN
       /\ RunHook(a, env)
       /\ shouldShutdown' = [shouldShutdown EXCEPT ![a] = @ \/ IsHaltOrShutdown(env)]
       /\ \/ /\ env.kind = "interrupt"
             /\ Answer(a, "drainReply", "draining")
          \/ /\ env.kind # "interrupt"
             /\ Proceed(a, "draining")
  /\ deferred' = [deferred EXCEPT ![a] = <<>>]
  /\ UNCHANGED <<channelVars, current, work, cancelToken, unseen>>

(* A deferred signal; a shutdown does not stop the rest from being handled. *)
DrainDeferred(a) ==
  /\ pc[a] = "draining"
  /\ deferred[a] # <<>>
  /\ LET env == Head(deferred[a]) IN
       /\ RunHook(a, env)
       /\ shouldShutdown' = [shouldShutdown EXCEPT ![a] = @ \/ IsHaltOrShutdown(env)]
       /\ \/ /\ env.kind = "interrupt"
             /\ Answer(a, "drainReply", "draining")
          \/ /\ env.kind # "interrupt"
             /\ Proceed(a, "draining")
  /\ deferred' = [deferred EXCEPT ![a] = Tail(@)]
  /\ UNCHANGED <<channelVars, current, work, cancelToken, unseen>>

(* The answer to an interrupt; a closed outbox is ignored here. *)
SendInterruptReply(a) ==
  /\ pc[a] \in {"idleReply", "drainReply"}
  /\ \/ SendToOutbox(a)
     \/ ~ outboxOpen /\ UNCHANGED outbox
  /\ pc' = [pc EXCEPT ![a] = IF @ = "idleReply" THEN "idle" ELSE "draining"]
  /\ reply' = [reply EXCEPT ![a] = None]
  /\ UNCHANGED <<inbox, signals, handle, outboxOpen, current, work, cancelToken, deferred,
                 unseen, shouldShutdown, issued, historyVars>>

(* Mutant: should_shutdown is not looked at. *)
MutantNeverStops(a) ==
  /\ pc[a] = "draining"
  /\ deferred[a] = <<>>
  /\ pc' = [pc EXCEPT ![a] = "idle"]
  /\ UNCHANGED <<channelVars, current, work, cancelToken, deferred, unseen, shouldShutdown,
                 reply, issued, historyVars>>

NextIteration(a) ==
  /\ pc[a] = "draining"
  /\ deferred[a] = <<>>
  /\ ~ shouldShutdown[a]
  /\ pc' = [pc EXCEPT ![a] = "idle"]
  /\ UNCHANGED <<channelVars, current, work, cancelToken, deferred, unseen, shouldShutdown,
                 reply, issued, historyVars>>

ExitAfterTask(a) ==
  /\ pc[a] = "draining"
  /\ deferred[a] = <<>>
  /\ shouldShutdown[a]
  /\ Exit(a)
  /\ UNCHANGED historyVars

AgentStep(a) ==
  \/ IdleSignal(a) \/ IdleHaltSignal(a) \/ IdleSignalsClosed(a)
  \/ IdleInboxInterrupt(a) \/ IdleInboxHalt(a) \/ IdleInboxClosed(a)
  \/ AcceptMessage(a)
  \/ DeferSignal(a) \/ SpinOnClosedSignals(a)
  \/ BeginMessage(a) \/ WorkUnit(a) \/ FinishMessage(a)
  \/ SendResponse(a) \/ ResponseFails(a)
  \/ DrainDeferred(a) \/ SendInterruptReply(a)
  \/ NextIteration(a) \/ ExitAfterTask(a)

-----------------------------------------------------------------------------
(* Every variable keeps its shape; no channel outgrows its capacity. *)
AgentTypeOK ==
  /\ inbox \in [Agents -> Seq(Envelope)]
  /\ signals \in [Agents -> Seq(Envelope)]
  /\ handle \in [Agents -> {"open", "closing", "closed"}]
  /\ outbox \in Seq(Envelope)
  /\ outboxOpen \in BOOLEAN
  /\ pc \in [Agents -> Phase]
  /\ current \in [Agents -> Envelope \cup {None}]
  /\ work \in [Agents -> 0 .. WorkUnits]
  /\ cancelToken \in [Agents -> BOOLEAN]
  /\ deferred \in [Agents -> Seq(Envelope)]
  /\ unseen \in [Agents -> Nat]
  /\ shouldShutdown \in [Agents -> BOOLEAN]
  /\ reply \in [Agents -> Envelope \cup {None}]
  /\ issued \in 0 .. MaxEnvelopes
  /\ acted \in [Agents -> Seq(1 .. MaxEnvelopes)]
  /\ done \in [Agents -> Seq(1 .. MaxEnvelopes)]
  /\ halted \in [Agents -> BOOLEAN]
  /\ \A a \in Agents :
       /\ Len(inbox[a]) <= InboxCapacity
       /\ Len(signals[a]) <= SignalCapacity
       /\ current[a] # None <=> pc[a] \in {"accepted", "working"}
       /\ reply[a] # None <=> pc[a] \in {"responding", "idleReply", "drainReply"}
  /\ Len(outbox) <= OutboxCapacity
=============================================================================
