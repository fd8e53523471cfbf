-------------------------- MODULE AgentHostProofs --------------------------
(***************************************************************************)
(* Theorems about agents driven by the owner of their handles (AgentHost), *)
(* for every set of agents, capacity, amount of work and set of replies.   *)
(***************************************************************************)
EXTENDS AgentHost, AgentLoopProofs

(* The host's steps keep the types and never overfill a channel. *)
LEMMA HostStepType ==
  ASSUME AgentTypeOK,
         \/ \E a \in Agents : Send(a) \/ Signal(a) \/ DropHandle(a)
         \/ ReceiveResponse
         \/ DropOutbox
  PROVE  AgentTypeOK'
<1> USE AgentLoopAssumption
<1>1. ASSUME NEW a \in Agents, Send(a) \/ Signal(a)
      PROVE  AgentTypeOK'
  <2>1. \A kind \in Kind : NewEnvelope(HostPayload(kind, a)) \in Envelope
    BY <1>1 DEF NewEnvelope, HostPayload, Envelope, AgentTypeOK, Send, Signal
  <2>2. CASE Send(a)
    <3>1. PICK kind \in InboxKinds :
            inbox' = [inbox EXCEPT ![a] = Append(@, NewEnvelope(HostPayload(kind, a)))]
      BY <2>2 DEF Send
    <3>2. NewEnvelope(HostPayload(kind, a)) \in Envelope
      BY <2>1, AgentHostAssumption
    <3> DEFINE longer == Append(inbox[a], NewEnvelope(HostPayload(kind, a)))
    <3>a. longer \in Seq(Envelope) /\ Len(longer) = Len(inbox[a]) + 1
      BY <3>2, AppendType DEF AgentTypeOK
    <3>b. inbox' = [inbox EXCEPT ![a] = longer]
      BY <3>1
    <3> HIDE DEF longer
    <3>3. inbox' \in [Agents -> Seq(Envelope)]
      BY <3>a, <3>b DEF AgentTypeOK
    <3>4. \A b \in Agents : Len(inbox'[b]) <= InboxCapacity
      BY <2>2, <3>a, <3>b DEF AgentTypeOK, Send
    <3>5. issued' \in 0 .. MaxEnvelopes
      BY <2>2 DEF Send, AgentTypeOK
    <3>6. UNCHANGED <<signals, handle, outbox, outboxOpen, pc, current, work, cancelToken,
                      deferred, unseen, shouldShutdown, reply, acted, done, halted>>
      BY <2>2 DEF Send, taskVars, historyVars
    <3>7. \A b \in Agents :
            /\ Len(signals'[b]) <= SignalCapacity
            /\ current'[b] # None <=> pc'[b] \in {"accepted", "working"}
            /\ reply'[b] # None <=> pc'[b] \in {"responding", "idleReply", "drainReply"}
      BY <3>6 DEF AgentTypeOK
    <3>8. /\ signals' \in [Agents -> Seq(Envelope)]
          /\ handle' \in [Agents -> {"open", "closing", "closed"}]
          /\ outbox' \in Seq(Envelope) /\ Len(outbox') <= OutboxCapacity
          /\ outboxOpen' \in BOOLEAN
          /\ pc' \in [Agents -> Phase]
          /\ current' \in [Agents -> Envelope \cup {None}]
          /\ work' \in [Agents -> 0 .. WorkUnits]
          /\ cancelToken' \in [Agents -> BOOLEAN]
          /\ deferred' \in [Agents -> Seq(Envelope)]
          /\ unseen' \in [Agents -> Nat]
          /\ shouldShutdown' \in [Agents -> BOOLEAN]
          /\ reply' \in [Agents -> Envelope \cup {None}]
          /\ acted' \in [Agents -> Seq(1 .. MaxEnvelopes)]
          /\ done' \in [Agents -> Seq(1 .. MaxEnvelopes)]
          /\ halted' \in [Agents -> BOOLEAN]
      BY <3>6 DEF AgentTypeOK
    <3> QED
      BY <3>3, <3>4, <3>5, <3>7, <3>8 DEF AgentTypeOK
  <2>3. CASE Signal(a)
    <3>1. PICK kind \in SignalKinds :
            signals' = [signals EXCEPT ![a] = Append(@, NewEnvelope(HostPayload(kind, a)))]
      BY <2>3 DEF Signal
    <3>2. NewEnvelope(HostPayload(kind, a)) \in Envelope
      BY <2>1, AgentHostAssumption
    <3> DEFINE longer == Append(signals[a], NewEnvelope(HostPayload(kind, a)))
    <3>a. longer \in Seq(Envelope) /\ Len(longer) = Len(signals[a]) + 1
      BY <3>2, AppendType DEF AgentTypeOK
    <3>b. signals' = [signals EXCEPT ![a] = longer]
      BY <3>1
    <3> HIDE DEF longer
    <3>3. signals' \in [Agents -> Seq(Envelope)]
      BY <3>a, <3>b DEF AgentTypeOK
    <3>4. \A b \in Agents : Len(signals'[b]) <= SignalCapacity
      BY <2>3, <3>a, <3>b DEF AgentTypeOK, Signal
    <3>5. issued' \in 0 .. MaxEnvelopes
      BY <2>3 DEF Signal, AgentTypeOK
    <3>6. UNCHANGED <<inbox, handle, outbox, outboxOpen, pc, current, work, cancelToken,
                      deferred, unseen, shouldShutdown, reply, acted, done, halted>>
      BY <2>3 DEF Signal, taskVars, historyVars
    <3>7. \A b \in Agents :
            /\ Len(inbox'[b]) <= InboxCapacity
            /\ current'[b] # None <=> pc'[b] \in {"accepted", "working"}
            /\ reply'[b] # None <=> pc'[b] \in {"responding", "idleReply", "drainReply"}
      BY <3>6 DEF AgentTypeOK
    <3>8. /\ inbox' \in [Agents -> Seq(Envelope)]
          /\ handle' \in [Agents -> {"open", "closing", "closed"}]
          /\ outbox' \in Seq(Envelope) /\ Len(outbox') <= OutboxCapacity
          /\ outboxOpen' \in BOOLEAN
          /\ pc' \in [Agents -> Phase]
          /\ current' \in [Agents -> Envelope \cup {None}]
          /\ work' \in [Agents -> 0 .. WorkUnits]
          /\ cancelToken' \in [Agents -> BOOLEAN]
          /\ deferred' \in [Agents -> Seq(Envelope)]
          /\ unseen' \in [Agents -> Nat]
          /\ shouldShutdown' \in [Agents -> BOOLEAN]
          /\ reply' \in [Agents -> Envelope \cup {None}]
          /\ acted' \in [Agents -> Seq(1 .. MaxEnvelopes)]
          /\ done' \in [Agents -> Seq(1 .. MaxEnvelopes)]
          /\ halted' \in [Agents -> BOOLEAN]
      BY <3>6 DEF AgentTypeOK
    <3> QED
      BY <3>3, <3>4, <3>5, <3>7, <3>8 DEF AgentTypeOK
  <2> QED
    BY <1>1, <2>2, <2>3
<1>2. ASSUME NEW a \in Agents, DropHandle(a)
      PROVE  AgentTypeOK'
  <2>1. handle' \in [Agents -> {"open", "closing", "closed"}]
    BY <1>2 DEF DropHandle, AgentTypeOK
  <2>2. UNCHANGED <<inbox, signals, outbox, outboxOpen, pc, current, work, cancelToken,
                    deferred, unseen, shouldShutdown, reply, issued, acted, done, halted>>
    BY <1>2 DEF DropHandle, taskVars, historyVars
  <2> QED
    BY <2>1, <2>2 DEF AgentTypeOK
<1>3. CASE ReceiveResponse
  BY <1>3, ChannelType DEF ReceiveResponse, AgentTypeOK, taskVars, historyVars
<1>4. CASE DropOutbox
  <2>1. outbox' \in Seq(Envelope) /\ Len(outbox') <= OutboxCapacity /\ outboxOpen' \in BOOLEAN
    <3>1. outbox' = <<>> /\ outboxOpen' = FALSE
      BY <1>4 DEF DropOutbox
    <3>2. <<>> \in Seq(Envelope) /\ Len(<<>>) = 0
      OBVIOUS
    <3>3. outbox' \in Seq(Envelope) /\ Len(outbox') <= OutboxCapacity
      BY <3>1, <3>2
    <3>4. outboxOpen' \in BOOLEAN
      BY <3>1
    <3> QED
      BY <3>3, <3>4
  <2>2. UNCHANGED <<inbox, signals, handle, pc, current, work, cancelToken, deferred, unseen,
                    shouldShutdown, reply, issued, acted, done, halted>>
    BY <1>4 DEF DropOutbox, taskVars, historyVars
  <2> QED
    BY <2>1, <2>2 DEF AgentTypeOK
<1> QED
  BY <1>1, <1>2, <1>3, <1>4

(* Every variable of the agents and their channels keeps its type, and no  *)
(* channel ever holds more than its capacity.                              *)
THEOREM TypeCorrect == Spec => []TypeOK
<1>1. Init => TypeOK
  BY AgentInitType DEF Init, TypeOK
<1>2. TypeOK /\ [Next]_agentVars => TypeOK'
  <2> SUFFICES ASSUME TypeOK, [Next]_agentVars
               PROVE  TypeOK'
    OBVIOUS
  <2>1. ASSUME NEW a \in Agents, AgentStep(a)
        PROVE  TypeOK'
    BY <2>1, AgentStepType DEF TypeOK
  <2>2. CASE \/ \E a \in Agents : Send(a) \/ Signal(a) \/ DropHandle(a)
             \/ ReceiveResponse
             \/ DropOutbox
    BY <2>2, HostStepType DEF TypeOK
  <2>3. CASE UNCHANGED agentVars
    BY <2>3 DEF agentVars, channelVars, taskVars, historyVars, TypeOK, AgentTypeOK
  <2> QED
    BY <2>1, <2>2, <2>3 DEF Next
<1> QED
  BY <1>1, <1>2, PTL DEF Spec

-----------------------------------------------------------------------------
(* NoWorkAfterShutdown is not inductive: nothing in it keeps an agent that  *)
(* has run shutdown() in the middle of its deferred signals from starting   *)
(* another iteration. What does is should_shutdown.                         *)
ShutdownRemembered ==
  \A a \in Agents :
    halted[a] => \/ pc[a] = "exited"
                 \/ pc[a] \in {"draining", "drainReply"} /\ shouldShutdown[a]

(* A signal that is no halt, taken while idle: whoever is shut down already *)
(* was, and did not move.                                                   *)
LEMMA IdleRemembers ==
  ASSUME AgentTypeOK, ShutdownRemembered, NEW a \in Agents, NEW env, pc[a] = "idle",
         HandleWhileIdle(a, env), ~ IsHaltOrShutdown(env), NEW b \in Agents, halted'[b]
  PROVE  \/ pc'[b] = "exited"
         \/ pc'[b] \in {"draining", "drainReply"} /\ shouldShutdown'[b]
<1>1. RunHook(a, env) /\ shouldShutdown' = shouldShutdown
  BY DEF HandleWhileIdle
<1>2. halted[b]
  BY <1>1, HookHalts
<1>3. b # a
  BY <1>2 DEF ShutdownRemembered
<1>4. Answer(a, "idleReply", "idle") \/ Proceed(a, "idle")
  BY DEF HandleWhileIdle
<1>5. pc'[b] = pc[b]
  BY <1>3, <1>4, AnswerMoves
<1> QED
  BY <1>1, <1>2, <1>5 DEF ShutdownRemembered

(* No agent step makes an agent forget that it was shut down. *)
LEMMA AgentStepRemembers ==
  ASSUME AgentTypeOK, ShutdownRemembered, NEW a \in Agents, AgentStep(a)
  PROVE  ShutdownRemembered'
<1> SUFFICES ASSUME NEW b \in Agents, halted'[b]
             PROVE  \/ pc'[b] = "exited"
                    \/ pc'[b] \in {"draining", "drainReply"} /\ shouldShutdown'[b]
  BY DEF ShutdownRemembered
<1> USE DEF AgentTypeOK, ShutdownRemembered, historyVars, channelVars
<1>1. CASE IdleSignal(a)
  BY <1>1, IdleRemembers DEF IdleSignal
<1>2. CASE IdleHaltSignal(a)
  BY <1>2 DEF IdleHaltSignal, RunHook, Exit
<1>3. CASE IdleSignalsClosed(a)
  BY <1>3 DEF IdleSignalsClosed, Exit
<1>4. CASE IdleInboxInterrupt(a)
  <2>1. ~ IsHaltOrShutdown(Head(inbox[a]))
    BY <1>4 DEF IdleInboxInterrupt, IsHaltOrShutdown
  <2> QED
    BY <1>4, <2>1, IdleRemembers DEF IdleInboxInterrupt
<1>5. CASE IdleInboxHalt(a)
  BY <1>5 DEF IdleInboxHalt, RunHook, Exit
<1>6. CASE IdleInboxClosed(a)
  BY <1>6 DEF IdleInboxClosed, Exit
<1>7. CASE AcceptMessage(a)
  BY <1>7 DEF AcceptMessage
<1>8. CASE DeferSignal(a)
  BY <1>8 DEF DeferSignal, Racing
<1>9. CASE SpinOnClosedSignals(a)
  BY <1>9 DEF SpinOnClosedSignals, Racing
<1>10. CASE BeginMessage(a)
  BY <1>10 DEF BeginMessage
<1>11. CASE WorkUnit(a)
  BY <1>11 DEF WorkUnit
<1>12. CASE FinishMessage(a)
  BY <1>12 DEF FinishMessage, Answer
<1>13. CASE SendResponse(a)
  BY <1>13 DEF SendResponse
<1>14. CASE ResponseFails(a)
  BY <1>14 DEF ResponseFails, Exit
<1>15. CASE DrainDeferred(a)
  <2> DEFINE D == Head(deferred[a])
  <2>1. RunHook(a, D) /\ pc[a] = "draining"
    BY <1>15 DEF DrainDeferred
  <2>2. shouldShutdown' = [shouldShutdown EXCEPT ![a] = @ \/ IsHaltOrShutdown(D)]
    BY <1>15 DEF DrainDeferred
  <2>3. Answer(a, "drainReply", "draining") \/ Proceed(a, "draining")
    BY <1>15 DEF DrainDeferred
  <2>4. /\ pc'[a] \in {"drainReply", "draining"}
        /\ \A c \in Agents : c # a => pc'[c] = pc[c]
    BY <2>3, AnswerMoves
  <2>5. halted[b] \/ (b = a /\ IsHaltOrShutdown(D))
    BY <2>1, HookHalts
  <2>6. CASE b = a
    BY <2>1, <2>2, <2>4, <2>5, <2>6
  <2>7. CASE b # a
    BY <2>2, <2>4, <2>5, <2>7
  <2> QED
    BY <2>6, <2>7
<1>16. CASE SendInterruptReply(a)
  BY <1>16 DEF SendInterruptReply
<1>17. CASE NextIteration(a)
  BY <1>17 DEF NextIteration
<1>18. CASE ExitAfterTask(a)
  BY <1>18 DEF ExitAfterTask, Exit
<1> QED
  BY <1>1, <1>2, <1>3, <1>4, <1>5, <1>6, <1>7, <1>8, <1>9, <1>10, <1>11, <1>12, <1>13,
     <1>14, <1>15, <1>16, <1>17, <1>18 DEF AgentStep

LEMMA NextRemembers ==
  ASSUME TypeOK, ShutdownRemembered, [Next]_agentVars
  PROVE  ShutdownRemembered'
<1>1. ASSUME NEW a \in Agents, AgentStep(a)
      PROVE  ShutdownRemembered'
  BY <1>1, AgentStepRemembers DEF TypeOK
<1>2. ASSUME UNCHANGED <<pc, shouldShutdown, halted>>
      PROVE  ShutdownRemembered'
  BY <1>2 DEF ShutdownRemembered
<1>3. ASSUME NEW a \in Agents, Send(a) \/ Signal(a) \/ DropHandle(a)
      PROVE  UNCHANGED <<pc, shouldShutdown, halted>>
  BY <1>3 DEF Send, Signal, DropHandle, taskVars, historyVars
<1>4. CASE ReceiveResponse \/ DropOutbox
  BY <1>2, <1>4 DEF ReceiveResponse, DropOutbox, taskVars, historyVars
<1>5. CASE UNCHANGED agentVars
  BY <1>2, <1>5 DEF agentVars, taskVars, historyVars
<1> QED
  BY <1>1, <1>2, <1>3, <1>4, <1>5 DEF Next

(* Once an agent's shutdown() hook has run, it never handles a message      *)
(* again: for every way a halt can reach it, and whatever else is queued.   *)
THEOREM ShutdownIsFinal == Spec => []NoWorkAfterShutdown
<1>1. Init => ShutdownRemembered
  BY DEF Init, AgentInit, ShutdownRemembered
<1>2. TypeOK /\ ShutdownRemembered /\ [Next]_agentVars => ShutdownRemembered'
  BY NextRemembers
<1>3. ShutdownRemembered => NoWorkAfterShutdown
  BY DEF ShutdownRemembered, NoWorkAfterShutdown
<1> QED
  BY <1>1, <1>2, <1>3, TypeCorrect, PTL DEF Spec

-----------------------------------------------------------------------------
(* CancelAfterStart is inductive with the types: the token is only cleared  *)
(* by the first poll, which moves `unseen` past everything deferred so far. *)
LEMMA AgentStepCancels ==
  ASSUME AgentTypeOK, CancelAfterStart, NEW a \in Agents, AgentStep(a)
  PROVE  CancelAfterStart'
<1> SUFFICES ASSUME NEW b \in Agents, pc'[b] = "working",
                    NEW i \in unseen'[b] + 1 .. Len(deferred'[b]),
                    IsControlSignal(deferred'[b][i])
             PROVE  cancelToken'[b]
  BY DEF CancelAfterStart, IsControlSignal
<1>1. ASSUME pc[b] = "working", UNCHANGED <<unseen[b], deferred[b], cancelToken[b]>>
      PROVE  cancelToken'[b]
  BY <1>1 DEF CancelAfterStart
<1>2. CASE DeferSignal(a)
  <2> DEFINE env == Head(signals[a])
  <2>1. pc[b] = "working" /\ unseen'[b] = unseen[b]
    BY <1>2 DEF DeferSignal
  <2>2. CASE a # b
    BY <1>1, <1>2, <2>1, <2>2 DEF DeferSignal, AgentTypeOK
  <2>3. CASE a = b
    <3>1. /\ deferred'[b] = Append(deferred[b], env)
          /\ cancelToken'[b] = (cancelToken[b] \/ IsControlSignal(env))
          /\ deferred[b] \in Seq(Envelope) /\ unseen[b] \in Nat
      BY <1>2, <2>3 DEF DeferSignal, AgentTypeOK
    <3>2. CASE i = Len(deferred[b]) + 1
      <4>1. deferred'[b][i] = env
        BY <3>1, <3>2
      <4> QED
        BY <3>1, <4>1
    <3>3. CASE i # Len(deferred[b]) + 1
      <4>1. i \in unseen[b] + 1 .. Len(deferred[b]) /\ deferred'[b][i] = deferred[b][i]
        BY <2>1, <3>1, <3>3
      <4>2. cancelToken[b]
        BY <2>1, <4>1 DEF CancelAfterStart
      <4> QED
        BY <3>1, <4>2
    <3> QED
      BY <3>2, <3>3
  <2> QED
    BY <2>2, <2>3
<1>3. CASE BeginMessage(a)
  <2>1. CASE a = b
    <3>1. unseen'[b] = Len(deferred'[b]) /\ Len(deferred'[b]) \in Nat
      BY <1>3, <2>1 DEF BeginMessage, AgentTypeOK
    <3> QED
      BY <3>1
  <2>2. CASE a # b
    BY <1>1, <1>3, <2>2 DEF BeginMessage, AgentTypeOK
  <2> QED
    BY <2>1, <2>2
<1>4. CASE WorkUnit(a)
  BY <1>1, <1>4 DEF WorkUnit
<1>5. CASE SpinOnClosedSignals(a)
  BY <1>1, <1>5 DEF SpinOnClosedSignals
<1>6. CASE IdleSignal(a) \/ IdleInboxInterrupt(a)
  <2>1. a # b
    BY <1>6 DEF IdleSignal, IdleInboxInterrupt, HandleWhileIdle, Answer, Proceed, AgentTypeOK
  <2>2. pc'[b] = pc[b]
    BY <1>6, <2>1 DEF IdleSignal, IdleInboxInterrupt, HandleWhileIdle, Answer, Proceed, AgentTypeOK
  <2> QED
    BY <1>1, <1>6, <2>2 DEF IdleSignal, IdleInboxInterrupt, HandleWhileIdle
<1>7. CASE \/ IdleHaltSignal(a) \/ IdleInboxHalt(a) \/ IdleSignalsClosed(a)
           \/ IdleInboxClosed(a) \/ ResponseFails(a) \/ ExitAfterTask(a)
  <2>1. Exit(a)
    BY <1>7 DEF IdleHaltSignal, IdleInboxHalt, IdleSignalsClosed, IdleInboxClosed, ResponseFails,
                ExitAfterTask
  <2>2. a # b
    BY <2>1 DEF Exit, AgentTypeOK
  <2> QED
    BY <1>1, <2>1, <2>2 DEF Exit, AgentTypeOK
<1>8. CASE AcceptMessage(a) \/ SendResponse(a) \/ SendInterruptReply(a) \/ NextIteration(a)
  <2>1. a # b
    BY <1>8 DEF AcceptMessage, SendResponse, SendInterruptReply, NextIteration, AgentTypeOK
  <2>2. pc'[b] = pc[b]
    BY <1>8, <2>1 DEF AcceptMessage, SendResponse, SendInterruptReply, NextIteration, AgentTypeOK
  <2> QED
    BY <1>1, <1>8, <2>2 DEF AcceptMessage, SendResponse, SendInterruptReply, NextIteration
<1>9. CASE FinishMessage(a)
  <2>1. a # b
    BY <1>9 DEF FinishMessage, Answer, AgentTypeOK
  <2>2. pc'[b] = pc[b] /\ unseen'[b] = unseen[b]
    BY <1>9, <2>1 DEF FinishMessage, Answer, AgentTypeOK
  <2> QED
    BY <1>1, <1>9, <2>2 DEF FinishMessage
<1>10. CASE DrainDeferred(a)
  <2>1. a # b
    BY <1>10 DEF DrainDeferred, Answer, Proceed, AgentTypeOK
  <2>2. pc'[b] = pc[b] /\ deferred'[b] = deferred[b]
    BY <1>10, <2>1 DEF DrainDeferred, Answer, Proceed, AgentTypeOK
  <2> QED
    BY <1>1, <1>10, <2>2 DEF DrainDeferred
<1> QED
  BY <1>2, <1>3, <1>4, <1>5, <1>6, <1>7, <1>8, <1>9, <1>10 DEF AgentStep

(* A control signal taken off the channel after the first poll of           *)
(* handle_message leaves the cancel token set for as long as it works.      *)
THEOREM CancelHolds == Spec => []CancelAfterStart
<1>1. Init => CancelAfterStart
  BY DEF Init, AgentInit, CancelAfterStart
<1>2. TypeOK /\ CancelAfterStart /\ [Next]_agentVars => CancelAfterStart'
  <2> SUFFICES ASSUME TypeOK, CancelAfterStart, [Next]_agentVars
               PROVE  CancelAfterStart'
    OBVIOUS
  <2>1. ASSUME NEW a \in Agents, AgentStep(a)
        PROVE  CancelAfterStart'
    BY <2>1, AgentStepCancels DEF TypeOK
  <2>2. ASSUME UNCHANGED <<pc, unseen, deferred, cancelToken>>
        PROVE  CancelAfterStart'
    BY <2>2 DEF CancelAfterStart, IsControlSignal
  <2>3. ASSUME NEW a \in Agents, Send(a) \/ Signal(a) \/ DropHandle(a)
        PROVE  UNCHANGED <<pc, unseen, deferred, cancelToken>>
    BY <2>3 DEF Send, Signal, DropHandle, taskVars
  <2>4. CASE ReceiveResponse \/ DropOutbox
    BY <2>2, <2>4 DEF ReceiveResponse, DropOutbox, taskVars
  <2>5. CASE UNCHANGED agentVars
    BY <2>2, <2>5 DEF agentVars, taskVars
  <2> QED
    BY <2>1, <2>2, <2>3, <2>4, <2>5 DEF Next
<1> QED
  BY <1>1, <1>2, TypeCorrect, PTL DEF Spec

-----------------------------------------------------------------------------
(* The event loop implements AgentContract. What the contract calls pending *)
(* are the deferred signals and then those in the channel.                  *)

(* Only an agent in the middle of a task has deferred signals, and only one *)
(* that has met a halt, or a closed channel, is about to stop after it.     *)
InTask(a) == pc[a] \in {"accepted", "working", "responding", "draining", "drainReply"}

HaltDeferred(a) == \E i \in DOMAIN deferred[a] : IsHaltOrShutdown(deferred[a][i])

TaskInv ==
  \A a \in Agents :
    /\ deferred[a] # <<>> => InTask(a)
    /\ InTask(a) /\ shouldShutdown[a] =>
         halted[a] \/ handle[a] = "closed" \/ HaltDeferred(a)

(* An agent that keeps what TaskInv reads of it. *)
SameTask(b) ==
  /\ UNCHANGED <<pc[b], deferred[b], shouldShutdown[b], halted[b]>>
  /\ handle[b] = "closed" => handle'[b] = "closed"

LEMMA SameTaskInv ==
  ASSUME TaskInv, NEW b \in Agents, SameTask(b)
  PROVE  /\ deferred'[b] # <<>> => InTask(b)'
         /\ InTask(b)' /\ shouldShutdown'[b] =>
              halted'[b] \/ handle'[b] = "closed" \/ HaltDeferred(b)'
  BY DEF TaskInv, SameTask, InTask, HaltDeferred, IsHaltOrShutdown

LEMMA AgentStepTask ==
  ASSUME AgentTypeOK, TaskInv, NEW a \in Agents, AgentStep(a)
  PROVE  TaskInv'
<1> SUFFICES ASSUME NEW b \in Agents
             PROVE  /\ deferred'[b] # <<>> => InTask(b)'
                    /\ InTask(b)' /\ shouldShutdown'[b] =>
                         halted'[b] \/ handle'[b] = "closed" \/ HaltDeferred(b)'
  BY DEF TaskInv
<1>1. CASE b # a
  BY <1>1, OthersKeep, SameTaskInv DEF SameTask
<1> SUFFICES ASSUME b = a PROVE /\ deferred'[a] # <<>> => InTask(a)'
                                /\ InTask(a)' /\ shouldShutdown'[a] =>
                                     halted'[a] \/ handle'[a] = "closed" \/ HaltDeferred(a)'
  BY <1>1
<1>2. CASE \/ IdleHaltSignal(a) \/ IdleInboxHalt(a) \/ IdleSignalsClosed(a)
           \/ IdleInboxClosed(a) \/ ResponseFails(a) \/ ExitAfterTask(a)
  BY <1>2 DEF IdleHaltSignal, IdleInboxHalt, IdleSignalsClosed, IdleInboxClosed, ResponseFails,
              ExitAfterTask, Exit, InTask, AgentTypeOK
<1>3. CASE IdleSignal(a) \/ IdleInboxInterrupt(a)
  <2>1. pc[a] = "idle" /\ deferred' = deferred
        /\ (Answer(a, "idleReply", "idle") \/ Proceed(a, "idle"))
    BY <1>3 DEF IdleSignal, IdleInboxInterrupt, HandleWhileIdle
  <2>2. pc'[a] \in {"idleReply", "idle"}
    BY <2>1, AnswerMoves
  <2> QED
    BY <2>1, <2>2 DEF TaskInv, InTask
<1>4. CASE AcceptMessage(a)
  BY <1>4 DEF AcceptMessage, TaskInv, InTask, AgentTypeOK
<1>5. CASE DeferSignal(a)
  <2> DEFINE env == Head(signals[a])
  <2>1. /\ deferred'[a] = Append(deferred[a], env) /\ deferred[a] \in Seq(Envelope)
        /\ shouldShutdown'[a] = (shouldShutdown[a] \/ IsHaltOrShutdown(env))
        /\ InTask(a) /\ InTask(a)' /\ halted' = halted /\ handle' = handle
    BY <1>5 DEF DeferSignal, Racing, InTask, AgentTypeOK, historyVars
  <2>2. Len(deferred[a]) + 1 \in DOMAIN deferred'[a]
        /\ deferred'[a][Len(deferred[a]) + 1] = env
    BY <2>1
  <2>3. \A i \in DOMAIN deferred[a] : i \in DOMAIN deferred'[a] /\ deferred'[a][i] = deferred[a][i]
    BY <2>1
  <2> HIDE DEF env
  <2>4. ASSUME shouldShutdown'[a]
        PROVE  halted'[a] \/ handle'[a] = "closed" \/ HaltDeferred(a)'
    <3>1. CASE IsHaltOrShutdown(env)
      BY <2>2, <3>1 DEF HaltDeferred, IsHaltOrShutdown
    <3>2. CASE shouldShutdown[a]
      <4>1. halted[a] \/ handle[a] = "closed" \/ HaltDeferred(a)
        BY <2>1, <3>2 DEF TaskInv
      <4> QED
        BY <2>1, <2>3, <4>1 DEF HaltDeferred, IsHaltOrShutdown
    <3> QED
      BY <2>1, <2>4, <3>1, <3>2
  <2> QED
    BY <2>1, <2>4
<1>6. CASE SpinOnClosedSignals(a)
  BY <1>6 DEF SpinOnClosedSignals, Racing, InTask, channelVars
<1>7. CASE BeginMessage(a) \/ WorkUnit(a)
  BY <1>7 DEF BeginMessage, WorkUnit, channelVars, historyVars, TaskInv, InTask, HaltDeferred,
              IsHaltOrShutdown, AgentTypeOK
<1>8. CASE FinishMessage(a)
  BY <1>8 DEF FinishMessage, Answer, channelVars, TaskInv, InTask, HaltDeferred,
              IsHaltOrShutdown, AgentTypeOK
<1>9. CASE SendResponse(a)
  BY <1>9 DEF SendResponse, historyVars, TaskInv, InTask, HaltDeferred, IsHaltOrShutdown,
              AgentTypeOK
<1>10. CASE DrainDeferred(a)
  <2> DEFINE env == Head(deferred[a])
  <2>1. /\ pc[a] = "draining" /\ RunHook(a, env) /\ deferred[a] # <<>>
        /\ deferred'[a] = Tail(deferred[a]) /\ deferred[a] \in Seq(Envelope)
        /\ shouldShutdown'[a] = (shouldShutdown[a] \/ IsHaltOrShutdown(env))
        /\ handle' = handle
        /\ Answer(a, "drainReply", "draining") \/ Proceed(a, "draining")
    BY <1>10 DEF DrainDeferred, channelVars, AgentTypeOK
  <2>2. InTask(a) /\ InTask(a)'
    BY <2>1, AnswerMoves DEF InTask
  <2>3. halted'[a] = (halted[a] \/ IsHaltOrShutdown(env))
    BY <2>1 DEF RunHook, AgentTypeOK
  <2>4. \A i \in DOMAIN deferred[a] :
          i = 1 \/ (i - 1 \in DOMAIN deferred'[a] /\ deferred'[a][i - 1] = deferred[a][i])
    BY <2>1
  <2>5. env = deferred[a][1]
    BY <2>1
  <2> HIDE DEF env
  <2>6. HaltDeferred(a) => IsHaltOrShutdown(env) \/ HaltDeferred(a)'
    BY <2>4, <2>5 DEF HaltDeferred, IsHaltOrShutdown
  <2> QED
    BY <2>1, <2>2, <2>3, <2>6 DEF TaskInv
<1>11. CASE SendInterruptReply(a)
  BY <1>11 DEF SendInterruptReply, historyVars, TaskInv, InTask, HaltDeferred,
               IsHaltOrShutdown, AgentTypeOK
<1>12. CASE NextIteration(a)
  BY <1>12 DEF NextIteration, TaskInv, InTask, AgentTypeOK
<1> QED
  BY <1>2, <1>3, <1>4, <1>5, <1>6, <1>7, <1>8, <1>9, <1>10, <1>11, <1>12 DEF AgentStep

(* How the mapped queue, life and links follow the agent that moves. *)
LEMMA Mapped ==
  ASSUME NEW a \in Agents
  PROVE  /\ Pending[a] = Unacted(a)
         /\ Life[a] = IF pc[a] = "exited" THEN "over"
                      ELSE IF halted[a] THEN "stopping" ELSE "alive"
         /\ Severed[a] = (handle[a] # "open" \/ ~ outboxOpen)
  BY DEF Pending, Life, Severed

LEMMA PendingChange ==
  ASSUME NEW a \in Agents, NEW v, Unacted(a)' = v,
         \A b \in Agents \ {a} : UNCHANGED <<deferred[b], signals[b]>>
  PROVE  Pending' = [Pending EXCEPT ![a] = v]
<1>1. \A b \in Agents \ {a} : Unacted(b)' = Unacted(b)
  BY DEF Unacted
<1> QED
  BY <1>1 DEF Pending

LEMMA PendingSame ==
  ASSUME NEW a \in Agents, Unacted(a)' = Unacted(a),
         \A b \in Agents \ {a} : UNCHANGED <<deferred[b], signals[b]>>
  PROVE  Pending' = Pending
<1>1. \A b \in Agents : Unacted(b)' = Unacted(b)
  BY DEF Unacted
<1> QED
  BY <1>1 DEF Pending

LEMMA LifeChange ==
  ASSUME NEW a \in Agents, NEW v,
         v = IF pc'[a] = "exited" THEN "over" ELSE IF halted'[a] THEN "stopping" ELSE "alive",
         \A b \in Agents \ {a} : UNCHANGED <<pc[b], halted[b]>>
  PROVE  Life' = [Life EXCEPT ![a] = v]
  BY DEF Life

LEMMA LifeSame ==
  ASSUME NEW a \in Agents, pc'[a] = "exited" <=> pc[a] = "exited", halted'[a] = halted[a],
         \A b \in Agents \ {a} : UNCHANGED <<pc[b], halted[b]>>
  PROVE  Life' = Life
  BY DEF Life

LEMMA SeveredSame ==
  ASSUME UNCHANGED <<handle, outboxOpen>>
  PROVE  Severed' = Severed
  BY DEF Severed

(* The others, as the contract sees them. *)
LEMMA OthersMapped ==
  ASSUME AgentTypeOK, NEW a \in Agents, AgentStep(a)
  PROVE  \A b \in Agents \ {a} : UNCHANGED <<deferred[b], signals[b], pc[b], halted[b]>>
  BY OthersKeep

(* Outside a task nothing is deferred: what is pending is in the channel. *)
LEMMA IdlePending ==
  ASSUME AgentTypeOK, TaskInv, NEW a \in Agents, ~ InTask(a)
  PROVE  Unacted(a) = signals[a]
  BY TakeSecond DEF TaskInv, Unacted, AgentTypeOK

(* Leaving the loop is the contract's end. *)
LEMMA ExitEnds ==
  ASSUME AgentTypeOK, NEW a \in Agents, AgentStep(a), Exit(a)
  PROVE  Contract!End(a)
<1>1. Life' = [Life EXCEPT ![a] = "over"]
  <2>1. pc'[a] = "exited"
    BY DEF Exit, AgentTypeOK
  <2> QED
    BY <2>1, OthersMapped, LifeChange
<1>2. Pending' = [Pending EXCEPT ![a] = <<>>]
  <2>1. deferred'[a] = <<>> /\ signals'[a] = <<>>
    BY DEF Exit, AgentTypeOK
  <2>2. <<>> \in Seq(Envelope)
    OBVIOUS
  <2>3. Unacted(a)' = <<>>
    BY <2>1, <2>2, TakeSecond DEF Unacted
  <2> QED
    BY <2>3, OthersMapped, PendingChange
<1>3. inbox' = [inbox EXCEPT ![a] = <<>>] /\ current' = current /\ Severed' = Severed
  BY SeveredSame DEF Exit
<1> QED
  BY <1>1, <1>2, <1>3 DEF Contract!End

(* The handler of a control signal records it. *)
LEMMA HookRecords ==
  ASSUME NEW a \in Agents, NEW env, RunHook(a, env)
  PROVE  Contract!Record(a, env)
  BY DEF RunHook, Contract!Record

(* Cut off or told to stop, an agent without a task may end. *)
LEMMA StopProtocol ==
  ASSUME AgentTypeOK, NEW a \in Agents, AgentStep(a), Exit(a), UNCHANGED historyVars,
         pc[a] \notin {"accepted", "working", "exited"},
         halted[a] \/ handle[a] # "open" \/ ~ outboxOpen
  PROVE  Contract!Stop(a)
<1>1. current[a] = None
  BY DEF AgentTypeOK
<1>2. Life[a] = "stopping" \/ (Life[a] = "alive" /\ Severed[a])
  BY Mapped
<1> QED
  BY <1>1, <1>2, ExitEnds DEF Contract!Stop, historyVars

(* Steps the contract does not see. *)
LEMMA HiddenStep ==
  ASSUME AgentTypeOK, NEW a \in Agents, AgentStep(a),
         UNCHANGED <<inbox, handle, outboxOpen, current, historyVars>>,
         Unacted(a)' = Unacted(a), pc[a] # "exited", pc'[a] # "exited"
  PROVE  UNCHANGED Contract!vars
<1>1. halted' = halted /\ acted' = acted /\ done' = done
  BY DEF historyVars
<1>2. Life' = Life
  BY <1>1, OthersMapped, LifeSame
<1>3. Pending' = Pending
  BY OthersMapped, PendingSame
<1> QED
  BY <1>1, <1>2, <1>3, SeveredSame DEF Contract!vars

LEMMA DeferHidden ==
  ASSUME AgentTypeOK, NEW a \in Agents, DeferSignal(a)
  PROVE  UNCHANGED Contract!vars
<1>1. /\ deferred'[a] = Append(deferred[a], Head(signals[a])) /\ signals'[a] = Tail(signals[a])
      /\ signals[a] # <<>> /\ deferred[a] \in Seq(Envelope) /\ signals[a] \in Seq(Envelope)
  BY DEF DeferSignal, AgentTypeOK
<1>2. Unacted(a)' = Unacted(a)
  BY <1>1, MoveOver DEF Unacted
<1>3. /\ UNCHANGED <<inbox, handle, outboxOpen, current, historyVars>>
      /\ pc[a] # "exited" /\ pc' = pc
  BY DEF DeferSignal, Racing
<1> QED
  BY <1>2, <1>3, HiddenStep DEF AgentStep

LEMMA OtherHidden ==
  ASSUME AgentTypeOK, NEW a \in Agents,
         \/ SpinOnClosedSignals(a) \/ BeginMessage(a) \/ WorkUnit(a)
         \/ SendResponse(a) \/ SendInterruptReply(a) \/ NextIteration(a)
  PROVE  UNCHANGED Contract!vars
<1>1. /\ UNCHANGED <<inbox, handle, outboxOpen, current, historyVars>>
      /\ UNCHANGED <<deferred, signals>>
  BY DEF SpinOnClosedSignals, BeginMessage, WorkUnit, SendResponse, SendInterruptReply,
         NextIteration, channelVars
<1>2. pc[a] # "exited" /\ pc'[a] # "exited"
  BY DEF SpinOnClosedSignals, Racing, BeginMessage, WorkUnit, SendResponse, SendInterruptReply,
         NextIteration, AgentTypeOK
<1>3. Unacted(a)' = Unacted(a)
  BY <1>1 DEF Unacted
<1> QED
  BY <1>1, <1>2, <1>3, HiddenStep DEF AgentStep

(* A message is taken, and later done with. *)
LEMMA AcceptStarts ==
  ASSUME AgentTypeOK, TaskInv, ShutdownRemembered, NEW a \in Agents, AcceptMessage(a)
  PROVE  Contract!Start(a)
<1>1. /\ pc[a] = "idle" /\ signals[a] = <<>> /\ inbox[a] # <<>>
      /\ ~ IsControlSignal(Head(inbox[a]))
      /\ current' = [current EXCEPT ![a] = Head(inbox[a])]
      /\ inbox' = [inbox EXCEPT ![a] = Tail(@)]
      /\ UNCHANGED <<signals, handle, outboxOpen, deferred, acted, done, halted>>
  BY DEF AcceptMessage, SignalsQuiet, historyVars
<1>2. ~ halted[a] /\ current[a] = None
  BY <1>1 DEF ShutdownRemembered, AgentTypeOK
<1>3. Life[a] = "alive" /\ Pending[a] = <<>>
  BY <1>1, <1>2, Mapped, IdlePending DEF InTask
<1>4. pc'[a] = "accepted"
  BY DEF AcceptMessage, AgentTypeOK
<1>5. Life' = Life
  BY <1>1, <1>4, OthersMapped, LifeSame DEF AgentStep
<1>6. Pending' = Pending /\ Severed' = Severed
  BY <1>1, SeveredSame DEF Pending, Unacted
<1> QED
  BY <1>1, <1>2, <1>3, <1>5, <1>6 DEF Contract!Start

LEMMA FinishFinishes ==
  ASSUME AgentTypeOK, NEW a \in Agents, FinishMessage(a)
  PROVE  Contract!Finish(a)
<1>1. /\ pc[a] = "working" /\ current' = [current EXCEPT ![a] = None]
      /\ done' = [done EXCEPT ![a] = Append(@, current[a].id)]
      /\ UNCHANGED <<inbox, signals, handle, outboxOpen, deferred, acted, halted>>
      /\ Answer(a, "responding", "draining")
  BY DEF FinishMessage, channelVars
<1>2. current[a] # None
  BY <1>1 DEF AgentTypeOK
<1>3. pc'[a] \in {"responding", "draining"}
  BY <1>1, AnswerMoves
<1>4. Life' = Life
  BY <1>1, <1>3, OthersMapped, LifeSame DEF AgentStep
<1>5. Pending' = Pending /\ Severed' = Severed
  BY <1>1, SeveredSame DEF Pending, Unacted
<1> QED
  BY <1>1, <1>2, <1>4, <1>5 DEF Contract!Finish

(* Signals are acted on in order: in idle from the channel, after a task    *)
(* from the deferred ones.                                                  *)
LEMMA IdleSignalActs ==
  ASSUME AgentTypeOK, TaskInv, ShutdownRemembered, NEW a \in Agents, IdleSignal(a)
  PROVE  Contract!Act(a)
<1> DEFINE env == Head(signals[a])
<1>1. /\ pc[a] = "idle" /\ signals[a] # <<>> /\ ~ IsHaltOrShutdown(env)
      /\ RunHook(a, env) /\ (Answer(a, "idleReply", "idle") \/ Proceed(a, "idle"))
      /\ signals'[a] = Tail(signals[a])
      /\ UNCHANGED <<inbox, handle, outboxOpen, current, deferred>>
  BY DEF IdleSignal, HandleWhileIdle, AgentTypeOK
<1>2. ~ halted[a] /\ current[a] = None
  BY <1>1 DEF ShutdownRemembered, AgentTypeOK
<1>3. Life[a] = "alive" /\ Pending[a] = signals[a] /\ deferred[a] = <<>>
  BY <1>1, <1>2, Mapped, IdlePending DEF InTask, TaskInv
<1>4. pc'[a] \in {"idleReply", "idle"} /\ halted'[a] = halted[a]
  BY <1>1, AnswerMoves DEF RunHook, AgentTypeOK
<1>5. Life' = Life
  BY <1>1, <1>4, OthersMapped, LifeSame DEF AgentStep
<1>6. Life' = [Life EXCEPT ![a] = IF IsHaltOrShutdown(env) THEN "stopping" ELSE @]
  BY <1>1, <1>5 DEF Life
<1>7. Unacted(a)' = Tail(signals[a])
  <2>1. Tail(signals[a]) \in Seq(Envelope)
    BY <1>1 DEF AgentTypeOK
  <2> QED
    BY <1>1, <1>3, <2>1, TakeSecond DEF Unacted
<1>8. Pending' = [Pending EXCEPT ![a] = Tail(@)]
  BY <1>3, <1>7, OthersMapped, PendingChange DEF AgentStep
<1>9. Contract!Record(a, env)
  BY <1>1, HookRecords
<1> QED
  BY <1>1, <1>2, <1>3, <1>6, <1>8, <1>9, SeveredSame DEF Contract!Act

LEMMA IdleHaltActs ==
  ASSUME AgentTypeOK, TaskInv, ShutdownRemembered, NEW a \in Agents, IdleHaltSignal(a)
  PROVE  Contract!Act(a)
<1>1. /\ pc[a] = "idle" /\ signals[a] # <<>> /\ IsHaltOrShutdown(Head(signals[a]))
      /\ RunHook(a, Head(signals[a])) /\ Exit(a)
  BY DEF IdleHaltSignal
<1>2. ~ halted[a] /\ current[a] = None
  BY <1>1 DEF ShutdownRemembered, AgentTypeOK
<1>3. Life[a] = "alive" /\ Pending[a] = signals[a]
  BY <1>1, <1>2, Mapped, IdlePending DEF InTask
<1>4. Contract!End(a)
  BY <1>1, ExitEnds DEF AgentStep
<1> QED
  BY <1>1, <1>2, <1>3, <1>4, HookRecords DEF Contract!Act

LEMMA DrainActs ==
  ASSUME AgentTypeOK, NEW a \in Agents, DrainDeferred(a)
  PROVE  Contract!Act(a)
<1> DEFINE env == Head(deferred[a])
<1>1. /\ pc[a] = "draining" /\ deferred[a] # <<>> /\ RunHook(a, env)
      /\ Answer(a, "drainReply", "draining") \/ Proceed(a, "draining")
      /\ deferred'[a] = Tail(deferred[a])
      /\ UNCHANGED <<inbox, signals, handle, outboxOpen, current>>
      /\ deferred[a] \in Seq(Envelope) /\ signals[a] \in Seq(Envelope)
  BY DEF DrainDeferred, channelVars, AgentTypeOK
<1>2. current[a] = None /\ Life[a] # "over"
  BY <1>1, Mapped DEF AgentTypeOK
<1>3. /\ Pending[a] # <<>> /\ Head(Pending[a]) = env
      /\ Tail(Pending[a]) = Tail(deferred[a]) \o signals[a]
  <2>1. LET u == deferred[a] \o signals[a]
        IN  u # <<>> /\ Head(u) = env /\ Tail(u) = Tail(deferred[a]) \o signals[a]
    BY <1>1, TakeFirst
  <2>2. Pending[a] = deferred[a] \o signals[a]
    BY Mapped DEF Unacted
  <2> QED
    BY <2>1, <2>2
<1>4. Pending' = [Pending EXCEPT ![a] = Tail(@)]
  <2>1. Unacted(a)' = Tail(Pending[a])
    BY <1>1, <1>3 DEF Unacted
  <2> QED
    BY <2>1, OthersMapped, PendingChange DEF AgentStep
<1>5. pc'[a] \in {"drainReply", "draining"}
      /\ halted'[a] = (halted[a] \/ IsHaltOrShutdown(env))
  BY <1>1, AnswerMoves DEF RunHook, AgentTypeOK
<1>6. Life' = [Life EXCEPT ![a] = IF IsHaltOrShutdown(env) THEN "stopping" ELSE @]
  <2> DEFINE v == IF IsHaltOrShutdown(env) THEN "stopping" ELSE Life[a]
  <2>1. v = IF pc'[a] = "exited" THEN "over" ELSE IF halted'[a] THEN "stopping" ELSE "alive"
    BY <1>1, <1>5, Mapped
  <2> HIDE DEF v
  <2>2. Life' = [Life EXCEPT ![a] = v]
    BY <2>1, OthersMapped, LifeChange DEF AgentStep
  <2> QED
    BY <2>2 DEF v
<1>7. Contract!Record(a, env)
  BY <1>1, HookRecords
<1> HIDE DEF env
<1> QED
  BY <1>1, <1>2, <1>3, <1>4, <1>6, <1>7, SeveredSame DEF Contract!Act

(* Control signals from the inbox. *)
LEMMA InboxActs ==
  ASSUME AgentTypeOK, TaskInv, ShutdownRemembered, NEW a \in Agents,
         IdleInboxInterrupt(a) \/ IdleInboxHalt(a)
  PROVE  Contract!ActOnQueued(a)
<1> DEFINE env == Head(inbox[a])
<1>1. /\ pc[a] = "idle" /\ signals[a] = <<>> /\ inbox[a] # <<>> /\ RunHook(a, env)
      /\ IsControlSignal(env)
  BY DEF IdleInboxInterrupt, IdleInboxHalt, SignalsQuiet, HandleWhileIdle, IsControlSignal,
         IsHaltOrShutdown
<1>2. ~ halted[a] /\ current[a] = None
  BY <1>1 DEF ShutdownRemembered, AgentTypeOK
<1>3. Life[a] = "alive" /\ Pending[a] = <<>>
  BY <1>1, <1>2, Mapped, IdlePending DEF InTask
<1>4. Contract!Record(a, env)
  BY <1>1, HookRecords
<1>5. CASE IdleInboxHalt(a)
  <2>1. IsHaltOrShutdown(env) /\ Contract!End(a)
    BY <1>5, ExitEnds DEF IdleInboxHalt, AgentStep
  <2> QED
    BY <1>1, <1>2, <1>3, <1>4, <2>1 DEF Contract!ActOnQueued
<1>6. CASE IdleInboxInterrupt(a)
  <2>1. /\ ~ IsHaltOrShutdown(env)
        /\ (Answer(a, "idleReply", "idle") \/ Proceed(a, "idle"))
        /\ inbox' = [inbox EXCEPT ![a] = Tail(@)]
        /\ UNCHANGED <<signals, handle, outboxOpen, current, deferred>>
    BY <1>6 DEF IdleInboxInterrupt, HandleWhileIdle, IsHaltOrShutdown
  <2>2. pc'[a] \in {"idleReply", "idle"} /\ halted'[a] = halted[a]
    BY <1>1, <2>1, AnswerMoves DEF RunHook, AgentTypeOK
  <2>3. Life' = Life
    BY <1>1, <1>6, <2>2, OthersMapped, LifeSame DEF AgentStep
  <2>4. Pending' = Pending /\ Severed' = Severed
    BY <2>1, SeveredSame DEF Pending, Unacted
  <2> QED
    BY <1>1, <1>2, <1>3, <1>4, <2>1, <2>3, <2>4 DEF Contract!ActOnQueued
<1> QED
  BY <1>5, <1>6

(* The other ways out of the loop. *)
LEMMA ExitStops ==
  ASSUME AgentTypeOK, TaskInv, NEW a \in Agents,
         \/ IdleSignalsClosed(a) \/ IdleInboxClosed(a) \/ ResponseFails(a) \/ ExitAfterTask(a)
  PROVE  Contract!Stop(a)
<1>1. Exit(a) /\ UNCHANGED historyVars /\ pc[a] \notin {"accepted", "working", "exited"}
  BY DEF IdleSignalsClosed, IdleInboxClosed, ResponseFails, ExitAfterTask
<1>2. halted[a] \/ handle[a] # "open" \/ ~ outboxOpen
  <2>1. CASE ExitAfterTask(a)
    <3>1. InTask(a) /\ shouldShutdown[a] /\ deferred[a] = <<>>
      BY <2>1 DEF ExitAfterTask, InTask
    <3>2. ~ HaltDeferred(a)
      BY <3>1 DEF HaltDeferred
    <3> QED
      BY <3>1, <3>2 DEF TaskInv
  <2>2. CASE IdleSignalsClosed(a) \/ IdleInboxClosed(a) \/ ResponseFails(a)
    BY <2>2 DEF IdleSignalsClosed, IdleInboxClosed, ResponseFails
  <2> QED
    BY <2>1, <2>2
<1> QED
  BY <1>1, <1>2, StopProtocol DEF AgentStep

LEMMA AgentStepContract ==
  ASSUME AgentTypeOK, TaskInv, ShutdownRemembered, NEW a \in Agents, AgentStep(a)
  PROVE  [Contract!Next]_(Contract!vars)
<1>1. CASE DeferSignal(a)
  BY <1>1, DeferHidden
<1>2. CASE \/ SpinOnClosedSignals(a) \/ BeginMessage(a) \/ WorkUnit(a)
           \/ SendResponse(a) \/ SendInterruptReply(a) \/ NextIteration(a)
  BY <1>2, OtherHidden
<1>3. CASE AcceptMessage(a) \/ FinishMessage(a)
  <2>1. Contract!Start(a) \/ Contract!Finish(a)
    BY <1>3, AcceptStarts, FinishFinishes
  <2> QED
    BY <2>1 DEF Contract!Next
<1>4. CASE IdleSignal(a) \/ IdleHaltSignal(a) \/ DrainDeferred(a)
  <2>1. Contract!Act(a)
    BY <1>4, IdleSignalActs, IdleHaltActs, DrainActs
  <2> QED
    BY <2>1 DEF Contract!Next
<1>5. CASE IdleInboxInterrupt(a) \/ IdleInboxHalt(a)
  <2>1. Contract!ActOnQueued(a)
    BY <1>5, InboxActs
  <2> QED
    BY <2>1 DEF Contract!Next
<1>6. CASE IdleSignalsClosed(a) \/ IdleInboxClosed(a) \/ ResponseFails(a) \/ ExitAfterTask(a)
  <2>1. Contract!Stop(a)
    BY <1>6, ExitStops
  <2> QED
    BY <2>1 DEF Contract!Next
<1> QED
  BY <1>1, <1>2, <1>3, <1>4, <1>5, <1>6 DEF AgentStep

(* The host's steps: two ways to send, and letting go. *)
LEMMA HostEnvelope ==
  ASSUME AgentTypeOK, NEW a \in Agents, issued < MaxEnvelopes, NEW kind \in Kind
  PROVE  NewEnvelope(HostPayload(kind, a)) \in Envelope
  BY AgentLoopAssumption DEF NewEnvelope, HostPayload, Envelope, AgentTypeOK

LEMMA SendSends ==
  ASSUME AgentTypeOK, NEW a \in Agents, Send(a)
  PROVE  Contract!SendMessage(a)
<1>1. PICK kind \in InboxKinds :
        inbox' = [inbox EXCEPT ![a] = Append(@, NewEnvelope(HostPayload(kind, a)))]
  BY DEF Send
<1>2. NewEnvelope(HostPayload(kind, a)) \in Envelope
  BY HostEnvelope, AgentHostAssumption DEF Send
<1>3. UNCHANGED <<signals, deferred, current, pc, halted, handle, outboxOpen, acted, done>>
  BY DEF Send, taskVars, historyVars
<1>4. Pending' = Pending /\ Life' = Life /\ Severed' = Severed
  BY <1>3, SeveredSame DEF Pending, Unacted, Life
<1>5. Life[a] # "over"
  BY Mapped DEF Send
<1> QED
  BY <1>1, <1>2, <1>3, <1>4, <1>5 DEF Contract!SendMessage

LEMMA SignalSends ==
  ASSUME AgentTypeOK, NEW a \in Agents, Signal(a)
  PROVE  Contract!SendSignal(a)
<1>1. PICK kind \in SignalKinds :
        signals' = [signals EXCEPT ![a] = Append(@, NewEnvelope(HostPayload(kind, a)))]
  BY DEF Signal
<1> DEFINE env == NewEnvelope(HostPayload(kind, a))
<1>2. env \in Envelope
  BY HostEnvelope, AgentHostAssumption DEF Signal
<1> HIDE DEF env
<1>3. UNCHANGED <<inbox, deferred, current, pc, halted, handle, outboxOpen, acted, done>>
  BY DEF Signal, taskVars, historyVars
<1>4. Life' = Life /\ Severed' = Severed
  BY <1>3, SeveredSame DEF Life
<1>5. Life[a] # "over"
  BY Mapped DEF Signal
<1>6. Pending' = [Pending EXCEPT ![a] = Append(@, env)]
  <2>1. signals' = [signals EXCEPT ![a] = Append(signals[a], env)]
    BY <1>1 DEF env
  <2>2. /\ signals'[a] = Append(signals[a], env)
        /\ \A b \in Agents \ {a} : signals'[b] = signals[b]
        /\ signals[a] \in Seq(Envelope) /\ deferred[a] \in Seq(Envelope)
    BY <2>1 DEF AgentTypeOK
  <2>3. Unacted(a)' = Append(Unacted(a), env)
    <3>1. \A s, t \in Seq(Envelope) : s \o Append(t, env) = Append(s \o t, env)
      BY <1>2, PutLast
    <3>2. deferred[a] \o Append(signals[a], env) = Append(deferred[a] \o signals[a], env)
      BY <2>2, <3>1
    <3> QED
      BY <1>3, <2>2, <3>2 DEF Unacted
  <2>4. Pending' = [Pending EXCEPT ![a] = Append(Unacted(a), env)]
    BY <1>3, <2>2, <2>3, PendingChange
  <2> QED
    BY <2>4, Mapped
<1> QED
  BY <1>2, <1>3, <1>4, <1>5, <1>6 DEF Contract!SendSignal

LEMMA HostStepContract ==
  ASSUME AgentTypeOK,
         \/ \E a \in Agents : Send(a) \/ Signal(a) \/ DropHandle(a)
         \/ ReceiveResponse
         \/ DropOutbox
  PROVE  [Contract!Next]_(Contract!vars)
<1>1. ASSUME NEW a \in Agents, Send(a)
      PROVE  Contract!Next
  BY <1>1, SendSends DEF Contract!Next
<1>2. ASSUME NEW a \in Agents, Signal(a)
      PROVE  Contract!Next
  BY <1>2, SignalSends DEF Contract!Next
<1>3. ASSUME UNCHANGED <<inbox, signals, deferred, current, pc, halted, acted, done>>,
             \A b \in Agents : Severed[b] => Severed'[b]
      PROVE  Contract!Sever
  <2>1. Pending' = Pending /\ Life' = Life
    BY <1>3 DEF Pending, Unacted, Life
  <2>2. Severed' \in [Agents -> BOOLEAN]
    BY DEF Severed
  <2> QED
    BY <1>3, <2>1, <2>2 DEF Contract!Sever
<1>4. ASSUME NEW a \in Agents, DropHandle(a)
      PROVE  Contract!Next
  <2>1. /\ UNCHANGED <<inbox, signals, deferred, current, pc, halted, acted, done>>
        /\ \A b \in Agents : Severed[b] => Severed'[b]
    BY <1>4 DEF DropHandle, taskVars, historyVars, Severed, AgentTypeOK
  <2> QED
    BY <1>3, <2>1 DEF Contract!Next
<1>5. CASE DropOutbox
  <2>1. /\ UNCHANGED <<inbox, signals, deferred, current, pc, halted, acted, done>>
        /\ \A b \in Agents : Severed[b] => Severed'[b]
    BY <1>5 DEF DropOutbox, taskVars, historyVars, Severed
  <2> QED
    BY <1>3, <2>1 DEF Contract!Next
<1>6. CASE ReceiveResponse
  BY <1>6 DEF ReceiveResponse, taskVars, historyVars, Contract!vars, Pending, Unacted, Life,
              Severed
<1> QED
  BY <1>1, <1>2, <1>4, <1>5, <1>6

LEMMA NextTask ==
  ASSUME TypeOK, TaskInv, [Next]_agentVars
  PROVE  TaskInv'
<1>1. ASSUME NEW a \in Agents, AgentStep(a)
      PROVE  TaskInv'
  BY <1>1, AgentStepTask DEF TypeOK
<1>2. ASSUME \A b \in Agents : SameTask(b)
      PROVE  TaskInv'
  BY <1>2, SameTaskInv DEF TaskInv
<1>3. ASSUME NEW a \in Agents, Send(a) \/ Signal(a) \/ DropHandle(a)
      PROVE  \A b \in Agents : SameTask(b)
  BY <1>3 DEF Send, Signal, DropHandle, taskVars, historyVars, SameTask, TypeOK, AgentTypeOK
<1>4. CASE ReceiveResponse \/ DropOutbox
  BY <1>2, <1>4 DEF ReceiveResponse, DropOutbox, taskVars, historyVars, SameTask
<1>5. CASE UNCHANGED agentVars
  BY <1>2, <1>5 DEF agentVars, channelVars, taskVars, historyVars, SameTask
<1> QED
  BY <1>1, <1>2, <1>3, <1>4, <1>5 DEF Next

(* Every run of the agents is, seen from outside, one that AgentContract    *)
(* allows: signals are acted on once each and in their order of arrival,    *)
(* none while a message is being handled (agent.rs:343-402); messages are   *)
(* taken in order and only when no signal waits (agent.rs:165-196); an      *)
(* agent ends only after a halt or when it was let go of.                   *)
THEOREM HostImplementsContract == Spec => ImplementsContract
<1>1. Init => TaskInv /\ ShutdownRemembered /\ Contract!Init
  <2>1. Init => TaskInv /\ ShutdownRemembered
    BY DEF Init, AgentInit, TaskInv, InTask, ShutdownRemembered
  <2>2. ASSUME Init
        PROVE  Contract!Init
    <3>1. <<>> \in Seq(Envelope)
      OBVIOUS
    <3>2. \A a \in Agents : Unacted(a) = <<>>
      BY <2>2, <3>1, TakeSecond DEF Init, AgentInit, Unacted
    <3>3. Pending = [a \in Agents |-> <<>>]
      BY <3>2 DEF Pending
    <3>4. Life = [a \in Agents |-> "alive"] /\ Severed = [a \in Agents |-> FALSE]
      BY <2>2 DEF Init, AgentInit, Life, Severed
    <3> QED
      BY <2>2, <3>3, <3>4 DEF Init, AgentInit, Contract!Init
  <2> QED
    BY <2>1, <2>2
<1>2. TypeOK /\ TaskInv /\ ShutdownRemembered /\ [Next]_agentVars
        => TaskInv' /\ ShutdownRemembered'
  BY NextTask, NextRemembers
<1>3. TypeOK /\ TaskInv /\ ShutdownRemembered /\ [Next]_agentVars
        => [Contract!Next]_(Contract!vars)
  <2> SUFFICES ASSUME TypeOK, TaskInv, ShutdownRemembered, [Next]_agentVars
               PROVE  [Contract!Next]_(Contract!vars)
    OBVIOUS
  <2>1. CASE UNCHANGED agentVars
    BY <2>1 DEF agentVars, channelVars, taskVars, historyVars, Contract!vars, Pending, Unacted,
                Life, Severed
  <2> QED
    BY <2>1, AgentStepContract, HostStepContract DEF Next, TypeOK
<1> QED
  BY <1>1, <1>2, <1>3, TypeCorrect, PTL DEF Spec, ImplementsContract, Contract!Spec
=============================================================================
