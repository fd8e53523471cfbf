-------------------------- MODULE AgentLoopProofs --------------------------
(***************************************************************************)
(* Facts about the agents' own steps that hold for every set of agents and *)
(* every capacity, whoever drives the agents. AgentHostProofs and          *)
(* SwarmProofs cite them for their specifications.                         *)
(***************************************************************************)
EXTENDS AgentLoop, TLAPS

(* The initial state of the agents has the right types. *)
LEMMA AgentInitType == AgentInit => AgentTypeOK
  BY AgentLoopAssumption DEF AgentInit, AgentTypeOK, Phase

(* What a handler may return is nothing or a fresh, well-typed envelope. *)
LEMMA ResponseType ==
  ASSUME AgentTypeOK, NEW r \in Response
  PROVE  /\ r \in Envelope \cup {None}
         /\ r # None => issued + 1 \in 0 .. MaxEnvelopes
<1>1. CASE r = None
  BY <1>1
<1>2. CASE r # None
  <2>1. issued < MaxEnvelopes /\ \E p \in Replies : r = NewEnvelope(p)
    BY <1>2 DEF Response
  <2>2. PICK p \in Replies : r = NewEnvelope(p)
    BY <2>1
  <2>3. p \in Payload
    BY AgentLoopAssumption
  <2>4. issued + 1 \in 1 .. MaxEnvelopes
    BY <2>1, AgentLoopAssumption DEF AgentTypeOK
  <2>5. r \in Envelope
    BY <2>2, <2>3, <2>4 DEF NewEnvelope, Payload, Envelope
  <2> QED
    BY <2>4, <2>5
<1> QED
  BY <1>1, <1>2

(* Head and Tail of a channel that is not empty. *)
LEMMA ChannelType ==
  ASSUME NEW S, NEW q \in Seq(S), q # <<>>
  PROVE  Head(q) \in S /\ Tail(q) \in Seq(S) /\ Len(Tail(q)) < Len(q)
  OBVIOUS

LEMMA AppendType ==
  ASSUME NEW S, NEW q \in Seq(S), NEW e \in S
  PROVE  Append(q, e) \in Seq(S) /\ Len(Append(q, e)) = Len(q) + 1
  OBVIOUS

(* Leaving the loop between messages keeps the types. *)
LEMMA ExitType ==
  ASSUME AgentTypeOK, NEW a \in Agents, pc[a] \notin {"accepted", "working"}, Exit(a),
         acted' \in [Agents -> Seq(1 .. MaxEnvelopes)],
         done' \in [Agents -> Seq(1 .. MaxEnvelopes)],
         halted' \in [Agents -> BOOLEAN]
  PROVE  AgentTypeOK'
<1> USE AgentLoopAssumption
<1>1. /\ inbox' \in [Agents -> Seq(Envelope)]
      /\ signals' \in [Agents -> Seq(Envelope)]
      /\ deferred' \in [Agents -> Seq(Envelope)]
      /\ reply' \in [Agents -> Envelope \cup {None}]
      /\ pc' \in [Agents -> Phase]
  BY DEF AgentTypeOK, Exit, Phase
<1>2. \A b \in Agents :
        /\ Len(inbox[b])' <= InboxCapacity
        /\ Len(signals[b])' <= SignalCapacity
        /\ current'[b] # None <=> pc'[b] \in {"accepted", "working"}
        /\ reply'[b] # None <=> pc'[b] \in {"responding", "idleReply", "drainReply"}
  <2> SUFFICES ASSUME NEW b \in Agents
               PROVE  /\ Len(inbox'[b]) <= InboxCapacity
                      /\ Len(signals'[b]) <= SignalCapacity
                      /\ current'[b] # None <=> pc'[b] \in {"accepted", "working"}
                      /\ reply'[b] # None <=> pc'[b] \in {"responding", "idleReply", "drainReply"}
    OBVIOUS
  <2>1. CASE b = a
    BY <2>1 DEF AgentTypeOK, Exit
  <2>2. CASE b # a
    BY <2>2 DEF AgentTypeOK, Exit
  <2> QED
    BY <2>1, <2>2
<1> QED
  BY <1>1, <1>2 DEF AgentTypeOK, Exit

(* The hooks only extend the record of signals acted on. *)
LEMMA HookType ==
  ASSUME AgentTypeOK, NEW a \in Agents, NEW env \in Envelope, RunHook(a, env)
  PROVE  /\ acted' \in [Agents -> Seq(1 .. MaxEnvelopes)]
         /\ done' \in [Agents -> Seq(1 .. MaxEnvelopes)]
         /\ halted' \in [Agents -> BOOLEAN]
<1>1. acted[a] \in Seq(1 .. MaxEnvelopes) /\ env.id \in 1 .. MaxEnvelopes
  BY DEF AgentTypeOK, Envelope
<1>2. Append(acted[a], env.id) \in Seq(1 .. MaxEnvelopes)
  BY <1>1, AppendType
<1> QED
  BY <1>1, <1>2 DEF AgentTypeOK, RunHook, IsHaltOrShutdown

Answering == {"responding", "idleReply", "drainReply"}

(* Returning from a handler keeps the types. *)
LEMMA AnswerType ==
  ASSUME AgentTypeOK, NEW a \in Agents, NEW w \in Answering, NEW n \in {"idle", "draining"},
         Answer(a, w, n)
  PROVE  /\ reply' \in [Agents -> Envelope \cup {None}]
         /\ issued' \in 0 .. MaxEnvelopes
         /\ pc' \in [Agents -> Phase]
         /\ pc'[a] \in Answering \cup {"idle", "draining"}
         /\ \A b \in Agents : b # a => pc'[b] = pc[b]
         /\ \A b \in Agents : reply'[b] # None <=> pc'[b] \in Answering
<1>1. PICK r \in Response :
        /\ reply' = [reply EXCEPT ![a] = r]
        /\ issued' = IF r = None THEN issued ELSE issued + 1
        /\ pc' = [pc EXCEPT ![a] = IF r = None THEN n ELSE w]
  BY DEF Answer
<1>2. r \in Envelope \cup {None} /\ (r # None => issued + 1 \in 0 .. MaxEnvelopes)
  BY ResponseType
<1>3. w \in Phase /\ n \in Phase
  BY DEF Phase, Answering
<1>4. CASE r = None
  BY <1>1, <1>2, <1>3, <1>4 DEF AgentTypeOK, Answering
<1>5. CASE r # None
  BY <1>1, <1>2, <1>3, <1>5 DEF AgentTypeOK, Answering
<1> QED
  BY <1>4, <1>5

(* A control signal handled while idle: all but the two channels. *)
LEMMA IdleType ==
  ASSUME AgentTypeOK, NEW a \in Agents, NEW env \in Envelope, pc[a] = "idle",
         HandleWhileIdle(a, env)
  PROVE  /\ acted' \in [Agents -> Seq(1 .. MaxEnvelopes)]
         /\ done' \in [Agents -> Seq(1 .. MaxEnvelopes)]
         /\ halted' \in [Agents -> BOOLEAN]
         /\ reply' \in [Agents -> Envelope \cup {None}]
         /\ issued' \in 0 .. MaxEnvelopes
         /\ pc' \in [Agents -> Phase]
         /\ pc'[a] \notin {"accepted", "working"}
         /\ \A b \in Agents : b # a => pc'[b] = pc[b]
         /\ \A b \in Agents :
              reply'[b] # None <=> pc'[b] \in {"responding", "idleReply", "drainReply"}
<1>1. CASE Answer(a, "idleReply", "idle")
  BY <1>1, HookType, AnswerType DEF HandleWhileIdle, Answering
<1>2. CASE Proceed(a, "idle")
  BY <1>2, HookType DEF HandleWhileIdle, Proceed, AgentTypeOK, Phase
<1> QED
  BY <1>1, <1>2 DEF HandleWhileIdle

(* ... and the channel the signal was taken from. *)
LEMMA IdleStepType ==
  ASSUME AgentTypeOK, NEW a \in Agents, NEW env \in Envelope, pc[a] = "idle",
         HandleWhileIdle(a, env),
         inbox' \in [Agents -> Seq(Envelope)],
         signals' \in [Agents -> Seq(Envelope)],
         \A b \in Agents : /\ Len(inbox'[b]) <= InboxCapacity
                           /\ Len(signals'[b]) <= SignalCapacity
  PROVE  AgentTypeOK'
<1>1. UNCHANGED <<handle, outbox, outboxOpen, current, work, cancelToken, deferred,
                  unseen, shouldShutdown>>
  BY DEF HandleWhileIdle
<1>2. \A b \in Agents : current'[b] # None <=> pc'[b] \in {"accepted", "working"}
  <2>1. \A b \in Agents : current[b] # None <=> pc[b] \in {"accepted", "working"}
    BY DEF AgentTypeOK
  <2>2. pc'[a] \notin {"accepted", "working"} /\ \A b \in Agents : b # a => pc'[b] = pc[b]
    BY IdleType
  <2> QED
    BY <1>1, <2>1, <2>2
<1>3. \A b \in Agents :
        /\ Len(inbox'[b]) <= InboxCapacity
        /\ Len(signals'[b]) <= SignalCapacity
        /\ current'[b] # None <=> pc'[b] \in {"accepted", "working"}
        /\ reply'[b] # None <=> pc'[b] \in {"responding", "idleReply", "drainReply"}
  BY <1>2, IdleType
<1>4. /\ outbox' \in Seq(Envelope) /\ Len(outbox') <= OutboxCapacity
      /\ outboxOpen' \in BOOLEAN
      /\ handle' \in [Agents -> {"open", "closing", "closed"}]
      /\ current' \in [Agents -> Envelope \cup {None}]
      /\ work' \in [Agents -> 0 .. WorkUnits]
      /\ cancelToken' \in [Agents -> BOOLEAN]
      /\ deferred' \in [Agents -> Seq(Envelope)]
      /\ unseen' \in [Agents -> Nat]
      /\ shouldShutdown' \in [Agents -> BOOLEAN]
  BY <1>1 DEF AgentTypeOK
<1> QED
  BY <1>3, <1>4, IdleType DEF AgentTypeOK

(* Every step of every agent keeps the types and the capacities. *)
LEMMA AgentStepType ==
  ASSUME AgentTypeOK, NEW a \in Agents, AgentStep(a)
  PROVE  AgentTypeOK'
<1> USE AgentLoopAssumption
<1> DEFINE H == Head(signals[a])
           I == Head(inbox[a])
<1>a. signals[a] # <<>> =>
        /\ H \in Envelope
        /\ Tail(signals[a]) \in Seq(Envelope)
        /\ Len(Tail(signals[a])) <= SignalCapacity
  BY ChannelType DEF AgentTypeOK
<1>b. inbox[a] # <<>> =>
        /\ I \in Envelope
        /\ Tail(inbox[a]) \in Seq(Envelope)
        /\ Len(Tail(inbox[a])) <= InboxCapacity
  BY ChannelType DEF AgentTypeOK
<1>1. CASE IdleSignal(a)
  <2>1. H \in Envelope /\ HandleWhileIdle(a, H) /\ pc[a] = "idle"
    BY <1>1, <1>a DEF IdleSignal
  <2>2. /\ inbox' \in [Agents -> Seq(Envelope)]
        /\ signals' \in [Agents -> Seq(Envelope)]
        /\ \A b \in Agents : /\ Len(inbox'[b]) <= InboxCapacity
                             /\ Len(signals'[b]) <= SignalCapacity
    BY <1>1, <1>a DEF IdleSignal, AgentTypeOK
  <2> QED
    BY <2>1, <2>2, IdleStepType
<1>2. CASE IdleHaltSignal(a)
  BY <1>2, <1>a, HookType, ExitType DEF IdleHaltSignal
<1>3. CASE IdleSignalsClosed(a)
  BY <1>3, ExitType DEF IdleSignalsClosed, historyVars, AgentTypeOK
<1>4. CASE IdleInboxInterrupt(a)
  <2>1. I \in Envelope /\ HandleWhileIdle(a, I) /\ pc[a] = "idle"
    BY <1>4, <1>b DEF IdleInboxInterrupt
  <2>2. /\ inbox' \in [Agents -> Seq(Envelope)]
        /\ signals' \in [Agents -> Seq(Envelope)]
        /\ \A b \in Agents : /\ Len(inbox'[b]) <= InboxCapacity
                             /\ Len(signals'[b]) <= SignalCapacity
    BY <1>4, <1>b DEF IdleInboxInterrupt, AgentTypeOK
  <2> QED
    BY <2>1, <2>2, IdleStepType
<1>5. CASE IdleInboxHalt(a)
  BY <1>5, <1>b, HookType, ExitType DEF IdleInboxHalt
<1>6. CASE IdleInboxClosed(a)
  BY <1>6, ExitType DEF IdleInboxClosed, historyVars, AgentTypeOK
<1>7. CASE AcceptMessage(a)
  BY <1>7, <1>b DEF AcceptMessage, AgentTypeOK, Phase, historyVars
<1>8. CASE DeferSignal(a)
  <2>1. Append(deferred[a], H) \in Seq(Envelope)
    BY <1>8, <1>a, AppendType DEF DeferSignal, AgentTypeOK
  <2> QED
    BY <1>8, <1>a, <2>1 DEF DeferSignal, AgentTypeOK, historyVars, IsControlSignal, IsHaltOrShutdown
<1>9. CASE SpinOnClosedSignals(a)
  BY <1>9 DEF SpinOnClosedSignals, AgentTypeOK, channelVars, historyVars
<1>10. CASE BeginMessage(a)
  BY <1>10 DEF BeginMessage, AgentTypeOK, Phase, channelVars, historyVars
<1>11. CASE WorkUnit(a)
  <2>1. work' \in [Agents -> 0 .. WorkUnits]
    <3>1. work[a] \in 0 .. WorkUnits /\ work[a] < WorkUnits /\ WorkUnits \in Nat
      BY <1>11 DEF WorkUnit, AgentTypeOK
    <3>2. work[a] + 1 \in 0 .. WorkUnits
      BY <3>1
    <3> QED
      BY <1>11, <3>2 DEF WorkUnit, AgentTypeOK
  <2>2. UNCHANGED <<channelVars, pc, current, cancelToken, deferred, unseen, shouldShutdown,
                    reply, issued, historyVars>>
    BY <1>11 DEF WorkUnit
  <2> QED
    BY <2>1, <2>2 DEF AgentTypeOK, channelVars, historyVars
<1>12. CASE FinishMessage(a)
  <2>1. current[a].id \in 1 .. MaxEnvelopes /\ done[a] \in Seq(1 .. MaxEnvelopes)
    BY <1>12 DEF FinishMessage, AgentTypeOK, Envelope
  <2>2. done' \in [Agents -> Seq(1 .. MaxEnvelopes)]
    BY <1>12, <2>1, AppendType DEF FinishMessage, AgentTypeOK
  <2>3. Answer(a, "responding", "draining")
    BY <1>12 DEF FinishMessage
  <2>4. /\ reply' \in [Agents -> Envelope \cup {None}]
        /\ issued' \in 0 .. MaxEnvelopes
        /\ pc' \in [Agents -> Phase]
        /\ pc'[a] \in Answering \cup {"idle", "draining"}
        /\ \A b \in Agents : b # a => pc'[b] = pc[b]
        /\ \A b \in Agents : reply'[b] # None <=> pc'[b] \in Answering
    BY <2>3, AnswerType DEF Answering
  <2>5. \A b \in Agents : current'[b] # None <=> pc'[b] \in {"accepted", "working"}
    BY <1>12, <2>4 DEF FinishMessage, AgentTypeOK, Answering
  <2>6. /\ current' \in [Agents -> Envelope \cup {None}]
        /\ work' \in [Agents -> 0 .. WorkUnits]
        /\ unseen' \in [Agents -> Nat]
    BY <1>12 DEF FinishMessage, AgentTypeOK
  <2>7. UNCHANGED <<channelVars, cancelToken, deferred, shouldShutdown, acted, halted>>
    BY <1>12 DEF FinishMessage
  <2> QED
    BY <2>2, <2>4, <2>5, <2>6, <2>7 DEF AgentTypeOK, channelVars, Answering
<1>13. CASE SendResponse(a)
  <2>1. outbox' \in Seq(Envelope) /\ Len(outbox') <= OutboxCapacity
    BY <1>13, AppendType DEF SendResponse, SendToOutbox, AgentTypeOK
  <2> QED
    BY <1>13, <2>1 DEF SendResponse, AgentTypeOK, Phase, historyVars
<1>14. CASE ResponseFails(a)
  BY <1>14, ExitType DEF ResponseFails, historyVars, AgentTypeOK
<1>15. CASE DrainDeferred(a)
  <2> DEFINE D == Head(deferred[a])
  <2>1. D \in Envelope /\ Tail(deferred[a]) \in Seq(Envelope)
    BY <1>15, ChannelType DEF DrainDeferred, AgentTypeOK
  <2>2. /\ acted' \in [Agents -> Seq(1 .. MaxEnvelopes)]
        /\ done' \in [Agents -> Seq(1 .. MaxEnvelopes)]
        /\ halted' \in [Agents -> BOOLEAN]
    BY <1>15, <2>1, HookType DEF DrainDeferred
  <2>3. /\ reply' \in [Agents -> Envelope \cup {None}]
        /\ issued' \in 0 .. MaxEnvelopes
        /\ pc' \in [Agents -> Phase]
        /\ pc'[a] \in Answering \cup {"idle", "draining"}
        /\ \A b \in Agents : b # a => pc'[b] = pc[b]
        /\ \A b \in Agents : reply'[b] # None <=> pc'[b] \in Answering
    <3>1. CASE Answer(a, "drainReply", "draining")
      BY <3>1, AnswerType DEF Answering
    <3>2. CASE Proceed(a, "draining")
      BY <1>15, <3>2 DEF DrainDeferred, Proceed, AgentTypeOK, Phase, Answering
    <3> QED
      BY <1>15, <3>1, <3>2 DEF DrainDeferred
  <2>4. deferred' \in [Agents -> Seq(Envelope)] /\ shouldShutdown' \in [Agents -> BOOLEAN]
    BY <1>15, <2>1 DEF DrainDeferred, AgentTypeOK, IsHaltOrShutdown
  <2>5. pc[a] = "draining" /\ UNCHANGED <<channelVars, current, work, cancelToken, unseen>>
    BY <1>15 DEF DrainDeferred
  <2>6. \A b \in Agents : current'[b] # None <=> pc'[b] \in {"accepted", "working"}
    BY <2>3, <2>5 DEF AgentTypeOK, Answering
  <2>7. \A b \in Agents : reply'[b] # None <=> pc'[b] \in {"responding", "idleReply", "drainReply"}
    BY <2>3 DEF Answering
  <2>8. UNCHANGED <<inbox, signals, handle, outbox, outboxOpen, current, work, cancelToken, unseen>>
    BY <2>5 DEF channelVars
  <2>9. \A b \in Agents :
          /\ Len(inbox'[b]) <= InboxCapacity
          /\ Len(signals'[b]) <= SignalCapacity
          /\ current'[b] # None <=> pc'[b] \in {"accepted", "working"}
          /\ reply'[b] # None <=> pc'[b] \in {"responding", "idleReply", "drainReply"}
    BY <2>6, <2>7, <2>8 DEF AgentTypeOK
  <2>10. /\ inbox' \in [Agents -> Seq(Envelope)]
         /\ signals' \in [Agents -> Seq(Envelope)]
         /\ outbox' \in Seq(Envelope) /\ Len(outbox') <= OutboxCapacity
         /\ outboxOpen' \in BOOLEAN
         /\ handle' \in [Agents -> {"open", "closing", "closed"}]
         /\ current' \in [Agents -> Envelope \cup {None}]
         /\ work' \in [Agents -> 0 .. WorkUnits]
         /\ cancelToken' \in [Agents -> BOOLEAN]
         /\ unseen' \in [Agents -> Nat]
    BY <2>8 DEF AgentTypeOK
  <2> QED
    BY <2>2, <2>3, <2>4, <2>9, <2>10 DEF AgentTypeOK
<1>16. CASE SendInterruptReply(a)
  <2>1. outbox' \in Seq(Envelope) /\ Len(outbox') <= OutboxCapacity
    <3>1. reply[a] \in Envelope
      BY <1>16 DEF SendInterruptReply, AgentTypeOK
    <3>2. CASE SendToOutbox(a)
      BY <3>1, <3>2, AppendType DEF SendToOutbox, AgentTypeOK
    <3>3. CASE UNCHANGED outbox
      BY <3>3 DEF AgentTypeOK
    <3> QED
      BY <1>16, <3>2, <3>3 DEF SendInterruptReply
  <2> QED
    BY <1>16, <2>1 DEF SendInterruptReply, AgentTypeOK, Phase, historyVars
<1>17. CASE NextIteration(a)
  BY <1>17 DEF NextIteration, AgentTypeOK, Phase, channelVars, historyVars
<1>18. CASE ExitAfterTask(a)
  BY <1>18, ExitType DEF ExitAfterTask, historyVars, AgentTypeOK
<1> QED
  BY <1>1, <1>2, <1>3, <1>4, <1>5, <1>6, <1>7, <1>8, <1>9, <1>10, <1>11, <1>12, <1>13,
     <1>14, <1>15, <1>16, <1>17, <1>18 DEF AgentStep

-----------------------------------------------------------------------------
(* Two queues read one after the other.                                     *)
LEMMA TakeFirst ==
  ASSUME NEW S, NEW s \in Seq(S), NEW t \in Seq(S), s # <<>>
  PROVE  s \o t # <<>> /\ Head(s \o t) = Head(s) /\ Tail(s \o t) = Tail(s) \o t
  OBVIOUS

LEMMA TakeSecond ==
  ASSUME NEW S, NEW t \in Seq(S)
  PROVE  <<>> \o t = t
  OBVIOUS

LEMMA PutLast ==
  ASSUME NEW S, NEW s \in Seq(S), NEW t \in Seq(S), NEW e \in S
  PROVE  s \o Append(t, e) = Append(s \o t, e)
  OBVIOUS

LEMMA MoveOver ==
  ASSUME NEW S, NEW s \in Seq(S), NEW t \in Seq(S), t # <<>>
  PROVE  Append(s, Head(t)) \o Tail(t) = s \o t
  OBVIOUS

(* A hook shuts down its own agent only, and only for a halt or a shutdown. *)
LEMMA HookHalts ==
  ASSUME AgentTypeOK, NEW a \in Agents, NEW env, RunHook(a, env), NEW b \in Agents,
         halted'[b]
  PROVE  halted[b] \/ (b = a /\ IsHaltOrShutdown(env))
  BY DEF RunHook, AgentTypeOK

(* After a handler its agent sends the answer or goes on; no other moves. *)
LEMMA AnswerMoves ==
  ASSUME AgentTypeOK, NEW a \in Agents, NEW waiting, NEW next,
         Answer(a, waiting, next) \/ Proceed(a, next)
  PROVE  /\ pc'[a] \in {waiting, next}
         /\ \A b \in Agents : b # a => pc'[b] = pc[b]
  BY DEF Answer, Proceed, AgentTypeOK

(* What an agent's step leaves alone of the others. *)
LEMMA OthersKeep ==
  ASSUME AgentTypeOK, NEW a \in Agents, AgentStep(a), NEW b \in Agents, b # a
  PROVE  UNCHANGED <<inbox[b], signals[b], handle, pc[b], current[b], deferred[b],
                     shouldShutdown[b], reply[b], acted[b], done[b], halted[b]>>
<1> USE DEF AgentTypeOK, channelVars, historyVars
<1>1. CASE \/ IdleHaltSignal(a) \/ IdleInboxHalt(a) \/ IdleSignalsClosed(a)
           \/ IdleInboxClosed(a) \/ ResponseFails(a) \/ ExitAfterTask(a)
  BY <1>1 DEF IdleHaltSignal, IdleInboxHalt, IdleSignalsClosed, IdleInboxClosed, ResponseFails,
              ExitAfterTask, Exit, RunHook
<1>2. CASE IdleSignal(a) \/ IdleInboxInterrupt(a)
  BY <1>2 DEF IdleSignal, IdleInboxInterrupt, HandleWhileIdle, RunHook, Answer, Proceed
<1>3. CASE AcceptMessage(a) \/ SendResponse(a) \/ SendInterruptReply(a) \/ NextIteration(a)
  BY <1>3 DEF AcceptMessage, SendResponse, SendInterruptReply, NextIteration
<1>4. CASE DeferSignal(a) \/ SpinOnClosedSignals(a) \/ BeginMessage(a) \/ WorkUnit(a)
  BY <1>4 DEF DeferSignal, SpinOnClosedSignals, BeginMessage, WorkUnit
<1>5. CASE FinishMessage(a)
  BY <1>5 DEF FinishMessage, Answer
<1>6. CASE DrainDeferred(a)
  BY <1>6 DEF DrainDeferred, RunHook, Answer, Proceed
<1> QED
  BY <1>1, <1>2, <1>3, <1>4, <1>5, <1>6 DEF AgentStep
=============================================================================
