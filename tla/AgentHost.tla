----------------------------- MODULE AgentHost -----------------------------
(***************************************************************************)
(* Agents driven through their AgentHandles by a caller that owns them and *)
(* the receiving end of the outbox, as the tests of src/actor/agent.rs do: *)
(* it sends messages, interrupts and halts, drains the outbox, and may     *)
(* drop the handles or the outbox at any time.                             *)
(***************************************************************************)
EXTENDS AgentLoop

CONSTANTS
  InboxKinds,      (* kinds the host sends on inbox_tx                       *)
  SignalKinds,     (* kinds the host sends on signal_tx                      *)
  MayDropHandles,  (* the host may drop an AgentHandle                       *)
  MayDropOutbox    (* the host may drop the outbox receiver                  *)

ASSUME AgentHostAssumption ==
  /\ InboxKinds \subseteq Kind
  /\ SignalKinds \subseteq Kind
  /\ MayDropHandles \in BOOLEAN
  /\ MayDropOutbox \in BOOLEAN

HostPayload(kind, a) == [kind |-> kind, to |-> a]

Init == AgentInit

(* AgentHandle::send. A send to a finished task is an error and no step. *)
Send(a) ==
  /\ handle[a] = "open"
  /\ pc[a] # "exited"
  /\ Len(inbox[a]) < InboxCapacity
  /\ issued < MaxEnvelopes
  /\ \E kind \in InboxKinds :
       inbox' = [inbox EXCEPT ![a] = Append(@, NewEnvelope(HostPayload(kind, a)))]
  /\ issued' = issued + 1
  /\ UNCHANGED <<signals, handle, outbox, outboxOpen, taskVars, historyVars>>

(* AgentHandle::interrupt, AgentHandle::halt, or a send on signal_tx itself. *)
Signal(a) ==
  /\ handle[a] = "open"
  /\ pc[a] # "exited"
  /\ Len(signals[a]) < SignalCapacity
  /\ issued < MaxEnvelopes
  /\ \E kind \in SignalKinds :
       signals' = [signals EXCEPT ![a] = Append(@, NewEnvelope(HostPayload(kind, a)))]
  /\ issued' = issued + 1
  /\ UNCHANGED <<inbox, handle, outbox, outboxOpen, taskVars, historyVars>>

(* Dropping an AgentHandle drops inbox_tx, then signal_tx. *)
DropHandle(a) ==
  /\ MayDropHandles
  /\ handle[a] # "closed"
  /\ handle' = [handle EXCEPT ![a] = IF @ = "open" THEN "closing" ELSE "closed"]
  /\ UNCHANGED <<inbox, signals, outbox, outboxOpen, taskVars, issued, historyVars>>

ReceiveResponse ==
  /\ outbox # <<>>
  /\ outbox' = Tail(outbox)
  /\ UNCHANGED <<inbox, signals, handle, outboxOpen, taskVars, issued, historyVars>>

DropOutbox ==
  /\ MayDropOutbox
  /\ outboxOpen
  /\ outboxOpen' = FALSE
  /\ outbox' = <<>>
  /\ UNCHANGED <<inbox, signals, handle, taskVars, issued, historyVars>>

Next ==
  \/ \E a \in Agents : AgentStep(a) \/ Send(a) \/ Signal(a) \/ DropHandle(a)
  \/ ReceiveResponse
  \/ DropOutbox

Spec == Init /\ [][Next]_agentVars

(* The runtime polls every ready task, and the host keeps draining the     *)
(* outbox; nothing obliges it to send or to drop anything.                 *)
FairSpec ==
  /\ Spec
  /\ \A a \in Agents : WF_agentVars(AgentStep(a))
  /\ WF_agentVars(ReceiveResponse)

-----------------------------------------------------------------------------
(* Type correctness of the agents' state; see AgentTypeOK. *)
TypeOK == AgentTypeOK

(* The shutdown() hook is the end of the work: once it has run, from either *)
(* channel or from the deferred signals (agent.rs:178-187, 389-402), the    *)
(* task is only emptying its deferred signals or gone, and no message is    *)
(* being handled.                                                           *)
NoWorkAfterShutdown ==
  \A a \in Agents : halted[a] => pc[a] \in {"draining", "drainReply", "exited"}

(* A control signal that arrives while handle_message is under way, after   *)
(* its first poll, keeps the cancel token set until handle_message returns  *)
(* (agent.rs:343-356, 529).                                                 *)
CancelAfterStart ==
  \A a \in Agents : pc[a] = "working" =>
    \A i \in unseen[a] + 1 .. Len(deferred[a]) :
      IsControlSignal(deferred[a][i]) => cancelToken[a]

(* The doc of spawn_agent (agent.rs:244-245, 260-261) has handle_message    *)
(* see every signal deferred during its processing phase. It does not: one  *)
(* deferred before the first poll is wiped out by the token's reset.        *)
CancelSeen ==
  \A a \in Agents : pc[a] = "working" =>
    \A i \in 1 .. Len(deferred[a]) :
      IsControlSignal(deferred[a][i]) => cancelToken[a]

(* "After handle_message completes, deferred signals are processed"         *)
(* (agent.rs:246-247): no task ends with some still to act on. It does when *)
(* the response cannot be sent.                                             *)
DeferredProcessed ==
  [][\A a \in Agents : pc[a] # "exited" /\ pc'[a] = "exited" => deferred[a] = <<>>]_agentVars

-----------------------------------------------------------------------------
(* What the loop promises its callers: the signals not acted on yet are the *)
(* deferred ones and then those still in the channel.                       *)
Unacted(a) == deferred[a] \o signals[a]

Pending == [a \in Agents |-> Unacted(a)]
Life == [a \in Agents |-> IF pc[a] = "exited" THEN "over"
                          ELSE IF halted[a] THEN "stopping" ELSE "alive"]
Severed == [a \in Agents |-> handle[a] # "open" \/ ~ outboxOpen]

Contract == INSTANCE AgentContract WITH
  queue <- inbox, pending <- Pending, task <- current, life <- Life, severed <- Severed

(* The event loop implements AgentContract: signals are acted on in their   *)
(* order of arrival, none skipped, none while a message is being handled;   *)
(* messages are taken in order, and only when no signal is waiting.         *)
ImplementsContract == Contract!Spec

-----------------------------------------------------------------------------
(* While its handle lives and its outbox is drained, an agent acts on every *)
(* control signal it was sent, however busy it was, or has ended.           *)
SignalsActedOn ==
  \A a \in Agents : \A id \in 1 .. MaxEnvelopes :
    (\E i \in DOMAIN Unacted(a) : Unacted(a)[i].id = id /\ IsControlSignal(Unacted(a)[i]))
      ~> (\/ pc[a] = "exited" \/ handle[a] # "open"
          \/ \E i \in DOMAIN acted[a] : acted[a][i] = id)

(* A halt on the signal channel ends the task, even one in the middle of    *)
(* handle_message (agent.rs:358, 400-402), while the handle lives.          *)
HaltEnds ==
  \A a \in Agents :
    (\E i \in DOMAIN Unacted(a) : IsHaltOrShutdown(Unacted(a)[i]))
      ~> (pc[a] = "exited" \/ handle[a] # "open")

(* The comment at agent.rs:338: when the signal channel closes mid-task,    *)
(* "Let handle_message finish, then exit."                                  *)
TaskSurvivesClose ==
  \A a \in Agents : (Racing(a) /\ handle[a] = "closed") ~> (pc[a] = "exited")
=============================================================================
