--------------------------- MODULE AgentContract ---------------------------
(***************************************************************************)
(* What an agent's event loop promises to those who send to it, without    *)
(* channels, select! or deferral: one queue of messages, one queue of      *)
(* signals not acted on yet, at most one message being handled.            *)
(***************************************************************************)
EXTENDS Sequences

CONSTANTS Agents, Envelope, None, IsControlSignal(_), IsHaltOrShutdown(_)

VARIABLES
  queue,     (* messages sent and not taken yet                              *)
  pending,   (* signals sent and not acted on yet                            *)
  task,      (* the message being handled, or None                           *)
  life,      (* "alive", "stopping" once shutdown() has run, or "over"       *)
  severed,   (* the sending or the receiving side has let go of the agent    *)
  acted,     (* ids of the control signals acted on                          *)
  done       (* ids of the messages handled                                  *)

vars == <<queue, pending, task, life, severed, acted, done>>

Init ==
  /\ queue = [a \in Agents |-> <<>>]
  /\ pending = [a \in Agents |-> <<>>]
  /\ task = [a \in Agents |-> None]
  /\ life = [a \in Agents |-> "alive"]
  /\ severed = [a \in Agents |-> FALSE]
  /\ acted = [a \in Agents |-> <<>>]
  /\ done = [a \in Agents |-> <<>>]

SendMessage(a) ==
  /\ life[a] # "over"
  /\ \E env \in Envelope : queue' = [queue EXCEPT ![a] = Append(@, env)]
  /\ UNCHANGED <<pending, task, life, severed, acted, done>>

SendSignal(a) ==
  /\ life[a] # "over"
  /\ \E env \in Envelope : pending' = [pending EXCEPT ![a] = Append(@, env)]
  /\ UNCHANGED <<queue, task, life, severed, acted, done>>

Sever ==
  /\ severed' \in [Agents -> BOOLEAN]
  /\ \A a \in Agents : severed[a] => severed'[a]
  /\ UNCHANGED <<queue, pending, task, life, acted, done>>

(* A message is taken only by a live agent with no signal waiting. *)
Start(a) ==
  /\ life[a] = "alive"
  /\ task[a] = None
  /\ pending[a] = <<>>
  /\ queue[a] # <<>>
  /\ ~ IsControlSignal(Head(queue[a]))
  /\ task' = [task EXCEPT ![a] = Head(queue[a])]
  /\ queue' = [queue EXCEPT ![a] = Tail(@)]
  /\ UNCHANGED <<pending, life, severed, acted, done>>

Finish(a) ==
  /\ task[a] # None
  /\ done' = [done EXCEPT ![a] = Append(@, task[a].id)]
  /\ task' = [task EXCEPT ![a] = None]
  /\ UNCHANGED <<queue, pending, life, severed, acted>>

End(a) ==
  /\ life' = [life EXCEPT ![a] = "over"]
  /\ queue' = [queue EXCEPT ![a] = <<>>]
  /\ pending' = [pending EXCEPT ![a] = <<>>]
  /\ UNCHANGED <<task, severed>>

Record(a, env) ==
  /\ acted' = [acted EXCEPT ![a] = IF IsControlSignal(env) THEN Append(@, env.id) ELSE @]
  /\ UNCHANGED done

(* The oldest signal is acted on, never in the middle of a message. *)
Act(a) ==
  /\ life[a] # "over"
  /\ task[a] = None
  /\ pending[a] # <<>>
  /\ Record(a, Head(pending[a]))
  /\ \/ /\ pending' = [pending EXCEPT ![a] = Tail(@)]
        /\ life' = [life EXCEPT ![a] =
                      IF IsHaltOrShutdown(Head(pending[a])) THEN "stopping" ELSE @]
        /\ UNCHANGED <<queue, task, severed>>
     \/ /\ IsHaltOrShutdown(Head(pending[a]))
        /\ End(a)

(* Control signals may also come in the message queue. *)
ActOnQueued(a) ==
  /\ life[a] = "alive"
  /\ task[a] = None
  /\ pending[a] = <<>>
  /\ queue[a] # <<>>
  /\ IsControlSignal(Head(queue[a]))
  /\ Record(a, Head(queue[a]))
  /\ IF IsHaltOrShutdown(Head(queue[a]))
       THEN End(a)
       ELSE /\ queue' = [queue EXCEPT ![a] = Tail(@)]
            /\ UNCHANGED <<pending, task, life, severed>>

(* An agent ends after shutdown() or when it is cut off, between messages. *)
Stop(a) ==
  /\ life[a] = "stopping" \/ (life[a] = "alive" /\ severed[a])
  /\ task[a] = None
  /\ End(a)
  /\ UNCHANGED <<acted, done>>

Next ==
  \/ Sever
  \/ \E a \in Agents :
       \/ SendMessage(a) \/ SendSignal(a) \/ Start(a) \/ Finish(a)
       \/ Act(a) \/ ActOnQueued(a) \/ Stop(a)

Spec == Init /\ [][Next]_vars
=============================================================================
