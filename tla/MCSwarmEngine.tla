--------------------------- MODULE MCSwarmEngine ---------------------------
(* Values for the constants of SwarmEngine: a worker and a reviewer. *)
EXTENDS SwarmEngine, TLC

CONSTANTS worker, reviewer

TwoAgents == {worker, reviewer}
Review == {[kind |-> "data", to |-> worker], [kind |-> "data", to |-> reviewer],
           [kind |-> "interrupt", to |-> worker]}
Alarm == {[kind |-> "data", to |-> worker], [kind |-> "interrupt", to |-> worker]}
Alarms == Alarm \cup {[kind |-> "halt", to |-> worker]}
Stop == {[kind |-> "data", to |-> Everyone], [kind |-> "halt", to |-> worker],
         [kind |-> "interrupt", to |-> worker], [kind |-> "shutdown", to |-> Everyone]}
EverySignal == Stop \cup {[kind |-> "notice", to |-> Everyone],
                          [kind |-> "data", to |-> worker]}

(* A swarm at full load as run begins: the owner has spawned both agents and *)
(* handed each two tasks, one of them accepted. Fewer would not do to fill   *)
(* an inbox and the outbox at once.                                          *)
Task(i, a) == [id |-> i, kind |-> "data", to |-> a]

BusyInit ==
  /\ inbox = (worker :> <<Task(2, worker)>> @@ reviewer :> <<Task(4, reviewer)>>)
  /\ current = (worker :> Task(1, worker) @@ reviewer :> Task(3, reviewer))
  /\ pc = [a \in Agents |-> "accepted"]
  /\ issued = 4
  /\ signals = [a \in Agents |-> <<>>]
  /\ handle = [a \in Agents |-> "open"]
  /\ outbox = <<>>
  /\ outboxOpen = TRUE
  /\ work = [a \in Agents |-> 0]
  /\ cancelToken = [a \in Agents |-> FALSE]
  /\ deferred = [a \in Agents |-> <<>>]
  /\ unseen = [a \in Agents |-> 0]
  /\ shouldShutdown = [a \in Agents |-> FALSE]
  /\ reply = [a \in Agents |-> None]
  /\ acted = [a \in Agents |-> <<>>]
  /\ done = [a \in Agents |-> <<>>]
  /\ halted = [a \in Agents |-> FALSE]
  /\ registered = Agents
  /\ activeAgents = Cardinality(Agents)
  /\ epc = "recv"
  /\ routing = None
  /\ target = None
  /\ todo = {}
  /\ routed = <<>>

BusySpec == BusyInit /\ [][Next]_vars /\ Fairness
=============================================================================
