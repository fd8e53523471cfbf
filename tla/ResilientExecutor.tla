-------------------------- MODULE ResilientExecutor --------------------------
(***************************************************************************)
(* The executor that runs an agent's actions: BubblejailExecutor, which    *)
(* starts them under `unshare`, behind ResilientExecutor, which falls back *)
(* to ProcessExecutor when the system denies the sandbox.  Callers share   *)
(* the executor (`&self`); each one runs its actions one after the other.  *)
(*                                                                         *)
(* Outside the program are the kernel's policy on user namespaces, which   *)
(* may change at any time, and the operating system's processes, which     *)
(* outlive the future that waits for them: no command of the code sets     *)
(* tokio's kill_on_drop.                                                   *)
(***************************************************************************)
EXTENDS Integers, FiniteSets

CONSTANTS Caller,      \* the tasks that share the executor
          MaxRuns,     \* bound: executions each caller asks for
          MaxChanges   \* bound: changes of the kernel's policy

ASSUME BoundsAssumption == MaxRuns \in Nat /\ MaxChanges \in Nat

VARIABLES
  level,       \* ResilientExecutor::level
  sandbox,     \* ResilientExecutor::sandbox is Some
  permitted,   \* the kernel lets unshare create namespaces
  changes,     \* number of policy changes so far
  pc,          \* caller -> where its execute() is
  outcome,     \* caller -> what its last execute() returned
  runs,        \* caller -> number of its executions so far
  procs,       \* child processes alive
  started,     \* caller -> times the current action's code was started
  spawnDenials,  \* caller -> executions whose sandbox reported a permission error
  unshareDenials \* caller -> executions whose unshare was refused by the kernel

calls == <<pc, outcome, runs, started, spawnDenials, unshareDenials>>
vars == <<level, sandbox, permitted, changes, procs, calls>>

IsolationLevel == {"NamespaceSandbox", "ProcessOnly"}
Outcome == {"none", "Success", "Failure", "Timeout", "Err"}

(* A child process: whose it is, in which execution it was started, whether *)
(* it is isolated, and whether it came to run the action's code: an unshare *)
(* the kernel refuses exits before it does.                                 *)
Process == [caller : Caller, run : 1..MaxRuns, isolated : BOOLEAN, code : BOOLEAN]

TypeOK ==
  /\ level \in IsolationLevel
  /\ sandbox \in BOOLEAN
  /\ permitted \in BOOLEAN
  /\ changes \in 0..MaxChanges
  /\ pc \in [Caller -> {"idle", "sandbox", "waiting", "denied", "fallback", "panicked"}]
  /\ outcome \in [Caller -> Outcome]
  /\ runs \in [Caller -> 0..MaxRuns]
  /\ procs \subseteq Process
  /\ started \in [Caller -> Nat]
  /\ spawnDenials \in [Caller -> Nat]
  /\ unshareDenials \in [Caller -> Nat]

(* ResilientExecutor::new: isolated only when the probe succeeded.  The     *)
(* probe may also fail for want of a process or of the unshare binary.      *)
New ==
  /\ sandbox \in IF permitted THEN BOOLEAN ELSE {FALSE}
  /\ level = IF sandbox THEN "NamespaceSandbox" ELSE "ProcessOnly"

Init ==
  /\ permitted \in BOOLEAN
  /\ New
  /\ changes = 0
  /\ procs = {}
  /\ pc = [c \in Caller |-> "idle"]
  /\ outcome = [c \in Caller |-> "none"]
  /\ runs = [c \in Caller |-> 0]
  /\ started = [c \in Caller |-> 0]
  /\ spawnDenials = [c \in Caller |-> 0]
  /\ unshareDenials = [c \in Caller |-> 0]

(* The administrator turns unprivileged user namespaces on or off. *)
ChangePolicy ==
  /\ changes < MaxChanges
  /\ changes' = changes + 1
  /\ permitted' = ~permitted
  /\ UNCHANGED <<level, sandbox, procs, calls>>

-----------------------------------------------------------------------------
(* One execution. *)

Return(c, result) ==
  /\ pc' = [pc EXCEPT ![c] = "idle"]
  /\ outcome' = [outcome EXCEPT ![c] = result]

(* Mutant: the way is chosen by what the probe made, not by the level. *)
MutantRoute == IF sandbox THEN "sandbox" ELSE "fallback"

(* execute() reads the level once, and goes where it says. *)
Route == IF level = "ProcessOnly" THEN "fallback" ELSE "sandbox"

Execute(c) ==
  /\ pc[c] = "idle"
  /\ runs[c] < MaxRuns
  /\ runs' = [runs EXCEPT ![c] = @ + 1]
  /\ started' = [started EXCEPT ![c] = 0]
  /\ pc' = [pc EXCEPT ![c] = Route]
  /\ UNCHANGED <<level, sandbox, permitted, changes, procs, outcome,
                 spawnDenials, unshareDenials>>

(* An unknown action type, a temporary file that cannot be written, a       *)
(* process that cannot be started: an error for the engine.                 *)
Fails(c) ==
  /\ pc[c] \in {"sandbox", "fallback"}
  /\ Return(c, "Err")
  /\ UNCHANGED <<level, sandbox, permitted, changes, procs, runs, started,
                 spawnDenials, unshareDenials>>

Child(c, isolated, code) ==
  [caller |-> c, run |-> runs[c], isolated |-> isolated, code |-> code]

Start(c, p) ==
  /\ procs' = procs \cup {p}
  /\ started' = [started EXCEPT ![c] = IF p.code THEN @ + 1 ELSE @]
  /\ pc' = [pc EXCEPT ![c] = "waiting"]

(* BubblejailExecutor spawns unshare.  When the policy refuses namespaces,  *)
(* it is that process which fails, not the spawn.                           *)
SpawnSandbox(c) ==
  /\ pc[c] = "sandbox"
  /\ Start(c, Child(c, TRUE, permitted))
  /\ unshareDenials' = [unshareDenials EXCEPT ![c] = IF permitted THEN @ ELSE @ + 1]
  /\ UNCHANGED <<level, sandbox, permitted, changes, outcome, runs, spawnDenials>>

(* A step before the child exists fails with EPERM, and execute() takes its *)
(* error text for a namespace denial.                                       *)
SpawnDenied(c) ==
  /\ pc[c] = "sandbox"
  /\ pc' = [pc EXCEPT ![c] = "denied"]
  /\ spawnDenials' = [spawnDenials EXCEPT ![c] = @ + 1]
  /\ UNCHANGED <<level, sandbox, permitted, changes, procs, outcome, runs,
                 started, unshareDenials>>

(* Mutant: the fallback is used without recording the downgrade. *)
MutantDowngrade(c) ==
  /\ pc[c] = "denied"
  /\ pc' = [pc EXCEPT ![c] = "fallback"]
  /\ UNCHANGED <<level, sandbox, permitted, changes, procs, outcome, runs,
                 started, spawnDenials, unshareDenials>>

(* downgrade_to_process_only, and on to the fallback with the same action. *)
Downgrade(c) ==
  /\ pc[c] = "denied"
  /\ level' = "ProcessOnly"
  /\ pc' = [pc EXCEPT ![c] = "fallback"]
  /\ UNCHANGED <<sandbox, permitted, changes, procs, outcome, runs, started,
                 spawnDenials, unshareDenials>>

SpawnFallback(c) ==
  /\ pc[c] = "fallback"
  /\ Start(c, Child(c, FALSE, TRUE))
  /\ UNCHANGED <<level, sandbox, permitted, changes, outcome, runs,
                 spawnDenials, unshareDenials>>

(* The process an execution waits for. *)
Awaited(p) == pc[p.caller] = "waiting" /\ p.run = runs[p.caller]

(* Mutant: a failed child whose stderr speaks of a permission is retried too. *)
MutantExits(c) ==
  \E p \in procs :
    /\ p.caller = c /\ Awaited(p)
    /\ procs' = procs \ {p}
    /\ \/ Return(c, "Success") /\ UNCHANGED spawnDenials
       \/ /\ p.isolated
          /\ pc' = [pc EXCEPT ![c] = "denied"]
          /\ spawnDenials' = [spawnDenials EXCEPT ![c] = @ + 1]
          /\ UNCHANGED outcome
    /\ UNCHANGED <<level, sandbox, permitted, changes, runs, started, unshareDenials>>

(* Mutant: the end of the child's output is taken for its exit. *)
MutantExitsOnOutput(c) ==
  /\ pc[c] = "waiting"
  /\ Return(c, "Success")
  /\ UNCHANGED <<level, sandbox, permitted, changes, procs, runs, started,
                 spawnDenials, unshareDenials>>

(* The status of a child that ran the code is the code's own. *)
Exits(c) ==
  \E p \in procs :
    /\ p.caller = c /\ Awaited(p)
    /\ procs' = procs \ {p}
    /\ \E result \in {"Success", "Failure"} :
         /\ ~p.code => result = "Failure"
         /\ Return(c, result)
    /\ UNCHANGED <<level, sandbox, permitted, changes, runs, started,
                   spawnDenials, unshareDenials>>

(* truncate() and truncate_output() cut the child's output, of which its    *)
(* code decides, at a byte: where that is no character boundary the slice   *)
(* panics, and with it the task of the caller.                              *)
TruncatePanics(c) ==
  \E p \in procs :
    /\ p.caller = c /\ Awaited(p) /\ p.code
    /\ procs' = procs \ {p}
    /\ pc' = [pc EXCEPT ![c] = "panicked"]
    /\ UNCHANGED <<level, sandbox, permitted, changes, outcome, runs, started,
                   spawnDenials, unshareDenials>>

(* The wait itself fails; the child is dropped. *)
WaitFails(c) ==
  /\ pc[c] = "waiting"
  /\ Return(c, "Err")
  /\ UNCHANGED <<level, sandbox, permitted, changes, procs, runs, started,
                 spawnDenials, unshareDenials>>

(* Mutant: only the sandboxed path has a timeout. *)
MutantTimeout(c) ==
  /\ pc[c] = "waiting"
  /\ level = "NamespaceSandbox"
  /\ Return(c, "Timeout")
  /\ UNCHANGED <<level, sandbox, permitted, changes, procs, runs, started,
                 spawnDenials, unshareDenials>>

(* The timeout drops the future, and with it the handle of the child. *)
Timeout(c) ==
  /\ pc[c] = "waiting"
  /\ Return(c, "Timeout")
  /\ UNCHANGED <<level, sandbox, permitted, changes, procs, runs, started,
                 spawnDenials, unshareDenials>>

(* A process nobody waits for any more ends by itself, if it ends. *)
OrphanExits ==
  \E p \in procs :
    /\ ~Awaited(p)
    /\ procs' = procs \ {p}
    /\ UNCHANGED <<level, sandbox, permitted, changes, calls>>

(* What the task does when it is polled and does not wait. *)
Polled(c) ==
  Fails(c) \/ SpawnSandbox(c) \/ SpawnDenied(c) \/ Downgrade(c) \/ SpawnFallback(c)

Next ==
  \/ \E c \in Caller :
       \/ Execute(c) \/ Polled(c)
       \/ Exits(c) \/ TruncatePanics(c) \/ WaitFails(c) \/ Timeout(c)
  \/ OrphanExits
  \/ ChangePolicy

Spec == Init /\ [][Next]_vars

(* A caller is a task of the runtime, which polls what is ready, and the    *)
(* timer of a timeout becomes ready; children owe nothing.                  *)
Fairness == \A c \in Caller : WF_vars(Polled(c)) /\ WF_vars(Timeout(c))

-----------------------------------------------------------------------------
(* Properties *)

(* Code runs outside the sandbox only once the level says so: whoever sees  *)
(* an unisolated process also reads ProcessOnly, even when another caller's *)
(* sandboxed execution began before the downgrade.                          *)
UnisolatedIsAnnounced ==
  \A p \in procs : ~p.isolated => level = "ProcessOnly"

(* The fallback repeats an execution, never the action: whatever the        *)
(* sandbox answers, the code of one execute() is started at most once.      *)
StartedOnce == \A c \in Caller : started[c] <= 1

(* A denial that the spawn itself reports is met once per caller: later     *)
(* executions of that caller skip the sandbox, and the `expect` on it never *)
(* fails. The kernel's refusal of unshare is no such denial but an ordinary *)
(* failing child; of that one speaks SkipsDoomedUnshare.                    *)
SpawnDeniedOnce ==
  \A c \in Caller :
    /\ spawnDenials[c] <= 1
    /\ pc[c] = "sandbox" => sandbox /\ spawnDenials[c] = 0

(* Only an execution that gave up, by its timeout or by an error, can leave *)
(* a process behind: one that reports an outcome of the action, and one     *)
(* that the fallback repeats, has no child left.                             *)
NoLeftover ==
  \A p \in procs : p.run = runs[p.caller] =>
    \/ pc[p.caller] = "idle" /\ outcome[p.caller] \in {"Timeout", "Err"}
    \/ pc[p.caller] = "waiting" /\ \A q \in procs : q.caller = p.caller /\ q.run = p.run => q = p

(* No execution is waited for endlessly: a hanging child costs one timeout, *)
(* a denied sandbox one more start. It returns, or panics over the child's  *)
(* output; of that speaks TruncatesOutput.                                  *)
ExecutionsEnd ==
  \A c \in Caller : pc[c] \notin {"idle", "panicked"} ~> pc[c] \in {"idle", "panicked"}

(* What the doc of the executor says (sandbox_executor.rs 49, 138):          *)
(* output beyond 8 KB is truncated, and the execution has an outcome.       *)
TruncatesOutput == \A c \in Caller : pc[c] # "panicked"

(* What the comment of the timeout branch says (sandbox_executor.rs         *)
(* 273-278): dropping the future kills the child, so a sandboxed execution  *)
(* that timed out leaves no process behind.                                 *)
TimeoutKills ==
  \A p \in procs :
    ~ /\ p.isolated /\ p.run = runs[p.caller]
      /\ pc[p.caller] = "idle" /\ outcome[p.caller] = "Timeout"

(* What downgrade_to_process_only's comment says (451-454): after a runtime *)
(* EPERM all subsequent executions skip the doomed unshare attempt.         *)
SkipsDoomedUnshare == \A c \in Caller : unshareDenials[c] <= 1
=============================================================================
