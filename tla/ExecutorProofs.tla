---------------------------- MODULE ExecutorProofs ----------------------------
(***************************************************************************)
(* Proofs about ResilientExecutor, for any number of callers, executions   *)
(* and policy changes, and about EscalationPipeline, for any number of     *)
(* stages, evaluations and answers.                                        *)
(***************************************************************************)
EXTENDS ResilientExecutor, EscalationPipeline, TLAPS

(* What holds of one caller between two steps.  An execution that has not   *)
(* started a child has not started its code; on the sandboxed path it has   *)
(* not been denied yet; on the fallback path the level has been lowered.    *)
CallerInv(c) ==
  /\ pc[c] # "idle" => runs[c] >= 1
  /\ pc[c] \in {"sandbox", "denied", "fallback"} => started[c] = 0
  /\ pc[c] = "sandbox" => sandbox /\ spawnDenials[c] = 0
  /\ pc[c] = "denied" => spawnDenials[c] = 1
  /\ pc[c] = "fallback" => level = "ProcessOnly"
  /\ started[c] <= 1
  /\ spawnDenials[c] <= 1
  /\ spawnDenials[c] = 1 => pc[c] = "denied" \/ level = "ProcessOnly"

(* A probe that failed left the level at ProcessOnly. *)
ProbeInv == level = "NamespaceSandbox" => sandbox

IInv == TypeOK /\ ProbeInv /\ UnisolatedIsAnnounced /\ \A c \in Caller : CallerInv(c)

LEMMA InitInv == Init => IInv
  <1> SUFFICES ASSUME Init PROVE IInv
    OBVIOUS
  <1>1. TypeOK
    <2>1. sandbox \in BOOLEAN /\ level \in IsolationLevel
      <3>1. CASE permitted
        BY <3>1 DEF Init, New, IsolationLevel
      <3>2. CASE ~permitted
        BY <3>2 DEF Init, New, IsolationLevel
      <3> QED
        BY <3>1, <3>2
    <2> QED
      BY <2>1, BoundsAssumption DEF Init, TypeOK, Outcome
  <1>2. ProbeInv
    BY DEF Init, New, ProbeInv
  <1>3. UnisolatedIsAnnounced
    BY DEF Init, UnisolatedIsAnnounced
  <1>4. \A c \in Caller : CallerInv(c)
    BY DEF Init, CallerInv
  <1> QED
    BY <1>1, <1>2, <1>3, <1>4 DEF IInv

(* Returning to idle disturbs nothing, but from a denial not yet acted on. *)
LEMMA ReturnInv ==
  ASSUME IInv, NEW c \in Caller, pc[c] # "denied",
         NEW result \in Outcome, Return(c, result),
         procs' \subseteq procs,
         UNCHANGED <<level, sandbox, permitted, changes, runs, started,
                     spawnDenials, unshareDenials>>
  PROVE  IInv'
  <1> USE DEF IInv
  <1>1. TypeOK'
    BY DEF TypeOK, Return
  <1>2. ProbeInv' /\ UnisolatedIsAnnounced'
    BY DEF ProbeInv, UnisolatedIsAnnounced
  <1>3. ASSUME NEW d \in Caller PROVE CallerInv(d)'
    <2>1. CallerInv(d) /\ (pc'[d] = pc[d] \/ (pc'[d] = "idle" /\ pc[d] # "denied"))
      BY DEF TypeOK, Return
    <2>2. /\ runs'[d] = runs[d] /\ started'[d] = started[d]
          /\ spawnDenials'[d] = spawnDenials[d]
          /\ level' = level /\ (sandbox' <=> sandbox)
      OBVIOUS
    <2>3. CASE pc'[d] = pc[d]
      BY <2>1, <2>2, <2>3 DEF CallerInv
    <2>4. CASE pc'[d] = "idle" /\ pc[d] # "denied"
      BY <2>1, <2>2, <2>4 DEF CallerInv
    <2> QED
      BY <2>1, <2>3, <2>4
  <1> QED
    BY <1>1, <1>2, <1>3

LEMMA ExecuteInv ==
  ASSUME IInv, NEW c \in Caller, Execute(c)
  PROVE  IInv'
  <1> USE DEF IInv
  <1>1. TypeOK'
    <2>1. runs[c] + 1 \in 0..MaxRuns
      BY BoundsAssumption DEF Execute, TypeOK
    <2> QED
      BY <2>1 DEF Execute, Route, TypeOK, IsolationLevel
  <1>2. ProbeInv' /\ UnisolatedIsAnnounced'
    BY DEF Execute, ProbeInv, UnisolatedIsAnnounced
  <1>3. ASSUME NEW d \in Caller PROVE CallerInv(d)'
    <2>1. CASE d = c
      BY <2>1, BoundsAssumption
      DEF Execute, Route, CallerInv, TypeOK, ProbeInv, IsolationLevel
    <2>2. CASE d # c
      BY <2>2 DEF Execute, CallerInv, TypeOK
    <2> QED
      BY <2>1, <2>2
  <1> QED
    BY <1>1, <1>2, <1>3

(* Starting a child, on either path. *)
LEMMA StartInv ==
  ASSUME IInv, NEW c \in Caller, pc[c] \in {"sandbox", "fallback"},
         NEW isolated \in BOOLEAN, NEW code \in BOOLEAN,
         ~isolated => level = "ProcessOnly",
         Start(c, Child(c, isolated, code)),
         unshareDenials' \in [Caller -> Nat],
         UNCHANGED <<level, sandbox, permitted, changes, outcome, runs, spawnDenials>>
  PROVE  IInv'
  <1> USE DEF IInv
  <1> DEFINE p == Child(c, isolated, code)
  <1>1. p \in Process /\ p.isolated = isolated /\ p.code = code
    <2>1. runs[c] \in 1..MaxRuns
      BY BoundsAssumption DEF CallerInv, TypeOK
    <2> QED
      BY <2>1 DEF Child, Process
  <1> HIDE DEF p
  <1>2. procs' = procs \cup {p}
    BY DEF Start, p
  <1>3. TypeOK'
    <2>1. started' \in [Caller -> Nat]
      BY DEF Start, TypeOK
    <2> QED
      BY <1>1, <1>2, <2>1 DEF Start, TypeOK
  <1>4. ProbeInv' /\ UnisolatedIsAnnounced'
    BY <1>1, <1>2 DEF ProbeInv, UnisolatedIsAnnounced
  <1>5. ASSUME NEW d \in Caller PROVE CallerInv(d)'
    BY DEF Start, CallerInv, TypeOK
  <1> QED
    BY <1>3, <1>4, <1>5

LEMMA SpawnDeniedInv ==
  ASSUME IInv, NEW c \in Caller, SpawnDenied(c)
  PROVE  IInv'
  <1> USE DEF IInv
  <1>1. TypeOK'
    BY DEF SpawnDenied, TypeOK
  <1>2. ProbeInv' /\ UnisolatedIsAnnounced'
    BY DEF SpawnDenied, ProbeInv, UnisolatedIsAnnounced
  <1>3. ASSUME NEW d \in Caller PROVE CallerInv(d)'
    BY DEF SpawnDenied, CallerInv, TypeOK
  <1> QED
    BY <1>1, <1>2, <1>3

(* The downgrade is everybody's: it can only help the other callers. *)
LEMMA DowngradeInv ==
  ASSUME IInv, NEW c \in Caller, Downgrade(c)
  PROVE  IInv'
  <1> USE DEF IInv
  <1>1. TypeOK'
    BY DEF Downgrade, TypeOK, IsolationLevel
  <1>2. ProbeInv' /\ UnisolatedIsAnnounced'
    BY DEF Downgrade, ProbeInv, UnisolatedIsAnnounced
  <1>3. ASSUME NEW d \in Caller PROVE CallerInv(d)'
    BY DEF Downgrade, CallerInv, TypeOK
  <1> QED
    BY <1>1, <1>2, <1>3

LEMMA NextInv == IInv /\ [Next]_vars => IInv'
  <1> SUFFICES ASSUME IInv, [Next]_vars PROVE IInv'
    OBVIOUS
  <1>1. ASSUME NEW c \in Caller, Execute(c) PROVE IInv'
    BY <1>1, ExecuteInv
  <1>2. ASSUME NEW c \in Caller, Fails(c) PROVE IInv'
    <2>1. Return(c, "Err") /\ procs' \subseteq procs /\ pc[c] # "denied"
      BY <1>2 DEF Fails
    <2> QED
      BY <1>2, <2>1, ReturnInv DEF Fails, Outcome
  <1>3. ASSUME NEW c \in Caller, SpawnSandbox(c) PROVE IInv'
    <2>1. permitted \in BOOLEAN /\ unshareDenials' \in [Caller -> Nat]
      BY <1>3 DEF SpawnSandbox, IInv, TypeOK
    <2> QED
      BY <1>3, <2>1, StartInv DEF SpawnSandbox
  <1>4. ASSUME NEW c \in Caller, SpawnDenied(c) PROVE IInv'
    BY <1>4, SpawnDeniedInv
  <1>5. ASSUME NEW c \in Caller, Downgrade(c) PROVE IInv'
    BY <1>5, DowngradeInv
  <1>6. ASSUME NEW c \in Caller, SpawnFallback(c) PROVE IInv'
    <2>1. level = "ProcessOnly" /\ unshareDenials' \in [Caller -> Nat]
      BY <1>6 DEF SpawnFallback, IInv, TypeOK, CallerInv
    <2> QED
      BY <1>6, <2>1, StartInv DEF SpawnFallback
  <1>7. ASSUME NEW c \in Caller, Exits(c) PROVE IInv'
    <2>1. PICK p \in procs : procs' = procs \ {p} /\
            p.caller = c /\ Awaited(p) /\
            \E result \in {"Success", "Failure"} : Return(c, result)
      BY <1>7 DEF Exits
    <2>2. UNCHANGED <<level, sandbox, permitted, changes, runs, started,
                      spawnDenials, unshareDenials>>
      BY <1>7 DEF Exits
    <2>3. pc[c] # "denied"
      BY <2>1 DEF Awaited
    <2> QED
      BY <2>1, <2>2, <2>3, ReturnInv DEF Outcome
  <1>8. ASSUME NEW c \in Caller, WaitFails(c) \/ Timeout(c) PROVE IInv'
    <2>1. /\ pc[c] # "denied"
          /\ procs' \subseteq procs
          /\ \E result \in Outcome : Return(c, result)
      BY <1>8 DEF WaitFails, Timeout, Outcome
    <2>2. UNCHANGED <<level, sandbox, permitted, changes, runs, started,
                      spawnDenials, unshareDenials>>
      BY <1>8 DEF WaitFails, Timeout
    <2> QED
      BY <2>1, <2>2, ReturnInv
  <1>9. ASSUME OrphanExits PROVE IInv'
    BY <1>9 DEF OrphanExits, calls, IInv, TypeOK, ProbeInv, UnisolatedIsAnnounced, CallerInv
  <1>10. ASSUME ChangePolicy PROVE IInv'
    <2>1. changes + 1 \in 0..MaxChanges
      BY <1>10, BoundsAssumption DEF ChangePolicy, IInv, TypeOK
    <2> QED
      BY <1>10, <2>1
      DEF ChangePolicy, calls, IInv, TypeOK, ProbeInv, UnisolatedIsAnnounced, CallerInv
  <1>11. ASSUME UNCHANGED vars PROVE IInv'
    BY <1>11 DEF vars, calls, IInv, TypeOK, ProbeInv, UnisolatedIsAnnounced, CallerInv
  <1>12. ASSUME NEW c \in Caller, TruncatePanics(c) PROVE IInv'
    <2>1. PICK p \in procs : p.caller = c /\ Awaited(p) /\ procs' = procs \ {p}
      BY <1>12 DEF TruncatePanics
    <2>2. /\ pc[c] = "waiting" /\ pc' = [pc EXCEPT ![c] = "panicked"] /\ procs' \subseteq procs
          /\ UNCHANGED <<level, sandbox, permitted, changes, outcome, runs, started,
                         spawnDenials, unshareDenials>>
      BY <1>12, <2>1 DEF TruncatePanics, Awaited
    <2>3. TypeOK' /\ ProbeInv' /\ UnisolatedIsAnnounced'
      BY <2>2 DEF IInv, TypeOK, ProbeInv, UnisolatedIsAnnounced
    <2>4. ASSUME NEW d \in Caller PROVE CallerInv(d)'
      BY <2>2 DEF IInv, TypeOK, CallerInv
    <2> QED
      BY <2>3, <2>4 DEF IInv
  <1> QED
    BY <1>1, <1>2, <1>3, <1>4, <1>5, <1>6, <1>7, <1>8, <1>9, <1>10, <1>11, <1>12
    DEF Next, Polled

(* What the executors keep at every await: who runs where, and what each    *)
(* caller has been denied and has started (sandbox_executor.rs:651-697).    *)
THEOREM Invariance == Spec => []IInv
  BY InitInv, NextInv, PTL DEF Spec

(* No action of a caller ever runs unisolated under a level that claims a   *)
(* sandbox, however executions and downgrades interleave.                   *)
THEOREM IsolationAnnounced == Spec => []UnisolatedIsAnnounced
  <1>1. IInv => UnisolatedIsAnnounced
    BY DEF IInv
  <1> QED
    BY <1>1, Invariance, PTL

(* One execute() never starts an action's code twice: the fallback repeats  *)
(* only what was denied before a child existed.                             *)
THEOREM NeverStartedTwice == Spec => []StartedOnce
  <1>1. IInv => StartedOnce
    BY DEF IInv, CallerInv, StartedOnce
  <1> QED
    BY <1>1, Invariance, PTL

(* A denial the spawn reports is met once per caller, whoever lowers the    *)
(* level meanwhile, and `expect` never fails (sandbox_executor.rs:657-683). *)
(* The refusals of unshare itself are no part of it: see SkipsDoomedUnshare.*)
THEOREM SpawnDeniedAtMostOnce == Spec => []SpawnDeniedOnce
  <1>1. IInv => SpawnDeniedOnce
    BY DEF IInv, CallerInv, SpawnDeniedOnce
  <1> QED
    BY <1>1, Invariance, PTL

(* No process belongs to an execution that has not begun, and none is left   *)
(* of one that is over, but for those it gave up.                            *)
ProcsInv == NoLeftover /\ \A p \in procs : p.run <= runs[p.caller]

(* Returning after a wait, with the child gone or given up. *)
LEMMA ReturnProcs ==
  ASSUME IInv, ProcsInv, NEW c \in Caller, NEW result \in Outcome,
         Return(c, result), procs' \subseteq procs, UNCHANGED runs,
         \/ result \in {"Timeout", "Err"}
         \/ \A p \in procs' : p.caller = c => p.run # runs[c]
  PROVE  ProcsInv'
  <1> SUFFICES ASSUME NEW p \in procs', p.run = runs'[p.caller]
               PROVE  \/ pc'[p.caller] = "idle" /\ outcome'[p.caller] \in {"Timeout", "Err"}
                      \/ /\ pc'[p.caller] = "waiting"
                         /\ \A q \in procs' : q.caller = p.caller /\ q.run = p.run => q = p
    BY DEF ProcsInv, NoLeftover
  <1>1. p \in procs /\ p.caller \in Caller /\ p.run = runs[p.caller]
    BY DEF IInv, TypeOK, Process
  <1>2. pc \in [Caller -> {"idle", "sandbox", "waiting", "denied", "fallback", "panicked"}]
        /\ outcome \in [Caller -> Outcome]
    BY DEF IInv, TypeOK
  <1>3. CASE p.caller = c
    BY <1>1, <1>2, <1>3 DEF Return
  <1>4. CASE p.caller # c
    BY <1>1, <1>2, <1>4 DEF Return, ProcsInv, NoLeftover
  <1> QED
    BY <1>3, <1>4

(* Starting a child: until then the execution has none. *)
LEMMA StartProcs ==
  ASSUME IInv, ProcsInv, NEW c \in Caller, pc[c] \in {"sandbox", "fallback"},
         NEW isolated \in BOOLEAN, NEW code \in BOOLEAN,
         Start(c, Child(c, isolated, code)), UNCHANGED <<runs, outcome>>
  PROVE  ProcsInv'
  <1> DEFINE new == Child(c, isolated, code)
  <1>1. new.caller = c /\ new.run = runs[c] /\ runs[c] \in Int
    BY BoundsAssumption DEF Child, IInv, TypeOK
  <1>2. procs' = procs \cup {new} /\ pc'[c] = "waiting" /\ \A d \in Caller \ {c} : pc'[d] = pc[d]
    BY DEF Start, IInv, TypeOK
  <1> HIDE DEF new
  <1>3. \A p \in procs : p.caller \in Caller /\ (p.caller = c => p.run # runs[c])
    BY DEF ProcsInv, NoLeftover, IInv, TypeOK, Process
  <1>4. ASSUME NEW p \in procs' PROVE p.run <= runs'[p.caller]
    BY <1>1, <1>2 DEF ProcsInv
  <1>5. ASSUME NEW p \in procs', p.run = runs'[p.caller]
        PROVE  \/ pc'[p.caller] = "idle" /\ outcome'[p.caller] \in {"Timeout", "Err"}
               \/ /\ pc'[p.caller] = "waiting"
                  /\ \A q \in procs' : q.caller = p.caller /\ q.run = p.run => q = p
    <2>1. CASE p = new
      BY <1>1, <1>2, <1>3, <2>1
    <2>2. CASE p # new
      <3>1. p \in procs /\ p.caller # c
        BY <1>2, <1>3, <1>5, <2>2
      <3> QED
        BY <1>1, <1>2, <1>3, <1>5, <3>1 DEF ProcsInv, NoLeftover
    <2> QED
      BY <2>1, <2>2
  <1> QED
    BY <1>4, <1>5 DEF ProcsInv, NoLeftover

(* Steps of a caller that has no child of its execution. *)
LEMMA QuietProcs ==
  ASSUME IInv, ProcsInv, NEW c \in Caller, pc[c] \in {"sandbox", "denied", "fallback"},
         \A d \in Caller \ {c} : pc'[d] = pc[d],
         UNCHANGED <<procs, runs, outcome>>
  PROVE  ProcsInv'
  BY DEF ProcsInv, NoLeftover, IInv, TypeOK, Process

LEMMA NextProcs == IInv /\ ProcsInv /\ [Next]_vars => ProcsInv'
  <1> SUFFICES ASSUME IInv, ProcsInv, [Next]_vars PROVE ProcsInv'
    OBVIOUS
  <1>1. ASSUME NEW c \in Caller, Execute(c) PROVE ProcsInv'
    <2>1. /\ runs'[c] = runs[c] + 1 /\ runs[c] \in Int
          /\ \A d \in Caller \ {c} : runs'[d] = runs[d] /\ pc'[d] = pc[d]
          /\ UNCHANGED <<procs, outcome>>
      BY <1>1, BoundsAssumption DEF Execute, IInv, TypeOK
    <2>2. \A p \in procs : p.caller \in Caller /\ p.run \in Int
      BY BoundsAssumption DEF IInv, TypeOK, Process
    <2>3. ASSUME NEW p \in procs
          PROVE p.run <= runs'[p.caller] /\ (p.caller = c => p.run < runs'[c])
      BY <2>1, <2>2 DEF ProcsInv
    <2> QED
      BY <2>1, <2>2, <2>3 DEF ProcsInv, NoLeftover
  <1>2. ASSUME NEW c \in Caller, Fails(c) \/ WaitFails(c) \/ Timeout(c) PROVE ProcsInv'
    <2>1. Return(c, "Err") \/ Return(c, "Timeout")
      BY <1>2 DEF Fails, WaitFails, Timeout
    <2>2. procs' \subseteq procs /\ UNCHANGED runs
      BY <1>2 DEF Fails, WaitFails, Timeout
    <2> QED
      BY <2>1, <2>2, ReturnProcs DEF Outcome
  <1>3. ASSUME NEW c \in Caller, SpawnSandbox(c) PROVE ProcsInv'
    <2>1. permitted \in BOOLEAN
      BY DEF IInv, TypeOK
    <2> QED
      BY <1>3, <2>1, StartProcs DEF SpawnSandbox
  <1>4. ASSUME NEW c \in Caller, SpawnFallback(c) PROVE ProcsInv'
    BY <1>4, StartProcs DEF SpawnFallback
  <1>5. ASSUME NEW c \in Caller, SpawnDenied(c) \/ Downgrade(c) PROVE ProcsInv'
    <2>1. /\ pc[c] \in {"sandbox", "denied", "fallback"}
          /\ \A d \in Caller \ {c} : pc'[d] = pc[d]
          /\ UNCHANGED <<procs, runs, outcome>>
      BY <1>5 DEF SpawnDenied, Downgrade, IInv, TypeOK
    <2> QED
      BY <2>1, QuietProcs
  <1>6. ASSUME NEW c \in Caller, Exits(c) PROVE ProcsInv'
    <2>1. PICK p \in procs : /\ p.caller = c /\ Awaited(p) /\ procs' = procs \ {p}
                             /\ \E result \in {"Success", "Failure"} : Return(c, result)
                             /\ UNCHANGED runs
      BY <1>6 DEF Exits
    <2>2. \A q \in procs' : q.caller = c => q.run # runs[c]
      BY <2>1 DEF ProcsInv, NoLeftover, Awaited
    <2> QED
      BY <2>1, <2>2, ReturnProcs DEF Outcome
  <1>7. CASE OrphanExits \/ ChangePolicy \/ UNCHANGED vars
    <2>1. procs' \subseteq procs /\ UNCHANGED <<pc, runs, outcome>>
      BY <1>7 DEF OrphanExits, ChangePolicy, vars, calls
    <2> QED
      BY <2>1 DEF ProcsInv, NoLeftover
  <1>8. ASSUME NEW c \in Caller, TruncatePanics(c) PROVE ProcsInv'
    <2>1. PICK p \in procs : p.caller = c /\ Awaited(p) /\ procs' = procs \ {p}
      BY <1>8 DEF TruncatePanics
    <2>2. /\ \A d \in Caller \ {c} : pc'[d] = pc[d]
          /\ UNCHANGED <<runs, outcome>>
      BY <1>8 DEF TruncatePanics, IInv, TypeOK
    <2>3. \A q \in procs' : q \in procs /\ (q.caller = c => q.run # runs[c])
      BY <2>1 DEF ProcsInv, NoLeftover, Awaited
    <2> QED
      BY <2>2, <2>3 DEF ProcsInv, NoLeftover, IInv, TypeOK, Process
  <1> QED
    BY <1>1, <1>2, <1>3, <1>4, <1>5, <1>6, <1>7, <1>8 DEF Next, Polled

(* For any callers and executions, only an execution that gave up leaves a   *)
(* process behind; the fallback starts from none (sandbox_executor.rs:651-697). *)
THEOREM OnlyTheGivenUpRemain == Spec => []NoLeftover
  <1>1. Init => ProcsInv
    BY DEF Init, ProcsInv, NoLeftover
  <1>2. ProcsInv => NoLeftover
    BY DEF ProcsInv
  <1> QED
    BY <1>1, <1>2, NextProcs, Invariance, PTL DEF Spec

-----------------------------------------------------------------------------
(***************************************************************************)
(* EscalationPipeline.                                                     *)
(***************************************************************************)

Answer == [verdict : Definitive \cup {"Uncertain"}, given : Seq(Hint), told : Seq(Hint)]

\* What is said of the hints between two stages.
Ours(h, count) ==
    \A k \in DOMAIN h : h[k].evaluation = evaluation /\ h[k].stage <= count

\* The hints are always those of the last answer, so the answers form a chain;
\* while the loop runs none of them decided and all hints are of this review.
LoopInv ==
    /\ evaluation >= 1
    /\ hints = IF answers = <<>> THEN <<>> ELSE answers[Len(answers)].told
    /\ \A i \in DOMAIN answers : answers[i].verdict = "Uncertain"
    /\ Ours(hints, Len(answers))

EscalationInv ==
    /\ EscalationTypeOK
    /\ phase = "idle" => answers = <<>>
    /\ phase = "evaluating" => LoopInv
    /\ DecidedByFirst
    /\ HintsOfThisReview
    /\ AccumulateIfCarried

LEMMA EscalationInitInv == EscalationInit => EscalationInv
  <1> SUFFICES ASSUME EscalationInit PROVE EscalationInv
    OBVIOUS
  <1>1. EscalationTypeOK
    BY StagesAssumption DEF EscalationInit, EscalationTypeOK
  <1>2. DecidedByFirst /\ HintsOfThisReview /\ AccumulateIfCarried
    BY DEF EscalationInit, DecidedByFirst, HintsOfThisReview, AccumulateIfCarried, HintsAccumulate
  <1> QED
    BY <1>1, <1>2 DEF EscalationInit, EscalationInv

\* Steps that leave the answers, the hints and the evaluation alone keep what is
\* said of the answers.
LEMMA SameAnswers ==
  ASSUME EscalationInv, UNCHANGED <<answers, evaluation>>
  PROVE  HintsOfThisReview' /\ AccumulateIfCarried'
  <1>1. HintsOfThisReview'
    BY DEF EscalationInv, HintsOfThisReview
  <1>2. Carried' = Carried /\ HintsAccumulate' = HintsAccumulate
    BY DEF Carried, HintsAccumulate, Within
  <1> QED
    BY <1>1, <1>2 DEF EscalationInv, AccumulateIfCarried

LEMMA AddStageInv ==
  ASSUME EscalationInv, AddStage
  PROVE  EscalationInv'
  <1>1. EscalationTypeOK'
    <2>1. answers = <<>> /\ stages + 1 \in 0 .. MaxStages
      BY StagesAssumption DEF EscalationInv, AddStage, EscalationTypeOK
    <2> QED
      BY <2>1 DEF EscalationInv, AddStage, EscalationTypeOK
  <1>2. DecidedByFirst'
    BY DEF EscalationInv, AddStage, DecidedByFirst
  <1>3. HintsOfThisReview' /\ AccumulateIfCarried'
    BY SameAnswers DEF AddStage
  <1> QED
    BY <1>1, <1>2, <1>3 DEF EscalationInv, AddStage

LEMMA BeginInv ==
  ASSUME EscalationInv, Begin
  PROVE  EscalationInv'
  <1>1. EscalationTypeOK'
    <2>1. evaluation + 1 \in 0 .. MaxEvaluations /\ 0 <= stages
      BY StagesAssumption DEF EscalationInv, Begin, EscalationTypeOK
    <2> QED
      BY <2>1 DEF EscalationInv, Begin, EscalationTypeOK
  <1>2. DecidedByFirst' /\ HintsOfThisReview' /\ AccumulateIfCarried'
    BY DEF Begin, DecidedByFirst, HintsOfThisReview, AccumulateIfCarried, HintsAccumulate
  <1>3. LoopInv'
    BY DEF EscalationInv, EscalationTypeOK, Begin, LoopInv, Ours
  <1> QED
    BY <1>1, <1>2, <1>3 DEF EscalationInv, Begin

\* What an answer adds to the history, and that the hints it was given are ours
\* and hold every earlier one, if those between were carried on.
LEMMA AnsweredFacts ==
  ASSUME EscalationInv, Consulting,
         NEW v \in Definitive \cup {"Uncertain"}, NEW told \in Seq(Hint),
         Answered(v, told), UNCHANGED <<stages, evaluation>>
  PROVE  /\ answers' \in Seq(Answer)
         /\ Len(answers') = Len(answers) + 1
         /\ Len(answers') <= stages
         /\ \A i \in DOMAIN answers : answers'[i] = answers[i]
         /\ answers'[Len(answers')] = [verdict |-> v, given |-> hints, told |-> told]
         /\ \A i \in 1 .. Len(answers') - 1 : answers'[i].verdict = "Uncertain"
         /\ HintsOfThisReview'
         /\ AccumulateIfCarried'
  <1> DEFINE n == Len(answers)
             a == [verdict |-> v, given |-> hints, told |-> told]
  <1>1. a \in Answer /\ answers \in Seq(Answer) /\ n \in Nat /\ stages \in Nat
    BY StagesAssumption DEF EscalationInv, EscalationTypeOK, Answer
  <1>2. answers' = Append(answers, a)
    BY DEF Answered
  <1> HIDE DEF a
  <1>3. /\ answers' \in Seq(Answer) /\ Len(answers') = n + 1
        /\ \A i \in 1 .. n : answers'[i] = answers[i]
        /\ answers'[n + 1] = a
        /\ DOMAIN answers = 1 .. n /\ DOMAIN answers' = 1 .. n + 1
    BY <1>1, <1>2
  <1>4. LoopInv /\ n < stages
    BY DEF EscalationInv, Consulting
  <1>5. a.given = hints /\ a.verdict = v /\ a.told = told
    BY DEF a
  <1>6. \A i \in 1 .. n : answers'[i].verdict = "Uncertain"
    BY <1>3, <1>4 DEF LoopInv
  <1>7. HintsOfThisReview'
    <2>1. ASSUME NEW i \in 1 .. n + 1, NEW k \in DOMAIN answers'[i].given
          PROVE  answers'[i].given[k].evaluation = evaluation' /\ answers'[i].given[k].stage < i
      <3>1. CASE i \in 1 .. n
        BY <2>1, <3>1, <1>3 DEF EscalationInv, HintsOfThisReview
      <3>2. CASE i = n + 1
        <4>1. k \in DOMAIN hints /\ answers'[i].given[k] = hints[k]
          BY <2>1, <3>2, <1>3, <1>5
        <4>2. hints[k] \in Hint
          BY <4>1 DEF EscalationInv, EscalationTypeOK
        <4>3. hints[k].stage \in Int
          BY <4>2 DEF Hint
        <4> QED
          BY <4>1, <4>3, <3>2, <1>1, <1>4 DEF LoopInv, Ours
      <3> QED
        BY <1>1, <3>1, <3>2
    <2> QED
      BY <2>1, <1>3 DEF HintsOfThisReview
  <1>8. AccumulateIfCarried'
    <2> SUFFICES ASSUME Carried'
                 PROVE  HintsAccumulate'
      BY DEF AccumulateIfCarried
    <2>1. \A j \in 1 .. n : Within(answers'[j].given, answers'[j].told)
      <3>1. Len(answers') - 1 = n
        BY <1>1, <1>3
      <3> QED
        BY <3>1 DEF Carried, Within
    <2>2. HintsAccumulate
      BY <2>1, <1>1, <1>3 DEF EscalationInv, AccumulateIfCarried, Carried
    <2>3. ASSUME NEW i \in 1 .. n + 1, NEW j \in 1 .. i - 1
          PROVE  Within(answers'[j].told, answers'[i].given)
      <3>1. j \in 1 .. n /\ answers'[j] = answers[j]
        BY <1>1, <1>3
      <3>2. CASE i \in 1 .. n
        BY <3>1, <3>2, <1>3, <2>2 DEF HintsAccumulate
      <3>3. CASE i = n + 1
        <4>1. answers'[i].given = answers[n].told
          BY <3>1, <3>3, <1>1, <1>3, <1>4, <1>5 DEF LoopInv
        <4>2. CASE j = n
          BY <4>1, <4>2, <3>1 DEF Within
        <4>3. CASE j \in 1 .. n - 1
          <5>1. Within(answers[j].told, answers[n].given)
            BY <4>3, <1>1, <1>3, <2>2 DEF HintsAccumulate
          <5>2. n \in 1 .. n /\ Within(answers[n].given, answers[n].told)
            BY <4>3, <1>1, <1>3, <2>1
          <5> QED
            BY <5>1, <5>2, <4>1, <3>1 DEF Within
        <4> QED
          BY <4>2, <4>3, <3>1, <1>1
      <3> QED
        BY <1>1, <3>2, <3>3
    <2> QED
      BY <2>3, <1>3 DEF HintsAccumulate, Within
  <1> QED
    BY <1>1, <1>3, <1>4, <1>6, <1>7, <1>8 DEF a

LEMMA DecideInv ==
  ASSUME EscalationInv, Decide
  PROVE  EscalationInv'
  <1>1. PICK v \in Definitive : /\ Consulting /\ Answered(v, <<>>) /\ verdict' = v
                                /\ phase' = "returned" /\ UNCHANGED <<stages, evaluation, hints>>
    BY DEF Decide
  <1>2. <<>> \in Seq(Hint)
    OBVIOUS
  <1>3. /\ answers' \in Seq(Answer) /\ Len(answers') = Len(answers) + 1 /\ Len(answers') <= stages
        /\ answers'[Len(answers')] = [verdict |-> v, given |-> hints, told |-> <<>>]
        /\ \A i \in 1 .. Len(answers') - 1 : answers'[i].verdict = "Uncertain"
        /\ HintsOfThisReview' /\ AccumulateIfCarried'
    BY <1>1, <1>2, AnsweredFacts
  <1>4. EscalationTypeOK'
    BY <1>1, <1>3 DEF EscalationInv, EscalationTypeOK, Answer
  <1>5. answers' # <<>>
    BY <1>3 DEF EscalationInv, EscalationTypeOK
  <1>6. DecidedByFirst'
    BY <1>1, <1>3, <1>5 DEF DecidedByFirst
  <1> QED
    BY <1>1, <1>3, <1>4, <1>6 DEF EscalationInv

LEMMA EscalateInv ==
  ASSUME EscalationInv, Escalate
  PROVE  EscalationInv'
  <1> DEFINE own == [stage |-> Len(answers) + 1, evaluation |-> evaluation]
  <1>1. PICK told \in Contexts : /\ Consulting /\ Answered("Uncertain", told) /\ hints' = told
                                 /\ UNCHANGED <<stages, evaluation, phase, verdict>>
    BY DEF Escalate
  <1>2. LoopInv /\ Len(answers) < stages
    BY <1>1 DEF EscalationInv, Consulting
  <1>3. own \in Hint /\ hints \in Seq(Hint)
    BY <1>2, StagesAssumption DEF EscalationInv, EscalationTypeOK, Hint, LoopInv
  <1>4. told \in {<<>>, <<own>>, hints, Append(hints, own)}
    BY DEF Contexts
  <1>5. told \in Seq(Hint)
    <2>1. Append(hints, own) \in Seq(Hint) /\ <<own>> \in Seq(Hint) /\ <<>> \in Seq(Hint)
      <3> HIDE DEF own
      <3> QED
        BY <1>3
    <2> QED
      BY <1>3, <1>4, <2>1
  <1>6. /\ answers' \in Seq(Answer) /\ Len(answers') = Len(answers) + 1 /\ Len(answers') <= stages
        /\ answers'[Len(answers')] = [verdict |-> "Uncertain", given |-> hints, told |-> told]
        /\ \A i \in 1 .. Len(answers') - 1 : answers'[i].verdict = "Uncertain"
        /\ HintsOfThisReview' /\ AccumulateIfCarried'
    BY <1>1, <1>5, AnsweredFacts
  <1>7. EscalationTypeOK'
    BY <1>1, <1>5, <1>6 DEF EscalationInv, EscalationTypeOK, Answer
  <1>8. Ours(told, Len(answers) + 1)
    <2> SUFFICES ASSUME NEW k \in DOMAIN told
                 PROVE  told[k].evaluation = evaluation /\ told[k].stage <= Len(answers) + 1
      BY DEF Ours
    <2>1. Len(answers) \in Nat
      BY DEF EscalationInv, EscalationTypeOK
    <2>2. \A l \in DOMAIN hints :
            hints[l].evaluation = evaluation /\ hints[l].stage <= Len(answers) + 1
      <3> TAKE l \in DOMAIN hints
      <3>1. hints[l].stage \in Int
        <4>1. hints[l] \in Hint
          BY <1>3
        <4> QED
          BY <4>1 DEF Hint
      <3> QED
        BY <3>1, <2>1, <1>2 DEF LoopInv, Ours
    <2>3. told[k] = own \/ \E l \in DOMAIN hints : told[k] = hints[l]
      BY <1>3, <1>4
    <2> QED
      BY <2>1, <2>2, <2>3
  <1>9. LoopInv'
    <2>1. answers' # <<>> /\ answers'[Len(answers')].told = told
      BY <1>6 DEF EscalationInv, EscalationTypeOK
    <2>2. \A i \in DOMAIN answers' : answers'[i].verdict = "Uncertain"
      BY <1>6
    <2>3. Ours(hints, Len(answers))'
      BY <1>1, <1>6, <1>8 DEF Ours
    <2> QED
      BY <1>1, <1>2, <2>1, <2>2, <2>3 DEF LoopInv
  <1>10. DecidedByFirst'
    BY <1>1, <1>6 DEF DecidedByFirst, Consulting
  <1> QED
    BY <1>1, <1>6, <1>7, <1>9, <1>10 DEF EscalationInv, Consulting

LEMMA ConcludeInv ==
  ASSUME EscalationInv, Conclude
  PROVE  EscalationInv'
  <1>1. EscalationTypeOK'
    BY DEF EscalationInv, Conclude, EscalationTypeOK
  <1>2. HintsOfThisReview' /\ AccumulateIfCarried'
    BY SameAnswers DEF Conclude
  <1>3. LoopInv
    BY DEF EscalationInv, Conclude
  <1>4. DecidedByFirst'
    BY <1>3 DEF EscalationInv, Conclude, DecidedByFirst, LoopInv
  <1> QED
    BY <1>1, <1>2, <1>4 DEF EscalationInv, Conclude

LEMMA DropInv ==
  ASSUME EscalationInv, Drop
  PROVE  EscalationInv'
  <1>1. EscalationTypeOK'
    BY DEF EscalationInv, Drop, EscalationTypeOK
  <1>2. HintsOfThisReview' /\ AccumulateIfCarried'
    BY SameAnswers DEF Drop
  <1>3. DecidedByFirst'
    BY DEF EscalationInv, Drop, DecidedByFirst
  <1> QED
    BY <1>1, <1>2, <1>3 DEF EscalationInv, Drop

LEMMA EscalationNextInv == EscalationInv /\ [EscalationNext]_escalationVars => EscalationInv'
  <1> SUFFICES ASSUME EscalationInv, [EscalationNext]_escalationVars PROVE EscalationInv'
    OBVIOUS
  <1>1. CASE AddStage
    BY <1>1, AddStageInv
  <1>2. CASE Begin
    BY <1>2, BeginInv
  <1>3. CASE Decide
    BY <1>3, DecideInv
  <1>4. CASE Escalate
    BY <1>4, EscalateInv
  <1>5. CASE Conclude
    BY <1>5, ConcludeInv
  <1>6. CASE Drop
    BY <1>6, DropInv
  <1>7. CASE UNCHANGED escalationVars
    <2>1. HintsOfThisReview' /\ AccumulateIfCarried'
      BY <1>7, SameAnswers DEF escalationVars
    <2> QED
      BY <1>7, <2>1 DEF escalationVars, EscalationInv, EscalationTypeOK, LoopInv, Ours, DecidedByFirst
  <1> QED
    BY <1>1, <1>2, <1>3, <1>4, <1>5, <1>6, <1>7 DEF EscalationNext

\* What evaluate() keeps at every await (escalation.rs:215-247).
THEOREM EscalationInvariance == EscalationSpec => []EscalationInv
  BY EscalationInitInv, EscalationNextInv, PTL DEF EscalationSpec

\* For pipelines of any length the first definitive verdict is the result, and a
\* conservative pass means that every stage was asked (escalation.rs:221-246).
THEOREM FirstDecides == EscalationSpec => []DecidedByFirst
  <1>1. EscalationInv => DecidedByFirst
    BY DEF EscalationInv
  <1> QED
    BY <1>1, EscalationInvariance, PTL

\* No stage sees a hint of another evaluation or of a later stage, however many
\* evaluations were dropped before (escalation.rs:216-219).
THEOREM HintsAreOurs == EscalationSpec => []HintsOfThisReview
  <1>1. EscalationInv => HintsOfThisReview
    BY DEF EscalationInv
  <1> QED
    BY <1>1, EscalationInvariance, PTL

\* If every stage repeats what it was given, all hints accumulate, whatever the
\* number of stages between (escalation.rs:230-237).
THEOREM CarriedAccumulate == EscalationSpec => []AccumulateIfCarried
  <1>1. EscalationInv => AccumulateIfCarried
    BY DEF EscalationInv
  <1> QED
    BY <1>1, EscalationInvariance, PTL
=============================================================================
