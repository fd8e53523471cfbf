------------------------- MODULE EscalationPipeline --------------------------
(***************************************************************************)
(* actor/escalation.rs: stages of rising cost consulted one after the      *)
(* other, until one decides.  A stage is external code: it may pass, fail, *)
(* or be uncertain and hand on a context whose hints it makes up as it     *)
(* likes from those it was given.  The caller may drop evaluate() at any   *)
(* await, which is what an agent's select! does on a signal, and evaluate  *)
(* again with the same pipeline.                                           *)
(***************************************************************************)
EXTENDS Integers, Sequences

CONSTANTS MaxStages,        \* bound: stages of a pipeline
          MaxEvaluations    \* bound: calls of evaluate()

ASSUME StagesAssumption == MaxStages \in Nat /\ MaxEvaluations \in Nat

VARIABLES
    stages,      \* how many stages add_stage() appended
    evaluation,  \* number of the running or last evaluation, which stands for its content
    phase,       \* "idle", "evaluating", "returned" or "dropped"
    hints,       \* evaluate()'s local: the hints for the next stage
    verdict,     \* what evaluate() returned
    answers      \* history: the verdict of each stage consulted, and the hints it was given

escalationVars == <<stages, evaluation, phase, hints, verdict, answers>>

\* A hint names the stage that gave it and the evaluation it was given in.
Hint == [stage : 1 .. MaxStages, evaluation : 1 .. MaxEvaluations]

Definitive == {"Pass", "Fail"}

\* The low-confidence Pass { confidence: 0.1 } of a pipeline without a decision.
Conservative == "conservative Pass"

EscalationInit ==
    /\ stages = 0
    /\ evaluation = 0
    /\ phase = "idle"
    /\ hints = <<>>
    /\ verdict = "none"
    /\ answers = <<>>

\* add_stage() consumes the pipeline, so it comes before any evaluation.
AddStage ==
    /\ phase = "idle"
    /\ stages < MaxStages
    /\ stages' = stages + 1
    /\ UNCHANGED <<evaluation, phase, hints, verdict, answers>>

\* Mutant: the hints live in the pipeline and are not reset.
MutantBegin ==
    /\ phase # "evaluating"
    /\ evaluation < MaxEvaluations
    /\ evaluation' = evaluation + 1
    /\ phase' = "evaluating"
    /\ verdict' = "none"
    /\ answers' = <<>>
    /\ UNCHANGED <<stages, hints>>

Begin ==
    /\ phase # "evaluating"
    /\ evaluation < MaxEvaluations
    /\ evaluation' = evaluation + 1
    /\ phase' = "evaluating"
    /\ hints' = <<>>
    /\ verdict' = "none"
    /\ answers' = <<>>
    /\ UNCHANGED stages

Consulting == phase = "evaluating" /\ Len(answers) < stages

Answered(v, told) == answers' = Append(answers, [verdict |-> v, given |-> hints, told |-> told])

\* Mutant: a Pass does not end the pipeline.
MutantDecide ==
    \E v \in Definitive :
        /\ Consulting
        /\ Answered(v, <<>>)
        /\ IF v = "Fail" \/ Len(answers) + 1 = stages
           THEN verdict' = v /\ phase' = "returned"
           ELSE UNCHANGED <<verdict, phase>>
        /\ UNCHANGED <<stages, evaluation, hints>>

\* Pass or Fail returns at once.
Decide ==
    \E v \in Definitive :
        /\ Consulting
        /\ Answered(v, <<>>)
        /\ verdict' = v
        /\ phase' = "returned"
        /\ UNCHANGED <<stages, evaluation, hints>>

\* The contexts an uncertain stage may hand on: a new one, one with a hint of
\* its own, or one in which it repeats what it was given.
Contexts ==
    LET own == [stage |-> Len(answers) + 1, evaluation |-> evaluation]
    IN  {<<>>, <<own>>, hints, Append(hints, own)}

\* Mutant: only the context's first hint is passed on.
MutantEscalate ==
    \E told \in Contexts :
        /\ Consulting
        /\ Answered("Uncertain", told)
        /\ hints' = IF told = <<>> THEN told ELSE <<Head(told)>>
        /\ UNCHANGED <<stages, evaluation, phase, verdict>>

\* The context's hints take the place of those before.
Escalate ==
    \E told \in Contexts :
        /\ Consulting
        /\ Answered("Uncertain", told)
        /\ hints' = told
        /\ UNCHANGED <<stages, evaluation, phase, verdict>>

Conclude ==
    /\ phase = "evaluating"
    /\ Len(answers) = stages
    /\ verdict' = Conservative
    /\ phase' = "returned"
    /\ UNCHANGED <<stages, evaluation, hints, answers>>

\* The future of evaluate() is dropped while a stage is awaited.
Drop ==
    /\ Consulting
    /\ phase' = "dropped"
    /\ UNCHANGED <<stages, evaluation, hints, verdict, answers>>

EscalationNext == AddStage \/ Begin \/ Decide \/ Escalate \/ Conclude \/ Drop

EscalationSpec == EscalationInit /\ [][EscalationNext]_escalationVars

-----------------------------------------------------------------------------
(***************************************************************************)
(* Properties.                                                             *)
(***************************************************************************)

EscalationTypeOK ==
    /\ stages \in 0 .. MaxStages
    /\ evaluation \in 0 .. MaxEvaluations
    /\ phase \in {"idle", "evaluating", "returned", "dropped"}
    /\ hints \in Seq(Hint)
    /\ verdict \in Definitive \cup {Conservative, "none"}
    /\ answers \in Seq([verdict : Definitive \cup {"Uncertain"}, given : Seq(Hint), told : Seq(Hint)])
    /\ Len(answers) <= stages

\* evaluate() returns the first definitive verdict and consults no stage after
\* it; the conservative pass means that every stage was asked and none decided,
\* also when earlier evaluations were dropped half-way.
DecidedByFirst ==
    /\ \A i \in 1 .. Len(answers) - 1 : answers[i].verdict = "Uncertain"
    /\ phase = "returned" =>
           \/ answers # <<>> /\ verdict = answers[Len(answers)].verdict /\ verdict \in Definitive
           \/ /\ verdict = Conservative
              /\ Len(answers) = stages
              /\ \A i \in DOMAIN answers : answers[i].verdict = "Uncertain"

\* A stage sees hints about the content under review only, never those an
\* earlier evaluation of the same pipeline left, and only from stages before it.
HintsOfThisReview ==
    \A i \in DOMAIN answers : \A k \in DOMAIN answers[i].given :
        /\ answers[i].given[k].evaluation = evaluation
        /\ answers[i].given[k].stage < i

Within(few, many) == {few[k] : k \in DOMAIN few} \subseteq {many[k] : k \in DOMAIN many}

\* Every stage with another one after it repeats the hints it was given.
Carried == \A j \in 1 .. Len(answers) - 1 : Within(answers[j].given, answers[j].told)

\* "Escalate to the next stage with accumulated context" (escalation.rs:8): a
\* stage sees every hint the stages before it gave.  It does only if each of
\* those repeated what it was given, for evaluate() replaces the hints.
HintsAccumulate ==
    \A i \in DOMAIN answers : \A j \in 1 .. i - 1 : Within(answers[j].told, answers[i].given)

\* That is enough, however many stages lie between: if each of those consulted
\* repeats what it was given, every earlier hint gets through.
AccumulateIfCarried == Carried => HintsAccumulate
=============================================================================
