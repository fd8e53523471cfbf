-------------------------- MODULE LlamaBackendProofs --------------------------
(***************************************************************************)
(* Proofs about the two models of src/inference/backend.rs: LlamaBackend,  *)
(* for any number of engines, calls and abandoned jobs, and then           *)
(* BackendRefcount, for any number of loads and drops.                     *)
(***************************************************************************)
EXTENDS LlamaBackend, BackendRefcount, FiniteSetTheorems, TLAPS

(* Nothing holds an Arc any more once the last one has been dropped. *)
FreedInv == freed => Holders(pc, job) = {}

(* What an engine's thread is doing bounds the calls it has made. *)
ThreadInv ==
  \A e \in Engine :
    /\ pc[e] \in {"awaiting", "injecting"} => calls[e] >= 1
    /\ pc[e] = "erasing" => calls[e] < MaxCalls

(* A running job is the one its engine awaits, or has been abandoned. *)
OwnerInv ==
  \A j \in Job : Unfinished(j) =>
    j \in abandoned \/ (pc[j[1]] = "awaiting" /\ j[2] = calls[j[1]])

(* Whose logits a job may sample: its own, another engine's, or those of a  *)
(* call next to an abandoned one.                                           *)
Mixed(j, l) == l = j \/ l[1] # j[1] \/ j \in abandoned \/ l \in abandoned

LogitsInv ==
  \A j \in Job : job[j] \in {"decoded", "sampling"} => logits \in Job /\ Mixed(j, logits)

SampledInv ==
  \A j \in Job : sampled[j] # Nobody => Mixed(j, sampled[j])

IInv ==
  TypeOK /\ FreedInv /\ ThreadInv /\ OwnerInv /\ LogitsInv /\ SampledInv

LEMMA JobPair ==
  ASSUME NEW j \in Job
  PROVE  j[1] \in Engine /\ j[2] \in 1 .. MaxCalls /\ j = <<j[1], j[2]>>
  BY DEF Job

LEMMA PairJob ==
  ASSUME NEW e \in Engine, NEW n \in 1 .. MaxCalls
  PROVE  <<e, n>> \in Job /\ <<e, n>>[1] = e /\ <<e, n>>[2] = n
  BY DEF Job

(* Two jobs of one engine are told apart by their numbers. *)
LEMMA SameJob ==
  ASSUME NEW j \in Job, NEW k \in Job, j[1] = k[1], j[2] = k[2]
  PROVE  j = k
  BY JobPair

LEMMA InitInv == Init => IInv
  <1> SUFFICES ASSUME Init PROVE IInv
    OBVIOUS
  <1>1. TypeOK
    <2>1. ASSUME NEW j \in Job PROVE job[j] = "unused" /\ j[2] > calls[j[1]]
      BY JobPair DEF Init
    <2>2. calls \in [Engine -> 0 .. MaxCalls]
      BY BackendAssumption DEF Init
    <2> QED
      BY <2>1, <2>2 DEF Init, TypeOK
  <1> QED
    BY <1>1 DEF Init, IInv, FreedInv, ThreadInv, OwnerInv, LogitsInv,
       SampledInv, Unfinished

(* A new call of an engine: the job it stands for was unused. *)
LEMMA NewCall ==
  ASSUME TypeOK, NEW e \in Engine, calls[e] < MaxCalls
  PROVE  /\ calls[e] + 1 \in 1 .. MaxCalls
         /\ <<e, calls[e] + 1>> \in Job
         /\ job[<<e, calls[e] + 1>>] = "unused"
  <1>1. calls[e] + 1 \in 1 .. MaxCalls /\ calls[e] \in Nat
    BY BackendAssumption DEF TypeOK
  <1>2. <<e, calls[e] + 1>> \in Job
    BY <1>1, PairJob
  <1> QED
    BY <1>1, <1>2, PairJob DEF TypeOK

(* An engine's step that makes a call, whatever the job starts as. *)
LEMMA CallType ==
  ASSUME TypeOK, NEW e \in Engine, calls[e] < MaxCalls,
         NEW s \in {"queued", "done"}, NEW k \in {"generate", "evaluate", "inject"},
         NEW p \in {"awaiting", "injecting"},
         calls' = [calls EXCEPT ![e] = @ + 1],
         job' = [job EXCEPT ![<<e, calls'[e]>>] = s],
         kind' = [kind EXCEPT ![<<e, calls'[e]>>] = k],
         pc' = [pc EXCEPT ![e] = p],
         UNCHANGED <<lock, logits, sampled, freed, abandoned>>
  PROVE  TypeOK'
  <1> DEFINE new == <<e, calls[e] + 1>>
  <1>1. /\ new \in Job /\ new[1] = e /\ new[2] = calls[e] + 1
        /\ calls[e] + 1 \in 1 .. MaxCalls /\ calls'[e] = calls[e] + 1
        /\ \A d \in Engine \ {e} : calls'[d] = calls[d]
    BY NewCall, PairJob DEF TypeOK
  <1>2. /\ job' = [job EXCEPT ![new] = s] /\ kind' = [kind EXCEPT ![new] = k]
    BY <1>1
  <1> HIDE DEF new
  <1>3. ASSUME NEW j \in Job PROVE job'[j] = "unused" <=> j[2] > calls'[j[1]]
    <2>1. j[1] \in Engine /\ j[2] \in Int /\ calls[e] \in Int
      BY JobPair, BackendAssumption DEF TypeOK
    <2>2. CASE j = new
      <3>1. job'[j] = s
        BY <1>1, <1>2, <2>2 DEF TypeOK
      <3>2. j[2] = calls'[j[1]]
        BY <1>1, <2>2
      <3> QED
        BY <2>1, <3>1, <3>2
    <2>3. CASE j # new
      <3>1. job'[j] = job[j]
        BY <1>2, <2>3 DEF TypeOK
      <3>2. CASE j[1] = e
        <4>1. j[2] # calls[e] + 1
          BY <1>1, <2>3, <3>2, SameJob
        <4>2. job[j] = "unused" <=> j[2] > calls[e]
          BY <3>2 DEF TypeOK
        <4>3. j[2] > calls[e] <=> j[2] > calls[e] + 1
          BY <2>1, <4>1
        <4> QED
          BY <1>1, <3>1, <3>2, <4>2, <4>3
      <3>3. CASE j[1] # e
        BY <1>1, <2>1, <3>1, <3>3 DEF TypeOK
      <3> QED
        BY <3>2, <3>3
    <2> QED
      BY <2>2, <2>3
  <1>4. calls' \in [Engine -> 0 .. MaxCalls]
    BY <1>1, BackendAssumption DEF TypeOK
  <1> QED
    <2>1. pc' \in [Engine -> {"ready", "awaiting", "erasing", "injecting", "gone"}]
      <3>1. p \in {"ready", "awaiting", "erasing", "injecting", "gone"}
        OBVIOUS
      <3> QED
        BY <3>1 DEF TypeOK
    <2>2. job' \in [Job -> {"unused", "queued", "decoding", "decoded", "sampling", "done"}]
      <3>1. s \in {"unused", "queued", "decoding", "decoded", "sampling", "done"}
        OBVIOUS
      <3> QED
        BY <1>2, <3>1 DEF TypeOK
    <2>3. kind' \in [Job -> {"generate", "evaluate", "inject"}]
      BY <1>2 DEF TypeOK
    <2> QED
      BY <1>3, <1>4, <2>1, <2>2, <2>3 DEF TypeOK

(* A step of a job that was used. *)
LEMMA JobType ==
  ASSUME TypeOK, NEW j \in Job, job[j] # "unused",
         NEW s \in {"decoding", "decoded", "sampling", "done"},
         job' = [job EXCEPT ![j] = s],
         lock' \in Job \cup {Nobody}, logits' \in Job \cup {Nobody},
         sampled' \in [Job -> Job \cup {Nobody}], freed' \in BOOLEAN,
         UNCHANGED <<pc, calls, kind, abandoned>>
  PROVE  TypeOK'
  <1>1. \A k \in Job : job'[k] = "unused" <=> job[k] = "unused"
    BY DEF TypeOK
  <1> QED
    BY <1>1 DEF TypeOK

LEMMA TypeStep == IInv /\ [Next]_vars => TypeOK'
  <1> SUFFICES ASSUME IInv, [Next]_vars PROVE TypeOK'
    OBVIOUS
  <1> USE DEF IInv
  <1>1. ASSUME NEW e \in Engine, Submit(e) PROVE TypeOK'
    BY <1>1, CallType DEF Submit
  <1>2. ASSUME NEW e \in Engine, Inject(e) PROVE TypeOK'
    <2>1. calls[e] < MaxCalls
      BY <1>2 DEF Inject, ThreadInv
    <2> QED
      BY <1>2, <2>1, CallType DEF Inject
  <1>3. ASSUME NEW e \in Engine, Resume(e) \/ Erase(e) \/ EraseOnly(e) \/ DropEngine(e)
        PROVE  TypeOK'
    BY <1>3 DEF Resume, Erase, EraseOnly, DropEngine, FreeWithLast, TypeOK
  <1>4. ASSUME NEW e \in Engine, Abandon(e) \/ Injected(e) PROVE TypeOK'
    <2>1. Current(e) \in Job
      <3>1. calls[e] \in 1 .. MaxCalls
        BY <1>4, BackendAssumption DEF Abandon, Injected, ThreadInv, TypeOK
      <3> QED
        BY <3>1, PairJob DEF Current
    <2> QED
      BY <1>4, <2>1 DEF Abandon, Injected, TypeOK
  <1>5. ASSUME NEW j \in Job, Decode(j) PROVE TypeOK'
    <2>1. UNCHANGED <<logits, sampled, freed>> /\ lock' \in Job \cup {Nobody}
      BY <1>5 DEF Decode
    <2> QED
      BY <1>5, <2>1, JobType DEF Decode, TypeOK
  <1>6. ASSUME NEW j \in Job, Decoded(j) PROVE TypeOK'
    <2>1. job' = [job EXCEPT ![j] = IF kind[j] = "generate" THEN "decoded" ELSE "done"]
      BY <1>6 DEF Decoded
    <2>2. /\ UNCHANGED <<pc, calls, kind, abandoned>>
          /\ freed' \in BOOLEAN /\ job[j] # "unused"
          /\ lock' \in Job \cup {Nobody} /\ logits' \in Job \cup {Nobody}
          /\ sampled' \in [Job -> Job \cup {Nobody}]
      BY <1>6 DEF Decoded, FreeWithLast, TypeOK
    <2> QED
      BY <2>1, <2>2, JobType
  <1>7. ASSUME NEW j \in Job, DecodeFails(j) \/ Sample(j) \/ Sampled(j) PROVE TypeOK'
    <2>1. /\ job[j] # "unused"
          /\ job' = [job EXCEPT ![j] = "done"] \/ job' = [job EXCEPT ![j] = "sampling"]
          /\ UNCHANGED <<pc, calls, kind, abandoned>>
          /\ lock' \in Job \cup {Nobody} /\ logits' \in Job \cup {Nobody} /\ freed' \in BOOLEAN
          /\ sampled' \in [Job -> Job \cup {Nobody}]
      BY <1>7 DEF DecodeFails, Sample, Sampled, FreeWithLast, TypeOK
    <2> QED
      BY <2>1, JobType
  <1>8. CASE UNCHANGED vars
    BY <1>8 DEF vars, TypeOK
  <1> QED
    BY <1>1, <1>2, <1>3, <1>4, <1>5, <1>6, <1>7, <1>8 DEF Next

(* Once freed, no engine and no job can take a step that takes hold again.  *)
LEMMA FreedStep == IInv /\ [Next]_vars => FreedInv'
  <1> SUFFICES ASSUME IInv, [Next]_vars PROVE FreedInv'
    OBVIOUS
  <1> USE DEF IInv
  <1>1. freed => (\A e \in Engine : pc[e] = "gone") /\ (\A j \in Job : job[j] \in {"unused", "done"})
    BY DEF FreedInv, Holders
  <1>2. ASSUME NEW e \in Engine,
               \/ Submit(e) \/ Resume(e) \/ Abandon(e) \/ Erase(e) \/ EraseOnly(e)
               \/ Inject(e) \/ Injected(e)
        PROVE  FreedInv'
    <2>1. ~freed /\ freed' = freed
      BY <1>1, <1>2 DEF Submit, Resume, Abandon, Erase, EraseOnly, Inject, Injected
    <2> QED
      BY <2>1 DEF FreedInv
  <1>3. ASSUME NEW e \in Engine, DropEngine(e) PROVE FreedInv'
    <2>1. ~freed
      BY <1>1, <1>3 DEF DropEngine
    <2> QED
      BY <1>3, <2>1 DEF DropEngine, FreeWithLast, FreedInv, Holders
  <1>4. ASSUME NEW j \in Job, Decode(j) \/ Sample(j) PROVE FreedInv'
    <2>1. ~freed /\ freed' = freed
      BY <1>1, <1>4 DEF Decode, Sample
    <2> QED
      BY <2>1 DEF FreedInv
  <1>5. ASSUME NEW j \in Job, Decoded(j) \/ DecodeFails(j) \/ Sampled(j) PROVE FreedInv'
    <2>1. ~freed /\ FreeWithLast
      BY <1>1, <1>5 DEF Decoded, DecodeFails, Sampled
    <2> QED
      BY <2>1 DEF FreeWithLast, FreedInv, Holders
  <1>6. CASE UNCHANGED vars
    BY <1>6 DEF vars, FreedInv, Holders
  <1> QED
    BY <1>2, <1>3, <1>4, <1>5, <1>6 DEF Next

LEMMA ThreadStep == IInv /\ [Next]_vars => ThreadInv'
  <1> SUFFICES ASSUME IInv, [Next]_vars, NEW d \in Engine
               PROVE  /\ pc'[d] \in {"awaiting", "injecting"} => calls'[d] >= 1
                      /\ pc'[d] = "erasing" => calls'[d] < MaxCalls
    BY DEF ThreadInv
  <1> USE DEF IInv
  <1>1. /\ pc[d] \in {"awaiting", "injecting"} => calls[d] >= 1
        /\ pc[d] = "erasing" => calls[d] < MaxCalls
        /\ calls[d] \in Nat
    BY BackendAssumption DEF ThreadInv, TypeOK
  <1>2. ASSUME NEW e \in Engine, Submit(e) \/ Inject(e)
        PROVE  /\ pc'[d] \in {"awaiting", "injecting"} => calls'[d] >= 1
               /\ pc'[d] = "erasing" => calls'[d] < MaxCalls
    BY <1>1, <1>2 DEF Submit, Inject, TypeOK
  <1>3. ASSUME NEW e \in Engine,
               Resume(e) \/ Abandon(e) \/ Erase(e) \/ EraseOnly(e) \/ Injected(e) \/ DropEngine(e)
        PROVE  /\ pc'[d] \in {"awaiting", "injecting"} => calls'[d] >= 1
               /\ pc'[d] = "erasing" => calls'[d] < MaxCalls
    BY <1>1, <1>3 DEF Resume, Abandon, Erase, EraseOnly, Injected, DropEngine, TypeOK
  <1>4. ASSUME NEW j \in Job, Decode(j) \/ Decoded(j) \/ DecodeFails(j) \/ Sample(j) \/ Sampled(j)
        PROVE  UNCHANGED <<pc, calls>>
    BY <1>4 DEF Decode, Decoded, DecodeFails, Sample, Sampled
  <1>5. CASE UNCHANGED <<pc, calls>>
    BY <1>1, <1>5
  <1> QED
    BY <1>2, <1>3, <1>4, <1>5 DEF Next, vars

(* An engine goes on only when its job is done or abandoned.                *)
LEMMA OwnerStep == IInv /\ [Next]_vars => OwnerInv'
  <1> SUFFICES ASSUME IInv, [Next]_vars, NEW k \in Job, Unfinished(k)'
               PROVE  k \in abandoned' \/ (pc'[k[1]] = "awaiting" /\ k[2] = calls'[k[1]])
    BY DEF OwnerInv, Unfinished
  <1> USE DEF IInv
  <1> DEFINE Owned == k \in abandoned' \/ (pc'[k[1]] = "awaiting" /\ k[2] = calls'[k[1]])
  <1>1. /\ k[1] \in Engine /\ k[2] \in Int
        /\ Unfinished(k) => k \in abandoned \/ (pc[k[1]] = "awaiting" /\ k[2] = calls[k[1]])
    BY JobPair DEF OwnerInv
  <1>2. ASSUME NEW e \in Engine, Submit(e) PROVE Owned
    <2> DEFINE new == <<e, calls[e] + 1>>
    <2>1. /\ new \in Job /\ new[1] = e /\ new[2] = calls'[e] /\ pc'[e] = "awaiting"
          /\ job' = [job EXCEPT ![new] = "queued"]
          /\ UNCHANGED abandoned
          /\ \A d \in Engine \ {e} : pc'[d] = pc[d] /\ calls'[d] = calls[d]
          /\ pc[e] = "ready"
      BY <1>2, NewCall, PairJob DEF Submit, TypeOK
    <2> HIDE DEF new
    <2>2. CASE k = new
      BY <2>1, <2>2
    <2>3. CASE k # new
      <3>1. Unfinished(k)
        BY <2>1, <2>3 DEF Unfinished, TypeOK
      <3> QED
        BY <1>1, <2>1, <3>1
    <2> QED
      BY <2>2, <2>3
  <1>3. ASSUME NEW e \in Engine, Inject(e) PROVE Owned
    <2>1. calls[e] < MaxCalls
      BY <1>3 DEF Inject, ThreadInv
    <2> DEFINE new == <<e, calls[e] + 1>>
    <2>2. /\ new \in Job /\ new[1] = e
          /\ job' = [job EXCEPT ![new] = "done"]
          /\ UNCHANGED abandoned /\ pc[e] = "erasing"
          /\ \A d \in Engine \ {e} : pc'[d] = pc[d] /\ calls'[d] = calls[d]
      BY <1>3, <2>1, NewCall, PairJob DEF Inject, TypeOK
    <2> HIDE DEF new
    <2>3. Unfinished(k)
      BY <2>2 DEF Unfinished, TypeOK
    <2> QED
      BY <1>1, <2>2, <2>3
  <1>4. ASSUME NEW e \in Engine, Resume(e) PROVE Owned
    <2>1. /\ Unfinished(k) /\ UNCHANGED <<calls, abandoned>> /\ pc[e] = "awaiting"
          /\ job[<<e, calls[e]>>] = "done"
          /\ \A d \in Engine \ {e} : pc'[d] = pc[d]
      BY <1>4 DEF Resume, Answered, Current, Unfinished, TypeOK
    <2>2. ASSUME k[1] = e, k[2] = calls[e] PROVE FALSE
      <3>1. k = <<e, calls[e]>>
        BY <2>2, JobPair
      <3> QED
        BY <2>1, <3>1 DEF Unfinished
    <2> QED
      BY <1>1, <2>1, <2>2
  <1>5. ASSUME NEW e \in Engine, Abandon(e) PROVE Owned
    <2>1. /\ Unfinished(k) /\ UNCHANGED calls /\ abandoned' = abandoned \cup {<<e, calls[e]>>}
          /\ \A d \in Engine \ {e} : pc'[d] = pc[d]
      BY <1>5 DEF Abandon, Current, Unfinished, TypeOK
    <2>2. k[1] = e /\ k[2] = calls[e] => k \in abandoned'
      BY <2>1, JobPair
    <2> QED
      BY <1>1, <2>1, <2>2
  <1>6. ASSUME NEW e \in Engine, Erase(e) \/ EraseOnly(e) \/ Injected(e) \/ DropEngine(e) PROVE Owned
    <2>1. /\ Unfinished(k) /\ UNCHANGED <<calls, abandoned>> /\ pc[e] # "awaiting"
          /\ \A d \in Engine \ {e} : pc'[d] = pc[d]
      BY <1>6 DEF Erase, EraseOnly, Injected, DropEngine, Unfinished, TypeOK
    <2> QED
      BY <1>1, <2>1
  <1>7. ASSUME NEW j \in Job, Decode(j) \/ Decoded(j) \/ DecodeFails(j) \/ Sample(j) \/ Sampled(j)
        PROVE  Owned
    <2>1. Unfinished(k) /\ UNCHANGED <<pc, calls, abandoned>>
      BY <1>7 DEF Decode, Decoded, DecodeFails, Sample, Sampled, Unfinished, TypeOK
    <2> QED
      BY <1>1, <2>1
  <1>8. CASE UNCHANGED vars
    BY <1>1, <1>8 DEF vars, Unfinished
  <1> QED
    BY <1>2, <1>3, <1>4, <1>5, <1>6, <1>7, <1>8 DEF Next

(* Two jobs of one engine that hold logits: one of them was abandoned.      *)
LEMMA NextToAbandoned ==
  ASSUME OwnerInv, NEW j \in Job, NEW k \in Job, Unfinished(j), Unfinished(k)
  PROVE  Mixed(j, k)
  BY SameJob DEF OwnerInv, Mixed

LEMMA LogitsStep == IInv /\ [Next]_vars => LogitsInv'
  <1> SUFFICES ASSUME IInv, [Next]_vars, NEW k \in Job, job'[k] \in {"decoded", "sampling"}
               PROVE  logits' \in Job /\ Mixed(k, logits)'
    BY DEF LogitsInv
  <1> USE DEF IInv
  <1> DEFINE Holds == job[k] \in {"decoded", "sampling"}
             Goal == logits' \in Job /\ Mixed(k, logits)'
  <1>1. Holds => logits \in Job /\ Mixed(k, logits)
    BY DEF LogitsInv
  <1>2. ASSUME Holds, logits' = logits, abandoned \subseteq abandoned' PROVE Goal
    BY <1>1, <1>2 DEF Mixed
  <1>3. ASSUME NEW e \in Engine, Submit(e) \/ Inject(e) PROVE Goal
    <2>1. UNCHANGED <<logits, abandoned>> /\ job'[k] \in {job[k], "queued", "done"}
      BY <1>3 DEF Submit, Inject, TypeOK
    <2> QED
      BY <1>2, <2>1
  <1>4. ASSUME NEW e \in Engine,
               Resume(e) \/ Abandon(e) \/ Erase(e) \/ EraseOnly(e) \/ DropEngine(e)
        PROVE  Goal
    <2>1. UNCHANGED <<logits, job>> /\ abandoned \subseteq abandoned'
      BY <1>4 DEF Resume, Abandon, Erase, EraseOnly, DropEngine
    <2> QED
      BY <1>2, <2>1
  <1>5. ASSUME NEW e \in Engine, Injected(e) PROVE Goal
    <2>1. UNCHANGED <<job, abandoned>> /\ pc[e] = "injecting" /\ logits' \in {Current(e), logits}
      BY <1>5 DEF Injected
    <2>2. CASE logits' = logits
      BY <1>2, <2>1, <2>2
    <2>3. CASE logits' = Current(e)
      <3>1. calls[e] \in 1 .. MaxCalls
        BY <2>1, BackendAssumption DEF ThreadInv, TypeOK
      <3>2. logits' \in Job /\ logits'[1] = e
        BY <2>3, <3>1, PairJob DEF Current
      <3>3. k[1] = e => k \in abandoned
        BY <2>1 DEF OwnerInv, Unfinished
      <3> QED
        BY <2>1, <3>2, <3>3 DEF Mixed
    <2> QED
      BY <2>1, <2>2, <2>3
  <1>6. ASSUME NEW j \in Job, Decode(j) \/ DecodeFails(j) PROVE Goal
    <2>1. UNCHANGED <<logits, abandoned>> /\ job'[k] \in {job[k], "decoding", "done"}
      BY <1>6 DEF Decode, DecodeFails, TypeOK
    <2> QED
      BY <1>2, <2>1
  <1>7. ASSUME NEW j \in Job, Decoded(j) PROVE Goal
    <2>1. logits' = j /\ UNCHANGED abandoned /\ Unfinished(j)
      BY <1>7 DEF Decoded, Unfinished
    <2>2. k # j => Unfinished(k)
      BY <1>7 DEF Decoded, Unfinished, TypeOK
    <2>3. k # j => Mixed(k, j)
      BY <2>1, <2>2, NextToAbandoned
    <2> QED
      BY <2>1, <2>3 DEF Mixed
  <1>8. ASSUME NEW j \in Job, Sample(j) \/ Sampled(j) PROVE Goal
    <2>1. UNCHANGED <<logits, abandoned>> /\ Holds
      BY <1>8 DEF Sample, Sampled, TypeOK
    <2> QED
      BY <1>2, <2>1
  <1>9. CASE UNCHANGED vars
    <2>1. UNCHANGED <<logits, abandoned, job>>
      BY <1>9 DEF vars
    <2> QED
      BY <1>2, <2>1
  <1> QED
    BY <1>3, <1>4, <1>5, <1>6, <1>7, <1>8, <1>9 DEF Next

LEMMA SampledStep == IInv /\ [Next]_vars => SampledInv'
  <1> SUFFICES ASSUME IInv, [Next]_vars, NEW k \in Job, sampled'[k] # Nobody
               PROVE  Mixed(k, sampled[k])'
    BY DEF SampledInv
  <1> USE DEF IInv
  <1>1. sampled[k] # Nobody => Mixed(k, sampled[k])
    BY DEF SampledInv
  <1>2. ASSUME UNCHANGED sampled, abandoned \subseteq abandoned' PROVE Mixed(k, sampled[k])'
    BY <1>1, <1>2 DEF Mixed
  <1>3. ASSUME NEW e \in Engine,
               \/ Submit(e) \/ Resume(e) \/ Abandon(e) \/ Erase(e) \/ EraseOnly(e)
               \/ Inject(e) \/ Injected(e) \/ DropEngine(e)
        PROVE  Mixed(k, sampled[k])'
    <2>1. UNCHANGED sampled /\ abandoned \subseteq abandoned'
      BY <1>3 DEF Submit, Resume, Abandon, Erase, EraseOnly, Inject, Injected, DropEngine
    <2> QED
      BY <1>2, <2>1
  <1>4. ASSUME NEW j \in Job, Decode(j) \/ Decoded(j) \/ DecodeFails(j) \/ Sample(j)
        PROVE  Mixed(k, sampled[k])'
    <2>1. UNCHANGED <<sampled, abandoned>>
      BY <1>4 DEF Decode, Decoded, DecodeFails, Sample
    <2> QED
      BY <1>2, <2>1
  <1>5. ASSUME NEW j \in Job, Sampled(j) PROVE Mixed(k, sampled[k])'
    <2>1. UNCHANGED <<logits, abandoned>> /\ Mixed(j, logits)
      BY <1>5 DEF Sampled, LogitsInv
    <2>2. sampled'[k] = IF k = j THEN logits ELSE sampled[k]
      BY <1>5 DEF Sampled, TypeOK
    <2> QED
      BY <1>1, <2>1, <2>2 DEF Mixed
  <1>6. CASE UNCHANGED vars
    BY <1>2, <1>6 DEF vars
  <1> QED
    BY <1>3, <1>4, <1>5, <1>6 DEF Next

(* The invariants together are inductive. *)
THEOREM Invariance == Spec => []IInv
  <1>1. IInv /\ [Next]_vars => IInv'
    BY TypeStep, FreedStep, ThreadStep, OwnerStep, LogitsStep, SampledStep DEF IInv
  <1> QED
    BY InitInv, <1>1, PTL DEF Spec

(* The context is freed only when nobody is inside llama.cpp and no job     *)
(* will enter it: the clone of the Arc moved into each blocking closure     *)
(* keeps it alive after the engine has gone (backend.rs:519-527, 663-686).  *)
THEOREM ContextOutlives == Spec => []ContextOutlivesUse
  <1>1. IInv => ContextOutlivesUse
    <2>1. Holders(pc, job) = {} => ContextOutlivesUse
      BY DEF Holders, ContextOutlivesUse, Inside
    <2> QED
      BY <2>1 DEF IInv, FreedInv, ContextOutlivesUse
  <1> QED
    BY Invariance, <1>1, PTL

(* Sampling holds no lock, yet only another engine's decode, or a call of   *)
(* the same engine next to one whose future was dropped, can put its logits *)
(* in between (generate_next_sync, backend.rs:221-279).                     *)
THEOREM LogitsOnlyMixed == Spec => []LogitsMixed
  <1>1. IInv => LogitsMixed
    BY DEF IInv, SampledInv, Mixed, LogitsMixed
  <1> QED
    BY Invariance, <1>1, PTL

(* Without a running abandoned job, one engine never has two calls inside   *)
(* the context at once: it awaits its blocking job before it erases or      *)
(* injects (backend.rs:663-686).                                            *)
THEOREM OneAtATime == Spec => []OneInsidePerEngine
  <1>1. IInv => OneInsidePerEngine
    <2> SUFFICES ASSUME IInv, NEW e \in Engine,
                        \A j \in abandoned : j[1] = e => ~Unfinished(j)
                 PROVE  Cardinality({j \in Inside \cap Job : j[1] = e} \cup (Inside \cap {e})) <= 1
      BY DEF OneInsidePerEngine
    <2> DEFINE S == {j \in Inside \cap Job : j[1] = e} \cup (Inside \cap {e})
    <2>1. ASSUME NEW j \in Inside \cap Job, j[1] = e
          PROVE  pc[e] = "awaiting" /\ j = <<e, calls[e]>>
      <3>1. Unfinished(j)
        BY <2>1, EngineAssumption DEF Inside, Unfinished
      <3>2. pc[e] = "awaiting" /\ j[2] = calls[e]
        BY <2>1, <3>1 DEF IInv, OwnerInv
      <3> QED
        BY <2>1, <3>2, JobPair
    <2>2. e \in Inside => pc[e] \in {"erasing", "injecting"}
      BY EngineAssumption DEF Inside
    <2>3. PICK x : S \subseteq {x}
      <3>1. CASE pc[e] = "awaiting"
        BY <2>1, <2>2, <3>1
      <3>2. CASE pc[e] # "awaiting"
        BY <2>1, <3>2
      <3> QED
        BY <3>1, <3>2
    <2>4. IsFiniteSet({x}) /\ Cardinality({x}) = 1
      BY FS_Singleton
    <2> HIDE DEF S
    <2>5. Cardinality(S) <= Cardinality({x})
      BY <2>3, <2>4, FS_Subset
    <2> QED
      BY <2>4, <2>5 DEF S
  <1> QED
    BY Invariance, <1>1, PTL

-----------------------------------------------------------------------------
(* The global backend, for any number of slots and loads, with overlapping  *)
(* loads and drops and with failing loads.                                  *)

(* The counter holds one unit for each backend in use or being loaded and   *)
(* one for each load that failed.                                           *)
CountExact == refcount = Cardinality(Counted) + failed

RefcountInv == RefcountTypeOK /\ CountExact

LEMMA CountedFinite == IsFiniteSet(Counted) /\ Cardinality(Counted) \in Nat
  BY RefcountAssumption, FS_Subset, FS_CardinalityType DEF Counted

LEMMA RefcountInitInv == RefcountInit => RefcountInv
  <1> SUFFICES ASSUME RefcountInit PROVE RefcountInv
    OBVIOUS
  <1>1. Counted = {}
    BY DEF RefcountInit, Counted
  <1>2. Cardinality(Counted) = 0
    BY <1>1, FS_EmptySet
  <1>3. CountExact
    BY <1>2 DEF RefcountInit, CountExact
  <1>4. RefcountTypeOK
    <2>1. slots \in [Slot -> {"empty", "initializing", "loading", "live", "freeing"}]
      BY DEF RefcountInit
    <2>2. refcount \in 0..loads /\ loads \in Nat /\ failed \in 0..loads
      BY DEF RefcountInit
    <2> QED
      BY <2>1, <2>2 DEF RefcountInit, RefcountTypeOK
  <1> QED
    BY <1>3, <1>4 DEF RefcountInv

LEMMA CountInv ==
  ASSUME RefcountInv, NEW s \in Slot, Count(s)
  PROVE  RefcountInv'
  <1> USE DEF RefcountInv
  <1>1. Counted' = Counted \cup {s} /\ s \notin Counted
    BY DEF Count, Counted, RefcountTypeOK
  <1>2. Cardinality(Counted') = Cardinality(Counted) + 1
    BY <1>1, CountedFinite, FS_AddElement
  <1>3. CountExact'
    BY <1>2, CountedFinite DEF Count, CountExact, RefcountTypeOK
  <1>4. overlapped' \in BOOLEAN
    BY DEF Count, Begin
  <1>5. RefcountTypeOK'
    BY <1>4 DEF Count, RefcountTypeOK
  <1> QED
    BY <1>3, <1>5

LEMMA KeepInv ==
  ASSUME RefcountInv, NEW s \in Slot, Initialize(s) \/ LoadSucceeds(s) \/ BackendFree(s)
  PROVE  RefcountInv'
  <1> USE DEF RefcountInv
  <1>1. Counted' = Counted
    BY DEF Initialize, LoadSucceeds, BackendFree, Counted, RefcountTypeOK
  <1>2. CountExact'
    BY <1>1 DEF Initialize, LoadSucceeds, BackendFree, CountExact
  <1>3. RefcountTypeOK'
    BY DEF Initialize, LoadSucceeds, BackendFree, RefcountTypeOK
  <1> QED
    BY <1>2, <1>3

(* Who leaves the counted: the counter keeps its unit after a failed load.  *)
LEMMA LeaveCounted ==
  ASSUME RefcountInv, NEW s \in Slot, LoadFails(s) \/ Drop(s)
  PROVE  /\ s \in Counted
         /\ Counted' = Counted \ {s}
         /\ Cardinality(Counted') = Cardinality(Counted) - 1
  <1>1. s \in Counted /\ Counted' = Counted \ {s}
    BY DEF RefcountInv, LoadFails, Drop, Counted, RefcountTypeOK
  <1> QED
    BY <1>1, CountedFinite, FS_RemoveElement

LEMMA LeaveInv ==
  ASSUME RefcountInv, NEW s \in Slot, LoadFails(s) \/ Drop(s)
  PROVE  RefcountInv'
  <1> USE DEF RefcountInv
  <1>1. /\ Cardinality(Counted') = Cardinality(Counted) - 1
        /\ Cardinality(Counted) \in Nat /\ Cardinality(Counted') \in Nat
    <2>1. IsFiniteSet(Counted')
      BY LeaveCounted, CountedFinite, FS_Subset
    <2> QED
      BY <2>1, LeaveCounted, CountedFinite, FS_CardinalityType
  <1>2. CASE LoadFails(s)
    BY <1>1, <1>2 DEF LoadFails, CountExact, RefcountTypeOK
  <1>3. CASE Drop(s)
    <2>1. overlapped' \in BOOLEAN
      BY <1>3 DEF Drop, Begin
    <2>2. CountExact'
      BY <1>1, <1>3 DEF Drop, CountExact, RefcountTypeOK
    <2>3. RefcountTypeOK'
      BY <1>1, <1>3, <2>1 DEF Drop, CountExact, RefcountTypeOK
    <2> QED
      BY <2>2, <2>3
  <1> QED
    BY <1>2, <1>3

LEMMA RefcountNextInv == RefcountInv /\ [RefcountNext]_refcountVars => RefcountInv'
  <1> SUFFICES ASSUME RefcountInv, [RefcountNext]_refcountVars PROVE RefcountInv'
    OBVIOUS
  <1>1. CASE RefcountNext
    BY <1>1, CountInv, KeepInv, LeaveInv DEF RefcountNext
  <1>2. CASE UNCHANGED refcountVars
    BY <1>2 DEF refcountVars, RefcountInv, RefcountTypeOK, CountExact, Counted
  <1> QED
    BY <1>1, <1>2

(* Between any two steps of loads and drops the counter is the number of    *)
(* backends that have taken a count and not given it back, plus what failed *)
(* loads kept (backend.rs:166-170, 355).                                    *)
THEOREM RefcountInvariance == RefcountSpec => []RefcountInv
  BY RefcountInitInv, RefcountNextInv, PTL DEF RefcountSpec

(* The counter covers every backend that is loaded or being loaded: it      *)
(* never wraps below 0, whatever overlaps and fails.                        *)
THEOREM CounterCovers == RefcountSpec => []CountCovers
  <1>1. RefcountInv => CountCovers
    BY CountedFinite DEF RefcountInv, RefcountTypeOK, CountExact, CountCovers
  <1> QED
    BY <1>1, RefcountInvariance, PTL

(* Only a drop that leaves no counted backend behind is told to free.       *)
THEOREM OnlyLastFrees == RefcountSpec => LastFrees
  <1>1. ASSUME RefcountInv, [RefcountNext]_refcountVars, NEW s \in Slot,
               slots[s] = "live", slots'[s] = "freeing"
        PROVE  Counted' = {}
    <2>1. Drop(s) /\ refcount = 1
      BY <1>1 DEF RefcountNext, refcountVars, RefcountInv, RefcountTypeOK, Count,
         Initialize, LoadSucceeds, LoadFails,
                  Drop, BackendFree
    <2>2. Cardinality(Counted') = Cardinality(Counted) - 1 /\ IsFiniteSet(Counted')
      BY <1>1, <2>1, LeaveCounted, CountedFinite, FS_Subset
    <2>3. Cardinality(Counted) <= 1
      BY <1>1, <2>1, CountedFinite DEF RefcountInv, RefcountTypeOK, CountExact
    <2>4. Cardinality(Counted') = 0
      BY <2>2, <2>3, CountedFinite, FS_CardinalityType
    <2> QED
      BY <2>2, <2>4, FS_EmptySet
  <1>2. RefcountInv /\ [RefcountNext]_refcountVars =>
          [\A s \in Slot : slots[s] = "live" /\ slots'[s] = "freeing" => Counted' = {}]_refcountVars
    BY <1>1
  <1> QED
    BY <1>2, RefcountInvariance, PTL DEF RefcountSpec, LastFrees

-----------------------------------------------------------------------------
(* Loads and drops that do not overlap. *)

Busy(s) == slots[s] \in {"initializing", "loading", "freeing"}

(* Until two overlap, at most one slot is busy; llama.cpp is up exactly     *)
(* while the counter is positive, but for the steps between counting and    *)
(* calling.                                                                 *)
SerialInv ==
  ~overlapped =>
    /\ \A s, t \in Slot : Busy(s) /\ Busy(t) => s = t
    /\ \A s \in Slot : slots[s] = "initializing" => Counted = {s} /\ ~initialized
    /\ \A s \in Slot : slots[s] = "freeing" => refcount = 0
    /\ (\A s \in Slot : slots[s] \notin {"initializing", "freeing"})
         => (initialized <=> refcount > 0)

LEMMA ZeroCounted == ASSUME RefcountInv, refcount = 0 PROVE Counted = {}
  <1>1. Cardinality(Counted) = 0
    BY CountedFinite DEF RefcountInv, RefcountTypeOK, CountExact
  <1> QED
    BY <1>1, CountedFinite, FS_EmptySet

LEMMA SomeCounted == ASSUME RefcountInv, NEW s \in Counted PROVE refcount > 0
  BY ZeroCounted DEF RefcountInv, RefcountTypeOK

(* Who begins without overlapping finds every other slot at rest.           *)
LEMMA OthersAtRest ==
  ASSUME RefcountInv, NEW s \in Slot, Count(s) \/ Drop(s), ~overlapped'
  PROVE  /\ ~overlapped
         /\ \A t \in Slot \ {s} : slots[t] \in {"empty", "live"} /\ slots'[t] = slots[t]
         /\ \A t \in Slot : slots[t] \notin {"initializing", "freeing"}
  <1>1. ~overlapped /\ \A t \in Slot \ {s} : slots[t] \in {"empty", "live"}
    BY DEF Count, Drop, Begin
  <1>2. \A t \in Slot \ {s} : slots'[t] = slots[t]
    BY DEF Count, Drop, RefcountInv, RefcountTypeOK
  <1>3. slots[s] \in {"empty", "live"}
    BY DEF Count, Drop
  <1> QED
    BY <1>1, <1>2, <1>3

LEMMA SerialCount ==
  ASSUME RefcountInv, SerialInv, NEW s \in Slot, Count(s)
  PROVE  SerialInv'
  <1> SUFFICES ASSUME ~overlapped' PROVE SerialInv'
    BY DEF SerialInv
  <1>1. /\ ~overlapped
        /\ \A t \in Slot \ {s} : slots[t] \in {"empty", "live"} /\ slots'[t] = slots[t]
        /\ \A t \in Slot : slots[t] \notin {"initializing", "freeing"}
    BY OthersAtRest
  <1>2. initialized <=> refcount > 0
    BY <1>1 DEF SerialInv
  <1>3. Counted' = Counted \cup {s}
    BY DEF Count, Counted, RefcountInv, RefcountTypeOK
  <1>4. CASE refcount = 0
    <2>1. slots'[s] = "initializing" /\ Counted' = {s} /\ ~initialized'
      BY <1>2, <1>3, <1>4, ZeroCounted DEF Count, RefcountInv, RefcountTypeOK
    <2> QED
      BY <1>1, <2>1 DEF SerialInv, Busy
  <1>5. CASE refcount # 0
    <2>1. slots'[s] = "loading" /\ refcount' > 0
      BY <1>5 DEF Count, RefcountInv, RefcountTypeOK
    <2>2. initialized'
      BY <1>2, <1>5 DEF Count, RefcountInv, RefcountTypeOK
    <2> QED
      BY <1>1, <2>1, <2>2 DEF SerialInv, Busy
  <1> QED
    BY <1>4, <1>5

LEMMA SerialLoad ==
  ASSUME RefcountInv, SerialInv, NEW s \in Slot,
         Initialize(s) \/ LoadSucceeds(s) \/ LoadFails(s)
  PROVE  SerialInv'
  <1> SUFFICES ASSUME ~overlapped PROVE SerialInv'
    BY DEF SerialInv, Initialize, LoadSucceeds, LoadFails
  <1>1. \A t \in Slot \ {s} : slots[t] \in {"empty", "live"} /\ slots'[t] = slots[t]
    BY DEF Initialize, LoadSucceeds, LoadFails, SerialInv, Busy, RefcountInv, RefcountTypeOK
  <1>2. slots'[s] \in {"loading", "live", "empty"}
    BY DEF Initialize, LoadSucceeds, LoadFails, RefcountInv, RefcountTypeOK
  <1>3. refcount' = refcount /\ refcount > 0
    <2>1. s \in Counted
      BY DEF Initialize, LoadSucceeds, LoadFails, Counted
    <2> QED
      BY <2>1, SomeCounted DEF Initialize, LoadSucceeds, LoadFails
  <1>4. initialized'
    <2>1. CASE Initialize(s)
      BY <2>1 DEF Initialize
    <2>2. CASE LoadSucceeds(s) \/ LoadFails(s)
      <3>1. \A t \in Slot : slots[t] \notin {"initializing", "freeing"}
        BY <1>1, <2>2 DEF LoadSucceeds, LoadFails
      <3>2. initialized
        BY <1>3, <3>1 DEF SerialInv
      <3> QED
        BY <2>2, <3>2 DEF LoadSucceeds, LoadFails
    <2> QED
      BY <2>1, <2>2
  <1> QED
    BY <1>1, <1>2, <1>3, <1>4 DEF SerialInv, Busy

LEMMA SerialDrop ==
  ASSUME RefcountInv, SerialInv, NEW s \in Slot, Drop(s)
  PROVE  SerialInv'
  <1> SUFFICES ASSUME ~overlapped' PROVE SerialInv'
    BY DEF SerialInv
  <1>1. /\ ~overlapped
        /\ \A t \in Slot \ {s} : slots[t] \in {"empty", "live"} /\ slots'[t] = slots[t]
        /\ \A t \in Slot : slots[t] \notin {"initializing", "freeing"}
    BY OthersAtRest
  <1>2. refcount > 0
    BY SomeCounted DEF Drop, Counted
  <1>3. initialized' <=> refcount > 0
    BY <1>1 DEF SerialInv, Drop
  <1>4. CASE refcount = 1
    <2>1. slots'[s] = "freeing" /\ refcount' = 0
      BY <1>4 DEF Drop, RefcountInv, RefcountTypeOK
    <2> QED
      BY <1>1, <2>1 DEF SerialInv, Busy
  <1>5. CASE refcount # 1
    <2>1. slots'[s] = "empty" /\ refcount' > 0
      BY <1>2, <1>5 DEF Drop, RefcountInv, RefcountTypeOK
    <2> QED
      BY <1>1, <1>2, <1>3, <2>1 DEF SerialInv, Busy
  <1> QED
    BY <1>4, <1>5

LEMMA SerialFree ==
  ASSUME RefcountInv, SerialInv, NEW s \in Slot, BackendFree(s)
  PROVE  SerialInv'
  <1> SUFFICES ASSUME ~overlapped PROVE SerialInv'
    BY DEF SerialInv, BackendFree
  <1>1. \A t \in Slot \ {s} : slots[t] \in {"empty", "live"} /\ slots'[t] = slots[t]
    BY DEF BackendFree, SerialInv, Busy, RefcountInv, RefcountTypeOK
  <1>2. slots'[s] = "empty" /\ refcount' = 0 /\ ~initialized'
    BY DEF BackendFree, SerialInv, RefcountInv, RefcountTypeOK
  <1> QED
    BY <1>1, <1>2 DEF SerialInv, Busy

LEMMA SerialUse == ASSUME RefcountInv, SerialInv PROVE UpWhileUsed
  <1> SUFFICES ASSUME ~overlapped
               PROVE  /\ \A s \in Slot :
                           /\ slots[s] \in {"loading", "live"} => initialized
                           /\ slots[s] = "initializing" => ~initialized
                      /\ failed = 0 /\ (\A s \in Slot : slots[s] = "empty") => ~initialized
    BY DEF UpWhileUsed
  <1>1. ASSUME NEW s \in Slot PROVE slots[s] = "initializing" => ~initialized
    BY DEF SerialInv
  <1>2. ASSUME NEW s \in Slot, slots[s] \in {"loading", "live"} PROVE initialized
    <2>1. s \in Counted
      BY <1>2 DEF Counted
    <2>2. refcount > 0
      BY <2>1, SomeCounted
    <2>3. \A t \in Slot : slots[t] # "freeing"
      BY <2>2 DEF SerialInv, RefcountInv, RefcountTypeOK
    <2>4. \A t \in Slot : slots[t] # "initializing"
      BY <1>2, <2>1 DEF SerialInv
    <2> QED
      BY <2>2, <2>3, <2>4 DEF SerialInv
  <1>3. ASSUME failed = 0, \A s \in Slot : slots[s] = "empty" PROVE ~initialized
    <2>1. Counted = {}
      BY <1>3 DEF Counted
    <2>2. refcount = 0
      BY <1>3, <2>1, FS_EmptySet DEF RefcountInv, RefcountTypeOK, CountExact
    <2> QED
      BY <1>3, <2>2 DEF SerialInv
  <1> QED
    BY <1>1, <1>2, <1>3

(* As long as loads and drops do not overlap, llama.cpp is initialised      *)
(* whenever a backend is loading or live, never twice, and unless a load    *)
(* failed it is freed with the last backend (backend.rs:29-31).             *)
THEOREM UpWithoutOverlap == RefcountSpec => []UpWhileUsed
  <1>1. RefcountInit => SerialInv
    BY DEF RefcountInit, SerialInv, Busy
  <1>2. RefcountInv /\ SerialInv /\ [RefcountNext]_refcountVars => SerialInv'
    <2> SUFFICES ASSUME RefcountInv, SerialInv, [RefcountNext]_refcountVars PROVE SerialInv'
      OBVIOUS
    <2>1. CASE RefcountNext
      BY <2>1, SerialCount, SerialLoad, SerialDrop, SerialFree DEF RefcountNext
    <2>2. CASE UNCHANGED refcountVars
      BY <2>2 DEF refcountVars, SerialInv, Busy, Counted
    <2> QED
      BY <2>1, <2>2
  <1> QED
    BY <1>1, <1>2, SerialUse, RefcountInvariance, PTL DEF RefcountSpec
=============================================================================
