----------------------------- MODULE LlamaBackend -----------------------------
(***************************************************************************)
(* One LlamaCppBackend shared through Arc by the engines that use it, each *)
(* with an AsyncLlamaBackend and a LlamaCppKvCache.  Generation and        *)
(* evaluation run as blocking jobs on other threads; erasing and injecting *)
(* run on the engine's own.  Modelled is who is inside the llama.cpp       *)
(* context when, whose logits it holds, and when it is freed.              *)
(*                                                                         *)
(* A call into llama.cpp is two steps, so that calls may overlap.          *)
(***************************************************************************)
EXTENDS Integers, FiniteSets

CONSTANTS Engine,     \* the engines that share the backend
          MaxCalls,   \* bound: calls of each engine
          Nobody      \* no job, no logits

ASSUME BackendAssumption == MaxCalls \in Nat

(* The n-th call of an engine. *)
Job == Engine \X (1..MaxCalls)

ASSUME NobodyAssumption == Nobody \notin Job
ASSUME EngineAssumption == Engine \cap Job = {}

VARIABLES
  pc,      \* engine -> what its own thread is doing
  calls,   \* engine -> calls made
  job,     \* job -> how far its blocking closure is
  kind,    \* job -> generate_next_sync, evaluate_tokens_sync or inject_tokens
  lock,    \* who holds decode_lock
  logits,  \* whose decode the context's logits come from
  sampled, \* job -> whose logits its token was sampled from
  freed,   \* the last Arc is gone and Drop has run
  abandoned \* history: jobs whose future was dropped

vars == <<pc, calls, job, kind, lock, logits, sampled, freed, abandoned>>

TypeOK ==
  /\ pc \in [Engine -> {"ready", "awaiting", "erasing", "injecting", "gone"}]
  /\ calls \in [Engine -> 0..MaxCalls]
  /\ job \in [Job -> {"unused", "queued", "decoding", "decoded", "sampling", "done"}]
  /\ kind \in [Job -> {"generate", "evaluate", "inject"}]
  /\ lock \in Job \cup {Nobody}
  /\ logits \in Job \cup {Nobody}
  /\ sampled \in [Job -> Job \cup {Nobody}]
  /\ freed \in BOOLEAN
  /\ abandoned \subseteq Job
  /\ \A j \in Job : job[j] = "unused" <=> j[2] > calls[j[1]]

Init ==
  /\ pc = [e \in Engine |-> "ready"]
  /\ calls = [e \in Engine |-> 0]
  /\ job = [j \in Job |-> "unused"]
  /\ kind = [j \in Job |-> "evaluate"]
  /\ lock = Nobody
  /\ logits = Nobody
  /\ sampled = [j \in Job |-> Nobody]
  /\ freed = FALSE
  /\ abandoned = {}

Current(e) == <<e, calls[e]>>

(* Mutant: a job borrows the context instead of cloning the Arc. *)
MutantHolders(pcs, jobs) == {e \in Engine : pcs[e] # "gone"}

(* Who holds an Arc: an engine through its two parts until it is dropped, a *)
(* job through the clone moved into its closure until that returns.         *)
Holders(pcs, jobs) ==
  {e \in Engine : pcs[e] # "gone"}
    \cup {j \in Job : jobs[j] \notin {"unused", "done"}}

FreeWithLast == freed' = (freed \/ Holders(pc', job') = {})

-----------------------------------------------------------------------------
(* The engine's thread. *)

(* generate_next and evaluate_tokens: spawn_blocking, and wait. *)
Submit(e) ==
  /\ pc[e] = "ready"
  /\ calls[e] < MaxCalls
  /\ calls' = [calls EXCEPT ![e] = @ + 1]
  /\ job' = [job EXCEPT ![<<e, calls'[e]>>] = "queued"]
  /\ \E k \in {"generate", "evaluate"} : kind' = [kind EXCEPT ![<<e, calls'[e]>>] = k]
  /\ pc' = [pc EXCEPT ![e] = "awaiting"]
  /\ UNCHANGED <<lock, logits, sampled, freed, abandoned>>

(* Mutant: the wrapper answers as soon as the job is spawned. *)
MutantAnswered(e) == TRUE

(* What lets the caller go on. *)
Answered(e) == job[Current(e)] = "done"

Resume(e) ==
  /\ pc[e] = "awaiting"
  /\ Answered(e)
  /\ pc' = [pc EXCEPT ![e] = "ready"]
  /\ UNCHANGED <<calls, job, kind, lock, logits, sampled, freed, abandoned>>

(* The future is dropped; the blocking job is not. *)
Abandon(e) ==
  /\ pc[e] = "awaiting"
  /\ ~Answered(e)
  /\ abandoned' = abandoned \cup {Current(e)}
  /\ pc' = [pc EXCEPT ![e] = "ready"]
  /\ UNCHANGED <<calls, job, kind, lock, logits, sampled, freed>>

(* seq_rm, and then inject_tokens, whose llama_decode is called here. *)
Erase(e) ==
  /\ pc[e] = "ready"
  /\ calls[e] < MaxCalls
  /\ pc' = [pc EXCEPT ![e] = "erasing"]
  /\ UNCHANGED <<calls, job, kind, lock, logits, sampled, freed, abandoned>>

(* seq_rm answers false, or the observation has one token: nothing to       *)
(* decode.                                                                  *)
EraseOnly(e) ==
  /\ pc[e] = "erasing"
  /\ pc' = [pc EXCEPT ![e] = "ready"]
  /\ UNCHANGED <<calls, job, kind, lock, logits, sampled, freed, abandoned>>

Inject(e) ==
  /\ pc[e] = "erasing"
  /\ calls' = [calls EXCEPT ![e] = @ + 1]
  /\ job' = [job EXCEPT ![<<e, calls'[e]>>] = "done"]
  /\ kind' = [kind EXCEPT ![<<e, calls'[e]>>] = "inject"]
  /\ pc' = [pc EXCEPT ![e] = "injecting"]
  /\ UNCHANGED <<lock, logits, sampled, freed, abandoned>>

Injected(e) ==
  /\ pc[e] = "injecting"
  /\ logits' \in {Current(e), logits}
  /\ pc' = [pc EXCEPT ![e] = "ready"]
  /\ UNCHANGED <<calls, job, kind, lock, sampled, freed, abandoned>>

(* The engine is dropped, with its backend wrapper and its cache manager. *)
DropEngine(e) ==
  /\ pc[e] = "ready"
  /\ pc' = [pc EXCEPT ![e] = "gone"]
  /\ UNCHANGED <<calls, job, kind, lock, logits, sampled, abandoned>>
  /\ FreeWithLast

-----------------------------------------------------------------------------
(* A blocking job. *)

Free == lock = Nobody

(* decode_batch takes the lock and calls llama_decode. *)
Decode(j) ==
  /\ job[j] = "queued"
  /\ Free
  /\ lock' = j
  /\ job' = [job EXCEPT ![j] = "decoding"]
  /\ UNCHANGED <<pc, calls, kind, logits, sampled, freed, abandoned>>

(* llama_decode returns and the guard of the lock goes out of scope. *)
Decoded(j) ==
  /\ job[j] = "decoding"
  /\ logits' = j
  /\ lock' = Nobody
  /\ job' = [job EXCEPT ![j] = IF kind[j] = "generate" THEN "decoded" ELSE "done"]
  /\ UNCHANGED <<pc, calls, kind, sampled, abandoned>>
  /\ FreeWithLast

(* Mutant: the error of llama_decode is dropped, and a token sampled.       *)
MutantDecodeFails(j) ==
  /\ job[j] = "decoding"
  /\ lock' = Nobody
  /\ job' = [job EXCEPT ![j] = IF kind[j] = "generate" THEN "decoded" ELSE "done"]
  /\ UNCHANGED <<pc, calls, kind, logits, sampled, abandoned>>
  /\ FreeWithLast

DecodeFails(j) ==
  /\ job[j] = "decoding"
  /\ lock' = Nobody
  /\ job' = [job EXCEPT ![j] = "done"]
  /\ UNCHANGED <<pc, calls, kind, logits, sampled, abandoned>>
  /\ FreeWithLast

(* llama_sampler_sample, token_to_text, llama_sampler_reset: no lock. *)
Sample(j) ==
  /\ job[j] = "decoded"
  /\ job' = [job EXCEPT ![j] = "sampling"]
  /\ UNCHANGED <<pc, calls, kind, lock, logits, sampled, freed, abandoned>>

Sampled(j) ==
  /\ job[j] = "sampling"
  /\ sampled' = [sampled EXCEPT ![j] = logits]
  /\ job' = [job EXCEPT ![j] = "done"]
  /\ UNCHANGED <<pc, calls, kind, lock, logits, abandoned>>
  /\ FreeWithLast

Next ==
  \/ \E e \in Engine :
       \/ Submit(e) \/ Resume(e) \/ Abandon(e) \/ Erase(e) \/ EraseOnly(e)
       \/ Inject(e) \/ Injected(e) \/ DropEngine(e)
  \/ \E j \in Job :
       Decode(j) \/ Decoded(j) \/ DecodeFails(j) \/ Sample(j) \/ Sampled(j)

Spec == Init /\ [][Next]_vars

-----------------------------------------------------------------------------
(* Properties *)

(* Who is inside a llama.cpp call on the shared context. *)
Inside ==
  {j \in Job : job[j] \in {"decoding", "sampling"}}
    \cup {e \in Engine : pc[e] \in {"erasing", "injecting"}}

(* The context outlives whoever still uses it: an engine dropped while its  *)
(* abandoned job decodes does not free it (backend.rs:519-527).             *)
ContextOutlivesUse ==
  freed => Inside = {} /\ \A j \in Job : job[j] \notin {"queued", "decoded"}

Unfinished(j) == job[j] \notin {"unused", "done"}

(* The jobs and the thread of one engine enter llama.cpp one at a time as   *)
(* long as none of its abandoned jobs is still running.                     *)
OneInsidePerEngine ==
  \A e \in Engine :
    (\A j \in abandoned : j[1] = e => ~Unfinished(j)) =>
      Cardinality({j \in Inside \cap Job : j[1] = e} \cup (Inside \cap {e})) <= 1

(* A token is sampled from the logits of its own job's decode, but for      *)
(* those of another engine or of a call next to an abandoned one.           *)
LogitsMixed ==
  \A j \in Job : sampled[j] \notin {j, Nobody} =>
    sampled[j][1] # j[1] \/ {j, sampled[j]} \cap abandoned # {}

-----------------------------------------------------------------------------
(* What the source says and the code does not do. *)

(* decode_lock is a "Mutex for thread-safe decode (llama_decode is not      *)
(* thread-safe)" (backend.rs:67): no two calls of llama_decode overlap. The *)
(* jobs take it; inject_tokens, on the engine's thread, does not (649).     *)
DecodesExclusive ==
  Cardinality({j \in Job : job[j] = "decoding"} \cup {e \in Engine : pc[e] = "injecting"}) <= 1

(* "The raw pointers are only accessed through methods that hold the        *)
(* decode_lock" (backend.rs:71-72), so a token is sampled from the logits   *)
(* of its own job's decode. The lock is released in between.                *)
OwnLogits == \A j \in Job : sampled[j] \in {j, Nobody}

(* llama.cpp is entered by one thread at a time: "all FFI access goes       *)
(* through the inner Mutex<()> decode_lock" (backend.rs:704-705). Erasing   *)
(* and injecting do not take it.                                            *)
OneInside == Cardinality(Inside) <= 1
=============================================================================
