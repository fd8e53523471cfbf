-------------------------- MODULE InferenceEngine --------------------------
(***************************************************************************)
(* The execution sandbox loop of src/inference/engine.rs over the KV cache *)
(* it rolls back (src/inference/kv_cache.rs, LlamaCppKvCache of            *)
(* src/inference/backend.rs): generate, intercept an action, execute it,   *)
(* and on failure erase the cache from the rollback anchor, put the error  *)
(* observation there and generate again.                                   *)
(*                                                                         *)
(* A step is what run_streaming does between two awaits of the backend or  *)
(* of the executor; the cancel flag may be set between any two steps.      *)
(*                                                                         *)
(* The llama.cpp context is external: cells holds what was decoded where.  *)
(* The engine always works on sequence 0 and never clears it.              *)
(***************************************************************************)
EXTENDS Integers, Sequences, FiniteSets

CONSTANTS
  None,                (* no position                                        *)
  PromptLengths,       (* tokens in a prompt                                 *)
  Widths,              (* bytes of text in one generated token               *)
  ObservationLengths,  (* tokens in an observation                           *)
  Hints,               (* positions an executor may name in error_token_hint *)
  CleanupEnds,         (* end positions a caller may pass to cleanup_seq     *)
  ContextSize,         (* n_ctx: positions the llama.cpp context can hold    *)
  MaxTokens,           (* max_tokens, per pass                               *)
  MaxRollbackRetries,
  PreventionEnabled,   (* rollback_error_prevention.enabled                  *)
  MaxHistory,          (* max_history_per_position                           *)
  Manager,             (* "llama", or "unbounded" like the tests' MockKvCache*)
  InitialPosition,     (* initial_position of LlamaCppKvCache::new           *)
  MaxRuns,             (* bound: runs of one engine                          *)
  MaxExecutions        (* bound: actions the model emits over all runs       *)

TokenKind == {"prompt", "text", "open", "close", "success", "error"}

(* run and era tell apart tokens that shared a position at different times. *)
Token == [kind : TokenKind, run : Nat, era : Nat]
Cell == Nat \X Token

ASSUME InferenceAssumption ==
  /\ PromptLengths \subseteq Nat
  /\ Widths \subseteq Nat
  /\ ObservationLengths \subseteq Nat \ {0}
  /\ Hints \subseteq Nat
  /\ CleanupEnds \subseteq Nat
  /\ {ContextSize, MaxTokens, MaxRollbackRetries, MaxHistory, InitialPosition,
      MaxRuns, MaxExecutions} \subseteq Nat
  /\ PreventionEnabled \in BOOLEAN
  /\ Manager \in {"llama", "unbounded"}
  /\ None \notin Nat

VARIABLES
  tokens,          (* state.tokens                                           *)
  promptEnd,       (* state.prompt_end                                       *)
  cachePosition,   (* state.cache_position                                   *)
  cells,           (* entries of sequence 0 in the llama.cpp context         *)
  seqPosition,     (* seq_positions[0] of LlamaCppKvCache                    *)
  rollbackCount,   (* KvCacheController::rollback_count                      *)
  tokensErased,    (* KvCacheController::total_tokens_erased                 *)
  pc,              (* where run_streaming is                                 *)
  outcome,         (* how the last run ended                                 *)
  pass,            (* generate_until_stop_streaming's generated_text         *)
  retryCount,      (* retry_count                                            *)
  history,         (* failure_history: number of records per position        *)
  cancel,          (* the cancel flag                                        *)
  report,          (* the totals in the returned InferenceSession            *)
  runs,            (* runs started                                           *)
  executions,      (* actions emitted                                        *)
  log              (* history of the current run, see NewLog                 *)

kvVars == <<cells, seqPosition, rollbackCount, tokensErased>>
stateVars == <<tokens, promptEnd, cachePosition>>
loopVars == <<pass, retryCount, history, cancel, report, runs, executions, log>>
vars == <<stateVars, kvVars, pc, outcome, loopVars>>

NewToken(kind) == [kind |-> kind, run |-> runs, era |-> rollbackCount]
NewTokens(kind, n) == [i \in 1 .. n |-> NewToken(kind)]

(* generated_text of one pass: its tokens and bytes so far, the byte offset *)
(* of its first <action tag as extract_action turns it into a position, the *)
(* position that tag really has, and whether anything follows the tag.      *)
NewPass == [len |-> 0, bytes |-> 0, anchor |-> None, tagAt |-> None, body |-> FALSE]

NoFailures == [p \in 0 .. ContextSize + 1 |-> 0]

(* produced, injected: tokens generated and observed, erased ones included; *)
(* streak, rewinds: rollbacks since the last success, and in this run;      *)
(* failed: failures per position; lateTokens, lateActions: what still       *)
(* happened after the cancel flag was set; erasedBefore: tokensErased when  *)
(* the run began; lost: a successful observation has been erased.           *)
NewLog == [produced |-> 0, injected |-> 0, streak |-> 0, rewinds |-> 0,
           failed |-> NoFailures, lateTokens |-> 0,
           lateActions |-> 0, erasedBefore |-> tokensErased, lost |-> FALSE]

Init ==
  /\ tokens = <<>>
  /\ promptEnd = 0
  /\ cachePosition = 0
  /\ cells = {}
  /\ seqPosition = InitialPosition
  /\ rollbackCount = 0
  /\ tokensErased = 0
  /\ pc = "idle"
  /\ outcome = "none"
  /\ pass = NewPass
  /\ retryCount = 0
  /\ history = NoFailures
  /\ cancel = FALSE
  /\ report = [generated |-> 0, rollbacks |-> 0, erased |-> 0]
  /\ runs = 0
  /\ executions = 0
  /\ log = [produced |-> 0, injected |-> 0, streak |-> 0, rewinds |-> 0,
            failed |-> NoFailures, lateTokens |-> 0, lateActions |-> 0,
            erasedBefore |-> 0, lost |-> FALSE]

-----------------------------------------------------------------------------
(* The llama.cpp context. *)

Fits(position, batch) == batch = <<>> \/ position + Len(batch) <= ContextSize

(* llama_decode of a batch at consecutive positions. *)
Decoded(position, batch) ==
  cells \cup {<<position + i - 1, batch[i]>> : i \in DOMAIN batch}

(* Mutant: the prefill stops one token early. *)
MutantPrefilled(batch) == SubSeq(batch, 1, Len(batch) - 2)

(* A batch of observation tokens is prefilled but for its last token, which *)
(* the next generate_next decodes.                                          *)
Prefilled(batch) == SubSeq(batch, 1, Len(batch) - 1)

Monus(m, n) == IF m > n THEN m - n ELSE 0

(* seq_len(0) as the two managers answer it. *)
WithinSeqLen(position) == Manager = "unbounded" \/ position <= seqPosition

-----------------------------------------------------------------------------
(* run_streaming's ends. *)

End(how) ==
  /\ pc' = "ended"
  /\ outcome' = how

(* The session: totals are the controller's, which it never resets. *)
Finish ==
  /\ End("ok")
  /\ report' = [generated |-> Monus(Len(tokens), promptEnd), rollbacks |-> rollbackCount,
                erased |-> tokensErased]
  /\ UNCHANGED <<stateVars, kvVars, pass, retryCount, history, cancel, runs, executions, log>>

Abort(how) ==
  /\ End(how)
  /\ UNCHANGED <<stateVars, kvVars, loopVars>>

(* Tokenise the prompt and start afresh; the cache is not touched. *)
StartRun ==
  /\ pc = "idle" \/ (pc = "ended" /\ outcome # "panic")
  /\ runs < MaxRuns
  /\ runs' = runs + 1
  /\ \E n \in PromptLengths :
       /\ tokens' = [i \in 1 .. n |-> [kind |-> "prompt", run |-> runs', era |-> rollbackCount]]
       /\ promptEnd' = n
       /\ cachePosition' = n
  /\ pc' = "prefill"
  /\ outcome' = "none"
  /\ retryCount' = 0
  /\ history' = NoFailures
  /\ cancel' = FALSE
  /\ pass' = NewPass
  /\ log' = NewLog
  /\ UNCHANGED <<kvVars, report, executions>>

(* The prompt cannot be tokenised: run_streaming returns before it has a    *)
(* GenerationState, so nothing of this run is ever there.                   *)
PromptNotTokenised ==
  /\ pc = "idle" \/ (pc = "ended" /\ outcome # "panic")
  /\ runs < MaxRuns
  /\ runs' = runs + 1
  /\ End("backend")
  /\ tokens' = <<>>
  /\ promptEnd' = 0
  /\ cachePosition' = 0
  /\ retryCount' = 0
  /\ history' = NoFailures
  /\ cancel' = FALSE
  /\ pass' = NewPass
  /\ log' = NewLog
  /\ UNCHANGED <<kvVars, report, executions>>

(* evaluate_tokens of all but the last prompt token. *)
Prefill ==
  /\ pc = "prefill"
  /\ Fits(0, Prefilled(tokens))
  /\ cells' = Decoded(0, Prefilled(tokens))
  /\ pc' = "top"
  /\ UNCHANGED <<stateVars, seqPosition, rollbackCount, tokensErased, outcome, loopVars>>

PrefillFails ==
  /\ pc = "prefill"
  /\ Prefilled(tokens) # <<>>
  /\ Abort("backend")

(* The caller's other thread, or the agent's signal branch. *)
Cancel ==
  /\ pc \notin {"idle", "ended"}
  /\ ~ cancel
  /\ cancel' = TRUE
  /\ UNCHANGED <<stateVars, kvVars, pc, outcome, pass, retryCount, history, report, runs,
                 executions, log>>

(* cleanup_seq on sequence 0, between runs. *)
CleanupSeq ==
  /\ pc \in {"idle", "ended"}
  /\ \E end \in CleanupEnds \ {0} :
       /\ cells' = {c \in cells : c[1] >= end}
       /\ seqPosition' = Monus(seqPosition, end)
  /\ UNCHANGED <<stateVars, rollbackCount, tokensErased, pc, outcome, loopVars>>

-----------------------------------------------------------------------------
(* Generation. *)

(* Mutant: the flag is never looked at. *)
MutantCancelled == FALSE

Cancelled == cancel

StartPass ==
  /\ pc = "top"
  /\ ~ Cancelled
  /\ pc' = "pass"
  /\ pass' = NewPass
  /\ UNCHANGED <<stateVars, kvVars, outcome, retryCount, history, cancel, report, runs,
                 executions, log>>

(* Cancelled before a pass or a token, or the pass is at max_tokens. *)
StopGenerating ==
  /\ \/ pc \in {"top", "pass"} /\ Cancelled
     \/ pc = "pass" /\ pass.len = MaxTokens
  /\ Finish

AskForToken ==
  /\ pc = "pass"
  /\ ~ Cancelled
  /\ pass.len < MaxTokens
  /\ pc' = "sampling"
  /\ UNCHANGED <<stateVars, kvVars, outcome, loopVars>>

(* generate_next decodes the last token, at cache_position - 1. *)
LastDecoded == Decoded(cachePosition - 1, <<tokens[Len(tokens)]>>)
CanDecodeLast == tokens # <<>> /\ Fits(cachePosition - 1, <<tokens[Len(tokens)]>>)

(* push_token, and on generated_text. *)
Push(kind, width) ==
  /\ tokens' = Append(tokens, NewToken(kind))
  /\ cachePosition' = Len(tokens) + 1
  /\ pass' = [len |-> pass.len + 1,
              bytes |-> pass.bytes + width,
              anchor |-> IF kind = "open" /\ pass.anchor = None
                           THEN promptEnd + pass.bytes ELSE pass.anchor,
              tagAt |-> IF kind = "open" /\ pass.tagAt = None
                          THEN Len(tokens) ELSE pass.tagAt,
              body |-> pass.body \/ pass.anchor # None]
  /\ log' = [log EXCEPT !.produced = @ + 1,
                        !.lateTokens = IF cancel THEN @ + 1 ELSE @,
                        !.lateActions = IF cancel /\ kind = "close" /\ pass.body
                                          THEN @ + 1 ELSE @]
  /\ UNCHANGED promptEnd

GenerateToken ==
  /\ pc = "sampling"
  /\ CanDecodeLast
  /\ cells' = LastDecoded
  /\ \E kind \in {"text", "open"}, width \in Widths : Push(kind, width)
  /\ pc' = "pass"
  /\ UNCHANGED <<seqPosition, rollbackCount, tokensErased, outcome, retryCount, history,
                 cancel, report, runs, executions>>

(* </action>: with a tag and a body before it there is an action to run,    *)
(* without them a warning and another pass.                                 *)
ActionBoundary ==
  /\ pc = "sampling"
  /\ CanDecodeLast
  /\ executions < MaxExecutions
  /\ cells' = LastDecoded
  /\ \E width \in Widths : Push("close", width)
  /\ pc' = IF pass.body THEN "executing" ELSE "top"
  /\ executions' = executions + 1
  /\ UNCHANGED <<seqPosition, rollbackCount, tokensErased, outcome, retryCount, history,
                 cancel, report, runs>>

(* End of sequence; a terminal stop sequence is its own last token. *)
EndOfSequence ==
  /\ pc = "sampling"
  /\ CanDecodeLast
  /\ cells' = LastDecoded
  /\ End("ok")
  /\ \E n \in {0, 1} :
       /\ tokens' = tokens \o NewTokens("text", n)
       /\ cachePosition' = Len(tokens')
       /\ log' = [log EXCEPT !.produced = @ + n,
                             !.lateTokens = IF cancel THEN @ + n ELSE @]
  /\ report' = [generated |-> Monus(Len(tokens'), promptEnd), rollbacks |-> rollbackCount,
                erased |-> tokensErased]
  /\ UNCHANGED <<promptEnd, seqPosition, rollbackCount, tokensErased, pass, retryCount,
                 history, cancel, runs, executions>>

GenerationFails ==
  /\ pc = "sampling"
  /\ Abort("backend")

-----------------------------------------------------------------------------
(* The action runs: execute answers Success, Failure, Timeout or an Err.    *)

ExecutorFails ==
  /\ pc = "executing"
  /\ Abort("execution")

(* The executor panics (truncate cuts inside a character) and run_streaming *)
(* unwinds with it.                                                         *)
ExecutorPanics ==
  /\ pc = "executing"
  /\ Abort("panic")

(* The observation of a success cannot be tokenised. *)
SuccessNotTokenised ==
  /\ pc = "executing"
  /\ Abort("backend")

(* Success: the observation is appended and prefilled where it begins. *)
Observe(n) ==
  LET observation == NewTokens("success", n) IN
    /\ tokens' = tokens \o observation
    /\ cachePosition' = Len(tokens')
    /\ \/ /\ Fits(Len(tokens), Prefilled(observation))
          /\ cells' = Decoded(Len(tokens), Prefilled(observation))
          /\ pc' = "top"
          /\ retryCount' = 0
          /\ UNCHANGED outcome
       \/ /\ Prefilled(observation) # <<>>
          /\ End("backend")
          /\ UNCHANGED <<cells, retryCount>>
    /\ log' = [log EXCEPT !.injected = @ + n, !.streak = 0]

ActionSucceeds ==
  /\ pc = "executing"
  /\ \E n \in ObservationLengths : Observe(n)
  /\ UNCHANGED <<promptEnd, seqPosition, rollbackCount, tokensErased, pass, history, cancel,
                 report, runs, executions>>

(* Mutant: the last retry is not granted. *)
MutantRetriesLeft == retryCount + 1 < MaxRollbackRetries

RetriesLeft == retryCount + 1 <= MaxRollbackRetries

RetriesExhausted ==
  /\ pc = "executing"
  /\ ~ RetriesLeft
  /\ retryCount' = retryCount + 1
  /\ End("retries")
  /\ UNCHANGED <<stateVars, kvVars, pass, history, cancel, report, runs, executions, log>>

(* Where a failed action may ask to be rolled back to: Failure with or      *)
(* without a hint, Timeout always without.                                  *)
RollbackPositions == {pass.anchor} \cup Hints

(* text_range slices beyond the token buffer; or an empty history is        *)
(* asked for its oldest record.                                             *)
Panics ==
  /\ pc = "executing"
  /\ RetriesLeft
  /\ \/ \E from \in RollbackPositions : from > Len(tokens)
     \/ PreventionEnabled /\ MaxHistory = 0
  /\ retryCount' = retryCount + 1
  /\ End("panic")
  /\ UNCHANGED <<stateVars, kvVars, pass, history, cancel, report, runs, executions, log>>

(* build_observation records the failure, dropping the oldest at the limit. *)
Record(from) ==
  history' = IF PreventionEnabled /\ history[from] < MaxHistory
               THEN [history EXCEPT ![from] = @ + 1] ELSE history

(* Mutant: the retry is not counted. *)
MutantRollingBack(from) ==
  /\ pc = "executing"
  /\ RetriesLeft
  /\ from <= Len(tokens)
  /\ ~ (PreventionEnabled /\ MaxHistory = 0)
  /\ Record(from)
  /\ UNCHANGED <<promptEnd, retryCount, pass, cancel, report, runs, executions>>

(* The failure has reached KvCacheController::rollback. *)
RollingBack(from) ==
  /\ pc = "executing"
  /\ RetriesLeft
  /\ from <= Len(tokens)
  /\ ~ (PreventionEnabled /\ MaxHistory = 0)
  /\ retryCount' = retryCount + 1
  /\ Record(from)
  /\ UNCHANGED <<promptEnd, pass, cancel, report, runs, executions>>

(* The observation of a failure cannot be tokenised. *)
FailureNotTokenised ==
  /\ \E from \in RollbackPositions :
       /\ RollingBack(from)
       /\ log' = [log EXCEPT !.failed[from] = @ + 1]
  /\ End("backend")
  /\ UNCHANGED <<tokens, cachePosition, kvVars>>

(* rollback's checks, in their order. *)
RangeEmpty(from) == from >= cachePosition
OutOfBounds == ~ WithinSeqLen(cachePosition)

(* Mutant: nothing protects the prompt. *)
MutantInPrompt(from) == FALSE

InPrompt(from) == from < promptEnd
Refused(from) == RangeEmpty(from) \/ OutOfBounds \/ InPrompt(from)

RollbackRefused ==
  /\ \E from \in RollbackPositions :
       /\ RollingBack(from)
       /\ \/ RangeEmpty(from) /\ End("kv")
          \/ ~ RangeEmpty(from) /\ OutOfBounds /\ End("bounds")
          \/ ~ RangeEmpty(from) /\ ~ OutOfBounds /\ InPrompt(from) /\ End("kv")
       /\ log' = [log EXCEPT !.failed[from] = @ + 1]
  /\ UNCHANGED <<tokens, cachePosition, kvVars>>

(* seq_rm answers false. *)
EraseFails ==
  /\ \E from \in RollbackPositions :
       /\ RollingBack(from)
       /\ ~ Refused(from)
       /\ log' = [log EXCEPT !.failed[from] = @ + 1]
  /\ End("kv")
  /\ UNCHANGED <<tokens, cachePosition, kvVars>>

(* Mutant: the entry at the anchor is kept. *)
MutantErased(from) == {c \in cells : c[1] <= from \/ c[1] >= cachePosition}

(* seq_rm, and truncate: everything from the anchor on is gone. *)
Erased(from) == {c \in cells : c[1] < from \/ c[1] >= cachePosition}

(* Mutant: the buffer keeps the token at the anchor. *)
MutantKept(from) == SubSeq(tokens, 1, from + 1)

Kept(from) == SubSeq(tokens, 1, from)
LosesSuccess(from) == \E i \in from + 1 .. Len(tokens) : tokens[i].kind = "success"

(* inject_tokens fails after the cache and the buffer have been cut. *)
InjectFails ==
  /\ \E from \in RollbackPositions :
       /\ RollingBack(from)
       /\ ~ Refused(from)
       /\ tokens' = Kept(from)
       /\ cachePosition' = from
       /\ cells' = Erased(from)
       /\ seqPosition' = Monus(seqPosition, cachePosition - from)
       /\ log' = [log EXCEPT !.failed[from] = @ + 1, !.lost = @ \/ LosesSuccess(from)]
  /\ \E n \in ObservationLengths : n > 1
  /\ End("kv")
  /\ UNCHANGED <<rollbackCount, tokensErased>>

(* Mutant: the count is taken after the buffer has been rewritten. *)
MutantInject(from, observation) ==
  /\ Fits(from, Prefilled(observation))
  /\ cells' = Erased(from) \cup
       {<<from + i - 1, observation[i]>> : i \in DOMAIN Prefilled(observation)}
  /\ seqPosition' = Monus(seqPosition, cachePosition - from)
                      + (IF Len(observation) = 1 THEN 1 ELSE Len(observation) - 1)
  /\ tokens' = Kept(from) \o observation
  /\ cachePosition' = Len(tokens')
  /\ rollbackCount' = rollbackCount + 1
  /\ tokensErased' = tokensErased + Monus(cachePosition', from)

(* inject_tokens prefills the observation but advances seq_positions by one *)
(* at least; the controller then pushes the tokens and counts.              *)
Inject(from, observation) ==
  /\ Fits(from, Prefilled(observation))
  /\ cells' = Erased(from) \cup
       {<<from + i - 1, observation[i]>> : i \in DOMAIN Prefilled(observation)}
  /\ seqPosition' = Monus(seqPosition, cachePosition - from)
                      + (IF Len(observation) = 1 THEN 1 ELSE Len(observation) - 1)
  /\ tokens' = Kept(from) \o observation
  /\ cachePosition' = Len(tokens')
  /\ rollbackCount' = rollbackCount + 1
  /\ tokensErased' = tokensErased + Monus(cachePosition, from)

Observation(n) == [i \in 1 .. n |-> [kind |-> "error", run |-> runs, era |-> rollbackCount + 1]]

Rollback ==
  /\ \E from \in RollbackPositions, n \in ObservationLengths :
       /\ RollingBack(from)
       /\ ~ Refused(from)
       /\ Inject(from, Observation(n))
       /\ log' = [log EXCEPT !.injected = @ + n, !.streak = @ + 1, !.rewinds = @ + 1,
                             !.failed[from] = @ + 1, !.lost = @ \/ LosesSuccess(from)]
  /\ pc' = "top"
  /\ UNCHANGED outcome

-----------------------------------------------------------------------------

Next ==
  \/ StartRun \/ PromptNotTokenised \/ Prefill \/ PrefillFails \/ Cancel \/ CleanupSeq
  \/ StartPass \/ StopGenerating \/ AskForToken
  \/ GenerateToken \/ ActionBoundary \/ EndOfSequence \/ GenerationFails
  \/ ExecutorFails \/ ExecutorPanics \/ SuccessNotTokenised \/ ActionSucceeds
  \/ RetriesExhausted \/ Panics \/ FailureNotTokenised
  \/ RollbackRefused \/ EraseFails \/ InjectFails \/ Rollback

Spec == Init /\ [][Next]_vars

-----------------------------------------------------------------------------
PassType ==
  [len : Nat, bytes : Nat, anchor : Nat \cup {None}, tagAt : Nat \cup {None}, body : BOOLEAN]

ReportType == [generated : Nat, rollbacks : Nat, erased : Nat]

LogType ==
  [produced : Nat, injected : Nat, streak : Nat, rewinds : Nat,
   failed : [0 .. ContextSize + 1 -> Nat], lateTokens : Nat, lateActions : Nat,
   erasedBefore : Nat, lost : BOOLEAN]

(* Every variable keeps its type; cache_position is tokens.len(), as the    *)
(* doc of GenerationState has it (types.rs:44).                             *)
TypeOK ==
  /\ tokens \in Seq(Token)
  /\ promptEnd \in Nat
  /\ cachePosition = Len(tokens)
  /\ cells \subseteq Cell
  /\ {seqPosition, rollbackCount, tokensErased, retryCount, runs, executions} \subseteq Nat
  /\ pc \in {"idle", "prefill", "top", "pass", "sampling", "executing", "ended"}
  /\ outcome \in {"none", "ok", "backend", "execution", "retries", "panic", "kv", "bounds"}
  /\ pass \in PassType
  /\ history \in [0 .. ContextSize + 1 -> Nat]
  /\ cancel \in BOOLEAN
  /\ report \in ReportType
  /\ log \in LogType

Active == pc \in {"top", "pass", "sampling", "executing"}

Cached(i) == <<i - 1, tokens[i]>> \in cells

(* The prompt is computed once (README.md:68, types.rs:41): whatever is     *)
(* rolled back, by whatever hint, the prompt is still the text's beginning  *)
(* and all but its last token, which the first sample decodes, stay cached. *)
PromptCached ==
  Active => /\ \A i \in 1 .. promptEnd : tokens[i].kind = "prompt" /\ tokens[i].run = runs
            /\ \A i \in 1 .. promptEnd - 1 : Cached(i)

(* Nothing a rollback erased can be attended to again: every cache entry    *)
(* decoded in this run is that of the token now at its position, also when  *)
(* a rollback was refused or broke off half-way (kv_cache.rs:140-172).      *)
NoStaleCells ==
  \A c \in cells : c[2].run = runs => c[1] < Len(tokens) /\ tokens[c[1] + 1] = c[2]

(* Whenever a token is sampled, all text before the last token is in the    *)
(* cache, but for closing tags of actions (see CacheComplete).              *)
CacheCovers ==
  Active => \A i \in 1 .. Len(tokens) - 1 : Cached(i) \/ tokens[i].kind = "close"

(* A run gives up on the failure after exactly max_rollback_retries         *)
(* rollbacks without a success in between, never earlier and never later    *)
(* (engine.rs:279, 286-295, 349-355).                                       *)
RetriesExact ==
  /\ log.streak <= MaxRollbackRetries
  /\ outcome = "retries" => log.streak = MaxRollbackRetries

(* The telemetry accounts for every token: what was prompted, generated and *)
(* injected is either still there or counted in total_tokens_erased, unless *)
(* a rollback broke off (kv_cache.rs:143, 172).                             *)
ErasedAccounted ==
  outcome # "kv" =>
    Len(tokens) + tokensErased = log.erasedBefore + promptEnd + log.produced + log.injected

(* Once the cancel flag is set at most the token being sampled still        *)
(* arrives, and at most the action it closes is still executed              *)
(* (engine.rs:166, 218, 529).                                               *)
CancelBounds == log.lateTokens <= 1 /\ log.lateActions <= 1

Protocol == INSTANCE TimeTravel WITH
  text <- tokens, prompt <- promptEnd, retries <- retryCount, Limit <- MaxRollbackRetries,
  running <- pc \notin {"idle", "ended"}

(* The loop implements TimeTravel: text only grows or is rewound to an      *)
(* anchor behind the prompt right after an action, and retries are counted  *)
(* as promised.                                                             *)
ImplementsTimeTravel == Protocol!Spec

-----------------------------------------------------------------------------
(* generate_next needs to evaluate "just the last token position"           *)
(* (engine.rs:50-51): everything before it is in the cache. Yet the closing *)
(* token of a successful action never is: the observation is prefilled from *)
(* its own first token on.                                                  *)
CacheComplete ==
  pc = "sampling" => \A i \in 1 .. Len(tokens) - 1 : Cached(i)

(* start_token_pos is the "token position where the <action> tag started"   *)
(* (types.rs:179). It is a byte offset added to the prompt's length.        *)
AnchorIsTag == pc = "executing" => pass.anchor = pass.tagAt

(* A rollback rewinds "to the exact token where the error began"            *)
(* (README.md:68), so an earlier action that succeeded keeps its            *)
(* observation. The offset of a later pass counts from the prompt.          *)
SuccessKept == ~ log.lost

(* total_tokens_generated counts the tokens "across all attempts (including *)
(* erased ones)" (engine.rs:604): at least those the model generated.       *)
TotalGenerated == outcome = "ok" => report.generated >= log.produced

(* total_rollbacks of "an inference run" (engine.rs:596, 607).              *)
SessionRollbacks == outcome = "ok" => report.rollbacks = log.rewinds

(* On failure the cache is erased from the anchor and generation resumes    *)
(* (README.md:167), with the manager constructed as README.md:378 does.     *)
RollbackInBounds == outcome # "bounds"

(* Errors of an executor "reach the InferenceEngine which feeds them to     *)
(* KV-Cache Rollback" (sandbox_executor.rs:691-692).                        *)
ErrorsFeedRollback == outcome # "execution"

(* Only a first failure at a position gets the plain observation            *)
(* (engine.rs:459); the second already gets the cumulative one.             *)
FirstFailureOnly ==
  \A p \in DOMAIN history : PreventionEnabled /\ log.failed[p] > 1 => history[p] > 1
=============================================================================
