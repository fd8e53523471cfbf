--------------------------- MODULE InferenceProofs ---------------------------
(***************************************************************************)
(* Proofs about InferenceEngine, for every prompt, width, hint, context    *)
(* size, retry limit and number of runs.                                   *)
(***************************************************************************)
EXTENDS InferenceEngine, TLAPS

(* An action is executed only after a tag was seen, so its anchor is a      *)
(* position.                                                                *)
PassInv ==
  /\ pass.body => pass.anchor # None
  /\ pc = "executing" => pass.body

(* The text belongs to the current run and begins with its prompt. *)
TextInv ==
  /\ promptEnd <= Len(tokens)
  /\ \A i \in 1 .. Len(tokens) : tokens[i].run = runs
  /\ \A i \in 1 .. promptEnd : tokens[i].kind = "prompt"

(* No entry of a later run, none of this run that is not in the text, and   *)
(* the prompt is cached but for its last token.                             *)
CacheInv ==
  /\ \A c \in cells : c[2].run <= runs
  /\ NoStaleCells
  /\ Active => \A i \in 1 .. promptEnd - 1 : Cached(i)

(* Between success and failure the retries are the rollbacks since the last *)
(* success.                                                                 *)
RetryInv ==
  /\ log.streak <= MaxRollbackRetries
  /\ pc \notin {"idle", "ended"} => log.streak = retryCount
  /\ outcome = "retries" => pc = "ended" /\ log.streak = MaxRollbackRetries

IInv == TypeOK /\ PassInv /\ TextInv /\ CacheInv /\ RetryInv

-----------------------------------------------------------------------------
(* Facts about the tokens a step makes, and about cutting the text. *)

LEMMA Limits ==
  /\ PromptLengths \subseteq Nat /\ Widths \subseteq Nat
  /\ ObservationLengths \subseteq Nat \ {0} /\ Hints \subseteq Nat
  /\ ContextSize \in Nat /\ MaxTokens \in Nat /\ MaxRollbackRetries \in Nat
  /\ MaxHistory \in Nat /\ InitialPosition \in Nat /\ MaxRuns \in Nat
  /\ MaxExecutions \in Nat /\ CleanupEnds \subseteq Nat /\ None \notin Nat
  BY InferenceAssumption

LEMMA Counters ==
  ASSUME TypeOK
  PROVE  /\ seqPosition \in Nat /\ rollbackCount \in Nat /\ tokensErased \in Nat
         /\ retryCount \in Nat /\ runs \in Nat /\ executions \in Nat
         /\ promptEnd \in Nat /\ cachePosition \in Nat /\ Len(tokens) \in Nat
         /\ tokens \in Seq(Token) /\ cells \subseteq Cell
  <1>1. {seqPosition, rollbackCount, tokensErased, retryCount, runs, executions} \subseteq Nat
    BY DEF TypeOK
  <1>2. tokens \in Seq(Token) /\ cachePosition = Len(tokens)
    BY DEF TypeOK
  <1>3. Len(tokens) \in Nat
    BY <1>2
  <1>4. promptEnd \in Nat /\ cells \subseteq Cell
    BY DEF TypeOK
  <1> QED
    BY <1>1, <1>2, <1>3, <1>4

LEMMA Concatenation ==
  ASSUME NEW S, NEW s \in Seq(S), NEW t \in Seq(S)
  PROVE  /\ s \o t \in Seq(S)
         /\ Len(s \o t) = Len(s) + Len(t)
         /\ \A i \in 1 .. Len(s) : (s \o t)[i] = s[i]
         /\ \A i \in 1 .. Len(t) : (s \o t)[Len(s) + i] = t[i]
  OBVIOUS

(* A batch belongs to the current run. *)
OfRun(batch) ==
  batch \in Seq(Token) /\ \A i \in 1 .. Len(batch) : batch[i].run = runs

LEMMA Front ==
  ASSUME NEW S, NEW s \in Seq(S), NEW n \in 0 .. Len(s)
  PROVE  /\ SubSeq(s, 1, n) \in Seq(S)
         /\ Len(SubSeq(s, 1, n)) = n
         /\ \A i \in 1 .. n : SubSeq(s, 1, n)[i] = s[i]
  OBVIOUS

LEMMA PrefilledPart ==
  ASSUME NEW batch \in Seq(Token)
  PROVE  /\ Prefilled(batch) \in Seq(Token)
         /\ Len(Prefilled(batch)) \in Nat /\ Len(Prefilled(batch)) <= Len(batch)
         /\ Len(batch) > 0 => Len(Prefilled(batch)) = Len(batch) - 1
         /\ \A i \in 1 .. Len(Prefilled(batch)) : Prefilled(batch)[i] = batch[i]
  <1>1. CASE Len(batch) = 0
    <2>1. Prefilled(batch) = <<>>
      BY <1>1 DEF Prefilled
    <2> QED
      BY <1>1, <2>1
  <1>2. CASE Len(batch) > 0
    <2>1. Len(batch) \in Nat /\ Len(batch) - 1 \in 0 .. Len(batch)
      BY <1>2
    <2>2. /\ Prefilled(batch) \in Seq(Token) /\ Len(Prefilled(batch)) = Len(batch) - 1
          /\ \A i \in 1 .. Len(batch) - 1 : Prefilled(batch)[i] = batch[i]
      BY <2>1, Front DEF Prefilled
    <2> QED
      BY <1>2, <2>1, <2>2
  <1> QED
    BY <1>1, <1>2

LEMMA NewTokensOfRun ==
  ASSUME TypeOK, NEW kind \in TokenKind, NEW n \in Nat
  PROVE  OfRun(NewTokens(kind, n)) /\ Len(NewTokens(kind, n)) = n
  <1>1. NewToken(kind) \in Token /\ NewToken(kind).run = runs
    BY Counters DEF NewToken, Token
  <1> QED
    BY <1>1 DEF NewTokens, OfRun

LEMMA ObservationOfRun ==
  ASSUME TypeOK, NEW n \in Nat
  PROVE  OfRun(Observation(n)) /\ Len(Observation(n)) = n
  <1> DEFINE t == [kind |-> "error", run |-> runs, era |-> rollbackCount + 1]
  <1>1. t \in Token /\ t.run = runs
    BY Counters DEF Token, TokenKind
  <1>2. Observation(n) = [i \in 1 .. n |-> t]
    BY DEF Observation
  <1> HIDE DEF t
  <1> QED
    BY <1>1, <1>2 DEF OfRun

LEMMA Cutting ==
  ASSUME TypeOK, NEW from \in 0 .. Len(tokens)
  PROVE  /\ Kept(from) \in Seq(Token)
         /\ Len(Kept(from)) = from
         /\ \A i \in 1 .. from : Kept(from)[i] = tokens[i]
  BY Counters DEF Kept

LEMMA KeptAll == ASSUME TypeOK PROVE Kept(Len(tokens)) = tokens
  BY Counters, Cutting

LEMMA ErasedAll ==
  ASSUME TypeOK PROVE Erased(Len(tokens)) = cells
  <1>1. \A c \in cells : c[1] \in Nat
    BY Counters DEF Cell
  <1>2. cachePosition = Len(tokens) /\ Len(tokens) \in Nat
    BY Counters DEF TypeOK
  <1>3. \A c \in cells : c[1] < Len(tokens) \/ c[1] >= cachePosition
    BY <1>1, <1>2
  <1> QED
    BY <1>3 DEF Erased

(* Entries are those of the new text. *)
InNewText(entries) ==
  \A c \in entries : \E i \in 1 .. Len(tokens') : c = <<i - 1, tokens'[i]>>

(* The text is rewritten from a position behind the prompt, and the cache   *)
(* cut there gains only entries of the new text.                            *)
Rewrites(from, batch, entries) ==
  /\ from \in promptEnd .. Len(tokens)
  /\ OfRun(batch)
  /\ tokens' = Kept(from) \o batch
  /\ cells' = Erased(from) \cup entries
  /\ InNewText(entries)
  /\ UNCHANGED <<promptEnd, runs>>

LEMMA RewrittenText ==
  ASSUME IInv, NEW from, NEW batch, NEW entries, Rewrites(from, batch, entries)
  PROVE  /\ tokens' \in Seq(Token)
         /\ Len(tokens') = from + Len(batch)
         /\ \A i \in 1 .. from : tokens'[i] = tokens[i]
         /\ TextInv'
  <1> USE DEF IInv
  <1>1. from \in 0 .. Len(tokens) /\ promptEnd <= from /\ from \in Nat
    BY Counters DEF Rewrites
  <1>2. /\ Kept(from) \in Seq(Token) /\ Len(Kept(from)) = from
        /\ \A i \in 1 .. from : Kept(from)[i] = tokens[i]
    BY <1>1, Cutting
  <1>3. batch \in Seq(Token) /\ \A i \in 1 .. Len(batch) : batch[i].run = runs
    BY DEF Rewrites, OfRun
  <1>4. tokens' = Kept(from) \o batch
    BY DEF Rewrites
  <1>5. tokens' \in Seq(Token) /\ Len(tokens') = from + Len(batch)
    BY <1>2, <1>3, <1>4, Concatenation
  <1>6. \A i \in 1 .. from : tokens'[i] = tokens[i]
    BY <1>1, <1>2, <1>3, <1>4, Concatenation
  <1>7. \A i \in 1 .. Len(tokens') : tokens'[i].run = runs
    <2> SUFFICES ASSUME NEW i \in 1 .. Len(tokens') PROVE tokens'[i].run = runs
      OBVIOUS
    <2>1. CASE i <= from
      BY <1>1, <1>6, <2>1 DEF TextInv
    <2>2. CASE i > from
      <3>1. tokens'[i] = batch[i - from] /\ i - from \in 1 .. Len(batch)
        <4>1. i - from \in 1 .. Len(batch) /\ from + (i - from) = i
          BY <1>1, <1>3, <1>5, <2>2
        <4> QED
          BY <1>2, <1>3, <1>4, <4>1, Concatenation
      <3> QED
        BY <1>3, <3>1
    <2> QED
      BY <1>1, <2>1, <2>2
  <1>8. TextInv'
    <2>1. promptEnd' <= Len(tokens')
      BY <1>1, <1>3, <1>5, Counters DEF Rewrites
    <2>2. \A i \in 1 .. promptEnd' : tokens'[i].kind = "prompt"
      <3> SUFFICES ASSUME NEW i \in 1 .. promptEnd PROVE tokens'[i].kind = "prompt"
        BY DEF Rewrites
      <3>1. i \in 1 .. from
        BY <1>1, Counters
      <3> QED
        BY <1>6, <3>1 DEF TextInv
    <2>3. runs' = runs
      BY DEF Rewrites
    <2> QED
      BY <1>7, <2>1, <2>2, <2>3 DEF TextInv
  <1> QED
    BY <1>5, <1>6, <1>8

LEMMA RewrittenCache ==
  ASSUME IInv, NEW from, NEW batch, NEW entries, Rewrites(from, batch, entries),
         Active' => Active
  PROVE  cells' \subseteq Cell /\ CacheInv'
  <1> USE DEF IInv
  <1>1. /\ tokens' \in Seq(Token) /\ Len(tokens') = from + Len(batch)
        /\ \A i \in 1 .. from : tokens'[i] = tokens[i]
        /\ TextInv'
    BY RewrittenText
  <1>2. from \in Nat /\ promptEnd <= from /\ promptEnd \in Nat /\ Len(batch) \in Nat
        /\ from <= Len(tokens)
    BY Counters DEF Rewrites, OfRun
  <1>3. promptEnd' = promptEnd /\ runs' = runs
    BY DEF Rewrites
  <1>4. ASSUME NEW c \in entries
        PROVE  /\ c \in Cell /\ c[2].run = runs
               /\ c[1] < Len(tokens') /\ tokens'[c[1] + 1] = c[2]
    <2>1. PICK i \in 1 .. Len(tokens') : c = <<i - 1, tokens'[i]>>
      BY DEF Rewrites, InNewText
    <2>2. tokens'[i] \in Token /\ tokens'[i].run = runs
      BY <1>1, <1>3, <2>1 DEF TextInv
    <2>3. c[1] = i - 1 /\ c[2] = tokens'[i] /\ i - 1 \in Nat /\ c[1] + 1 = i
      BY <1>1, <2>1
    <2> QED
      BY <1>1, <2>1, <2>2, <2>3 DEF Cell
  <1>5. ASSUME NEW c \in Erased(from)
        PROVE  /\ c \in cells /\ c \in Cell /\ c[1] \in Nat
               /\ c[2].run <= runs
               /\ c[2].run = runs => c[1] < from /\ tokens'[c[1] + 1] = c[2]
    <2>1. c \in cells /\ c \in Cell /\ c[1] \in Nat /\ (c[1] < from \/ c[1] >= Len(tokens))
      BY Counters DEF Erased, Cell, TypeOK
    <2>2. c[2].run <= runs
      BY <2>1 DEF CacheInv
    <2>3. ASSUME c[2].run = runs PROVE c[1] < from /\ tokens'[c[1] + 1] = c[2]
      <3>1. c[1] < Len(tokens) /\ tokens[c[1] + 1] = c[2]
        BY <2>1, <2>3 DEF CacheInv, NoStaleCells
      <3>2. c[1] < from
        BY <2>1, <3>1, Counters
      <3> QED
        BY <1>1, <1>2, <2>1, <3>1, <3>2
    <2> QED
      BY <2>1, <2>2, <2>3
  <1>6. cells' = Erased(from) \cup entries
    BY DEF Rewrites
  <1>7. cells' \subseteq Cell
    BY <1>4, <1>5, <1>6
  <1>8. \A c \in cells' : c[2].run <= runs'
    BY <1>3, <1>4, <1>5, <1>6, Counters
  <1>9. NoStaleCells'
    BY <1>1, <1>2, <1>3, <1>4, <1>5, <1>6 DEF NoStaleCells
  <1>10. Active' => \A i \in 1 .. promptEnd' - 1 : Cached(i)'
    <2> SUFFICES ASSUME Active, NEW i \in 1 .. promptEnd - 1 PROVE Cached(i)'
      BY <1>3
    <2>1. <<i - 1, tokens[i]>> \in cells
      BY DEF CacheInv, Cached
    <2>2. i - 1 < from /\ tokens'[i] = tokens[i]
      BY <1>1, <1>2
    <2>3. <<i - 1, tokens[i]>>[1] < from
      BY <2>2
    <2>4. <<i - 1, tokens[i]>> \in Erased(from)
      BY <2>1, <2>3 DEF Erased
    <2> QED
      BY <1>6, <2>2, <2>4 DEF Cached
  <1> QED
    BY <1>7, <1>8, <1>9, <1>10 DEF CacheInv

-----------------------------------------------------------------------------
(* Steps that leave the text and the cache alone. *)

LEMMA SameText ==
  ASSUME IInv, UNCHANGED <<tokens, promptEnd, cells, runs>>, Active' => Active
  PROVE  TextInv' /\ CacheInv'
  <1>1. TextInv'
    BY DEF IInv, TextInv
  <1>2. NoStaleCells'
    BY DEF IInv, CacheInv, NoStaleCells
  <1>3. \A i : Cached(i)' <=> Cached(i)
    BY DEF Cached
  <1> QED
    BY <1>1, <1>2, <1>3 DEF IInv, CacheInv

LEMMA AbortInv ==
  ASSUME IInv, NEW how \in {"backend", "execution", "panic"}, Abort(how)
  PROVE  IInv'
  <1> USE DEF IInv
  <1>1. TypeOK'
    BY DEF Abort, End, stateVars, kvVars, loopVars, TypeOK
  <1>2. PassInv' /\ RetryInv'
    BY DEF Abort, End, loopVars, PassInv, RetryInv
  <1>3. TextInv' /\ CacheInv'
    BY SameText DEF Abort, End, stateVars, kvVars, loopVars, Active
  <1> QED
    BY <1>1, <1>2, <1>3

LEMMA FinishInv ==
  ASSUME IInv, Finish
  PROVE  IInv'
  <1> USE DEF IInv
  <1>1. Monus(Len(tokens), promptEnd) \in Nat
    BY Counters DEF Monus
  <1>2. report' \in ReportType
    BY <1>1, Counters DEF Finish, ReportType
  <1>3. TypeOK'
    BY <1>2 DEF Finish, End, stateVars, kvVars, TypeOK
  <1>4. PassInv' /\ RetryInv'
    BY DEF Finish, End, PassInv, RetryInv
  <1>5. TextInv' /\ CacheInv'
    BY SameText DEF Finish, End, stateVars, kvVars, Active
  <1> QED
    BY <1>3, <1>4, <1>5

LEMMA CancelInv ==
  ASSUME IInv, Cancel
  PROVE  IInv'
  <1> USE DEF IInv
  <1>1. TypeOK'
    BY DEF Cancel, stateVars, kvVars, TypeOK
  <1>2. PassInv' /\ RetryInv'
    BY DEF Cancel, PassInv, RetryInv
  <1>3. TextInv' /\ CacheInv'
    BY SameText DEF Cancel, stateVars, kvVars, Active
  <1> QED
    BY <1>1, <1>2, <1>3

LEMMA StartPassInv ==
  ASSUME IInv, StartPass
  PROVE  IInv'
  <1> USE DEF IInv
  <1>1. NewPass \in PassType
    BY DEF NewPass, PassType
  <1>2. TypeOK'
    BY <1>1 DEF StartPass, stateVars, kvVars, TypeOK
  <1>3. PassInv' /\ RetryInv'
    BY DEF StartPass, NewPass, PassInv, RetryInv
  <1>4. TextInv' /\ CacheInv'
    BY SameText DEF StartPass, stateVars, kvVars, Active
  <1> QED
    BY <1>2, <1>3, <1>4

LEMMA AskForTokenInv ==
  ASSUME IInv, AskForToken
  PROVE  IInv'
  <1> USE DEF IInv
  <1>1. TypeOK'
    BY DEF AskForToken, stateVars, kvVars, loopVars, TypeOK
  <1>2. PassInv' /\ RetryInv'
    BY DEF AskForToken, loopVars, PassInv, RetryInv
  <1>3. TextInv' /\ CacheInv'
    BY SameText DEF AskForToken, stateVars, kvVars, loopVars, Active
  <1> QED
    BY <1>1, <1>2, <1>3

(* A failed action without a retry left, or one that panics. *)
LEMMA GiveUpInv ==
  ASSUME IInv, RetriesExhausted \/ Panics
  PROVE  IInv'
  <1> USE DEF IInv
  <1>1. retryCount + 1 \in Nat
    BY Counters
  <1>2. TypeOK'
    BY <1>1 DEF RetriesExhausted, Panics, End, stateVars, kvVars, TypeOK
  <1>3. PassInv'
    BY DEF RetriesExhausted, Panics, End, PassInv
  <1>4. RetryInv'
    <2>1. log' = log /\ pc' = "ended" /\ log.streak \in Nat
      BY DEF RetriesExhausted, Panics, End, TypeOK, LogType
    <2>2. CASE RetriesExhausted
      <3>1. log.streak = retryCount /\ ~ (retryCount + 1 <= MaxRollbackRetries)
        BY <2>2 DEF RetriesExhausted, RetriesLeft, RetryInv
      <3>2. log.streak = MaxRollbackRetries
        BY <2>1, <3>1, Counters, Limits DEF RetryInv
      <3> QED
        BY <2>1, <3>2 DEF RetryInv
    <2>3. CASE Panics
      BY <2>1, <2>3 DEF Panics, End, RetryInv
    <2> QED
      BY <2>2, <2>3
  <1>5. TextInv' /\ CacheInv'
    BY SameText DEF RetriesExhausted, Panics, End, stateVars, kvVars, Active
  <1> QED
    BY <1>2, <1>3, <1>4, <1>5

(* Cleaning up between runs only takes entries away. *)
LEMMA CleanupInv ==
  ASSUME IInv, CleanupSeq
  PROVE  IInv'
  <1> USE DEF IInv
  <1>1. PICK end \in CleanupEnds \ {0} :
          /\ cells' = {c \in cells : c[1] >= end}
          /\ seqPosition' = Monus(seqPosition, end)
    BY DEF CleanupSeq
  <1>2. seqPosition' \in Nat /\ cells' \subseteq cells
    BY <1>1, Counters, Limits DEF Monus
  <1>3. TypeOK'
    BY <1>2 DEF CleanupSeq, stateVars, loopVars, TypeOK
  <1>4. PassInv' /\ RetryInv' /\ TextInv'
    BY DEF CleanupSeq, stateVars, loopVars, PassInv, RetryInv, TextInv
  <1>5. CacheInv'
    BY <1>2 DEF CleanupSeq, stateVars, loopVars, CacheInv, NoStaleCells, Active
  <1> QED
    BY <1>3, <1>4, <1>5

-----------------------------------------------------------------------------
(* A new run: its tokens are newer than every entry of the cache. *)

LEMMA StartRunInv ==
  ASSUME IInv, StartRun
  PROVE  IInv'
  <1> USE DEF IInv
  <1>1. PICK n \in PromptLengths :
          /\ tokens' = [i \in 1 .. n |-> [kind |-> "prompt", run |-> runs', era |-> rollbackCount]]
          /\ promptEnd' = n
          /\ cachePosition' = n
    BY DEF StartRun
  <1>2. n \in Nat /\ runs' = runs + 1 /\ runs' \in Nat /\ cells' = cells
    BY Counters, Limits DEF StartRun, kvVars
  <1>3. /\ tokens' \in Seq(Token) /\ Len(tokens') = n
        /\ \A i \in 1 .. n : tokens'[i].run = runs' /\ tokens'[i].kind = "prompt"
    <2> DEFINE t == [kind |-> "prompt", run |-> runs', era |-> rollbackCount]
    <2>1. t \in Token /\ t.run = runs' /\ t.kind = "prompt"
      BY <1>2, Counters DEF Token, TokenKind
    <2>2. tokens' = [i \in 1 .. n |-> t]
      BY <1>1
    <2> HIDE DEF t
    <2> QED
      BY <1>2, <2>1, <2>2
  <1>4. TypeOK'
    <2>1. NewPass \in PassType
      BY DEF NewPass, PassType
    <2>2. NoFailures \in [0 .. ContextSize + 1 -> Nat]
      BY DEF NoFailures
    <2>3. NewLog \in LogType
      BY <2>2, Counters DEF NewLog, LogType
    <2>4. tokens' \in Seq(Token) /\ promptEnd' \in Nat /\ cachePosition' = Len(tokens')
      BY <1>1, <1>2, <1>3
    <2>5. pass' = NewPass /\ history' = NoFailures /\ log' = NewLog /\ cancel' = FALSE
          /\ report' = report /\ executions' = executions /\ retryCount' = 0
          /\ pc' = "prefill" /\ outcome' = "none" /\ UNCHANGED kvVars
      BY DEF StartRun
    <2>6. {seqPosition, rollbackCount, tokensErased, retryCount, runs, executions}' \subseteq Nat
      BY <1>2, <2>5, Counters DEF kvVars
    <2>7. cells' \subseteq Cell
      BY <1>2, Counters
    <2> QED
      BY <2>1, <2>2, <2>3, <2>4, <2>5, <2>6, <2>7 DEF TypeOK
  <1>5. PassInv'
    BY DEF StartRun, NewPass, PassInv
  <1>6. TextInv'
    BY <1>1, <1>2, <1>3 DEF TextInv
  <1>7. CacheInv'
    <2>1. \A c \in cells' : c \in Cell /\ c[2].run \in Nat /\ c[2].run <= runs
      BY <1>2, Counters DEF CacheInv, Cell, Token
    <2>2. \A c \in cells' : c[2].run <= runs' /\ c[2].run # runs'
      BY <1>2, <2>1, Counters
    <2>3. NoStaleCells'
      BY <2>2 DEF NoStaleCells
    <2>4. ~ Active'
      BY DEF StartRun, Active
    <2> QED
      BY <2>2, <2>3, <2>4 DEF CacheInv
  <1>8. RetryInv'
    <2>1. log'.streak = 0 /\ retryCount' = 0 /\ outcome' = "none"
      BY DEF StartRun, NewLog
    <2> QED
      BY <2>1, Limits DEF RetryInv
  <1> QED
    BY <1>4, <1>5, <1>6, <1>7, <1>8

(* A run that is refused with its prompt has no text at all. *)
LEMMA PromptNotTokenisedInv ==
  ASSUME IInv, PromptNotTokenised
  PROVE  IInv'
  <1> USE DEF IInv
  <1>1. /\ tokens' = <<>> /\ promptEnd' = 0 /\ cachePosition' = 0
        /\ pass' = NewPass /\ history' = NoFailures /\ log' = NewLog /\ cancel' = FALSE
        /\ report' = report /\ executions' = executions /\ retryCount' = 0
        /\ pc' = "ended" /\ outcome' = "backend" /\ UNCHANGED kvVars
    BY DEF PromptNotTokenised, End
  <1>2. runs' = runs + 1 /\ runs' \in Nat /\ cells' = cells
    BY <1>1, Counters DEF PromptNotTokenised, kvVars
  <1>3. tokens' \in Seq(Token) /\ Len(tokens') = 0
    BY <1>1
  <1>4. TypeOK'
    <2>1. NewPass \in PassType
      BY DEF NewPass, PassType
    <2>2. NoFailures \in [0 .. ContextSize + 1 -> Nat]
      BY DEF NoFailures
    <2>3. NewLog \in LogType
      BY <2>2, Counters DEF NewLog, LogType
    <2>4. {seqPosition, rollbackCount, tokensErased, retryCount, runs, executions}' \subseteq Nat
      BY <1>1, <1>2, Counters DEF kvVars
    <2>5. cells' \subseteq Cell
      BY <1>2, Counters
    <2> QED
      BY <1>1, <1>3, <2>1, <2>2, <2>3, <2>4, <2>5 DEF TypeOK
  <1>5. PassInv'
    BY <1>1 DEF NewPass, PassInv
  <1>6. TextInv'
    BY <1>1, <1>2, <1>3 DEF TextInv
  <1>7. CacheInv'
    <2>1. \A c \in cells' : c \in Cell /\ c[2].run \in Nat /\ c[2].run <= runs
      BY <1>2, Counters DEF CacheInv, Cell, Token
    <2>2. \A c \in cells' : c[2].run <= runs' /\ c[2].run # runs'
      BY <1>2, <2>1, Counters
    <2>3. NoStaleCells'
      BY <2>2 DEF NoStaleCells
    <2>4. ~ Active'
      BY <1>1 DEF Active
    <2> QED
      BY <2>2, <2>3, <2>4 DEF CacheInv
  <1>8. RetryInv'
    <2>1. log'.streak = 0 /\ retryCount' = 0 /\ outcome' = "backend"
      BY <1>1 DEF NewLog
    <2> QED
      BY <2>1, Limits DEF RetryInv
  <1> QED
    BY <1>4, <1>5, <1>6, <1>7, <1>8

LEMMA PrefillInv ==
  ASSUME IInv, Prefill
  PROVE  IInv'
  <1> USE DEF IInv
  <1>1. /\ Prefilled(tokens) \in Seq(Token)
        /\ Len(Prefilled(tokens)) \in Nat /\ Len(Prefilled(tokens)) <= Len(tokens)
        /\ Len(tokens) > 0 => Len(Prefilled(tokens)) = Len(tokens) - 1
        /\ \A i \in 1 .. Len(Prefilled(tokens)) : Prefilled(tokens)[i] = tokens[i]
    BY Counters, PrefilledPart
  <1>2. cells' = cells \cup {<<0 + i - 1, Prefilled(tokens)[i]>> : i \in DOMAIN Prefilled(tokens)}
    BY DEF Prefill, Decoded
  <1>3. DOMAIN Prefilled(tokens) = 1 .. Len(Prefilled(tokens))
    BY <1>1
  <1>4. UNCHANGED <<tokens, promptEnd, cachePosition, runs>>
    BY DEF Prefill, stateVars, loopVars
  <1>5. \A i \in 1 .. Len(Prefilled(tokens)) :
          i \in 1 .. Len(tokens) /\ <<0 + i - 1, Prefilled(tokens)[i]>> = <<i - 1, tokens[i]>>
    BY <1>1, Counters
  <1>6. \A c \in cells' : c \in cells \/ \E i \in 1 .. Len(tokens) : c = <<i - 1, tokens[i]>>
    BY <1>2, <1>3, <1>5
  <1>7. ASSUME NEW i \in 1 .. Len(tokens)
        PROVE  /\ <<i - 1, tokens[i]>> \in Cell
               /\ tokens[i].run = runs
    BY Counters DEF Cell, TextInv
  <1>8. TypeOK'
    <2>1. cells' \subseteq Cell
      BY <1>6, <1>7, Counters
    <2> QED
      BY <1>4, <2>1 DEF Prefill, loopVars, stateVars, TypeOK
  <1>9. PassInv' /\ RetryInv' /\ TextInv'
    BY <1>4 DEF Prefill, loopVars, PassInv, RetryInv, TextInv
  <1>10. CacheInv'
    <2>1. \A c \in cells' : c[2].run <= runs'
      BY <1>4, <1>6, <1>7, Counters DEF CacheInv
    <2>2. NoStaleCells'
      <3> SUFFICES ASSUME NEW c \in cells', c[2].run = runs
                   PROVE  c[1] < Len(tokens) /\ tokens[c[1] + 1] = c[2]
        BY <1>4 DEF NoStaleCells
      <3>1. CASE c \in cells
        BY <3>1 DEF CacheInv, NoStaleCells
      <3>2. CASE \E i \in 1 .. Len(tokens) : c = <<i - 1, tokens[i]>>
        BY <3>2, Counters
      <3> QED
        BY <1>6, <3>1, <3>2
    <2>3. \A i \in 1 .. promptEnd' - 1 : Cached(i)'
      <3> SUFFICES ASSUME NEW i \in 1 .. promptEnd - 1 PROVE <<i - 1, tokens[i]>> \in cells'
        BY <1>4 DEF Cached
      <3>1. i \in 1 .. Len(Prefilled(tokens))
        BY <1>1, Counters DEF TextInv
      <3> QED
        BY <1>2, <1>3, <1>5, <3>1
    <2> QED
      BY <2>1, <2>2, <2>3 DEF CacheInv
  <1> QED
    BY <1>8, <1>9, <1>10

-----------------------------------------------------------------------------
(* Generation: one more token, after the last one has been decoded. *)

LEMMA DecodeLast ==
  ASSUME IInv, CanDecodeLast, NEW batch, OfRun(batch),
         tokens' = tokens \o batch, cells' = LastDecoded,
         UNCHANGED <<promptEnd, runs>>
  PROVE  Rewrites(Len(tokens), batch, {<<Len(tokens) - 1, tokens[Len(tokens)]>>})
  <1> USE DEF IInv
  <1>1. Len(tokens) \in Nat /\ Len(tokens) > 0 /\ Len(tokens) \in promptEnd .. Len(tokens)
    BY Counters DEF CanDecodeLast, TextInv
  <1>2. tokens' = Kept(Len(tokens)) \o batch
    BY KeptAll
  <1>3. LastDecoded = cells \cup {<<Len(tokens) - 1, tokens[Len(tokens)]>>}
    <2>1. DOMAIN <<tokens[Len(tokens)]>> = {1}
      OBVIOUS
    <2>2. cachePosition - 1 + 1 - 1 = Len(tokens) - 1
      BY <1>1 DEF TypeOK
    <2> QED
      BY <2>1, <2>2 DEF LastDecoded, Decoded
  <1>4. cells' = Erased(Len(tokens)) \cup {<<Len(tokens) - 1, tokens[Len(tokens)]>>}
    BY <1>3, ErasedAll
  <1>5. Len(tokens) \in 1 .. Len(tokens') /\ tokens'[Len(tokens)] = tokens[Len(tokens)]
    BY <1>1, Counters, Concatenation DEF OfRun
  <1> QED
    BY <1>1, <1>2, <1>4, <1>5 DEF Rewrites, InNewText

(* A log whose counters of tokens and actions change. *)
LEMMA LogCounters ==
  ASSUME log \in LogType, NEW p \in Nat, NEW t \in Nat, NEW a \in Nat,
         log' = [log EXCEPT !.produced = p, !.lateTokens = t, !.lateActions = a]
  PROVE  log' \in LogType /\ log'.streak = log.streak
  BY DEF LogType

LEMMA PushTypes ==
  ASSUME IInv, NEW kind \in TokenKind, NEW width \in Widths, Push(kind, width)
  PROVE  /\ pass' \in PassType /\ log' \in LogType
         /\ log'.streak = log.streak
         /\ pass'.body => pass'.anchor # None
         /\ pass.body => pass'.body
  <1> USE DEF IInv
  <1>1. /\ pass \in PassType /\ log \in LogType
        /\ width \in Nat /\ promptEnd \in Nat /\ Len(tokens) \in Nat
    BY Counters, Limits DEF TypeOK
  <1>2. promptEnd + pass.bytes \in Nat /\ promptEnd + pass.bytes # None /\ pass.len + 1 \in Nat
        /\ pass.bytes + width \in Nat
    BY <1>1, Limits DEF PassType
  <1>3. pass'.anchor \in Nat \cup {None} /\ pass'.tagAt \in Nat \cup {None}
        /\ pass'.body \in BOOLEAN
    BY <1>1, <1>2 DEF Push, PassType
  <1>4. pass' \in PassType
    BY <1>1, <1>2, <1>3 DEF Push, PassType
  <1>5. log' \in LogType /\ log'.streak = log.streak
    <2> DEFINE p == log.produced + 1
               t == IF cancel THEN log.lateTokens + 1 ELSE log.lateTokens
               a == IF cancel /\ kind = "close" /\ pass.body
                      THEN log.lateActions + 1 ELSE log.lateActions
    <2>1. log.produced \in Nat /\ log.lateTokens \in Nat /\ log.lateActions \in Nat
      BY <1>1 DEF LogType
    <2>2. p \in Nat /\ t \in Nat /\ a \in Nat
      BY <2>1
    <2>3. log' = [log EXCEPT !.produced = p, !.lateTokens = t, !.lateActions = a]
      BY DEF Push
    <2> HIDE DEF p, t, a
    <2> QED
      BY <1>1, <2>2, <2>3, LogCounters
  <1>6. pass'.body => pass'.anchor # None
    <2>1. pass'.body => pass.anchor # None
      BY DEF Push, PassInv
    <2> QED
      BY <1>2, <2>1 DEF Push
  <1>7. pass.body => pass'.body
    BY DEF Push
  <1> QED
    BY <1>4, <1>5, <1>6, <1>7

LEMMA PushText ==
  ASSUME IInv, NEW kind \in TokenKind, NEW width \in Widths, Push(kind, width),
         CanDecodeLast, cells' = LastDecoded, runs' = runs, Active' => Active
  PROVE  /\ tokens' \in Seq(Token) /\ cachePosition' = Len(tokens')
         /\ cells' \subseteq Cell /\ TextInv' /\ CacheInv'
  <1> DEFINE batch == <<NewToken(kind)>>
             entries == {<<Len(tokens) - 1, tokens[Len(tokens)]>>}
  <1>1. OfRun(batch)
    BY Counters DEF IInv, OfRun, NewToken, Token
  <1>2. tokens' = tokens \o batch /\ cachePosition' = Len(tokens) + 1 /\ promptEnd' = promptEnd
    BY Counters DEF IInv, Push
  <1> HIDE DEF batch
  <1>3. Rewrites(Len(tokens), batch, entries)
    BY <1>1, <1>2, DecodeLast
  <1>4. Len(batch) = 1
    BY DEF batch
  <1> HIDE DEF entries
  <1> QED
    BY <1>2, <1>3, <1>4, RewrittenText, RewrittenCache

LEMMA GenerateTokenInv ==
  ASSUME IInv, GenerateToken
  PROVE  IInv'
  <1>1. PICK kind \in {"text", "open"}, width \in Widths : Push(kind, width)
    BY DEF GenerateToken
  <1>2. kind \in TokenKind /\ pc = "sampling" /\ pc' = "pass" /\ Active /\ runs' = runs
        /\ CanDecodeLast /\ cells' = LastDecoded
    BY DEF GenerateToken, TokenKind, Active
  <1>3. /\ pass' \in PassType /\ log' \in LogType /\ log'.streak = log.streak
        /\ pass'.body => pass'.anchor # None
    BY <1>1, <1>2, PushTypes
  <1>4. /\ tokens' \in Seq(Token) /\ cachePosition' = Len(tokens')
        /\ cells' \subseteq Cell /\ TextInv' /\ CacheInv'
    BY <1>1, <1>2, PushText
  <1>5. promptEnd' = promptEnd
    BY <1>1 DEF Push
  <1>6. TypeOK'
    BY <1>2, <1>3, <1>4, <1>5 DEF GenerateToken, IInv, TypeOK
  <1>7. PassInv' /\ RetryInv'
    BY <1>2, <1>3 DEF GenerateToken, IInv, PassInv, RetryInv
  <1> QED
    BY <1>4, <1>6, <1>7 DEF IInv

LEMMA ActionBoundaryInv ==
  ASSUME IInv, ActionBoundary
  PROVE  IInv'
  <1>1. PICK width \in Widths : Push("close", width)
    BY DEF ActionBoundary
  <1>2. "close" \in TokenKind /\ pc = "sampling" /\ pc' \in {"executing", "top"} /\ Active
        /\ runs' = runs /\ CanDecodeLast /\ cells' = LastDecoded
    BY DEF ActionBoundary, TokenKind, Active
  <1>3. /\ pass' \in PassType /\ log' \in LogType /\ log'.streak = log.streak
        /\ pass'.body => pass'.anchor # None
        /\ pass.body => pass'.body
    BY <1>1, <1>2, PushTypes
  <1>4. /\ tokens' \in Seq(Token) /\ cachePosition' = Len(tokens')
        /\ cells' \subseteq Cell /\ TextInv' /\ CacheInv'
    BY <1>1, <1>2, PushText
  <1>5. promptEnd' = promptEnd /\ executions' \in Nat
    BY <1>1, Counters DEF ActionBoundary, Push, IInv
  <1>6. TypeOK'
    BY <1>2, <1>3, <1>4, <1>5 DEF ActionBoundary, IInv, TypeOK
  <1>7. PassInv' /\ RetryInv'
    BY <1>2, <1>3 DEF ActionBoundary, IInv, PassInv, RetryInv
  <1> QED
    BY <1>4, <1>6, <1>7 DEF IInv

LEMMA EndOfSequenceInv ==
  ASSUME IInv, EndOfSequence
  PROVE  IInv'
  <1>1. PICK n \in {0, 1} :
          /\ tokens' = tokens \o NewTokens("text", n)
          /\ cachePosition' = Len(tokens')
          /\ log' = [log EXCEPT !.produced = @ + n,
                                !.lateTokens = IF cancel THEN @ + n ELSE @]
    BY DEF EndOfSequence
  <1>2. OfRun(NewTokens("text", n))
    BY NewTokensOfRun DEF IInv, TokenKind
  <1>3. /\ CanDecodeLast /\ cells' = LastDecoded /\ UNCHANGED <<promptEnd, runs>>
        /\ Active /\ ~ Active'
    BY DEF EndOfSequence, End, Active
  <1>4. /\ tokens' \in Seq(Token) /\ cells' \subseteq Cell /\ TextInv' /\ CacheInv'
    BY <1>1, <1>2, <1>3, DecodeLast, RewrittenText, RewrittenCache
  <1>5. log' \in LogType /\ log'.streak = log.streak
    <2> DEFINE p == log.produced + n
               t == IF cancel THEN log.lateTokens + n ELSE log.lateTokens
    <2>1. /\ log \in LogType
          /\ log.produced \in Nat /\ log.lateTokens \in Nat /\ log.lateActions \in Nat
      BY DEF IInv, TypeOK, LogType
    <2>2. p \in Nat /\ t \in Nat
      BY <2>1
    <2>3. log' = [log EXCEPT !.produced = p, !.lateTokens = t]
      BY <1>1
    <2> HIDE DEF p, t
    <2>4. log' = [log EXCEPT !.produced = p, !.lateTokens = t, !.lateActions = log.lateActions]
      BY <2>1, <2>3 DEF LogType
    <2> QED
      BY <2>1, <2>2, <2>4, LogCounters
  <1>6. report' \in ReportType
    <2>1. Len(tokens') \in Nat /\ promptEnd \in Nat
      BY <1>4, Counters DEF IInv
    <2>2. Monus(Len(tokens'), promptEnd) \in Nat
      BY <2>1 DEF Monus
    <2> QED
      BY <2>2, Counters DEF EndOfSequence, IInv, ReportType
  <1>7. TypeOK'
    BY <1>1, <1>4, <1>5, <1>6 DEF EndOfSequence, End, IInv, TypeOK
  <1>8. PassInv' /\ RetryInv'
    BY <1>5 DEF EndOfSequence, End, IInv, PassInv, RetryInv
  <1> QED
    BY <1>4, <1>7, <1>8 DEF IInv

-----------------------------------------------------------------------------
(* The action has run. *)

(* What prefilling a batch at a position puts into the cache. *)
Entries(from, batch) == {<<from + i - 1, batch[i]>> : i \in DOMAIN Prefilled(batch)}

LEMMA PrefilledEntries ==
  ASSUME IInv, NEW from \in promptEnd .. Len(tokens), NEW batch, OfRun(batch),
         tokens' = Kept(from) \o batch
  PROVE  /\ InNewText(Entries(from, batch))
         /\ {<<from + i - 1, Prefilled(batch)[i]>> : i \in DOMAIN Prefilled(batch)}
              = Entries(from, batch)
  <1>1. from \in Nat /\ from \in 0 .. Len(tokens) /\ batch \in Seq(Token)
    BY Counters DEF IInv, OfRun
  <1>2. /\ Prefilled(batch) \in Seq(Token)
        /\ Len(Prefilled(batch)) \in Nat /\ Len(Prefilled(batch)) <= Len(batch)
        /\ \A i \in 1 .. Len(Prefilled(batch)) : Prefilled(batch)[i] = batch[i]
    BY <1>1, PrefilledPart
  <1>3. DOMAIN Prefilled(batch) = 1 .. Len(Prefilled(batch))
    BY <1>2
  <1>4. Kept(from) \in Seq(Token) /\ Len(Kept(from)) = from
    BY <1>1, Cutting DEF IInv
  <1>5. /\ Len(tokens') = from + Len(batch)
        /\ \A i \in 1 .. Len(batch) : tokens'[from + i] = batch[i]
    <2> DEFINE k == Kept(from)
    <2>1. k \in Seq(Token) /\ Len(k) = from /\ tokens' = k \o batch
      BY <1>4
    <2> HIDE DEF k
    <2>2. /\ Len(k \o batch) = Len(k) + Len(batch)
          /\ \A i \in 1 .. Len(batch) : (k \o batch)[Len(k) + i] = batch[i]
      BY <1>1, <2>1, Concatenation
    <2> QED
      BY <2>1, <2>2
  <1>6. ASSUME NEW i \in 1 .. Len(Prefilled(batch))
        PROVE  from + i \in 1 .. Len(tokens')
               /\ <<from + i - 1, batch[i]>> = <<(from + i) - 1, tokens'[from + i]>>
    BY <1>1, <1>2, <1>5
  <1>7. InNewText(Entries(from, batch))
    BY <1>3, <1>6 DEF InNewText, Entries
  <1>8. {<<from + i - 1, Prefilled(batch)[i]>> : i \in DOMAIN Prefilled(batch)}
          = Entries(from, batch)
    BY <1>2, <1>3 DEF Entries
  <1> QED
    BY <1>7, <1>8

LEMMA ActionSucceedsInv ==
  ASSUME IInv, ActionSucceeds
  PROVE  IInv'
  <1>1. PICK n \in ObservationLengths : Observe(n)
    BY DEF ActionSucceeds
  <1> DEFINE batch == NewTokens("success", n)
             entries == Entries(Len(tokens), batch)
  <1>2. n \in Nat /\ "success" \in TokenKind
    BY Limits DEF TokenKind
  <1>3. OfRun(batch)
    BY <1>2, NewTokensOfRun DEF IInv
  <1>4. /\ tokens' = tokens \o batch /\ cachePosition' = Len(tokens')
        /\ \/ /\ cells' = Decoded(Len(tokens), Prefilled(batch)) /\ pc' = "top"
              /\ retryCount' = 0 /\ outcome' = outcome
           \/ /\ cells' = cells /\ pc' = "ended"
              /\ outcome' = "backend" /\ retryCount' = retryCount
        /\ log' = [log EXCEPT !.injected = @ + n, !.streak = 0]
        /\ pc = "executing" /\ UNCHANGED <<promptEnd, runs>>
    BY <1>1 DEF ActionSucceeds, Observe, End
  <1> HIDE DEF batch
  <1>5. Len(tokens) \in promptEnd .. Len(tokens) /\ tokens' = Kept(Len(tokens)) \o batch
    BY <1>4, KeptAll, Counters DEF IInv, TextInv
  <1>6. /\ InNewText(entries)
        /\ {<<Len(tokens) + i - 1, Prefilled(batch)[i]>> : i \in DOMAIN Prefilled(batch)} = entries
    BY <1>3, <1>5, PrefilledEntries
  <1> HIDE DEF entries
  <1>7. Erased(Len(tokens)) = cells
    BY ErasedAll DEF IInv
  <1>8. cells' = Erased(Len(tokens)) \cup entries \/ cells' = Erased(Len(tokens)) \cup {}
    BY <1>4, <1>6, <1>7 DEF Decoded
  <1>9. Rewrites(Len(tokens), batch, entries) \/ Rewrites(Len(tokens), batch, {})
    BY <1>3, <1>4, <1>5, <1>6, <1>8 DEF Rewrites, InNewText
  <1>10. Active
    BY <1>4 DEF Active
  <1>11. tokens' \in Seq(Token) /\ cells' \subseteq Cell /\ TextInv' /\ CacheInv'
    BY <1>9, <1>10, RewrittenText, RewrittenCache
  <1>12. log' \in LogType /\ log'.streak = 0
    <2>1. log \in LogType
      BY DEF IInv, TypeOK
    <2>2. log.injected + n \in Nat
      BY <1>2, <2>1 DEF LogType
    <2> QED
      BY <1>4, <2>1, <2>2 DEF LogType
  <1>13. retryCount' \in Nat
    BY <1>4, Counters DEF IInv
  <1>14. TypeOK'
    BY <1>4, <1>11, <1>12, <1>13 DEF ActionSucceeds, IInv, TypeOK
  <1>15. PassInv' /\ RetryInv'
    BY <1>4, <1>12, Limits DEF ActionSucceeds, IInv, PassInv, RetryInv
  <1> QED
    BY <1>11, <1>14, <1>15 DEF IInv

-----------------------------------------------------------------------------
(* The action has failed: a rollback, or a part of one. *)

LEMMA RollingBackFacts ==
  ASSUME IInv, NEW from \in RollbackPositions, RollingBack(from)
  PROVE  /\ from \in Nat /\ Active /\ pc = "executing"
         /\ retryCount' = retryCount + 1 /\ retryCount' \in Nat
         /\ retryCount + 1 <= MaxRollbackRetries /\ log.streak = retryCount
         /\ history' \in [0 .. ContextSize + 1 -> Nat]
         /\ ~ Refused(from) => from \in promptEnd .. Len(tokens)
         /\ UNCHANGED <<promptEnd, pass, cancel, report, runs, executions>>
         /\ log \in LogType
  <1>1. pc = "executing" /\ retryCount' = retryCount + 1 /\ RetriesLeft /\ Record(from)
        /\ UNCHANGED <<promptEnd, pass, cancel, report, runs, executions>>
    BY DEF RollingBack
  <1>2. pass.anchor \in Nat \cup {None} /\ pass.anchor # None
    BY <1>1 DEF IInv, TypeOK, PassInv, PassType
  <1>3. from \in Nat
    BY <1>2, Limits DEF RollbackPositions
  <1>4. history' \in [0 .. ContextSize + 1 -> Nat]
    <2>1. history \in [0 .. ContextSize + 1 -> Nat]
      BY DEF IInv, TypeOK
    <2>2. history[from] + 1 \in Nat \/ from \notin DOMAIN history
      BY <2>1
    <2> QED
      BY <1>1, <2>1, <2>2 DEF Record
  <1>5. ~ Refused(from) => from \in promptEnd .. Len(tokens)
    BY <1>3, Counters DEF Refused, RangeEmpty, InPrompt, IInv, TypeOK
  <1>6. log.streak = retryCount
    BY <1>1 DEF IInv, RetryInv
  <1>7. log \in LogType
    BY DEF IInv, TypeOK
  <1> QED
    BY <1>1, <1>3, <1>4, <1>5, <1>6, <1>7, Counters DEF RetriesLeft, Active, IInv

LEMMA Incremented ==
  ASSUME NEW S, NEW f \in [S -> Nat], NEW x
  PROVE  [f EXCEPT ![x] = @ + 1] \in [S -> Nat]
  <1>1. CASE x \in S
    <2>1. f[x] \in Nat
      BY <1>1
    <2>2. f[x] + 1 \in Nat
      BY <2>1
    <2> QED
      BY <1>1, <2>2
  <1>2. CASE x \notin S
    BY <1>2
  <1> QED
    BY <1>1, <1>2

LEMMA OneMoreFailure ==
  ASSUME log \in LogType, NEW from
  PROVE  [log.failed EXCEPT ![from] = @ + 1] \in [0 .. ContextSize + 1 -> Nat]
  <1>1. log.failed \in [0 .. ContextSize + 1 -> Nat]
    BY DEF LogType
  <1> QED
    BY <1>1, Incremented

(* The failure is counted; text and cache are as they were. *)
LEMMA UnchangedRollbackInv ==
  ASSUME IInv, FailureNotTokenised \/ RollbackRefused \/ EraseFails
  PROVE  IInv'
  <1>1. PICK from \in RollbackPositions :
          /\ RollingBack(from)
          /\ log' = [log EXCEPT !.failed[from] = @ + 1]
          /\ pc' = "ended" /\ outcome' \in {"kv", "bounds", "backend"}
    BY DEF FailureNotTokenised, RollbackRefused, EraseFails, End
  <1>2. /\ Active /\ retryCount' \in Nat /\ history' \in [0 .. ContextSize + 1 -> Nat]
        /\ UNCHANGED <<promptEnd, pass, cancel, report, runs, executions>>
        /\ log \in LogType
    BY <1>1, RollingBackFacts
  <1>3. UNCHANGED <<tokens, cachePosition, kvVars>>
    BY DEF FailureNotTokenised, RollbackRefused, EraseFails
  <1>4. log' \in LogType /\ log'.streak = log.streak
    <2> DEFINE f == [log.failed EXCEPT ![from] = @ + 1]
    <2>1. f \in [0 .. ContextSize + 1 -> Nat]
      BY <1>2, OneMoreFailure
    <2>2. log' = [log EXCEPT !.failed = f]
      BY <1>1, <1>2 DEF LogType
    <2> HIDE DEF f
    <2> QED
      BY <1>2, <2>1, <2>2 DEF LogType
  <1>5. TextInv' /\ CacheInv'
    BY <1>2, <1>3, SameText DEF kvVars
  <1>6. TypeOK'
    BY <1>1, <1>2, <1>3, <1>4 DEF IInv, TypeOK, kvVars
  <1>7. PassInv' /\ RetryInv'
    BY <1>1, <1>2, <1>4 DEF IInv, PassInv, RetryInv
  <1> QED
    BY <1>5, <1>6, <1>7 DEF IInv

(* Cut, but nothing put in: what is left is the text up to the anchor. *)
LEMMA InjectFailsInv ==
  ASSUME IInv, InjectFails
  PROVE  IInv'
  <1>1. PICK from \in RollbackPositions :
          /\ RollingBack(from) /\ ~ Refused(from)
          /\ tokens' = Kept(from) /\ cachePosition' = from /\ cells' = Erased(from)
          /\ seqPosition' = Monus(seqPosition, cachePosition - from)
          /\ log' = [log EXCEPT !.failed[from] = @ + 1, !.lost = @ \/ LosesSuccess(from)]
    BY DEF InjectFails
  <1>2. pc' = "ended" /\ outcome' = "kv" /\ UNCHANGED <<rollbackCount, tokensErased>>
    BY DEF InjectFails, End
  <1>3. /\ Active /\ retryCount' \in Nat /\ history' \in [0 .. ContextSize + 1 -> Nat]
        /\ UNCHANGED <<promptEnd, pass, cancel, report, runs, executions>>
        /\ log \in LogType /\ from \in promptEnd .. Len(tokens) /\ from \in Nat
    BY <1>1, RollingBackFacts
  <1>4. from \in 0 .. Len(tokens)
    BY <1>3, Counters DEF IInv
  <1>5. Kept(from) \in Seq(Token) /\ Len(Kept(from)) = from
    BY <1>4, Cutting DEF IInv
  <1>6. tokens' = Kept(from) \o <<>>
    BY <1>1, <1>5
  <1>7. Rewrites(from, <<>>, {})
    BY <1>1, <1>3, <1>6 DEF Rewrites, OfRun, InNewText
  <1>8. tokens' \in Seq(Token) /\ cells' \subseteq Cell /\ TextInv' /\ CacheInv'
    BY <1>3, <1>7, RewrittenText, RewrittenCache
  <1>9. seqPosition' \in Nat
    BY <1>1, <1>3, Counters DEF Monus, IInv
  <1>10. log' \in LogType /\ log'.streak = log.streak
    <2> DEFINE f == [log.failed EXCEPT ![from] = @ + 1]
               b == log.lost \/ LosesSuccess(from)
    <2>1. f \in [0 .. ContextSize + 1 -> Nat]
      BY <1>3, OneMoreFailure
    <2>2. b \in BOOLEAN
      OBVIOUS
    <2>3. log' = [log EXCEPT !.failed = f, !.lost = b]
      BY <1>1, <1>3 DEF LogType
    <2> HIDE DEF f, b
    <2> QED
      BY <1>3, <2>1, <2>2, <2>3 DEF LogType
  <1>11. TypeOK'
    BY <1>1, <1>2, <1>3, <1>5, <1>8, <1>9, <1>10 DEF IInv, TypeOK
  <1>12. PassInv' /\ RetryInv'
    BY <1>2, <1>3, <1>10 DEF IInv, PassInv, RetryInv
  <1> QED
    BY <1>8, <1>11, <1>12 DEF IInv

(* The anchor lies behind the prompt, the observation takes the place of    *)
(* what was cut, and one more retry is one more rollback in a row.          *)
LEMMA RollbackInv ==
  ASSUME IInv, Rollback
  PROVE  IInv'
  <1>1. PICK from \in RollbackPositions, n \in ObservationLengths :
          /\ RollingBack(from) /\ ~ Refused(from)
          /\ Inject(from, Observation(n))
          /\ log' = [log EXCEPT !.injected = @ + n, !.streak = @ + 1, !.rewinds = @ + 1,
                                !.failed[from] = @ + 1, !.lost = @ \/ LosesSuccess(from)]
    BY DEF Rollback
  <1>2. pc' = "top" /\ outcome' = outcome
    BY DEF Rollback
  <1>3. /\ Active /\ pc = "executing" /\ retryCount' = retryCount + 1 /\ retryCount' \in Nat
        /\ retryCount + 1 <= MaxRollbackRetries /\ log.streak = retryCount
        /\ history' \in [0 .. ContextSize + 1 -> Nat]
        /\ UNCHANGED <<promptEnd, pass, cancel, report, runs, executions>>
        /\ log \in LogType /\ from \in promptEnd .. Len(tokens) /\ from \in Nat
    BY <1>1, RollingBackFacts
  <1>4. n \in Nat
    BY Limits
  <1> DEFINE batch == Observation(n)
             entries == Entries(from, batch)
  <1>5. OfRun(batch) /\ Len(batch) = n /\ Len(batch) \in Nat
    BY <1>4, ObservationOfRun DEF IInv
  <1>6. /\ tokens' = Kept(from) \o batch /\ cachePosition' = Len(tokens')
        /\ cells' = Erased(from) \cup entries
        /\ seqPosition' = Monus(seqPosition, cachePosition - from)
                            + (IF Len(batch) = 1 THEN 1 ELSE Len(batch) - 1)
        /\ rollbackCount' = rollbackCount + 1
        /\ tokensErased' = tokensErased + Monus(cachePosition, from)
    BY <1>1 DEF Inject, Entries
  <1> HIDE DEF batch
  <1>7. InNewText(entries)
    BY <1>3, <1>5, <1>6, PrefilledEntries
  <1> HIDE DEF entries
  <1>8. Rewrites(from, batch, entries)
    BY <1>3, <1>5, <1>6, <1>7 DEF Rewrites
  <1>9. tokens' \in Seq(Token) /\ cells' \subseteq Cell /\ TextInv' /\ CacheInv'
    BY <1>3, <1>8, RewrittenText, RewrittenCache
  <1>10. seqPosition' \in Nat /\ rollbackCount' \in Nat /\ tokensErased' \in Nat
    <2>1. Monus(seqPosition, cachePosition - from) \in Nat /\ Monus(cachePosition, from) \in Nat
      BY <1>3, Counters DEF Monus, IInv
    <2>2. n # 0
      BY Limits
    <2>3. (IF Len(batch) = 1 THEN 1 ELSE Len(batch) - 1) \in Nat
      BY <1>4, <1>5, <2>2
    <2>4. rollbackCount \in Nat /\ tokensErased \in Nat
      BY Counters DEF IInv
    <2> QED
      BY <1>6, <2>1, <2>3, <2>4
  <1>11. log' \in LogType /\ log'.streak = retryCount + 1
    <2> DEFINE f == [log.failed EXCEPT ![from] = @ + 1]
               b == log.lost \/ LosesSuccess(from)
               o == log.injected + n
               s == log.streak + 1
               w == log.rewinds + 1
    <2>1. f \in [0 .. ContextSize + 1 -> Nat]
      BY <1>3, OneMoreFailure
    <2>2. b \in BOOLEAN
      OBVIOUS
    <2>3. log.injected \in Nat /\ log.streak \in Nat /\ log.rewinds \in Nat
      BY <1>3 DEF LogType
    <2>4. o \in Nat /\ s \in Nat /\ w \in Nat /\ s = retryCount + 1
      BY <1>3, <1>4, <2>3
    <2>5. log' = [log EXCEPT !.injected = o, !.streak = s, !.rewinds = w,
                             !.failed = f, !.lost = b]
      BY <1>1, <1>3 DEF LogType
    <2> HIDE DEF f, b, o, s, w
    <2> QED
      BY <1>3, <2>1, <2>2, <2>4, <2>5 DEF LogType
  <1>12. TypeOK'
    <2>1. {seqPosition, rollbackCount, tokensErased, retryCount, runs, executions}' \subseteq Nat
      BY <1>3, <1>10, Counters DEF IInv
    <2> QED
      BY <1>2, <1>3, <1>6, <1>9, <1>11, <2>1 DEF IInv, TypeOK
  <1>13. PassInv'
    BY <1>2, <1>3 DEF IInv, PassInv
  <1>14. RetryInv'
    BY <1>2, <1>3, <1>11 DEF IInv, RetryInv
  <1> QED
    BY <1>9, <1>12, <1>13, <1>14 DEF IInv

-----------------------------------------------------------------------------
(* The invariant is inductive. *)

LEMMA InitInv == Init => IInv
  <1> SUFFICES ASSUME Init PROVE IInv
    OBVIOUS
  <1>1. NoFailures \in [0 .. ContextSize + 1 -> Nat]
    BY DEF NoFailures
  <1>2. log \in LogType
    BY <1>1 DEF Init, LogType
  <1>3. pass \in PassType /\ report \in ReportType
    BY DEF Init, NewPass, PassType, ReportType
  <1>4. tokens \in Seq(Token) /\ Len(tokens) = 0
    BY DEF Init
  <1>5. TypeOK
    <2>1. {seqPosition, rollbackCount, tokensErased, retryCount, runs, executions} \subseteq Nat
      BY Limits DEF Init
    <2>2. history \in [0 .. ContextSize + 1 -> Nat]
      BY <1>1 DEF Init
    <2>3. promptEnd \in Nat /\ cachePosition = Len(tokens) /\ cells \subseteq Cell
          /\ pc = "idle" /\ outcome = "none" /\ cancel = FALSE
      BY <1>4 DEF Init
    <2> QED
      BY <1>2, <1>3, <1>4, <2>1, <2>2, <2>3 DEF TypeOK
  <1>6. PassInv /\ TextInv
    BY <1>4 DEF Init, NewPass, PassInv, TextInv
  <1>7. CacheInv
    BY DEF Init, CacheInv, NoStaleCells, Active
  <1>8. RetryInv
    BY Limits DEF Init, RetryInv
  <1> QED
    BY <1>5, <1>6, <1>7, <1>8 DEF IInv

LEMMA StutterInv ==
  ASSUME IInv, UNCHANGED vars
  PROVE  IInv'
  <1>1. UNCHANGED <<stateVars, kvVars, pc, outcome, loopVars>>
    BY DEF vars
  <1>2. TypeOK'
    BY <1>1 DEF IInv, TypeOK, stateVars, kvVars, loopVars
  <1>3. PassInv' /\ RetryInv'
    BY <1>1 DEF IInv, PassInv, RetryInv, loopVars
  <1>4. TextInv' /\ CacheInv'
    BY <1>1, SameText DEF stateVars, kvVars, loopVars, Active
  <1> QED
    BY <1>2, <1>3, <1>4 DEF IInv

LEMMA NextInv == IInv /\ [Next]_vars => IInv'
  <1> SUFFICES ASSUME IInv, [Next]_vars PROVE IInv'
    OBVIOUS
  <1>1. CASE StartRun
    BY <1>1, StartRunInv
  <1>2. CASE Prefill
    BY <1>2, PrefillInv
  <1>3. CASE PrefillFails
    BY <1>3, AbortInv DEF PrefillFails
  <1>4. CASE Cancel
    BY <1>4, CancelInv
  <1>5. CASE CleanupSeq
    BY <1>5, CleanupInv
  <1>6. CASE StartPass
    BY <1>6, StartPassInv
  <1>7. CASE StopGenerating
    BY <1>7, FinishInv DEF StopGenerating
  <1>8. CASE AskForToken
    BY <1>8, AskForTokenInv
  <1>9. CASE GenerateToken
    BY <1>9, GenerateTokenInv
  <1>10. CASE ActionBoundary
    BY <1>10, ActionBoundaryInv
  <1>11. CASE EndOfSequence
    BY <1>11, EndOfSequenceInv
  <1>12. CASE GenerationFails
    BY <1>12, AbortInv DEF GenerationFails
  <1>13. CASE ExecutorFails \/ ExecutorPanics \/ SuccessNotTokenised
    BY <1>13, AbortInv DEF ExecutorFails, ExecutorPanics, SuccessNotTokenised
  <1>14. CASE ActionSucceeds
    BY <1>14, ActionSucceedsInv
  <1>15. CASE RetriesExhausted \/ Panics
    BY <1>15, GiveUpInv
  <1>16. CASE FailureNotTokenised \/ RollbackRefused \/ EraseFails
    BY <1>16, UnchangedRollbackInv
  <1>17. CASE InjectFails
    BY <1>17, InjectFailsInv
  <1>18. CASE Rollback
    BY <1>18, RollbackInv
  <1>19. CASE UNCHANGED vars
    BY <1>19, StutterInv
  <1>20. CASE PromptNotTokenised
    BY <1>20, PromptNotTokenisedInv
  <1> QED
    BY <1>1, <1>2, <1>3, <1>4, <1>5, <1>6, <1>7, <1>8, <1>9, <1>10, <1>11, <1>12, <1>13,
       <1>14, <1>15, <1>16, <1>17, <1>18, <1>19, <1>20 DEF Next

(* What run_streaming keeps between any two awaits (engine.rs:141-375):     *)
(* types, where an action's anchor may lie, the text of the current run,    *)
(* the cache that belongs to it, and the retries.                           *)
THEOREM Invariance == Spec => []IInv
  BY InitInv, NextInv, PTL DEF Spec

(* Every variable keeps its type, and cache_position is the length of the   *)
(* token buffer (types.rs:44).                                              *)
THEOREM TypeCorrect == Spec => []TypeOK
  <1>1. IInv => TypeOK
    BY DEF IInv
  <1> QED
    BY <1>1, Invariance, PTL

(* The prompt survives every rollback, in the text and in the cache         *)
(* (kv_cache.rs:140-172): it is computed once.                              *)
THEOREM PromptSurvives == Spec => []PromptCached
  <1>1. IInv => PromptCached
    <2> SUFFICES ASSUME IInv, Active PROVE PromptCached
      BY DEF PromptCached
    <2>1. \A i \in 1 .. promptEnd : i \in 1 .. Len(tokens)
      BY Counters DEF IInv, TextInv
    <2> QED
      BY <2>1 DEF IInv, TextInv, CacheInv, PromptCached
  <1> QED
    BY <1>1, Invariance, PTL

(* No entry of this run outlives the token it was decoded from              *)
(* (kv_cache.rs:140-172), also when a rollback breaks off.                  *)
THEOREM CacheNeverStale == Spec => []NoStaleCells
  <1>1. IInv => NoStaleCells
    BY DEF IInv, CacheInv
  <1> QED
    BY <1>1, Invariance, PTL

(* A run gives up after exactly max_rollback_retries rollbacks in a row     *)
(* (engine.rs:286-295).                                                     *)
THEOREM RetriesAreExact == Spec => []RetriesExact
  <1>1. IInv => RetriesExact
    BY DEF IInv, RetryInv, RetriesExact
  <1> QED
    BY <1>1, Invariance, PTL

-----------------------------------------------------------------------------
(* The cancel flag. *)

(* A token is asked for only before the flag is set, so whatever comes late *)
(* was being sampled when it was set.                                       *)
LateInv ==
  /\ CancelBounds
  /\ ~ cancel \/ pc = "sampling" => log.lateTokens = 0 /\ log.lateActions = 0

(* A step that neither generates nor starts a run leaves the counts alone.  *)
SameLate == log'.lateTokens = log.lateTokens /\ log'.lateActions = log.lateActions

LEMMA SameLateInv ==
  ASSUME LateInv, SameLate, pc' # "sampling", cancel => cancel'
  PROVE  LateInv'
  BY DEF LateInv, CancelBounds, SameLate

LEMMA PushLate ==
  ASSUME IInv, LateInv, pc = "sampling", pc' # "sampling", cancel' = cancel,
         NEW kind, NEW width, Push(kind, width)
  PROVE  LateInv'
  <1>1. log.lateTokens = 0 /\ log.lateActions = 0 /\ log \in LogType
    BY DEF LateInv, IInv, TypeOK
  <1>2. /\ log'.lateTokens = IF cancel THEN 1 ELSE 0
        /\ log'.lateActions = IF cancel /\ kind = "close" /\ pass.body THEN 1 ELSE 0
    BY <1>1 DEF Push, LogType
  <1> QED
    BY <1>2 DEF LateInv, CancelBounds

LEMMA EndLate ==
  ASSUME IInv, LateInv, EndOfSequence
  PROVE  LateInv'
  <1>1. log.lateTokens = 0 /\ log.lateActions = 0 /\ log \in LogType
    BY DEF EndOfSequence, LateInv, IInv, TypeOK
  <1>2. PICK n \in {0, 1} :
          log' = [log EXCEPT !.produced = @ + n,
                             !.lateTokens = IF cancel THEN @ + n ELSE @]
    BY DEF EndOfSequence
  <1>3. /\ log'.lateTokens = IF cancel THEN n ELSE 0
        /\ log'.lateActions = 0
    BY <1>1, <1>2 DEF LogType
  <1>4. pc' = "ended" /\ cancel' = cancel
    BY DEF EndOfSequence, End
  <1> QED
    BY <1>3, <1>4 DEF LateInv, CancelBounds

LEMMA RewindLate ==
  ASSUME IInv, LateInv,
         \/ ActionSucceeds \/ FailureNotTokenised
         \/ RollbackRefused \/ EraseFails \/ InjectFails \/ Rollback
  PROVE  LateInv'
  <1>1. log \in LogType
    BY DEF IInv, TypeOK
  <1>2. SameLate
    BY <1>1 DEF ActionSucceeds, Observe, FailureNotTokenised, RollbackRefused, EraseFails,
                InjectFails, Rollback, SameLate, LogType
  <1>3. pc' # "sampling" /\ cancel' = cancel
    BY DEF ActionSucceeds, Observe, FailureNotTokenised, RollbackRefused, EraseFails,
           InjectFails, Rollback, RollingBack, End
  <1> QED
    BY <1>2, <1>3, SameLateInv

LEMMA NextLate == IInv /\ LateInv /\ [Next]_vars => LateInv'
  <1> SUFFICES ASSUME IInv, LateInv, [Next]_vars PROVE LateInv'
    OBVIOUS
  <1>1. CASE StartRun \/ PromptNotTokenised
    BY <1>1 DEF StartRun, PromptNotTokenised, End, NewLog, LateInv, CancelBounds
  <1>2. CASE Prefill \/ StartPass
    BY <1>2 DEF Prefill, StartPass, loopVars, LateInv, CancelBounds
  <1>3. CASE \/ PrefillFails \/ GenerationFails
             \/ ExecutorFails \/ ExecutorPanics \/ SuccessNotTokenised
    BY <1>3 DEF PrefillFails, GenerationFails, ExecutorFails, ExecutorPanics,
                SuccessNotTokenised, Abort, End, loopVars, LateInv, CancelBounds
  <1>4. CASE Cancel \/ CleanupSeq
    BY <1>4 DEF Cancel, CleanupSeq, loopVars, LateInv, CancelBounds
  <1>5. CASE StopGenerating
    BY <1>5 DEF StopGenerating, Finish, End, LateInv, CancelBounds
  <1>6. CASE AskForToken
    BY <1>6 DEF AskForToken, Cancelled, loopVars, LateInv, CancelBounds
  <1>7. CASE GenerateToken
    BY <1>7, PushLate DEF GenerateToken
  <1>8. CASE ActionBoundary
    BY <1>8, PushLate DEF ActionBoundary
  <1>9. CASE EndOfSequence
    BY <1>9, EndLate
  <1>10. CASE RetriesExhausted \/ Panics
    BY <1>10 DEF RetriesExhausted, Panics, End, LateInv, CancelBounds
  <1>11. CASE \/ ActionSucceeds \/ FailureNotTokenised
              \/ RollbackRefused \/ EraseFails \/ InjectFails \/ Rollback
    BY <1>11, RewindLate
  <1>12. CASE UNCHANGED vars
    BY <1>12 DEF vars, loopVars, LateInv, CancelBounds
  <1> QED
    BY <1>1, <1>2, <1>3, <1>4, <1>5, <1>6, <1>7, <1>8, <1>9, <1>10, <1>11, <1>12 DEF Next

(* Once the cancel flag is set at most one token still arrives and at most  *)
(* the action it closes still runs, whenever the flag is set and whatever   *)
(* fails or is rolled back in between (engine.rs:166, 218, 529).            *)
THEOREM CancelIsPrompt == Spec => []CancelBounds
  <1>1. Init => LateInv
    BY DEF Init, LateInv, CancelBounds
  <1>2. LateInv => CancelBounds
    BY DEF LateInv
  <1> QED
    BY <1>1, <1>2, NextLate, Invariance, PTL DEF Spec

-----------------------------------------------------------------------------
(* The telemetry. *)

(* A run has no outcome before its end, and until a rollback breaks off     *)
(* every token is accounted for.                                            *)
AccountInv ==
  /\ pc \notin {"idle", "ended"} => outcome = "none"
  /\ ErasedAccounted

(* What a step does to the counts that ErasedAccounted compares. *)
Counts(produced, injected) ==
  /\ log'.produced = log.produced + produced
  /\ log'.injected = log.injected + injected
  /\ log'.erasedBefore = log.erasedBefore
  /\ promptEnd' = promptEnd

LEMMA AccountNumbers ==
  ASSUME IInv
  PROVE  /\ Len(tokens) \in Nat /\ tokensErased \in Nat /\ promptEnd \in Nat
         /\ log.produced \in Nat /\ log.injected \in Nat /\ log.erasedBefore \in Nat
  BY Counters DEF IInv, TypeOK, LogType

(* Text grows by what is counted as produced or injected. *)
LEMMA GrownAccount ==
  ASSUME IInv, AccountInv, pc \notin {"idle", "ended"},
         NEW p \in Nat, NEW i \in Nat, Counts(p, i),
         Len(tokens') = Len(tokens) + p + i, tokensErased' = tokensErased,
         pc' \notin {"idle", "ended"} => outcome' = "none"
  PROVE  AccountInv'
  <1>1. outcome = "none"
    BY DEF AccountInv
  <1>2. Len(tokens) + tokensErased = log.erasedBefore + promptEnd + log.produced + log.injected
    BY <1>1 DEF AccountInv, ErasedAccounted
  <1>3. Len(tokens') + tokensErased'
          = log'.erasedBefore + promptEnd' + log'.produced + log'.injected
    <2>1. Len(tokens') + tokensErased' = (Len(tokens) + tokensErased) + (p + i)
      BY AccountNumbers
    <2>2. log'.erasedBefore + promptEnd' + log'.produced + log'.injected
            = (log.erasedBefore + promptEnd + log.produced + log.injected) + (p + i)
      BY AccountNumbers DEF Counts
    <2> QED
      BY <1>2, <2>1, <2>2
  <1> QED
    BY <1>3 DEF AccountInv, ErasedAccounted

LEMMA PushAccount ==
  ASSUME IInv, AccountInv, pc = "sampling", outcome' = outcome, tokensErased' = tokensErased,
         NEW kind, NEW width, Push(kind, width)
  PROVE  AccountInv'
  <1>1. Len(tokens') = Len(tokens) + 1 + 0
    BY Counters DEF Push, IInv
  <1>2. log \in LogType /\ promptEnd' = promptEnd
    BY DEF IInv, TypeOK, Push
  <1>3. Counts(1, 0)
    BY <1>2, AccountNumbers DEF Push, LogType, Counts
  <1> QED
    BY <1>1, <1>3, GrownAccount DEF AccountInv

LEMMA EndAccount ==
  ASSUME IInv, AccountInv, EndOfSequence
  PROVE  AccountInv'
  <1>1. PICK n \in {0, 1} :
          /\ tokens' = tokens \o NewTokens("text", n)
          /\ log' = [log EXCEPT !.produced = @ + n,
                                !.lateTokens = IF cancel THEN @ + n ELSE @]
    BY DEF EndOfSequence
  <1>2. OfRun(NewTokens("text", n)) /\ Len(NewTokens("text", n)) = n
    BY NewTokensOfRun DEF IInv, TokenKind
  <1>3. Len(tokens') = Len(tokens) + n + 0
    BY <1>1, <1>2, Counters, Concatenation DEF IInv, OfRun
  <1>4. log \in LogType /\ promptEnd' = promptEnd
    BY DEF IInv, TypeOK, EndOfSequence
  <1>5. Counts(n, 0)
    BY <1>1, <1>4, AccountNumbers DEF LogType, Counts
  <1>6. pc = "sampling" /\ pc' = "ended" /\ tokensErased' = tokensErased
    BY DEF EndOfSequence, End
  <1> QED
    BY <1>3, <1>5, <1>6, GrownAccount

LEMMA ObserveAccount ==
  ASSUME IInv, AccountInv, ActionSucceeds
  PROVE  AccountInv'
  <1>1. PICK n \in ObservationLengths : Observe(n)
    BY DEF ActionSucceeds
  <1>2. n \in Nat /\ "success" \in TokenKind
    BY Limits DEF TokenKind
  <1>3. /\ tokens' = tokens \o NewTokens("success", n)
        /\ log' = [log EXCEPT !.injected = @ + n, !.streak = 0]
        /\ pc' = "ended" \/ outcome' = outcome
    BY <1>1 DEF Observe, End
  <1>4. OfRun(NewTokens("success", n)) /\ Len(NewTokens("success", n)) = n
    BY <1>2, NewTokensOfRun DEF IInv
  <1>5. Len(tokens') = Len(tokens) + 0 + n
    <2>1. Len(tokens') = Len(tokens) + Len(NewTokens("success", n))
      BY <1>3, <1>4, Counters, Concatenation DEF IInv, OfRun
    <2> QED
      BY <1>2, <1>4, <2>1, Counters DEF IInv
  <1>6. log \in LogType /\ pc = "executing" /\ UNCHANGED <<promptEnd, tokensErased>>
    BY DEF IInv, TypeOK, ActionSucceeds
  <1>7. Counts(0, n)
    BY <1>3, <1>6, AccountNumbers DEF LogType, Counts
  <1> QED
    BY <1>2, <1>3, <1>5, <1>6, <1>7, GrownAccount DEF AccountInv

(* What is cut from the text is added to the tokens erased. *)
LEMMA RollbackAccount ==
  ASSUME IInv, AccountInv, Rollback
  PROVE  AccountInv'
  <1>1. PICK from \in RollbackPositions, n \in ObservationLengths :
          /\ RollingBack(from) /\ ~ Refused(from)
          /\ Inject(from, Observation(n))
          /\ log' = [log EXCEPT !.injected = @ + n, !.streak = @ + 1, !.rewinds = @ + 1,
                                !.failed[from] = @ + 1, !.lost = @ \/ LosesSuccess(from)]
    BY DEF Rollback
  <1>2. n \in Nat
    BY Limits
  <1>3. /\ pc = "executing" /\ promptEnd' = promptEnd /\ log \in LogType
        /\ from \in promptEnd .. Len(tokens) /\ from \in Nat
    BY <1>1, RollingBackFacts
  <1>4. from \in 0 .. Len(tokens) /\ cachePosition = Len(tokens)
    BY <1>3, Counters DEF IInv, TypeOK
  <1>5. Kept(from) \in Seq(Token) /\ Len(Kept(from)) = from
    BY <1>4, Cutting DEF IInv
  <1>6. OfRun(Observation(n)) /\ Len(Observation(n)) = n
    BY <1>2, ObservationOfRun DEF IInv
  <1>7. tokens' = Kept(from) \o Observation(n)
        /\ tokensErased' = tokensErased + Monus(cachePosition, from)
    BY <1>1 DEF Inject
  <1>8. Len(tokens') = from + n
    BY <1>5, <1>6, <1>7, Concatenation DEF OfRun
  <1>9. tokensErased' = tokensErased + (Len(tokens) - from)
    BY <1>4, <1>7, Counters DEF Monus, IInv
  <1>10. Counts(0, n)
    BY <1>1, <1>3, AccountNumbers DEF LogType, Counts
  <1>11. pc' = "top" /\ outcome' = outcome
    BY DEF Rollback
  <1>12. outcome = "none"
    BY <1>3 DEF AccountInv
  <1>13. Len(tokens') + tokensErased'
           = log'.erasedBefore + promptEnd' + log'.produced + log'.injected
    <2>1. Len(tokens) + tokensErased
            = log.erasedBefore + promptEnd + log.produced + log.injected
      BY <1>12 DEF AccountInv, ErasedAccounted
    <2>2. Len(tokens') + tokensErased' = (Len(tokens) + tokensErased) + n
      BY <1>2, <1>3, <1>8, <1>9, AccountNumbers
    <2> QED
      BY <1>2, <1>10, <2>1, <2>2, AccountNumbers DEF Counts
  <1> QED
    BY <1>11, <1>12, <1>13 DEF AccountInv, ErasedAccounted

LEMMA NextAccount == IInv /\ AccountInv /\ [Next]_vars => AccountInv'
  <1> SUFFICES ASSUME IInv, AccountInv, [Next]_vars PROVE AccountInv'
    OBVIOUS
  <1>1. CASE StartRun
    <2>1. PICK n \in PromptLengths :
            /\ tokens' = [i \in 1 .. n |->
                            [kind |-> "prompt", run |-> runs', era |-> rollbackCount]]
            /\ promptEnd' = n
      BY <1>1 DEF StartRun
    <2>2. n \in Nat
      BY Limits
    <2>3. Len(tokens') = n
      BY <2>1, <2>2
    <2>4. /\ log'.produced = 0 /\ log'.injected = 0 /\ log'.erasedBefore = tokensErased
          /\ tokensErased' = tokensErased /\ outcome' = "none"
      BY <1>1 DEF StartRun, NewLog, kvVars
    <2> QED
      BY <2>1, <2>2, <2>3, <2>4, AccountNumbers DEF AccountInv, ErasedAccounted
  <1>2. CASE Prefill \/ Cancel \/ CleanupSeq \/ StartPass \/ AskForToken
    BY <1>2 DEF Prefill, Cancel, CleanupSeq, StartPass, AskForToken, stateVars, kvVars,
                loopVars, AccountInv, ErasedAccounted
  <1>3. CASE \/ PrefillFails \/ GenerationFails
             \/ ExecutorFails \/ ExecutorPanics \/ SuccessNotTokenised
    BY <1>3 DEF PrefillFails, GenerationFails, ExecutorFails, ExecutorPanics,
                SuccessNotTokenised, Abort, End, stateVars, kvVars, loopVars, AccountInv,
                ErasedAccounted
  <1>4. CASE StopGenerating
    BY <1>4 DEF StopGenerating, Finish, End, stateVars, kvVars, AccountInv, ErasedAccounted
  <1>5. CASE GenerateToken \/ ActionBoundary
    BY <1>5, PushAccount DEF GenerateToken, ActionBoundary
  <1>6. CASE EndOfSequence
    BY <1>6, EndAccount
  <1>7. CASE ActionSucceeds
    BY <1>7, ObserveAccount
  <1>8. CASE RetriesExhausted \/ Panics
    BY <1>8 DEF RetriesExhausted, Panics, End, stateVars, kvVars, AccountInv, ErasedAccounted
  <1>9. CASE FailureNotTokenised \/ RollbackRefused
    <2>1. log \in LogType
      BY DEF IInv, TypeOK
    <2>2. PICK from \in RollbackPositions :
            RollingBack(from) /\ log' = [log EXCEPT !.failed[from] = @ + 1]
      BY <1>9 DEF FailureNotTokenised, RollbackRefused
    <2>3. /\ log'.produced = log.produced /\ log'.injected = log.injected
          /\ log'.erasedBefore = log.erasedBefore /\ promptEnd' = promptEnd
      BY <2>1, <2>2 DEF RollingBack, LogType
    <2>4. /\ pc = "executing" /\ pc' = "ended"
          /\ UNCHANGED <<tokens, tokensErased>>
      BY <1>9 DEF FailureNotTokenised, RollbackRefused, RollingBack, End, kvVars
    <2> QED
      BY <2>3, <2>4 DEF AccountInv, ErasedAccounted
  <1>10. CASE EraseFails \/ InjectFails
    BY <1>10 DEF EraseFails, InjectFails, End, AccountInv, ErasedAccounted
  <1>11. CASE Rollback
    BY <1>11, RollbackAccount
  <1>12. CASE UNCHANGED vars
    BY <1>12 DEF vars, stateVars, kvVars, loopVars, AccountInv, ErasedAccounted
  <1>13. CASE PromptNotTokenised
    <2>1. /\ tokens' = <<>> /\ promptEnd' = 0 /\ log'.produced = 0 /\ log'.injected = 0
          /\ log'.erasedBefore = tokensErased /\ tokensErased' = tokensErased
          /\ pc' = "ended" /\ outcome' = "backend"
      BY <1>13 DEF PromptNotTokenised, End, NewLog, kvVars
    <2>2. Len(tokens') = 0
      BY <2>1
    <2> QED
      BY <2>1, <2>2, AccountNumbers DEF AccountInv, ErasedAccounted
  <1> QED
    BY <1>1, <1>2, <1>3, <1>4, <1>5, <1>6, <1>7, <1>8, <1>9, <1>10, <1>11, <1>12, <1>13
    DEF Next

(* The telemetry accounts for every token: total_tokens_erased of           *)
(* kv_cache.rs:143, 172 adds exactly what each rollback took out, for every *)
(* anchor, hint and length of observation.                                  *)
THEOREM EveryTokenAccounted == Spec => []ErasedAccounted
  <1>1. Init => AccountInv
    BY DEF Init, AccountInv, ErasedAccounted
  <1>2. AccountInv => ErasedAccounted
    BY DEF AccountInv
  <1> QED
    BY <1>1, <1>2, NextAccount, Invariance, PTL DEF Spec

-----------------------------------------------------------------------------
(* What is cached when a token is sampled. *)

(* An action runs right after its closing tag. *)
BoundaryInv == pc = "executing" => tokens # <<>> /\ tokens[Len(tokens)].kind = "close"

CoverInv == BoundaryInv /\ CacheCovers

(* A rewrite keeps the text covered when it takes over entries of covered   *)
(* text and decodes the new one but for its last token.                     *)
LEMMA RewrittenCover ==
  ASSUME IInv, NEW from, NEW batch, NEW entries, Rewrites(from, batch, entries),
         \A i \in 1 .. from :
           <<i - 1, tokens[i]>> \in cells \cup entries \/ tokens[i].kind = "close",
         \A i \in from + 1 .. from + Len(batch) - 1 : <<i - 1, tokens'[i]>> \in entries
  PROVE  CacheCovers'
  <1>1. /\ tokens' \in Seq(Token) /\ Len(tokens') = from + Len(batch)
        /\ \A i \in 1 .. from : tokens'[i] = tokens[i]
    BY RewrittenText
  <1>2. from \in Nat /\ Len(batch) \in Nat
    BY Counters DEF Rewrites, OfRun, IInv
  <1> SUFFICES ASSUME NEW i \in 1 .. Len(tokens') - 1
               PROVE  Cached(i)' \/ tokens'[i].kind = "close"
    BY DEF CacheCovers
  <1>3. CASE i <= from
    <2>1. i \in 1 .. from /\ tokens'[i] = tokens[i] /\ i - 1 < from
      BY <1>1, <1>2, <1>3
    <2>2. CASE <<i - 1, tokens[i]>> \in cells
      <3>1. <<i - 1, tokens[i]>>[1] < from
        BY <2>1
      <3>2. <<i - 1, tokens[i]>> \in Erased(from)
        BY <2>2, <3>1 DEF Erased
      <3> QED
        BY <2>1, <3>2 DEF Rewrites, Cached
    <2>3. CASE <<i - 1, tokens[i]>> \in entries
      BY <2>1, <2>3 DEF Rewrites, Cached
    <2>4. CASE tokens[i].kind = "close"
      BY <2>1, <2>4
    <2> QED
      BY <2>1, <2>2, <2>3, <2>4
  <1>4. CASE i > from
    <2>1. i \in from + 1 .. from + Len(batch) - 1
      BY <1>1, <1>2, <1>4
    <2> QED
      BY <2>1 DEF Rewrites, Cached
  <1> QED
    BY <1>2, <1>3, <1>4

(* Only the text, the cache and whether the loop is active matter. *)
LEMMA SameCover ==
  ASSUME CoverInv, UNCHANGED <<tokens, cells>>, Active' => Active,
         pc' = "executing" => pc = "executing"
  PROVE  CoverInv'
  <1>1. \A i : Cached(i)' <=> Cached(i)
    BY DEF Cached
  <1> QED
    BY <1>1 DEF CoverInv, BoundaryInv, CacheCovers

LEMMA PushCover ==
  ASSUME IInv, CoverInv, pc = "sampling", runs' = runs, CanDecodeLast, cells' = LastDecoded,
         NEW kind \in TokenKind, NEW width \in Widths, Push(kind, width),
         pc' = "executing" => kind = "close"
  PROVE  CoverInv'
  <1> DEFINE batch == <<NewToken(kind)>>
             entries == {<<Len(tokens) - 1, tokens[Len(tokens)]>>}
  <1>1. OfRun(batch) /\ Len(batch) = 1 /\ batch[1].kind = kind
    BY Counters DEF IInv, OfRun, NewToken, Token
  <1>2. tokens' = tokens \o batch /\ promptEnd' = promptEnd
    BY Counters DEF IInv, Push
  <1> HIDE DEF batch
  <1>3. Rewrites(Len(tokens), batch, entries)
    BY <1>1, <1>2, DecodeLast
  <1>4. Len(tokens) \in Nat /\ tokens \in Seq(Token) /\ batch \in Seq(Token)
    BY <1>1, Counters DEF IInv, OfRun
  <1>5. \A i \in 1 .. Len(tokens) :
          <<i - 1, tokens[i]>> \in cells \cup entries \/ tokens[i].kind = "close"
    <2> SUFFICES ASSUME NEW i \in 1 .. Len(tokens)
                 PROVE  <<i - 1, tokens[i]>> \in cells \cup entries \/ tokens[i].kind = "close"
      OBVIOUS
    <2>1. CASE i = Len(tokens)
      BY <2>1
    <2>2. CASE i # Len(tokens)
      <3>1. i \in 1 .. Len(tokens) - 1
        BY <1>4, <2>2
      <3> QED
        BY <3>1 DEF CoverInv, CacheCovers, Active, Cached
    <2> QED
      BY <2>1, <2>2
  <1> HIDE DEF entries
  <1>6. CacheCovers'
    <2>1. \A i \in Len(tokens) + 1 .. Len(tokens) + Len(batch) - 1 :
            <<i - 1, tokens'[i]>> \in entries
      BY <1>1, <1>4
    <2> QED
      BY <1>3, <1>5, <2>1, RewrittenCover
  <1>7. BoundaryInv'
    <2>1. Len(tokens') = Len(tokens) + 1 /\ tokens'[Len(tokens) + 1] = batch[1]
      BY <1>1, <1>2, <1>4, Concatenation
    <2>2. tokens' # <<>>
      BY <1>4, <2>1
    <2> QED
      BY <1>1, <2>1, <2>2 DEF BoundaryInv
  <1> QED
    BY <1>6, <1>7 DEF CoverInv

(* All text is covered while an action runs: its closing tag is the last    *)
(* token.                                                                   *)
LEMMA ExecutingCovered ==
  ASSUME IInv, CoverInv, pc = "executing", NEW i \in 1 .. Len(tokens)
  PROVE  <<i - 1, tokens[i]>> \in cells \/ tokens[i].kind = "close"
  <1>1. CASE i = Len(tokens)
    BY <1>1 DEF CoverInv, BoundaryInv
  <1>2. CASE i # Len(tokens)
    <2>1. i \in 1 .. Len(tokens) - 1
      BY <1>2, Counters DEF IInv
    <2> QED
      BY <2>1 DEF CoverInv, CacheCovers, Active, Cached
  <1> QED
    BY <1>1, <1>2

(* The entries of a prefilled batch, seen from the new text. *)
LEMMA EntriesCover ==
  ASSUME IInv, NEW from \in promptEnd .. Len(tokens), NEW batch, OfRun(batch),
         tokens' = Kept(from) \o batch
  PROVE  \A i \in from + 1 .. from + Len(batch) - 1 :
           <<i - 1, tokens'[i]>> \in Entries(from, batch)
  <1> SUFFICES ASSUME NEW i \in from + 1 .. from + Len(batch) - 1
               PROVE  <<i - 1, tokens'[i]>> \in Entries(from, batch)
    OBVIOUS
  <1>1. from \in Nat /\ from \in 0 .. Len(tokens) /\ batch \in Seq(Token) /\ Len(batch) \in Nat
    BY Counters DEF IInv, OfRun
  <1>2. /\ Prefilled(batch) \in Seq(Token)
        /\ Len(batch) > 0 => Len(Prefilled(batch)) = Len(batch) - 1
    BY <1>1, PrefilledPart
  <1>3. PICK j \in 1 .. Len(batch) - 1 : i = from + j
    <2>1. i - from \in 1 .. Len(batch) - 1 /\ i = from + (i - from)
      BY <1>1
    <2> QED
      BY <2>1
  <1>4. Len(batch) > 0 /\ j \in 1 .. Len(batch)
    BY <1>1
  <1>5. Kept(from) \in Seq(Token) /\ Len(Kept(from)) = from
    BY <1>1, Cutting DEF IInv
  <1>6. tokens'[i] = batch[j]
    BY <1>1, <1>3, <1>4, <1>5, Concatenation
  <1>7. j \in DOMAIN Prefilled(batch)
    BY <1>2, <1>4
  <1>8. <<from + j - 1, batch[j]>> \in Entries(from, batch)
    BY <1>7 DEF Entries
  <1> QED
    BY <1>3, <1>6, <1>8

LEMMA ObserveCover ==
  ASSUME IInv, CoverInv, ActionSucceeds
  PROVE  CoverInv'
  <1>1. PICK n \in ObservationLengths : Observe(n)
    BY DEF ActionSucceeds
  <1> DEFINE batch == NewTokens("success", n)
             entries == Entries(Len(tokens), batch)
  <1>2. OfRun(batch)
    BY NewTokensOfRun, Limits DEF IInv, TokenKind
  <1>3. /\ tokens' = tokens \o batch
        /\ \/ cells' = Decoded(Len(tokens), Prefilled(batch)) /\ pc' = "top"
           \/ pc' = "ended"
        /\ pc = "executing" /\ UNCHANGED <<promptEnd, runs>>
    BY <1>1 DEF ActionSucceeds, Observe, End
  <1> HIDE DEF batch
  <1>4. CASE pc' = "ended"
    BY <1>4 DEF CoverInv, BoundaryInv, CacheCovers, Active
  <1>5. CASE cells' = Decoded(Len(tokens), Prefilled(batch)) /\ pc' = "top"
    <2>1. Len(tokens) \in promptEnd .. Len(tokens) /\ tokens' = Kept(Len(tokens)) \o batch
      BY <1>3, KeptAll, Counters DEF IInv, TextInv
    <2>2. /\ InNewText(entries)
          /\ {<<Len(tokens) + i - 1, Prefilled(batch)[i]>> : i \in DOMAIN Prefilled(batch)} = entries
      BY <1>2, <2>1, PrefilledEntries
    <2>3. \A i \in Len(tokens) + 1 .. Len(tokens) + Len(batch) - 1 :
            <<i - 1, tokens'[i]>> \in entries
      BY <1>2, <2>1, EntriesCover
    <2> HIDE DEF entries
    <2>4. cells' = Erased(Len(tokens)) \cup entries
      BY <1>5, <2>2, ErasedAll DEF Decoded, IInv
    <2>5. Rewrites(Len(tokens), batch, entries)
      BY <1>2, <1>3, <2>1, <2>2, <2>4 DEF Rewrites
    <2>6. \A i \in 1 .. Len(tokens) :
            <<i - 1, tokens[i]>> \in cells \cup entries \/ tokens[i].kind = "close"
      BY <1>3, ExecutingCovered
    <2>7. CacheCovers'
      BY <2>3, <2>5, <2>6, RewrittenCover
    <2> QED
      BY <1>5, <2>7 DEF CoverInv, BoundaryInv
  <1> QED
    BY <1>3, <1>4, <1>5

LEMMA RollbackCover ==
  ASSUME IInv, CoverInv, Rollback
  PROVE  CoverInv'
  <1>1. PICK from \in RollbackPositions, n \in ObservationLengths :
          /\ RollingBack(from) /\ ~ Refused(from)
          /\ Inject(from, Observation(n))
    BY DEF Rollback
  <1> DEFINE batch == Observation(n)
             entries == Entries(from, batch)
  <1>2. /\ pc = "executing" /\ from \in promptEnd .. Len(tokens)
        /\ UNCHANGED <<promptEnd, runs>>
    BY <1>1, RollingBackFacts
  <1>3. OfRun(batch)
    BY ObservationOfRun, Limits DEF IInv
  <1>4. tokens' = Kept(from) \o batch /\ cells' = Erased(from) \cup entries
    BY <1>1 DEF Inject, Entries
  <1> HIDE DEF batch
  <1>5. InNewText(entries)
    BY <1>2, <1>3, <1>4, PrefilledEntries
  <1>6. \A i \in from + 1 .. from + Len(batch) - 1 : <<i - 1, tokens'[i]>> \in entries
    BY <1>2, <1>3, <1>4, EntriesCover
  <1> HIDE DEF entries
  <1>7. Rewrites(from, batch, entries)
    BY <1>2, <1>3, <1>4, <1>5 DEF Rewrites
  <1>8. \A i \in 1 .. from :
          <<i - 1, tokens[i]>> \in cells \cup entries \/ tokens[i].kind = "close"
    <2>1. \A i \in 1 .. from : i \in 1 .. Len(tokens)
      BY <1>2, Counters DEF IInv
    <2> QED
      BY <1>2, <2>1, ExecutingCovered
  <1>9. CacheCovers'
    BY <1>6, <1>7, <1>8, RewrittenCover
  <1>10. pc' = "top"
    BY DEF Rollback
  <1> QED
    BY <1>9, <1>10 DEF CoverInv, BoundaryInv

LEMMA PrefillCover ==
  ASSUME IInv, Prefill
  PROVE  CoverInv'
  <1>1. /\ tokens' = tokens /\ pc' = "top"
        /\ cells' = cells \cup {<<0 + i - 1, Prefilled(tokens)[i]>> : i \in DOMAIN Prefilled(tokens)}
    BY DEF Prefill, stateVars, Decoded
  <1>2. /\ tokens \in Seq(Token) /\ Prefilled(tokens) \in Seq(Token)
        /\ Len(tokens) > 0 => Len(Prefilled(tokens)) = Len(tokens) - 1
        /\ \A i \in 1 .. Len(Prefilled(tokens)) : Prefilled(tokens)[i] = tokens[i]
    BY Counters, PrefilledPart DEF IInv
  <1>3. ASSUME NEW i \in 1 .. Len(tokens) - 1
        PROVE  <<i - 1, tokens[i]>> \in cells'
    <2>1. i \in DOMAIN Prefilled(tokens) /\ Prefilled(tokens)[i] = tokens[i] /\ 0 + i - 1 = i - 1
      BY <1>2
    <2> QED
      BY <1>1, <2>1
  <1> QED
    BY <1>1, <1>3 DEF CoverInv, BoundaryInv, CacheCovers, Cached

LEMMA NextCover == IInv /\ CoverInv /\ [Next]_vars => CoverInv'
  <1> SUFFICES ASSUME IInv, CoverInv, [Next]_vars PROVE CoverInv'
    OBVIOUS
  <1>1. CASE StartRun
    BY <1>1 DEF StartRun, CoverInv, BoundaryInv, CacheCovers, Active
  <1>2. CASE Prefill
    BY <1>2, PrefillCover
  <1>3. CASE pc' = "ended"
    BY <1>3 DEF CoverInv, BoundaryInv, CacheCovers, Active
  <1>4. CASE Cancel \/ StartPass \/ AskForToken
    BY <1>4, SameCover DEF Cancel, StartPass, AskForToken, stateVars, kvVars, Active
  <1>5. CASE CleanupSeq
    BY <1>5 DEF CleanupSeq, CoverInv, BoundaryInv, CacheCovers, Active
  <1>6. CASE GenerateToken
    <2>1. PICK kind \in {"text", "open"}, width \in Widths : Push(kind, width)
      BY <1>6 DEF GenerateToken
    <2> QED
      BY <1>6, <2>1, PushCover DEF GenerateToken, TokenKind
  <1>7. CASE ActionBoundary
    BY <1>7, PushCover DEF ActionBoundary, TokenKind
  <1>8. CASE ActionSucceeds
    BY <1>8, ObserveCover
  <1>9. CASE Rollback
    BY <1>9, RollbackCover
  <1>10. CASE UNCHANGED vars
    BY <1>10, SameCover DEF vars, stateVars, kvVars, Active
  <1> QED
    BY <1>1, <1>2, <1>3, <1>4, <1>5, <1>6, <1>7, <1>8, <1>9, <1>10
    DEF Next, PromptNotTokenised, PrefillFails, GenerationFails, ExecutorFails, ExecutorPanics,
        SuccessNotTokenised, Abort, StopGenerating, Finish, EndOfSequence, RetriesExhausted,
        Panics, FailureNotTokenised, RollbackRefused, EraseFails, InjectFails, End

(* Every sample decodes only the last token (engine.rs:50-51), and finds    *)
(* all text before it in the cache, closing tags of actions excepted: also  *)
(* after any number of rollbacks, whatever their anchors.                   *)
THEOREM TextIsCached == Spec => []CacheCovers
  <1>1. Init => CoverInv
    BY DEF Init, CoverInv, BoundaryInv, CacheCovers, Active
  <1>2. CoverInv => CacheCovers
    BY DEF CoverInv
  <1> QED
    BY <1>1, <1>2, NextCover, Invariance, PTL DEF Spec

-----------------------------------------------------------------------------
(* The loop implements TimeTravel. *)

Running == pc \notin {"idle", "ended"}

LEMMA Whole ==
  ASSUME IInv
  PROVE  /\ tokens \in Seq(Token) /\ Len(tokens) \in Nat /\ promptEnd \in Nat
         /\ Len(tokens) \in promptEnd .. Len(tokens)
         /\ SubSeq(tokens, 1, Len(tokens)) = tokens
  BY Counters DEF IInv, TextInv

(* Text grows by a batch, in a run that goes on or ends. *)
LEMMA Grown ==
  ASSUME IInv, NEW batch \in Seq(Token), tokens' = tokens \o batch
  PROVE  tokens' \in Seq(Token) /\ Protocol!Grows(tokens')
  <1>1. /\ tokens' \in Seq(Token) /\ Len(tokens') = Len(tokens) + Len(batch)
        /\ \A i \in 1 .. Len(tokens) : tokens'[i] = tokens[i]
    BY Whole, Concatenation
  <1>2. Len(batch) \in Nat /\ Len(tokens) \in 0 .. Len(tokens')
    BY <1>1, Whole
  <1>3. /\ SubSeq(tokens', 1, Len(tokens)) \in Seq(Token)
        /\ Len(SubSeq(tokens', 1, Len(tokens))) = Len(tokens)
        /\ \A i \in 1 .. Len(tokens) : SubSeq(tokens', 1, Len(tokens))[i] = tokens'[i]
    BY <1>1, <1>2, Front
  <1>4. SubSeq(tokens', 1, Len(tokens)) = tokens
    BY <1>1, <1>3, Whole
  <1> QED
    BY <1>1, <1>2, <1>4, Whole DEF Protocol!Grows

(* A step that leaves the text alone is a stutter, or an end of the run.    *)
LEMMA SameTextProtocol ==
  ASSUME UNCHANGED <<tokens, promptEnd, retryCount>>, Running' <=> Running
  PROVE  UNCHANGED Protocol!vars
  BY DEF Running, Protocol!vars

LEMMA OverProtocol ==
  ASSUME IInv, Running, ~ Running', UNCHANGED promptEnd,
         retryCount' = retryCount \/ retryCount' = retryCount + 1,
         NEW from \in promptEnd .. Len(tokens), tokens' = SubSeq(tokens, 1, from)
  PROVE  Protocol!Over
  BY DEF Running, Protocol!Over

LEMMA EndsProtocol ==
  ASSUME IInv, Running, ~ Running', UNCHANGED <<tokens, promptEnd>>,
         retryCount' = retryCount \/ retryCount' = retryCount + 1
  PROVE  Protocol!Over
  BY Whole, OverProtocol

LEMMA ExtendProtocol ==
  ASSUME IInv, Running, UNCHANGED <<promptEnd, retryCount>>,
         NEW batch \in Seq(Token), tokens' = tokens \o batch
  PROVE  Protocol!Extend
  BY Grown DEF Running, Protocol!Extend

LEMMA BeginProtocol ==
  ASSUME IInv, StartRun
  PROVE  Protocol!Begin
  <1>1. ~ Running /\ Running' \in BOOLEAN /\ retryCount' = 0 /\ runs' = runs + 1
    BY DEF StartRun, Running
  <1>2. PICK n \in PromptLengths :
          /\ tokens' = [i \in 1 .. n |-> [kind |-> "prompt", run |-> runs', era |-> rollbackCount]]
          /\ promptEnd' = n
    BY DEF StartRun
  <1> DEFINE t == [kind |-> "prompt", run |-> runs', era |-> rollbackCount]
  <1>3. t \in Token /\ t.kind = "prompt" /\ n \in Nat
    BY <1>1, Counters, Limits DEF IInv, Token, TokenKind
  <1>4. tokens' = [i \in 1 .. n |-> t]
    BY <1>2
  <1> HIDE DEF t
  <1>5. tokens' \in Seq(Token) /\ Len(tokens') = n
        /\ \A i \in DOMAIN tokens' : tokens'[i].kind = "prompt"
    BY <1>3, <1>4
  <1> QED
    BY <1>1, <1>2, <1>5 DEF Running, Protocol!Begin

LEMMA RefusedProtocol ==
  ASSUME IInv, PromptNotTokenised
  PROVE  Protocol!Begin
  <1>1. ~ Running /\ Running' \in BOOLEAN /\ retryCount' = 0 /\ tokens' = <<>> /\ promptEnd' = 0
    BY DEF PromptNotTokenised, End, Running
  <1>2. tokens' \in Seq(Token) /\ Len(tokens') = 0
        /\ \A i \in DOMAIN tokens' : tokens'[i].kind = "prompt"
    BY <1>1
  <1> QED
    BY <1>1, <1>2 DEF Running, Protocol!Begin

LEMMA PushProtocol ==
  ASSUME IInv, pc = "sampling", retryCount' = retryCount,
         NEW kind \in TokenKind, NEW width, Push(kind, width)
  PROVE  Protocol!Extend
  <1> DEFINE batch == <<NewToken(kind)>>
  <1>1. batch \in Seq(Token)
    BY Counters DEF IInv, NewToken, Token
  <1>2. tokens' = tokens \o batch /\ promptEnd' = promptEnd
    BY Counters DEF IInv, Push
  <1> HIDE DEF batch
  <1> QED
    BY <1>1, <1>2, ExtendProtocol DEF Running

LEMMA EndOfSequenceProtocol ==
  ASSUME IInv, EndOfSequence
  PROVE  Protocol!Extend
  <1>1. PICK n \in {0, 1} : tokens' = tokens \o NewTokens("text", n)
    BY DEF EndOfSequence
  <1>2. NewTokens("text", n) \in Seq(Token)
    BY NewTokensOfRun DEF IInv, TokenKind, OfRun
  <1>3. Running /\ UNCHANGED <<promptEnd, retryCount>>
    BY DEF EndOfSequence, Running
  <1> QED
    BY <1>1, <1>2, <1>3, ExtendProtocol

(* A successful action is observed, or breaks off with its text.            *)
LEMMA ObserveProtocol ==
  ASSUME IInv, ActionSucceeds
  PROVE  Protocol!Observe \/ Protocol!Extend
  <1>1. PICK n \in ObservationLengths : Observe(n)
    BY DEF ActionSucceeds
  <1> DEFINE batch == NewTokens("success", n)
  <1>2. n \in Nat /\ n # 0 /\ "success" \in TokenKind
    BY Limits DEF TokenKind
  <1>3. batch \in Seq(Token) /\ Len(batch) = n
    BY <1>2, NewTokensOfRun DEF IInv, OfRun
  <1>4. batch[n].kind = "success"
    BY <1>2 DEF NewTokens, NewToken
  <1>5. /\ tokens' = tokens \o batch /\ pc = "executing" /\ promptEnd' = promptEnd
        /\ \/ pc' = "top" /\ retryCount' = 0
           \/ pc' = "ended" /\ retryCount' = retryCount
    BY <1>1 DEF ActionSucceeds, Observe, End
  <1> HIDE DEF batch
  <1>6. CASE pc' = "top" /\ retryCount' = 0
    <2>1. Len(tokens') = Len(tokens) + n /\ tokens'[Len(tokens) + n] = batch[n]
      <3>1. n \in 1 .. Len(batch)
        BY <1>2, <1>3
      <3>2. tokens \in Seq(Token) /\ batch \in Seq(Token)
        BY <1>3, Whole
      <3>3. /\ Len(tokens \o batch) = Len(tokens) + Len(batch)
            /\ \A i \in 1 .. Len(batch) : (tokens \o batch)[Len(tokens) + i] = batch[i]
        BY <3>2, Concatenation
      <3> QED
        BY <1>3, <1>5, <3>1, <3>3
    <2>2. tokens'[Len(tokens')].kind = "success"
      BY <1>4, <2>1
    <2>3. tokens' \in Seq(Token) /\ Protocol!Grows(tokens')
      BY <1>3, <1>5, Grown
    <2> QED
      BY <1>5, <1>6, <2>2, <2>3 DEF Protocol!Observe
  <1>7. CASE pc' = "ended" /\ retryCount' = retryCount
    BY <1>3, <1>5, <1>7, ExtendProtocol DEF Running
  <1> QED
    BY <1>5, <1>6, <1>7

(* A rollback is a rewind: its anchor lies behind the prompt and before the *)
(* closing tag, which is the last token.                                    *)
LEMMA RewindProtocol ==
  ASSUME IInv, BoundaryInv, Rollback
  PROVE  Protocol!Rewind
  <1>1. PICK from \in RollbackPositions, n \in ObservationLengths :
          /\ RollingBack(from) /\ ~ Refused(from)
          /\ Inject(from, Observation(n))
    BY DEF Rollback
  <1> DEFINE batch == Observation(n)
  <1>2. n \in Nat /\ n # 0
    BY Limits
  <1>3. /\ pc = "executing" /\ promptEnd' = promptEnd /\ retryCount' = retryCount + 1
        /\ retryCount + 1 <= MaxRollbackRetries
        /\ from \in promptEnd .. Len(tokens) /\ from \in Nat
    BY <1>1, RollingBackFacts
  <1>4. retryCount < MaxRollbackRetries
    BY <1>3, Counters, Limits DEF IInv
  <1>5. from \in promptEnd .. Len(tokens) - 1
    BY <1>1, <1>3, Whole DEF Refused, RangeEmpty, IInv, TypeOK
  <1>6. from \in 0 .. Len(tokens)
    BY <1>3, Whole
  <1>7. /\ Kept(from) \in Seq(Token) /\ Len(Kept(from)) = from
        /\ Kept(from) = SubSeq(tokens, 1, from)
    BY <1>6, Cutting DEF IInv, Kept
  <1>8. batch \in Seq(Token) /\ Len(batch) = n
    BY <1>2, ObservationOfRun DEF IInv, OfRun
  <1>9. \A i \in 1 .. n : batch[i].kind = "error"
    BY DEF Observation
  <1>10. tokens' = Kept(from) \o batch
    BY <1>1 DEF Inject
  <1> HIDE DEF batch
  <1> DEFINE k == Kept(from)
  <1>11. k \in Seq(Token) /\ Len(k) = from /\ k = SubSeq(tokens, 1, from) /\ tokens' = k \o batch
    BY <1>7, <1>10
  <1> HIDE DEF k
  <1>12. /\ tokens' \in Seq(Token) /\ Len(tokens') = from + n
         /\ \A i \in 1 .. from : tokens'[i] = k[i]
         /\ \A i \in 1 .. n : tokens'[from + i] = batch[i]
    BY <1>8, <1>11, Concatenation
  <1>13. SubSeq(tokens', 1, from) = SubSeq(tokens, 1, from)
    <2>1. from \in 0 .. Len(tokens')
      BY <1>2, <1>3, <1>12
    <2>2. /\ SubSeq(tokens', 1, from) \in Seq(Token) /\ Len(SubSeq(tokens', 1, from)) = from
          /\ \A i \in 1 .. from : SubSeq(tokens', 1, from)[i] = tokens'[i]
      BY <1>12, <2>1, Front
    <2>3. SubSeq(tokens', 1, from) = k
      BY <1>11, <1>12, <2>2
    <2> QED
      BY <1>11, <2>3
  <1>14. \A i \in from + 1 .. Len(tokens') : tokens'[i].kind = "error"
    <2> SUFFICES ASSUME NEW i \in from + 1 .. Len(tokens') PROVE tokens'[i].kind = "error"
      OBVIOUS
    <2>1. PICK j \in 1 .. n : i = from + j
      <3>1. i - from \in 1 .. n /\ i = from + (i - from)
        BY <1>2, <1>3, <1>12
      <3> QED
        BY <3>1
    <2> QED
      BY <1>9, <1>12, <2>1
  <1>15. Len(tokens') > from
    BY <1>2, <1>3, <1>12
  <1>16. pc' = "top"
    BY DEF Rollback
  <1>17. tokens # <<>> /\ tokens[Len(tokens)].kind = "close"
    BY <1>3 DEF BoundaryInv
  <1>18. \E f \in promptEnd .. Len(tokens) - 1 :
           /\ tokens' \in Seq(Token)
           /\ Len(tokens') > f
           /\ SubSeq(tokens', 1, f) = SubSeq(tokens, 1, f)
           /\ \A i \in f + 1 .. Len(tokens') : tokens'[i].kind = "error"
    BY <1>5, <1>12, <1>13, <1>14, <1>15
  <1> QED
    BY <1>3, <1>4, <1>16, <1>17, <1>18 DEF Protocol!Rewind

LEMMA FailedProtocol ==
  ASSUME IInv, FailureNotTokenised \/ RollbackRefused \/ EraseFails \/ InjectFails
  PROVE  Protocol!Over
  <1>1. PICK from \in RollbackPositions :
          /\ RollingBack(from)
          /\ \/ tokens' = tokens
             \/ ~ Refused(from) /\ tokens' = Kept(from)
    BY DEF FailureNotTokenised, RollbackRefused, EraseFails, InjectFails
  <1>2. /\ pc = "executing" /\ pc' = "ended" /\ promptEnd' = promptEnd
        /\ retryCount' = retryCount + 1
    BY <1>1, RollingBackFacts
    DEF FailureNotTokenised, RollbackRefused, EraseFails, InjectFails, End
  <1>3. CASE tokens' = tokens
    BY <1>2, <1>3, EndsProtocol DEF Running
  <1>4. CASE ~ Refused(from) /\ tokens' = Kept(from)
    <2>1. from \in promptEnd .. Len(tokens)
      BY <1>1, <1>4, RollingBackFacts
    <2> QED
      BY <1>2, <1>4, <2>1, OverProtocol DEF Running, Kept
  <1> QED
    BY <1>1, <1>3, <1>4

LEMMA NextProtocol == IInv /\ BoundaryInv /\ [Next]_vars => [Protocol!Next]_(Protocol!vars)
  <1> SUFFICES ASSUME IInv, BoundaryInv, [Next]_vars
               PROVE  Protocol!Next \/ UNCHANGED Protocol!vars
    OBVIOUS
  <1>1. CASE StartRun \/ PromptNotTokenised
    BY <1>1, BeginProtocol, RefusedProtocol DEF Protocol!Next
  <1>2. CASE Prefill \/ Cancel \/ CleanupSeq \/ StartPass \/ AskForToken
    BY <1>2, SameTextProtocol
    DEF Prefill, Cancel, CleanupSeq, StartPass, AskForToken, stateVars, loopVars, Running
  <1>3. CASE \/ PrefillFails \/ GenerationFails
             \/ ExecutorFails \/ ExecutorPanics \/ SuccessNotTokenised
    BY <1>3, EndsProtocol
    DEF PrefillFails, GenerationFails, ExecutorFails, ExecutorPanics, SuccessNotTokenised,
        Abort, End, stateVars, loopVars, Running, Protocol!Next
  <1>4. CASE StopGenerating
    BY <1>4, EndsProtocol DEF StopGenerating, Finish, End, stateVars, Running, Protocol!Next
  <1>5. CASE GenerateToken
    <2>1. PICK kind \in {"text", "open"}, width \in Widths : Push(kind, width)
      BY <1>5 DEF GenerateToken
    <2> QED
      BY <1>5, <2>1, PushProtocol DEF GenerateToken, TokenKind, Protocol!Next
  <1>6. CASE ActionBoundary
    BY <1>6, PushProtocol DEF ActionBoundary, TokenKind, Protocol!Next
  <1>7. CASE EndOfSequence
    BY <1>7, EndOfSequenceProtocol DEF Protocol!Next
  <1>8. CASE ActionSucceeds
    BY <1>8, ObserveProtocol DEF Protocol!Next
  <1>9. CASE RetriesExhausted \/ Panics
    BY <1>9, EndsProtocol DEF RetriesExhausted, Panics, End, stateVars, Running, Protocol!Next
  <1>10. CASE FailureNotTokenised \/ RollbackRefused \/ EraseFails \/ InjectFails
    BY <1>10, FailedProtocol DEF Protocol!Next
  <1>11. CASE Rollback
    BY <1>11, RewindProtocol DEF Protocol!Next
  <1>12. CASE UNCHANGED vars
    BY <1>12, SameTextProtocol DEF vars, stateVars, loopVars, Running
  <1> QED
    BY <1>1, <1>2, <1>3, <1>4, <1>5, <1>6, <1>7, <1>8, <1>9, <1>10, <1>11, <1>12 DEF Next

(* run_streaming with its cache, positions, cancel flag and half-way errors *)
(* is an implementation of the rollback protocol: between the prompt and    *)
(* the end of a run text is only appended, or rewound right after an action *)
(* to an anchor behind the prompt, at most max_rollback_retries times in a  *)
(* row (engine.rs:141-375).                                                 *)
THEOREM LoopImplementsProtocol == Spec => ImplementsTimeTravel
  <1>1. Init => Protocol!Init
    BY DEF Init, Protocol!Init
  <1>2. Init => CoverInv
    BY DEF Init, CoverInv, BoundaryInv, CacheCovers, Active
  <1>3. CoverInv => BoundaryInv
    BY DEF CoverInv
  <1>4. Spec => [](IInv /\ CoverInv)
    BY <1>2, NextCover, Invariance, PTL DEF Spec
  <1> QED
    BY <1>1, <1>3, <1>4, NextProtocol, PTL DEF Spec, ImplementsTimeTravel, Protocol!Spec
=============================================================================
