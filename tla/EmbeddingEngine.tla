--------------------------- MODULE EmbeddingEngine ---------------------------
(***************************************************************************)
(* embedding/engine.rs: one VoyageNanoEngine shared by the tasks of a      *)
(* process.  The session needs &mut self, so a mutex guards it, and a      *)
(* panic while the guard is held poisons the mutex for the process.        *)
(* Vectors are short sequences of integers along one axis, on which        *)
(* normalising is exact; the rounding to int8 is left out.                 *)
(***************************************************************************)
EXTENDS Integers, SequencesExt

CONSTANTS Task,      \* the tasks that share the engine
          Outputs,   \* what the model may answer: [pooled, shape, data]
          Tokens     \* lengths of a tokenised text, after truncation to max_length

ASSUME TaskAssumption == Task \cap {"free", "poisoned"} = {}

VARIABLES
    pc,       \* what each task does
    dim,      \* the configured mrl_dimension
    session   \* who holds the mutex: a task, "free" or "poisoned"

EmbeddingInit ==
    /\ pc = [t \in Task |-> "free"]
    /\ session = "free"

-----------------------------------------------------------------------------
(***************************************************************************)
(* What embed_raw() makes of an answer.  With a second output it takes the *)
(* pooled vector as long as its shape says; without one it pools the first *)
(* output, of shape <<1, tokens, hidden>>, itself.                         *)
(***************************************************************************)

hidden_dim(out) ==
    IF ~out.pooled THEN out.shape[3]
    ELSE IF Len(out.shape) >= 2 THEN out.shape[2] ELSE Len(out.data)

\* An index or a slice beyond the data panics.
Panics(out, seq_len) ==
    IF out.pooled THEN hidden_dim(out) > Len(out.data)
    ELSE Len(out.shape) < 3 \/ seq_len * hidden_dim(out) > Len(out.data)

\* The mean over the tokens, up to a factor that normalising removes.
full_embedding(out, seq_len) ==
    IF out.pooled THEN SubSeq(out.data, 1, hidden_dim(out))
    ELSE [d \in 1 .. hidden_dim(out) |->
             FoldFunction(+, 0, [t \in 1 .. seq_len |-> out.data[(t - 1) * hidden_dim(out) + d]])]

TooShort(out, seq_len) == Len(full_embedding(out, seq_len)) < dim

\* l2_normalize() leaves the zero vector as it is.
l2_normalize(v) == [d \in DOMAIN v |-> IF v[d] > 0 THEN 1 ELSE IF v[d] < 0 THEN -1 ELSE 0]

Embedding(out, seq_len) == l2_normalize(SubSeq(full_embedding(out, seq_len), 1, dim))

Succeeds(out, seq_len) == ~Panics(out, seq_len) /\ ~TooShort(out, seq_len)

-----------------------------------------------------------------------------
(***************************************************************************)
(* One call of embed_query() or embed_document().                          *)
(***************************************************************************)

Goto(t, label) == pc' = [pc EXCEPT ![t] = label]

Embed(t) ==
    /\ pc[t] = "free"
    /\ Goto(t, "locking")
    /\ UNCHANGED session

Lock(t) ==
    /\ pc[t] = "locking"
    /\ session = "free"
    /\ session' = t
    /\ Goto(t, "running")

\* lock().unwrap() on a poisoned mutex.
LockPanics(t) ==
    /\ pc[t] = "locking"
    /\ session = "poisoned"
    /\ Goto(t, "panicked")
    /\ UNCHANGED session

\* The session or the extraction of a tensor returns an error.
RunFails(t) ==
    /\ pc[t] = "running"
    /\ session' = "free"
    /\ Goto(t, "free")

\* Mutant: the vector is cut to size under the lock.
MutantExtract(t, out, seq_len) ==
    /\ pc[t] = "running"
    /\ IF ~Succeeds(out, seq_len)
       THEN session' = "poisoned" /\ Goto(t, "panicked")
       ELSE session' = "free" /\ Goto(t, "free")

\* A malformed answer panics under the lock; after any other the lock is
\* released, and the call returns a vector, or an error if it is too short.
Extract(t, out, seq_len) ==
    /\ pc[t] = "running"
    /\ IF Panics(out, seq_len)
       THEN session' = "poisoned" /\ Goto(t, "panicked")
       ELSE session' = "free" /\ Goto(t, "free")
=============================================================================
