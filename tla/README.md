# TLA+ specifications of imece-core

`imece-core` is a Rust library that runs language-model agents on local
hardware: a swarm of agents that talk over a bus and can interrupt each other,
an inference loop that executes what the model asks for and rewinds the
model's KV cache when an execution fails, sandboxed executors, quality gates of
rising cost, and a memory of vectors, chained in memory or stored on disk. This
directory holds TLA+ models of its stateful parts, the TLC configurations that
check them, and proofs, checked by TLAPS, of the properties that should hold for
every instance.

Paths below are relative to the crate's `src/` directory.

- [Running the checks](#running-the-checks)
- [1. Inventory of the system](#1-inventory-of-the-system)
- [2. Modules](#2-modules)
- [3. Runs: bounds and what they show](#3-runs-bounds-and-what-they-show)
- [4. Where the code differs from its documentation](#4-where-the-code-differs-from-its-documentation)
- [5. Fairness](#5-fairness)
- [6. Proofs](#6-proofs)
- [7. What is not modelled](#7-what-is-not-modelled)
- [8. Plan](#8-plan)

## Running the checks

    tlc -workers 2 -config InferenceSafety.cfg MCInferenceEngine
    tlapm InferenceProofs.tla

`PROJECT.json` lists every run with its module and configuration, every
theorem, the source lines each definition stands for, and for each checked
property a *mutant*: a definition `Mutant...` that replaces the one it is named
after with a plausible mistake, under which TLC finds the property violated.

## 1. Inventory of the system

### Agent event loop and handle (`actor/agent.rs`)

*State.* Per agent a tokio task with two bounded channels (inbox, and a signal
channel of 16), a shared bounded outbox, a cancel token
(`Arc<AtomicBool>`), `deferred_signals` and `should_shutdown`.

*Operations.* `spawn_agent`: while idle, a biased `select!` that looks at
signals first; while `handle_message` runs, another biased `select!` that races
it against the signal channel, defers each signal and sets the token for a
control signal; then the response is sent and the deferred signals are handled
in order. `AgentHandle::send`, `interrupt`, `halt`; dropping a handle closes
first the inbox, then the signal channel.

*Hard.* Signals that arrive at any moment of a message's life; a token that the
handler itself resets; a closed channel that is always ready; blocking on a full
outbox; an outbox closed under a response, with signals still deferred; a decision to stop taken in one phase and honoured in another.

*Correct when* no message is handled after `shutdown()`, no signal is lost,
reordered or handled in the middle of a message, a cancellation stays visible
until the handler returns, and a halt ends the task.

### Swarm engine (`actor/engine.rs`)

*State.* The map of handles, the outbox receiver and one sender of its own, the
metrics `messages_routed` and `active_agents`.

*Operations.* `spawn`, `send_to`, `run` (receive an envelope; forward an
interrupt or a halt; deliver a message; broadcast; on a shutdown
`shutdown_all`), `prune_dead_agents`.

*Interaction.* The router sends into the agents' bounded channels and is the
only one to drain the outbox they send into. It is one task: while it waits for
room in a channel it serves nobody.

*Correct when* agents see the bus's messages in one order, an alarm gets
through, nobody is cut off without a halt, the registry holds exactly who it
should, and `run` returns when it says it does.

### Inference engine and KV cache controller (`inference/engine.rs`, `kv_cache.rs`, `types.rs`, `executor.rs`)

*State.* `GenerationState` (tokens, prompt end, cache position), the retry
counter, the failure history per position, the cancel flag, the controller's
telemetry, the tracked sequence length of `LlamaCppKvCache`, and, behind the
FFI, the entries of the llama.cpp cache.

*Operations.* `run_streaming`: prefill the prompt; generate until a stop
sequence; extract an action; execute it; on success append and prefill the
observation; on failure or timeout record it and
`KvCacheController::rollback`: check the range, erase, cut the buffer, inject
the observation. `cleanup_seq` between runs.

*Hard.* Three descriptions of the same text (buffer, cache, tracked length) that
are changed one after another with an error return between any two; positions,
byte offsets and offsets in a pass, all `usize`; a retry counter changed in
three branches; a flag that another thread sets at any time.

*Correct when* the prompt survives every rollback, no erased token is attended
to again, everything before the token being sampled is in the cache, the
retries are exact, telemetry accounts for every token and a cancellation is
prompt.

### Executors (`inference/sandbox_executor.rs`, `executor.rs`)

*State.* `ResilientExecutor`: the optional namespace sandbox chosen by a probe
at construction, and the isolation level, an atomic that only goes down. Outside
it: the kernel's policy and the child processes.

*Operations.* `execute` of the three executors: spawn, wait with a timeout,
collect the result; after a permission error, downgrade and run unsandboxed.

*Hard.* Concurrent executions that read the level before somebody else's
downgrade; a fallback that must not run code a second time; a kernel policy
that changes under a cached probe; children that outlive their execution; output
that is cut at a byte which need not be the end of a character.

*Correct when* code is started at most once per execution, nothing runs
unisolated while the level claims a sandbox, and no execution waits for ever.

### llama.cpp backend (`inference/backend.rs`)

*State.* `BACKEND_REFCOUNT`, model and context pointers shared by `Arc`,
`decode_lock`, the sampler; llama.cpp's globals and the context's logits.

*Operations.* `load` and `Drop`; `decode_batch`, `generate_next_sync`,
`evaluate_tokens_sync`, wrapped by `spawn_blocking`; `seq_rm` and
`inject_tokens` of the cache manager, on the caller's thread.

*Hard.* Counting and initialising are two steps; dropping a future leaves its
blocking job running; logits belong to the context, not to the call; not every
entry into llama.cpp takes the lock.

*Correct when* llama.cpp is initialised as long as a backend uses it and freed
after the last, one thread is inside it at a time, and a token is sampled from
its own logits.

### Escalation pipeline (`actor/escalation.rs`)

*State.* The list of stages, fixed once evaluation begins; per call of
`evaluate` the hints for the next stage.

*Operations.* `add_stage`, which consumes the pipeline, and `evaluate`: consult
one stage after the other with the hints of the one before; `Pass` and `Fail`
return at once, `Uncertain` goes on with the hints of its context; after the
last stage a conservative pass.

*Hard.* Hints are replaced, not added to, so what a late stage knows depends on
every stage in between; an evaluation may be dropped half-way by the agent's
`select!`, and the pipeline used again.

*Correct when* the first definitive verdict is the result and nobody is asked
after it, a stage sees only hints about the content it reviews, and hints
accumulate where every stage repeats them.

### Memory chain and in-memory store (`memory/chain.rs`, `memory/store.rs`)

*State.* The store's nodes in insertion order; the loops' pool, chain, running
centroid and last score.

*Operations.* `insert`, `insert_batch` (node by node, up to the first that does
not fit), `top_k`; `evolve` and `evolve_with_diagnostics`, the same greedy loop
written out twice: pick the candidate with the best product of relevance and
coherence, stop when the score falls below `beta` times the one before.

*Hard.* `swap_remove` reorders the pool while ties go to the first; the centroid
is kept incrementally; a product of cosines is high for two negative ones; two
copies of a loop that must not drift apart.

*Correct when* every chosen node was the best of what was left, the chain ends
for one of its three reasons, both functions agree, and the chain starts where a
search would.

### Persistent store (`memory/lance_store.rs`)

*State.* A directory with at most one table of rows of one vector dimension; a
handle per `new`.

*Operations.* `new` (list the tables, then open or create), `insert`,
`insert_batch`, `delete`, `clear`, `create_index`, `all_nodes`, `top_k` by
distance with the excluded ids filtered out afterwards.

*Hard.* Two requests where one is meant; requests whose answer is lost; a table
that outlives the process and its configuration; embeddings laid end to end in
one column and cut again; another measure than the in-memory store's.

*Correct when* acknowledged nodes are kept, unchanged, through crashes and
retries, the rows change by whole batches, and both stores offer a chain the same
candidates.

### Embedding engine (`embedding/engine.rs`, `backend.rs`)

*State.* An ONNX session behind a mutex, shared by the tasks of a process.

*Operations.* `embed_query`, `embed_document`: tokenise, lock, run, take the
pooled vector or pool one, cut to the configured dimension, normalise.

*Hard.* What the model answers is trusted in part: an unexpected shape is an
error in some places and an index out of bounds in others, and the latter happens
under the mutex.

*Correct when* one task at a time runs the session, and nobody panics unless the
model's answer was malformed.

### Actor types, inference types, FFI, build script

Data types, parsers, declarations and a build step.

## 2. Modules

| module | models | extends |
|---|---|---|
| `AgentLoop` | `spawn_agent`: the steps of every agent's task | |
| `AgentContract` | what the loop promises its callers (abstract) | |
| `AgentHost` | agents driven by the owner of their handles; refinement of `AgentContract` | `AgentLoop` |
| `SwarmEngine` | the agents and the router of `SwarmEngine` | `AgentLoop` |
| `InferenceEngine` | `run_streaming`, `KvCacheController`, `LlamaCppKvCache` over the llama.cpp cache | |
| `TimeTravel` | what rollback promises about the text (abstract) | |
| `ResilientExecutor` | the three executors, their callers and children | |
| `LlamaBackend` | one backend shared by engines: jobs, lock, logits, ownership | |
| `BackendRefcount` | `load`, `Drop` and `BACKEND_REFCOUNT` | |
| `EscalationPipeline` | the pipeline and its stages, evaluated again and again | |
| `Arrangement` | what a sort leaves: a set, one member after the other | |
| `MemoryStore` | the in-memory store and its arithmetic | `Arrangement` |
| `DmceEngine` | `evolve` and `evolve_with_diagnostics` over that store | `MemoryStore` |
| `VectorSearch` | the persistent store's `top_k`, as a set of possible answers | `Arrangement` |
| `StoreSwap` | the two stores side by side under one chain | `DmceEngine`, `VectorSearch` |
| `EmbeddingEngine` | the session's mutex and what is made of the model's answer | |
| `LanceStore` | handles of several tasks on one database directory | |
| `MemoryService` | tasks that embed and store, and a process that crashes | `EmbeddingEngine`, instance of `LanceStore` |
| `MCAgentHost`, `MCSwarmEngine`, `MCInferenceEngine`, `MCResilientExecutor`, `MCDmceEngine` (of `StoreSwap`), `MCMemoryService` | values of the constants for TLC | the module they are named after |
| `MCGates` | the executors or the pipeline, whichever is `explored` | `MCResilientExecutor`, `EscalationPipeline` |
| `MCBackend` | the shared backend or the reference count, whichever is `explored` | `LlamaBackend`, `BackendRefcount` |
| `AgentLoopProofs`, `AgentHostProofs`, `SwarmProofs`, `InferenceProofs` | proofs | the module they are about, `TLAPS` |
| `ExecutorProofs` | proofs | `ResilientExecutor`, `EscalationPipeline`, `TLAPS` |
| `LlamaBackendProofs` | proofs | `LlamaBackend`, `BackendRefcount`, `TLAPS` |
| `MemoryProofs` | proofs | `MemoryService`, `TLAPS` |
| `DmceProofs` | proofs | `StoreSwap`, `TLAPS` |

### AgentLoop, AgentHost and SwarmEngine

A step is what a task does between two awaits; tasks interleave at awaits. `pc`
names the await a task is at: `idle`, `accepted` (the message has left the inbox,
its future has not been polled), `working`, `responding`, `draining`, the two
waits for room of an interrupt's answer, `exited`. Each variable is the local or
the channel its comment names; `acted`, `done`, `halted`, `unseen` and `routed`
are history. `handle_message` is the cooperative one of the module's own tests
(`SlowAgent`): it clears the token when first polled, works in units and looks at
the token between them. A handler may answer with any envelope of `Replies` or
with none.

`AgentHost` closes the system with a caller that sends, interrupts, halts,
drains the outbox and drops handles and outbox as it likes. `SwarmEngine` closes
it with the router; `epc` names the router's await. Broadcast and `shutdown_all`
visit a `HashMap`: any order, one agent at a time, waiting for room each time.
The engine may be dropped after `run`, before it, or with `run`'s future at one of
its awaits (`DropEarly`): then no halt is sent, the handles go one by one and the
outbox's receiver last. `HaltBeforeDrop` is about the shutdown, not about that.

A task's exit and `JoinHandle::is_finished` are one moment: the few
instructions between them change nothing anybody waits for.

`AgentContract` has one queue of messages, one of signals and no channels,
deferral or polling. The refinement maps the pending signals to
`deferred \o signals`: moving a signal from the channel to `deferred_signals` is
a stutter, and acting on the signals in any other order, or losing one, is no
step of the contract.

### InferenceEngine and TimeTravel

A step is what `run_streaming` does between two awaits of the backend or the
executor; the cancel flag may be set between any two. A token is a record of its
kind (prompt, text, the opening and the closing tag of an action, an
observation of success or error), the run and the *era* (the number of rollbacks
so far): tokens that occupied one position at different times differ, which
is what lets `NoStaleCells` see a cache entry that outlived its token. `cells`
is the external llama.cpp cache of sequence 0: `llama_decode` puts entries at
the positions it is given, or fails. It is modelled permissively: it accepts any
positions below `n_ctx`, whatever they held before.

Text is abstracted to the number of bytes of each token (`Widths`), because
`extract_action` computes the anchor from bytes; `pass` keeps the position that
the anchor should have next to the one it has. What an executor answers is any
of success, failure with or without a hint from `Hints`, timeout and error.
`Manager` selects what `seq_len` says: the length `LlamaCppKvCache` tracks, or
the unbounded length of the mock the engine's tests use. Every error return of
`rollback`, the panics of `text_range` beyond the buffer and of the executor, and the error
returns of `tokenize` for the prompt and for each observation
(`PromptNotTokenised`, `SuccessNotTokenised`, `FailureNotTokenised`) are actions of
their own; `InjectFails` leaves cache and buffer cut. The prompt is tokenised before
anything of the run is set up, an observation after its action was executed.

`TimeTravel` is the promise about the text alone: it grows, or, right after an
action, it is rewound in one step to an anchor behind the prompt and continues
with an error observation, at most `Limit` times without a success.

### ResilientExecutor

Callers are concurrent tasks. `pc` distinguishes the awaits of `execute` and the
moments at which another caller's downgrade can come between reading the level
and acting on it. A child is a record of its caller, its execution, whether it is
isolated and whether it reached the action's code; a refused `unshare` is a
child that never does. The kernel's policy is external and changes at most
`MaxChanges` times. Errors before or at the spawn that have nothing to do with
permissions are `Fails`. It is assumed that the text of a failed wait never
speaks of permissions. Output that the code of an action wrote may be longer than
8 KB and end, at the cut, inside a character: `truncate` then panics, and the
caller's task with it (`TruncatePanics`). A tokio `Child` dropped without `kill_on_drop` is
not killed, so a child whose execution is over stays until it ends by itself.

### LlamaBackend and BackendRefcount

Every call into llama.cpp is two steps, entering and leaving, so calls of
different threads can overlap. A job is one `spawn_blocking` closure; it holds a
clone of the `Arc` until it returns, also when its future was dropped. `Inside`
is who is in llama.cpp: the jobs that decode or sample, and the engine's thread that
erases or injects. Injecting is a decode that does not take the lock. A poisoned lock is left out: nothing panics while it is
held.

In `LlamaBackend` `abandoned` is history: the jobs whose future was dropped.
`OneInsidePerEngine` and `LogitsMixed` say what an engine that awaits its calls
may count on although neither sampling nor the cache manager takes the lock.

In `BackendRefcount` a slot is a place in the program that loads and drops a
backend. `overlapped` is history: a load or a drop has begun while another was
under way. The code does not prevent it, and `UpWhileUsed` says what holds until
it happens.

### EscalationPipeline

A stage is external: it may give any verdict, and the context of an uncertain one
is one of the four kinds the pipeline could tell apart (empty, a hint of its own,
what it was given, both). An evaluation's number stands for its content. `Drop`
is what an agent's `select!` does to a handler that awaits a stage; the
pipeline is then evaluated again. `answers` is history.

### Arrangement, MemoryStore, DmceEngine, VectorSearch, StoreSwap

A node is an id and an embedding. Embeddings are short vectors of integers and
arithmetic is exact: a product of cosines is kept as the fraction
`sign(x) * x^2`, which products and comparisons respect, so no root is taken. The
threshold below which the code takes a norm for zero is zero here. The centroid
is a positive multiple of the mean, which no cosine sees. `Best` and `SwapRemove`
follow the code's order; `ChainSound` is stated without either, from the score as
the file's header defines it.

Each iteration of a loop is a step, although the code runs it without an await:
nobody else has the store, so the steps only make the loops' states visible.
`engine` gives each of the two calls an engine of its own, which is how
`DiagnosticsAgree` can compare what a greater `beta` or a shorter limit does.

The sort of `top_k` and the order of the rows that a filter leaves are one
operator, `Arranged`: at place `k` stands the member of the set that `k - 1` others
come before. A stable sort of distinct places by a key and then by place leaves
just that, and it needs no recursion to say.

`VectorSearch` is a function, not a state machine: LanceDB's scan orders by
distance and leaves ties open, so a search has a set of answers. `Unexcluded` is
what the store then makes of the rows found. A limit of 0 is sent as it is
(lance_store.rs:383) and LanceDB may refuse it, so `SearchAgrees` starts at 1. `StoreSwap` compares the answers with
those of the in-memory `top_k`.

### EmbeddingEngine, LanceStore, MemoryService

The library leaves it to its user to put these together, so `MemoryService` does
what any user must: tasks embed texts, or bring vectors from elsewhere, and
insert nodes, one thing at a time; a task that did not hear of its insertion may
insert again. `Restart` loses everything but `table`, and the new process may be
configured with another dimension.

`LanceStore` takes LanceDB as external: a table is created once, an append is one
commit and is refused if its schema is not the table's, and every request sees the
last commit. The last is an assumption: `new` connects without a
`read_consistency_interval` (lance_store.rs:143), and a handle that reads an older
version would search, list or delete without the rows another handle added since.
Creating a table may succeed without its answer arriving (`CreateTable`). Each async call is a request and its answer; `GiveUp` is an error, a lost
answer or a dropped future, before or after the commit. The check of the node's
dimensions, the conversion into columns and back, and the role's code are
modelled by what they do.

`EmbeddingEngine` takes the model as external: `Outputs` has an answer with and
without a pooled vector, too short, and malformed in each way `embed_raw` trusts
not to occur. A panic under the guard poisons the mutex. Vectors are normalised
along one axis only, where that is exact.

## 3. Runs: bounds and what they show

All configurations but `ChainRuns` say `CHECK_DEADLOCK FALSE`: these systems
legitimately come to rest, when every agent has exited, the engine has stopped,
every execution has returned, or the budget of envelopes, runs, actions, calls,
loads, evaluations or nodes is spent. Where not stopping matters it is a liveness
property, not a deadlock check. In `ChainRuns` a caller can always ask again.

| run | bounds | shows |
|---|---|---|
| `AgentHostRuns` | 1 agent, 4 envelopes of any kind, inbox and signal channel 2, outbox 1, 2 work units, handles and outbox may be dropped; fair | types and capacities, `NoWorkAfterShutdown`, `CancelAfterStart`, refinement of `AgentContract`; while the handle lives every control signal is acted on (`SignalsActedOn`) and every halt ends the task (`HaltEnds`) |
| `SwarmSafety` | 2 agents, 4 envelopes, every kind of signal and broadcast, engine may be dropped at any moment | `BusOrder`, `HaltBeforeDrop`, `RegistryKept` |
| `SwarmBackpressure` | 2 agents with inbox, signal channel and outbox of 1, 7 envelopes, from a loaded swarm; fair | every interrupt on the bus reaches its target, which acts on it or ends, unless router and agent wait for room in each other's channels (`InterruptReachesOrWedged`) |
| `InferenceSafety` | two runs of one engine over `LlamaCppKvCache` that starts at 9, with and without `cleanup_seq` between; prompts of 2 tokens, observations of 1 or 2, hints 1 and 6, context 8, passes of 3 tokens, 2 retries, 3 actions in all | everything promised of a run, also of the second, and refinement of `TimeTravel` |
| `GateRuns` | executors: 2 callers, 2 executions each, 2 policy changes; fair | `UnisolatedIsAnnounced`, `StartedOnce`; a caller's spawns are denied at most once (`SpawnDeniedOnce`; not the refusals of `unshare` inside the child); only an execution that gave up leaves a process behind (`NoLeftover`); every execution ends, by returning or by a panic over its output (`ExecutionsEnd`) |
| | pipelines of up to 4 stages, 2 evaluations, either of which may be dropped | `DecidedByFirst`, `HintsOfThisReview`, and hints accumulate if every stage repeats them (`AccumulateIfCarried`) |
| `BackendRuns` | 2 engines, 2 calls each, futures may be dropped | the context outlives its users (`ContextOutlivesUse`); an engine that awaits its calls is inside llama.cpp once at a time (`OneInsidePerEngine`), and logits get mixed up only between engines or next to an abandoned call (`LogitsMixed`) |
| | 3 slots, 5 loads, any interleaving, loads may fail | the count covers every backend (`CountCovers`), only the last frees (`LastFrees`); until two overlap llama.cpp is up whenever it is used (`UpWhileUsed`) |
| `ChainRuns` | stores of up to 3 nodes out of 6 (one opposed to another, one zero, one of another dimension), 3 queries, every pair of 4 engines, a word of 8 | evolution is the greedy one and ends for a reason (`ChainSound`), both functions agree (`DiagnosticsAgree`), a chain `StartsAtMostSimilar`; for normalised vectors and a limit of at least one the stores are interchangeable (`SearchAgrees`) |
| `MemoryRuns` | 2 tasks, 2 nodes, 3 sendings, dimensions 1 and 2, 1 crash | `AckedKept` through crashes, lost answers and repetitions, `RowsChangeWhole`, and panics come from malformed answers only (`PanicsAccounted`) |

`GateRuns` and `BackendRuns` each explore two modules that share no variable:
a behaviour is one of the first or of the second, chosen at the start, as to
interleave them would add states and nothing else.

Why the bounds are enough for the cases that matter:

- *Agents.* Four envelopes and channels of two let a signal arrive before the
  first poll, during work, while the outbox is full and while deferred signals
  are being handled, in one behaviour, and let both channels fill. One agent
  suffices in `AgentHost`: agents share only the outbox there. Two in the swarm
  make the router block on one while the other waits.
- *Backpressure.* Four envelopes cannot fill an inbox and the outbox at once and
  still raise an alarm; seven can, with channels of one. `BusySpec` (in
  `MCSwarmEngine`) starts from a loaded swarm, where each agent has accepted one
  task and has another in its inbox. `SwarmEngine` reaches that state: the two agents
  are spawned, `send_to` puts a task into each inbox, the agents accept them,
  `send_to` puts a second one, and `run` is called. Starting there saves the
  interleavings of getting there, nothing else.
- *Inference.* Three actions and two retries give: failure, failure, failure
  (exhausted), and a success between failures (reset), in one run or divided
  over two. Observations of one and two tokens distinguish the empty prefill
  from a real one. Hint 1 lies in the prompt; hint 6 beyond the buffer, at its
  end or inside it, as the run goes on. A context of eight leaves room for two
  actions and is then full, so decoding fails for lack of room too; a tracked
  length of nine allows two rollbacks and refuses a later one. With passes of
  three tokens the tag of an action comes first, so the anchor of a pass is
  always the prompt's end; other positions to roll back to come from the hints.
  Anchors from wider tokens are the subject of `InferenceAnchorBytes`, where
  passes have four tokens of two bytes, and of the theorems, where the anchor is
  any number.
- *Executors.* Two callers are needed to overlap a downgrade; two executions
  each, to meet the level after it; two changes, to forbid and allow again.
- *Backend.* Two engines and two calls allow a job to be abandoned and its
  successor to overtake it. Three slots allow a load, a drop and a third
  party.

- *Escalation.* Four stages put two between a hint's giver and the stage that
  should see it; a second evaluation shows what the first, finished or dropped,
  leaves behind.
- *Chains.* Three nodes give a tie, a swap in the pool and a second comparison
  with the last score; a node may be inserted twice. Limits of two and three,
  retrieval of two and three, and `beta` of a half and one make each of the three
  ends of the loop come first. The word of eight is what makes limit plus
  exclusions overflow in a small instance; the code's has 64 bits.
- *Memory.* Two tasks race for the table's creation and for the session; three
  sendings of two nodes allow a batch and a repetition; one crash, with the
  dimension changed or not.

Sizes, in distinct states: `AgentHostRuns` 232 thousand, `SwarmSafety` 1.9 million,
`SwarmBackpressure` 74 thousand, `InferenceSafety` 5.8 million, `GateRuns` 121 thousand, `BackendRuns` 465 thousand, `ChainRuns` 45 thousand,
`MemoryRuns` 2.3 million. In `GateRuns` 729 are the pipeline's, in `BackendRuns`
1.6 thousand the reference count's.

Engines are interchangeable (no definition names one), so `BackendRuns` uses
symmetry; its action property is about the reference count, which has no engines. So
are the tasks of `MemoryRuns`; its action property quantifies over them and names none, and there is no temporal
operator but the box, so symmetry is sound there too. Agents are not
interchangeable in the swarm: replies name the worker and the reviewer. The other
runs with action or temporal properties use no symmetry.

The bounds on envelopes, actions, runs, calls, loads, stages, evaluations, nodes and
crashes are guards named `Max...` in the modules; the theorems of section 6 hold for all their values.

## 4. Where the code differs from its documentation

These runs check one statement each of a comment or of the documentation and end in a
counterexample; `PROJECT.json` quotes the statement. They are kept as
regressions: once the code is changed, the model follows and the run must
pass.

| run | property | what happens |
|---|---|---|
| `AgentHostClosedMidTask` | `TaskSurvivesClose` | a signal channel that closes while a message is handled makes the biased `select!` spin; the message is never polled again (agent.rs:337) |
| `SwarmInterruptLost` | `InterruptReaches` | the router waits for room in an inbox whose agent waits for room in the outbox: nobody moves, and the interrupt behind is not forwarded (actor/mod.rs:29, actor/engine.rs:196) |
| `InferenceAnchorBytes` | `AnchorIsTag` | the anchor is a byte offset used as a token position (types.rs:179, executor.rs:263) |
| `ExecutorTimeoutKills` | `TimeoutKills` | a timed-out child is not killed (sandbox_executor.rs:276) |

`InterruptReaches` is checked from the loaded swarm of `SwarmBackpressure`, with
one kind of alarm.

The modules state further sentences of the documentation that the code does not meet. They
have no run of their own; to see one fail, put the property in place of those of the
configuration, with the changes named. *Quiet* is `SwarmSafety` with
`SPECIFICATION FairSpec`, `MaxEnvelopes = 3` and `MayDropEngine = FALSE`; *bytes* is
`InferenceAnchorBytes`.

| property | configuration | what happens |
|---|---|---|
| `CancelSeen` | `AgentHostRuns` | a signal taken between accepting a message and its first poll sets a token that the handler then clears (agent.rs:244, 354) |
| `DeferredProcessed` | `AgentHostRuns` | when the response cannot be sent the loop leaves without handling the signals it deferred (agent.rs:246, 385) |
| `AlarmNotBehindData` | `SwarmInterruptLost` | an alarm waits behind data for the very agent it should halt (actor/mod.rs:29, actor/engine.rs:196) |
| `ShutdownEndsAll` | quiet | dropping handles detaches tasks; one that waits for room in the outbox is not aborted and never ends (actor/engine.rs:287) |
| `RunEnds` | quiet | `run` does not return when all agents have exited: the engine keeps a sender of its own outbox (actor/engine.rs:165) |
| `DeadForgotten` | quiet | an agent that has exited stays registered, and counted, until the next data message (actor/engine.rs:293, 304) |
| `CacheComplete` | bytes, `Widths <- OneOrTwo` | after a success the closing token of the action is never decoded (inference/engine.rs:50, 271) |
| `SuccessKept` | bytes, `Widths <- OneToken` | in later passes the anchor still counts from the prompt, so a rollback erases earlier successes (README.md:68, inference/engine.rs:231) |
| `TotalGenerated` | bytes, `Widths <- OneToken` | the total leaves out erased tokens (inference/engine.rs:604) |
| `ErrorsFeedRollback` | bytes | an executor's error ends the run instead of feeding a rollback (sandbox_executor.rs:691) |
| `SessionRollbacks` | `InferenceSafety` | a second session reports the first one's rollbacks (inference/engine.rs:596) |
| `FirstFailureOnly` | `InferenceSafety` | with a history of one, every failure counts as the first (inference/engine.rs:459) |
| `RollbackInBounds` | `InferenceSafety`, `InitialPosition = 0` | the tracked length does not grow with generation: wired as in the README, every rollback is refused (README.md:378, backend.rs:608) |
| `TruncatesOutput` | `ExecutorTimeoutKills` | output is cut at byte 8192; inside a character that is a panic (sandbox_executor.rs:49, 138, 141) |
| `SkipsDoomedUnshare` | `ExecutorTimeoutKills` | a refused `unshare` is an ordinary failure of a child; the level never goes down (sandbox_executor.rs:453, 677) |
| `UpWheneverUsed` | `BackendRuns` | a second load uses llama.cpp before the first has initialised it (backend.rs:167) |
| `DecodesExclusive` | `BackendRuns` | injecting an observation calls `llama_decode` without the lock, beside a job that has it (backend.rs:67, 649) |
| `OwnLogits` | `BackendRuns` | another engine's decode comes between decode and sample (backend.rs:71, 456) |
| `OneInside` | `BackendRuns` | the cache is erased without the lock while a job decodes (backend.rs:576, 704) |
| `HintsAccumulate` | `GateRuns` | the hints of a context replace those before: a stage that adds its own only makes earlier ones disappear (escalation.rs:8, 236) |
| `BothTermsHigh` | `ChainRuns` | a node that points away from the query scores as high as one that points towards it (chain.rs:230) |
| `LowerBetaShorter` | `ChainRuns` | the chain is cut where a score falls below `beta` times the last, so a *greater* `beta` gives the shorter chain (chain.rs:32, 86) |
| `ExclusionsCompensated` | `ChainRuns` | one extra row per excluded id is too few if a node was inserted twice (lance_store.rs:375) |
| `DistanceIsSimilarity` | `ChainRuns` | for vectors that are not normalised, distance and cosine rank differently (lance_store.rs:350) |
| `OpensEither` | `MemoryRuns` | of two tasks that found no table the second is refused instead of opening the first one's (lance_store.rs:140) |
| `HandleUsable` | `MemoryRuns` | a table made with another dimension is opened, and every insertion into it refused (lance_store.rs:142) |

Also, a failed load keeps its count (backend.rs:177), so that llama.cpp is never freed
again; this is why `UpWhileUsed` speaks of freeing only while no load has failed.

Several of the properties that hold were written to say what remains true
nevertheless: `CacheCovers` (the cache is complete but for such closing tags)
next to `CacheComplete`, `CancelAfterStart` next to `CancelSeen`,
`OneInsidePerEngine` and `LogitsMixed` next to `OneInside` and `OwnLogits`,
`UpWhileUsed` next to `UpWheneverUsed`, `AccumulateIfCarried` next to
`HintsAccumulate`, `StartsAtMostSimilar` next to `BothTermsHigh`, `SearchAgrees`
next to `ExclusionsCompensated` and `DistanceIsSimilarity`, `SpawnDeniedOnce` next
to `SkipsDoomedUnshare`, `ExecutionsEnd` next to `TruncatesOutput`, and
`InterruptReachesOrWedged` next to `InterruptReaches`: the wait of router and agent
for each other is the only way for an interrupt to get lost.

## 5. Fairness

- `AgentHost`, `SwarmEngine`: weak fairness of each agent's step and of the
  router's step: tokio polls every task that is ready. A `select!` is biased, so
  no fairness between its branches is assumed; it is the guards that say which
  branch is taken. In `AgentHost` the owner drains the outbox (weak fairness of
  `ReceiveResponse`); nothing obliges it to send or to drop. In `SwarmEngine` the
  owner does call `run`; nothing obliges anybody to send.
- `ResilientExecutor`: weak fairness of what a polled task does and of the
  timer, which becomes ready after its duration. Children owe nothing: one may
  hang for ever.
- The other modules are checked for safety only. Whether the model ever
  stops emitting tokens, a stage ever answers or a database ever replies is not a
  matter of this code. `SwarmSafety` is checked without fairness; its properties are
  about what no step may do.

## 6. Proofs

Every safety invariant and action property of section 3's passing runs, and both
refinements, are stated by a theorem here; only the liveness properties are not. Each
theorem is about the specification with all constants left open, under the
`ASSUME`s of its module. These say that bounds, dimensions and lengths are natural
numbers, positive where the code could not work otherwise, that what a caller may
bring is of the type the code gives it, and that different things have different
names (no agent is called `None`, no task like a state of the mutex, no engine like
a job). Of an engine of the chain they say that `beta` is not negative, as `new`
asserts in debug builds (chain.rs:107-110). TLC evaluates them in every run.

### AgentHostProofs (with the lemmas of AgentLoopProofs)

`AgentTypeOK` is inductive as it stands, as it ties `current` and `reply` to
`pc`; the lemma about the agents' steps makes no assumption on who drives them, so
that `SwarmProofs` uses it too. `ShutdownIsFinal` needs more: that a shutdown hook
which ran while draining left `shouldShutdown` set, so that the loop cannot go back
to idle. `CancelHolds` needs that nothing but the first poll clears the token and
that `unseen` is at most the number of deferred signals.

`HostImplementsContract` is the refinement of `AgentContract`, step by step: each
step of the loop, and each of the host, is one of the contract's or a stutter.
Two facts make it go through, named `TaskInv`: signals are deferred only in
the middle of a task, so that at idle the channel's first signal is the first one
pending; and an agent that is about to stop in the middle of a task was halted, let
go of, or has a halt among its deferred signals, which is what the contract asks for
at its end. That a hook already run is remembered, as `ShutdownIsFinal` says, serves
here too.

### SwarmProofs

`RouterInv` ties the router's locals to its await, and those of an engine that is
being dropped to the handles still to go: it holds an envelope exactly
while it serves somebody, `todo` is empty except in a broadcast, a shutdown or a drop, and
`active_agents` is the size of the registry. `RegistryIsKept` follows from it.
`WarnInv` strengthens `HaltBeforeDrop`: every agent that `shutdown_all` has passed
is `Warned`, which means ended, halted, or with a halt in its signals or deferred
signals. Every step of an agent keeps that: a halt moves from the channel to the
deferred ones to `halted`, and nothing takes it back.

`BusIsOrdered` is about the whole stream of an agent, the messages it has
handled, is handling and has in its inbox. `IdsInv` says where an id may be: it
waits in one reply or in one place of the outbox, is taken once, and reaches no
agent before that. `OrderInv` says that what the router took later comes later in
every stream, and that an agent which still awaits the envelope being routed
does not have it. Neither is inductive without the other.

### InferenceProofs

The invariant `IInv` is `TypeOK` with

- `PassInv`: an action is only executed after a tag was seen, so its anchor is
  a position. Without it a rollback from "no position" would be conceivable.
- `TextInv`: every token of the buffer is of the current run, and the buffer
  begins with the prompt.
- `CacheInv`: no entry is of a later run. This is what makes `StartRun`
  harmless although the cache is not cleared: all old entries are of earlier
  runs, and `NoStaleCells` speaks of entries of the current one. Together with
  `NoStaleCells` itself and the cached prompt.
- `RetryInv`: while a run is going, `retry_count` is the number of rollbacks
  since the last success; it is not at the moment the run gives up, where it is
  one more.

The action lemmas rest on one operator, `Rewrites(from, batch, entries)`: the
text is cut at a position behind the prompt, continued with tokens of the
run, and the cache, cut at the same position, gains only entries of the new
text. Decoding the last token, observing a success, a rollback and a rollback that
breaks off are all instances, and `RewrittenText` and `RewrittenCache` carry the
invariant over any of them. Proved from `IInv` alone: `TypeOK`,
`PromptCached`, `NoStaleCells`, `RetriesExact`. On top of it:

- `CancelBounds`, with `LateInv`: before the flag is set, and for as long as the
  token asked for before it has not arrived, nothing was late. One token and one
  action are all that can follow.
- `ErasedAccounted`, with `AccountInv`: a run has no outcome before its end, and
  what a step produces, injects and erases (`Counts`) changes the length of the text
  by just that. A rollback that breaks off ends the run, which is why the equation
  is claimed only until then.
- `CacheCovers`, with `BoundaryInv`: an action runs right after its closing tag. The
  tag is the one token not decoded when the observation is prefilled, so a success
  leaves a gap in the cache exactly there, and a rollback, whatever its anchor,
  leaves none that was not there before.
- `ImplementsTimeTravel`: with both invariants every step is an append, a rewind
  right after an action, the end of the run, or a stutter of `TimeTravel`.

### ExecutorProofs

The invariant says of each caller what it has been denied and has started at
each of its awaits (`CallerInv`), that the level never claims a sandbox there is
not (`ProbeInv`), and that no unisolated process exists under a level that
claims one. The latter is stable because the level only goes down. `ProcsInv`
adds that no process belongs to an execution its caller has not begun, so that a
new execution inherits none. Proved:
`UnisolatedIsAnnounced`, `StartedOnce`, `SpawnDeniedOnce` (of denials that the spawn
reports; the kernel's refusals of `unshare` are no part of it), `NoLeftover`.

The second half is about `EscalationPipeline`. While an evaluation goes on, every answer so far was uncertain, the hints at hand
are those the last one told, and both name this evaluation and a stage before the
next. Proved for pipelines of any length: `DecidedByFirst`, `HintsOfThisReview`,
`AccumulateIfCarried`.

### LlamaBackendProofs

`OwnerInv` is the heart: a job that has begun and not ended is the one its engine
awaits, or its future was dropped. With the type invariant's link between calls
and used jobs it follows that two unfinished jobs of one engine include an
abandoned one, hence what may stand between a decode and its sampling
(`LogitsInv`, `SampledInv`) and that an engine's thread and its jobs are in
llama.cpp one at a time. `FreedInv` says that a freed context has no holder, and
no step turns a non-holder into one; `ThreadInv` bounds the calls by what the
thread does. Proved: `ContextOutlivesUse`, `OneInsidePerEngine`,
`LogitsMixed`. That decodes exclude each other is no theorem: they do not
(`DecodesExclusive` in section 4).

The second half is about the reference count. `CountExact` equates the counter with
the cardinality of the slots that have counted themselves plus the failed loads;
from it follow `CountCovers` and, as an action property, `LastFrees`. `SerialInv`
says that until a load or a drop has overlapped another at most one slot is in the
middle of one, and ties `initialized` to the counter; `UpWithoutOverlap` follows
from both.

### MemoryProofs

`PanicsAccounted` with the types of `pc`, `session` and `malformed` is inductive:
who runs the model holds the session, so a malformed answer can only come while
nobody has met one, and `StoreStep` shows that nothing a task does with its store
touches either.

`AckedKept` compares what was acknowledged with what the table reads back. It is not
inductive, because between a request and its answer the two may differ. `CountInv`
says by how much: the copies of a node in the table, and those in batches
sent but not written, are together at most what was sent; and they are at least
what was acknowledged together with what was written and not yet heard of,
unless the node was removed. It needs `NodesInv` (a batch that is on its way holds
the process's own nodes, of its dimension, each at most once), `TableInv` (a handle
implies a table, and an absent table has no rows) and `StoreType`; and it needs
that a batch reads back as the nodes it was made of, although `nodes_to_batch` flattens
their embeddings into one column and cuts that up again (`RowsOfBatch`), which is
proved for any dimension. `RowsChangeWhole` is an action property over the
same invariant. Removing rows keeps the order of the others, so `delete` is
defined by the places that stay (`Without`), and the property asks for the same order
without that definition (`Erased`).

### DmceProofs

These are about numbers, sums, sorts and the chain, for vectors of any dimension and
a store of any size.

*Groundwork.* An induction is carried out with a set in place of a predicate: the
numbers for which a statement holds are closed under successor (`Induction`, from
the least member of a set of natural numbers). A fold over a function is defined as
a choice among the sums that satisfy its equation; `FoldIsSum` shows that there is
one, and that it is the sum to the last index (`SumTo`). From it come the dot
product's symmetry, sign and additivity. Numbers are fractions with positive
denominators; `Below` is a strict weak order on them (`BelowTransitive`,
`NotBelowTransitive`), which is what a sort and an argmax need. `ArrangedInOrder`
says that `Arranged` lists a set completely, in order and without repetition: the
number of members before a member is its rank, and ranks are injective into as many
places, hence onto. `GateIsScore` is the identity under the chain: the similarity to
the sum of the embeddings, which the code keeps, is the score of chain.rs:16
computed from the embeddings two by two.

*The chain.* `ChainInv` says of `evolve()`'s run that it is of its type and its
scores are not negative (`GoodRun`), that chain and pool together are the offer, each
node as often, that every node chosen had the best score of what was left and was not
below `beta` times the one before, and that the chain starts with the first best of
the offer (`Sound`); and once the loop has ended, that it ended for a reason
(`Ended`). `SwapRemove` moves the last candidate into the gap, so the invariant counts
occurrences instead of naming places. Proved: `ChainSound` and, because a square keeps
the order of numbers that are not negative, `StartsAtMostSimilar`.

*The two loops.* What a loop does next depends on the query and on the run so far
(`Advanced`); its engine only says where it stops (`Stops`). So both loops walk one
path of runs, if they start from as many candidates, and `LoopsInv` says how far each
has come, and that neither had a reason to stop before. Two that have both stopped
then differ at most in length, and not even in that when their engines are equal. This
much uses nothing about numbers. That a greater `beta` does not make the chain longer
does: with `ChainInv` the scores on the path are not negative, so the loop with the
smaller `beta` has no reason to stop where the other goes on. Proved:
`DiagnosticsAgree`.

*The two stores.* For unit vectors the squared distance is `|q|^2 + 1` less twice the
product, so the nearer row is not the less similar one (`NearerIsSimilar`). One
extra row for each exclusion is enough if no id is stored twice: the scan either takes
the whole table, or at most as many of its rows are excluded as there are exclusions
(`EnoughFound`). Both answers then list the most similar of the rows that are not
excluded (`TopList`), and two such lists agree at every place, by the pigeonhole
principle (`TopListsAgree`), although ties may put different rows there. Proved:
`SearchAgrees`.

### What is only model-checked

- Liveness under fairness (`SignalsActedOn`, `HaltEnds`,
  `InterruptReachesOrWedged`, `ExecutionsEnd`): out of the prover's reach, as is everything with `ENABLED`.
- The counterexamples of section 4: they are runs, not theorems.

The type invariant of `ResilientExecutor`, `BackendRefcount`, `LlamaBackend`,
`SwarmEngine` and `EscalationPipeline` is part of the inductive invariant proved for
the module and is not checked by a run of its own; that of `SwarmEngine` can be added to the invariants
of `SwarmSafety`.

## 7. What is not modelled

- The text of messages, observations and actions, attribute parsing and
  truncation, roles, timestamps, the unused `priority` of an envelope, the
  metrics other than `messages_routed` and `active_agents`, the
  `interrupt_handler` callback of the swarm engine (it changes no state of the
  engine), logging.
- A caller that drops the future of `run_streaming`. What a second run samples from
  when nobody called `cleanup_seq`: `NoStaleCells` is about the entries of the current
  run.
- `validate_rollback` and `clear_all` of the cache controller, which the engine
  does not call.
- Model loading parameters, samplers and GPU layers of the backend; the
  wording of cut output, interpreter tables and diagnostic texts of the executors.
- LanceDB, beyond what section 2 says of it: compaction, versions (a handle that reads
  an old one is excluded by assumption), its answer to a limit of 0, and the
  approximate answers of an index once `create_index` has made one. The
  in-memory variant of the persistent store and its temporary directory.
- Of the memory and the embeddings, what only floating-point arithmetic has:
  rounding, `EPSILON`, NaN, the int8 rounding of vectors. `ChainSound` and
  `SearchAgrees` are about exact numbers; a NaN would make the sort of `top_k`
  arbitrary (store.rs:154).
- Tokenising and truncation of texts, attention masks (taken to be all ones),
  batches of embeddings (a loop over single calls), configuration and its
  defaults, conversion of nodes to and from JSON.
- Issues, confidences, criteria and token budgets of the escalation stages: data
  of the stages, which the pipeline hands through.
- FFI declarations and the build script: no state.

## 8. Plan

Done, in this order: the agent loop and its contract; the host and the swarm;
the inference loop with its rollback and its abstract specification; the
executors; the backend's reference count and its shared context; the escalation
pipeline; the chain and the in-memory store, with the persistent store's search
beside it; the persistent store and the embedding engine under one service;
proofs of every safety invariant and action property the passing runs check and of
both refinements.

Next:

1. Proofs about the abstract modules themselves: what `AgentContract` and
   `TimeTravel` imply for their users, and so for the modules that implement them.
2. An engine run inside an agent: `InferenceEngine`'s cancel flag driven by
   `AgentLoop`'s token.
3. An abstract store that `LanceStore`, with one task and no lost answers, and
   `MemoryStore` both implement.
