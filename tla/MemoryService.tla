---------------------------- MODULE MemoryService ----------------------------
(***************************************************************************)
(* Tasks of one process that embed texts with a shared EmbeddingEngine and *)
(* keep the nodes in a LanceStore, and the process that crashes and comes  *)
(* back, perhaps with another dimension in its configuration.  The library *)
(* leaves this composition to its user: a task does one thing at a time    *)
(* and may insert a node again when it did not hear that it was inserted.  *)
(***************************************************************************)
EXTENDS EmbeddingEngine

CONSTANTS Dims,         \* dimensions the process may be configured with
          Foreign,      \* embeddings a task may bring from elsewhere
          MaxNodes,     \* bound: nodes ever made
          MaxSends,     \* bound: nodes ever sent to the table, each sending counted
          MaxRestarts   \* bound: crashes

ASSUME MemoryAssumption ==
    /\ Dims \subseteq Nat
    /\ Foreign \subseteq Seq(Int)
    /\ MaxNodes \in Nat

VARIABLES handles, table, batch,
    made,       \* history: every node made, its id is its place
    held,       \* the ids of the nodes made by this process, which its tasks know
    sent,       \* history: how often a node was sent to the table
    acked,      \* history: how often a task heard that it was inserted
    removed,    \* history: ids that were ever deleted or cleared
    malformed,  \* history: the model has given this process an answer that panics
    restarts

Lance == INSTANCE LanceStore

stored == <<handles, table, batch>>
nodeVars == <<made, held>>
history == <<sent, acked, removed>>
process == <<malformed, restarts>>
vars == <<pc, dim, session, stored, nodeVars, history, process>>

Init ==
    /\ EmbeddingInit
    /\ Lance!LanceInit
    /\ dim \in Dims
    /\ made = <<>>
    /\ held = {}
    /\ sent = [i \in 1 .. MaxNodes |-> 0]
    /\ acked = [i \in 1 .. MaxNodes |-> 0]
    /\ removed = {}
    /\ malformed = FALSE
    /\ restarts = 0

Make(role, embedding) ==
    /\ Len(made) < MaxNodes
    /\ made' = Append(made, [id |-> Len(made) + 1, role |-> role, embedding |-> embedding])
    /\ held' = held \cup {Len(made) + 1}

-----------------------------------------------------------------------------
(***************************************************************************)
(* Embedding.                                                              *)
(***************************************************************************)

CallEngine(t) ==
    /\ Embed(t) \/ Lock(t) \/ LockPanics(t) \/ RunFails(t)
    /\ Len(made) < MaxNodes \/ pc[t] # "free"
    /\ UNCHANGED <<dim, stored, nodeVars, history, process>>

\* The engine answers, and a vector becomes a node.
Answered(t) ==
    \E out \in Outputs, seq_len \in Tokens :
        /\ Extract(t, out, seq_len)
        /\ IF Succeeds(out, seq_len) THEN Make("Agent", Embedding(out, seq_len)) ELSE UNCHANGED nodeVars
        /\ malformed' = (malformed \/ Panics(out, seq_len))
        /\ UNCHANGED <<dim, stored, history, restarts>>

\* A node whose embedding does not come from this engine.
Bring(t) ==
    /\ pc[t] = "free"
    /\ \E embedding \in Foreign : Make("System", embedding)
    /\ UNCHANGED <<pc, dim, session, stored, history, process>>

-----------------------------------------------------------------------------
(***************************************************************************)
(* Storing.                                                                *)
(***************************************************************************)

Rest == <<dim, session, nodeVars, process>>

Open(t) ==
    /\ Lance!New(t) \/ Lance!OpenTable(t) \/ Lance!CreateTable(t)
    /\ UNCHANGED <<Rest, history>>

Sends == FoldFunction(+, 0, sent)

Send(t) ==
    \E i, j \in held :
        LET ids == IF i = j THEN <<i>> ELSE <<i, j>>
        IN  /\ Sends + Len(ids) <= MaxSends
            /\ Lance!InsertBatch(t, [k \in DOMAIN ids |-> made[ids[k]]])
            /\ sent' = [n \in DOMAIN sent |-> sent[n] + (IF n \in {i, j} THEN 1 ELSE 0)]
            /\ UNCHANGED <<Rest, acked, removed>>

Commit(t) == Lance!Commit(t) /\ UNCHANGED <<Rest, history>>

Hear(t) ==
    /\ Lance!Inserted(t)
    /\ acked' = [n \in DOMAIN acked |->
                    acked[n] + (IF \E k \in DOMAIN batch[t] : batch[t][k].id = n THEN 1 ELSE 0)]
    /\ UNCHANGED <<Rest, sent, removed>>

GiveUp(t) == Lance!GiveUp(t) /\ UNCHANGED <<Rest, history>>

Erase(t) ==
    /\ \/ \E id \in DOMAIN made : Lance!Delete(t, id) /\ removed' = removed \cup {id}
       \/ Lance!Clear(t) /\ removed' = removed \cup DOMAIN made
    /\ UNCHANGED <<Rest, sent, acked>>

Index(t) == Lance!CreateIndex(t) /\ UNCHANGED <<Rest, history>>

-----------------------------------------------------------------------------

\* The process crashes: the table is all that is left.
Restart ==
    /\ restarts < MaxRestarts
    /\ restarts' = restarts + 1
    /\ dim' \in Dims
    /\ pc' = [t \in Task |-> "free"]
    /\ session' = "free"
    /\ handles' = {}
    /\ batch' = [t \in Task |-> <<>>]
    /\ held' = {}
    /\ malformed' = FALSE
    /\ UNCHANGED <<table, made, history>>

Next ==
    \/ Restart
    \/ \E t \in Task : \/ CallEngine(t) \/ Answered(t) \/ Bring(t)
                       \/ Open(t) \/ Send(t) \/ Commit(t) \/ Hear(t) \/ GiveUp(t)
                       \/ Erase(t) \/ Index(t)

Spec == Init /\ [][Next]_vars

-----------------------------------------------------------------------------
(***************************************************************************)
(* Properties.                                                             *)
(***************************************************************************)

Copies(node) == Cardinality({r \in DOMAIN Lance!all_nodes : Lance!all_nodes[r] = node})

\* Read back after any number of crashes, lost answers and repeated insertions,
\* the table holds each node, unchanged, at least as often as its insertion was
\* acknowledged, unless it was deleted, at most as often as it was sent, and no
\* other node.
AckedKept ==
    /\ \A i \in DOMAIN made :
           /\ Copies(made[i]) <= sent[i]
           /\ i \notin removed => acked[i] <= Copies(made[i])
    /\ \A r \in DOMAIN Lance!all_nodes : \E i \in DOMAIN made : Lance!all_nodes[r] = made[i]

\* The new rows are the old ones, in their order, but for all those of one node.
Erased(id, old, new) ==
    \E origin \in [DOMAIN new -> DOMAIN old] :
        /\ \A k, l \in DOMAIN new : k < l => origin[k] < origin[l]
        /\ \A r \in DOMAIN old : old[r].uuid # id <=> \E k \in DOMAIN new : origin[k] = r
        /\ \A k \in DOMAIN new : new[k] = old[origin[k]]

\* The rows change only by the whole batch of one task, at the end, by a deletion
\* of a node with all its copies, or by emptying the table: not by the creation
\* that lost the race for the table, not by a crash, and not by half a batch.
RowsChangeWhole ==
    [][ \/ table'.rows = table.rows
        \/ \E t \in Task : pc[t] = "adding" /\ Len(table'.rows) = Len(table.rows) + Len(batch[t])
                              /\ IsPrefix(table.rows, table'.rows)
        \/ \E id \in removed' : Erased(id, table.rows, table'.rows)
        \/ table'.rows = <<>> /\ removed' = DOMAIN made ]_table

\* One task at a time runs the model.  Without a malformed answer nobody panics
\* and the mutex serves the process to its end; with one, the task that met it and
\* every task that embeds afterwards panic, and only a new process embeds again.
PanicsAccounted ==
    /\ \A t \in Task : session = t <=> pc[t] = "running"
    /\ (session = "poisoned") <=> malformed
    /\ \A t \in Task : pc[t] = "panicked" => malformed
    /\ malformed => \E t \in Task : pc[t] = "panicked"

\* "If the table already exists it will be opened; otherwise a new empty table is
\* created" (lance_store.rs:140-141).  Of two tasks that found none one is refused.
OpensEither == \A t \in Task : pc[t] = "creating" => ~table.exists

\* An open handle can store what its process embeds.  Not if the table was made
\* with another dimension: opening it does not compare the two.
HandleUsable == handles # {} => table.dim = dim
=============================================================================
