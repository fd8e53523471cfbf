------------------------------ MODULE LanceStore -----------------------------
(***************************************************************************)
(* memory/lance_store.rs: handles of several tasks on one database         *)
(* directory.  What LanceDB does with a request is external: a table is    *)
(* created once, and an append or a delete is one commit.  Every call is   *)
(* async, so its future may be dropped, or report an error, before or      *)
(* after that commit.  Searching changes nothing; see VectorSearch.        *)
(***************************************************************************)
EXTENDS Integers, SequencesExt

CONSTANT Task

VARIABLES
    pc,      \* what each task does
    dim,     \* the dimension the tasks of this process pass to new()
    handles, \* the tasks that have a LanceMemoryStore
    table,   \* on disk: [exists, dim, rows, indexed]
    batch    \* the nodes a task is inserting

NoTable == [exists |-> FALSE, dim |-> 0, rows |-> <<>>, indexed |-> FALSE]

LanceInit ==
    /\ handles = {}
    /\ table = NoTable
    /\ batch = [t \in Task |-> <<>>]

-----------------------------------------------------------------------------
(***************************************************************************)
(* A node as a row, and back.                                              *)
(***************************************************************************)

as_u8(role) == CASE role = "User" -> 0 [] role = "Agent" -> 1 [] role = "System" -> 2

\* An unknown code reads as User.
from_u8(code) == IF code = 1 THEN "Agent" ELSE IF code = 2 THEN "System" ELSE "User"

\* The embeddings are laid end to end and cut again into pieces of dim.
Flat(nodes) == FlattenSeq([i \in DOMAIN nodes |-> nodes[i].embedding])

nodes_to_batch(nodes) ==
    [i \in DOMAIN nodes |-> [uuid |-> nodes[i].id, role |-> as_u8(nodes[i].role),
                             embedding |-> SubSeq(Flat(nodes), (i - 1) * dim + 1, i * dim)]]

\* A batch whose columns differ in length is refused.
Convertible(nodes) == Len(Flat(nodes)) = Len(nodes) * dim

\* Mutant: the lengths are left to the conversion, which sees only their sum.
MutantFitsHandle(nodes) == TRUE

FitsHandle(nodes) == \A i \in DOMAIN nodes : Len(nodes[i].embedding) = dim

all_nodes ==
    [i \in DOMAIN table.rows |-> [id |-> table.rows[i].uuid, role |-> from_u8(table.rows[i].role),
                                  embedding |-> table.rows[i].embedding]]

-----------------------------------------------------------------------------
(***************************************************************************)
(* open_or_create_table(): two requests, the listing and what it suggests. *)
(***************************************************************************)

At(t, label) == pc[t] = label

Move(t, label) == pc' = [pc EXCEPT ![t] = label]

New(t) ==
    /\ At(t, "free")
    /\ t \notin handles
    /\ Move(t, IF table.exists THEN "opening" ELSE "creating")
    /\ UNCHANGED <<handles, table, batch>>

\* The schema of the table that is opened is not looked at.
OpenTable(t) ==
    /\ At(t, "opening")
    /\ handles' = handles \cup {t}
    /\ Move(t, "free")
    /\ UNCHANGED <<table, batch>>

\* Mutant: create_table() with a mode that overwrites.
MutantCreateTable(t) ==
    /\ At(t, "creating")
    /\ table' = [NoTable EXCEPT !.exists = TRUE, !.dim = dim]
    /\ handles' = handles \cup {t}
    /\ Move(t, "free")
    /\ UNCHANGED batch

\* LanceDB refuses to create a table that exists by now, and GiveUp follows.  The
\* table may be there and its answer lost.
CreateTable(t) ==
    /\ At(t, "creating")
    /\ ~table.exists
    /\ table' = [NoTable EXCEPT !.exists = TRUE, !.dim = dim]
    /\ handles' \in {handles, handles \cup {t}}
    /\ Move(t, "free")
    /\ UNCHANGED batch

-----------------------------------------------------------------------------
(***************************************************************************)
(* insert() and insert_batch(), which differ in the length of the batch.   *)
(***************************************************************************)

InsertBatch(t, nodes) ==
    /\ At(t, "free")
    /\ t \in handles
    /\ nodes # <<>>
    /\ FitsHandle(nodes)
    /\ Convertible(nodes)
    /\ batch' = [batch EXCEPT ![t] = nodes]
    /\ Move(t, "adding")
    /\ UNCHANGED <<handles, table>>

\* LanceDB refuses rows of another schema than the table's, and GiveUp follows.
Commit(t) ==
    /\ At(t, "adding")
    /\ table.dim = dim
    /\ table' = [table EXCEPT !.rows = @ \o nodes_to_batch(batch[t])]
    /\ Move(t, "committed")
    /\ UNCHANGED <<handles, batch>>

Inserted(t) ==
    /\ At(t, "committed")
    /\ batch' = [batch EXCEPT ![t] = <<>>]
    /\ Move(t, "free")
    /\ UNCHANGED <<handles, table>>

\* The request failed, its answer was lost, or the future was dropped.
GiveUp(t) ==
    /\ pc[t] \in {"opening", "creating", "adding", "committed"}
    /\ batch' = [batch EXCEPT ![t] = <<>>]
    /\ Move(t, "free")
    /\ UNCHANGED <<handles, table>>

-----------------------------------------------------------------------------

\* The rows are those of the last commit, whoever made it.  A handle is opened
\* without a read_consistency_interval (143): that its deletion sees what other
\* handles have added is taken from LanceDB, not from this code.
Removing(t, rows) ==
    /\ At(t, "free")
    /\ t \in handles
    /\ table' = [table EXCEPT !.rows = rows]
    /\ UNCHANGED <<pc, handles, batch>>

\* The rows that stay keep their order: each moves up to its place among them.
Without(rows, id) ==
    LET kept  == {i \in DOMAIN rows : rows[i].uuid # id}
        place == [i \in kept |-> Cardinality({j \in kept : j <= i})]
    IN  [k \in 1 .. Cardinality(kept) |-> rows[CHOOSE i \in kept : place[i] = k]]

Delete(t, id) == Removing(t, Without(table.rows, id))

Clear(t) == Removing(t, <<>>)

CreateIndex(t) ==
    /\ At(t, "free")
    /\ t \in handles
    /\ table.rows # <<>>
    /\ table' = [table EXCEPT !.indexed = TRUE]
    /\ UNCHANGED <<pc, handles, batch>>
=============================================================================
