---------------------------- MODULE VectorSearch -----------------------------
(***************************************************************************)
(* memory/lance_store.rs, top_k(): the vector search of the persistent     *)
(* store over a table without an index, which LanceDB scans.  It changes   *)
(* nothing, so it is a set of possible results: the scan orders the rows   *)
(* by distance and leaves open how it orders equals.                       *)
(***************************************************************************)
EXTENDS Arrangement

CONSTANT Word   \* bound: usize holds 0 .. Word - 1

ASSUME WordAssumption == Word \in Nat \ {0}

\* The squared Euclidean distance, LanceDB's default.
Distance(query, row) ==
    FoldFunction(+, 0, [i \in DOMAIN query |-> (query[i] - row.embedding[i]) * (query[i] - row.embedding[i])])

\* nearest_to(query).limit(n): n rows, the nearest first, none nearer left out.
nearest_to(rows, query, n) ==
    LET count == Min({n, Len(rows)})
        far(i) == Distance(query, rows[i])
        orders == {s \in [1 .. count -> DOMAIN rows] :
                      /\ IsInjective(s)
                      /\ \A i, j \in 1 .. count : i < j => far(s[i]) <= far(s[j])
                      /\ \A i \in 1 .. count : \A r \in DOMAIN rows \ Range(s) : far(s[i]) <= far(r)}
    IN  {[i \in 1 .. count |-> rows[s[i]]] : s \in orders}

\* The rows found that are not excluded, as many as k, in the order found.
Unexcluded(found, k, exclude_ids) ==
    LET kept == {i \in DOMAIN found : found[i].id \notin exclude_ids}
        left == Arranged(kept, {p \in kept \X kept : p[1] < p[2]})
    IN  [j \in 1 .. Min({k, Cardinality(kept)}) |-> found[left[j]]]

\* Mutant: k rows are fetched whatever is excluded.
MutantSearch(rows, query, k, exclude_ids) ==
    {Unexcluded(found, k, exclude_ids) : found \in nearest_to(rows, query, k)}

\* One row is fetched for each excluded id, the excluded rows are filtered out,
\* and the rest is cut to k.  The sum is in usize, which wraps in a release build.
\* What LanceDB makes of a limit of no rows is not claimed: engines of the chain
\* ask for one at least (chain.rs:111).
Search(rows, query, k, exclude_ids) ==
    LET fetch_k == (k + Cardinality(exclude_ids)) % Word
    IN  {Unexcluded(found, k, exclude_ids) : found \in nearest_to(rows, query, fetch_k)}
=============================================================================
