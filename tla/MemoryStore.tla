----------------------------- MODULE MemoryStore -----------------------------
(***************************************************************************)
(* memory/store.rs: the in-memory flat index of memory nodes.  A node is a *)
(* record with an id and an embedding; its text, role and timestamp play   *)
(* no part.  Embeddings are short vectors of integers, and arithmetic is   *)
(* exact where the code's is f32.                                          *)
(***************************************************************************)
EXTENDS Arrangement

CONSTANT Dim   \* the dimension new_in_memory() was called with

ASSUME DimAssumption == Dim \in Nat \ {0}

VARIABLE nodes   \* the stored nodes, in insertion order

StoreInit == nodes = <<>>

Fits(node) == Len(node.embedding) = Dim

(***************************************************************************)
(* insert_batch() inserts one node after the other and returns the first   *)
(* error: what came before the node that does not fit stays in the store.  *)
(***************************************************************************)
Stored(batch) ==
    LET misfits == {i \in DOMAIN batch : ~Fits(batch[i])}
    IN  IF misfits = {} THEN batch ELSE SubSeq(batch, 1, Min(misfits) - 1)

Insert(node) == nodes' = nodes \o Stored(<<node>>)

InsertBatch(batch) == nodes' = nodes \o Stored(batch)

(***************************************************************************)
(* Similarities and scores are products of cosines.  A number x of that    *)
(* kind is kept as the fraction sign(x) * x^2, which products and          *)
(* comparisons respect.                                                    *)
(***************************************************************************)
Zero == [num |-> 0, den |-> 1]

Times(x, y) == [num |-> x.num * y.num, den |-> x.den * y.den]

Below(x, y) == x.num * y.den < y.num * x.den

Dot(a, b) == FoldFunction(+, 0, [i \in DOMAIN a |-> a[i] * b[i]])

cosine_similarity(a, b) ==
    LET dot  == Dot(a, b)
        norm == Dot(a, a) * Dot(b, b)
    IN  IF norm = 0 THEN Zero
        ELSE [num |-> IF dot < 0 THEN -(dot * dot) ELSE dot * dot, den |-> norm]

(***************************************************************************)
(* top_k(): the stored nodes that are not excluded, the most similar to    *)
(* the query first.  The sort is stable, so equals keep their order.       *)
(***************************************************************************)
top_k(query, k, exclude_ids) ==
    LET score(i)    == cosine_similarity(query, nodes[i].embedding)
        before(i, j) == \/ Below(score(j), score(i))
                        \/ i < j /\ ~Below(score(i), score(j))
        kept        == {i \in DOMAIN nodes : nodes[i].id \notin exclude_ids}
        sorted      == Arranged(kept, {p \in kept \X kept : before(p[1], p[2])})
    IN  [i \in 1 .. Min({k, Cardinality(kept)}) |-> nodes[sorted[i]]]
=============================================================================
