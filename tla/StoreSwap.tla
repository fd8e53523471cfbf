------------------------------ MODULE StoreSwap ------------------------------
(***************************************************************************)
(* The two stores side by side: what the chain would be offered if the     *)
(* nodes of the in-memory store lay in the persistent one instead, which   *)
(* store.rs:38-40 recommends for more than ten thousand nodes.                *)
(***************************************************************************)
EXTENDS DmceEngine, VectorSearch

Ids == {node.id : node \in Nodes}

Similarities(query_, seq) == [i \in DOMAIN seq |-> cosine_similarity(query_, seq[i].embedding)]

\* Both stores return the same similarities, at the same places, for a query, a
\* limit and the ids to leave out.
SameAnswer(query_, k, exclude_ids) ==
    \A found \in Search(nodes, query_, k, exclude_ids) :
        LET offered == top_k(query_, k, exclude_ids)
            a == Similarities(query_, found)
            b == Similarities(query_, offered)
        IN  /\ Len(a) = Len(b)
            /\ \A i \in DOMAIN a : ~Below(a[i], b[i]) /\ ~Below(b[i], a[i])

UnitLength == \A i \in DOMAIN nodes : Dot(nodes[i].embedding, nodes[i].embedding) = 1

\* "Swap the retrieval implementation without changing the DMCE API"
\* (store.rs:38-40): with normalised embeddings, no id stored twice, and a limit of
\* at least one that does not overflow with the exclusions added, the persistent store's
\* distance search answers as the in-memory store's cosine ranking does.
SearchAgrees ==
    phase = "idle" /\ UnitLength /\ IsInjective([i \in DOMAIN nodes |-> nodes[i].id]) =>
        \A q \in Queries, k \in 1 .. Word - 1 : \A exclude_ids \in SUBSET Ids :
            Len(q) = Dim /\ IsFiniteSet(exclude_ids) /\ k + Cardinality(exclude_ids) < Word =>
                SameAnswer(q, k, exclude_ids)

\* "Request extra candidates to compensate for post-filter exclusions"
\* (lance_store.rs:375), whatever is stored: one extra row per excluded id is too
\* few when a node was inserted twice.
ExclusionsCompensated ==
    phase = "idle" /\ UnitLength =>
        \A q \in Queries, k \in 1 .. 2 : \A exclude_ids \in SUBSET Ids :
            Len(q) = Dim /\ k + Cardinality(exclude_ids) < Word => SameAnswer(q, k, exclude_ids)

\* "Results are converted to an approximate cosine similarity score for API
\* compatibility with the in-memory store" (lance_store.rs:350-351), for vectors of
\* any length: neither store normalises what it is given, and the distance ranks by
\* length too, so a zero vector comes before or level with similar ones.
DistanceIsSimilarity ==
    phase = "idle" /\ IsInjective([i \in DOMAIN nodes |-> nodes[i].id]) =>
        \A q \in Queries, k \in 1 .. 2 : Len(q) = Dim => SameAnswer(q, k, {})
=============================================================================
