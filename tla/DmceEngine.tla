----------------------------- MODULE DmceEngine ------------------------------
(***************************************************************************)
(* memory/chain.rs: dynamic memory chain evolution over an in-memory       *)
(* store.  One caller fills the store, asks evolve() for a chain, then     *)
(* evolve_with_diagnostics() for a second one, with the same or another    *)
(* engine.  The code writes the loop out twice, and so does this module.   *)
(***************************************************************************)
EXTENDS MemoryStore

CONSTANTS Nodes,     \* the nodes a caller may insert, some of another dimension
          Queries,   \* the query embeddings, some of another dimension
          Engines,   \* engines: [beta, top_k, max_chain_len], beta a number as in MemoryStore
          MaxStored   \* bound: no insertion beyond this many nodes

\* beta is not negative, which new() asserts in debug builds (chain.rs:107-110); the
\* limits are of type usize.
ASSUME DmceAssumption ==
    /\ \A node \in Nodes : node.embedding \in Seq(Int)
    /\ Queries \subseteq Seq(Int)
    /\ \A e \in Engines :
           /\ e.beta = [num |-> e.beta.num, den |-> e.beta.den]
           /\ e.beta.num \in Nat /\ e.beta.den \in Nat \ {0}
           /\ e.top_k \in Nat /\ e.max_chain_len \in Nat

VARIABLES
    phase,    \* what the caller does: "idle", "evolving", "evolved", "reporting", "reported"
    query,    \* the query of both calls, empty before them
    engine,   \* the engine of each call, empty before them
    evolved,  \* evolve()'s locals: [pool, chain, prev_score]
    result    \* evolve_with_diagnostics()'s locals: those and the telemetry

dmceVars == <<nodes, phase, query, engine, evolved, result>>

Calls == {"evolve", "diagnostics"}

Nothing  == [pool |-> <<>>, chain |-> <<>>, prev_score |-> <<>>]
NoReport == [pool |-> <<>>, chain |-> <<>>, prev_score |-> <<>>,
             steps_executed |-> 0, apt_triggered |-> FALSE, step_scores |-> <<>>]

DmceInit ==
    /\ StoreInit
    /\ phase = "idle"
    /\ query = <<>>
    /\ engine = <<>>
    /\ evolved = Nothing
    /\ result = NoReport

-----------------------------------------------------------------------------
(***************************************************************************)
(* One iteration.                                                          *)
(***************************************************************************)

\* No candidates when the query has another dimension than the store.
Candidates(q, e) == IF Len(q) = Dim THEN top_k(q, e.top_k, {}) ELSE <<>>

Sum(chain) == [k \in 1 .. Dim |-> FoldFunction(+, 0, [i \in DOMAIN chain |-> chain[i].embedding[k]])]

\* Mutant: the last node stands for the chain.
MutantCentroid(chain) == IF chain = <<>> THEN query ELSE Last(chain).embedding

\* The chain's mean, up to a positive factor that no cosine sees; the query
\* itself before the first node.
Centroid(chain) == IF chain = <<>> THEN query ELSE Sum(chain)

Gate(node, chain) ==
    Times(cosine_similarity(node.embedding, query),
          cosine_similarity(node.embedding, Centroid(chain)))

\* Mutant: the last of equals wins.
MutantBest(pool, chain) ==
    CHOOSE i \in DOMAIN pool : \A j \in DOMAIN pool :
        /\ ~Below(Gate(pool[i], chain), Gate(pool[j], chain))
        /\ j > i => Below(Gate(pool[j], chain), Gate(pool[i], chain))

\* select_best_candidate(): the first candidate that no other one beats.
Best(pool, chain) ==
    CHOOSE i \in DOMAIN pool : \A j \in DOMAIN pool :
        /\ ~Below(Gate(pool[i], chain), Gate(pool[j], chain))
        /\ j < i => Below(Gate(pool[j], chain), Gate(pool[i], chain))

SwapRemove(pool, i) ==
    [j \in 1 .. Len(pool) - 1 |-> IF j = i THEN Last(pool) ELSE pool[j]]

\* Adaptive path truncation: the winning score fell below beta times the last.
Truncates(e, prev, score) == prev # <<>> /\ Below(score, Times(e.beta, prev[1]))

Accept(run, i, score) ==
    [run EXCEPT !.pool = SwapRemove(run.pool, i),
                !.chain = Append(run.chain, run.pool[i]),
                !.prev_score = <<score>>]

More(e, run) == run.pool # <<>> /\ Len(run.chain) < e.max_chain_len

-----------------------------------------------------------------------------
(***************************************************************************)
(* The caller and the two loops.                                           *)
(***************************************************************************)

Fill ==
    /\ phase \in {"idle", "reported"}
    /\ \/ \E n \in Nodes : Insert(n)
       \/ \E m, n \in Nodes : InsertBatch(<<m, n>>)
    /\ Len(nodes') <= MaxStored
    /\ phase' = "idle"
    /\ query' = <<>>
    /\ engine' = <<>>
    /\ evolved' = Nothing
    /\ result' = NoReport

Evolve ==
    /\ phase \in {"idle", "reported"}
    /\ UNCHANGED nodes
    /\ phase' = "evolving"
    /\ \E q \in Queries, e \in [Calls -> Engines] :
           /\ query' = q
           /\ engine' = e
           /\ evolved' = [Nothing EXCEPT !.pool = Candidates(q, e["evolve"])]
    /\ result' = NoReport

EvolveStep ==
    LET e     == engine["evolve"]
        best  == Best(evolved.pool, evolved.chain)
        score == Gate(evolved.pool[best], evolved.chain)
    IN  /\ phase = "evolving"
        /\ More(e, evolved)
        /\ IF Truncates(e, evolved.prev_score, score)
           THEN phase' = "evolved" /\ UNCHANGED evolved
           ELSE evolved' = Accept(evolved, best, score) /\ UNCHANGED phase
        /\ UNCHANGED <<nodes, query, engine, result>>

EvolveEnds ==
    /\ phase = "evolving"
    /\ ~More(engine["evolve"], evolved)
    /\ phase' = "evolved"
    /\ UNCHANGED <<nodes, query, engine, evolved, result>>

Report ==
    /\ phase = "evolved"
    /\ phase' = "reporting"
    /\ result' = [NoReport EXCEPT !.pool = Candidates(query, engine["diagnostics"])]
    /\ UNCHANGED <<nodes, query, engine, evolved>>

\* Mutant: the truncated step is not counted.
MutantReportStep ==
    LET e     == engine["diagnostics"]
        best  == Best(result.pool, result.chain)
        score == Gate(result.pool[best], result.chain)
    IN  /\ phase = "reporting"
        /\ More(e, result)
        /\ IF Truncates(e, result.prev_score, score)
           THEN phase' = "reported" /\ result' = [result EXCEPT !.apt_triggered = TRUE]
           ELSE /\ result' = [Accept(result, best, score) EXCEPT
                                 !.steps_executed = Len(result.chain) + 1,
                                 !.step_scores = Append(result.step_scores, score)]
                /\ UNCHANGED phase
        /\ UNCHANGED <<nodes, query, engine, evolved>>

\* The telemetry is written before the truncation is tested.
ReportStep ==
    LET e       == engine["diagnostics"]
        best    == Best(result.pool, result.chain)
        score   == Gate(result.pool[best], result.chain)
        counted == [result EXCEPT !.steps_executed = Len(result.chain) + 1,
                                  !.step_scores = Append(result.step_scores, score)]
    IN  /\ phase = "reporting"
        /\ More(e, result)
        /\ IF Truncates(e, result.prev_score, score)
           THEN phase' = "reported" /\ result' = [counted EXCEPT !.apt_triggered = TRUE]
           ELSE result' = Accept(counted, best, score) /\ UNCHANGED phase
        /\ UNCHANGED <<nodes, query, engine, evolved>>

ReportEnds ==
    /\ phase = "reporting"
    /\ ~More(engine["diagnostics"], result)
    /\ phase' = "reported"
    /\ UNCHANGED <<nodes, query, engine, evolved, result>>

DmceNext == Fill \/ Evolve \/ EvolveStep \/ EvolveEnds \/ Report \/ ReportStep \/ ReportEnds

DmceSpec == DmceInit /\ [][DmceNext]_dmceVars

-----------------------------------------------------------------------------
(***************************************************************************)
(* Properties.                                                             *)
(***************************************************************************)

Occurrences(seq, node) == Cardinality({i \in DOMAIN seq : seq[i] = node})

\* The gating score as chain.rs:16 defines it, from the similarities of a node
\* to the query and to the nodes chosen before it.
Total(seq, f(_)) == FoldFunction(+, 0, [i \in DOMAIN seq |-> f(seq[i].embedding)])

Score(node, before) ==
    LET toAll(v)   == Total(before, LAMBDA w : Dot(v, w))
        towards    == toAll(node.embedding)
        lengths    == Dot(node.embedding, node.embedding) * Total(before, toAll)
        coherence  == IF lengths = 0 THEN Zero
                      ELSE [num |-> towards * (IF towards < 0 THEN -towards ELSE towards), den |-> lengths]
        relevance  == cosine_similarity(node.embedding, query)
    IN  Times(relevance, IF before = <<>> THEN relevance ELSE coherence)

Scored(chain, i) == Score(chain[i], SubSeq(chain, 1, i - 1))

\* Whatever was inserted, evolve()'s chain and pool are together the candidates,
\* each as often as it was retrieved; every node of the chain had the best score
\* of what was left, none fell below beta times the one before, and the chain
\* ends only at its length limit, with the pool, or before such a drop.
ChainSound ==
    phase # "idle" =>
        LET e     == engine["evolve"]
            chain == evolved.chain
            offer == Candidates(query, e)
            left(i)  == {n \in Nodes : Occurrences(offer, n) > Occurrences(SubSeq(chain, 1, i), n)}
            drops(n) == chain # <<>> /\ Below(Score(n, chain), Times(e.beta, Scored(chain, Len(chain))))
        IN  /\ \A n \in Nodes :
                   Occurrences(chain, n) + Occurrences(evolved.pool, n) = Occurrences(offer, n)
            /\ \A i \in DOMAIN chain :
                   /\ \A n \in left(i - 1) : ~Below(Scored(chain, i), Score(n, SubSeq(chain, 1, i - 1)))
                   /\ i > 1 => ~Below(Scored(chain, i), Times(e.beta, Scored(chain, i - 1)))
            /\ Len(chain) <= e.max_chain_len
            /\ phase # "evolving" => \/ Len(chain) = e.max_chain_len
                                     \/ \A n \in left(Len(chain)) : drops(n)

\* The same engine returns the same chain twice; engines that retrieve as many
\* candidates return chains of which one begins the other, whatever their beta and
\* their length limit; and the telemetry has one score per step, the truncated one
\* included.
LoopsAgree ==
    phase = "reported" =>
        LET e == engine["evolve"]
            d == engine["diagnostics"]
        IN  /\ e = d => evolved.chain = result.chain
            /\ e.top_k = d.top_k =>
                   \/ IsPrefix(evolved.chain, result.chain)
                   \/ IsPrefix(result.chain, evolved.chain)
            /\ result.steps_executed = Len(result.step_scores)
            /\ result.steps_executed = Len(result.chain) + (IF result.apt_triggered THEN 1 ELSE 0)

\* A greater beta never makes the chain longer.
GreaterBetaNotLonger ==
    phase = "reported" =>
        LET e == engine["evolve"]
            d == engine["diagnostics"]
        IN  e.top_k = d.top_k /\ e.max_chain_len = d.max_chain_len /\ Below(d.beta, e.beta) =>
                Len(evolved.chain) <= Len(result.chain)

\* "Identical to evolve(), but returns telemetry" (chain.rs:269), to the node and
\* for engines that differ in beta or the length limit.
DiagnosticsAgree == LoopsAgree /\ GreaterBetaNotLonger

\* When no candidate points away from the query, a chain starts with the stored
\* node most similar to it, and with the one stored first of several: the first
\* score squares the similarity, which keeps its order only then.
StartsAtMostSimilar ==
    evolved.chain # <<>> =>
        LET similar(i) == cosine_similarity(query, nodes[i].embedding)
        IN  (\A i \in DOMAIN nodes : ~Below(similar(i), Zero)) =>
                \E i \in DOMAIN nodes :
                    /\ evolved.chain[1] = nodes[i]
                    /\ \A j \in DOMAIN nodes : ~Below(similar(i), similar(j))
                    /\ \A j \in 1 .. i - 1 : Below(similar(j), similar(i))

\* "Both terms must be high" (chain.rs:230): a chain does not start with a node
\* that points away from the query while a candidate points towards it.  It does:
\* the product of two negative cosines is as high.
BothTermsHigh ==
    evolved.chain # <<>> /\ Below(cosine_similarity(evolved.chain[1].embedding, query), Zero) =>
        \A i \in DOMAIN evolved.pool :
            ~Below(Zero, cosine_similarity(evolved.pool[i].embedding, query))

\* "Lower values are more aggressive (shorter chains)" (chain.rs:32, 86).  It is the other way round:
\* the chain is cut where a score falls below beta times the one before.
LowerBetaShorter ==
    phase = "reported" =>
        LET e == engine["evolve"]
            d == engine["diagnostics"]
        IN  e.top_k = d.top_k /\ e.max_chain_len = d.max_chain_len /\ Below(d.beta, e.beta) =>
                Len(result.chain) <= Len(evolved.chain)
=============================================================================
