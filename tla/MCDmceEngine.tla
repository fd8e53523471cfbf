---------------------------- MODULE MCDmceEngine -----------------------------
(* A plane of small vectors, one opposed, one empty, one of another dimension. *)
EXTENDS StoreSwap

Node(id, embedding) == [id |-> id, embedding |-> embedding]

SomeNodes == {Node(1, <<1, 0>>), Node(2, <<0, 1>>), Node(3, <<1, 1>>),
              Node(4, <<-1, 0>>), Node(5, <<0, 0>>), Node(6, <<1>>)}

SomeQueries == {<<1, 0>>, <<1, 1>>, <<1>>}

TheEngine(beta, k, len) ==
    [beta |-> beta, top_k |-> k, max_chain_len |-> len]

Half == [num |-> 1, den |-> 4]   \* as the square of 1/2
One  == [num |-> 1, den |-> 1]

SomeEngines == {TheEngine(Half, 3, 3), TheEngine(One, 3, 3), TheEngine(Half, 3, 2), TheEngine(Half, 2, 3)}
=============================================================================
