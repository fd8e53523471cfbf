--------------------------- MODULE MCMemoryService ---------------------------
(* Two tasks; answers with and without a pooled vector, too short, and *)
(* malformed in each of the ways embed_raw() trusts not to occur.      *)
EXTENDS MemoryService

CONSTANTS t1, t2

TwoTasks == {t1, t2}

Out(pooled, shape, data) == [pooled |-> pooled, shape |-> shape, data |-> data]

SomeOutputs ==
    {Out(TRUE, <<1, 2>>, <<0, 3>>),          \* pooled, of full width
     Out(TRUE, <<1>>, <<5>>),                \* pooled, one number
     Out(TRUE, <<1, 3>>, <<1, 0>>),          \* shape wider than the data
     Out(FALSE, <<1, 1, 2>>, <<-2, 0>>),     \* hidden states of one token
     Out(FALSE, <<1, 2>>, <<1, 0>>)}         \* hidden states without a token axis

OneOrTwo == {1, 2}

SomeForeign == {<<1, 1, 1>>, <<1>>}

Tasks == Permutations(TwoTasks)
=============================================================================
