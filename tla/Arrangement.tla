----------------------------- MODULE Arrangement ------------------------------
(***************************************************************************)
(* A set in order, as a sort or a filter of a vector leaves it.            *)
(***************************************************************************)
EXTENDS Integers, SequencesExt

\* The members of a finite set, one after the other, where the pairs of `before`
\* say of any two of them which comes first: at each place the one that so many
\* come before.
Arranged(set, before) ==
    [k \in 1 .. Cardinality(set) |->
        CHOOSE i \in set : Cardinality({j \in set : <<j, i>> \in before}) = k - 1]
=============================================================================
