----------------------------- MODULE Selections -----------------------------
(* Go's loops that keep some elements of a slice, and its sorting. *)
EXTENDS Integers, Sequences, FiniteSets, SequencesExt

\* The elements of a sequence that are in a set.
Within(s, set) == FoldLeft(LAMBDA kept, x : IF x \in set THEN Append(kept, x) ELSE kept, <<>>, s)

\* The elements of a set in an order, which is a set of pairs: each has its place by how
\* many come before it.
Ranked(T, before) ==
    [n \in 1..Cardinality(T) |->
        CHOOSE x \in T : Cardinality({y \in T : <<y, x>> \in before}) = n - 1]

=============================================================================
