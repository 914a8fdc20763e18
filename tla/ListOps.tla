------------------------------- MODULE ListOps -------------------------------
(***************************************************************************)
(* Loops over a list, and sorting, that several modules have.              *)
(***************************************************************************)
EXTENDS SequencesExt

\* Lists, one behind the other.
Joined(parts) == FoldLeft(LAMBDA out, part : out \o part, <<>>, parts)

\* The members of a set, by a strict order of all of them given as pairs.
SortedBy(S, before) ==
    [i \in 1 .. Cardinality(S) |->
        CHOOSE e \in S : Cardinality({f \in S : <<f, e>> \in before}) = i - 1]
=============================================================================
