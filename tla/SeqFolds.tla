------------------------------ MODULE SeqFolds ------------------------------
(***************************************************************************)
(* The operators of the community module SequencesExt that the models with *)
(* long proofs need.  They have the same values.  SequencesExt itself also *)
(* extends Bags and, through it, the theorem libraries, and the prover     *)
(* carries all of that along in every single obligation.                   *)
(***************************************************************************)
EXTENDS Integers, Sequences, FiniteSetsExt

ToSet(s) == {s[i] : i \in DOMAIN s}

\* step applied to start and the first element, to the result and the second, ...
FoldLeft(step(_, _), start, list) ==
    MapThenFoldSet(LAMBDA x, acc : step(acc, x), start, LAMBDA i : list[i], Max, DOMAIN list)

FlattenSeq(lists) == FoldLeft(\o, <<>>, lists)

\* The sequences that hold every element of S once.
SetToSeqs(S) == Bijection(1..Cardinality(S), S)

\* The numbers in S, the smallest first.
Ascending(S) == CHOOSE f \in SetToSeqs(S) : \A i, j \in DOMAIN f : i < j => f[i] < f[j]
=============================================================================
