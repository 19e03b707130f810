-------------------------- MODULE MCAnalysisPipeline --------------------------
(* AnalysisPipeline for TLC: which requests ask for the same result. *)
EXTENDS AnalysisPipeline, TLC

\* Every POST is for the same asset, analyzer and version.
SameTriple == [a \in Analyses |-> CHOOSE t \in Triples : TRUE]

\* No two of them are: Triples is the set of analyses itself.
OwnTriple == [a \in Analyses |-> a]

Symmetry == Permutations(Workers) \union Permutations(Analyses)
=============================================================================
