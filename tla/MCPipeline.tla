----------------------------- MODULE MCPipeline -----------------------------
(***************************************************************************)
(* Small instances of Pipeline for TLC.                                    *)
(***************************************************************************)
EXTENDS Pipeline

\* The first window, as a total and by family.
TwoQueries ==
    {[window |-> 0, level |-> level, family |-> None, wiki |-> None, estimator |-> "exact"] :
        level \in {0, 1}}

Nameless == [name \in {None} |-> <<"">>]

\* Requests are interchangeable.
ClientSymmetry == Permutations(Clients)

=============================================================================
