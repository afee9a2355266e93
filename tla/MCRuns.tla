------------------------------- MODULE MCRuns -------------------------------
(* Model-checking instances of ResearchRuns.                                *)
EXTENDS ResearchRuns, TLC

Symmetry == Permutations(Runs) \cup Permutations(Workers)
            \cup Permutations(Clients)
=============================================================================
