------------------------------ MODULE MCMemory ------------------------------
(* Model-checking instances of MemoryJobs.                                  *)
EXTENDS MemoryJobs, TLC

\* Runs are interchangeable in the run that checks state invariants.
Symmetry == Permutations(Runs)
=============================================================================
