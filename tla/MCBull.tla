------------------------------- MODULE MCBull -------------------------------
(* Model-checking instances of BullJobs.                                    *)
EXTENDS BullJobs, TLC

\* Clients and workers are interchangeable in the safety runs.
Symmetry == Permutations(Clients) \cup Permutations(Workers)

\* EarlyCancelHolds has something left to say: causes only grow.
MayBeEarly ==
  /\ causes \cap {"started", "threw"} # {} => "early" \in causes
  /\ causes \cap {"unqueued", "removed"} = {}

\* Bound: more than two creations, changes, failed attempts, lost locks and
\* crashes together are explored only where they can disturb an early cancellation,
\* and no more than six there.
Events == creates + changes + made + stalls + crashes
Bounded == Events <= 2 \/ (MayBeEarly /\ Events <= 6)
=============================================================================
