----------------------------- MODULE JobRecord -----------------------------
(***************************************************************************)
(* The row of table research_jobs (JobLifecycleRecord) and the patches     *)
(* that JobLifecycleService applies to it.  Every patch is computed from a *)
(* snapshot and gives the WHOLE row that the service upserts afterwards:   *)
(* update() reads the row, spreads it, overrides some fields and writes    *)
(* every column back.  Kept are the fields that decide what any process    *)
(* does next: the status, whether a cancellation is requested, and the     *)
(* age of the heart-beat.  Payloads, counters, error codes, messages and   *)
(* the other time stamps are left out.                                     *)
(***************************************************************************)
EXTENDS Naturals

Statuses == {"queued", "running", "completed", "failed", "cancelled",
             "timed_out"}
Active == {"queued", "running"}

\* heartbeat_at: null, younger or older than JOB_STALE_HEARTBEAT_MS.
Beats == {"none", "fresh", "stale"}

Record == [status : Statuses, cancel : BOOLEAN, beat : Beats]

NoRecord == [status |-> "absent"]

\* create(): a fresh record, whatever the table holds for that id.
Created == [status |-> "queued", cancel |-> FALSE, beat |-> "none"]

\* Mutant of HeartbeatStale: a heart-beat that exists is never stale.
HeartbeatMissing(r) == r.beat = "none"

MarkRunning(r) == [r EXCEPT !.status = "running", !.beat = "fresh"]

Heartbeat(r) == [r EXCEPT !.beat = "fresh"]

MarkCompleted(r) == [r EXCEPT !.status = "completed", !.beat = "fresh"]
MarkFailed(r)    == [r EXCEPT !.status = "failed", !.beat = "fresh"]
MarkTimedOut(r)  == [r EXCEPT !.status = "timed_out", !.beat = "fresh"]
MarkCancelled(r) ==
  [r EXCEPT !.status = "cancelled", !.beat = "fresh", !.cancel = TRUE]

\* requestCancellation(): the status is decided from the record of a first
\* read (existing), the other fields come from the record update() reads next.
RequestCancellation(existing, r) ==
  [r EXCEPT !.status = IF existing = "queued" THEN "cancelled" ELSE existing,
            !.cancel = TRUE]

\* isHeartbeatStale(): a missing heart-beat counts as stale.
HeartbeatStale(r) == r.beat \in {"none", "stale"}

\* The record once JOB_STALE_HEARTBEAT_MS have passed since its heart-beat.
Aged(r) == IF r = NoRecord \/ r.beat # "fresh" THEN r
           ELSE [r EXCEPT !.beat = "stale"]
=============================================================================
