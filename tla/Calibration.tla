----------------------------- MODULE Calibration -----------------------------
(***************************************************************************)
(* The Calibration Lab's record of one thesis window (CalibrationService): *)
(* the canonical evaluation, its reruns, the ledger of promotions and      *)
(* resets that says which of them is active, and the outcome review that   *)
(* freezes it.  Every request reads what it needs, awaits the engine or    *)
(* the database, and writes on the strength of what it read; nothing is    *)
(* locked.  What keeps it together are three unique indexes, foreign keys, *)
(* idempotency keys and the time stamps of one API process.                *)
(*                                                                         *)
(* A row is named by the request that wrote it.  The evaluation is mature  *)
(* and has a result that can be reviewed.                                  *)
(***************************************************************************)
EXTENDS Naturals, FiniteSets

CONSTANTS
  Requests,   \* requests of editors, each made once; a retry is another one
  Old,        \* completed reruns that are there when the model begins
  Keys,       \* idempotency keys
  MaxTicks,   \* bound: the milliseconds that pass
  MaxCrashes  \* bound: restarts of the API

None == "none"
Base == "base"

ASSUME CalibrationAssumption ==
  /\ Requests \cap Old = {} /\ None \notin Requests \cup Old \cup Keys
  /\ Base \notin Requests \cup Old
  /\ MaxTicks \in Nat /\ MaxCrashes \in Nat

Reruns == Requests \cup Old
Kinds == {None, "evaluate", "rerun", "promote", "reset", "review"}

VARIABLES
  evaluation,  \* none, there, or gone with its thesis
  linked,      \* its outcome_review_id
  reviews,     \* rows of outcome_reviews
  runs,        \* status of each row of thesis_evaluation_runs
  ledger,      \* rows of thesis_evaluation_promotions
  stamp,       \* their promoted_at, chosen before the row is written
  clock, last, \* Date.now() and lastPromotionTimestampMs
  pc, kind, key, effect,  \* per request: step, kind, idempotency key, and the
                          \* rerun to promote, or Base for a reset
  seen,        \* requests that read the evaluation with a review
  snapshot,    \* what the statement of an upsert sees
  answer, shown,          \* the answer, and the rerun or promotion in it
  called, met, crashes    \* history: requests that called the engine, and
                          \* requests under way at the same time

rows  == <<evaluation, linked, reviews, runs, ledger>>
times == <<stamp, clock, last>>
input == <<kind, key, effect>>
vars == <<rows, times, pc, input, seen, snapshot, answer, shown, called, met,
          crashes>>

TypeOK ==
  /\ evaluation \in {None, "there", "gone"} /\ linked \in Requests \cup {None}
  /\ reviews \subseteq Requests /\ ledger \subseteq Requests
  /\ runs \in [Reruns -> {None, "completed", "failed"}]
  /\ stamp \in [Requests -> Nat] /\ clock \in Nat /\ last \in Nat
  /\ pc \in [Requests -> {"new", "engine", "insert", "fail", "key", "latest",
                          "policy", "link", "done"}]
  /\ kind \in [Requests -> Kinds] /\ key \in [Requests -> Keys \cup {None}]
  /\ effect \in [Requests -> Reruns \cup {Base, None}]
  /\ seen \subseteq Requests
  /\ snapshot \in [Requests -> {None, "there", "gone"}]
  /\ answer \in [Requests -> {None, "created", "existing", "blocked", "error",
                              "lost"}]
  /\ shown \in [Requests -> Reruns \cup {None}]
  /\ called \subseteq Requests /\ met \in [Requests -> SUBSET Requests]
  /\ crashes \in Nat

\* Nothing yet, or an evaluation with reruns.
Init ==
  /\ evaluation \in {None, "there"} /\ linked = None /\ reviews = {}
  /\ runs = [r \in Reruns |-> IF r \in Old /\ evaluation = "there"
                              THEN "completed" ELSE None]
  /\ ledger = {} /\ stamp = [q \in Requests |-> 0] /\ clock = 1 /\ last = 0
  /\ pc = [q \in Requests |-> "new"] /\ kind = [q \in Requests |-> None]
  /\ key = [q \in Requests |-> None] /\ effect = [q \in Requests |-> None]
  /\ seen = {} /\ snapshot = [q \in Requests |-> None]
  /\ answer = [q \in Requests |-> None] /\ shown = [q \in Requests |-> None]
  /\ called = {} /\ met = [q \in Requests |-> {}] /\ crashes = 0

-----------------------------------------------------------------------------
Pending == {q \in Requests : pc[q] \notin {"new", "done"}}

Meets(q) ==
  met' = [p \in Requests |-> IF p = q THEN Pending
                             ELSE IF p \in Pending THEN met[p] \cup {q}
                             ELSE met[p]]

Begins(q, what, k, target) ==
  /\ pc[q] = "new"
  /\ kind' = [kind EXCEPT ![q] = what] /\ key' = [key EXCEPT ![q] = k]
  /\ effect' = [effect EXCEPT ![q] = target]
  /\ Meets(q)

Goes(q, from, to) == pc[q] = from /\ pc' = [pc EXCEPT ![q] = to]

Answers(q, from, what) ==
  Goes(q, from, "done") /\ answer' = [answer EXCEPT ![q] = what]

-----------------------------------------------------------------------------
(* evaluateThesisForWorkspace *)

\* The window is looked up by its natural key.
Evaluate(q) ==
  /\ Begins(q, "evaluate", None, None)
  /\ evaluation # "gone"
  /\ IF evaluation = "there" THEN Answers(q, "new", "existing")
     ELSE Goes(q, "new", "engine") /\ UNCHANGED answer
  /\ UNCHANGED <<rows, times, seen, snapshot, shown, called, crashes>>

\* The engine answers; the statement of the upsert begins and takes its
\* snapshot, or the request fails.
EngineEvaluates(q) ==
  /\ kind[q] = "evaluate"
  /\ called' = called \cup {q}
  /\ \/ /\ Goes(q, "engine", "insert")
        /\ snapshot' = [snapshot EXCEPT ![q] = evaluation]
        /\ UNCHANGED answer
     \/ Answers(q, "engine", "error") /\ UNCHANGED snapshot
  /\ UNCHANGED <<rows, times, input, seen, shown, met, crashes>>

\* Mutant of Conflicts: the index has no ON CONFLICT for the window.
ConflictsNever == FALSE

\* The unique index of the window.
Conflicts == evaluation = "there"

\* INSERT ... ON CONFLICT DO NOTHING, and a SELECT of the same statement for
\* the row that was there: it does not see one committed since its snapshot,
\* and then no row comes back.
Upserts(q) ==
  /\ kind[q] = "evaluate"
  /\ CASE evaluation = "gone" -> Answers(q, "insert", "error")
       [] evaluation # "gone" /\ ~Conflicts -> Answers(q, "insert", "created")
       [] OTHER -> Answers(q, "insert", IF snapshot[q] = "there"
                                        THEN "existing" ELSE "error")
  /\ evaluation' = IF evaluation = None THEN "there" ELSE evaluation
  /\ UNCHANGED <<linked, reviews, runs, ledger, times, input, seen, snapshot,
                 shown, called, met, crashes>>

-----------------------------------------------------------------------------
(* createEvaluationRerun *)

KeyRuns(k) ==
  {r \in Requests : runs[r] # None /\ key[r] = k /\ k # None}

\* The evaluation is read, then the run with the request's key.
Rerun(q, k) ==
  /\ evaluation = "there"
  /\ Begins(q, "rerun", k, None)
  /\ \/ \E r \in KeyRuns(k) :
          /\ Answers(q, "new", "existing")
          /\ shown' = [shown EXCEPT ![q] = r]
     \/ /\ KeyRuns(k) = {}
        /\ Goes(q, "new", "engine") /\ UNCHANGED <<answer, shown>>
  /\ UNCHANGED <<rows, times, seen, snapshot, called, crashes>>

EngineReruns(q) ==
  /\ kind[q] = "rerun"
  /\ called' = called \cup {q}
  /\ Goes(q, "engine", "insert") \/ Goes(q, "engine", "fail")
  /\ UNCHANGED <<rows, times, input, seen, snapshot, answer, shown, met,
                 crashes>>

\* Mutant of RunRefused: without the index of the keys.
RunRefusedGone(q) == evaluation = "gone"

\* The insert is refused by the index of the keys or the foreign key.
RunRefused(q) == KeyRuns(key[q]) # {} \/ evaluation = "gone"

\* A completed run; a refusal is caught like an engine that failed.
WritesRun(q) ==
  /\ kind[q] = "rerun"
  /\ IF RunRefused(q)
     THEN Goes(q, "insert", "fail") /\ UNCHANGED <<answer, runs, shown>>
     ELSE /\ runs' = [runs EXCEPT ![q] = "completed"]
          /\ shown' = [shown EXCEPT ![q] = q]
          /\ Answers(q, "insert", "created")
  /\ UNCHANGED <<evaluation, linked, reviews, ledger, times, input, seen,
                 snapshot, called, met, crashes>>

\* catch: a failed run with the same key, then the error is thrown on.
WritesFailed(q) ==
  /\ kind[q] = "rerun"
  /\ IF RunRefused(q) THEN UNCHANGED runs
     ELSE runs' = [runs EXCEPT ![q] = "failed"]
  /\ Answers(q, "fail", "error")
  /\ UNCHANGED <<evaluation, linked, reviews, ledger, times, input, seen,
                 snapshot, shown, called, met, crashes>>

-----------------------------------------------------------------------------
(* promoteEvaluationRerun, resetEvaluationVersionPolicy *)

SeesReview(q) == seen' = IF linked # None THEN seen \cup {q} ELSE seen

\* The evaluation is read.
Promote(q, k, target) ==
  /\ evaluation = "there"
  /\ IF target = Base THEN Begins(q, "reset", k, Base)
     ELSE runs[target] # None /\ Begins(q, "promote", k, target)
  /\ Goes(q, "new", "key")
  /\ SeesReview(q)
  /\ UNCHANGED <<rows, times, snapshot, answer, shown, called, crashes>>

KeyEvents(k) == {e \in ledger : key[e] = k /\ k # None}

\* Mutant of MayPromote: the review is not looked at.
MayPromoteAny(q) ==
  effect[q] = Base \/ (effect[q] # None /\ runs[effect[q]] = "completed")

\* What was read of the evaluation and, for a promotion, of the rerun.
MayPromote(q) ==
  /\ q \notin seen
  /\ effect[q] = Base \/ (effect[q] # None /\ runs[effect[q]] = "completed")

\* The event with the request's key is looked up first.
ReadsKey(q) ==
  /\ kind[q] \in {"promote", "reset"}
  /\ \/ \E e \in KeyEvents(key[q]) :
          /\ Answers(q, "key", "existing")
          /\ shown' = [shown EXCEPT ![q] = e]
     \/ /\ KeyEvents(key[q]) = {}
        /\ IF MayPromote(q) THEN Goes(q, "key", "latest") /\ UNCHANGED answer
           ELSE Answers(q, "key", "blocked")
        /\ UNCHANGED shown
  /\ UNCHANGED <<rows, times, input, seen, snapshot, called, met, crashes>>

\* ORDER BY promoted_at DESC, id ASC: an id is random, so any of the newest.
Newest == {e \in ledger : \A f \in ledger : stamp[f] <= stamp[e]}

\* nextPromotionTimestamp: never the same twice in one process.
NextStamp == IF clock <= last THEN last + 1 ELSE clock

\* Mutant of SameState: a no-op is not recognised.
SameStateNever(q, l) == FALSE

\* The newest event says what the request asks for (l is None without one).
SameState(q, l) ==
  IF effect[q] = Base THEN l = None \/ (l # None /\ effect[l] = Base)
  ELSE l # None /\ effect[l] = effect[q]

\* The newest event is read; unless it makes the request a no-op, the new
\* event gets its time stamp and its insert is sent.
ReadsLatest(q) ==
  \E l \in IF ledger = {} THEN {None} ELSE Newest :
    /\ IF SameState(q, l)
       THEN Answers(q, "latest", "blocked") /\ UNCHANGED <<stamp, last>>
       ELSE /\ stamp' = [stamp EXCEPT ![q] = NextStamp] /\ last' = NextStamp
            /\ Goes(q, "latest", "insert") /\ UNCHANGED answer
    /\ UNCHANGED <<rows, clock, input, seen, snapshot, shown, called, met,
                   crashes>>

\* The insert, refused by the index of the keys or the foreign keys.
Appends(q) ==
  /\ kind[q] \in {"promote", "reset"}
  /\ IF KeyEvents(key[q]) # {} \/ evaluation = "gone"
     THEN Answers(q, "insert", "error") /\ UNCHANGED ledger
     ELSE /\ ledger' = ledger \cup {q}
          /\ Goes(q, "insert", "policy") /\ UNCHANGED answer
  /\ UNCHANGED <<evaluation, linked, reviews, runs, times, input, seen,
                 snapshot, shown, called, met, crashes>>

\* buildVersionPolicy: the answer names the promotion that is active now.
ShowsPolicy(q) ==
  /\ Answers(q, "policy", "created")
  /\ \E l \in IF ledger = {} THEN {None} ELSE Newest :
       shown' = [shown EXCEPT ![q] = l]
  /\ UNCHANGED <<rows, times, input, seen, snapshot, called, met, crashes>>

-----------------------------------------------------------------------------
(* recordOutcomeReview *)

\* Mutant of Reviewed: the read evaluation is not asked for its review.
ReviewedNever == FALSE

\* What the request reads of the evaluation.
Reviewed == linked # None

\* The evaluation, and its review if it has one, are read.
Review(q) ==
  /\ evaluation = "there"
  /\ Begins(q, "review", None, None)
  /\ IF Reviewed
     THEN /\ Answers(q, "new", "existing")
          /\ shown' = [shown EXCEPT ![q] = linked]
     ELSE Goes(q, "new", "insert") /\ UNCHANGED <<answer, shown>>
  /\ SeesReview(q)
  /\ UNCHANGED <<rows, times, snapshot, called, crashes>>

\* recordThesisReview.
RecordsReview(q) ==
  /\ kind[q] = "review"
  /\ IF evaluation = "gone"
     THEN Answers(q, "insert", "error") /\ UNCHANGED reviews
     ELSE /\ reviews' = reviews \cup {q}
          /\ Goes(q, "insert", "link") /\ UNCHANGED answer
  /\ UNCHANGED <<evaluation, linked, runs, ledger, times, input, seen,
                 snapshot, shown, called, met, crashes>>

\* linkThesisEvaluationOutcomeReview, whatever is linked already; an
\* evaluation that is gone is answered as it was read.
Links(q) ==
  /\ linked' = IF evaluation = "there" THEN q ELSE linked
  /\ Answers(q, "link", "created")
  /\ shown' = [shown EXCEPT ![q] = q]
  /\ UNCHANGED <<evaluation, reviews, runs, ledger, times, input, seen,
                 snapshot, called, met, crashes>>

-----------------------------------------------------------------------------
\* The cascade that deletes the thesis with its research run.
Cascade ==
  /\ evaluation = "there"
  /\ evaluation' = "gone" /\ linked' = None /\ reviews' = {} /\ ledger' = {}
  /\ runs' = [r \in Reruns |-> None]
  /\ UNCHANGED <<times, pc, input, seen, snapshot, answer, shown, called, met,
                 crashes>>

Tick ==
  /\ clock <= MaxTicks /\ clock' = clock + 1
  /\ UNCHANGED <<rows, stamp, last, pc, input, seen, snapshot, answer, shown,
                 called, met, crashes>>

\* The API is restarted, which takes longer than its stamps are ahead of time.
Crash ==
  /\ crashes < MaxCrashes /\ Pending # {}
  /\ crashes' = crashes + 1
  /\ pc' = [q \in Requests |-> IF q \in Pending THEN "done" ELSE pc[q]]
  /\ answer' = [q \in Requests |-> IF q \in Pending THEN "lost" ELSE answer[q]]
  /\ clock' = (IF clock <= last THEN last ELSE clock) + 1
  /\ last' = 0
  /\ UNCHANGED <<rows, stamp, input, seen, snapshot, shown, called, met>>

Next ==
  \/ \E q \in Requests :
       \/ Evaluate(q) \/ EngineEvaluates(q) \/ Upserts(q)
       \/ EngineReruns(q) \/ WritesRun(q) \/ WritesFailed(q)
       \/ ReadsKey(q) \/ ReadsLatest(q) \/ Appends(q) \/ ShowsPolicy(q)
       \/ Review(q) \/ RecordsReview(q) \/ Links(q)
  \/ \E q \in Requests, k \in Keys \cup {None} :
       \/ Rerun(q, k)
       \/ \E target \in Reruns \cup {Base} : Promote(q, k, target)
  \/ Cascade \/ Tick \/ Crash

Spec == Init /\ [][Next]_vars

-----------------------------------------------------------------------------
(* Properties *)

Lost == {q \in Requests : answer[q] = "lost"}

\* However many requests evaluate a window at once, one creates its
\* evaluation, and a request whose engine succeeded is refused only when
\* another one created it meanwhile or the thesis was deleted.
EvaluatedOnce ==
  /\ \A p, q \in Requests :
       p # q /\ {kind[p], kind[q]} = {"evaluate"} =>
         ~(answer[p] = "created" /\ answer[q] = "created")
  /\ \A q \in Requests :
       pc[q] = "insert" /\ kind[q] = "evaluate" /\ snapshot[q] = None
         /\ evaluation = "there" =>
           \E p \in met[q] : kind[p] = "evaluate" /\ answer[p] = "created"

\* An idempotency key is one rerun: all answers for it show the same rerun,
\* and a retry does not call the engine again, whether the first request
\* answered or failed, unless it overlapped the first one, the API was
\* restarted, or the thesis is gone.
KeyIsOneRerun ==
  \A p, q \in Requests :
    p # q /\ {kind[p], kind[q]} = {"rerun"} /\ key[p] = key[q] /\ key[p] # None
    => /\ shown[p] # None /\ shown[q] # None => shown[p] = shown[q]
       /\ evaluation # "gone" /\ {p, q} \subseteq called \ Lost => p \in met[q]

Before(e, f) == stamp[e] < stamp[f]
Follows(e, f) ==
  Before(e, f) /\ ~\E g \in ledger : Before(e, g) /\ Before(g, f)

\* An event that changes nothing is appended only by requests that overlap:
\* two neighbours of the ledger with one effect met, and the first is no
\* reset.
EventsAlternate ==
  \A f \in ledger :
    /\ \A e \in ledger :
         Follows(e, f) /\ effect[e] = effect[f] => e \in met[f]
    /\ effect[f] = Base => \E e \in ledger : Before(e, f)

\* The version policy is frozen by the review: an event is appended after it
\* only by a request that was under way together with a reviewing one.
FrozenByReview ==
  [][\A q \in ledger' \ ledger :
       linked # None => \E p \in met[q] : kind[p] = "review"]_vars

\* A window has a second outcome review, and a review is not the linked one,
\* only when reviewing requests overlapped or were cut off by a restart.
OneReview ==
  \A p, q \in reviews : p # q => p \in met[q] \/ {p, q} \cap Lost # {}
=============================================================================
