--------------------------- MODULE CalibrationProofs ---------------------------
(***************************************************************************)
(* Theorems about Calibration, for any requests, keys and reruns: its five *)
(* properties.  All rest on one fact: requests that are under way at the   *)
(* same time have met, so that what a request could not see was written by *)
(* one that it met.                                                        *)
(***************************************************************************)
EXTENDS Calibration, TLAPS

LEMMA Distinct ==
  /\ None \notin Reruns /\ None \notin Keys /\ Base \notin Reruns /\ None # Base
  /\ Requests \subseteq Reruns
BY CalibrationAssumption DEF Reruns, None, Base

LEMMA TypeInit == Init => TypeOK
BY Distinct DEF Init, TypeOK, Kinds

LEMMA TypeNext == TypeOK /\ [Next]_vars => TypeOK'
<1> SUFFICES ASSUME TypeOK, [Next]_vars PROVE TypeOK'
  OBVIOUS
<1> USE Distinct DEF TypeOK, Kinds
<1>1. ASSUME NEW q \in Requests, Evaluate(q) PROVE TypeOK'
  BY <1>1 DEF Evaluate, Begins, Meets, Pending, Goes, Answers, rows, times
<1>2. ASSUME NEW q \in Requests, EngineEvaluates(q) PROVE TypeOK'
  BY <1>2 DEF EngineEvaluates, Goes, Answers, rows, times, input
<1>3. ASSUME NEW q \in Requests, Upserts(q) PROVE TypeOK'
  <2>1. \E w \in {"created", "error", "existing"} : Answers(q, "insert", w)
    BY <1>3 DEF Upserts
  <2> QED BY <1>3, <2>1 DEF Upserts, Answers, Goes, times, input
<1>4. ASSUME NEW q \in Requests, EngineReruns(q) PROVE TypeOK'
  BY <1>4 DEF EngineReruns, Goes, rows, times, input
<1>5. ASSUME NEW q \in Requests, WritesRun(q) PROVE TypeOK'
  BY <1>5 DEF WritesRun, Goes, Answers, times, input
<1>6. ASSUME NEW q \in Requests, WritesFailed(q) PROVE TypeOK'
  BY <1>6 DEF WritesFailed, Goes, Answers, times, input
<1>7. ASSUME NEW q \in Requests, ReadsKey(q) PROVE TypeOK'
  BY <1>7 DEF ReadsKey, KeyEvents, Goes, Answers, rows, times, input
<1>8. ASSUME NEW q \in Requests, ReadsLatest(q) PROVE TypeOK'
  <2>1. NextStamp \in Nat
    BY DEF NextStamp
  <2> QED BY <1>8, <2>1 DEF ReadsLatest, Goes, Answers, rows, input
<1>9. ASSUME NEW q \in Requests, Appends(q) PROVE TypeOK'
  BY <1>9 DEF Appends, Goes, Answers, times, input
<1>10. ASSUME NEW q \in Requests, ShowsPolicy(q) PROVE TypeOK'
  BY <1>10 DEF ShowsPolicy, Newest, Goes, Answers, rows, times, input
<1>11. ASSUME NEW q \in Requests, Review(q) PROVE TypeOK'
  BY <1>11 DEF Review, Begins, Meets, Pending, SeesReview, Goes, Answers, rows, times
<1>12. ASSUME NEW q \in Requests, RecordsReview(q) PROVE TypeOK'
  BY <1>12 DEF RecordsReview, Goes, Answers, times, input
<1>13. ASSUME NEW q \in Requests, Links(q) PROVE TypeOK'
  BY <1>13 DEF Links, Goes, Answers, times, input
<1>14. ASSUME NEW q \in Requests, NEW k \in Keys \cup {None}, Rerun(q, k) PROVE TypeOK'
  BY <1>14 DEF Rerun, KeyRuns, Begins, Meets, Pending, Goes, Answers, rows, times
<1>15. ASSUME NEW q \in Requests, NEW k \in Keys \cup {None},
              NEW target \in Reruns \cup {Base}, Promote(q, k, target) PROVE TypeOK'
  BY <1>15 DEF Promote, Begins, Meets, Pending, SeesReview, Goes, rows, times
<1>16. CASE Cascade
  BY <1>16 DEF Cascade, times, input
<1>17. CASE Tick
  BY <1>17 DEF Tick, rows, input
<1>18. CASE Crash
  BY <1>18 DEF Crash, rows, input
<1>19. CASE UNCHANGED vars
  BY <1>19 DEF vars, rows, times, input
<1> QED BY <1>1, <1>2, <1>3, <1>4, <1>5, <1>6, <1>7, <1>8, <1>9, <1>10, <1>11, <1>12,
           <1>13, <1>14, <1>15, <1>16, <1>17, <1>18, <1>19 DEF Next

-----------------------------------------------------------------------------
(* What every step keeps, and who has met whom *)

\* Nothing is known of a request before it begins, and it has no answer before
\* it ends.
Fresh ==
  \A q \in Requests :
    /\ pc[q] = "new" => /\ kind[q] = None /\ key[q] = None /\ stamp[q] = 0
                        /\ runs[q] = None /\ shown[q] = None /\ met[q] = {}
                        /\ q \notin called \cup seen \cup reviews \cup ledger
    /\ pc[q] # "done" => answer[q] = None

\* Which requests take which steps.
Places ==
  \A q \in Requests :
    /\ pc[q] # "new" => kind[q] # None
    /\ pc[q] = "engine" => kind[q] \in {"evaluate", "rerun"}
    /\ pc[q] = "fail" => kind[q] = "rerun"
    /\ pc[q] \in {"key", "latest", "policy"} => kind[q] \in {"promote", "reset"}
    /\ pc[q] = "link" => kind[q] = "review"
    /\ kind[q] \notin {None, "evaluate"} => evaluation # None

\* Requests under way at the same time have met.
Overlap == \A p, q \in Pending : p # q => p \in met[q]

Begun == TypeOK /\ Fresh /\ Places /\ Overlap

LEMMA BegunInit == Init => Begun
<1> SUFFICES ASSUME Init PROVE Begun
  OBVIOUS
<1>1. TypeOK
  BY TypeInit
<1>2. Fresh
  BY CalibrationAssumption DEF Init, Fresh, Reruns
<1>3. Places /\ Overlap
  BY DEF Init, Places, Overlap, Pending
<1> QED BY <1>1, <1>2, <1>3 DEF Begun

\* What no step undoes.
Onward ==
  /\ \A q \in Requests :
       /\ pc[q] # "new" => /\ pc'[q] # "new" /\ kind'[q] = kind[q]
                           /\ key'[q] = key[q] /\ effect'[q] = effect[q]
       /\ pc[q] = "done" => /\ pc'[q] = "done" /\ answer'[q] = answer[q]
                            /\ shown'[q] = shown[q]
       /\ met[q] \subseteq met'[q]
  /\ evaluation # None => evaluation' # None
  /\ evaluation = "gone" => evaluation' = "gone"

\* A request begins; it reads, and is answered at once or goes on.
Starts(q) ==
  /\ pc[q] = "new" /\ pc'[q] \in {"engine", "key", "insert", "done"}
  /\ kind'[q] # None /\ (pc'[q] # "done" => answer'[q] = None)
  /\ pc'[q] # "done" => shown'[q] = None
  /\ \A p \in Requests \ {q} :
       /\ pc'[p] = pc[p] /\ kind'[p] = kind[p] /\ key'[p] = key[p]
       /\ effect'[p] = effect[p] /\ answer'[p] = answer[p] /\ shown'[p] = shown[p]
       /\ p \in seen' <=> p \in seen
  /\ \A p \in Requests : met'[p] = IF p = q THEN Pending
                                   ELSE IF p \in Pending THEN met[p] \cup {q}
                                   ELSE met[p]
  /\ UNCHANGED <<rows, times, snapshot, called, crashes>>

\* A request under way makes its next step, and writes rows of its own.
Continues(q) ==
  /\ q \in Pending /\ pc'[q] # "new" /\ (pc'[q] # "done" => answer'[q] = None)
  /\ \A p \in Requests \ {q} :
       /\ pc'[p] = pc[p] /\ answer'[p] = answer[p] /\ shown'[p] = shown[p]
       /\ runs'[p] = runs[p] /\ stamp'[p] = stamp[p]
       /\ p \in reviews' <=> p \in reviews
       /\ p \in ledger' <=> p \in ledger
       /\ p \in called' <=> p \in called
  /\ evaluation' = evaluation \/ (evaluation = None /\ evaluation' = "there")
  /\ UNCHANGED <<input, met, clock, crashes, seen>>

LEMMA StartsNext ==
  ASSUME Begun, NEW q \in Requests,
         \/ Evaluate(q) \/ Review(q)
         \/ \E k \in Keys \cup {None} :
              Rerun(q, k) \/ \E t \in Reruns \cup {Base} : Promote(q, k, t)
  PROVE  Starts(q)
<1> USE DEF Begun, TypeOK, Fresh, Starts, Begins, Meets, Goes, Answers, None
<1>1. CASE Evaluate(q)
  BY <1>1 DEF Evaluate
<1>2. CASE Review(q)
  BY <1>2 DEF Review, SeesReview
<1>3. ASSUME NEW k \in Keys \cup {None}, Rerun(q, k) PROVE Starts(q)
  BY <1>3 DEF Rerun
<1>4. ASSUME NEW k \in Keys \cup {None}, NEW t \in Reruns \cup {Base}, Promote(q, k, t)
      PROVE  Starts(q)
  <2>1. PICK w \in {"reset", "promote"} : Begins(q, w, k, t)
    BY <1>4 DEF Promote
  <2>2. Goes(q, "new", "key") /\ SeesReview(q)
        /\ UNCHANGED <<rows, times, snapshot, answer, shown, called, crashes>>
    BY <1>4 DEF Promote
  <2> QED BY <2>1, <2>2 DEF SeesReview
<1> QED BY <1>1, <1>2, <1>3, <1>4

LEMMA ContinuesNext ==
  ASSUME Begun, NEW q \in Requests,
         \/ EngineEvaluates(q) \/ Upserts(q) \/ EngineReruns(q) \/ WritesRun(q)
         \/ WritesFailed(q) \/ ReadsKey(q) \/ ReadsLatest(q) \/ Appends(q)
         \/ ShowsPolicy(q) \/ RecordsReview(q) \/ Links(q)
  PROVE  Continues(q)
<1>d. Requests \subseteq Reruns
  BY Distinct
<1> USE DEF Begun, TypeOK, Fresh, Continues, Pending, Goes, Answers
<1>1. CASE EngineEvaluates(q)
  BY <1>1 DEF EngineEvaluates, rows, times, input
<1>2. CASE Upserts(q)
  <2>1. PICK w \in {"created", "error", "existing"} : Answers(q, "insert", w)
    BY <1>2 DEF Upserts
  <2> QED BY <1>2, <2>1 DEF Upserts, times, input
<1>3. CASE EngineReruns(q)
  BY <1>3 DEF EngineReruns, rows, times, input
<1>4. CASE WritesRun(q)
  BY <1>d, <1>4 DEF WritesRun, times, input
<1>5. CASE WritesFailed(q)
  BY <1>d, <1>5 DEF WritesFailed, times, input
<1>6. CASE ReadsKey(q)
  BY <1>6 DEF ReadsKey, rows, times, input
<1>7. CASE ReadsLatest(q)
  BY <1>7 DEF ReadsLatest, rows, input
<1>8. CASE Appends(q)
  BY <1>8 DEF Appends, times, input
<1>9. CASE ShowsPolicy(q)
  BY <1>9 DEF ShowsPolicy, rows, times, input
<1>10. CASE RecordsReview(q)
  BY <1>10 DEF RecordsReview, times, input
<1>11. CASE Links(q)
  BY <1>11 DEF Links, times, input
<1> QED BY <1>1, <1>2, <1>3, <1>4, <1>5, <1>6, <1>7, <1>8, <1>9, <1>10, <1>11

\* Every step is of one of these kinds.
LEMMA StepsNext ==
  ASSUME Begun, [Next]_vars
  PROVE  \/ \E q \in Requests : Starts(q) \/ Continues(q)
         \/ Cascade \/ Tick \/ Crash \/ UNCHANGED vars
<1>1. ASSUME NEW q \in Requests, Evaluate(q) \/ Review(q) PROVE Starts(q)
  BY <1>1, StartsNext
<1>2. ASSUME NEW q \in Requests, NEW k \in Keys \cup {None},
             Rerun(q, k) \/ \E t \in Reruns \cup {Base} : Promote(q, k, t)
      PROVE  Starts(q)
  BY <1>2, StartsNext
<1> QED BY <1>1, <1>2, ContinuesNext DEF Next

LEMMA OnwardNext ==
  ASSUME Begun, [Next]_vars
  PROVE  Onward
<1> USE DEF Begun, TypeOK, Onward, None
<1>1. ASSUME NEW q \in Requests, Starts(q) PROVE Onward
  <2>0. pc[q] = "new" /\ met[q] = {}
    BY <1>1 DEF Starts, Fresh
  <2>1. \A p \in Requests : met[p] \subseteq met'[p]
    <3> TAKE p \in Requests
    <3>1. met'[p] = IF p = q THEN Pending ELSE IF p \in Pending THEN met[p] \cup {q} ELSE met[p]
      BY <1>1 DEF Starts
    <3> HIDE DEF Begun, TypeOK, Onward
    <3> QED BY <3>1, <2>0
  <2>2. evaluation' = evaluation
    BY <1>1 DEF Starts, rows
  <2> QED BY <1>1, <2>1, <2>2 DEF Starts
<1>2. ASSUME NEW q \in Requests, Continues(q) PROVE Onward
  BY <1>2 DEF Continues, Pending, input
<1>3. CASE Cascade \/ Tick
  BY <1>3 DEF Cascade, Tick, rows, times, input
<1>4. CASE Crash
  BY <1>4 DEF Crash, Pending, rows, input
<1>5. CASE UNCHANGED vars
  BY <1>5 DEF vars, rows, times, input
<1> QED BY <1>1, <1>2, <1>3, <1>4, <1>5, StepsNext

LEMMA OverlapNext ==
  ASSUME Begun, [Next]_vars
  PROVE  Overlap'
<1> USE DEF Begun, TypeOK, Overlap, Pending
<1>1. ASSUME NEW q \in Requests, Starts(q) PROVE Overlap'
  BY <1>1 DEF Starts
<1>2. ASSUME NEW q \in Requests, Continues(q) PROVE Overlap'
  BY <1>2 DEF Continues
<1>3. CASE Cascade \/ Tick
  BY <1>3 DEF Cascade, Tick
<1>4. CASE Crash
  BY <1>4 DEF Crash
<1>5. CASE UNCHANGED vars
  BY <1>5 DEF vars
<1> QED BY <1>1, <1>2, <1>3, <1>4, <1>5, StepsNext

LEMMA FreshNext ==
  ASSUME Begun, [Next]_vars
  PROVE  Fresh'
<1> USE DEF Begun, TypeOK, Fresh
<1>1. ASSUME NEW q \in Requests, Starts(q) PROVE Fresh'
  <2>1. UNCHANGED <<runs, reviews, ledger, stamp, called>>
    BY <1>1 DEF Starts, rows, times
  <2>2. \A p \in Requests : pc'[p] = "new" => p # q /\ pc[p] = "new" /\ met'[p] = met[p]
    BY <1>1 DEF Starts, Pending
  <2>3. \A p \in Requests \ {q} :
          /\ pc'[p] = pc[p] /\ kind'[p] = kind[p] /\ key'[p] = key[p]
          /\ answer'[p] = answer[p] /\ shown'[p] = shown[p] /\ (p \in seen' <=> p \in seen)
    BY <1>1 DEF Starts
  <2>4. pc'[q] # "done" => answer'[q] = None
    BY <1>1 DEF Starts
  <2> QED BY <2>1, <2>2, <2>3, <2>4
<1>2. ASSUME NEW q \in Requests, Continues(q) PROVE Fresh'
  BY <1>2 DEF Continues, Pending, input
<1>3. CASE Cascade \/ Tick
  BY <1>3, Distinct DEF Cascade, Tick, rows, times, input
<1>4. CASE Crash
  BY <1>4 DEF Crash, Pending, rows, input
<1>5. CASE UNCHANGED vars
  BY <1>5 DEF vars, rows, times, input
<1> QED BY <1>1, <1>2, <1>3, <1>4, <1>5, StepsNext

LEMMA PlacesNext ==
  ASSUME Begun, [Next]_vars
  PROVE  Places'
<1> USE DEF Begun, TypeOK, Places, Goes, Answers
<1>1. ASSUME NEW q \in Requests, Evaluate(q) PROVE Places'
  BY <1>1 DEF Evaluate, Begins, rows, times, None
<1>2. ASSUME NEW q \in Requests, Review(q) PROVE Places'
  BY <1>2 DEF Review, Begins, rows, times, None
<1>3. ASSUME NEW q \in Requests, EngineEvaluates(q) PROVE Places'
  BY <1>3 DEF EngineEvaluates, rows, times, input
<1>4. ASSUME NEW q \in Requests, Upserts(q) PROVE Places'
  BY <1>4 DEF Upserts, times, input
<1>5. ASSUME NEW q \in Requests, EngineReruns(q) PROVE Places'
  BY <1>5 DEF EngineReruns, rows, times, input
<1>6. ASSUME NEW q \in Requests, WritesRun(q) PROVE Places'
  BY <1>6 DEF WritesRun, times, input
<1>7. ASSUME NEW q \in Requests, WritesFailed(q) PROVE Places'
  BY <1>7 DEF WritesFailed, times, input
<1>8. ASSUME NEW q \in Requests, ReadsKey(q) PROVE Places'
  BY <1>8 DEF ReadsKey, rows, times, input
<1>9. ASSUME NEW q \in Requests, ReadsLatest(q) PROVE Places'
  BY <1>9 DEF ReadsLatest, rows, input
<1>10. ASSUME NEW q \in Requests, Appends(q) PROVE Places'
  BY <1>10 DEF Appends, times, input
<1>11. ASSUME NEW q \in Requests, ShowsPolicy(q) PROVE Places'
  BY <1>11 DEF ShowsPolicy, rows, times, input
<1>12. ASSUME NEW q \in Requests, RecordsReview(q) PROVE Places'
  BY <1>12 DEF RecordsReview, times, input
<1>13. ASSUME NEW q \in Requests, Links(q) PROVE Places'
  BY <1>13 DEF Links, times, input
<1>14. ASSUME NEW q \in Requests, NEW k \in Keys \cup {None}, Rerun(q, k) PROVE Places'
  BY <1>14 DEF Rerun, Begins, rows, None
<1>15. ASSUME NEW q \in Requests, NEW k \in Keys \cup {None},
              NEW t \in Reruns \cup {Base}, Promote(q, k, t) PROVE Places'
  <2>1. PICK w \in {"reset", "promote"} : Begins(q, w, k, t)
    BY <1>15 DEF Promote
  <2>2. evaluation = "there" /\ Goes(q, "new", "key") /\ UNCHANGED rows
    BY <1>15 DEF Promote
  <2> QED BY <2>1, <2>2 DEF Begins, rows, None
<1>16. CASE Cascade \/ Tick
  BY <1>16 DEF Cascade, Tick, rows, input, None
<1>17. CASE Crash
  BY <1>17 DEF Crash, Pending, rows, input
<1>18. CASE UNCHANGED vars
  BY <1>18 DEF vars, rows, input
<1> QED BY <1>1, <1>2, <1>3, <1>4, <1>5, <1>6, <1>7, <1>8, <1>9,
           <1>10, <1>11, <1>12, <1>13, <1>14, <1>15, <1>16, <1>17, <1>18 DEF Next

LEMMA BegunNext == Begun /\ [Next]_vars => Begun'
BY TypeNext, FreshNext, PlacesNext, OverlapNext DEF Begun

\* Requests that are under way at the same time have met, for any number of
\* them; what is not yet begun has written nothing.
THEOREM BegunHolds == Spec => []Begun
BY BegunInit, BegunNext, PTL DEF Spec

-----------------------------------------------------------------------------
(* Reviews *)

\* A request that has found no review, until it is answered or leaves one.
Reviewing ==
  {q \in Requests : kind[q] = "review" /\ (pc[q] \in {"insert", "link"} \/ q \in reviews)}

\* A review is there with its evaluation; once its request was answered the
\* evaluation knows a review, and who reviewed without knowing met.
ReviewInv ==
  /\ \A p \in reviews :
       /\ evaluation = "there" /\ kind[p] = "review" /\ pc[p] \in {"link", "done"}
       /\ pc[p] = "done" /\ p \notin Lost => linked # None
  /\ linked # None => linked \in Requests /\ kind[linked] = "review" /\ pc[linked] # "new"
  /\ \A p, q \in Reviewing : p # q => p \in met[q] \/ {p, q} \cap Lost # {}

LEMMA LostStays ==
  ASSUME Begun, [Next]_vars
  PROVE  /\ Lost \subseteq Lost' /\ \A q \in Lost : pc[q] = "done"
         /\ \A q \in Requests : pc[q] = "done" /\ q \notin Lost => q \notin Lost'
<1>1. \A q \in Lost : pc[q] = "done"
  BY DEF Begun, Fresh, Lost, None
<1> QED BY <1>1, OnwardNext DEF Onward, Lost

\* A step that neither reviews nor restarts the API.
LEMMA ReviewsRest ==
  ASSUME Begun, ReviewInv, [Next]_vars, UNCHANGED <<reviews, linked>>,
         evaluation' = evaluation \/ evaluation # "there",
         \A q \in Requests : kind[q] = "review" /\ pc[q] # "new" => pc'[q] = pc[q],
         \A q \in Requests : pc[q] = "new" /\ pc'[q] # "new" =>
            kind'[q] # "review" \/ pc'[q] = "done"
  PROVE  ReviewInv'
<1>1. Onward
  BY OnwardNext
<1>2. Lost \subseteq Lost' /\ \A q \in Requests : pc[q] = "done" /\ q \notin Lost => q \notin Lost'
  BY LostStays
<1>3. \A p \in reviews' : /\ evaluation' = "there" /\ kind'[p] = "review"
                          /\ pc'[p] \in {"link", "done"} /\ p \in Requests /\ pc[p] # "new"
  BY <1>1 DEF Onward, ReviewInv, Begun, TypeOK
<1>4. \A p \in reviews' : pc'[p] = "done" /\ p \notin Lost' => linked' # None
  BY <1>2, <1>3, <1>1 DEF Onward, ReviewInv, Begun, TypeOK
<1>5. linked' # None => linked' \in Requests /\ kind'[linked'] = "review" /\ pc'[linked'] # "new"
  BY <1>1 DEF Onward, ReviewInv
<1>6. Reviewing' \subseteq Reviewing
  <2> SUFFICES ASSUME NEW q \in Requests, q \in Reviewing' PROVE q \in Reviewing
    BY DEF Reviewing
  <2>1. kind'[q] = "review" /\ (pc'[q] \in {"insert", "link"} \/ q \in reviews)
    BY DEF Reviewing
  <2>2. pc[q] # "new"
    <3>1. CASE q \in reviews
      BY <3>1 DEF ReviewInv
    <3>2. CASE pc'[q] \in {"insert", "link"}
      BY <3>2, <2>1
    <3> QED BY <2>1, <3>1, <3>2
  <2>3. kind[q] = "review" /\ pc'[q] = pc[q]
    BY <1>1, <2>1, <2>2 DEF Onward
  <2> QED BY <2>1, <2>3 DEF Reviewing
<1>7. \A p, q \in Reviewing' : p # q => p \in met'[q] \/ {p, q} \cap Lost' # {}
  BY <1>1, <1>2, <1>6 DEF Onward, ReviewInv, Reviewing
<1> QED BY <1>3, <1>4, <1>5, <1>7 DEF ReviewInv

LEMMA ReviewBegins ==
  ASSUME Begun, ReviewInv, [Next]_vars, NEW q \in Requests, Review(q)
  PROVE  ReviewInv'
<1>1. Onward /\ Starts(q)
  BY OnwardNext, StartsNext
<1>2. Lost \subseteq Lost' /\ \A p \in Requests : pc[p] = "done" /\ p \notin Lost => p \notin Lost'
  BY LostStays
<1>3. /\ pc[q] = "new" /\ q \notin reviews /\ evaluation = "there"
      /\ UNCHANGED <<reviews, linked, evaluation>>
      /\ linked # None => pc'[q] = "done"
      /\ \A p \in Requests \ {q} : pc'[p] = pc[p] /\ kind'[p] = kind[p]
  BY <1>1 DEF Review, Reviewed, Starts, Answers, Goes, rows, Begun, TypeOK, Fresh
<1>m. \A p \in Pending : p \in met'[q] /\ q \in met'[p]
  BY <1>1 DEF Starts, Pending
<1>4. \A p \in reviews' : /\ evaluation' = "there" /\ kind'[p] = "review"
                          /\ pc'[p] \in {"link", "done"} /\ p \in Requests /\ p # q
  BY <1>3 DEF ReviewInv, Begun, TypeOK
<1>5. \A p \in reviews' : pc'[p] = "done" /\ p \notin Lost' => linked' # None
  BY <1>2, <1>3, <1>4 DEF ReviewInv, Begun, TypeOK
<1>6. linked' # None => linked' \in Requests /\ kind'[linked'] = "review" /\ pc'[linked'] # "new"
  BY <1>1, <1>3 DEF Onward, ReviewInv
<1>7. Reviewing' \subseteq Reviewing \cup {q}
  BY <1>3 DEF Reviewing
<1>8. q \in Reviewing' => \A p \in Reviewing : p \in Pending \/ p \in Lost
  <2> SUFFICES ASSUME q \in Reviewing', NEW p \in Reviewing, p \notin Pending, p \notin Lost
               PROVE  FALSE
    OBVIOUS
  <2>1. linked = None
    BY <1>3 DEF Reviewing
  <2>2. p \in reviews /\ pc[p] = "done"
    BY DEF Reviewing, Pending, ReviewInv
  <2> QED BY <2>1, <2>2 DEF ReviewInv
<1>9. \A p, r \in Reviewing' : p # r => p \in met'[r] \/ {p, r} \cap Lost' # {}
  <2> SUFFICES ASSUME NEW p \in Reviewing', NEW r \in Reviewing', p # r
               PROVE  p \in met'[r] \/ {p, r} \cap Lost' # {}
    OBVIOUS
  <2>1. CASE p # q /\ r # q
    BY <2>1, <1>1, <1>2, <1>7 DEF Onward, ReviewInv, Reviewing
  <2>2. CASE p = q \/ r = q
    BY <2>2, <1>2, <1>7, <1>8, <1>m
  <2> QED BY <2>1, <2>2
<1> QED BY <1>4, <1>5, <1>6, <1>9 DEF ReviewInv

LEMMA ReviewGoesOn ==
  ASSUME Begun, ReviewInv, [Next]_vars, NEW q \in Requests, RecordsReview(q) \/ Links(q)
  PROVE  ReviewInv'
<1>1. Onward /\ Continues(q)
  BY OnwardNext, ContinuesNext
<1>2. Lost \subseteq Lost' /\ \A p \in Requests : pc[p] = "done" /\ p \notin Lost => p \notin Lost'
  BY LostStays
<1>3. /\ kind[q] = "review" /\ evaluation' = evaluation
      /\ pc[q] \in {"insert", "link"} /\ pc'[q] \in {"link", "done"}
      /\ \A p \in Requests \ {q} : pc'[p] = pc[p] /\ (p \in reviews' <=> p \in reviews)
      /\ kind' = kind /\ met' = met
  BY <1>1 DEF RecordsReview, Links, Continues, Goes, Answers, Begun, TypeOK, Places, input
<1>4. /\ q \in reviews' => evaluation = "there" /\ (pc'[q] = "done" => linked' # None)
      /\ linked' \in {linked, q}
      /\ reviews' \subseteq Requests
  <2>1. CASE RecordsReview(q)
    <3>1. linked' = linked /\ (evaluation = "gone" => reviews' = reviews)
      BY <2>1 DEF RecordsReview
    <3>2. q \notin reviews
      BY <2>1, <1>3 DEF RecordsReview, Answers, Goes, ReviewInv
    <3>3. evaluation # "gone" => pc'[q] = "link" /\ reviews' = reviews \cup {q}
      BY <2>1 DEF RecordsReview, Goes, Begun, TypeOK
    <3>4. evaluation \in {"there", "gone"}
      BY <1>3 DEF Begun, TypeOK, Places, None
    <3> QED BY <3>1, <3>2, <3>3, <3>4 DEF Begun, TypeOK
  <2>2. CASE Links(q)
    <3>1. reviews' = reviews /\ linked' = IF evaluation = "there" THEN q ELSE linked
      BY <2>2 DEF Links
    <3>2. q # None
      BY Distinct
    <3> QED BY <3>1, <3>2 DEF ReviewInv, Begun, TypeOK
  <2> QED BY <2>1, <2>2
<1>5. \A p \in reviews' :
        /\ evaluation' = "there" /\ kind'[p] = "review" /\ pc'[p] \in {"link", "done"}
        /\ pc'[p] = "done" /\ p \notin Lost' => linked' # None
  <2> SUFFICES ASSUME NEW p \in reviews'
               PROVE  /\ evaluation' = "there" /\ kind'[p] = "review"
                      /\ pc'[p] \in {"link", "done"}
                      /\ pc'[p] = "done" /\ p \notin Lost' => linked' # None
    OBVIOUS
  <2>1. CASE p = q
    BY <2>1, <1>3, <1>4
  <2>2. CASE p # q
    <3>1. p \in Requests /\ p \in reviews /\ pc'[p] = pc[p]
      BY <2>2, <1>3, <1>4
    <3> QED BY <3>1, <1>2, <1>3, <1>4, Distinct DEF ReviewInv
  <2> QED BY <2>1, <2>2
<1>6. linked' # None => linked' \in Requests /\ kind'[linked'] = "review" /\ pc'[linked'] # "new"
  BY <1>1, <1>3, <1>4 DEF Onward, ReviewInv
<1>7. Reviewing' \subseteq Reviewing
  BY <1>3 DEF Reviewing
<1>8. \A p, r \in Reviewing' : p # r => p \in met'[r] \/ {p, r} \cap Lost' # {}
  BY <1>2, <1>3, <1>7 DEF ReviewInv
<1> QED BY <1>5, <1>6, <1>8 DEF ReviewInv

LEMMA ReviewStarts ==
  ASSUME Begun, ReviewInv, [Next]_vars, NEW q \in Requests, Starts(q), kind'[q] # "review"
  PROVE  ReviewInv'
<1>1. UNCHANGED <<reviews, linked, evaluation>>
  BY DEF Starts, rows
<1>2. \A p \in Requests \ {q} : pc'[p] = pc[p]
  BY DEF Starts
<1>3. pc[q] = "new"
  BY DEF Starts
<1> QED BY <1>1, <1>2, <1>3, ReviewsRest

LEMMA ReviewRests ==
  ASSUME Begun, ReviewInv, [Next]_vars, NEW q \in Requests, Continues(q),
         kind[q] # "review", UNCHANGED <<reviews, linked>>
  PROVE  ReviewInv'
<1>1. evaluation' = evaluation \/ evaluation # "there"
  BY DEF Continues, None
<1>2. \A p \in Requests \ {q} : pc'[p] = pc[p]
  BY DEF Continues
<1>3. pc[q] # "new"
  BY DEF Continues, Pending
<1> QED BY <1>1, <1>2, <1>3, ReviewsRest

LEMMA ReviewNext ==
  ASSUME Begun, ReviewInv, [Next]_vars
  PROVE  ReviewInv'
<1>1. ASSUME NEW q \in Requests, Evaluate(q) PROVE ReviewInv'
  <2>1. kind'[q] = "evaluate"
    BY <1>1 DEF Evaluate, Begins, Begun, TypeOK
  <2> QED BY <1>1, <2>1, StartsNext, ReviewStarts
<1>2. ASSUME NEW q \in Requests, NEW k \in Keys \cup {None}, Rerun(q, k) PROVE ReviewInv'
  <2>1. kind'[q] = "rerun"
    BY <1>2 DEF Rerun, Begins, Begun, TypeOK
  <2> QED BY <1>2, <2>1, StartsNext, ReviewStarts
<1>3. ASSUME NEW q \in Requests, NEW k \in Keys \cup {None},
             NEW t \in Reruns \cup {Base}, Promote(q, k, t) PROVE ReviewInv'
  <2>1. kind'[q] \in {"promote", "reset"}
    BY <1>3 DEF Promote, Begins, Begun, TypeOK
  <2> QED BY <1>3, <2>1, StartsNext, ReviewStarts
<1>4. ASSUME NEW q \in Requests, Review(q) PROVE ReviewInv'
  BY <1>4, ReviewBegins
<1>5. ASSUME NEW q \in Requests, RecordsReview(q) \/ Links(q) PROVE ReviewInv'
  BY <1>5, ReviewGoesOn
<1>6. ASSUME NEW q \in Requests, EngineEvaluates(q) \/ EngineReruns(q) \/ ReadsKey(q)
      PROVE  ReviewInv'
  <2>1. kind[q] # "review" /\ UNCHANGED <<reviews, linked>>
    BY <1>6 DEF EngineEvaluates, EngineReruns, ReadsKey, rows
  <2> QED BY <1>6, <2>1, ContinuesNext, ReviewRests
<1>7. ASSUME NEW q \in Requests, Upserts(q) \/ WritesRun(q) \/ WritesFailed(q) \/ Appends(q)
      PROVE  ReviewInv'
  <2>1. kind[q] # "review" /\ UNCHANGED <<reviews, linked>>
    BY <1>7 DEF Upserts, WritesRun, WritesFailed, Appends
  <2> QED BY <1>7, <2>1, ContinuesNext, ReviewRests
<1>8. ASSUME NEW q \in Requests, ReadsLatest(q) \/ ShowsPolicy(q) PROVE ReviewInv'
  <2>1. pc[q] \in {"latest", "policy"} /\ UNCHANGED <<reviews, linked>>
    BY <1>8 DEF ReadsLatest, ShowsPolicy, Goes, Answers, rows
  <2> QED BY <1>8, <2>1, ContinuesNext, ReviewRests DEF Begun, Places
<1>9. CASE Cascade
  <2>1. Lost \subseteq Lost'
    BY LostStays
  <2>2. /\ reviews' = {} /\ linked' = None /\ kind' = kind /\ pc' = pc /\ met' = met
    BY <1>9 DEF Cascade, input
  <2>3. Reviewing' \subseteq Reviewing
    BY <2>2 DEF Reviewing
  <2> QED BY <2>1, <2>2, <2>3 DEF ReviewInv
<1>10. CASE Crash
  <2>1. Lost \subseteq Lost'
    BY LostStays
  <2>2. UNCHANGED <<reviews, linked, evaluation, kind, met>>
    BY <1>10 DEF Crash, rows, input
  <2>3. \A q \in Requests : /\ pc[q] \in {"new", "done"} => pc'[q] = pc[q]
                            /\ pc[q] \notin {"new", "done"} => pc'[q] = "done" /\ q \in Lost'
    BY <1>10 DEF Crash, Pending, Lost, Begun, TypeOK
  <2>4. Reviewing' \subseteq Reviewing
    BY <2>2, <2>3 DEF Reviewing, Begun, TypeOK
  <2>5. \A p, q \in Reviewing' : p # q => p \in met'[q] \/ {p, q} \cap Lost' # {}
    BY <2>1, <2>2, <2>4 DEF ReviewInv
  <2>6. \A p \in reviews' : p \in Requests /\ pc'[p] = "done"
                            /\ (p \notin Lost' => pc[p] = "done" /\ p \notin Lost)
    BY <2>1, <2>2, <2>3 DEF ReviewInv, Begun, TypeOK
  <2>7. linked' # None => linked' \in Requests /\ kind'[linked'] = "review" /\ pc'[linked'] # "new"
    BY <2>2, <2>3 DEF ReviewInv
  <2> QED BY <2>2, <2>5, <2>6, <2>7 DEF ReviewInv
<1>11. CASE Tick \/ UNCHANGED vars
  <2>1. UNCHANGED <<reviews, linked, evaluation, pc, kind>>
    BY <1>11 DEF Tick, vars, rows, input
  <2> QED BY <2>1, ReviewsRest
<1> QED BY <1>1, <1>2, <1>3, <1>4, <1>5, <1>6, <1>7, <1>8, <1>9, <1>10, <1>11 DEF Next

\* A window has a second outcome review, and a review is not the linked one,
\* only when the requests that wrote them overlapped or were cut off by a
\* restart (recordOutcomeReview).
THEOREM OneReviewHolds == Spec => []OneReview
<1>1. Init => ReviewInv
  BY Distinct DEF Init, ReviewInv, Reviewing
<1>2. Begun /\ ReviewInv => OneReview
  BY DEF ReviewInv, Reviewing, OneReview, Begun, TypeOK
<1> QED BY <1>1, <1>2, ReviewNext, BegunHolds, PTL DEF Spec

-----------------------------------------------------------------------------
(* Promotions and resets after a review *)

\* One that goes on read no review; if there is one by now, its request met
\* the one that left it.
FrozenInv ==
  \A q \in Requests : kind[q] \in {"promote", "reset"} =>
    /\ pc[q] \in {"latest", "insert"} => q \notin seen
    /\ q \in Pending /\ q \notin seen /\ linked # None =>
         \E p \in met[q] : kind[p] = "review"

\* A step that leaves the promotions and resets where they are, or ends them.
LEMMA FrozenRest ==
  ASSUME Begun, FrozenInv, [Next]_vars, linked' \in {linked, None},
         \A q \in Requests : kind'[q] \in {"promote", "reset"} =>
            /\ kind[q] = kind'[q] /\ (q \in seen' <=> q \in seen)
            /\ q \in Pending' => q \in Pending
            /\ pc'[q] \in {"latest", "insert"} => pc[q] \in {"latest", "insert"}
  PROVE  FrozenInv'
<1>1. Onward
  BY OnwardNext
<1>2. \A q \in Requests : \A p \in met[q] : kind[p] = "review" =>
         p \in met'[q] /\ kind'[p] = "review"
  BY <1>1 DEF Onward, Begun, TypeOK, Fresh, None
<1> QED BY <1>2 DEF FrozenInv

LEMMA FrozenStarts ==
  ASSUME Begun, FrozenInv, [Next]_vars, NEW q \in Requests, Starts(q),
         kind'[q] \notin {"promote", "reset"}
  PROVE  FrozenInv'
<1>1. linked' = linked
  BY DEF Starts, rows
<1>2. \A p \in Requests \ {q} : /\ pc'[p] = pc[p] /\ kind'[p] = kind[p]
                                /\ p \in seen' <=> p \in seen
  BY DEF Starts
<1> QED BY <1>1, <1>2, FrozenRest DEF Pending

LEMMA FrozenContinues ==
  ASSUME Begun, FrozenInv, [Next]_vars, NEW q \in Requests, Continues(q), linked' = linked,
         \/ kind[q] \notin {"promote", "reset"}
         \/ pc'[q] \in {"latest", "insert"} => pc[q] \in {"latest", "insert"}
  PROVE  FrozenInv'
<1>1. UNCHANGED <<kind, seen>> /\ q \in Pending
  BY DEF Continues, input
<1>2. \A p \in Requests \ {q} : pc'[p] = pc[p]
  BY DEF Continues
<1> QED BY <1>1, <1>2, FrozenRest DEF Pending

LEMMA FrozenNext ==
  ASSUME Begun, FrozenInv, [Next]_vars
  PROVE  FrozenInv'
<1>1. ASSUME NEW q \in Requests, Evaluate(q) PROVE FrozenInv'
  <2>1. kind'[q] = "evaluate"
    BY <1>1 DEF Evaluate, Begins, Begun, TypeOK
  <2> QED BY <1>1, <2>1, StartsNext, FrozenStarts
<1>2. ASSUME NEW q \in Requests, NEW k \in Keys \cup {None}, Rerun(q, k) PROVE FrozenInv'
  <2>1. kind'[q] = "rerun"
    BY <1>2 DEF Rerun, Begins, Begun, TypeOK
  <2> QED BY <1>2, <2>1, StartsNext, FrozenStarts
<1>3. ASSUME NEW q \in Requests, NEW k \in Keys \cup {None},
             NEW t \in Reruns \cup {Base}, Promote(q, k, t) PROVE FrozenInv'
  <2>1. Starts(q) /\ Onward
    BY <1>3, StartsNext, OnwardNext
  <2>2. pc'[q] = "key" /\ (linked # None => q \in seen') /\ linked' = linked
    BY <1>3 DEF Promote, Goes, SeesReview, rows, Begun, TypeOK
  <2>3. \A p \in Requests \ {q} : /\ pc'[p] = pc[p] /\ kind'[p] = kind[p]
                                  /\ p \in seen' <=> p \in seen
    BY <2>1 DEF Starts
  <2>4. \A r \in Requests : \A p \in met[r] : kind[p] = "review" =>
           p \in met'[r] /\ kind'[p] = "review"
    BY <2>1 DEF Onward, Begun, TypeOK, Fresh, None
  <2>5. \A r \in Requests \ {q} : r \in Pending' => r \in Pending
    BY <2>3 DEF Pending
  <2> QED BY <2>2, <2>3, <2>4, <2>5 DEF FrozenInv
<1>4. ASSUME NEW q \in Requests, Review(q) PROVE FrozenInv'
  <2>1. kind'[q] = "review"
    BY <1>4 DEF Review, Begins, Begun, TypeOK
  <2> QED BY <1>4, <2>1, StartsNext, FrozenStarts
<1>5. ASSUME NEW q \in Requests, Links(q) PROVE FrozenInv'
  <2>1. Continues(q)
    BY <1>5, ContinuesNext
  <2>2. kind[q] = "review" /\ q \in Pending /\ UNCHANGED <<kind, met, seen>>
    BY <1>5, <2>1 DEF Links, Answers, Goes, Continues, Begun, Places, input
  <2>3. \A p \in Requests \ {q} : pc'[p] = pc[p]
    BY <2>1 DEF Continues
  <2>4. \A p \in Requests : p \in Pending /\ p # q => q \in met[p]
    BY <2>2 DEF Begun, Overlap
  <2> QED BY <2>2, <2>3, <2>4 DEF FrozenInv, Pending
<1>6. ASSUME NEW q \in Requests,
             EngineEvaluates(q) \/ EngineReruns(q) \/ Upserts(q) \/ WritesRun(q)
             \/ WritesFailed(q) \/ RecordsReview(q)
      PROVE  FrozenInv'
  <2>1. kind[q] \notin {"promote", "reset"} /\ linked' = linked
    BY <1>6 DEF EngineEvaluates, EngineReruns, Upserts, WritesRun, WritesFailed,
                RecordsReview, rows
  <2> QED BY <1>6, <2>1, ContinuesNext, FrozenContinues
<1>7. ASSUME NEW q \in Requests, ReadsKey(q) PROVE FrozenInv'
  <2>1. Continues(q) /\ linked' = linked /\ kind' = kind /\ seen' = seen /\ met' = met
    BY <1>7, ContinuesNext DEF ReadsKey, rows, input
  <2>2. pc'[q] \in {"latest", "insert"} => q \notin seen
    BY <1>7 DEF ReadsKey, MayPromote, Answers, Goes, Begun, TypeOK
  <2>3. \A p \in Requests \ {q} : pc'[p] = pc[p]
    BY <2>1 DEF Continues
  <2>4. q \in Pending
    BY <2>1 DEF Continues
  <2>5. \A p \in Requests : p \in Pending' => p \in Pending
    BY <2>3, <2>4 DEF Pending
  <2> QED BY <2>1, <2>2, <2>3, <2>5 DEF FrozenInv
<1>8. ASSUME NEW q \in Requests, ReadsLatest(q) \/ Appends(q) \/ ShowsPolicy(q)
      PROVE  FrozenInv'
  <2>1. linked' = linked
    BY <1>8 DEF ReadsLatest, Appends, ShowsPolicy, rows
  <2>2. pc'[q] \in {"latest", "insert"} => pc[q] \in {"latest", "insert"}
    BY <1>8 DEF ReadsLatest, Appends, ShowsPolicy, Goes, Answers, Begun, TypeOK
  <2> QED BY <1>8, <2>1, <2>2, ContinuesNext, FrozenContinues
<1>9. CASE Cascade \/ Tick
  <2>1. UNCHANGED <<kind, pc, seen>> /\ linked' \in {linked, None}
    BY <1>9 DEF Cascade, Tick, rows, input
  <2> QED BY <2>1, FrozenRest DEF Pending
<1>10. CASE Crash
  <2>1. /\ UNCHANGED <<kind, seen, linked>>
        /\ \A q \in Requests : pc'[q] \in {pc[q], "done"}
    BY <1>10 DEF Crash, rows, input, Begun, TypeOK
  <2> QED BY <2>1, FrozenRest DEF Pending
<1>11. CASE UNCHANGED vars
  <2>1. UNCHANGED <<kind, pc, seen, linked>>
    BY <1>11 DEF vars, rows, input
  <2> QED BY <2>1, FrozenRest DEF Pending
<1> QED BY <1>1, <1>2, <1>3, <1>4, <1>5, <1>6, <1>7, <1>8, <1>9, <1>10, <1>11 DEF Next

\* A new event of the ledger is written by Appends alone.
LEMMA LedgerGrows ==
  ASSUME Begun, [Next]_vars, NEW q \in Requests, q \in ledger' \ ledger
  PROVE  Appends(q)
<1>1. \A p \in Requests : Starts(p) => ledger' = ledger
  BY DEF Starts, rows
<1>2. \A p \in Requests : p # q => ~Continues(p)
  BY DEF Continues
<1>3. ~(Cascade \/ Tick \/ Crash \/ UNCHANGED vars)
  BY DEF Cascade, Tick, Crash, vars, rows
<1>4. \A p \in Requests : ~(Evaluate(p) \/ Review(p))
  BY <1>1, StartsNext
<1>5. \A p \in Requests, k \in Keys \cup {None} :
        ~(Rerun(p, k) \/ \E t \in Reruns \cup {Base} : Promote(p, k, t))
  BY <1>1, StartsNext
<1>6. \A p \in Requests \ {q} :
        ~(\/ EngineEvaluates(p) \/ Upserts(p) \/ EngineReruns(p) \/ WritesRun(p)
          \/ WritesFailed(p) \/ ReadsKey(p) \/ ReadsLatest(p) \/ Appends(p)
          \/ ShowsPolicy(p) \/ RecordsReview(p) \/ Links(p))
  BY <1>2, ContinuesNext
<1>7. ~(\/ EngineEvaluates(q) \/ Upserts(q) \/ EngineReruns(q) \/ WritesRun(q)
        \/ WritesFailed(q) \/ ReadsKey(q) \/ ReadsLatest(q)
        \/ ShowsPolicy(q) \/ RecordsReview(q) \/ Links(q))
  BY DEF EngineEvaluates, Upserts, EngineReruns, WritesRun, WritesFailed, ReadsKey,
         ReadsLatest, ShowsPolicy, RecordsReview, Links, rows
<1> QED BY <1>3, <1>4, <1>5, <1>6, <1>7 DEF Next

\* After the review a promotion or a reset is appended only by a request that
\* was under way together with a reviewing one (the check of the outcome review
\* in promoteEvaluationRerun and resetEvaluationVersionPolicy).
THEOREM FrozenByReviewHolds == Spec => FrozenByReview
<1>1. Init => FrozenInv
  BY DEF Init, FrozenInv, None
<1>2. Begun /\ FrozenInv /\ [Next]_vars =>
        [\A q \in ledger' \ ledger :
           linked # None => \E p \in met[q] : kind[p] = "review"]_vars
  <2> SUFFICES ASSUME Begun, FrozenInv, [Next]_vars, NEW q \in ledger' \ ledger,
                      linked # None
               PROVE  \E p \in met[q] : kind[p] = "review"
    OBVIOUS
  <2>1. q \in Requests
    BY BegunNext DEF Begun, TypeOK
  <2>2. Appends(q)
    BY <2>1, LedgerGrows
  <2>3. pc[q] = "insert" /\ kind[q] \in {"promote", "reset"}
    BY <2>2 DEF Appends, Answers, Goes
  <2> QED BY <2>1, <2>3 DEF FrozenInv, Pending
<1> QED BY <1>1, <1>2, FrozenNext, BegunHolds, PTL DEF Spec, FrozenByReview

-----------------------------------------------------------------------------
(* The evaluation of a window *)

\* Who created it has left it there, or it is gone.
Creates == {q \in Requests : kind[q] = "evaluate" /\ answer[q] = "created"}

EvaluateInv == (Creates # {} => evaluation # None) /\ EvaluatedOnce

\* A step that answers no evaluating request with created.
LEMMA EvaluateRest ==
  ASSUME Begun, EvaluateInv, [Next]_vars, Creates' \subseteq Creates,
         evaluation = None => evaluation' = None,
         \A q \in Requests : pc'[q] = "insert" /\ kind'[q] = "evaluate" =>
           snapshot'[q] = evaluation' \/ (pc[q] = "insert" /\ snapshot'[q] = snapshot[q])
  PROVE  EvaluateInv'
<1>1. Onward
  BY OnwardNext
<1>2. evaluation' = "there" => evaluation = "there"
  BY <1>1 DEF Onward, Begun, TypeOK, None
<1>3. Creates' # {} => evaluation' # None
  BY <1>1 DEF Onward, EvaluateInv
<1>4. \A p, q \in Requests :
       p # q /\ {kind'[p], kind'[q]} = {"evaluate"} =>
         ~(answer'[p] = "created" /\ answer'[q] = "created")
  BY DEF Creates, EvaluateInv, EvaluatedOnce
<1>5. ASSUME NEW q \in Requests, pc'[q] = "insert", kind'[q] = "evaluate",
             snapshot'[q] = None, evaluation' = "there"
      PROVE  \E p \in met'[q] : kind'[p] = "evaluate" /\ answer'[p] = "created"
  <2>1. pc[q] = "insert" /\ snapshot[q] = None
    BY <1>5 DEF None
  <2>2. kind[q] = "evaluate"
    BY <1>1, <1>5, <2>1 DEF Onward
  <2>3. PICK p \in met[q] : kind[p] = "evaluate" /\ answer[p] = "created"
    BY <1>2, <1>5, <2>1, <2>2 DEF EvaluateInv, EvaluatedOnce
  <2>4. p \in Requests /\ pc[p] = "done"
    BY <2>3 DEF Begun, TypeOK, Fresh, None
  <2> QED BY <1>1, <2>3, <2>4 DEF Onward
<1> QED BY <1>3, <1>4, <1>5 DEF EvaluateInv, EvaluatedOnce

LEMMA EvaluateStarts ==
  ASSUME Begun, EvaluateInv, [Next]_vars, NEW q \in Requests, Starts(q),
         kind'[q] = "evaluate" => pc'[q] # "insert" /\ answer'[q] # "created"
  PROVE  EvaluateInv'
<1>1. UNCHANGED <<evaluation, snapshot>>
  BY DEF Starts, rows
<1>2. \A p \in Requests \ {q} : pc'[p] = pc[p] /\ kind'[p] = kind[p] /\ answer'[p] = answer[p]
  BY DEF Starts
<1>3. Creates' \subseteq Creates
  BY <1>2 DEF Creates
<1> QED BY <1>1, <1>2, <1>3, EvaluateRest

LEMMA EvaluateContinues ==
  ASSUME Begun, EvaluateInv, [Next]_vars, NEW q \in Requests, Continues(q),
         kind[q] # "evaluate", UNCHANGED <<evaluation, snapshot>>
  PROVE  EvaluateInv'
<1>1. kind' = kind
  BY DEF Continues, input
<1>2. \A p \in Requests \ {q} : pc'[p] = pc[p] /\ answer'[p] = answer[p]
  BY DEF Continues
<1>3. Creates' \subseteq Creates
  BY <1>1, <1>2 DEF Creates
<1> QED BY <1>1, <1>2, <1>3, EvaluateRest

LEMMA EvaluateUpserts ==
  ASSUME Begun, EvaluateInv, [Next]_vars, NEW q \in Requests, Upserts(q)
  PROVE  EvaluateInv'
<1>1. Continues(q)
  BY ContinuesNext
<1>2. kind[q] = "evaluate" /\ pc[q] = "insert" /\ pc'[q] = "done"
      /\ UNCHANGED <<kind, met, snapshot>>
  BY DEF Upserts, Answers, Goes, input, Begun, TypeOK
<1>3. \A p \in Requests \ {q} : pc'[p] = pc[p] /\ answer'[p] = answer[p]
  BY <1>1 DEF Continues
<1>4. CASE evaluation # None
  <2>1. evaluation' = evaluation
    BY <1>4 DEF Upserts
  <2>2. answer'[q] # "created"
    BY <1>4 DEF Upserts, Conflicts, Answers, Begun, TypeOK, None
  <2>3. Creates' \subseteq Creates
    BY <1>2, <1>3, <2>2 DEF Creates
  <2> QED BY <1>2, <1>3, <1>4, <2>1, <2>3, EvaluateRest
<1>5. CASE evaluation = None
  <2>1. evaluation' = "there" /\ answer'[q] = "created"
    BY <1>5 DEF Upserts, Conflicts, Answers, Begun, TypeOK, None
  <2>2. Creates = {}
    BY <1>5 DEF EvaluateInv
  <2>3. Creates' = {q}
    BY <1>2, <1>3, <2>1, <2>2 DEF Creates
  <2>4. \A p \in Requests : p # q /\ pc[p] = "insert" => q \in met'[p]
    BY <1>2 DEF Begun, Overlap, Pending
  <2>5. \A p, r \in Requests :
          p # r /\ {kind'[p], kind'[r]} = {"evaluate"} =>
            ~(answer'[p] = "created" /\ answer'[r] = "created")
    BY <2>3 DEF Creates
  <2> QED BY <1>2, <1>3, <2>1, <2>4, <2>5 DEF EvaluateInv, EvaluatedOnce, None
<1> QED BY <1>4, <1>5

LEMMA EvaluateNext ==
  ASSUME Begun, EvaluateInv, [Next]_vars
  PROVE  EvaluateInv'
<1>1. ASSUME NEW q \in Requests, Evaluate(q) PROVE EvaluateInv'
  <2>1. pc'[q] # "insert" /\ answer'[q] # "created"
    BY <1>1 DEF Evaluate, Answers, Goes, Begun, TypeOK, Fresh, None
  <2> QED BY <1>1, <2>1, StartsNext, EvaluateStarts
<1>2. ASSUME NEW q \in Requests, NEW k \in Keys \cup {None}, Rerun(q, k) PROVE EvaluateInv'
  <2>1. kind'[q] = "rerun"
    BY <1>2 DEF Rerun, Begins, Begun, TypeOK
  <2> QED BY <1>2, <2>1, StartsNext, EvaluateStarts
<1>3. ASSUME NEW q \in Requests, NEW k \in Keys \cup {None},
             NEW t \in Reruns \cup {Base}, Promote(q, k, t) PROVE EvaluateInv'
  <2>1. kind'[q] \in {"promote", "reset"}
    BY <1>3 DEF Promote, Begins, Begun, TypeOK
  <2> QED BY <1>3, <2>1, StartsNext, EvaluateStarts
<1>4. ASSUME NEW q \in Requests, Review(q) PROVE EvaluateInv'
  <2>1. kind'[q] = "review"
    BY <1>4 DEF Review, Begins, Begun, TypeOK
  <2> QED BY <1>4, <2>1, StartsNext, EvaluateStarts
<1>5. ASSUME NEW q \in Requests, EngineEvaluates(q) PROVE EvaluateInv'
  <2>1. Continues(q) /\ kind' = kind /\ evaluation' = evaluation
    BY <1>5, ContinuesNext DEF EngineEvaluates, rows, input
  <2>2. \A p \in Requests \ {q} : /\ pc'[p] = pc[p] /\ answer'[p] = answer[p]
                                  /\ snapshot'[p] = snapshot[p]
    BY <1>5, <2>1 DEF Continues, EngineEvaluates, Begun, TypeOK
  <2>3. answer'[q] # "created" /\ (pc'[q] = "insert" => snapshot'[q] = evaluation)
    BY <1>5 DEF EngineEvaluates, Answers, Goes, Begun, TypeOK, Fresh, None
  <2>4. Creates' \subseteq Creates
    BY <2>1, <2>2, <2>3 DEF Creates
  <2> QED BY <2>1, <2>2, <2>3, <2>4, EvaluateRest
<1>6. ASSUME NEW q \in Requests, Upserts(q) PROVE EvaluateInv'
  BY <1>6, EvaluateUpserts
<1>7. ASSUME NEW q \in Requests,
             EngineReruns(q) \/ WritesRun(q) \/ WritesFailed(q) \/ ReadsKey(q)
             \/ Appends(q) \/ RecordsReview(q)
      PROVE  EvaluateInv'
  <2>1. kind[q] # "evaluate" /\ UNCHANGED <<evaluation, snapshot>>
    BY <1>7 DEF EngineReruns, WritesRun, WritesFailed, ReadsKey, Appends, RecordsReview, rows
  <2> QED BY <1>7, <2>1, ContinuesNext, EvaluateContinues
<1>8. ASSUME NEW q \in Requests, ReadsLatest(q) \/ ShowsPolicy(q) \/ Links(q)
      PROVE  EvaluateInv'
  <2>1. pc[q] \in {"latest", "policy", "link"} /\ UNCHANGED <<evaluation, snapshot>>
    BY <1>8 DEF ReadsLatest, ShowsPolicy, Links, Answers, Goes, rows
  <2>2. kind[q] # "evaluate"
    BY <2>1 DEF Begun, Places
  <2> QED BY <1>8, <2>1, <2>2, ContinuesNext, EvaluateContinues
<1>9. CASE Cascade
  <2>1. UNCHANGED <<pc, kind, answer, snapshot>> /\ evaluation = "there"
    BY <1>9 DEF Cascade, input
  <2> QED BY <2>1, EvaluateRest DEF Creates, None
<1>10. CASE Crash
  <2>1. /\ UNCHANGED <<evaluation, snapshot, kind>>
        /\ \A q \in Requests : /\ pc'[q] = "insert" => pc[q] = "insert"
                               /\ answer'[q] \in {answer[q], "lost"}
    BY <1>10 DEF Crash, Pending, rows, input, Begun, TypeOK
  <2>2. Creates' \subseteq Creates
    BY <2>1 DEF Creates
  <2> QED BY <2>1, <2>2, EvaluateRest
<1>11. CASE Tick \/ UNCHANGED vars
  <2>1. UNCHANGED <<pc, kind, answer, snapshot, evaluation>>
    BY <1>11 DEF Tick, vars, rows, input
  <2> QED BY <2>1, EvaluateRest DEF Creates
<1> QED BY <1>1, <1>2, <1>3, <1>4, <1>5, <1>6, <1>7, <1>8, <1>9, <1>10, <1>11 DEF Next

\* However many requests evaluate a window at once, one of them creates its
\* evaluation; another whose snapshot misses it met the one that created it
\* (INSERT ... ON CONFLICT DO NOTHING of upsertThesisEvaluation).
THEOREM EvaluatedOnceHolds == Spec => []EvaluatedOnce
<1>1. Init => EvaluateInv
  BY DEF Init, EvaluateInv, Creates, EvaluatedOnce, None
<1>2. EvaluateInv => EvaluatedOnce
  BY DEF EvaluateInv
<1> QED BY <1>1, <1>2, EvaluateNext, BegunHolds, PTL DEF Spec

-----------------------------------------------------------------------------
(* Idempotency keys of reruns *)

\* Rerunning requests with a key that found no run for it, and called or will
\* call the engine.
Calling ==
  {q \in Requests : /\ kind[q] = "rerun" /\ key[q] # None /\ q \notin Lost
                    /\ q \in Pending \/ q \in called}

\* The request q shows a rerun of its key, and the runs of a key are one.
OneRun ==
  /\ \A r, s \in Requests :
       runs[r] # None /\ runs[s] # None /\ key[r] = key[s] /\ key[r] # None => r = s
  /\ \A q \in Requests :
       evaluation = "there" /\ kind[q] = "rerun" /\ key[q] # None /\ shown[q] # None
         => /\ shown[q] \in Requests /\ runs[shown[q]] # None
            /\ key[shown[q]] = key[q]
  /\ \A p, q \in Requests :
       kind[p] = "rerun" /\ kind[q] = "rerun" /\ key[p] = key[q] /\ key[p] # None
         /\ shown[p] # None /\ shown[q] # None => shown[p] = shown[q]

\* A request that called the engine and was answered left a run, and two that
\* called it for one key met.
OneCall ==
  /\ evaluation # "gone" => \A q \in Calling : pc[q] = "done" =>
       \E r \in Requests : runs[r] # None /\ key[r] = key[q]
  /\ evaluation # "gone" => \A p, q \in Calling : p # q /\ key[p] = key[q] => p \in met[q]

KeyInv == OneRun /\ OneCall

LEMMA KeyInvImplies == Begun /\ KeyInv => KeyIsOneRerun
<1> SUFFICES ASSUME Begun, KeyInv, NEW p \in Requests, NEW q \in Requests, p # q,
                    {kind[p], kind[q]} = {"rerun"}, key[p] = key[q], key[p] # None
             PROVE  /\ shown[p] # None /\ shown[q] # None => shown[p] = shown[q]
                    /\ evaluation # "gone" /\ {p, q} \subseteq called \ Lost => p \in met[q]
  BY DEF KeyIsOneRerun
<1>1. kind[p] = "rerun" /\ kind[q] = "rerun"
  OBVIOUS
<1>2. {p, q} \subseteq called \ Lost => p \in Calling /\ q \in Calling
  BY <1>1 DEF Calling
<1> QED BY <1>1, <1>2 DEF KeyInv, OneRun, OneCall

\* A step that moves no rerunning request and writes no run.
LEMMA KeyRest ==
  ASSUME Begun, KeyInv, [Next]_vars, runs' = runs,
         evaluation' = evaluation \/ evaluation = None,
         \A p \in Requests : kind'[p] = "rerun" =>
            /\ pc[p] # "new" /\ pc'[p] = pc[p] /\ answer'[p] = answer[p]
            /\ shown'[p] = shown[p] /\ (p \in called' <=> p \in called)
  PROVE  KeyInv'
<1>1. Onward
  BY OnwardNext
<1>2. \A p \in Requests : runs[p] # None => pc[p] # "new"
  BY DEF Begun, Fresh
<1>3. \A p \in Requests : pc[p] # "new" => key'[p] = key[p] /\ kind'[p] = kind[p]
  BY <1>1 DEF Onward
<1>6. \A r \in Requests : runs'[r] # None => runs[r] # None /\ key'[r] = key[r]
  BY <1>2, <1>3
<1>7. \A p \in Requests : kind'[p] = "rerun" => kind[p] = "rerun" /\ key'[p] = key[p]
                                                /\ evaluation' = evaluation
  BY <1>3 DEF Begun, Places, None
<1>8. Calling' \subseteq Calling
  BY <1>7 DEF Calling, Pending, Lost
<1>9. OneRun'
  BY <1>6, <1>7 DEF KeyInv, OneRun
<1>10. \A q \in Calling' : kind'[q] = "rerun" /\ q \in Requests
  BY DEF Calling
<1>11. \A p, q \in Requests : p \in met[q] => p \in met'[q]
  BY <1>1 DEF Onward
<1>12. OneCall'
  BY <1>6, <1>7, <1>8, <1>10, <1>11 DEF KeyInv, OneCall
<1> QED BY <1>9, <1>12 DEF KeyInv

LEMMA KeyStarts ==
  ASSUME Begun, KeyInv, [Next]_vars, NEW q \in Requests, Starts(q), kind'[q] # "rerun"
  PROVE  KeyInv'
<1>1. UNCHANGED <<evaluation, runs, called>>
  BY DEF Starts, rows
<1>2. \A p \in Requests \ {q} :
        pc'[p] = pc[p] /\ kind'[p] = kind[p] /\ answer'[p] = answer[p] /\ shown'[p] = shown[p]
  BY DEF Starts
<1>3. \A p \in Requests : kind[p] = "rerun" => pc[p] # "new"
  BY DEF Begun, Fresh, None
<1> QED BY <1>1, <1>2, <1>3, KeyRest

LEMMA KeyContinues ==
  ASSUME Begun, KeyInv, [Next]_vars, NEW q \in Requests, Continues(q),
         kind[q] # "rerun", runs' = runs
  PROVE  KeyInv'
<1>1. kind' = kind /\ (evaluation' = evaluation \/ evaluation = None)
  BY DEF Continues, input
<1>2. \A p \in Requests \ {q} :
        /\ pc'[p] = pc[p] /\ answer'[p] = answer[p] /\ shown'[p] = shown[p]
        /\ p \in called' <=> p \in called
  BY DEF Continues
<1>3. \A p \in Requests : kind[p] = "rerun" => pc[p] # "new"
  BY DEF Begun, Fresh, None
<1> QED BY <1>1, <1>2, <1>3, KeyRest

\* The key is looked up.
LEMMA KeyBegins ==
  ASSUME Begun, KeyInv, [Next]_vars, NEW q \in Requests, NEW k \in Keys \cup {None},
         Rerun(q, k)
  PROVE  KeyInv'
<1>1. Onward /\ Starts(q)
  BY OnwardNext, StartsNext
<1>2. /\ kind'[q] = "rerun" /\ key'[q] = k /\ evaluation = "there" /\ pc[q] = "new"
      /\ UNCHANGED <<evaluation, runs, called>> /\ q \notin called
      /\ runs[q] = None
  BY DEF Rerun, Begins, rows, Begun, TypeOK, Fresh
<1>3. \A p \in Requests \ {q} :
        /\ pc'[p] = pc[p] /\ kind'[p] = kind[p] /\ key'[p] = key[p]
        /\ answer'[p] = answer[p] /\ shown'[p] = shown[p]
  BY <1>1 DEF Starts
<1>4. \A r \in Requests : runs'[r] # None => runs[r] # None /\ key'[r] = key[r]
  BY <1>2, <1>3
<1>5. shown'[q] = None \/ /\ shown'[q] \in Requests /\ runs[shown'[q]] # None
                          /\ key[shown'[q]] = k
  BY <1>1 DEF Rerun, KeyRuns, Starts, Answers, Goes, Begun, TypeOK, Fresh
<1>6. OneRun'
  <2>1. \A r, s \in Requests :
          runs'[r] # None /\ runs'[s] # None /\ key'[r] = key'[s] /\ key'[r] # None => r = s
    BY <1>2, <1>4 DEF KeyInv, OneRun
  <2>2. \A p \in Requests :
          kind'[p] = "rerun" /\ key'[p] # None /\ shown'[p] # None =>
            /\ shown'[p] \in Requests /\ runs'[shown'[p]] # None
            /\ key'[shown'[p]] = key'[p]
    <3> TAKE p \in Requests
    <3> HAVE kind'[p] = "rerun" /\ key'[p] # None /\ shown'[p] # None
    <3>1. CASE p = q
      BY <3>1, <1>2, <1>4, <1>5 DEF Begun, TypeOK
    <3>2. CASE p # q
      BY <3>2, <1>2, <1>3, <1>4 DEF KeyInv, OneRun
    <3> QED BY <3>1, <3>2
  <2>3. \A p, s \in Requests :
          kind'[p] = "rerun" /\ kind'[s] = "rerun" /\ key'[p] = key'[s] /\ key'[p] # None
            /\ shown'[p] # None /\ shown'[s] # None => shown'[p] = shown'[s]
    BY <2>1, <2>2
  <2> QED BY <2>1, <2>2, <2>3 DEF OneRun
<1>7. q \in Calling' => \A r \in Requests : ~(runs[r] # None /\ key[r] = k /\ k # None)
  BY <1>2 DEF Calling, Rerun, KeyRuns, Answers, Goes, Pending, Begun, TypeOK
<1>8. Calling' \subseteq Calling \cup {q}
  BY <1>2, <1>3 DEF Calling, Pending, Lost
<1>9. \A p \in Calling : p # q /\ key[p] = k /\ q \in Calling' => p \in Pending
  <2> SUFFICES ASSUME NEW p \in Calling, key[p] = k, q \in Calling', p \notin Pending
               PROVE  FALSE
    OBVIOUS
  <2>1. p \in called /\ p \in Requests /\ key[p] # None
    BY DEF Calling
  <2>2. pc[p] = "done"
    BY <2>1 DEF Pending, Begun, Fresh
  <2>3. evaluation # "gone"
    BY <1>2
  <2> QED BY <1>7, <2>1, <2>2, <2>3 DEF KeyInv, OneCall
<1>10. \A p \in Pending : p \in met'[q] /\ q \in met'[p]
  BY <1>1 DEF Starts, Pending
<1>11. q \in Calling' => pc'[q] # "done"
  BY <1>2 DEF Calling, Pending
<1>12. OneCall'
  <2>1. \A p \in Calling' : pc'[p] = "done" =>
          \E r \in Requests : runs'[r] # None /\ key'[r] = key'[p]
    <3> SUFFICES ASSUME NEW p \in Calling', pc'[p] = "done"
                 PROVE  \E r \in Requests : runs'[r] # None /\ key'[r] = key'[p]
      OBVIOUS
    <3>1. p # q /\ p \in Calling /\ p \in Requests
      BY <1>8, <1>11 DEF Calling
    <3>2. PICK r \in Requests : runs[r] # None /\ key[r] = key[p]
      BY <3>1, <1>2, <1>3 DEF KeyInv, OneCall
    <3> QED BY <3>1, <3>2, <1>2, <1>3
  <2>2. ASSUME NEW p \in Calling', NEW r \in Calling', p # r, key'[p] = key'[r]
        PROVE  p \in met'[r]
    <3>1. CASE p # q /\ r # q
      BY <3>1, <2>2, <1>1, <1>2, <1>3, <1>8 DEF KeyInv, OneCall, Onward, Calling
    <3>2. CASE p = q
      BY <3>2, <2>2, <1>2, <1>3, <1>8, <1>9, <1>10 DEF Calling
    <3>3. CASE r = q
      BY <3>3, <2>2, <1>2, <1>3, <1>8, <1>9, <1>10 DEF Calling
    <3> QED BY <3>1, <3>2, <3>3
  <2> QED BY <2>1, <2>2 DEF OneCall
<1> QED BY <1>6, <1>12 DEF KeyInv

\* The engine answers, or a run is written or refused.
LEMMA KeyGoesOn ==
  ASSUME Begun, KeyInv, [Next]_vars, NEW q \in Requests,
         EngineReruns(q) \/ WritesRun(q) \/ WritesFailed(q)
  PROVE  KeyInv'
<1>d. Requests \subseteq Reruns /\ None \notin Reruns
  BY Distinct
<1>1. Onward /\ Continues(q) /\ UNCHANGED <<kind, key, met, evaluation>>
  BY OnwardNext, ContinuesNext
     DEF Continues, EngineReruns, WritesRun, WritesFailed, rows, input
<1>2. /\ kind[q] = "rerun" /\ pc[q] \in {"engine", "insert", "fail"} /\ q \in Pending
      /\ q \notin Lost
  BY DEF EngineReruns, WritesRun, WritesFailed, Goes, Answers, Pending, Lost, Begun, Fresh, None
<1>3. \A p \in Requests \ {q} :
        /\ pc'[p] = pc[p] /\ answer'[p] = answer[p] /\ shown'[p] = shown[p]
        /\ runs'[p] = runs[p] /\ (p \in called' <=> p \in called)
  BY <1>1 DEF Continues
<1>4. /\ runs[q] # None => runs'[q] # None
      /\ runs'[q] # None /\ runs[q] = None =>
           /\ evaluation # "gone"
           /\ \A r \in Requests : ~(runs[r] # None /\ key[r] = key[q] /\ key[q] # None)
      /\ shown'[q] # shown[q] =>
           shown'[q] = q /\ runs'[q] # None /\ evaluation # "gone"
  BY <1>d DEF EngineReruns, WritesRun, WritesFailed, RunRefused, KeyRuns, rows, Begun,
              TypeOK, None
<1>5. pc'[q] = "done" /\ evaluation # "gone" /\ key[q] # None =>
        \E r \in Requests : runs'[r] # None /\ key[r] = key[q]
  <2>1. pc'[q] = "done" /\ evaluation # "gone" => runs'[q] # None \/ KeyRuns(key[q]) # {}
    BY <1>d DEF EngineReruns, WritesRun, WritesFailed, RunRefused, Answers, Goes, rows,
                Begun, TypeOK, None
  <2>2. \A r \in KeyRuns(key[q]) : r \in Requests /\ runs'[r] # None /\ key[r] = key[q]
    BY <1>3, <1>4 DEF KeyRuns
  <2> QED BY <2>1, <2>2
<1>6. \A r \in Requests : runs[r] # None => runs'[r] # None
  BY <1>3, <1>4
<1>7. OneRun'
  <2>1. \A r, s \in Requests :
          runs'[r] # None /\ runs'[s] # None /\ key[r] = key[s] /\ key[r] # None => r = s
    BY <1>3, <1>4 DEF KeyInv, OneRun
  <2>2. \A p \in Requests :
          evaluation = "there" /\ kind[p] = "rerun" /\ key[p] # None /\ shown'[p] # None =>
            shown'[p] \in Requests /\ runs'[shown'[p]] # None /\ key[shown'[p]] = key[p]
    <3> TAKE p \in Requests
    <3> HAVE evaluation = "there" /\ kind[p] = "rerun" /\ key[p] # None /\ shown'[p] # None
    <3>1. CASE shown'[p] = shown[p]
      BY <3>1, <1>6 DEF KeyInv, OneRun
    <3>2. CASE shown'[p] # shown[p]
      BY <3>2, <1>3, <1>4
    <3> QED BY <3>1, <3>2
  <2>3. ASSUME NEW p \in Requests, NEW s \in Requests, kind[p] = "rerun", kind[s] = "rerun",
               key[p] = key[s], key[p] # None, shown'[p] # None, shown'[s] # None
        PROVE  shown'[p] = shown'[s]
    <3>1. CASE evaluation = "there"
      BY <3>1, <2>1, <2>2, <2>3
    <3>2. CASE evaluation # "there"
      <4>1. evaluation = "gone"
        BY <3>2, <1>2 DEF Begun, Places, TypeOK, None
      <4> QED BY <4>1, <2>3, <1>3, <1>4 DEF KeyInv, OneRun
    <3> QED BY <3>1, <3>2
  <2> QED BY <1>1, <2>1, <2>2, <2>3 DEF OneRun
<1>8. Calling' \subseteq Calling
  BY <1>1, <1>2, <1>3 DEF Calling, Pending, Lost
<1>9. OneCall'
  <2>1. ASSUME NEW p \in Calling', pc'[p] = "done", evaluation # "gone"
        PROVE  \E r \in Requests : runs'[r] # None /\ key[r] = key[p]
    <3>0. key[p] # None /\ p \in Requests /\ p \in Calling
      BY <1>1, <1>8 DEF Calling
    <3>1. CASE p = q
      BY <3>0, <3>1, <2>1, <1>5
    <3>2. CASE p # q
      <4>1. pc[p] = "done"
        BY <3>0, <3>2, <2>1, <1>3
      <4>2. PICK r \in Requests : runs[r] # None /\ key[r] = key[p]
        BY <3>0, <4>1, <2>1 DEF KeyInv, OneCall
      <4> QED BY <4>2, <1>6
    <3> QED BY <3>1, <3>2
  <2> QED BY <2>1, <1>1, <1>8 DEF KeyInv, OneCall
<1> QED BY <1>7, <1>9 DEF KeyInv

LEMMA KeyNext ==
  ASSUME Begun, KeyInv, [Next]_vars
  PROVE  KeyInv'
<1>1. ASSUME NEW q \in Requests, Evaluate(q) \/ Review(q) PROVE KeyInv'
  <2>1. kind'[q] \in {"evaluate", "review"}
    BY <1>1 DEF Evaluate, Review, Begins, Begun, TypeOK
  <2> QED BY <1>1, <2>1, StartsNext, KeyStarts
<1>2. ASSUME NEW q \in Requests, NEW k \in Keys \cup {None}, Rerun(q, k) PROVE KeyInv'
  BY <1>2, KeyBegins
<1>3. ASSUME NEW q \in Requests, NEW k \in Keys \cup {None},
             NEW t \in Reruns \cup {Base}, Promote(q, k, t) PROVE KeyInv'
  <2>1. kind'[q] \in {"promote", "reset"}
    BY <1>3 DEF Promote, Begins, Begun, TypeOK
  <2> QED BY <1>3, <2>1, StartsNext, KeyStarts
<1>4. ASSUME NEW q \in Requests, EngineReruns(q) \/ WritesRun(q) \/ WritesFailed(q)
      PROVE  KeyInv'
  BY <1>4, KeyGoesOn
<1>5. ASSUME NEW q \in Requests,
             EngineEvaluates(q) \/ Upserts(q) \/ ReadsKey(q) \/ Appends(q) \/ RecordsReview(q)
      PROVE  KeyInv'
  <2>1. kind[q] # "rerun" /\ runs' = runs
    BY <1>5 DEF EngineEvaluates, Upserts, ReadsKey, Appends, RecordsReview, rows
  <2> QED BY <1>5, <2>1, ContinuesNext, KeyContinues
<1>6. ASSUME NEW q \in Requests, ReadsLatest(q) \/ ShowsPolicy(q) \/ Links(q)
      PROVE  KeyInv'
  <2>1. pc[q] \in {"latest", "policy", "link"} /\ runs' = runs
    BY <1>6 DEF ReadsLatest, ShowsPolicy, Links, Answers, Goes, rows
  <2>2. kind[q] # "rerun"
    BY <2>1 DEF Begun, Places
  <2> QED BY <1>6, <2>1, <2>2, ContinuesNext, KeyContinues
<1>7. CASE Cascade
  <2>1. /\ UNCHANGED <<kind, key, shown>> /\ evaluation' = "gone"
        /\ \A r \in Requests : runs'[r] = None
    BY <1>7, Distinct DEF Cascade, input
  <2>2. OneRun'
    BY <2>1 DEF KeyInv, OneRun
  <2>3. OneCall'
    BY <2>1 DEF OneCall
  <2> QED BY <2>2, <2>3 DEF KeyInv
<1>8. CASE Crash
  <2>1. UNCHANGED <<kind, key, shown, runs, evaluation, called, met>>
    BY <1>8 DEF Crash, rows, input
  <2>2. \A q \in Requests : q \notin Lost' => q \notin Lost /\ q \notin Pending
                                              /\ pc'[q] = pc[q] /\ q \notin Pending'
    BY <1>8 DEF Crash, Pending, Lost, Begun, TypeOK
  <2>4. Calling' \subseteq Calling /\ \A q \in Calling' : pc'[q] = pc[q]
    BY <2>1, <2>2 DEF Calling
  <2>5. OneRun'
    BY <2>1 DEF KeyInv, OneRun
  <2>6. OneCall'
    BY <2>1, <2>4 DEF KeyInv, OneCall
  <2> QED BY <2>5, <2>6 DEF KeyInv
<1>9. CASE Tick \/ UNCHANGED vars
  <2>1. UNCHANGED <<kind, key, shown, runs, evaluation, called, met, pc, answer>>
    BY <1>9 DEF Tick, vars, rows, input
  <2>2. \A p \in Requests : kind[p] = "rerun" => pc[p] # "new"
    BY DEF Begun, Fresh, None
  <2> QED BY <2>1, <2>2, KeyRest
<1> QED BY <1>1, <1>2, <1>3, <1>4, <1>5, <1>6, <1>7, <1>8, <1>9 DEF Next

\* An idempotency key is one rerun in every answer for it, and two requests
\* with it call the engine only when they overlapped, the API was restarted, or
\* the thesis is gone (createEvaluationRerun and its failed run).
THEOREM KeyIsOneRerunHolds == Spec => []KeyIsOneRerun
<1>1. Init => KeyInv
  BY Distinct DEF Init, KeyInv, OneRun, OneCall, Calling, Pending
<1> QED BY <1>1, KeyInvImplies, KeyNext, BegunHolds, PTL DEF Spec

-----------------------------------------------------------------------------
(* The ledger of promotions and resets *)

\* Requests with a stamp whose event is not there yet, and events that are or
\* may come.
Writing == {q \in Requests : kind[q] \in {"promote", "reset"} /\ pc[q] = "insert"}
Live == Writing \cup ledger

\* Stamps are behind the next one and differ.
Stamps ==
  /\ \A q \in Requests : stamp[q] <= last \/ stamp[q] < clock
  /\ \A p, q \in Live : p # q => stamp[p] # stamp[q]

\* An event f changed what it had read.  Between it and an earlier one with its
\* effect there is another, unless the request of f met that of the earlier one;
\* and it met every request that may yet write an earlier one.
Changes(f) ==
  /\ \A e \in ledger :
       Before(e, f) /\ effect[e] = effect[f] /\ e \notin met[f] =>
         \E g \in ledger : Before(e, g) /\ Before(g, f)
  /\ \A e \in Writing : Before(e, f) => e \in met[f]
  /\ effect[f] = Base /\ evaluation = "there" => \E e \in ledger : Before(e, f)

LedgerInv ==
  /\ \A q \in ledger : evaluation = "there" /\ pc[q] \in {"policy", "done"}
  /\ Stamps
  /\ \A f \in Live : Changes(f)

LEMMA NextStampIsNew ==
  ASSUME Begun, Stamps
  PROVE  /\ NextStamp \in Nat /\ \A q \in Requests : stamp[q] < NextStamp
<1> SUFFICES ASSUME NEW q \in Requests PROVE NextStamp \in Nat /\ stamp[q] < NextStamp
  BY DEF NextStamp, Begun, TypeOK
<1>1. stamp[q] \in Nat /\ clock \in Nat /\ last \in Nat
  BY DEF Begun, TypeOK
<1>2. stamp[q] <= last \/ stamp[q] < clock
  BY DEF Stamps
<1> QED BY <1>1, <1>2 DEF NextStamp

\* A step that writes neither a stamp nor an event.
LEMMA LedgerRest ==
  ASSUME Begun, LedgerInv, [Next]_vars, UNCHANGED <<ledger, stamp>>,
         evaluation' = evaluation \/ evaluation # "there",
         \A q \in Requests : stamp[q] <= last' \/ stamp[q] < clock',
         \A q \in Requests : /\ pc[q] \in {"policy", "done"} => pc'[q] \in {"policy", "done"}
                             /\ pc'[q] = "insert" /\ kind'[q] \in {"promote", "reset"} =>
                                  pc[q] = "insert"
  PROVE  LedgerInv'
<1>1. Onward
  BY OnwardNext
<1>2. Writing' \subseteq Writing
  BY <1>1 DEF Writing, Onward
<1>3. Live' \subseteq Live /\ \A f \in Live : f \in Requests /\ effect'[f] = effect[f]
  BY <1>1, <1>2 DEF Live, Writing, Onward, LedgerInv, Begun, TypeOK
<1>4. \A q \in ledger' : evaluation' = "there" /\ pc'[q] \in {"policy", "done"}
  BY DEF LedgerInv, Begun, TypeOK
<1>5. Stamps'
  BY <1>3 DEF LedgerInv, Stamps
<1>6. ASSUME NEW f \in Live' PROVE Changes(f)'
  <2>1. Changes(f) /\ f \in Live /\ f \in Requests /\ effect'[f] = effect[f]
    BY <1>3, <1>6 DEF LedgerInv
  <2>2. met[f] \subseteq met'[f]
    BY <1>1, <2>1 DEF Onward
  <2>3. \A e \in ledger : effect'[e] = effect[e]
    BY <1>3 DEF Live
  <2>4. evaluation' = "there" => evaluation = "there" \/ ledger # {}
    BY <2>1, <1>1, <2>2 DEF Onward, LedgerInv, Live, Writing, Begun, Places, TypeOK, None
  <2> QED BY <1>2, <2>1, <2>2, <2>3, <2>4 DEF Changes, Before, LedgerInv
<1> QED BY <1>4, <1>5, <1>6 DEF LedgerInv

\* An event gets its stamp.
LEMMA LedgerStamps ==
  ASSUME Begun, LedgerInv, [Next]_vars, NEW q \in Requests, ReadsLatest(q), pc'[q] = "insert"
  PROVE  LedgerInv'
<1>1. Onward /\ Continues(q)
  BY OnwardNext, ContinuesNext
<1>2. /\ pc[q] = "latest" /\ q \notin ledger /\ q \notin Writing
      /\ UNCHANGED <<ledger, evaluation, kind, effect, met, clock>>
      /\ kind[q] \in {"promote", "reset"} /\ q \in Pending
  BY DEF ReadsLatest, Goes, Answers, rows, input, LedgerInv, Writing, Pending, Begun, Places
<1>3. PICK l \in IF ledger = {} THEN {None} ELSE Newest :
        /\ ~SameState(q, l) /\ stamp' = [stamp EXCEPT ![q] = NextStamp] /\ last' = NextStamp
  BY DEF ReadsLatest, Answers, Goes, Begun, TypeOK
<1>4. NextStamp \in Nat /\ \A p \in Requests : stamp[p] < NextStamp
  BY NextStampIsNew DEF LedgerInv
<1>5. stamp'[q] = NextStamp /\ \A p \in Requests \ {q} : stamp'[p] = stamp[p] /\ pc'[p] = pc[p]
  BY <1>1, <1>3 DEF Continues, Begun, TypeOK
<1>6. Writing' = Writing \cup {q} /\ Live' = Live \cup {q}
  BY <1>2, <1>5 DEF Writing, Live
<1>7. Live \subseteq Requests \ {q} /\ ledger \subseteq Live /\ Writing \subseteq Live
  BY <1>2 DEF Live, Writing, Begun, TypeOK
<1>s. \A p \in Requests : stamp[p] \in Nat
  BY DEF Begun, TypeOK
<1>8. Stamps'
  <2>1. \A p \in Requests : stamp'[p] <= last'
    BY <1>3, <1>4, <1>5, <1>s
  <2>2. \A p, r \in Live' : p # r => stamp'[p] # stamp'[r]
    BY <1>4, <1>5, <1>6, <1>7, <1>s DEF LedgerInv, Stamps
  <2> QED BY <2>1, <2>2 DEF Stamps
<1>9. ASSUME NEW f \in Live PROVE Changes(f)'
  <2>1. Changes(f) /\ stamp'[f] = stamp[f] /\ ~Before(q, f)'
    BY <1>4, <1>5, <1>7, <1>9, <1>s DEF LedgerInv, Before
  <2>2. \A e, g \in Live : Before(e, g)' <=> Before(e, g)
    BY <1>5, <1>7 DEF Before
  <2> QED BY <1>2, <1>6, <1>7, <2>1, <2>2 DEF Changes
<1>10. Changes(q)'
  <2>1. \A e \in Writing : e \in met[q]
    BY <1>2, <1>7 DEF Begun, Overlap, Pending, Writing
  <2>2. ledger # {} => l \in ledger /\ \A e \in ledger \ {l} : Before(e, l)'
    <3> SUFFICES ASSUME ledger # {} PROVE l \in ledger /\ \A e \in ledger \ {l} : Before(e, l)'
      OBVIOUS
    <3>1. l \in ledger /\ \A e \in ledger : stamp[e] <= stamp[l]
      BY <1>3 DEF Newest
    <3>2. \A e \in ledger \ {l} : stamp[e] # stamp[l]
      BY <3>1, <1>7 DEF LedgerInv, Stamps
    <3> QED BY <3>1, <3>2, <1>5, <1>7, <1>s DEF Before
  <2>3. \A e \in ledger : Before(e, q)'
    BY <1>4, <1>5, <1>7 DEF Before
  <2>4. l \in ledger => effect[l] # effect[q]
    BY <1>3, <1>7, Distinct DEF SameState
  <2>5. effect[q] = Base => ledger # {}
    BY <1>3 DEF SameState
  <2>6. ASSUME NEW e \in ledger, effect[e] = effect[q]
        PROVE  \E g \in ledger : Before(e, g)' /\ Before(g, q)'
    BY <2>2, <2>3, <2>4, <2>6
  <2>7. ~Before(q, q)'
    BY <1>4, <1>5 DEF Before
  <2> HIDE DEF Before
  <2> QED BY <1>2, <1>6, <2>1, <2>3, <2>5, <2>6, <2>7 DEF Changes
<1>11. \A p \in ledger' : evaluation' = "there" /\ pc'[p] \in {"policy", "done"}
  BY <1>2, <1>5, <1>7 DEF LedgerInv
<1> QED BY <1>6, <1>8, <1>9, <1>10, <1>11 DEF LedgerInv

\* An event is appended.
LEMMA LedgerAppends ==
  ASSUME Begun, LedgerInv, [Next]_vars, NEW q \in Requests, Appends(q), ledger' # ledger
  PROVE  LedgerInv'
<1>1. Onward /\ Continues(q)
  BY OnwardNext, ContinuesNext
<1>2. /\ pc[q] = "insert" /\ pc'[q] = "policy" /\ ledger' = ledger \cup {q} /\ q \in Writing
      /\ evaluation = "there" /\ UNCHANGED <<evaluation, kind, effect, met, stamp, clock, last>>
  <2>1. kind[q] \in {"promote", "reset"} /\ evaluation # "gone"
        /\ UNCHANGED <<evaluation, kind, effect, met, stamp, clock, last>>
    BY DEF Appends, times, input
  <2>2. pc[q] = "insert" /\ pc'[q] = "policy" /\ ledger' = ledger \cup {q}
    BY DEF Appends, Goes, Answers, Begun, TypeOK
  <2>3. evaluation = "there"
    BY <2>1 DEF Begun, TypeOK, Places, None
  <2> QED BY <2>1, <2>2, <2>3 DEF Writing
<1>3. \A p \in Requests \ {q} : pc'[p] = pc[p]
  BY <1>1 DEF Continues
<1>4. Writing' \subseteq Writing /\ Live' \subseteq Live
  BY <1>2, <1>3 DEF Writing, Live
<1>5. \A p \in ledger' : evaluation' = "there" /\ pc'[p] \in {"policy", "done"}
  BY <1>2, <1>3 DEF LedgerInv, Begun, TypeOK
<1>6. Stamps'
  BY <1>2, <1>4 DEF LedgerInv, Stamps
<1>7. ASSUME NEW f \in Live' PROVE Changes(f)'
  <2>1. Changes(f)
    BY <1>4, <1>7 DEF LedgerInv
  <2> QED BY <1>2, <1>4, <2>1 DEF Changes, Before
<1> QED BY <1>5, <1>6, <1>7 DEF LedgerInv

LEMMA LedgerContinues ==
  ASSUME Begun, LedgerInv, [Next]_vars, NEW q \in Requests, Continues(q),
         UNCHANGED <<ledger, stamp, last>>,
         pc[q] = "policy" => pc'[q] = "done",
         pc'[q] # "insert" \/ kind[q] \notin {"promote", "reset"}
  PROVE  LedgerInv'
<1>1. UNCHANGED <<kind, clock>> /\ (evaluation' = evaluation \/ evaluation # "there")
  BY DEF Continues, input, None
<1>2. pc[q] # "done" /\ \A p \in Requests \ {q} : pc'[p] = pc[p]
  BY DEF Continues, Pending
<1>3. \A p \in Requests : stamp[p] <= last' \/ stamp[p] < clock'
  BY <1>1 DEF LedgerInv, Stamps
<1> QED BY <1>1, <1>2, <1>3, LedgerRest

LEMMA LedgerStarts ==
  ASSUME Begun, LedgerInv, [Next]_vars, NEW q \in Requests, Starts(q),
         pc'[q] # "insert" \/ kind'[q] \notin {"promote", "reset"}
  PROVE  LedgerInv'
<1>1. UNCHANGED <<evaluation, ledger, stamp, clock, last>>
  BY DEF Starts, rows, times
<1>2. pc[q] = "new" /\ \A p \in Requests \ {q} : pc'[p] = pc[p] /\ kind'[p] = kind[p]
  BY DEF Starts
<1>3. \A p \in Requests : stamp[p] <= last' \/ stamp[p] < clock'
  BY <1>1 DEF LedgerInv, Stamps
<1> QED BY <1>1, <1>2, <1>3, LedgerRest

LEMMA LedgerNext ==
  ASSUME Begun, LedgerInv, [Next]_vars
  PROVE  LedgerInv'
<1>1. ASSUME NEW q \in Requests, Evaluate(q) \/ Review(q) PROVE LedgerInv'
  <2>1. kind'[q] \in {"evaluate", "review"}
    BY <1>1 DEF Evaluate, Review, Begins, Begun, TypeOK
  <2> QED BY <1>1, <2>1, StartsNext, LedgerStarts
<1>2. ASSUME NEW q \in Requests, NEW k \in Keys \cup {None}, Rerun(q, k) PROVE LedgerInv'
  <2>1. kind'[q] = "rerun"
    BY <1>2 DEF Rerun, Begins, Begun, TypeOK
  <2> QED BY <1>2, <2>1, StartsNext, LedgerStarts
<1>3. ASSUME NEW q \in Requests, NEW k \in Keys \cup {None},
             NEW t \in Reruns \cup {Base}, Promote(q, k, t) PROVE LedgerInv'
  <2>1. pc'[q] = "key"
    BY <1>3 DEF Promote, Goes, Begun, TypeOK
  <2> QED BY <1>3, <2>1, StartsNext, LedgerStarts
<1>4. ASSUME NEW q \in Requests, EngineEvaluates(q) \/ EngineReruns(q) PROVE LedgerInv'
  <2>1. /\ kind[q] \in {"evaluate", "rerun"} /\ pc[q] = "engine"
        /\ UNCHANGED <<ledger, stamp, last>>
    BY <1>4 DEF EngineEvaluates, EngineReruns, Answers, Goes, rows, times
  <2> QED BY <1>4, <2>1, ContinuesNext, LedgerContinues
<1>5. ASSUME NEW q \in Requests,
             Upserts(q) \/ WritesRun(q) \/ WritesFailed(q) \/ RecordsReview(q)
      PROVE  LedgerInv'
  <2>1. /\ kind[q] \in {"evaluate", "rerun", "review"} /\ pc[q] \in {"insert", "fail"}
        /\ UNCHANGED <<ledger, stamp, last>>
    BY <1>5 DEF Upserts, WritesRun, WritesFailed, RecordsReview, Answers, Goes, times
  <2> QED BY <1>5, <2>1, ContinuesNext, LedgerContinues
<1>6. ASSUME NEW q \in Requests, ReadsKey(q) \/ ShowsPolicy(q) \/ Links(q) PROVE LedgerInv'
  <2>1. /\ pc'[q] # "insert" /\ (pc[q] = "policy" => pc'[q] = "done")
        /\ UNCHANGED <<ledger, stamp, last>>
    BY <1>6 DEF ReadsKey, ShowsPolicy, Links, Answers, Goes, rows, times, Begun, TypeOK
  <2> QED BY <1>6, <2>1, ContinuesNext, LedgerContinues
<1>7. ASSUME NEW q \in Requests, ReadsLatest(q) PROVE LedgerInv'
  <2>1. CASE pc'[q] = "insert"
    BY <1>7, <2>1, LedgerStamps
  <2>2. CASE pc'[q] # "insert"
    <3>1. pc[q] = "latest" /\ UNCHANGED <<ledger, stamp, last>>
      BY <1>7, <2>2 DEF ReadsLatest, Answers, Goes, rows, Begun, TypeOK
    <3> QED BY <1>7, <2>2, <3>1, ContinuesNext, LedgerContinues
  <2> QED BY <2>1, <2>2
<1>8. ASSUME NEW q \in Requests, Appends(q) PROVE LedgerInv'
  <2>1. CASE ledger' # ledger
    BY <1>8, <2>1, LedgerAppends
  <2>2. CASE ledger' = ledger
    <3>1. pc[q] = "insert" /\ pc'[q] # "insert" /\ UNCHANGED <<stamp, last>>
      BY <1>8 DEF Appends, Answers, Goes, times, Begun, TypeOK
    <3> QED BY <1>8, <2>2, <3>1, ContinuesNext, LedgerContinues
  <2> QED BY <2>1, <2>2
<1>9. CASE Cascade
  <2>1. /\ ledger' = {} /\ evaluation' = "gone"
        /\ UNCHANGED <<stamp, clock, last, pc, kind, effect, met>>
    BY <1>9 DEF Cascade, times, input
  <2>2. Writing' = Writing /\ Live' \subseteq Live
    BY <2>1 DEF Writing, Live
  <2>3. Stamps'
    BY <2>1, <2>2 DEF LedgerInv, Stamps
  <2>4. ASSUME NEW f \in Live' PROVE Changes(f)'
    <3>1. Changes(f)
      BY <2>2, <2>4 DEF LedgerInv
    <3> QED BY <2>1, <2>2, <3>1 DEF Changes, Before
  <2> QED BY <2>1, <2>3, <2>4 DEF LedgerInv
<1>10. CASE Tick
  <2>1. clock' = clock + 1 /\ UNCHANGED <<ledger, evaluation, stamp, last, pc, kind>>
    BY <1>10 DEF Tick, rows, input
  <2>2. \A p \in Requests : stamp[p] <= last' \/ stamp[p] < clock'
    BY <2>1 DEF LedgerInv, Stamps, Begun, TypeOK
  <2> QED BY <2>1, <2>2, LedgerRest
<1>11. CASE Crash
  <2>1. /\ clock' = (IF clock <= last THEN last ELSE clock) + 1
        /\ UNCHANGED <<ledger, evaluation, stamp, kind>>
        /\ \A q \in Requests : pc'[q] = pc[q] \/ pc'[q] = "done"
    BY <1>11 DEF Crash, rows, input, Begun, TypeOK
  <2>2. \A p \in Requests : stamp[p] < clock'
    BY <2>1 DEF LedgerInv, Stamps, Begun, TypeOK
  <2> QED BY <2>1, <2>2, LedgerRest
<1>12. CASE UNCHANGED vars
  <2>1. UNCHANGED <<ledger, evaluation, stamp, clock, last, pc, kind>>
    BY <1>12 DEF vars, rows, times, input
  <2> QED BY <2>1, LedgerRest DEF LedgerInv, Stamps
<1> QED BY <1>1, <1>2, <1>3, <1>4, <1>5, <1>6, <1>7, <1>8, <1>9, <1>10, <1>11, <1>12 DEF Next

\* Two neighbours of the ledger have one effect only when their requests
\* overlapped, and the first event is no reset (nextPromotionTimestamp and the
\* newest event that promoteEvaluationRerun and resetEvaluationVersionPolicy
\* compare with).
THEOREM EventsAlternateHolds == Spec => []EventsAlternate
<1>1. Init => LedgerInv
  BY DEF Init, LedgerInv, Stamps, Live, Writing
<1>2. Begun /\ LedgerInv => EventsAlternate
  <2> SUFFICES ASSUME LedgerInv PROVE EventsAlternate
    OBVIOUS
  <2>1. \A f \in ledger : Changes(f) /\ evaluation = "there"
    BY DEF LedgerInv, Live
  <2> QED BY <2>1 DEF Changes, EventsAlternate, Follows
<1> QED BY <1>1, <1>2, LedgerNext, BegunHolds, PTL DEF Spec
=============================================================================
