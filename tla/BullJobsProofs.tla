--------------------------- MODULE BullJobsProofs ---------------------------
(***************************************************************************)
(* Theorems about BullJobs, for every number of clients and workers and    *)
(* every value of the bounds.                                              *)
(***************************************************************************)
EXTENDS BullJobs, FiniteSetTheorems, TLAPS

Copy == Record \cup {NoRecord}

\* The patches turn a record into a record.
LEMMA PatchType ==
  /\ Created \in Record
  /\ \A r \in Record :
       /\ MarkRunning(r) \in Record /\ Heartbeat(r) \in Record
       /\ MarkCompleted(r) \in Record /\ MarkFailed(r) \in Record
       /\ MarkTimedOut(r) \in Record /\ MarkCancelled(r) \in Record
       /\ \A s \in Statuses : RequestCancellation(s, r) \in Record
  /\ \A r \in Copy : Aged(r) \in Copy
BY DEF Created, MarkRunning, Heartbeat, MarkCompleted, MarkFailed, MarkTimedOut,
       MarkCancelled, RequestCancellation, Aged, Record, Statuses, Beats, Copy,
       NoRecord

\* What get() answers is a record, or none.
LEMMA GetType ==
  ASSUME TypeOK
  PROVE  /\ ApiGet \in Copy
         /\ \A w \in Workers : WorkerGet(w) \in Copy
         /\ ApiGet # NoRecord => ApiGet \in Record
         /\ \A w \in Workers : WorkerGet(w) # NoRecord => WorkerGet(w) \in Record
BY DEF TypeOK, ApiGet, WorkerGet, Get, Copy

LEMMA TypeInit == Init => TypeOK
BY BullAssumption DEF Init, TypeOK, Statuses, None, WorkerSteps, ClientSteps

LEMMA TypeClient ==
  ASSUME TypeOK, NEW c \in Clients, ClientRequest(c) \/ ClientStep(c)
  PROVE  TypeOK'
<1> USE PatchType, GetType DEF TypeOK, Copy, ApiRemembers, ApiStores, ApiCopy,
        Copied, rowVars, queueVars, workerVars, clientVars, boundVars, Goto,
        Reply, Begin, ClientSteps
<1>1. CASE CreateFind(c) BY <1>1 DEF CreateFind
<1>2. CASE CancelRead(c) BY <1>2 DEF CancelRead
<1>3. CASE RemoveRead(c) BY <1>3 DEF RemoveRead
<1>4. CASE Poll(c) BY <1>4 DEF Poll
<1>5. CASE CreateRow(c) BY <1>5 DEF CreateRow
<1>6. CASE AddJob(c) BY <1>6 DEF AddJob
<1>7. CASE AddThrows(c) BY <1>7 DEF AddThrows
<1>8. CASE AddFailed(c) BY <1>8 DEF AddFailed, ApiUpdate, Statuses
<1>9. CASE Dequeue(c) BY <1>9 DEF Dequeue
<1>10. CASE CancelQueued(c) BY <1>10 DEF CancelQueued, ApiUpdate, Statuses
<1>11. CASE AskRead(c)
  <2>1. ApiGet # NoRecord => ApiGet.status \in Statuses BY DEF Record
  <2>2. QED BY <1>11, <2>1 DEF AskRead
<1>12. CASE AskUpdate(c) BY <1>12 DEF AskUpdate, ApiUpdate, Statuses
<1>13. CASE Expire(c) BY <1>13 DEF Expire, ApiUpdate, Statuses
<1>14. CASE ClientCommit(c) BY <1>14 DEF ClientCommit, Answered
<1>15. CASE DeleteGet(c) BY <1>15 DEF DeleteGet
<1>16. CASE Delete(c) BY <1>16 DEF Delete
<1>17. CASE CreateCommit(c) BY <1>17 DEF CreateCommit
<1>18. QED BY <1>17, <1>1, <1>2, <1>3, <1>4, <1>5, <1>6, <1>7, <1>8, <1>9,
   <1>10, <1>11, <1>12, <1>13, <1>14, <1>15, <1>16 DEF ClientRequest,
   ClientStep

LEMMA TypeWorker ==
  ASSUME TypeOK, NEW w \in Workers,
         \/ Take(w) \/ Attempt(w) \/ Timers(w) \/ Listener(w)
         \/ Engine(w) \/ Crash(w) \/ Stall(w)
  PROVE  TypeOK'
<1> USE PatchType, GetType DEF TypeOK, Copy, WorkerRemembers, WorkerStores,
        WorkerCopy, Copied, rowVars, queueVars, workerVars, clientVars,
        boundVars, Step, WorkerSteps
<1>1. CASE Fetch(w) BY <1>1 DEF Fetch
<1>2. CASE FetchCreates(w) BY <1>2 DEF FetchCreates
<1>3. CASE PreCancel(w) BY <1>3 DEF PreCancel, Update
<1>4. CASE PreCancelCommit(w) BY <1>4 DEF PreCancelCommit, Commit
<1>5. CASE Start(w) BY <1>5 DEF Start, Update
<1>6. CASE StartCommit(w) BY <1>6 DEF StartCommit, Commit
<1>7. CASE SyncBeat(w) BY <1>7 DEF SyncBeat, Update
<1>8. CASE SyncCommit(w) BY <1>8 DEF SyncCommit, Commit
<1>9. CASE Final(w) BY <1>9 DEF Final, Update, Ended, AfterEnd
<1>10. CASE FinalCommit(w) BY <1>10 DEF FinalCommit, Commit, AfterEnd
<1>11. CASE Completes(w) BY <1>11 DEF Completes, Forgets
<1>12. CASE Fails(w) BY <1>12 DEF Fails, Forgets
<1>13. CASE TimeoutFires(w) BY <1>13 DEF TimeoutFires
<1>14. CASE WatchAborts(w) BY <1>14 DEF WatchAborts
<1>15. CASE BeatRead(w) BY <1>15 DEF BeatRead
<1>16. CASE BeatCommit(w) BY <1>16 DEF BeatCommit
<1>17. CASE EventRead(w) BY <1>17 DEF EventRead
<1>18. CASE EventCommit(w) BY <1>18 DEF EventCommit
<1>19. CASE EngineReturns(w) BY <1>19 DEF EngineReturns
<1>20. CASE EngineThrows(w) BY <1>20 DEF EngineThrows
<1>21. CASE Crash(w) BY <1>21 DEF Crash, Forgets
<1>22. CASE Stall(w)
  <2>1. holder' \in Workers \cup {None} /\ stalls' \in Nat
    BY <1>22 DEF Stall
  <2>2. /\ queue' \in {"absent", "waiting", "active", "completed", "failed"}
        /\ emitted' \subseteq Workers
        /\ causes' \subseteq {"asked", "early", "unqueued", "reposted", "removed",
                              "started", "returned", "threw", "fired", "expired",
                              "lost"}
    BY <1>22 DEF Stall
  <2>3. UNCHANGED <<rowVars, made, pc, reason, outcome, main, beat, event,
                    clientVars, boundVars>>
    BY <1>22 DEF Stall
  <2>4. QED BY <2>1, <2>2, <2>3
<1>23. CASE Take(w) BY <1>23 DEF Take
<1>24. CASE FetchCreatesCommit(w) BY <1>24 DEF FetchCreatesCommit, Commit
<1>25. CASE ProgressFails(w) BY <1>25 DEF ProgressFails
<1>26. QED BY <1>25, <1>24, <1>1, <1>2, <1>3, <1>4, <1>5, <1>6, <1>7, <1>8,
   <1>9, <1>10, <1>11, <1>12, <1>13, <1>14, <1>15, <1>16, <1>17, <1>18, <1>19,
   <1>20, <1>21, <1>22, <1>23 DEF Attempt, Timers, Listener, Engine

\* TypeCorrect: every variable keeps its type; in particular what is in flight
\* between a read and its upsert is always a whole record.
THEOREM TypeCorrect == Spec => []TypeOK
<1>1. ASSUME TypeOK, [Next]_vars PROVE TypeOK'
  <2>1. CASE BeatExpires
    BY <1>1, <2>1, PatchType DEF BeatExpires, TypeOK, Copy, queueVars,
       workerVars, clientVars, boundVars
  <2>2. CASE UNCHANGED vars
    BY <1>1, <2>2 DEF TypeOK, vars, rowVars, queueVars, workerVars, clientVars,
       boundVars
  <2>3. QED BY <1>1, <2>1, <2>2, TypeClient, TypeWorker DEF Next
<1>2. QED BY <1>1, TypeInit, PTL DEF Spec

-----------------------------------------------------------------------------
\* What explains a record goes on explaining it.
LEMMA StillExplained ==
  ASSUME NEW past, NEW more, past \subseteq more
  PROVE  /\ \A r : Explained(r, past) => Explained(r, more)
         /\ \A s : StatusExplained(s, past) => StatusExplained(s, more)
BY DEF Explained, StatusExplained

\* A patch is explained by what explains the record and the new status.
LEMMA PatchExplained ==
  ASSUME NEW past, NEW r \in Record, Explained(r, past)
  PROVE  /\ Explained(MarkRunning(r), past)
         /\ Explained(Heartbeat(r), past)
         /\ "returned" \in past => Explained(MarkCompleted(r), past)
         /\ "threw" \in past \/ "unqueued" \in past => Explained(MarkFailed(r), past)
         /\ "fired" \in past \/ "expired" \in past \/ "asked" \in past
              => Explained(MarkTimedOut(r), past)
         /\ "asked" \in past => Explained(MarkCancelled(r), past)
         /\ \A s \in Statuses : "asked" \in past /\ StatusExplained(s, past)
              => Explained(RequestCancellation(s, r), past)
         /\ StatusExplained(r.status, past)
         /\ r.cancel => "asked" \in past
         /\ r.status = "running" /\ HeartbeatStale(r)
              => "asked" \in past \/ "expired" \in past
<1>1. r # NoRecord BY DEF Record, NoRecord, Statuses
<1>2. QED
  BY <1>1 DEF Explained, StatusExplained, MarkRunning, Heartbeat,
     MarkCompleted, MarkFailed, MarkTimedOut, MarkCancelled,
     RequestCancellation, HeartbeatStale, Record, Statuses, Beats

LEMMA NewExplained ==
  ASSUME NEW past
  PROVE  /\ Explained(Created, past) /\ Explained(NoRecord, past)
         /\ StatusExplained("queued", past)
BY DEF Explained, StatusExplained, Created

LEMMA GetExplained ==
  ASSUME TypeOK, CauseInv
  PROVE  /\ Explained(ApiGet, causes)
         /\ \A w \in Workers : Explained(WorkerGet(w), causes)
BY DEF CauseInv, WorkerExplained, ApiGet, WorkerGet, Get

\* All that was explained still is when the history grows.
LEMMA HistoryGrows ==
  ASSUME CauseInv, causes \subseteq causes'
  PROVE  /\ Explained(row, causes') /\ Explained(apiCache, causes')
         /\ \A w \in Workers :
              /\ Explained(cache[w], causes') /\ Explained(main[w], causes')
              /\ Explained(beat[w], causes') /\ Explained(event[w], causes')
         /\ \A c \in Clients :
              Explained(req[c], causes') /\ StatusExplained(seen[c], causes')
BY StillExplained DEF CauseInv, WorkerExplained, ClientExplained

LEMMA CauseInit == Init => CauseInv
BY NewExplained DEF Init, CauseInv, WorkerExplained, ClientExplained

LEMMA CauseClient ==
  ASSUME TypeOK, CauseInv, NEW c \in Clients, ClientRequest(c) \/ ClientStep(c)
  PROVE  CauseInv'
<1> USE PatchExplained, NewExplained, GetType, GetExplained DEF TypeOK,
        CauseInv, WorkerExplained, ClientExplained, ApiRemembers, ApiStores,
        ApiCopy, Copied, rowVars, queueVars, workerVars, clientVars, boundVars,
        Goto, Reply, Begin
<1>1. CASE CreateFind(c) BY <1>1 DEF CreateFind
<1>2. CASE CancelRead(c)
  <2>1. causes \subseteq causes' /\ "asked" \in causes' BY <1>2 DEF CancelRead
  <2>2. Explained(ApiGet, causes') BY <2>1, StillExplained
  <2>3. Explained(row', causes') /\ Explained(apiCache', causes')
    BY <1>2, <2>1, <2>2, HistoryGrows DEF CancelRead
  <2>4. ASSUME NEW u \in Workers PROVE WorkerExplained(u)'
    BY <1>2, <2>1, HistoryGrows DEF CancelRead
  <2>5. ASSUME NEW d \in Clients PROVE ClientExplained(d)'
    BY <1>2, <2>1, HistoryGrows DEF CancelRead
  <2>6. QED BY <2>3, <2>4, <2>5
<1>3. CASE RemoveRead(c)
  <2>1. causes \subseteq causes' /\ "asked" \in causes' BY <1>3 DEF RemoveRead
  <2>2. Explained(ApiGet, causes') BY <2>1, StillExplained
  <2>3. Explained(row', causes') /\ Explained(apiCache', causes')
    BY <1>3, <2>1, <2>2, HistoryGrows DEF RemoveRead
  <2>4. ASSUME NEW u \in Workers PROVE WorkerExplained(u)'
    BY <1>3, <2>1, HistoryGrows DEF RemoveRead
  <2>5. ASSUME NEW d \in Clients PROVE ClientExplained(d)'
    BY <1>3, <2>1, HistoryGrows DEF RemoveRead
  <2>6. QED BY <2>3, <2>4, <2>5
<1>4. CASE Poll(c) BY <1>4 DEF Poll
<1>5. CASE CreateRow(c) BY <1>5 DEF CreateRow
<1>6. CASE AddJob(c) BY <1>6 DEF AddJob
<1>7. CASE AddThrows(c)
  <2>1. causes \subseteq causes' BY <1>7 DEF AddThrows
  <2>2. QED BY <1>7, <2>1, HistoryGrows DEF AddThrows
<1>8. CASE AddFailed(c) BY <1>8 DEF AddFailed, ApiUpdate
<1>9. CASE Dequeue(c) BY <1>9 DEF Dequeue
<1>10. CASE CancelQueued(c) BY <1>10 DEF CancelQueued, ApiUpdate
<1>11. CASE AskRead(c)
  <2>1. ApiGet # NoRecord => StatusExplained(ApiGet.status, causes)
    OBVIOUS
  <2>2. QED BY <1>11, <2>1 DEF AskRead
<1>12. CASE AskUpdate(c)
  <2>1. ApiGet # NoRecord => Explained(RequestCancellation(seen[c], ApiGet), causes)
    BY <1>12 DEF AskUpdate, ApiUpdate
  <2>2. QED BY <1>12, <2>1 DEF AskUpdate, ApiUpdate
<1>13. CASE Expire(c) BY <1>13 DEF Expire, ApiUpdate
<1>14. CASE ClientCommit(c)
  <2>1. causes \subseteq causes' BY <1>14 DEF ClientCommit, Answered
  <2>2. QED BY <1>14, <2>1, HistoryGrows DEF ClientCommit, Answered
<1>15. CASE DeleteGet(c) BY <1>15 DEF DeleteGet
<1>16. CASE Delete(c)
  <2>1. causes \subseteq causes' BY <1>16 DEF Delete
  <2>2. QED BY <1>16, <2>1, HistoryGrows DEF Delete
<1>17. CASE CreateCommit(c)
  <2>1. causes \subseteq causes' BY <1>17 DEF CreateCommit
  <2>2. QED BY <1>17, <2>1, HistoryGrows DEF CreateCommit
<1>18. QED BY <1>17, <1>1, <1>2, <1>3, <1>4, <1>5, <1>6, <1>7, <1>8, <1>9,
   <1>10, <1>11, <1>12, <1>13, <1>14, <1>15, <1>16 DEF ClientRequest,
   ClientStep

LEMMA CauseWorker ==
  ASSUME TypeOK, CauseInv, NEW w \in Workers,
         \/ Take(w) \/ Attempt(w) \/ Timers(w) \/ Listener(w)
         \/ Engine(w) \/ Crash(w) \/ Stall(w)
  PROVE  CauseInv'
<1> USE PatchExplained, NewExplained, GetType, GetExplained DEF TypeOK,
        CauseInv, WorkerExplained, ClientExplained, WorkerRemembers,
        WorkerStores, WorkerCopy, Copied, rowVars, queueVars, workerVars,
        clientVars, boundVars, Step
<1>1. CASE Fetch(w)
  <2>1. causes \subseteq causes' BY <1>1 DEF Fetch
  <2>2. WorkerGet(w) # NoRecord /\ WorkerGet(w).cancel => "asked" \in causes
    OBVIOUS
  <2>3. Explained(WorkerGet(w), causes') BY <2>1, StillExplained
  <2>4. pc'[w] = "preCancel" => "asked" \in causes' BY <1>1, <2>1, <2>2 DEF Fetch
  <2>5. \A u \in Workers : Explained(cache'[u], causes')
    BY <1>1, <2>1, <2>3, HistoryGrows DEF Fetch
  <2>6. ASSUME NEW u \in Workers PROVE WorkerExplained(u)'
    BY <1>1, <2>1, <2>4, <2>5, HistoryGrows DEF Fetch
  <2>7. ASSUME NEW d \in Clients PROVE ClientExplained(d)'
    BY <1>1, <2>1, HistoryGrows DEF Fetch
  <2>8. Explained(row', causes') /\ Explained(apiCache', causes')
    BY <1>1, <2>1, HistoryGrows DEF Fetch
  <2>9. QED BY <2>6, <2>7, <2>8
<1>2. CASE FetchCreates(w) BY <1>2 DEF FetchCreates
<1>3. CASE PreCancel(w) BY <1>3 DEF PreCancel, Update
<1>4. CASE PreCancelCommit(w) BY <1>4 DEF PreCancelCommit, Commit
<1>5. CASE Start(w) BY <1>5 DEF Start, Update
<1>6. CASE StartCommit(w) BY <1>6 DEF StartCommit, Commit
<1>7. CASE SyncBeat(w) BY <1>7 DEF SyncBeat, Update
<1>8. CASE SyncCommit(w) BY <1>8 DEF SyncCommit, Commit
<1>9. CASE Final(w) BY <1>9 DEF Final, Update, Ended, AfterEnd
<1>10. CASE FinalCommit(w) BY <1>10 DEF FinalCommit, Commit, AfterEnd
<1>11. CASE Completes(w) BY <1>11 DEF Completes, Forgets
<1>12. CASE Fails(w) BY <1>12 DEF Fails, Forgets
<1>13. CASE TimeoutFires(w)
  <2>1. causes \subseteq causes' BY <1>13 DEF TimeoutFires
  <2>2. QED BY <1>13, <2>1, HistoryGrows DEF TimeoutFires
<1>14. CASE WatchAborts(w) BY <1>14 DEF WatchAborts
<1>15. CASE BeatRead(w) BY <1>15 DEF BeatRead
<1>16. CASE BeatCommit(w) BY <1>16 DEF BeatCommit
<1>17. CASE EventRead(w) BY <1>17 DEF EventRead
<1>18. CASE EventCommit(w) BY <1>18 DEF EventCommit
<1>19. CASE EngineReturns(w)
  <2>1. causes \subseteq causes' BY <1>19 DEF EngineReturns
  <2>2. QED BY <1>19, <2>1, HistoryGrows DEF EngineReturns
<1>20. CASE EngineThrows(w)
  <2>1. causes \subseteq causes' BY <1>20 DEF EngineThrows
  <2>2. QED BY <1>20, <2>1, HistoryGrows DEF EngineThrows
<1>21. CASE Crash(w)
  <2>1. causes \subseteq causes' BY <1>21 DEF Crash
  <2>2. QED BY <1>21, <2>1, HistoryGrows DEF Crash, Forgets
<1>22. CASE Stall(w)
  <2>1. causes \subseteq causes' BY <1>22 DEF Stall
  <2>2. QED BY <1>22, <2>1, HistoryGrows DEF Stall
<1>23. CASE Take(w) BY <1>23 DEF Take
<1>24. CASE FetchCreatesCommit(w) BY <1>24 DEF FetchCreatesCommit, Commit
<1>25. CASE ProgressFails(w)
  <2>1. causes \subseteq causes' /\ "threw" \in causes' BY <1>25 DEF ProgressFails
  <2>2. QED BY <1>25, <2>1, HistoryGrows DEF ProgressFails
<1>26. QED BY <1>25, <1>24, <1>1, <1>2, <1>3, <1>4, <1>5, <1>6, <1>7, <1>8,
   <1>9, <1>10, <1>11, <1>12, <1>13, <1>14, <1>15, <1>16, <1>17, <1>18, <1>19,
   <1>20, <1>21, <1>22, <1>23 DEF Attempt, Timers, Listener, Engine

LEMMA CauseExpires ==
  ASSUME TypeOK, CauseInv, BeatExpires
  PROVE  CauseInv'
<1>1. causes \subseteq causes' /\ "expired" \in causes' BY DEF BeatExpires
<1>2. \A r \in Copy : Explained(r, causes') => Explained(Aged(r), causes')
  BY <1>1 DEF Explained, StatusExplained, Aged, Copy, Record, NoRecord, Beats
<1>3. Explained(row', causes') /\ Explained(apiCache', causes')
  BY <1>1, <1>2, HistoryGrows DEF BeatExpires, TypeOK, Copy
<1>4. \A u \in Workers : Explained(cache'[u], causes')
  BY <1>1, <1>2, HistoryGrows DEF BeatExpires, TypeOK, Copy
<1>5. ASSUME NEW u \in Workers PROVE WorkerExplained(u)'
  BY <1>1, <1>4, HistoryGrows
     DEF BeatExpires, CauseInv, WorkerExplained, workerVars
<1>6. ASSUME NEW d \in Clients PROVE ClientExplained(d)'
  BY <1>1, HistoryGrows DEF BeatExpires, CauseInv, ClientExplained, clientVars
<1>7. QED BY <1>3, <1>5, <1>6 DEF CauseInv

\* CauseHolds: every copy of the row, every write in flight and every place
\* where one is about to be made is explained by what happened.
THEOREM CauseHolds == Spec => []CauseInv
<1>1. ASSUME TypeOK, CauseInv, [Next]_vars PROVE CauseInv'
  <2>1. CASE UNCHANGED vars
    BY <1>1, <2>1 DEF CauseInv, WorkerExplained, ClientExplained, vars, rowVars,
       queueVars, workerVars, clientVars, boundVars
  <2>2. QED BY <1>1, <2>1, CauseClient, CauseWorker, CauseExpires DEF Next
<1>2. QED BY <1>1, CauseInit, TypeCorrect, PTL DEF Spec

\* StatusHasCauseHolds: no interleaving of the unsynchronised read-and-upsert
\* pairs shows a status that nothing which happened explains.
THEOREM StatusHasCauseHolds == Spec => []StatusHasCause
<1>1. CauseInv => StatusHasCause
  BY DEF CauseInv, Explained, StatusHasCause
<1>2. QED BY <1>1, CauseHolds, PTL

-----------------------------------------------------------------------------
LEMMA OrphansFinite == IsFiniteSet(Orphans)
<1>1. Orphans \in SUBSET Workers BY DEF Orphans
<1>2. QED BY <1>1, BullAssumption, FS_Subset

\* The holder of the lock adds at most one to the orphans.
LEMMA WithHolder ==
  /\ IsFiniteSet(Orphans \cup {holder})
  /\ Cardinality(Orphans) \in Nat
  /\ Cardinality(Orphans \cup {holder}) \in Nat
  /\ Cardinality(Orphans \cup {holder}) <= Cardinality(Orphans) + 1
<1>1. /\ IsFiniteSet(Orphans \cup {holder})
      /\ Cardinality(Orphans \cup {holder})
           = IF holder \in Orphans THEN Cardinality(Orphans)
             ELSE Cardinality(Orphans) + 1
  BY OrphansFinite, FS_AddElement
<1>2. Cardinality(Orphans) \in Nat BY OrphansFinite, FS_CardinalityType
<1>3. QED BY <1>1, <1>2

LEMMA LockInit == Init => LockInv
<1> SUFFICES ASSUME Init PROVE LockInv OBVIOUS
<1>1. Orphans = {} BY DEF Init, Orphans
<1>2. QED BY <1>1, FS_EmptySet DEF Init, LockInv

\* A step that counts no stalled job makes no orphan.
LEMMA NoOrphan ==
  ASSUME TypeOK, LockInv, Orphans' \subseteq Orphans, stalls' = stalls,
         queue' # "active" => holder' = None
  PROVE  LockInv'
<1>1. IsFiniteSet(Orphans) BY OrphansFinite
<1>2. IsFiniteSet(Orphans') /\ Cardinality(Orphans') <= Cardinality(Orphans)
  BY <1>1, FS_Subset
<1>3. Cardinality(Orphans) \in Nat /\ Cardinality(Orphans') \in Nat
  BY <1>1, <1>2, FS_CardinalityType
<1>4. QED BY <1>2, <1>3 DEF LockInv, TypeOK

LEMMA LockClient ==
  ASSUME TypeOK, LockInv, NEW c \in Clients, ClientRequest(c) \/ ClientStep(c)
  PROVE  LockInv'
<1>1. /\ UNCHANGED <<pc, holder, stalls>>
      /\ queue' # "active" => holder' = None
  BY DEF LockInv, ClientRequest, ClientStep, CreateFind, CreateRow,
     CreateCommit, AddJob, AddThrows, AddFailed, Dequeue, CancelRead,
     RemoveRead, CancelQueued, AskRead, AskUpdate, Poll, Expire, ClientCommit,
     DeleteGet, Delete, ApiUpdate, queueVars, workerVars
<1>2. Orphans' = Orphans BY <1>1 DEF Orphans
<1>3. QED BY <1>1, <1>2, NoOrphan

LEMMA LockWorker ==
  ASSUME TypeOK, LockInv, NEW w \in Workers,
         Take(w) \/ Attempt(w) \/ Timers(w) \/ Listener(w) \/ Engine(w) \/ Crash(w)
  PROVE  LockInv'
<1> USE DEF LockInv, TypeOK, Orphans, queueVars, Step
<1>1. CASE Take(w)
  <2>1. Orphans' \subseteq Orphans BY <1>1, BullAssumption DEF Take
  <2>2. QED BY <1>1, <2>1, NoOrphan DEF Take
<1>2. CASE Completes(w) \/ Fails(w)
  <2>1. Orphans' \subseteq Orphans BY <1>2 DEF Completes, Fails
  <2>2. stalls' = stalls /\ (queue' # "active" => holder' = None)
    BY <1>2 DEF Completes, Fails
  <2>3. QED BY <2>1, <2>2, NoOrphan
<1>3. CASE Crash(w)
  <2>1. Orphans' \subseteq Orphans BY <1>3 DEF Crash
  <2>2. QED BY <1>3, <2>1, NoOrphan DEF Crash
<1>4. CASE (Attempt(w) /\ ~Completes(w) /\ ~Fails(w)) \/ Engine(w)
  <2>1. UNCHANGED <<queue, holder, made, stalls>>
    BY <1>4 DEF Attempt, Engine, Fetch, FetchCreates, FetchCreatesCommit,
       PreCancel, PreCancelCommit, Start, StartCommit, SyncBeat, SyncCommit,
       Final, FinalCommit, ProgressFails, Update, Commit, EngineReturns,
       EngineThrows
  <2>2. pc[w] # "idle" /\ \A u \in Workers \ {w} : pc'[u] = pc[u]
    BY <1>4 DEF Attempt, Engine, Fetch, FetchCreates, FetchCreatesCommit,
       PreCancel, PreCancelCommit, Start, StartCommit, SyncBeat, SyncCommit,
       Final, FinalCommit, ProgressFails, Update, Commit, EngineReturns,
       EngineThrows
  <2>3. Orphans' \subseteq Orphans BY <2>1, <2>2
  <2>4. QED BY <2>1, <2>3, NoOrphan
<1>5. CASE Timers(w) \/ Listener(w)
  <2>1. UNCHANGED <<queue, holder, made, stalls, pc>>
    BY <1>5 DEF Timers, Listener, TimeoutFires, WatchAborts, BeatRead,
       BeatCommit, EventRead, EventCommit
  <2>2. Orphans' = Orphans BY <2>1
  <2>3. QED BY <2>1, <2>2, NoOrphan
<1>6. QED BY <1>1, <1>2, <1>3, <1>4, <1>5 DEF Attempt

\* The stalled check orphans at most the holder of the lock, and counts it.
LEMMA LockStall ==
  ASSUME TypeOK, LockInv, NEW w \in Workers, Stall(w)
  PROVE  LockInv'
<1>1. Orphans' \subseteq Orphans \cup {holder} BY DEF Stall, Orphans
<1>2. /\ IsFiniteSet(Orphans')
      /\ Cardinality(Orphans') <= Cardinality(Orphans \cup {holder})
  BY <1>1, WithHolder, FS_Subset
<1>3. Cardinality(Orphans') \in Nat BY <1>2, FS_CardinalityType
<1>4. stalls' = stalls + 1 /\ holder' = None /\ Cardinality(Orphans) <= stalls
  BY DEF Stall, LockInv
<1>5. QED BY <1>2, <1>3, <1>4, WithHolder DEF LockInv, TypeOK

LEMMA LockIsOneEngine == ASSUME TypeOK, LockInv PROVE OneEngine
<1>1. Executing \subseteq Orphans \cup {holder} BY DEF Executing, Orphans
<1>2. /\ IsFiniteSet(Executing)
      /\ Cardinality(Executing) <= Cardinality(Orphans \cup {holder})
  BY <1>1, WithHolder, FS_Subset
<1>3. Cardinality(Executing) \in Nat BY <1>2, FS_CardinalityType
<1>4. QED BY <1>2, <1>3, WithHolder DEF LockInv, OneEngine, TypeOK

\* LockHolds: the attempts that go on without the lock never outnumber the
\* locks the job lost, whatever workers and clients do.
THEOREM LockHolds == Spec => []LockInv
<1>1. ASSUME TypeOK, LockInv, [Next]_vars PROVE LockInv'
  <2>1. CASE UNCHANGED vars
    <3>1. UNCHANGED <<queue, holder, stalls, pc>>
      BY <2>1 DEF vars, queueVars, workerVars
    <3>2. QED BY <1>1, <3>1 DEF LockInv, Orphans
  <2>2. CASE BeatExpires
    <3>1. UNCHANGED <<queue, holder, stalls, pc>>
      BY <2>2 DEF BeatExpires, queueVars, workerVars
    <3>2. QED BY <1>1, <3>1 DEF LockInv, Orphans
  <2>3. QED BY <1>1, <2>1, <2>2, LockClient, LockWorker, LockStall DEF Next
<1>2. QED BY <1>1, LockInit, TypeCorrect, PTL DEF Spec

\* OneEngineHolds: however many workers, clients, crashes and lost locks, the
\* engines running for a job never outnumber its lost locks by more than one.
THEOREM OneEngineHolds == Spec => []OneEngine
BY LockHolds, LockIsOneEngine, TypeCorrect, PTL

-----------------------------------------------------------------------------
\* A record that keeps every worker from starting an engine.
Barred(r, past) ==
  /\ r \in Record /\ r.cancel
  /\ r.status = "cancelled" \/ (r.status = "failed" /\ "threw" \in past)

\* What a snapshot can say before any worker looked at the record.
Unseen(r, past) ==
  r = NoRecord \/ Barred(r, past) \/ (r \in Record /\ r.status = "queued")

\* Nothing took the promise of an early cancellation away.
Quiet == causes \cap {"unqueued", "removed"} = {}

\* Everything that is in flight cancels the job or leaves it cancelled.
OnlyCancels ==
  /\ \A w \in Workers :
       beat[w] = NoRecord /\ (event[w] = NoRecord \/ Barred(event[w], causes))
  /\ \A c \in Clients :
       /\ cpc[c] # "expire"
       /\ req[c] = NoRecord \/ Barred(req[c], causes)
       /\ cpc[c] = "commit" => req[c] # NoRecord
       /\ seen[c] \in {"queued", "cancelled"} \/ (seen[c] = "failed" /\ "threw" \in causes)

\* Before any worker looked at the record or failed.
Unstarted ==
  /\ OnlyCancels /\ Unseen(row, causes) /\ Unseen(apiCache, causes)
  /\ \A w \in Workers :
       pc[w] \in {"idle", "get"} /\ main[w] = NoRecord /\ Unseen(cache[w], causes)

\* After a client was told that the job is cancelled.
Early ==
  /\ OnlyCancels /\ Barred(row, causes)
  /\ \A w \in Workers :
       /\ pc[w] \in {"idle", "get", "preCancel", "preCommit", "complete", "fail"}
       /\ pc[w] = "preCommit" => Barred(main[w], causes)
  /\ \A c \in Clients : cpc[c] \notin {"create", "createCommit"}

EarlyInv ==
  Quiet => /\ causes \cap {"started", "threw"} = {} => Unstarted
           /\ "early" \in causes => Early

\* The patches that requests, the attempt and the listener apply to a record
\* leave it barred, and a record that is barred stays so.
LEMMA BarredStays ==
  ASSUME NEW past
  PROVE  /\ Unseen(Created, past) /\ Unseen(NoRecord, past)
         /\ \A r \in Record :
              /\ Barred(MarkCancelled(r), past)
              /\ \A s \in Statuses :
                   s \in {"queued", "cancelled"} \/ (s = "failed" /\ "threw" \in past)
                     => Barred(RequestCancellation(s, r), past)
              /\ r.cancel /\ "threw" \in past => Barred(MarkFailed(r), past)
         /\ \A r : Barred(r, past) =>
              /\ r # NoRecord /\ r \in Record /\ r.cancel /\ Unseen(r, past)
              /\ r.status \in {"cancelled", "failed"}
              /\ r.status = "failed" => "threw" \in past
              /\ Barred(Aged(r), past)
         /\ \A r : Unseen(r, past) => Unseen(Aged(r), past)
<1>1. Unseen(Created, past) /\ Unseen(NoRecord, past)
  BY DEF Unseen, Created, Record, Statuses, Beats
<1>2. ASSUME NEW r \in Record
      PROVE  /\ r # NoRecord /\ Barred(MarkCancelled(r), past)
             /\ Aged(r) \in Record /\ Aged(r).status = r.status /\ Aged(r).cancel = r.cancel
             /\ r.cancel /\ "threw" \in past => Barred(MarkFailed(r), past)
  <2>1. r # NoRecord
    BY DEF Record, NoRecord, Statuses
  <2>2. Barred(MarkCancelled(r), past)
    BY PatchType DEF Barred, MarkCancelled, Record
  <2>3. Aged(r) \in Record /\ Aged(r).status = r.status /\ Aged(r).cancel = r.cancel
    BY <2>1 DEF Aged, Record, Beats
  <2>4. ASSUME r.cancel, "threw" \in past PROVE Barred(MarkFailed(r), past)
    BY <2>4, PatchType DEF Barred, MarkFailed, Record
  <2> QED BY <2>1, <2>2, <2>3, <2>4
<1>3. ASSUME NEW r \in Record, NEW s \in Statuses,
             s \in {"queued", "cancelled"} \/ (s = "failed" /\ "threw" \in past)
      PROVE  Barred(RequestCancellation(s, r), past)
  <2>1. RequestCancellation(s, r) \in Record
    BY PatchType
  <2>2. /\ RequestCancellation(s, r).status = IF s = "queued" THEN "cancelled" ELSE s
        /\ RequestCancellation(s, r).cancel
    BY DEF RequestCancellation, Record
  <2> QED BY <1>3, <2>1, <2>2 DEF Barred
<1>4. Aged(NoRecord) = NoRecord
  BY DEF Aged
<1>5. ASSUME NEW r, Barred(r, past)
      PROVE  /\ r # NoRecord /\ r \in Record /\ r.cancel /\ Unseen(r, past)
             /\ r.status \in {"cancelled", "failed"}
             /\ r.status = "failed" => "threw" \in past
             /\ Barred(Aged(r), past)
  BY <1>2, <1>5 DEF Barred, Unseen
<1>6. ASSUME NEW r, Unseen(r, past) PROVE Unseen(Aged(r), past)
  <2>1. CASE r = NoRecord BY <1>4, <2>1, <1>1
  <2>2. CASE Barred(r, past) BY <1>5, <2>2 DEF Unseen
  <2>3. CASE r \in Record /\ r.status = "queued" BY <1>2, <2>3 DEF Unseen
  <2> QED BY <1>6, <2>1, <2>2, <2>3 DEF Unseen
<1> QED BY <1>1, <1>2, <1>3, <1>5, <1>6

\* The history only grows, and what it bars stays barred.
LEMMA StillBarred ==
  ASSUME NEW past, NEW more, past \subseteq more
  PROVE  \A r : /\ Barred(r, past) => Barred(r, more)
                /\ Unseen(r, past) => Unseen(r, more)
BY DEF Barred, Unseen

LEMMA EarlyInit == Init => EarlyInv
BY BarredStays DEF Init, EarlyInv, Quiet, Unstarted, OnlyCancels

Promised == Quiet /\ (causes \cap {"started", "threw"} = {} \/ "early" \in causes)

\* What the API's get() answers while the promise stands.
LEMMA PromisedGet ==
  ASSUME TypeOK, EarlyInv, Promised
  PROVE  /\ OnlyCancels /\ Unseen(row, causes) /\ Unseen(ApiGet, causes)
         /\ ApiGet # NoRecord =>
              \/ ApiGet.status \in {"queued", "cancelled"}
              \/ ApiGet.status = "failed" /\ "threw" \in causes
         /\ \A w \in Workers : Unseen(WorkerGet(w), causes) \/ row # NoRecord
<1>1. CASE causes \cap {"started", "threw"} = {}
  <2>1. Unstarted
    BY <1>1 DEF EarlyInv, Promised
  <2>2. Unseen(ApiGet, causes) /\ \A w \in Workers : Unseen(WorkerGet(w), causes)
    BY <2>1 DEF Unstarted, ApiGet, WorkerGet, Get
  <2> QED BY <2>1, <2>2, BarredStays DEF Unstarted, Unseen
<1>2. CASE "early" \in causes
  <2>1. Early
    BY <1>2 DEF EarlyInv, Promised
  <2>2. ApiGet = row /\ row # NoRecord
    BY <2>1, BarredStays DEF Early, ApiGet, Get
  <2> QED BY <2>1, <2>2, BarredStays DEF Early, Unseen
<1> QED BY <1>1, <1>2 DEF Promised

\* A step of a client that writes no row and changes no history.
LEMMA EarlyUpdate ==
  ASSUME TypeOK, EarlyInv, NEW c \in Clients, NEW from, NEW next, NEW otherwise,
         ApiUpdate(c, from, next, otherwise),
         otherwise \in {"idle", "deleteGet"},
         ApiGet # NoRecord /\ Promised => Barred(next, causes)
  PROVE  EarlyInv'
<1> USE DEF rowVars, queueVars, workerVars, clientVars, boundVars, Goto, Reply,
        ApiRemembers, ApiCopy, Copied
<1>1. /\ causes' = causes /\ row' = row /\ UNCHANGED <<cache, workerVars>>
      /\ \A d \in Clients \ {c} : cpc'[d] = cpc[d] /\ req'[d] = req[d] /\ seen'[d] = seen[d]
      /\ seen'[c] = "queued"
  BY DEF ApiUpdate, TypeOK
<1>2. CASE Promised
  <2>1. OnlyCancels
    BY <1>2, PromisedGet
  <2>2. CASE ApiGet = NoRecord
    <3>1. /\ cpc'[c] \in {"idle", "deleteGet"} /\ req' = req /\ apiCache' = apiCache
      BY <2>2 DEF ApiUpdate, TypeOK
    <3>2. OnlyCancels'
      BY <1>1, <2>1, <3>1 DEF OnlyCancels
    <3> QED BY <1>1, <3>1, <3>2 DEF EarlyInv, Quiet, Unstarted, Early
  <2>3. CASE ApiGet # NoRecord
    <3>1. /\ cpc'[c] = "commit" /\ req'[c] = next /\ apiCache' \in {next, NoRecord}
      BY <2>3 DEF ApiUpdate, TypeOK
    <3>2. Barred(next, causes) /\ next # NoRecord /\ Unseen(next, causes)
      BY <1>2, <2>3, BarredStays
    <3>3. OnlyCancels'
      BY <1>1, <2>1, <3>1, <3>2 DEF OnlyCancels
    <3>4. Unseen(apiCache', causes')
      BY <1>1, <3>1, <3>2, BarredStays
    <3> QED BY <1>1, <3>1, <3>3, <3>4 DEF EarlyInv, Quiet, Unstarted, Early
  <2> QED BY <2>2, <2>3
<1>3. CASE ~Promised
  BY <1>1, <1>3 DEF EarlyInv, Promised, Quiet
<1> QED BY <1>2, <1>3

\* Once the promise does not stand nobody makes it any more.
LEMMA EarlyLost ==
  ASSUME ~Promised, causes \subseteq causes',
         \/ "early" \in causes' => "early" \in causes
         \/ causes \cap {"started", "threw"} = {}
  PROVE  EarlyInv'
BY DEF Promised, EarlyInv, Quiet

\* A step that leaves alone what the promise rests on.
LEMMA EarlyKept ==
  ASSUME TypeOK, EarlyInv, causes \subseteq causes',
         "early" \in causes' => "early" \in causes,
         row' = row, UNCHANGED <<cache, main, beat, event, pc>>,
         Promised => /\ Unseen(apiCache', causes') \/ apiCache' = apiCache
                     /\ \A c \in Clients :
                          /\ cpc'[c] = cpc[c] \/ cpc'[c] \notin {"expire", "commit"}
                          /\ cpc'[c] = cpc[c] \/ row = NoRecord
                               \/ cpc'[c] \notin {"create", "createCommit"}
                          /\ req'[c] = req[c]
                          /\ \/ seen'[c] \in {"queued", "cancelled"}
                             \/ seen'[c] = "failed" /\ "threw" \in causes
                             \/ seen'[c] = seen[c]
  PROVE  EarlyInv'
<1>1. CASE ~Promised
  BY <1>1, EarlyLost
<1>2. CASE Promised
  <2>1. OnlyCancels'
    BY <1>2, PromisedGet, StillBarred DEF OnlyCancels
  <2>2. ASSUME Unstarted PROVE Unstarted'
    BY <1>2, <2>1, <2>2, StillBarred DEF Unstarted
  <2>3. ASSUME Early PROVE Early'
    <3>1. row # NoRecord /\ Barred(row', causes')
      BY <2>3, StillBarred, BarredStays DEF Early
    <3> QED BY <1>2, <2>1, <2>3, <3>1, StillBarred DEF Early
  <2> QED BY <2>2, <2>3 DEF EarlyInv, Quiet
<1> QED BY <1>1, <1>2

LEMMA EarlyClient ==
  ASSUME TypeOK, CauseInv, EarlyInv,
         NEW c \in Clients, ClientRequest(c) \/ ClientStep(c)
  PROVE  EarlyInv'
<1>g. /\ Promised => /\ OnlyCancels /\ Unseen(ApiGet, causes)
                     /\ ApiGet # NoRecord =>
                          \/ ApiGet.status \in {"queued", "cancelled"}
                          \/ ApiGet.status = "failed" /\ "threw" \in causes
      /\ ApiGet # NoRecord => ApiGet \in Record /\ ApiGet.status \in Statuses
  BY PromisedGet, GetType DEF Record
<1>n. /\ Unseen(NoRecord, causes) /\ Unseen(Created, causes)
      /\ ApiGet = NoRecord => row = NoRecord
  BY BarredStays DEF ApiGet, Get
<1> USE <1>g, <1>n, EarlyKept DEF TypeOK, ApiRemembers, ApiCopy, Copied, rowVars,
        workerVars, clientVars, boundVars, Goto, Reply, Begin
<1>1. CASE CreateFind(c)
  <2>1. Unseen(ApiGet, causes) => Unseen(apiCache', causes')
    BY <1>1 DEF CreateFind
  <2> QED BY <1>1, <2>1 DEF CreateFind
<1>2. CASE CancelRead(c)
  <2>1. causes \subseteq causes' /\ apiCache' \in {ApiGet, NoRecord}
    BY <1>2 DEF CancelRead
  <2> QED BY <1>2, <2>1, StillBarred DEF CancelRead
<1>3. CASE RemoveRead(c)
  <2>1. causes \subseteq causes' /\ apiCache' \in {ApiGet, NoRecord}
    BY <1>3 DEF RemoveRead
  <2> QED BY <1>3, <2>1, StillBarred DEF RemoveRead
<1>4. CASE Poll(c)
  <2>1. ~Promised
    BY <1>4 DEF Poll
  <2> QED BY <1>4, <2>1, EarlyLost DEF Poll
<1>5. CASE CreateRow(c)
  <2>1. Promised => row = NoRecord \/ Unstarted
    BY <1>5 DEF CreateRow, Promised, EarlyInv, Early
  <2>2. causes' = causes /\ row' = row /\ Unseen(apiCache', causes')
    BY <1>5 DEF CreateRow
  <2>3. CASE ~Promised
    BY <2>2, <2>3, EarlyLost
  <2>4. CASE Promised
    <3>1. "early" \notin causes
      BY <1>5, <2>4 DEF CreateRow, Promised, EarlyInv, Early
    <3>2. OnlyCancels'
      BY <1>5, <2>2, <2>4 DEF CreateRow, OnlyCancels
    <3>3. Unstarted'
      BY <1>5, <2>2, <2>4, <3>1, <3>2 DEF CreateRow, Promised, EarlyInv, Unstarted
    <3> QED BY <2>2, <3>1, <3>3 DEF EarlyInv
  <2> QED BY <2>3, <2>4
<1>6. CASE AddJob(c) BY <1>6 DEF AddJob
<1>7. CASE AddThrows(c) BY <1>7 DEF AddThrows, EarlyInv, Quiet
<1>8. CASE AddFailed(c)
  <2>1. ~Promised
    BY <1>8 DEF AddFailed, ApiUpdate, CauseInv, ClientExplained, Promised, Quiet
  <2>2. causes' = causes
    BY <1>8 DEF AddFailed, ApiUpdate
  <2> QED BY <2>1, <2>2, EarlyLost
<1>9. CASE Dequeue(c) BY <1>9 DEF Dequeue
<1>10. CASE CancelQueued(c)
  BY <1>10, BarredStays, EarlyUpdate DEF CancelQueued
<1>11. CASE AskRead(c)
  <2>1. causes' = causes /\ apiCache' \in {ApiGet, NoRecord, apiCache}
    BY <1>11 DEF AskRead
  <2> QED BY <1>11, <2>1 DEF AskRead
<1>12. CASE AskUpdate(c)
  <2>1. Promised => \/ seen[c] \in {"queued", "cancelled"}
                    \/ seen[c] = "failed" /\ "threw" \in causes
    BY DEF OnlyCancels
  <2>2. ApiGet # NoRecord /\ Promised => Barred(RequestCancellation(seen[c], ApiGet), causes)
    BY <2>1, BarredStays
  <2> QED BY <1>12, <2>2, EarlyUpdate DEF AskUpdate
<1>13. CASE Expire(c)
  <2>1. ~Promised
    BY <1>13 DEF Expire, ApiUpdate, OnlyCancels
  <2>2. causes' = causes
    BY <1>13 DEF Expire, ApiUpdate
  <2> QED BY <2>1, <2>2, EarlyLost
<1>14. CASE ClientCommit(c)
  <2>1. /\ cpc[c] = "commit" /\ row' = req[c] /\ apiCache' \in {req[c], NoRecord}
        /\ req' = [req EXCEPT ![c] = NoRecord] /\ causes' = causes \cup Answered(c)
        /\ cpc'[c] \in {"idle", "deleteGet"} /\ \A d \in Clients \ {c} : cpc'[d] = cpc[d]
        /\ UNCHANGED <<cache, workerVars, seen>>
    BY <1>14 DEF ClientCommit, ApiStores
  <2>2. CASE ~Promised
    BY <2>1, <2>2, EarlyLost DEF Answered
  <2>3. CASE Promised
    <3>1. causes \subseteq causes' /\ (Quiet' => Quiet)
          /\ causes' \cap {"started", "threw"} = causes \cap {"started", "threw"}
      BY <2>1 DEF Answered, Quiet
    <3>2. Barred(req[c], causes) /\ Barred(req[c], causes') /\ Unseen(req[c], causes')
      BY <2>1, <2>3, <3>1, StillBarred, BarredStays DEF OnlyCancels
    <3>3. OnlyCancels'
      BY <2>1, <2>3, <3>1, StillBarred DEF OnlyCancels
    <3>4. Unseen(apiCache', causes')
      BY <2>1, <3>2, BarredStays
    <3>5. ASSUME Unstarted PROVE Unstarted'
      BY <2>1, <3>1, <3>2, <3>3, <3>4, <3>5, StillBarred DEF Unstarted
    <3>6. ASSUME Early PROVE Early'
      BY <2>1, <3>1, <3>2, <3>3, <3>6, StillBarred DEF Early
    <3>7. ASSUME "early" \in causes', "early" \notin causes PROVE Early'
      <4>1. Unstarted /\ \A d \in Clients : cpc[d] \notin {"create", "createCommit"}
        BY <2>1, <2>3, <3>7 DEF Answered, Promised, EarlyInv
      <4> QED BY <2>1, <3>2, <3>3, <4>1 DEF Unstarted, Early
    <3> QED BY <2>3, <3>1, <3>5, <3>6, <3>7 DEF EarlyInv, Promised
  <2> QED BY <2>2, <2>3
<1>15. CASE DeleteGet(c)
  <2>1. Unseen(apiCache', causes')
    BY <1>15 DEF DeleteGet
  <2> QED BY <1>15, <2>1 DEF DeleteGet
<1>16. CASE Delete(c) BY <1>16 DEF Delete, EarlyInv, Quiet
<1>17. CASE CreateCommit(c)
  <2>1. causes \subseteq causes' /\ ("early" \in causes' => "early" \in causes)
        /\ causes' \cap {"started", "threw"} = causes \cap {"started", "threw"}
        /\ row' = Created /\ apiCache' \in {Created, NoRecord}
        /\ UNCHANGED <<cache, workerVars, seen, req>>
        /\ cpc[c] = "createCommit" /\ cpc' = [cpc EXCEPT ![c] = "add"]
    BY <1>17 DEF CreateCommit, ApiStores
  <2>2. CASE ~Promised
    BY <2>1, <2>2, EarlyLost
  <2>3. CASE Promised
    <3>1. "early" \notin causes' /\ Unstarted
      BY <2>1, <2>3 DEF EarlyInv, Early, Promised
    <3>2. OnlyCancels'
      BY <2>1, <2>3, StillBarred DEF OnlyCancels
    <3>3. Unseen(row', causes') /\ Unseen(apiCache', causes')
      BY <2>1, BarredStays
    <3>4. Unstarted'
      BY <2>1, <3>1, <3>2, <3>3, StillBarred DEF Unstarted
    <3> QED BY <3>1, <3>4 DEF EarlyInv
  <2> QED BY <2>2, <2>3
<1> HIDE DEF EarlyInv
<1> QED BY <1>17, <1>1, <1>2, <1>3, <1>4, <1>5, <1>6, <1>7, <1>8, <1>9,
   <1>10, <1>11, <1>12, <1>13, <1>14, <1>15, <1>16 DEF ClientRequest, ClientStep

\* A step of a worker that changes no record and adds nothing that is early.
LEMMA EarlyMoves ==
  ASSUME TypeOK, EarlyInv, NEW w \in Workers, causes \subseteq causes',
         "early" \in causes' => "early" \in causes,
         UNCHANGED <<row, apiCache, main, beat, event, clientVars>>,
         \A u \in Workers : cache'[u] = cache[u] \/ cache'[u] = NoRecord
                              \/ cache'[u] = WorkerGet(u),
         \A u \in Workers \ {w} : pc'[u] = pc[u],
         causes' \cap {"started", "threw"} = {} => pc'[w] \in {"idle", "get"},
         "early" \in causes /\ Promised =>
            pc'[w] \in {"idle", "get", "preCancel", "complete", "fail"} \/ pc' = pc
  PROVE  EarlyInv'
<1> USE DEF clientVars
<1>1. CASE ~Promised
  BY <1>1, EarlyLost
<1>2. CASE Promised
  <2>1. OnlyCancels'
    BY <1>2, PromisedGet, StillBarred DEF OnlyCancels
  <2>2. ASSUME Unstarted, causes' \cap {"started", "threw"} = {} PROVE Unstarted'
    <3>1. \A u \in Workers : Unseen(cache'[u], causes)
      BY <2>2, BarredStays DEF Unstarted, WorkerGet, Get
    <3> QED BY <2>1, <2>2, <3>1, StillBarred DEF Unstarted
  <2>3. ASSUME Early, "early" \in causes PROVE Early'
    <3>1. ASSUME NEW u \in Workers
          PROVE  /\ pc'[u] \in {"idle", "get", "preCancel", "preCommit", "complete", "fail"}
                 /\ pc'[u] = "preCommit" => pc[u] = "preCommit"
      BY <1>2, <2>3 DEF Early
    <3> QED BY <2>1, <2>3, <3>1, StillBarred DEF Early
  <2> QED BY <1>2, <2>2, <2>3 DEF EarlyInv, Quiet
<1> QED BY <1>1, <1>2

LEMMA EarlyWorker ==
  ASSUME TypeOK, CauseInv, EarlyInv, NEW w \in Workers,
         \/ Take(w) \/ Attempt(w) \/ Timers(w) \/ Listener(w)
         \/ Engine(w) \/ Crash(w) \/ Stall(w)
  PROVE  EarlyInv'
<1>e. \/ ~Promised
      \/ causes \cap {"started", "threw"} = {} /\ Unstarted
      \/ "early" \in causes /\ Early
  BY DEF Promised, EarlyInv
<1>g. ASSUME Early
      PROVE  /\ WorkerGet(w) = row /\ Barred(row, causes)
             /\ row # NoRecord /\ row \in Record /\ row.cancel
  BY <1>g, BarredStays DEF Early, WorkerGet, Get
<1>l. /\ pc[w] = "fail" \/ w \in emitted => "threw" \in causes
  BY DEF CauseInv, WorkerExplained
<1>s. ~Promised /\ causes' = causes => EarlyInv'
  BY EarlyLost
\* A step within the engine's part of an attempt: the promise does not stand.
<1>k. ASSUME pc[w] \notin {"idle", "get", "preCancel", "preCommit", "complete", "fail"}
      PROVE  ~Promised
  BY <1>e, <1>k DEF Unstarted, Early
<1> USE DEF TypeOK, Step, WorkerRemembers, WorkerStores, WorkerCopy, Copied, rowVars,
        queueVars, workerVars, clientVars, boundVars
<1>1. CASE Fetch(w)
  <2>1. "early" \in causes /\ Promised => WorkerGet(w) # NoRecord /\ WorkerGet(w).cancel
    BY <1>g DEF Promised, EarlyInv
  <2>2. \A u \in Workers : cache'[u] = cache[u] \/ cache'[u] = NoRecord
                             \/ cache'[u] = WorkerGet(u)
    BY <1>1 DEF Fetch
  <2> QED BY <1>1, <2>1, <2>2, EarlyMoves DEF Fetch
<1>2. CASE FetchCreates(w) BY <1>2, <1>k, <1>s DEF FetchCreates
<1>3. CASE PreCancel(w)
  <2>1. CASE ~Promised
    BY <1>3, <1>s, <2>1 DEF PreCancel, Update
  <2>2. CASE Promised
    <3>1. Early /\ "early" \in causes
      BY <1>3, <1>e, <2>2 DEF PreCancel, Update, Unstarted
    <3>2. /\ Barred(MarkCancelled(row), causes) /\ WorkerGet(w) = row /\ row # NoRecord
      BY <3>1, <1>g, BarredStays
    <3>3. /\ pc' = [pc EXCEPT ![w] = "preCommit"]
          /\ main' = [main EXCEPT ![w] = MarkCancelled(row)] /\ row' = row
          /\ UNCHANGED <<beat, event, clientVars, causes>>
      BY <1>3, <3>2 DEF PreCancel, Update
    <3>4. Early'
      BY <3>1, <3>2, <3>3 DEF Early, OnlyCancels
    <3>5. ~Unstarted
      BY <1>3 DEF PreCancel, Update, Unstarted
    <3> QED BY <2>2, <3>3, <3>4, <3>5 DEF EarlyInv, Promised
  <2> QED BY <2>1, <2>2
<1>4. CASE PreCancelCommit(w)
  <2>1. CASE ~Promised
    BY <1>4, <1>s, <2>1 DEF PreCancelCommit, Commit
  <2>2. CASE Promised
    <3>1. Early /\ "early" \in causes
      BY <1>4, <1>e, <2>2 DEF PreCancelCommit, Commit, Unstarted
    <3>2. /\ pc[w] = "preCommit" /\ pc' = [pc EXCEPT ![w] = "complete"]
          /\ row' = main[w] /\ main' = [main EXCEPT ![w] = NoRecord]
          /\ UNCHANGED <<beat, event, clientVars, causes>>
      BY <1>4 DEF PreCancelCommit, Commit
    <3>3. Early'
      BY <3>1, <3>2 DEF Early, OnlyCancels
    <3>4. ~(causes \cap {"started", "threw"} = {})
      BY <3>1, <3>2, <1>e, <2>2 DEF Promised, EarlyInv, Unstarted
    <3> QED BY <3>2, <3>3, <3>4 DEF EarlyInv
  <2> QED BY <2>1, <2>2
<1>5. CASE Start(w) BY <1>5, <1>k, <1>s DEF Start, Update
<1>6. CASE StartCommit(w) BY <1>6, <1>k, <1>s DEF StartCommit, Commit
<1>7. CASE SyncBeat(w) BY <1>7, <1>k, <1>s DEF SyncBeat, Update
<1>8. CASE SyncCommit(w) BY <1>8, <1>k, <1>s DEF SyncCommit, Commit
<1>9. CASE Final(w) BY <1>9, <1>k, <1>s DEF Final, Update
<1>10. CASE FinalCommit(w) BY <1>10, <1>k, <1>s DEF FinalCommit, Commit
<1>11. CASE Completes(w) BY <1>11, EarlyMoves DEF Completes
<1>12. CASE Fails(w) BY <1>12, EarlyMoves DEF Fails
<1>13. CASE TimeoutFires(w)
  <2>1. ~Promised BY <1>13, <1>k DEF TimeoutFires
  <2> QED BY <1>13, <2>1, EarlyLost DEF TimeoutFires
<1>14. CASE WatchAborts(w) BY <1>14, <1>k, <1>s DEF WatchAborts
<1>15. CASE BeatRead(w) BY <1>15, <1>k, <1>s DEF BeatRead, TimersOn
<1>16. CASE BeatCommit(w)
  <2>1. ~Promised BY <1>16, <1>e DEF BeatCommit, Unstarted, Early, OnlyCancels
  <2> QED BY <1>16, <1>s, <2>1 DEF BeatCommit
<1>17. CASE EventRead(w)
  <2>1. CASE ~Promised
    BY <1>17, <1>s, <2>1 DEF EventRead
  <2>2. CASE Promised
    <3>1. Early /\ "early" \in causes /\ "threw" \in causes
      BY <1>17, <1>e, <1>l, <2>2 DEF EventRead
    <3>2. /\ Barred(MarkFailed(row), causes) /\ WorkerGet(w) = row /\ row # NoRecord
      BY <3>1, <1>g, BarredStays
    <3>3. /\ event' = [event EXCEPT ![w] = MarkFailed(row)] /\ row' = row
          /\ UNCHANGED <<beat, main, pc, clientVars, causes>>
      BY <1>17, <3>2 DEF EventRead
    <3>4. Early'
      BY <3>1, <3>2, <3>3 DEF Early, OnlyCancels
    <3> QED BY <3>1, <3>3, <3>4 DEF EarlyInv
  <2> QED BY <2>1, <2>2
<1>18. CASE EventCommit(w)
  <2>1. /\ row' = event[w] /\ event[w] # NoRecord /\ event' = [event EXCEPT ![w] = NoRecord]
        /\ UNCHANGED <<apiCache, beat, main, pc, clientVars, causes>>
        /\ cache' = [cache EXCEPT ![w] = Copied(event[w])]
    BY <1>18 DEF EventCommit
  <2>2. Promised => Barred(event[w], causes)
    BY <2>1, PromisedGet DEF OnlyCancels
  <2>3. ASSUME Unstarted, Promised PROVE Unstarted'
    <3>1. Unseen(row', causes') /\ \A u \in Workers : Unseen(cache'[u], causes')
      BY <2>1, <2>2, <2>3, BarredStays DEF Unstarted
    <3> QED BY <2>1, <2>3, <3>1 DEF Unstarted, OnlyCancels
  <2>4. ASSUME Early, Promised PROVE Early'
    BY <2>1, <2>2, <2>4 DEF Early, OnlyCancels
  <2> QED BY <1>s, <2>1, <2>3, <2>4 DEF EarlyInv, Promised, Quiet
<1>19. CASE EngineReturns(w)
  <2>1. ~Promised BY <1>19, <1>k DEF EngineReturns
  <2> QED BY <1>19, <2>1, EarlyLost DEF EngineReturns
<1>20. CASE EngineThrows(w)
  <2>1. ~Promised BY <1>20, <1>k DEF EngineThrows
  <2> QED BY <1>20, <2>1, EarlyLost DEF EngineThrows
<1>21. CASE Crash(w)
  <2>1. /\ causes \subseteq causes' /\ ("early" \in causes' => "early" \in causes)
        /\ causes' \cap {"started", "threw", "unqueued", "removed"}
             = causes \cap {"started", "threw", "unqueued", "removed"}
        /\ pc' = [pc EXCEPT ![w] = "idle"] /\ cache' = [cache EXCEPT ![w] = NoRecord]
        /\ main' = [main EXCEPT ![w] = NoRecord] /\ beat' = [beat EXCEPT ![w] = NoRecord]
        /\ event' = [event EXCEPT ![w] = NoRecord]
        /\ UNCHANGED <<row, apiCache, clientVars>>
    BY <1>21 DEF Crash
  <2>2. OnlyCancels => OnlyCancels'
    BY <2>1, StillBarred DEF OnlyCancels
  <2>3. ASSUME Unstarted PROVE Unstarted'
    BY <2>1, <2>2, <2>3, StillBarred, BarredStays DEF Unstarted
  <2>4. ASSUME Early PROVE Early'
    BY <2>1, <2>2, <2>4, StillBarred, BarredStays DEF Early
  <2> QED BY <2>1, <2>3, <2>4 DEF EarlyInv, Quiet
<1>22. CASE Stall(w)
  <2>1. /\ causes \subseteq causes' /\ ("early" \in causes' => "early" \in causes)
        /\ UNCHANGED <<rowVars, pc, main, beat, event, clientVars>>
    BY <1>22 DEF Stall
  <2>2. causes' \cap {"started", "threw"} = {} /\ Promised => pc'[w] \in {"idle", "get"}
    BY <1>e, <2>1 DEF EarlyInv, Promised, Unstarted
  <2>3. CASE ~Promised BY <2>1, <2>3, EarlyLost
  <2>4. CASE Promised BY <2>1, <2>2, <2>4, EarlyMoves
  <2> QED BY <2>3, <2>4
<1>23. CASE Take(w) BY <1>23, EarlyMoves DEF Take
<1>24. CASE FetchCreatesCommit(w) BY <1>24, <1>k, <1>s DEF FetchCreatesCommit, Commit
<1>25. CASE ProgressFails(w) BY <1>25, EarlyMoves DEF ProgressFails
<1> HIDE DEF EarlyInv
<1> QED BY <1>25, <1>24, <1>1, <1>2, <1>3, <1>4, <1>5, <1>6, <1>7, <1>8, <1>9,
   <1>10, <1>11, <1>12, <1>13, <1>14, <1>15, <1>16, <1>17, <1>18, <1>19, <1>20,
   <1>21, <1>22, <1>23 DEF Attempt, Timers, Listener, Engine

\* EarlyCancelStays: whatever other clients post, cancel or delete, whatever
\* attempts fail, crash or lose their lock: a cancellation answered before any
\* worker looked at the record keeps every engine from running, and no write
\* that was in flight undoes it, until enqueueing fails or the row is deleted.
THEOREM EarlyCancelStays == Spec => []EarlyCancelHolds
<1>1. ASSUME TypeOK, CauseInv, EarlyInv, [Next]_vars PROVE EarlyInv'
  <2>1. CASE BeatExpires
    <3>1. /\ row' = Aged(row) /\ apiCache' = Aged(apiCache)
          /\ cache' = [w \in Workers |-> Aged(cache[w])]
          /\ causes' = causes \cup {"expired"}
          /\ UNCHANGED <<pc, main, beat, event, cpc, req, seen>>
      BY <2>1 DEF BeatExpires, workerVars, clientVars
    <3>2. OnlyCancels => OnlyCancels'
      BY <3>1, StillBarred DEF OnlyCancels
    <3>3. ASSUME Unstarted PROVE Unstarted'
      <4>1. Unseen(row', causes') /\ Unseen(apiCache', causes')
        BY <3>1, <3>3, BarredStays, StillBarred DEF Unstarted
      <4>2. ASSUME NEW w \in Workers PROVE Unseen(cache'[w], causes')
        BY <3>1, <3>3, BarredStays, StillBarred DEF Unstarted
      <4> QED BY <3>1, <3>2, <3>3, <4>1, <4>2 DEF Unstarted
    <3>4. ASSUME Early PROVE Early'
      <4>1. Barred(row', causes')
        BY <3>1, <3>4, BarredStays, StillBarred DEF Early
      <4> QED BY <3>1, <3>2, <3>4, <4>1, StillBarred DEF Early
    <3> QED BY <1>1, <3>1, <3>3, <3>4 DEF EarlyInv, Quiet
  <2>2. CASE UNCHANGED vars
    BY <1>1, <2>2 DEF EarlyInv, Quiet, OnlyCancels, Unstarted, Early, vars, rowVars,
       queueVars, workerVars, clientVars, boundVars
  <2> QED BY <1>1, <2>1, <2>2, EarlyClient, EarlyWorker DEF Next
<1>2. EarlyInv => EarlyCancelHolds
  BY DEF EarlyInv, Quiet, Early, EarlyCancelHolds, Executing, Barred
<1> QED BY <1>1, <1>2, EarlyInit, CauseHolds, TypeCorrect, PTL DEF Spec
=============================================================================
