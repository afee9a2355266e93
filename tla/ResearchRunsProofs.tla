-------------------------- MODULE ResearchRunsProofs --------------------------
(***************************************************************************)
(* Theorems about ResearchRuns, for any runs, workers, requests, attempts  *)
(* and faults: its four safety properties.  Each has an invariant of its   *)
(* own; all rest on Known, what the steps of a worker and of a request say *)
(* about its other variables.                                              *)
(***************************************************************************)
EXTENDS ResearchRuns, TLAPS

LEMMA Distinct == None \notin Runs /\ None \notin Workers /\ MaxAttempts \in Nat
BY RunsAssumption

-----------------------------------------------------------------------------
(* The invariants *)

\* A worker that is not idle has a run; it knows a result once the engine has
\* returned, and a row once the journal was exported.
WorkersKnow ==
  \A w \in Workers :
    /\ wpc[w] # "idle" => wrun[w] \in Runs
    /\ wpc[w] \in {"export", "commit", "finish"} => result[w] # None
    /\ wpc[w] = "commit" => export[w].row # None

\* What a request is, and has still to do, at each of its steps.
ClientsKnow ==
  \A c \in Clients :
    /\ kind[c] = "rest" => cpc[c] \in {"rest", "jobs", "drop", "sqlite"}
    /\ kind[c] = "reset" => cpc[c] \in {"list", "cascade", "jobs", "drop", "signals"}
    /\ cpc[c] \in {"rest", "sqlite"} => kind[c] = "rest"
    /\ cpc[c] \in {"list", "signals"} => kind[c] = "reset"
    /\ cpc[c] \in {"cascade", "jobs", "drop"} => kind[c] \in {"remove", "reset", "rest"}
    /\ cpc[c] \notin {"jobs", "drop"} => todo[c] = {}
    /\ cpc[c] \in {"status", "expire", "write", "mark", "drop"} => target[c] \in Runs
    /\ cpc[c] \in {"expire", "write", "drop"} => target[c] \in posted

\* A run that was not posted is nowhere, and a lock is that of an active job.
JobsKnow ==
  /\ gone \subseteq posted
  /\ \A r \in Runs :
       /\ r \notin posted => job[r] = None /\ queue[r] = None /\ pg[r] = None /\ ~Busy(r)
       /\ owner[r] # None => queue[r] = "active"

Known == TypeOK /\ WorkersKnow /\ ClientsKnow /\ JobsKnow

LEMMA NoExportType ==
  NoExport \in [row : {None, "running", "completed", "failed"}, sigs : SUBSET Runs]
BY DEF NoExport

LEMMA TypeInit == Init => TypeOK
<1> SUFFICES ASSUME Init PROVE TypeOK
  OBVIOUS
<1>1. export \in [Workers -> [row : {None, "running", "completed", "failed"},
                             sigs : SUBSET Runs]]
  BY NoExportType DEF Init
<1> QED BY <1>1, Distinct DEF Init, TypeOK

\* A worker that is done keeps nothing.
LEMMA FreesType ==
  ASSUME TypeOK, NEW w \in Workers, Frees(w)
  PROVE  /\ wpc' \in [Workers -> {"idle", "engine", "saved", "export", "commit",
                                  "finish"}]
         /\ wrun' \in [Workers -> Runs \cup {None}]
         /\ result' \in [Workers -> {None, "completed", "failed"}]
         /\ export' \in [Workers -> [row : {None, "running", "completed", "failed"},
                                     sigs : SUBSET Runs]]
BY NoExportType DEF TypeOK, Frees

\* After one job: the next, or the step that follows the loop.
LEMMA OnwardCases ==
  ASSUME NEW c, NEW left, Onward(c, left)
  PROVE  /\ todo' = [todo EXCEPT ![c] = left] /\ target' = [target EXCEPT ![c] = None]
         /\ \/ /\ left = {} /\ kind[c] = "remove"
               /\ cpc' = [cpc EXCEPT ![c] = "idle"] /\ kind' = [kind EXCEPT ![c] = None]
            \/ left # {} /\ cpc' = [cpc EXCEPT ![c] = "jobs"] /\ kind' = kind
            \/ /\ left = {} /\ kind[c] = "reset"
               /\ cpc' = [cpc EXCEPT ![c] = "list"] /\ kind' = kind
            \/ /\ left = {} /\ kind[c] \notin {"remove", "reset"}
               /\ cpc' = [cpc EXCEPT ![c] = "rest"] /\ kind' = kind
BY DEF Onward

LEMMA OnwardType ==
  ASSUME TypeOK, NEW c \in Clients, NEW left \in SUBSET Runs, Onward(c, left)
  PROVE  /\ cpc' \in [Clients -> {"idle", "status", "expire", "write", "mark", "cascade",
                                  "jobs", "drop", "list", "signals", "rest", "sqlite"}]
         /\ kind' \in [Clients -> {None, "get", "look", "remove", "reset", "rest"}]
         /\ target' \in [Clients -> Runs \cup {None}]
         /\ todo' \in [Clients -> SUBSET Runs]
<1>1. target' \in [Clients -> Runs \cup {None}] /\ todo' \in [Clients -> SUBSET Runs]
  <2>1. todo' = [todo EXCEPT ![c] = left] /\ target' = [target EXCEPT ![c] = None]
    BY OnwardCases
  <2> QED BY <2>1 DEF TypeOK
<1>2. \E s \in {"idle", "jobs", "list", "rest"} : cpc' = [cpc EXCEPT ![c] = s]
  BY OnwardCases
<1>3. kind' = kind \/ kind' = [kind EXCEPT ![c] = None]
  BY OnwardCases
<1>4. /\ cpc' \in [Clients -> {"idle", "status", "expire", "write", "mark", "cascade",
                                 "jobs", "drop", "list", "signals", "rest", "sqlite"}]
      /\ kind' \in [Clients -> {None, "get", "look", "remove", "reset", "rest"}]
  <2>1. PICK s \in {"idle", "jobs", "list", "rest"} : cpc' = [cpc EXCEPT ![c] = s]
    BY <1>2
  <2>2. \E k \in {None, kind[c]} : kind' = [kind EXCEPT ![c] = k]
    BY <1>3 DEF TypeOK
  <2> QED BY <2>1, <2>2 DEF TypeOK
<1> QED BY <1>1, <1>4

LEMMA TypeNext == TypeOK /\ WorkersKnow /\ ClientsKnow /\ [Next]_vars => TypeOK'
<1> SUFFICES ASSUME TypeOK, WorkersKnow, ClientsKnow, [Next]_vars PROVE TypeOK'
  OBVIOUS
<1> USE Distinct DEF TypeOK, stores, jobVars, workerVars, clientVars, boundVars, histVars
<1>1. ASSUME NEW r \in Runs, Post(r) PROVE TypeOK'
  BY <1>1 DEF Post, Resetting
<1>2. ASSUME NEW r \in Runs, Stall(r) PROVE TypeOK'
  <2>1. LosesLock(r) /\ faults' \in Nat /\ requests' \in Nat
    BY <1>2 DEF Stall, LosesLock, Fault
  <2> QED BY <1>2, <2>1 DEF Stall, LosesLock
<1>3. ASSUME NEW w \in Workers, NEW r \in Runs, Take(w, r) PROVE TypeOK'
  BY <1>3 DEF Take, LiteSave, Resetting
<1>4. ASSUME NEW w \in Workers, EngineSavesSignals(w) PROVE TypeOK'
  BY <1>4 DEF WorkersKnow, EngineSavesSignals, Goto, LiteSave
<1>5. ASSUME NEW w \in Workers, NEW s \in {"completed", "failed"}, EngineReturns(w, s)
      PROVE TypeOK'
  BY <1>5 DEF EngineReturns, Goto, LiteSave
<1>6. ASSUME NEW w \in Workers, EngineDies(w) PROVE TypeOK'
  <2>1. wrun[w] \in Runs /\ Frees(w)
    BY <1>6 DEF WorkersKnow, EngineDies
  <2>2. job' \in [Runs -> {None, "queued", "running", "completed", "failed"}]
    BY <1>6, <2>1 DEF EngineDies
  <2>3. /\ made' \in [Runs -> Nat] /\ owner' \in [Runs -> Workers \cup {None}]
        /\ queue' \in [Runs -> {None, "waiting", "active", "completed", "failed"}]
    <3>1. CASE owner[wrun[w]] = w
      <4>1. /\ made' = [made EXCEPT ![wrun[w]] = made[wrun[w]] + 1]
            /\ owner' = [owner EXCEPT ![wrun[w]] = None]
            /\ \E q \in {"waiting", "failed"} : queue' = [queue EXCEPT ![wrun[w]] = q]
        BY <1>6, <3>1 DEF EngineDies
      <4> QED BY <2>1, <4>1
    <3>2. CASE owner[wrun[w]] # w
      BY <1>6, <2>1, <3>2 DEF EngineDies
    <3> QED BY <3>1, <3>2
  <2> QED BY <1>6, <2>1, <2>2, <2>3, FreesType DEF EngineDies, Fault
<1>7. ASSUME NEW w \in Workers, TimerBeats(w) PROVE TypeOK'
  BY <1>7 DEF TimerBeats, Revived
<1>8. ASSUME NEW w \in Workers, Export(w) PROVE TypeOK'
  BY <1>8 DEF WorkersKnow, Export, Goto, Revived
<1>9. ASSUME NEW w \in Workers, SyncCommits(w) PROVE TypeOK'
  BY <1>9 DEF WorkersKnow, SyncCommits, Goto
<1>10. ASSUME NEW w \in Workers, SyncFails(w) PROVE TypeOK'
  <2>1. wrun[w] \in Runs
    BY <1>10 DEF WorkersKnow, SyncFails, Goto
  <2>2. /\ job' \in [Runs -> {None, "queued", "running", "completed", "failed"}]
        /\ wpc' \in [Workers -> {"idle", "engine", "saved", "export", "commit",
                                 "finish"}]
    <3>1. job' \in {job, [job EXCEPT ![wrun[w]] = Revived(wrun[w])]}
      BY <1>10 DEF SyncFails
    <3>2. wpc' = [wpc EXCEPT ![w] = "finish"]
      BY <1>10 DEF SyncFails, Goto
    <3> QED BY <2>1, <3>1, <3>2 DEF Revived
  <2>3. faults' \in Nat /\ requests' \in Nat
    BY <1>10 DEF SyncFails, Fault
  <2> QED BY <1>10, <2>1, <2>2, <2>3 DEF SyncFails
<1>11. ASSUME NEW w \in Workers, Finishes(w) PROVE TypeOK'
  <2>1. wrun[w] \in Runs /\ result[w] # None /\ Frees(w)
    BY <1>11 DEF WorkersKnow, Finishes
  <2>2. job' \in [Runs -> {None, "queued", "running", "completed", "failed"}]
    BY <1>11, <2>1 DEF Finishes
  <2>3. /\ owner' \in [Runs -> Workers \cup {None}]
        /\ queue' \in [Runs -> {None, "waiting", "active", "completed", "failed"}]
    <3>1. CASE owner[wrun[w]] = w
      <4>1. /\ queue' = [queue EXCEPT ![wrun[w]] = "completed"]
            /\ owner' = [owner EXCEPT ![wrun[w]] = None]
        BY <1>11, <3>1 DEF Finishes
      <4> QED BY <2>1, <4>1
    <3>2. CASE owner[wrun[w]] # w
      BY <1>11, <3>2 DEF Finishes
    <3> QED BY <3>1, <3>2
  <2> QED BY <1>11, <2>1, <2>2, <2>3, FreesType DEF Finishes
<1>12. ASSUME NEW w \in Workers, Crash(w) PROVE TypeOK'
  BY <1>12, FreesType DEF Crash, Fault
<1>13. ASSUME NEW c \in Clients, NEW r \in Runs, Get(c, r) PROVE TypeOK'
  BY <1>13 DEF Get, Step
<1>14. ASSUME NEW c \in Clients, NEW r \in Runs, Remove(c, r) PROVE TypeOK'
  BY <1>14 DEF Remove, Step
<1>15. ASSUME NEW c \in Clients, Reset(c) PROVE TypeOK'
  BY <1>15 DEF Reset, Step
<1>16. ASSUME NEW c \in Clients, Status(c) PROVE TypeOK'
  <2>1. CASE Replies(c)
    BY <1>16, <2>1 DEF Status, Replies
  <2>2. CASE UNCHANGED <<kind, target, todo>> /\ \E s \in {"mark", "expire"} : Step(c, "status", s)
    BY <1>16, <2>2 DEF Status, Step
  <2> QED BY <1>16, <2>1, <2>2 DEF Status
<1>27. ASSUME NEW c \in Clients, NEW r \in Runs, Look(c, r) PROVE TypeOK'
  BY <1>27 DEF Look, Step
<1>28. ASSUME NEW c \in Clients, Expire(c) PROVE TypeOK'
  <2>1. CASE Replies(c)
    BY <1>28, <2>1 DEF Expire, Replies
  <2>2. CASE Step(c, "expire", "write") /\ UNCHANGED <<kind, target, todo>>
    BY <1>28, <2>2 DEF Expire, Step
  <2> QED BY <1>28, <2>1, <2>2 DEF Expire
<1>29. ASSUME NEW c \in Clients, Expires(c) PROVE TypeOK'
  <2>1. /\ job' \in [Runs -> {None, "queued", "running", "completed", "failed"}]
        /\ shaken' \subseteq Clients
    BY <1>29 DEF Expires, ClientsKnow, Resetting
  <2>2. CASE Replies(c)
    BY <1>29, <2>1, <2>2 DEF Expires, Replies
  <2>3. CASE Step(c, "write", "mark") /\ UNCHANGED <<kind, target, todo>>
    BY <1>29, <2>1, <2>3 DEF Expires, Step
  <2> QED BY <1>29, <2>2, <2>3 DEF Expires
<1>17. ASSUME NEW c \in Clients, Mark(c) PROVE TypeOK'
  BY <1>17 DEF ClientsKnow, Mark, Replies
<1>18. ASSUME NEW c \in Clients, List(c) PROVE TypeOK'
  <2>1. /\ \E s \in {"signals", "cascade"} : cpc' = [cpc EXCEPT ![c] = s]
        /\ target' = target \/ \E r \in Runs : target' = [target EXCEPT ![c] = r]
    BY <1>18 DEF List, Step, Shown, Oldest
  <2> QED BY <1>18, <2>1 DEF List
<1>19. ASSUME NEW c \in Clients, Cascade(c) PROVE TypeOK'
  <2>1. CASE pg[target[c]] = None
    <3>1. Replies(c) /\ UNCHANGED <<pg, snap, pgSig, gone, loose>>
      BY <1>19, <2>1 DEF Cascade
    <3> QED BY <1>19, <3>1 DEF Cascade, Replies
  <2>2. CASE pg[target[c]] # None
    <3>1. Doomed(target[c]) \subseteq Runs /\ Later(target[c]) \subseteq Runs
      BY DEF Doomed, Later, Shown
    <3>2. pg' \in [Runs -> {None, "running", "completed", "failed"}]
      BY <1>19, <2>2 DEF Cascade
    <3>3. /\ snap' \subseteq Runs /\ pgSig' \subseteq Runs /\ gone' \subseteq Runs
          /\ loose' \subseteq Runs
      BY <1>19, <2>2, <3>1 DEF Cascade
    <3>4. /\ cpc' \in [Clients -> {"idle", "status", "expire", "write", "mark", "cascade",
                                   "jobs", "drop", "list", "signals", "rest", "sqlite"}]
          /\ target' \in [Clients -> Runs \cup {None}]
          /\ todo' \in [Clients -> SUBSET Runs]
      <4>1. /\ cpc' = [cpc EXCEPT ![c] = "jobs"] /\ target' = [target EXCEPT ![c] = None]
            /\ todo' = [todo EXCEPT ![c] = Doomed(target[c])]
        BY <1>19, <2>2 DEF Cascade, Step
      <4> QED BY <3>1, <4>1
    <3> QED BY <1>19, <2>2, <3>2, <3>3, <3>4 DEF Cascade
  <2> QED BY <2>1, <2>2
<1>20. ASSUME NEW c \in Clients, NEW r \in Runs, Dequeue(c, r) PROVE TypeOK'
  <2>1. /\ faults' \in Nat /\ requests' \in Nat /\ unlocked' \in BOOLEAN
        /\ owner' \in [Runs -> Workers \cup {None}]
        /\ queue' \in [Runs -> {None, "waiting", "active", "completed", "failed"}]
    <3>1. CASE queue[r] = "active" /\ UNCHANGED <<queue, owner, boundVars, unlocked>>
      BY <3>1
    <3>2. CASE /\ queue[r] = "active" /\ LosesLock(r)
               /\ queue' = [queue EXCEPT ![r] = None]
      <4>1. faults' \in Nat /\ requests' \in Nat
        BY <3>2 DEF LosesLock, Fault
      <4> QED BY <3>2, <4>1 DEF LosesLock
    <3>3. CASE /\ UNCHANGED <<owner, boundVars, unlocked>>
               /\ queue' = [queue EXCEPT ![r] = None]
      BY <3>3
    <3> QED BY <1>20, <3>1, <3>2, <3>3 DEF Dequeue
  <2> QED BY <1>20, <2>1 DEF Dequeue
<1>21. ASSUME NEW c \in Clients, Drop(c) PROVE TypeOK'
  <2>1. /\ Onward(c, todo[c] \ {target[c]})
        /\ job' \in [Runs -> {None, "queued", "running", "completed", "failed"}]
        /\ todo[c] \ {target[c]} \in SUBSET Runs
    BY <1>21 DEF Drop, ClientsKnow
  <2> QED BY <1>21, <2>1, OnwardType DEF Drop
<1>22. ASSUME NEW c \in Clients, NEW r \in Runs, Skip(c, r) PROVE TypeOK'
  <2>1. Onward(c, todo[c] \ {r}) /\ todo[c] \ {r} \in SUBSET Runs
    BY <1>22 DEF Skip
  <2> QED BY <1>22, <2>1, OnwardType DEF Skip
<1>23. ASSUME NEW c \in Clients, Signals(c) PROVE TypeOK'
  BY <1>23 DEF Signals, Step
<1>24. ASSUME NEW c \in Clients, Rest(c) PROVE TypeOK'
  BY <1>24 DEF Rest, Step
<1>25. ASSUME NEW c \in Clients, Wipe(c) PROVE TypeOK'
  BY <1>25 DEF Wipe, Replies
<1>26. CASE UNCHANGED vars
  BY <1>26 DEF vars
<1> HIDE DEF TypeOK
<1> QED
  BY <1>1, <1>2, <1>3, <1>4, <1>5, <1>6, <1>7, <1>8, <1>9, <1>10, <1>11, <1>12, <1>13,
     <1>14, <1>15, <1>16, <1>17, <1>18, <1>19, <1>20, <1>21, <1>22, <1>23, <1>24, <1>25,
     <1>26, <1>27, <1>28, <1>29 DEF Next, Work, Serve

\* Whose step it is: a worker's, a request's, or that of neither.
LEMMA WorkerSteps ==
  ASSUME [Next]_vars
  PROVE  \/ \E w \in Workers :
              \/ \E r \in Runs : Take(w, r)
              \/ EngineSavesSignals(w)
              \/ \E s \in {"completed", "failed"} : EngineReturns(w, s)
              \/ EngineDies(w) \/ Export(w) \/ SyncCommits(w) \/ SyncFails(w)
              \/ Finishes(w) \/ Crash(w)
         \/ UNCHANGED workerVars
<1>1. ASSUME NEW r \in Runs, Post(r) \/ Stall(r) PROVE UNCHANGED workerVars
  BY <1>1 DEF Post, Stall
<1>2. ASSUME NEW w \in Workers, TimerBeats(w) PROVE UNCHANGED workerVars
  BY <1>2 DEF TimerBeats
<1>3. ASSUME NEW c \in Clients, NEW r \in Runs,
             Get(c, r) \/ Look(c, r) \/ Remove(c, r) \/ Dequeue(c, r) \/ Skip(c, r)
      PROVE UNCHANGED workerVars
  BY <1>3 DEF Get, Look, Remove, Dequeue, Skip
<1>4. ASSUME NEW c \in Clients,
             \/ Reset(c) \/ Status(c) \/ Expire(c) \/ Expires(c) \/ Mark(c) \/ List(c)
             \/ Cascade(c) \/ Drop(c) \/ Signals(c) \/ Rest(c) \/ Wipe(c)
      PROVE UNCHANGED workerVars
  BY <1>4 DEF Reset, Status, Expire, Expires, Mark, List, Cascade, Drop, Signals, Rest, Wipe
<1>5. ASSUME UNCHANGED vars PROVE UNCHANGED workerVars
  BY <1>5 DEF vars
<1> QED BY <1>1, <1>2, <1>3, <1>4, <1>5 DEF Next, Work, Serve

LEMMA ClientSteps ==
  ASSUME [Next]_vars
  PROVE  \/ \E c \in Clients :
              \/ \E r \in Runs : \/ Get(c, r) \/ Look(c, r) \/ Remove(c, r)
                                  \/ Dequeue(c, r) \/ Skip(c, r)
              \/ Reset(c) \/ Status(c) \/ Expire(c) \/ Expires(c) \/ Mark(c)
              \/ List(c) \/ Cascade(c) \/ Drop(c) \/ Signals(c) \/ Rest(c) \/ Wipe(c)
         \/ UNCHANGED clientVars /\ posted \subseteq posted'
<1>1. ASSUME NEW r \in Runs, Post(r) \/ Stall(r)
      PROVE UNCHANGED clientVars /\ posted \subseteq posted'
  BY <1>1 DEF Post, Stall
<1>2. ASSUME NEW w \in Workers,
             \/ EngineSavesSignals(w)
             \/ \E s \in {"completed", "failed"} : EngineReturns(w, s)
             \/ EngineDies(w) \/ Export(w) \/ SyncCommits(w) \/ SyncFails(w)
             \/ Finishes(w) \/ Crash(w) \/ TimerBeats(w)
             \/ \E r \in Runs : Take(w, r)
      PROVE UNCHANGED clientVars /\ posted \subseteq posted'
  BY <1>2 DEF EngineSavesSignals, EngineReturns, EngineDies, Export, SyncCommits,
              SyncFails, Finishes, Crash, TimerBeats, Take, histVars
<1>3. ASSUME UNCHANGED vars PROVE UNCHANGED clientVars /\ posted \subseteq posted'
  BY <1>3 DEF vars, histVars
<1> QED BY <1>1, <1>2, <1>3 DEF Next, Work, Serve

LEMMA WorkersKnowNext == TypeOK /\ WorkersKnow /\ [Next]_vars => WorkersKnow'
<1> SUFFICES ASSUME TypeOK, WorkersKnow, [Next]_vars PROVE WorkersKnow'
  OBVIOUS
<1> USE DEF WorkersKnow, Goto
<1>1. ASSUME NEW w \in Workers, NEW r \in Runs, Take(w, r) PROVE WorkersKnow'
  BY <1>1 DEF Take, TypeOK
<1>2. ASSUME NEW w \in Workers, EngineSavesSignals(w) PROVE WorkersKnow'
  BY <1>2 DEF EngineSavesSignals, TypeOK
<1>3. ASSUME NEW w \in Workers, NEW s \in {"completed", "failed"}, EngineReturns(w, s)
      PROVE WorkersKnow'
  BY <1>3 DEF EngineReturns, TypeOK, None
<1>4. ASSUME NEW w \in Workers, Frees(w) PROVE WorkersKnow'
  BY <1>4 DEF Frees, TypeOK
<1>5. ASSUME NEW w \in Workers, Export(w) PROVE WorkersKnow'
  BY <1>5 DEF Export, TypeOK
<1>6. ASSUME NEW w \in Workers, SyncCommits(w) PROVE WorkersKnow'
  BY <1>6 DEF SyncCommits, TypeOK
<1>7. ASSUME NEW w \in Workers, SyncFails(w) PROVE WorkersKnow'
  <2>1. /\ wpc[w] \in {"export", "commit"} /\ wpc' = [wpc EXCEPT ![w] = "finish"]
        /\ UNCHANGED <<wrun, result, export>>
    BY <1>7 DEF SyncFails
  <2> QED BY <2>1 DEF TypeOK
<1>8. ASSUME UNCHANGED workerVars PROVE WorkersKnow'
  BY <1>8 DEF workerVars
<1>9. ASSUME NEW w \in Workers, EngineDies(w) \/ Finishes(w) \/ Crash(w) PROVE Frees(w)
  BY <1>9 DEF EngineDies, Finishes, Crash
<1> HIDE DEF WorkersKnow
<1> QED BY <1>1, <1>2, <1>3, <1>4, <1>5, <1>6, <1>7, <1>8, <1>9, WorkerSteps

LEMMA ClientsKnowNext ==
  TypeOK /\ ClientsKnow /\ JobsKnow /\ [Next]_vars => ClientsKnow'
<1> SUFFICES ASSUME TypeOK, ClientsKnow, JobsKnow, [Next]_vars PROVE ClientsKnow'
  OBVIOUS
<1> USE DEF ClientsKnow, Step, Replies
<1>1. ASSUME NEW c \in Clients, NEW r \in Runs, Get(c, r) PROVE ClientsKnow'
  BY <1>1 DEF Get, TypeOK, histVars
<1>2. ASSUME NEW c \in Clients, NEW r \in Runs, Remove(c, r) PROVE ClientsKnow'
  BY <1>2 DEF Remove, TypeOK, histVars
<1>3. ASSUME NEW c \in Clients, Reset(c) PROVE ClientsKnow'
  <2>1. /\ cpc[c] = "idle" /\ cpc' = [cpc EXCEPT ![c] = "list"]
        /\ kind' = [kind EXCEPT ![c] = "reset"] /\ UNCHANGED <<target, todo, posted>>
    BY <1>3 DEF Reset
  <2> QED BY <2>1 DEF TypeOK
<1>4. ASSUME NEW c \in Clients, Replies(c), UNCHANGED posted PROVE ClientsKnow'
  BY <1>4 DEF TypeOK, None
<1>5. ASSUME NEW c \in Clients, Status(c) PROVE ClientsKnow'
  <2>1. CASE Step(c, "status", "mark") /\ UNCHANGED <<kind, target, todo>>
    BY <1>5, <2>1 DEF Status, TypeOK, histVars
  <2>2. CASE /\ Stale(target[c]) /\ Step(c, "status", "expire")
             /\ UNCHANGED <<kind, target, todo>>
    <3>1. target[c] \in posted
      BY <2>2 DEF Stale, JobsKnow, None
    <3> QED BY <1>5, <2>2, <3>1 DEF Status, TypeOK, histVars
  <2> QED BY <1>4, <1>5, <2>1, <2>2 DEF Status, histVars
<1>16. ASSUME NEW c \in Clients, NEW r \in Runs, Look(c, r) PROVE ClientsKnow'
  <2>1. r \in posted
    BY <1>16 DEF Look, Stale, JobsKnow, None
  <2> QED BY <1>16, <2>1 DEF Look, TypeOK, histVars
<1>17. ASSUME NEW c \in Clients, Expire(c) PROVE ClientsKnow'
  <2>1. CASE Step(c, "expire", "write") /\ UNCHANGED <<kind, target, todo>>
    BY <1>17, <2>1 DEF Expire, TypeOK, histVars
  <2> QED BY <1>4, <1>17, <2>1 DEF Expire, histVars
<1>18. ASSUME NEW c \in Clients, Expires(c) PROVE ClientsKnow'
  <2>1. CASE Step(c, "write", "mark") /\ UNCHANGED <<kind, target, todo>>
    BY <1>18, <2>1 DEF Expires, TypeOK
  <2> QED BY <1>4, <1>18, <2>1 DEF Expires
<1>6. ASSUME NEW c \in Clients, List(c) PROVE ClientsKnow'
  BY <1>6 DEF List, TypeOK, histVars
<1>7. ASSUME NEW c \in Clients, Cascade(c) PROVE ClientsKnow'
  <2>1. CASE pg[target[c]] = None
    BY <1>4, <1>7, <2>1 DEF Cascade
  <2>2. CASE pg[target[c]] # None
    <3>1. /\ Step(c, "cascade", "jobs") /\ target' = [target EXCEPT ![c] = None]
          /\ \E d : todo' = [todo EXCEPT ![c] = d]
          /\ UNCHANGED <<kind, posted>>
      BY <1>7, <2>2 DEF Cascade
    <3> QED BY <3>1 DEF TypeOK
  <2> QED BY <2>1, <2>2
<1>8. ASSUME NEW c \in Clients, NEW r \in Runs, Dequeue(c, r) PROVE ClientsKnow'
  BY <1>8 DEF Dequeue, JobsKnow, TypeOK
<1>9. ASSUME NEW c \in Clients, NEW left, cpc[c] \in {"jobs", "drop"}, Onward(c, left),
             UNCHANGED posted
      PROVE ClientsKnow'
  <2>1. /\ todo' = [todo EXCEPT ![c] = left] /\ target' = [target EXCEPT ![c] = None]
        /\ kind[c] \in {"remove", "reset", "rest"}
    BY <1>9, OnwardCases
  <2>2. CASE /\ left = {} /\ kind[c] = "remove"
             /\ cpc' = [cpc EXCEPT ![c] = "idle"] /\ kind' = [kind EXCEPT ![c] = None]
    BY <1>9, <2>1, <2>2 DEF TypeOK, None
  <2>3. CASE left # {} /\ cpc' = [cpc EXCEPT ![c] = "jobs"] /\ kind' = kind
    BY <1>9, <2>1, <2>3 DEF TypeOK
  <2>4. CASE /\ left = {} /\ kind[c] = "reset"
             /\ cpc' = [cpc EXCEPT ![c] = "list"] /\ kind' = kind
    BY <1>9, <2>1, <2>4 DEF TypeOK
  <2>5. CASE /\ left = {} /\ kind[c] \notin {"remove", "reset"}
             /\ cpc' = [cpc EXCEPT ![c] = "rest"] /\ kind' = kind
    BY <1>9, <2>1, <2>5 DEF TypeOK
  <2> QED BY <1>9, <2>2, <2>3, <2>4, <2>5, OnwardCases
<1>10. ASSUME NEW c \in Clients, NEW r \in Runs, Skip(c, r) PROVE ClientsKnow'
  BY <1>9, <1>10 DEF Skip, histVars
<1>11. ASSUME NEW c \in Clients, Signals(c) PROVE ClientsKnow'
  BY <1>11 DEF Signals, TypeOK, histVars
<1>12. ASSUME NEW c \in Clients, Rest(c) PROVE ClientsKnow'
  BY <1>12 DEF Rest, TypeOK, histVars
<1>13. ASSUME NEW c \in Clients, Mark(c) \/ Wipe(c) PROVE ClientsKnow'
  BY <1>4, <1>13 DEF Mark, Wipe, histVars
<1>14. ASSUME UNCHANGED clientVars, posted \subseteq posted' PROVE ClientsKnow'
  BY <1>14 DEF clientVars
<1> HIDE DEF ClientsKnow, Step, Replies
<1>15. ASSUME NEW c \in Clients, Drop(c) PROVE ClientsKnow'
  BY <1>9, <1>15 DEF Drop, histVars
<1> QED BY <1>1, <1>2, <1>3, <1>5, <1>6, <1>7, <1>8, <1>10, <1>11, <1>12, <1>13, <1>14,
           <1>15, <1>16, <1>17, <1>18, ClientSteps

LEMMA JobsKnowNext == Known /\ [Next]_vars => JobsKnow'
<1> SUFFICES ASSUME Known, [Next]_vars PROVE JobsKnow'
  OBVIOUS
<1> USE DEF JobsKnow, stores, workerVars, clientVars, jobVars, boundVars, histVars, Busy
<1>a. TypeOK /\ WorkersKnow /\ ClientsKnow /\ JobsKnow
  BY DEF Known
<1>1. ASSUME NEW r \in Runs, Post(r) PROVE JobsKnow'
  BY <1>a, <1>1, Distinct DEF Post, TypeOK, None
<1>2. ASSUME NEW r \in Runs, Stall(r) PROVE JobsKnow'
  BY <1>a, <1>2, Distinct DEF Stall, LosesLock, TypeOK, None
<1>3. ASSUME NEW w \in Workers, NEW r \in Runs, Take(w, r) PROVE JobsKnow'
  BY <1>a, <1>3, Distinct DEF Take, LiteSave, TypeOK, None
<1>4. ASSUME NEW w \in Workers, EngineSavesSignals(w) PROVE JobsKnow'
  BY <1>a, <1>4 DEF EngineSavesSignals, Goto, LiteSave, TypeOK
<1>5. ASSUME NEW w \in Workers, NEW s \in {"completed", "failed"}, EngineReturns(w, s)
      PROVE JobsKnow'
  BY <1>a, <1>5 DEF EngineReturns, Goto, LiteSave, TypeOK
<1>6. ASSUME NEW w \in Workers, EngineDies(w) PROVE JobsKnow'
  BY <1>a, <1>6, Distinct DEF EngineDies, Frees, TypeOK, None, WorkersKnow
<1>7. ASSUME NEW w \in Workers, TimerBeats(w) PROVE JobsKnow'
  BY <1>a, <1>7 DEF TimerBeats, TypeOK, WorkersKnow
<1>8. ASSUME NEW w \in Workers, Export(w) PROVE JobsKnow'
  BY <1>a, <1>8 DEF Export, Goto, TypeOK, WorkersKnow
<1>9. ASSUME NEW w \in Workers, SyncCommits(w) PROVE JobsKnow'
  BY <1>a, <1>9 DEF SyncCommits, Goto, TypeOK, WorkersKnow
<1>10. ASSUME NEW w \in Workers, SyncFails(w) PROVE JobsKnow'
  BY <1>a, <1>10 DEF SyncFails, Goto, TypeOK, WorkersKnow
<1>11. ASSUME NEW w \in Workers, Finishes(w) PROVE JobsKnow'
  BY <1>a, <1>11, Distinct DEF Finishes, Frees, TypeOK, None, WorkersKnow
<1>12. ASSUME NEW w \in Workers, Crash(w) PROVE JobsKnow'
  BY <1>a, <1>12 DEF Crash, Frees, TypeOK
<1>13. ASSUME NEW c \in Clients, NEW r \in Runs, Get(c, r) \/ Look(c, r) \/ Remove(c, r)
       PROVE JobsKnow'
  BY <1>a, <1>13 DEF Get, Look, Remove
<1>14. ASSUME NEW c \in Clients, Reset(c) PROVE JobsKnow'
  BY <1>a, <1>14 DEF Reset
<1>15. ASSUME NEW c \in Clients, Status(c) \/ Expire(c) PROVE JobsKnow'
  BY <1>a, <1>15 DEF Status, Expire
<1>24. ASSUME NEW c \in Clients, Expires(c) PROVE JobsKnow'
  BY <1>a, <1>24 DEF Expires, TypeOK, ClientsKnow
<1>16. ASSUME NEW c \in Clients, Mark(c) PROVE JobsKnow'
  BY <1>a, <1>16 DEF Mark, TypeOK, None, ClientsKnow
<1>17. ASSUME NEW c \in Clients, List(c) PROVE JobsKnow'
  BY <1>a, <1>17 DEF List
<1>18. ASSUME NEW c \in Clients, Cascade(c) PROVE JobsKnow'
  <2>1. CASE pg[target[c]] = None
    BY <1>a, <1>18, <2>1 DEF Cascade
  <2>2. CASE pg[target[c]] # None
    <3>1. /\ \A r \in Runs : pg'[r] \in {None, pg[r]}
          /\ gone' = gone \cup Later(target[c])
          /\ UNCHANGED <<jobVars, workerVars, posted>>
      BY <1>a, <1>18, <2>2 DEF Cascade
    <3>2. Later(target[c]) \subseteq posted
      BY <1>a DEF Later, Shown
    <3> QED BY <1>a, <3>1, <3>2
  <2> QED BY <2>1, <2>2
<1>19. ASSUME NEW c \in Clients, NEW r \in Runs, Dequeue(c, r) PROVE JobsKnow'
  <2>1. /\ r \in posted /\ UNCHANGED <<job, pg, gone, posted, workerVars>>
        /\ \/ UNCHANGED <<queue, owner>>
           \/ /\ queue' = [queue EXCEPT ![r] = None]
              /\ \/ queue[r] = "active" /\ owner' = [owner EXCEPT ![r] = None]
                 \/ queue[r] # "active" /\ owner' = owner
    BY <1>a, <1>19 DEF Dequeue, LosesLock
  <2> QED BY <1>a, <2>1, Distinct DEF TypeOK, None
<1>20. ASSUME NEW c \in Clients, Drop(c) PROVE JobsKnow'
  BY <1>a, <1>20 DEF Drop, TypeOK, ClientsKnow
<1>21. ASSUME NEW c \in Clients, NEW r \in Runs, Skip(c, r) PROVE JobsKnow'
  BY <1>a, <1>21 DEF Skip
<1>22. ASSUME NEW c \in Clients, Signals(c) \/ Rest(c) \/ Wipe(c) PROVE JobsKnow'
  BY <1>a, <1>22 DEF Signals, Rest, Wipe, Stale, None
<1>23. CASE UNCHANGED vars
  BY <1>a, <1>23 DEF vars
<1> HIDE DEF JobsKnow
<1> QED
  BY <1>1, <1>2, <1>3, <1>4, <1>5, <1>6, <1>7, <1>8, <1>9, <1>10, <1>11, <1>12, <1>13,
     <1>14, <1>15, <1>16, <1>17, <1>18, <1>19, <1>20, <1>21, <1>22, <1>23, <1>24
  DEF Next, Work, Serve

LEMMA KnownInit == Init => Known
BY TypeInit DEF Init, Known, WorkersKnow, ClientsKnow, JobsKnow, Busy, None

LEMMA KnownNext == Known /\ [Next]_vars => Known'
BY TypeNext, WorkersKnowNext, ClientsKnowNext, JobsKnowNext DEF Known

\* In every reachable state the variables are of their types, and each step of
\* a worker or of a request knows the run, the result and the row it needs.
THEOREM KnownHolds == Spec => []Known
BY KnownInit, KnownNext, PTL DEF Spec

-----------------------------------------------------------------------------
(* What Postgres shows *)

\* What a step may do to a run in Postgres.
LEMMA PgSteps ==
  ASSUME Known, [Next]_vars, NEW r \in Runs
  PROVE  \/ pg'[r] \in {pg[r], None}
         \/ pg[r] = "running" /\ pg'[r] = "failed"
         \/ \E w \in Workers : /\ wpc[w] = "commit" /\ wrun[w] = r
                              /\ pg'[r] = export[w].row
<1> DEFINE G == \/ pg'[r] \in {pg[r], None}
                \/ pg[r] = "running" /\ pg'[r] = "failed"
                \/ \E w \in Workers : /\ wpc[w] = "commit" /\ wrun[w] = r
                                     /\ pg'[r] = export[w].row
<1>1. TypeOK
  BY DEF Known
<1>2. ASSUME NEW w \in Workers, SyncCommits(w) PROVE G
  BY <1>1, <1>2 DEF SyncCommits, Goto, TypeOK
<1>3. ASSUME NEW c \in Clients, Mark(c) PROVE G
  BY <1>1, <1>3 DEF Mark, TypeOK
<1>4. ASSUME NEW c \in Clients, Cascade(c) PROVE G
  <2>1. \/ UNCHANGED pg
        \/ \E d \in SUBSET Runs : pg' = [s \in Runs |-> IF s \in d THEN None ELSE pg[s]]
    BY <1>4 DEF Cascade, Later, Shown
  <2> QED BY <2>1
<1>5. ASSUME NEW c \in Clients,
             \/ Reset(c) \/ Status(c) \/ Expire(c) \/ Expires(c) \/ List(c) \/ Drop(c)
             \/ Signals(c) \/ Rest(c) \/ Wipe(c)
             \/ \E s \in Runs : \/ Get(c, s) \/ Look(c, s) \/ Remove(c, s)
                                 \/ Dequeue(c, s) \/ Skip(c, s)
      PROVE pg' = pg
  BY <1>5 DEF Reset, Status, Look, Expire, Expires, List, Drop, Signals, Rest, Wipe, Get, Remove, Dequeue, Skip,
              stores
<1>6. ASSUME NEW w \in Workers,
             \/ EngineSavesSignals(w)
             \/ \E s \in {"completed", "failed"} : EngineReturns(w, s)
             \/ EngineDies(w) \/ Export(w) \/ SyncFails(w) \/ Finishes(w) \/ Crash(w)
             \/ TimerBeats(w) \/ \E s \in Runs : Take(w, s)
      PROVE pg' = pg
  BY <1>6 DEF EngineSavesSignals, EngineReturns, EngineDies, Export, SyncFails, Finishes,
              Crash, TimerBeats, Take, LiteSave, stores
<1>7. ASSUME NEW s \in Runs, Post(s) \/ Stall(s) PROVE pg' = pg
  BY <1>7 DEF Post, Stall, stores
<1>8. ASSUME UNCHANGED vars PROVE pg' = pg
  BY <1>8 DEF vars, stores
<1> QED BY <1>2, <1>3, <1>4, <1>5, <1>6, <1>7, <1>8 DEF Next, Work, Serve

\* A run that has ended in Postgres is changed by a copy of the journal or its
\* deletion alone (markResearchRunFailed asks for an active status).
THEOREM EndedStays == Spec => EndedStaysEnded
<1>1. Known /\ [Next]_vars =>
        \A r \in Runs :
          pg[r] \in {"completed", "failed"} /\ pg'[r] \notin {pg[r], None} =>
            \E w \in Workers : wpc[w] = "commit" /\ wrun[w] = r
                               /\ pg'[r] = export[w].row
  BY PgSteps
<1> QED BY <1>1, KnownHolds, PTL DEF Spec, EndedStaysEnded

-----------------------------------------------------------------------------
(* What was deleted *)

InBull(r) == queue[r] # None

\* A job whose record is gone is that of a run at work when it was deleted, and
\* one that waits for a deleted run is still to be removed by its request.
DeletedInv ==
  /\ \A r \in gone \ loose :
       /\ pg[r] = None /\ ~AtWork(r)
       /\ queue[r] = "waiting" => \E c \in Clients : r \in todo[c]
  /\ \A c \in Clients : cpc[c] = "drop" => target[c] \in loose \/ ~InBull(target[c])
  /\ \A r \in Runs : job[r] = None => r \in loose \/ ~InBull(r)

LEMMA DeletedInit == Init => DeletedInv
BY DEF Init, DeletedInv, InBull, None

LEMMA DeletedNext == Known /\ DeletedInv /\ [Next]_vars => DeletedInv'
<1> SUFFICES ASSUME Known, DeletedInv, [Next]_vars PROVE DeletedInv'
  OBVIOUS
<1>a. TypeOK /\ WorkersKnow /\ ClientsKnow /\ JobsKnow
  BY DEF Known
<1>b. \A r \in gone \ loose : pg[r] = None /\ ~Busy(r)
  BY DEF DeletedInv, AtWork
<1> USE DEF DeletedInv, AtWork, Busy, InBull, stores, workerVars, clientVars, jobVars,
            boundVars, histVars
<1>1. ASSUME NEW r \in Runs, Post(r) PROVE DeletedInv'
  BY <1>a, <1>1 DEF Post, TypeOK, None, JobsKnow, ClientsKnow
<1>2. ASSUME NEW r \in Runs, Stall(r) PROVE DeletedInv'
  <2>1. /\ queue[r] = "active" /\ queue' = [queue EXCEPT ![r] = "waiting"]
        /\ UNCHANGED <<job, pg, workerVars, clientVars, gone, loose>>
    BY <1>2 DEF Stall, LosesLock
  <2>2. r \notin gone \ loose
    BY <2>1
  <2>3. \A s \in Runs : queue'[s] = IF s = r THEN "waiting" ELSE queue[s]
    BY <1>a, <2>1 DEF TypeOK
  <2>4. \A c \in Clients : cpc[c] = "drop" => target[c] \in Runs
    BY <1>a DEF ClientsKnow
  <2>5. gone \subseteq Runs
    BY <1>a DEF TypeOK
  <2> QED BY <2>1, <2>2, <2>3, <2>4, <2>5 DEF None
<1>3. ASSUME NEW w \in Workers, NEW r \in Runs, Take(w, r) PROVE DeletedInv'
  BY <1>a, <1>3 DEF Take, LiteSave, TypeOK, None
<1>4. ASSUME NEW w \in Workers, EngineSavesSignals(w) PROVE DeletedInv'
  BY <1>a, <1>4 DEF EngineSavesSignals, Goto, LiteSave, TypeOK
<1>5. ASSUME NEW w \in Workers, NEW s \in {"completed", "failed"}, EngineReturns(w, s)
      PROVE DeletedInv'
  BY <1>a, <1>5 DEF EngineReturns, Goto, LiteSave, TypeOK
<1>6. ASSUME NEW w \in Workers, EngineDies(w) PROVE DeletedInv'
  <2>1. /\ wrun[w] \in Runs /\ wpc[w] # "idle" /\ Frees(w)
        /\ job' = [job EXCEPT ![wrun[w]] = "failed"]
        /\ UNCHANGED <<pg, clientVars, histVars>>
    BY <1>a, <1>6 DEF EngineDies, WorkersKnow
  <2>2. /\ \A s \in Runs \ {wrun[w]} : queue'[s] = queue[s]
        /\ queue'[wrun[w]] # None => InBull(wrun[w])
    <3>1. CASE owner[wrun[w]] = w
      <4>1. queue[wrun[w]] = "active"
        BY <1>a, <2>1, <3>1, Distinct DEF JobsKnow
      <4>2. \E q : queue' = [queue EXCEPT ![wrun[w]] = q]
        BY <1>6, <3>1 DEF EngineDies
      <4> QED BY <1>a, <2>1, <4>1, <4>2 DEF TypeOK, None
    <3>2. CASE owner[wrun[w]] # w
      <4>1. queue' = queue
        BY <1>6, <3>2 DEF EngineDies
      <4> QED BY <4>1
    <3> QED BY <3>1, <3>2
  <2>3. \A s \in Runs : Busy(s)' => Busy(s)
    BY <1>a, <2>1 DEF Frees, TypeOK
  <2>4. wrun[w] \notin gone \ loose
    BY <1>b, <2>1
  <2>5. \A s \in Runs : InBull(s)' => InBull(s)
    <3> SUFFICES ASSUME NEW s \in Runs, InBull(s)' PROVE InBull(s)
      OBVIOUS
    <3>1. CASE s = wrun[w]
      BY <2>2, <3>1
    <3>2. CASE s # wrun[w]
      BY <2>2, <3>2
    <3> QED BY <3>1, <3>2
  <2>6. \A s \in gone \ loose : queue'[s] = queue[s] /\ ~Busy(s)'
    BY <1>a, <1>b, <2>2, <2>3, <2>4 DEF TypeOK
  <2>7. \A s \in Runs : job'[s] = None => job[s] = None
    BY <1>a, <2>1 DEF TypeOK, None
  <2> HIDE DEF InBull, Busy
  <2> QED BY <1>a, <2>1, <2>5, <2>6, <2>7 DEF TypeOK, ClientsKnow
<1>7. ASSUME NEW w \in Workers, TimerBeats(w) PROVE DeletedInv'
  BY <1>a, <1>7 DEF TimerBeats, TypeOK, None, Revived
<1>8. ASSUME NEW w \in Workers, Export(w) PROVE DeletedInv'
  BY <1>a, <1>8 DEF Export, Goto, TypeOK, None, Revived
<1>9. ASSUME NEW w \in Workers, SyncCommits(w) PROVE DeletedInv'
  BY <1>a, <1>b, <1>9 DEF SyncCommits, Goto, TypeOK
<1>10. ASSUME NEW w \in Workers, SyncFails(w) PROVE DeletedInv'
  BY <1>a, <1>10 DEF SyncFails, Goto, TypeOK, None, Revived
<1>11. ASSUME NEW w \in Workers, Finishes(w) PROVE DeletedInv'
  <2>1. /\ wrun[w] \in Runs /\ result[w] # None /\ wpc[w] # "idle" /\ Frees(w)
        /\ job' = [job EXCEPT ![wrun[w]] = result[w]]
        /\ UNCHANGED <<pg, clientVars, histVars>>
    BY <1>a, <1>11 DEF Finishes, WorkersKnow
  <2>2. queue' = queue \/ queue' = [queue EXCEPT ![wrun[w]] = "completed"]
    BY <1>11 DEF Finishes
  <2>3. \A s \in Runs : Busy(s)' => Busy(s)
    BY <1>a, <2>1 DEF Frees, TypeOK
  <2>4. \A s \in Runs : InBull(s)' => InBull(s)
    <3>1. owner[wrun[w]] = w => queue[wrun[w]] = "active"
      BY <1>a, <2>1, Distinct DEF JobsKnow
    <3>2. owner[wrun[w]] # w => queue' = queue
      BY <1>11 DEF Finishes
    <3> QED BY <1>a, <2>1, <2>2, <3>1, <3>2 DEF TypeOK, None
  <2>5. \A s \in Runs : job'[s] = None => job[s] = None
    BY <1>a, <2>1 DEF TypeOK
  <2>6. \A s \in gone \ loose : queue'[s] # "active" /\ (queue'[s] = "waiting" => queue[s] = "waiting")
    BY <1>a, <2>1, <2>2 DEF TypeOK
  <2> HIDE DEF InBull, Busy
  <2> QED BY <1>a, <1>b, <2>1, <2>3, <2>4, <2>5, <2>6 DEF TypeOK, ClientsKnow
<1>12. ASSUME NEW w \in Workers, Crash(w) PROVE DeletedInv'
  BY <1>a, <1>12 DEF Crash, Frees, TypeOK
<1>13. ASSUME NEW c \in Clients, NEW r \in Runs, Get(c, r) \/ Look(c, r) \/ Remove(c, r)
       PROVE DeletedInv'
  BY <1>a, <1>13 DEF Get, Look, Remove, Step, TypeOK
<1>14. ASSUME NEW c \in Clients, Reset(c) PROVE DeletedInv'
  BY <1>a, <1>14 DEF Reset, Step, TypeOK
<1>15. ASSUME NEW c \in Clients, Status(c) \/ Expire(c) \/ Expires(c) PROVE DeletedInv'
  <2>1. /\ job' = job \/ job' = [job EXCEPT ![target[c]] = "failed"]
        /\ UNCHANGED <<queue, owner, made, stores, workerVars, posted, gone, loose>>
        /\ cpc[c] \in {"status", "expire", "write"} /\ todo[c] = {}
    BY <1>a, <1>15 DEF Status, Expire, Expires, ClientsKnow
  <2>2. \/ /\ \E from, to \in {"status", "expire", "write", "mark"} : Step(c, from, to)
           /\ UNCHANGED <<kind, target, todo>>
        \/ Replies(c)
    BY <1>15 DEF Status, Expire, Expires
  <2>3. /\ \A d \in Clients : todo'[d] = todo[d]
        /\ \A d \in Clients : cpc'[d] = "drop" => cpc[d] = "drop" /\ target'[d] = target[d]
    <3>1. CASE /\ \E from, to \in {"status", "expire", "write", "mark"} : Step(c, from, to)
               /\ UNCHANGED <<kind, target, todo>>
      BY <1>a, <3>1 DEF Step, TypeOK
    <3>2. CASE Replies(c)
      BY <1>a, <2>1, <3>2 DEF Replies, TypeOK
    <3> QED BY <2>2, <3>1, <3>2
  <2>4. \A s \in Runs : job'[s] = None => job[s] = None
    BY <1>a, <2>1 DEF TypeOK, None
  <2> QED BY <1>a, <2>1, <2>3, <2>4 DEF TypeOK
<1>16. ASSUME NEW c \in Clients, Mark(c) PROVE DeletedInv'
  BY <1>a, <1>16 DEF Mark, Replies, TypeOK, None, ClientsKnow
<1>17. ASSUME NEW c \in Clients, List(c) PROVE DeletedInv'
  BY <1>a, <1>17 DEF List, Step, TypeOK
<1>18. ASSUME NEW c \in Clients, Cascade(c) PROVE DeletedInv'
  <2>1. CASE pg[target[c]] = None
    BY <1>a, <1>18, <2>1 DEF Cascade, Replies, TypeOK, ClientsKnow
  <2>2. CASE pg[target[c]] # None
    <3> DEFINE dead == Later(target[c])
    <3>1. dead \subseteq Runs
      BY DEF Later, Shown
    <3>2. /\ pg' = [r \in Runs |-> IF r \in dead THEN None ELSE pg[r]]
          /\ todo' = [todo EXCEPT ![c] = dead] /\ gone' = gone \cup dead
          /\ loose' = loose \cup {r \in dead : AtWork(r)}
          /\ cpc' = [cpc EXCEPT ![c] = "jobs"] /\ target' = [target EXCEPT ![c] = None]
          /\ UNCHANGED <<jobVars, workerVars>> /\ cpc[c] = "cascade" /\ todo[c] = {}
      BY <1>a, <1>18, <2>2 DEF Cascade, Step, Doomed, ClientsKnow
    <3> HIDE DEF dead
    <3> QED BY <1>a, <3>1, <3>2 DEF TypeOK
  <2> QED BY <2>1, <2>2
<1>19. ASSUME NEW c \in Clients, NEW r \in Runs, Dequeue(c, r) PROVE DeletedInv'
  <2>1. /\ loose' = (IF AtWork(r) THEN loose \cup {r} ELSE loose)
        /\ job[r] # None /\ target' = [target EXCEPT ![c] = r]
        /\ cpc' = [cpc EXCEPT ![c] = "drop"]
        /\ UNCHANGED <<job, pg, gone, todo, workerVars>>
    BY <1>19 DEF Dequeue
  <2>2. \/ queue[r] = "active" /\ queue' = queue
        \/ queue' = [queue EXCEPT ![r] = None]
    BY <1>19 DEF Dequeue
  <2>3. CASE queue[r] = "active" /\ queue' = queue
    BY <1>a, <2>1, <2>3 DEF TypeOK
  <2>4. CASE queue' = [queue EXCEPT ![r] = None]
    BY <1>a, <2>1, <2>4 DEF TypeOK, None
  <2> QED BY <2>2, <2>3, <2>4
<1>20. ASSUME NEW c \in Clients, NEW r \in Runs, cpc[c] \in {"jobs", "drop"},
              r \in loose \/ ~InBull(r), Onward(c, todo[c] \ {r}),
              job' = job \/ job' = [job EXCEPT ![r] = None],
              UNCHANGED <<queue, owner, made, pg, workerVars, histVars>>
       PROVE DeletedInv'
  <2>1. /\ todo' = [todo EXCEPT ![c] = todo[c] \ {r}]
        /\ \A d \in Clients \ {c} : cpc'[d] = cpc[d] /\ target'[d] = target[d]
        /\ cpc'[c] # "drop"
    BY <1>a, <1>20, OnwardCases DEF TypeOK
  <2>2. \A s \in Runs : job'[s] = None => job[s] = None \/ s = r
    BY <1>a, <1>20 DEF TypeOK
  <2>3. \A s \in Runs, d \in Clients : s \in todo[d] => s = r \/ s \in todo'[d]
    BY <1>a, <2>1 DEF TypeOK
  <2>4. r \in gone \ loose => queue[r] # "waiting"
    BY <1>20 DEF None
  <2> QED BY <1>a, <1>20, <2>1, <2>2, <2>3, <2>4
<1>21. ASSUME NEW c \in Clients, Drop(c) PROVE DeletedInv'
  BY <1>a, <1>20, <1>21 DEF Drop, ClientsKnow
<1>22. ASSUME NEW c \in Clients, NEW r \in Runs, Skip(c, r) PROVE DeletedInv'
  BY <1>a, <1>20, <1>22 DEF Skip
<1>23. ASSUME NEW c \in Clients, Signals(c) PROVE DeletedInv'
  BY <1>a, <1>23 DEF Signals, Step, TypeOK
<1>24. ASSUME NEW c \in Clients, Rest(c) PROVE DeletedInv'
  <2>1. \A s \in Runs : job'[s] = None => job[s] = None
    BY <1>24 DEF Rest, None
  <2>2. /\ \A d \in Clients : todo[d] \subseteq todo'[d]
        /\ \A d \in Clients : cpc'[d] = "drop" => cpc[d] = "drop"
        /\ UNCHANGED <<queue, owner, pg, workerVars, gone, loose, target>>
    BY <1>a, <1>24 DEF Rest, Step, TypeOK, ClientsKnow
  <2> QED BY <1>a, <2>1, <2>2
<1>25. ASSUME NEW c \in Clients, Wipe(c) PROVE DeletedInv'
  BY <1>a, <1>25 DEF Wipe, Replies, TypeOK, ClientsKnow
<1>26. CASE UNCHANGED vars
  BY <1>a, <1>26 DEF vars
<1> HIDE DEF DeletedInv
<1> QED
  BY <1>1, <1>2, <1>3, <1>4, <1>5, <1>6, <1>7, <1>8, <1>9, <1>10, <1>11, <1>12, <1>13,
     <1>14, <1>15, <1>16, <1>17, <1>18, <1>19, <1>21, <1>22, <1>23, <1>24, <1>25, <1>26
  DEF Next, Work, Serve

\* A deleted run comes back into Postgres only by an attempt that was at work
\* while the request was (removeResearchRunCascade, removeResearchRunJobs).
THEOREM DeletedStays == Spec => []DeletedStaysDeleted
<1>1. DeletedInv => DeletedStaysDeleted
  BY DEF DeletedInv, DeletedStaysDeleted
<1> QED BY <1>1, KnownHolds, DeletedInit, DeletedNext, PTL DEF Spec

-----------------------------------------------------------------------------
(* Jobs and runs *)

\* Without lost locks: what Postgres shows of a run at each step of its worker.
Copied(w, r) ==
  /\ wpc[w] \in {"engine", "saved", "export", "commit"} => pg[r] = None
  /\ wpc[w] = "finish" => pg[r] = result[w] \/ (r \in unsynced /\ pg[r] = None)

AgreeInv ==
  ~unlocked =>
    /\ \A w \in Workers : wpc[w] # "idle" =>
         /\ owner[wrun[w]] = w /\ job[wrun[w]] \in {"running", None}
         /\ wpc[w] = "export" => lite[wrun[w]] \in {None, result[w]}
         /\ wpc[w] = "commit" => export[w].row = result[w]
         /\ wrun[w] \notin gone => Copied(w, wrun[w])
    /\ \A r \in Runs : pg[r] # "running" /\ (job[r] = "running" => Busy(r))
    /\ \A r \in Runs \ gone : queue[r] = "waiting" => pg[r] = None
    /\ JobAndRunAgree

LEMMA AgreeInit == Init => AgreeInv
BY DEF Init, AgreeInv, JobAndRunAgree, None

\* Without lost locks no heart-beat is stale, so nobody expires a record.
NoneExpires == ~unlocked => \A c \in Clients : cpc[c] \notin {"expire", "write"}

LEMMA LockStaysLost == [Next]_vars /\ unlocked => unlocked'
<1> SUFFICES ASSUME [Next]_vars, unlocked PROVE unlocked'
  OBVIOUS
<1> USE DEF histVars
<1>1. ASSUME NEW r \in Runs, Post(r) \/ Stall(r) PROVE unlocked'
  BY <1>1 DEF Post, Stall, LosesLock
<1>2. ASSUME NEW w \in Workers,
             \/ EngineSavesSignals(w)
             \/ \E s \in {"completed", "failed"} : EngineReturns(w, s)
             \/ EngineDies(w) \/ Export(w) \/ SyncCommits(w) \/ SyncFails(w)
             \/ Finishes(w) \/ Crash(w) \/ TimerBeats(w)
             \/ \E r \in Runs : Take(w, r)
      PROVE unlocked'
  BY <1>2 DEF EngineSavesSignals, EngineReturns, EngineDies, Export, SyncCommits,
              SyncFails, Finishes, Crash, TimerBeats, Take
<1>3. ASSUME NEW c \in Clients,
             \/ Reset(c) \/ Status(c) \/ Expire(c) \/ Expires(c) \/ Mark(c) \/ List(c)
             \/ Cascade(c) \/ Drop(c) \/ Signals(c) \/ Rest(c) \/ Wipe(c)
             \/ \E r \in Runs : \/ Get(c, r) \/ Look(c, r) \/ Remove(c, r)
                                 \/ Dequeue(c, r) \/ Skip(c, r)
      PROVE unlocked'
  BY <1>3 DEF Reset, Status, Expire, Expires, Mark, List, Cascade, Drop, Signals, Rest,
              Wipe, Get, Look, Remove, Dequeue, Skip, LosesLock
<1>4. ASSUME UNCHANGED vars PROVE unlocked'
  BY <1>4 DEF vars
<1> QED BY <1>1, <1>2, <1>3, <1>4 DEF Next, Work, Serve

LEMMA NoneExpiresNext == Known /\ AgreeInv /\ NoneExpires /\ [Next]_vars => NoneExpires'
<1> SUFFICES ASSUME Known, AgreeInv, NoneExpires, [Next]_vars, ~unlocked' PROVE NoneExpires'
  BY DEF NoneExpires
<1>a. TypeOK /\ ClientsKnow /\ ~unlocked
  BY LockStaysLost DEF Known
<1>b. \A r \in Runs : ~Stale(r)
  BY <1>a DEF AgreeInv, Stale
<1>1. ASSUME NEW c \in Clients,
             \E s \in {"idle", "status", "mark", "cascade", "jobs", "drop", "list",
                       "signals", "rest", "sqlite"} : cpc' = [cpc EXCEPT ![c] = s]
      PROVE NoneExpires'
  BY <1>a, <1>1 DEF NoneExpires, TypeOK
<1>2. ASSUME NEW c \in Clients, NEW r \in Runs, Get(c, r) \/ Remove(c, r) \/ Dequeue(c, r)
      PROVE NoneExpires'
  BY <1>1, <1>2 DEF Get, Remove, Dequeue, Step
<1>3. ASSUME NEW c \in Clients, \E left : Onward(c, left) PROVE NoneExpires'
  BY <1>1, <1>3, OnwardCases
<1>4. ASSUME NEW c \in Clients, Drop(c) \/ \E r \in Runs : Skip(c, r) PROVE NoneExpires'
  BY <1>3, <1>4 DEF Drop, Skip
<1>5. ASSUME NEW c \in Clients,
             Reset(c) \/ Mark(c) \/ List(c) \/ Signals(c) \/ Rest(c) \/ Wipe(c)
      PROVE NoneExpires'
  BY <1>1, <1>5 DEF Reset, Mark, List, Signals, Rest, Wipe, Step, Replies
<1>6. ASSUME NEW c \in Clients, Cascade(c) PROVE NoneExpires'
  <2>1. cpc' = [cpc EXCEPT ![c] = "idle"] \/ cpc' = [cpc EXCEPT ![c] = "jobs"]
    BY <1>6 DEF Cascade, Step, Replies
  <2> QED BY <1>1, <2>1
<1>7. ASSUME NEW c \in Clients, Status(c) \/ Expire(c) \/ Expires(c) PROVE NoneExpires'
  <2>1. Status(c) /\ target[c] \in Runs
    BY <1>a, <1>7 DEF Status, Expire, Expires, NoneExpires, ClientsKnow
  <2>2. cpc' = [cpc EXCEPT ![c] = "idle"] \/ cpc' = [cpc EXCEPT ![c] = "mark"]
    BY <1>b, <2>1 DEF Status, Step, Replies
  <2> QED BY <1>1, <2>2
<1>8. ASSUME NEW c \in Clients, NEW r \in Runs, Look(c, r) PROVE NoneExpires'
  BY <1>b, <1>8 DEF Look
<1>9. ASSUME UNCHANGED clientVars PROVE NoneExpires'
  BY <1>a, <1>9 DEF NoneExpires, clientVars
<1> QED BY <1>2, <1>4, <1>5, <1>6, <1>7, <1>8, <1>9, ClientSteps

LEMMA AgreeNext == Known /\ AgreeInv /\ NoneExpires /\ [Next]_vars => AgreeInv'
<1> SUFFICES ASSUME Known, AgreeInv, NoneExpires, [Next]_vars, ~unlocked' PROVE AgreeInv'
  BY DEF AgreeInv
<1>a. TypeOK /\ WorkersKnow /\ ClientsKnow /\ JobsKnow
  BY DEF Known
<1> USE DEF AgreeInv, Copied, JobAndRunAgree, Busy, stores, workerVars, clientVars, jobVars,
            boundVars, histVars
<1>1. ASSUME NEW r \in Runs, Post(r) PROVE AgreeInv'
  BY <1>a, <1>1 DEF Post, TypeOK, None, JobsKnow
<1>2. ASSUME NEW r \in Runs, Stall(r) PROVE AgreeInv'
  BY <1>2 DEF Stall, LosesLock
<1>3. ASSUME NEW w \in Workers, NEW r \in Runs, Take(w, r) PROVE AgreeInv'
  <2>1. /\ wpc[w] = "idle" /\ queue[r] = "waiting" /\ owner[r] = None
        /\ UNCHANGED <<pg, result, export, gone, unsynced, unlocked>>
    BY <1>a, <1>3 DEF Take, LiteSave, JobsKnow
  <2>2. /\ queue' = [queue EXCEPT ![r] = "active"] /\ owner' = [owner EXCEPT ![r] = w]
        /\ job' = [job EXCEPT ![r] = "running"] /\ lite' = [lite EXCEPT ![r] = "running"]
        /\ wpc' = [wpc EXCEPT ![w] = "engine"] /\ wrun' = [wrun EXCEPT ![w] = r]
    BY <1>3 DEF Take, LiteSave
  <2>3. \A v \in Workers : wpc[v] # "idle" => wrun[v] # r /\ v # w
    BY <1>a, <2>1, Distinct
  <2>4. r \notin gone => pg[r] = None
    BY <2>1
  <2>5. \A v \in Workers : wpc'[v] # "idle" =>
          /\ owner'[wrun'[v]] = v /\ job'[wrun'[v]] \in {"running", None}
          /\ wpc'[v] = "export" => lite'[wrun'[v]] \in {None, result[v]}
          /\ wpc'[v] = "commit" => export[v].row = result[v]
    BY <1>a, <2>1, <2>2, <2>3 DEF TypeOK, WorkersKnow
  <2>6. \A v \in Workers : wpc'[v] # "idle" /\ wrun'[v] \notin gone =>
          /\ wpc'[v] \in {"engine", "saved", "export", "commit"} => pg[wrun'[v]] = None
          /\ wpc'[v] = "finish" =>
               pg[wrun'[v]] = result[v] \/ (wrun'[v] \in unsynced /\ pg[wrun'[v]] = None)
    BY <1>a, <2>1, <2>2, <2>3, <2>4 DEF TypeOK, WorkersKnow
  <2>7. \A s \in Runs : pg[s] # "running" /\ (job'[s] = "running" => Busy(s)')
    BY <1>a, <2>1, <2>2 DEF TypeOK
  <2>8. \A s \in Runs \ gone :
          /\ queue'[s] = "waiting" => pg[s] = None
          /\ job'[s] = "completed" /\ s \notin unsynced => pg[s] = "completed"
          /\ job'[s] = "failed" => pg[s] \in {None, "failed"}
    BY <1>a, <2>1, <2>2 DEF TypeOK
  <2> QED BY <2>1, <2>5, <2>6, <2>7, <2>8
<1>4. ASSUME NEW w \in Workers, EngineSavesSignals(w) PROVE AgreeInv'
  BY <1>a, <1>4 DEF EngineSavesSignals, Goto, LiteSave, TypeOK
<1>5. ASSUME NEW w \in Workers, NEW s \in {"completed", "failed"}, EngineReturns(w, s)
      PROVE AgreeInv'
  BY <1>a, <1>5 DEF EngineReturns, Goto, LiteSave, TypeOK, WorkersKnow
<1>6. ASSUME NEW w \in Workers, EngineDies(w) PROVE AgreeInv'
  BY <1>a, <1>6, Distinct DEF EngineDies, Frees, TypeOK, None, WorkersKnow
<1>7. ASSUME NEW w \in Workers, TimerBeats(w) PROVE AgreeInv'
  BY <1>a, <1>7 DEF TimerBeats, TypeOK, Revived, WorkersKnow
<1>8. ASSUME NEW w \in Workers, Export(w) PROVE AgreeInv'
  BY <1>a, <1>8 DEF Export, Goto, TypeOK, Revived, WorkersKnow
<1>9. ASSUME NEW w \in Workers, SyncCommits(w) PROVE AgreeInv'
  <2>1. /\ wpc[w] = "commit" /\ wpc' = [wpc EXCEPT ![w] = "finish"]
        /\ pg' = [pg EXCEPT ![wrun[w]] = export[w].row]
        /\ UNCHANGED <<lite, jobVars, wrun, result, export, gone, unsynced, unlocked>>
    BY <1>9 DEF SyncCommits, Goto
  <2>2. /\ wrun[w] \in Runs /\ result[w] \in {"completed", "failed"}
        /\ export[w].row = result[w] /\ owner[wrun[w]] = w
    BY <1>a, <2>1 DEF TypeOK, WorkersKnow
  <2>3. /\ queue[wrun[w]] = "active" /\ job[wrun[w]] \in {"running", None}
    BY <1>a, <2>1, <2>2, Distinct DEF JobsKnow
  <2>4. \A v \in Workers : wpc[v] # "idle" /\ v # w => wrun[v] # wrun[w]
    BY <2>1, <2>2
  <2>5. \A s \in Runs : pg'[s] = IF s = wrun[w] THEN result[w] ELSE pg[s]
    BY <1>a, <2>1, <2>2 DEF TypeOK
  <2>6. \A v \in Workers : wpc'[v] # "idle" /\ wrun[v] \notin gone =>
          /\ wpc'[v] \in {"engine", "saved", "export", "commit"} => pg'[wrun[v]] = None
          /\ wpc'[v] = "finish" =>
               pg'[wrun[v]] = result[v] \/ (wrun[v] \in unsynced /\ pg'[wrun[v]] = None)
    BY <1>a, <2>1, <2>2, <2>4, <2>5 DEF TypeOK, WorkersKnow
  <2>7. \A v \in Workers : wpc'[v] # "idle" =>
          /\ owner[wrun[v]] = v /\ job[wrun[v]] \in {"running", None}
          /\ wpc'[v] = "export" => lite[wrun[v]] \in {None, result[v]}
          /\ wpc'[v] = "commit" => export[v].row = result[v]
    BY <1>a, <2>1 DEF TypeOK
  <2>8. \A s \in Runs : pg'[s] # "running" /\ (job[s] = "running" => Busy(s)')
    BY <1>a, <2>1, <2>2, <2>5 DEF TypeOK
  <2>9. \A s \in Runs \ gone :
          /\ queue[s] = "waiting" => pg'[s] = None
          /\ job[s] = "completed" /\ s \notin unsynced => pg'[s] = "completed"
          /\ job[s] = "failed" => pg'[s] \in {None, "failed"}
    BY <1>a, <2>1, <2>3, <2>5, Distinct DEF TypeOK, None
  <2> QED BY <2>1, <2>6, <2>7, <2>8, <2>9
<1>10. ASSUME NEW w \in Workers, SyncFails(w) PROVE AgreeInv'
  <2>1. /\ wpc[w] \in {"export", "commit"} /\ wpc' = [wpc EXCEPT ![w] = "finish"]
        /\ job' \in {job, [job EXCEPT ![wrun[w]] = Revived(wrun[w])]}
        /\ unsynced' = unsynced \cup {wrun[w]}
        /\ UNCHANGED <<queue, owner, lite, pg, wrun, result, export, gone, unlocked>>
    BY <1>10 DEF SyncFails, Goto
  <2>2. wrun[w] \in Runs
    BY <1>a, <2>1 DEF WorkersKnow
  <2>3. \A s \in Runs : job'[s] = job[s] \/ (s = wrun[w] /\ job'[s] = "running")
    BY <1>a, <2>1, <2>2 DEF Revived, TypeOK
  <2>4. \A s \in Runs : Busy(s) => Busy(s)'
    BY <1>a, <2>1 DEF TypeOK
  <2>5. Busy(wrun[w])'
    BY <1>a, <2>1 DEF TypeOK
  <2> QED BY <1>a, <2>1, <2>2, <2>3, <2>4, <2>5 DEF TypeOK, WorkersKnow
<1>11. ASSUME NEW w \in Workers, Finishes(w) PROVE AgreeInv'
  BY <1>a, <1>11 DEF Finishes, Frees, TypeOK, None, WorkersKnow
<1>12. ASSUME NEW w \in Workers, Crash(w) PROVE AgreeInv'
  BY <1>12 DEF Crash
<1>13. ASSUME NEW c \in Clients, NEW r \in Runs, Get(c, r) \/ Look(c, r) \/ Remove(c, r)
       PROVE AgreeInv'
  BY <1>13 DEF Get, Look, Remove
<1>14. ASSUME NEW c \in Clients, Reset(c) PROVE AgreeInv'
  BY <1>14 DEF Reset
<1>15. ASSUME NEW c \in Clients, Status(c) \/ Expire(c) PROVE AgreeInv'
  BY <1>15 DEF Status, Expire
<1>25. ASSUME NEW c \in Clients, Expires(c) PROVE AgreeInv'
  BY <1>25 DEF Expires, NoneExpires
<1>16. ASSUME NEW c \in Clients, Mark(c) PROVE AgreeInv'
  BY <1>a, <1>16 DEF Mark, TypeOK
<1>17. ASSUME NEW c \in Clients, List(c) PROVE AgreeInv'
  BY <1>17 DEF List
<1>18. ASSUME NEW c \in Clients, Cascade(c) PROVE AgreeInv'
  <2>1. CASE pg[target[c]] = None
    BY <1>18, <2>1 DEF Cascade
  <2>2. CASE pg[target[c]] # None
    <3> DEFINE dead == Later(target[c])
    <3>1. /\ pg' = [r \in Runs |-> IF r \in dead THEN None ELSE pg[r]]
          /\ gone' = gone \cup dead
          /\ UNCHANGED <<jobVars, workerVars, lite, unsynced, unlocked>>
      BY <1>18, <2>2 DEF Cascade
    <3> HIDE DEF dead
    <3>2. /\ \A s \in Runs \ gone' : pg'[s] = pg[s] /\ s \notin gone
          /\ \A s \in Runs : pg'[s] # "running"
      BY <3>1 DEF None
    <3>3. \A w \in Workers : wpc[w] # "idle" /\ wrun[w] \notin gone' =>
            wrun[w] \in Runs \ gone'
      BY <1>a DEF WorkersKnow
    <3> QED BY <1>a, <3>1, <3>2, <3>3
  <2> QED BY <2>1, <2>2
<1>19. ASSUME NEW c \in Clients, NEW r \in Runs, Dequeue(c, r) PROVE AgreeInv'
  BY <1>a, <1>19 DEF Dequeue, LosesLock, TypeOK, None
<1>20. ASSUME NEW c \in Clients, Drop(c) PROVE AgreeInv'
  BY <1>a, <1>20 DEF Drop, TypeOK, None
<1>21. ASSUME NEW c \in Clients, NEW r \in Runs, Skip(c, r) PROVE AgreeInv'
  BY <1>21 DEF Skip
<1>22. ASSUME NEW c \in Clients, Signals(c) \/ Rest(c) PROVE AgreeInv'
  <2>1. /\ job' = job
        /\ UNCHANGED <<queue, owner, lite, pg, workerVars, gone, unsynced, unlocked>>
    <3>1. CASE Signals(c)
      BY <3>1 DEF Signals
    <3>2. CASE Rest(c)
      <4>1. \A r \in Runs : ~Stale(r)
        BY <3>2 DEF Stale, Rest
      <4> QED BY <1>a, <3>2, <4>1 DEF Rest, TypeOK
    <3> QED BY <1>22, <3>1, <3>2
  <2> QED BY <2>1
<1>23. ASSUME NEW c \in Clients, Wipe(c) PROVE AgreeInv'
  BY <1>a, <1>23 DEF Wipe, TypeOK, WorkersKnow
<1>24. CASE UNCHANGED vars
  BY <1>24 DEF vars
<1> HIDE DEF AgreeInv
<1> QED
  BY <1>1, <1>2, <1>3, <1>4, <1>5, <1>6, <1>7, <1>8, <1>9, <1>10, <1>11, <1>12, <1>13,
     <1>14, <1>15, <1>16, <1>17, <1>18, <1>19, <1>20, <1>21, <1>22, <1>23, <1>24,
     <1>25
  DEF Next, Work, Serve

\* Without lost locks a completed job has its run in Postgres, completed, and
\* a job whose last attempt failed never shows a completed run (syncRun before
\* markCompleted; markFailed without a copy).
THEOREM JobsAgree == Spec => []JobAndRunAgree
<1>1. AgreeInv => JobAndRunAgree
  BY DEF AgreeInv, JobAndRunAgree
<1>2. Init => NoneExpires
  BY DEF Init, NoneExpires
<1> QED BY <1>1, <1>2, KnownHolds, AgreeInit, AgreeNext, NoneExpiresNext, PTL DEF Spec

-----------------------------------------------------------------------------
(* What a reset leaves *)

\* What a reset that nobody disturbs has reached.
ResetInv ==
  /\ snap \subseteq Shown
  /\ \A c \in Resetting \ shaken :
       /\ \A w \in Workers : wpc[w] = "idle"
       /\ kind[c] = "rest" \/ cpc[c] = "signals" => Shown = {}
       /\ kind[c] = "rest" => pgSig = {}
       /\ cpc[c] = "sqlite" => \A r \in Runs : job[r] = None

LEMMA ResetInit == Init => ResetInv
BY DEF Init, ResetInv, Resetting, Shown, None

\* A worker that is at work, or begins, disturbs every reset.
LEMMA Disturbed ==
  ASSUME Known, ResetInv, NEW w \in Workers, wpc[w] # "idle",
         UNCHANGED <<kind, shaken>>, snap' \subseteq Shown'
  PROVE  ResetInv'
BY DEF ResetInv, Resetting

LEMMA ResetNext == Known /\ ResetInv /\ [Next]_vars => ResetInv'
<1> SUFFICES ASSUME Known, ResetInv, [Next]_vars PROVE ResetInv'
  OBVIOUS
<1>a. TypeOK /\ WorkersKnow /\ ClientsKnow /\ JobsKnow
  BY DEF Known
<1>b. /\ \A r \in snap : r \in Runs /\ pg[r] # None
      /\ Shown = {r \in Runs : pg[r] # None}
  BY DEF ResetInv, Shown
<1> USE DEF ResetInv, Resetting, Shown, stores, workerVars, clientVars, jobVars, boundVars,
            histVars
<1>1. ASSUME NEW r \in Runs, Post(r) PROVE ResetInv'
  BY <1>1 DEF Post
<1>2. ASSUME NEW r \in Runs, Stall(r) PROVE ResetInv'
  BY <1>2 DEF Stall, LosesLock
<1>3. ASSUME NEW w \in Workers, NEW r \in Runs, Take(w, r) PROVE ResetInv'
  BY <1>3 DEF Take, LiteSave
<1>4. ASSUME NEW w \in Workers, wpc[w] # "idle", UNCHANGED <<kind, shaken, pg, snap>>
      PROVE ResetInv'
  BY <1>4
<1>5. ASSUME NEW w \in Workers,
             \/ EngineSavesSignals(w)
             \/ \E s \in {"completed", "failed"} : EngineReturns(w, s)
             \/ EngineDies(w) \/ Export(w) \/ SyncFails(w) \/ Finishes(w) \/ Crash(w)
             \/ TimerBeats(w)
      PROVE ResetInv'
  BY <1>4, <1>5 DEF EngineSavesSignals, EngineReturns, EngineDies, Export, SyncFails,
                    Finishes, Crash, TimerBeats, Goto, LiteSave
<1>6. ASSUME NEW w \in Workers, SyncCommits(w) PROVE ResetInv'
  <2>1. /\ wpc[w] = "commit" /\ wrun[w] \in Runs /\ export[w].row # None
        /\ pg' = [pg EXCEPT ![wrun[w]] = export[w].row] /\ UNCHANGED <<kind, shaken>>
        /\ snap' \subseteq snap \cup {wrun[w]}
    BY <1>a, <1>6 DEF SyncCommits, Goto, WorkersKnow
  <2>2. snap' \subseteq Shown'
    BY <1>a, <1>b, <2>1 DEF TypeOK
  <2> QED BY <2>1, <2>2, Disturbed
<1>7. ASSUME NEW c \in Clients, NEW r \in Runs, Get(c, r) \/ Look(c, r) \/ Remove(c, r)
      PROVE ResetInv'
  BY <1>a, <1>7 DEF Get, Look, Remove, Step, TypeOK
<1>8. ASSUME NEW c \in Clients, Reset(c) PROVE ResetInv'
  BY <1>a, <1>8 DEF Reset, Step, TypeOK
<1>9. ASSUME NEW c \in Clients, Status(c) \/ Expire(c) \/ Expires(c) PROVE ResetInv'
  <2>1. /\ shaken' = shaken \cup Resetting \/ (shaken' = shaken /\ \A r \in Runs : job[r] = None => job'[r] = None)
        /\ UNCHANGED <<pg, snap, pgSig, wpc>>
    BY <1>a, <1>9 DEF Status, Expire, Expires, TypeOK, ClientsKnow
  <2>2. \/ /\ \E from, to \in {"status", "expire", "write", "mark"} : Step(c, from, to)
           /\ UNCHANGED <<kind, target, todo>>
        \/ Replies(c)
    BY <1>9 DEF Status, Expire, Expires
  <2>3. \A d \in Clients : /\ kind'[d] \in {kind[d], None}
                           /\ kind'[d] \in {"reset", "rest"} =>
                                cpc'[d] \in {cpc[d], "status", "expire", "write", "mark", "idle"}
    <3>1. CASE Replies(c)
      BY <1>a, <3>1 DEF Replies, TypeOK
    <3>2. CASE /\ \E from, to \in {"status", "expire", "write", "mark"} : Step(c, from, to)
               /\ UNCHANGED <<kind, target, todo>>
      BY <1>a, <3>2 DEF Step, TypeOK
    <3> QED BY <2>2, <3>1, <3>2
  <2>4. \A d \in Clients : kind'[d] \in {"reset", "rest"} => kind'[d] = kind[d]
    BY <2>3 DEF None
  <2>5. CASE shaken' = shaken \cup Resetting
    BY <2>1, <2>4, <2>5
  <2>6. CASE shaken' = shaken /\ \A r \in Runs : job[r] = None => job'[r] = None
    BY <2>1, <2>3, <2>4, <2>6
  <2> QED BY <2>1, <2>5, <2>6
<1>10. ASSUME NEW c \in Clients, Mark(c) PROVE ResetInv'
  BY <1>a, <1>10 DEF Mark, Replies, TypeOK, None
<1>11. ASSUME NEW c \in Clients, List(c) PROVE ResetInv'
  BY <1>a, <1>11 DEF List, Step, TypeOK, ClientsKnow
<1>12. ASSUME NEW c \in Clients, Cascade(c) PROVE ResetInv'
  <2>1. CASE pg[target[c]] = None
    BY <1>a, <1>12, <2>1 DEF Cascade, Replies, TypeOK, None
  <2>2. CASE pg[target[c]] # None
    <3> DEFINE dead == Later(target[c])
    <3>1. /\ pg' = [r \in Runs |-> IF r \in dead THEN None ELSE pg[r]]
          /\ snap' = snap \ dead /\ pgSig' \subseteq pgSig
          /\ cpc[c] = "cascade" /\ cpc' = [cpc EXCEPT ![c] = "jobs"]
          /\ UNCHANGED <<jobVars, workerVars, kind, shaken>>
      BY <1>12, <2>2 DEF Cascade, Step
    <3> HIDE DEF dead
    <3> QED BY <1>a, <1>b, <3>1 DEF TypeOK, ClientsKnow
  <2> QED BY <2>1, <2>2
<1>13. ASSUME NEW c \in Clients, NEW r \in Runs, Dequeue(c, r) PROVE ResetInv'
  BY <1>a, <1>13 DEF Dequeue, TypeOK
<1>14. ASSUME NEW c \in Clients, NEW r \in Runs, Onward(c, todo[c] \ {r}),
              cpc[c] \in {"jobs", "drop"}, job' = job \/ job' = [job EXCEPT ![r] = None],
              UNCHANGED <<stores, workerVars, histVars>>
       PROVE ResetInv'
  <2>1. /\ \A d \in Clients \ {c} : kind'[d] = kind[d] /\ cpc'[d] = cpc[d]
        /\ kind'[c] \in {kind[c], None} /\ cpc'[c] \in {"idle", "jobs", "list", "rest"}
    BY <1>a, <1>14, OnwardCases DEF TypeOK
  <2>2. \A s \in Runs : job[s] = None => job'[s] = None
    BY <1>a, <1>14 DEF TypeOK
  <2> QED BY <1>14, <2>1, <2>2 DEF None
<1>15. ASSUME NEW c \in Clients, Drop(c) PROVE ResetInv'
  BY <1>a, <1>14, <1>15 DEF Drop, ClientsKnow
<1>16. ASSUME NEW c \in Clients, NEW r \in Runs, Skip(c, r) PROVE ResetInv'
  BY <1>a, <1>14, <1>16 DEF Skip
<1>17. ASSUME NEW c \in Clients, Signals(c) PROVE ResetInv'
  BY <1>a, <1>17 DEF Signals, Step, TypeOK, ClientsKnow
<1>18. ASSUME NEW c \in Clients, Rest(c) PROVE ResetInv'
  <2>1. \A r \in Runs : job[r] = None => job'[r] = None
    BY <1>18 DEF Rest, Stale, None
  <2> QED BY <1>a, <1>18, <2>1 DEF Rest, Step, TypeOK
<1>19. ASSUME NEW c \in Clients, Wipe(c) PROVE ResetInv'
  BY <1>a, <1>19 DEF Wipe, Replies, TypeOK, None
<1>20. CASE UNCHANGED vars
  BY <1>20 DEF vars
<1> HIDE DEF ResetInv
<1> QED
  BY <1>1, <1>2, <1>3, <1>5, <1>6, <1>7, <1>8, <1>9, <1>10, <1>11, <1>12, <1>13, <1>15,
     <1>16, <1>17, <1>18, <1>19, <1>20 DEF Next, Work, Serve

\* Only the last step of a reset leaves SQLite to the next request.
LEMMA OnlyWipe ==
  ASSUME Known, [Next]_vars, NEW c \in Clients, cpc[c] = "sqlite", cpc'[c] = "idle"
  PROVE  Wipe(c)
<1>a. TypeOK
  BY DEF Known
<1>1. ASSUME NEW d \in Clients, cpc[d] # "sqlite", \E to : cpc' = [cpc EXCEPT ![d] = to]
      PROVE FALSE
  BY <1>a, <1>1 DEF TypeOK
<1>2. ASSUME NEW d \in Clients, NEW r \in Runs,
             Get(d, r) \/ Look(d, r) \/ Remove(d, r) \/ Dequeue(d, r)
      PROVE FALSE
  BY <1>1, <1>2 DEF Get, Look, Remove, Dequeue, Step
<1>3. ASSUME NEW d \in Clients, NEW left, cpc[d] \in {"jobs", "drop"}, Onward(d, left)
      PROVE FALSE
  BY <1>1, <1>3, OnwardCases
<1>4. ASSUME NEW d \in Clients, Status(d) \/ Expire(d) \/ Expires(d) \/ Mark(d) PROVE FALSE
  <2>1. cpc[d] # "sqlite" /\ \E to : cpc' = [cpc EXCEPT ![d] = to]
    BY <1>4 DEF Status, Expire, Expires, Mark, Step, Replies
  <2> QED BY <1>1, <2>1
<1>5. ASSUME NEW d \in Clients, Reset(d) \/ List(d) PROVE FALSE
  BY <1>1, <1>5 DEF Reset, List, Step
<1>6. ASSUME NEW d \in Clients, Cascade(d) PROVE FALSE
  <2>1. cpc[d] = "cascade" /\ \E to : cpc' = [cpc EXCEPT ![d] = to]
    BY <1>6 DEF Cascade, Step, Replies
  <2> QED BY <1>1, <2>1
<1>7. ASSUME NEW d \in Clients, Signals(d) \/ Rest(d) PROVE FALSE
  BY <1>1, <1>7 DEF Signals, Rest, Step
<1>8. ASSUME NEW d \in Clients, Drop(d) \/ \E r \in Runs : Skip(d, r) PROVE FALSE
  <2>1. cpc[d] \in {"jobs", "drop"} /\ \E left : Onward(d, left)
    BY <1>8 DEF Drop, Skip
  <2> QED BY <1>3, <2>1
<1>9. ASSUME NEW d \in Clients, Wipe(d) PROVE d = c
  BY <1>a, <1>9 DEF Wipe, Replies, TypeOK
<1> QED BY <1>2, <1>4, <1>5, <1>6, <1>7, <1>8, <1>9, ClientSteps DEF clientVars

\* A reset that nobody disturbs leaves no run, record, signal or snapshot in
\* Postgres and SQLite, and in BullMQ only jobs that were active or at work when
\* their run or record was deleted (ResearchRunsService.removeWorkspaceData).
THEOREM ResetLeaves == Spec => ResetEmptiesStores
<1>1. ASSUME Known, ResetInv, DeletedInv, [Next]_vars, NEW c \in Clients,
             cpc[c] = "sqlite", cpc'[c] = "idle", c \notin shaken
      PROVE  /\ \A r \in Runs : /\ pg'[r] = None /\ job'[r] = None /\ lite'[r] = None
                                /\ queue'[r] # None => r \in loose
             /\ snap' = {} /\ pgSig' = {} /\ liteSig' = {}
  <2>1. Wipe(c)
    BY <1>1, OnlyWipe
  <2>2. c \in Resetting \ shaken /\ kind[c] = "rest"
    BY <1>1 DEF Known, ClientsKnow, Resetting
  <2>3. /\ \A r \in Runs : pg[r] = None /\ job[r] = None
        /\ snap = {} /\ pgSig = {}
    BY <1>1, <2>2 DEF ResetInv, Shown
  <2>4. \A r \in Runs : queue[r] # None => r \in loose
    BY <1>1, <2>3 DEF DeletedInv, InBull
  <2> QED BY <2>1, <2>3, <2>4 DEF Wipe, jobVars
<1>2. Known /\ ResetInv /\ DeletedInv /\ [Next]_vars =>
        \A c \in Clients :
          cpc[c] = "sqlite" /\ cpc'[c] = "idle" /\ c \notin shaken =>
            /\ \A r \in Runs : /\ pg'[r] = None /\ job'[r] = None /\ lite'[r] = None
                               /\ queue'[r] # None => r \in loose
            /\ snap' = {} /\ pgSig' = {} /\ liteSig' = {}
  BY <1>1
<1> QED BY <1>2, KnownHolds, ResetInit, ResetNext, DeletedInit, DeletedNext, PTL
        DEF Spec, ResetEmptiesStores
=============================================================================
