-------------------------- MODULE MemoryJobsProofs --------------------------
(***************************************************************************)
(* Theorems about MemoryJobs, for any number of runs and requests.         *)
(***************************************************************************)
EXTENDS MemoryJobs, SequenceTheorems, TLAPS

\* The patches turn a record into a record of the status they name.
LEMMA PatchType ==
  /\ Created \in Record
  /\ \A r \in Record :
       /\ MarkRunning(r) \in Record /\ MarkRunning(r).status = "running"
       /\ Heartbeat(r) \in Record /\ Heartbeat(r).status = r.status
       /\ MarkCompleted(r) \in Record /\ MarkCompleted(r).status = "completed"
       /\ MarkFailed(r) \in Record /\ MarkFailed(r).status = "failed"
       /\ MarkTimedOut(r) \in Record /\ MarkTimedOut(r).status = "timed_out"
       /\ MarkCancelled(r) \in Record /\ MarkCancelled(r).status = "cancelled"
       /\ RequestCancellation(r.status, r) \in Record
       /\ r.status # "queued" => RequestCancellation(r.status, r).status = r.status
       /\ Aged(r) \in Record /\ Aged(r).status = r.status
<1> USE DEF Record, Statuses, Beats
<1>1. Created \in Record BY DEF Created
<1>2. ASSUME NEW r \in Record
      PROVE  /\ MarkRunning(r) \in Record /\ MarkRunning(r).status = "running"
             /\ Heartbeat(r) \in Record /\ Heartbeat(r).status = r.status
             /\ MarkCompleted(r) \in Record /\ MarkCompleted(r).status = "completed"
             /\ MarkFailed(r) \in Record /\ MarkFailed(r).status = "failed"
  BY DEF MarkRunning, Heartbeat, MarkCompleted, MarkFailed
<1>3. ASSUME NEW r \in Record
      PROVE  /\ MarkTimedOut(r) \in Record /\ MarkTimedOut(r).status = "timed_out"
             /\ MarkCancelled(r) \in Record /\ MarkCancelled(r).status = "cancelled"
  BY DEF MarkTimedOut, MarkCancelled
<1>4. ASSUME NEW r \in Record
      PROVE  /\ RequestCancellation(r.status, r) \in Record
             /\ r.status # "queued" => RequestCancellation(r.status, r).status = r.status
  BY DEF RequestCancellation
<1>5. ASSUME NEW r \in Record
      PROVE  Aged(r) \in Record /\ Aged(r).status = r.status
  BY DEF Aged, NoRecord
<1>6. QED BY <1>1, <1>2, <1>3, <1>4, <1>5

LEMMA NoRecordStatus ==
  /\ NoRecord.status = "absent" /\ NoRecord \notin Record
  /\ Created.status = "queued" /\ ~Created.cancel /\ Created # NoRecord
  /\ \A r \in Record : r # NoRecord /\ r.status \in Statuses
  /\ "absent" \notin Statuses
BY DEF NoRecord, Record, Created, Statuses

\* A queue without its k-th entry.
LEMMA WithoutAt ==
  ASSUME NEW before \in Seq(Runs), NEW k \in 1..Len(before), NEW after,
         after = SubSeq(before, 1, k - 1) \o SubSeq(before, k + 1, Len(before))
  PROVE  /\ after \in Seq(Runs) /\ Len(after) = Len(before) - 1
         /\ \A j \in 1..(Len(before) - 1) :
              after[j] = before[IF j <= k - 1 THEN j ELSE j + 1]
<1>1. Len(before) \in Nat /\ \A i \in 1..Len(before) : before[i] \in Runs
  BY ElementOfSeq, LenProperties
<1>. DEFINE left == SubSeq(before, 1, k - 1)
            right == SubSeq(before, k + 1, Len(before))
<1>2. /\ left \in Seq(Runs) /\ Len(left) = k - 1
      /\ \A i \in 1..(k - 1) : left[i] = before[i]
  <2>1. \A i \in 1..(k - 1) : before[i] \in Runs BY <1>1
  <2>2. QED BY <2>1, <1>1, SubSeqProperties
<1>3. /\ right \in Seq(Runs) /\ Len(right) = Len(before) - k
      /\ \A i \in 1..(Len(before) - k) : right[i] = before[k + i]
  <2>1. \A i \in (k + 1)..Len(before) : before[i] \in Runs BY <1>1
  <2>2. /\ right \in Seq(Runs)
        /\ Len(right) = IF k + 1 <= Len(before) THEN Len(before) - (k + 1) + 1 ELSE 0
        /\ \A i \in 1..(Len(before) - (k + 1) + 1) : right[i] = before[(k + 1) + i - 1]
    BY <2>1, <1>1, SubSeqProperties
  <2>3. QED BY <2>2, <1>1
<1>4. after = left \o right OBVIOUS
<1>. HIDE DEF left, right
<1>5. /\ after \in Seq(Runs) /\ Len(after) = Len(before) - 1
      /\ \A j \in 1..(Len(before) - 1) :
           after[j] = IF j <= k - 1 THEN left[j] ELSE right[j - (k - 1)]
  <2>1. left \in Seq(Runs) /\ right \in Seq(Runs) BY <1>2, <1>3
  <2>2. /\ left \o right \in Seq(Runs)
        /\ Len(left \o right) = Len(left) + Len(right)
        /\ \A j \in 1..(Len(left) + Len(right)) :
             (left \o right)[j]
               = IF j <= Len(left) THEN left[j] ELSE right[j - Len(left)]
    BY ONLY <2>1, ConcatProperties
  <2>3. Len(left) + Len(right) = Len(before) - 1 BY <1>1, <1>2, <1>3
  <2>4. Len(left) = k - 1 BY <1>2
  <2>5. QED BY ONLY <1>4, <2>2, <2>3, <2>4
<1>6. ASSUME NEW j \in 1..(Len(before) - 1), j <= k - 1 PROVE after[j] = before[j]
  <2>1. j \in 1..(k - 1) BY <1>6, <1>1
  <2>2. QED BY <1>2, <1>5, <1>6, <2>1
<1>7. ASSUME NEW j \in 1..(Len(before) - 1), ~(j <= k - 1)
      PROVE  after[j] = before[j + 1]
  <2>1. j - (k - 1) \in 1..(Len(before) - k) /\ k + (j - (k - 1)) = j + 1
    BY <1>7, <1>1
  <2>2. after[j] = right[j - (k - 1)] BY <1>5, <1>7
  <2>3. right[j - (k - 1)] = before[k + (j - (k - 1))] BY <1>3, <2>1
  <2>4. QED BY <2>1, <2>2, <2>3
<1>8. QED BY <1>5, <1>6, <1>7

\* What leaves a queue: nothing else leaves it, and nothing enters.
LEMMA DropsProperties ==
  ASSUME NEW before \in Seq(Runs), NEW r \in Runs, NEW after,
         Contract!Drops(before, r, after)
  PROVE  /\ after \in Seq(Runs)
         /\ \A j \in 1..Len(after) : \E i \in 1..Len(before) : after[j] = before[i]
         /\ \A i \in 1..Len(before) :
              before[i] # r => \E j \in 1..Len(after) : after[j] = before[i]
<1>1. CASE after = before BY <1>1
<1>2. CASE after # before
  <2>1. PICK k \in 1..Len(before) :
          /\ before[k] = r
          /\ after = SubSeq(before, 1, k - 1) \o SubSeq(before, k + 1, Len(before))
    BY <1>2 DEF Contract!Drops
  <2>2. /\ after \in Seq(Runs) /\ Len(after) = Len(before) - 1
        /\ \A j \in 1..(Len(before) - 1) :
             after[j] = before[IF j <= k - 1 THEN j ELSE j + 1]
    BY <2>1, WithoutAt
  <2>3. Len(before) \in Nat BY LenProperties
  <2>4. ASSUME NEW j \in 1..Len(after)
        PROVE  \E i \in 1..Len(before) : after[j] = before[i]
    <3>1. (IF j <= k - 1 THEN j ELSE j + 1) \in 1..Len(before) BY <2>2, <2>3
    <3>2. QED BY <2>2, <3>1
  <2>5. ASSUME NEW i \in 1..Len(before), before[i] # r
        PROVE  \E j \in 1..Len(after) : after[j] = before[i]
    <3>1. i # k BY <2>1, <2>5
    <3>2. CASE i < k
      <4>1. i \in 1..Len(after) /\ i <= k - 1 BY <3>2, <2>2, <2>3
      <4>2. QED BY <4>1, <2>2
    <3>3. CASE i > k
      <4>1. i - 1 \in 1..Len(after) /\ ~(i - 1 <= k - 1) /\ (i - 1) + 1 = i
        BY <3>3, <2>2, <2>3
      <4>2. after[i - 1] = before[(i - 1) + 1] BY <4>1, <2>2
      <4>3. QED BY <4>1, <4>2
    <3>4. QED BY <3>1, <3>2, <3>3, <2>3
  <2>6. QED BY <2>2, <2>4, <2>5
<1>3. QED BY <1>1, <1>2

LEMMA FetchedType ==
  ASSUME TypeOK, NEW r \in Runs
  PROVE  /\ Fetched(r) \in Record /\ MarkRunning(Fetched(r)) \in Record
         /\ MarkCancelled(Fetched(r)) \in Record
         /\ MarkRunning(Fetched(r)).status = "running"
         /\ MarkCancelled(Fetched(r)).status = "cancelled"
BY PatchType DEF Fetched, TypeOK

\* Storing a record changes that record only.
LEMMA StoresProperties ==
  ASSUME TypeOK, NEW r \in Runs, NEW next \in Record \cup {NoRecord},
         Stores(r, next)
  PROVE  /\ rec' \in [Runs -> Record \cup {NoRecord}]
         /\ rec'[r] = next
         /\ \A q \in Runs \ {r} : rec'[q] = rec[q]
BY DEF TypeOK, Stores

\* So does an update, which finds a record or does nothing.
LEMMA UpdatesProperties ==
  ASSUME TypeOK, NEW r \in Runs, NEW next, Updates(r, next),
         rec[r] \in Record => next \in Record
  PROVE  /\ rec' \in [Runs -> Record \cup {NoRecord}]
         /\ \A q \in Runs \ {r} : rec'[q] = rec[q]
         /\ rec[r] = NoRecord => rec'[r] = NoRecord
         /\ rec[r] # NoRecord => rec[r] \in Record /\ rec'[r] = next
<1>1. CASE rec[r] = NoRecord BY <1>1, StoresProperties DEF Updates
<1>2. CASE rec[r] # NoRecord
  <2>1. rec[r] \in Record BY <1>2 DEF TypeOK
  <2>2. QED BY <1>2, <2>1, StoresProperties DEF Updates
<1>3. QED BY <1>1, <1>2

\* What the end of an engine leaves.
LEMMA EndsProperties ==
  ASSUME TypeOK, EngineEnds
  PROVE  /\ current \in Runs
         /\ rec' \in [Runs -> Record \cup {NoRecord}]
         /\ \A q \in Runs \ {current} : rec'[q] = rec[q]
         /\ rec[current] = NoRecord => rec'[current] = NoRecord
         /\ rec[current] # NoRecord =>
              rec'[current].status \in {"completed", "failed", "cancelled", "timed_out"}
<1>1. current \in Runs BY DEF EngineEnds, TypeOK
<1>2. CASE Updates(current, MarkCompleted(rec[current]))
  BY <1>1, <1>2, PatchType, UpdatesProperties
<1>3. CASE Updates(current, MarkFailed(rec[current]))
  BY <1>1, <1>3, PatchType, UpdatesProperties
<1>4. CASE Updates(current, MarkCancelled(rec[current]))
  BY <1>1, <1>4, PatchType, UpdatesProperties
<1>5. CASE Updates(current, MarkTimedOut(rec[current]))
  BY <1>1, <1>5, PatchType, UpdatesProperties
<1>6. QED BY <1>1, <1>2, <1>3, <1>4, <1>5 DEF EngineEnds

\* What an iteration of the loop leaves.
LEMMA ShiftProperties ==
  ASSUME TypeOK, NEW r \in Runs, Shift(r)
  PROVE  /\ rec' \in [Runs -> Record \cup {NoRecord}]
         /\ \A q \in Runs \ {r} : rec'[q] = rec[q]
         /\ \/ Fetched(r).cancel /\ rec'[r] = MarkCancelled(Fetched(r))
               /\ rec'[r].status = "cancelled" /\ current' = current
            \/ ~Fetched(r).cancel /\ rec'[r] = MarkRunning(Fetched(r))
               /\ rec'[r].status = "running" /\ current' = r
<1>1. CASE Fetched(r).cancel
  <2>1. Stores(r, MarkCancelled(Fetched(r))) /\ current' = current
    BY <1>1 DEF Shift
  <2>2. QED BY <1>1, <2>1, FetchedType, StoresProperties
<1>2. CASE ~Fetched(r).cancel
  <2>1. Stores(r, MarkRunning(Fetched(r))) /\ current' = r
    BY <1>2 DEF Shift
  <2>2. QED BY <1>2, <2>1, FetchedType, StoresProperties
<1>3. QED BY <1>1, <1>2

\* What a cancellation leaves.
LEMMA CancelProperties ==
  ASSUME TypeOK, NEW r \in Runs, Cancel(r)
  PROVE  /\ rec' \in [Runs -> Record \cup {NoRecord}]
         /\ \A q \in Runs \ {r} : rec'[q] = rec[q]
         /\ \/ /\ rec[r].status = "queued" /\ rec'[r].status = "cancelled"
               /\ Contract!Drops(line, r, line')
            \/ /\ rec[r].status # "queued" /\ rec'[r].status = rec[r].status
               /\ line' = line
<1>1. rec[r] \in Record BY DEF Cancel, TypeOK
<1>2. CASE rec[r].status = "queued"
  <2>1. Stores(r, MarkCancelled(rec[r])) /\ Contract!Drops(line, r, line')
    BY <1>2 DEF Cancel
  <2>2. QED BY <1>1, <1>2, <2>1, PatchType, StoresProperties
<1>3. CASE rec[r].status # "queued"
  <2>1. Stores(r, RequestCancellation(rec[r].status, rec[r])) /\ line' = line
    BY <1>3 DEF Cancel
  <2>2. QED BY <1>1, <1>3, <2>1, PatchType, StoresProperties
<1>4. QED BY <1>2, <1>3

LEMMA MemTypeInit == Init => TypeOK
<1> SUFFICES ASSUME Init PROVE TypeOK OBVIOUS
<1>1. line \in Seq(Runs) BY EmptySeq DEF Init
<1>2. rec \in [Runs -> Record \cup {NoRecord}] BY DEF Init
<1>3. QED BY <1>1, <1>2 DEF Init, TypeOK

LEMMA MemTypeStep == TypeOK /\ [Next]_vars => TypeOK'
<1> SUFFICES ASSUME TypeOK, [Next]_vars PROVE TypeOK' OBVIOUS
<1> USE PatchType DEF TypeOK, Stores, Updates, jobVars, loopVars, postVars
<1>1. ASSUME NEW r \in Runs, Find(r) PROVE TypeOK' BY <1>1 DEF Find
<1>2. ASSUME NEW r \in Runs, Enqueue(r) PROVE TypeOK'
  <2>1. Append(line, r) \in Seq(Runs) OBVIOUS
  <2>2. QED BY <1>2, <2>1 DEF Enqueue
<1>3. ASSUME NEW r \in Runs, Shift(r) PROVE TypeOK'
  <2>1. line' \in Seq(Runs) BY <1>3, HeadTailProperties DEF Shift
  <2>2. UNCHANGED <<processing, wakeups, reason, postVars, destroyed>>
    BY <1>3 DEF Shift
  <2>3. QED BY <1>3, <2>1, <2>2, ShiftProperties
<1>4. ASSUME NEW r \in Runs, Cancel(r) PROVE TypeOK'
  <2>1. line' \in Seq(Runs) BY <1>4, CancelProperties, DropsProperties
  <2>2. UNCHANGED <<loopVars, postVars, destroyed>> BY <1>4 DEF Cancel
  <2>3. QED BY <1>4, <2>1, <2>2, CancelProperties
<1>5. ASSUME NEW r \in Runs, Remove(r) PROVE TypeOK'
  <2>1. line' \in Seq(Runs) BY <1>5, DropsProperties DEF Remove
  <2>2. QED BY <1>5, <2>1 DEF Remove
<1>6. ASSUME NEW r \in Runs, Poll(r) PROVE TypeOK' BY <1>6 DEF Poll
<1>7. ASSUME NEW r \in Runs, GrowsStale(r) PROVE TypeOK' BY <1>7 DEF GrowsStale
<1>8. CASE Wake BY <1>8 DEF Wake
<1>9. CASE Leave BY <1>9 DEF Leave
<1>10. CASE TimeoutFires BY <1>10 DEF TimeoutFires
<1>11. CASE WatchAborts BY <1>11 DEF WatchAborts
<1>12. CASE EngineEnds
  <2>1. /\ current' = None /\ reason' = "none"
        /\ UNCHANGED <<line, processing, wakeups, postVars, destroyed>>
    BY <1>12 DEF EngineEnds
  <2>2. QED BY <1>12, <2>1, EndsProperties
<1>13. CASE Beat BY <1>13 DEF Beat
<1>14. CASE Destroy BY <1>14 DEF Destroy
<1>15. CASE UNCHANGED vars BY <1>15 DEF vars
<1>16. QED BY <1>1, <1>2, <1>3, <1>4, <1>5, <1>6, <1>7, <1>8, <1>9, <1>10, <1>11,
          <1>12, <1>13, <1>14, <1>15 DEF Next

\* Every variable keeps its type.
THEOREM MemTypeCorrect == Spec => []TypeOK
BY MemTypeInit, MemTypeStep, PTL DEF Spec

-----------------------------------------------------------------------------
\* What wakes the loop is never lost.
LEMMA AwakeStep == TypeOK /\ Awake /\ [Next]_vars => Awake'
<1> SUFFICES ASSUME TypeOK, Awake, [Next]_vars PROVE Awake' OBVIOUS
<1> USE DEF TypeOK, Awake, jobVars, loopVars, postVars
<1>1. ASSUME NEW r \in Runs, Find(r) \/ Poll(r) \/ GrowsStale(r) PROVE Awake'
  BY <1>1 DEF Find, Poll, GrowsStale
<1>2. ASSUME NEW r \in Runs, Enqueue(r) PROVE Awake' BY <1>2 DEF Enqueue
<1>3. ASSUME NEW r \in Runs, Shift(r) PROVE Awake' BY <1>3 DEF Shift
<1>4. ASSUME NEW r \in Runs, Cancel(r) \/ Remove(r) PROVE Awake'
  <2>1. line = <<>> => line' = <<>>
    <3>1. Contract!Drops(line, r, line') \/ line' = line
      BY <1>4 DEF Cancel, Remove
    <3>2. line \in Seq(Runs) OBVIOUS
    <3>3. CASE Contract!Drops(line, r, line')
      BY <3>2, <3>3 DEF Contract!Drops
    <3>4. QED BY <3>1, <3>3
  <2>2. UNCHANGED <<processing, wakeups, destroyed>> BY <1>4 DEF Cancel, Remove
  <2>3. QED BY <2>1, <2>2
<1>5. CASE Wake BY <1>5 DEF Wake
<1>6. CASE Leave BY <1>6 DEF Leave
<1>7. CASE TimeoutFires \/ WatchAborts \/ EngineEnds \/ Beat
  BY <1>7 DEF TimeoutFires, WatchAborts, EngineEnds, Beat
<1>8. CASE Destroy BY <1>8 DEF Destroy
<1>9. CASE UNCHANGED vars BY <1>9 DEF vars
<1>10. QED BY <1>1, <1>2, <1>3, <1>4, <1>5, <1>6, <1>7, <1>8, <1>9 DEF Next

\* AwakeHolds: no request is ever left in the queue with nobody to look at it.
THEOREM AwakeHolds == Spec => []Awake
<1>1. Init => Awake BY DEF Init, Awake
<1>2. QED BY <1>1, AwakeStep, MemTypeCorrect, PTL DEF Spec

-----------------------------------------------------------------------------
\* A step that leaves the queue alone and makes no record queued.
LEMMA QueuedKept ==
  ASSUME TypeOK, QueuedIsWaiting, line' = line, destroyed' = destroyed,
         \A r \in Runs : rec'[r].status = "queued" => rec[r].status = "queued"
  PROVE  QueuedIsWaiting'
BY DEF QueuedIsWaiting, Waiting

\* The same when the first request for r leaves the queue, and r is not queued.
LEMMA QueuedDropped ==
  ASSUME TypeOK, QueuedIsWaiting, destroyed' = destroyed, NEW r \in Runs,
         Contract!Drops(line, r, line'), rec'[r].status # "queued",
         \A q \in Runs \ {r} : rec'[q] = rec[q]
  PROVE  QueuedIsWaiting'
<1>1. SUFFICES ASSUME ~destroyed', NEW q \in Runs, rec'[q].status = "queued"
               PROVE  Waiting(q)'
  BY DEF QueuedIsWaiting
<1>2. q # r /\ Waiting(q) BY <1>1 DEF QueuedIsWaiting
<1>3. PICK i \in 1..Len(line) : line[i] = q BY <1>2 DEF Waiting
<1>4. line \in Seq(Runs) /\ line[i] # r BY <1>2, <1>3 DEF TypeOK
<1>5. \E j \in 1..Len(line') : line'[j] = line[i] BY <1>4, DropsProperties
<1>6. QED BY <1>3, <1>5 DEF Waiting

LEMMA QueuedStep == TypeOK /\ QueuedIsWaiting /\ [Next]_vars => QueuedIsWaiting'
<1> SUFFICES ASSUME TypeOK, QueuedIsWaiting, [Next]_vars PROVE QueuedIsWaiting'
  OBVIOUS
<1> USE PatchType, NoRecordStatus DEF TypeOK, Stores, Updates, jobVars, loopVars,
        postVars
<1>1. ASSUME NEW r \in Runs, Find(r) PROVE QueuedIsWaiting'
  BY <1>1, QueuedKept DEF Find
<1>2. ASSUME NEW r \in Runs, Poll(r) PROVE QueuedIsWaiting'
  BY <1>2, QueuedKept DEF Poll
<1>3. ASSUME NEW r \in Runs, GrowsStale(r) PROVE QueuedIsWaiting'
  BY <1>3, QueuedKept DEF GrowsStale
<1>4. ASSUME NEW r \in Runs, Enqueue(r) PROVE QueuedIsWaiting'
  <2>1. SUFFICES ASSUME ~destroyed', NEW q \in Runs, rec'[q].status = "queued"
                 PROVE  Waiting(q)'
    BY DEF QueuedIsWaiting
  <2>2. /\ line' = Append(line, r) /\ destroyed' = destroyed
        /\ q # r => rec'[q] = rec[q]
    BY <1>4 DEF Enqueue
  <2>3. Len(line') = Len(line) + 1 /\ Len(line) \in Nat /\ line'[Len(line) + 1] = r
    BY <2>2
  <2>4. CASE q = r
    <3>1. Len(line) + 1 \in 1..Len(line') BY <2>3
    <3>2. QED BY <2>3, <2>4, <3>1 DEF Waiting
  <2>5. CASE q # r
    <3>1. PICK i \in 1..Len(line) : line[i] = q
      BY <2>1, <2>2, <2>5 DEF QueuedIsWaiting, Waiting
    <3>2. line'[i] = q /\ i \in 1..Len(line') BY <2>2, <2>3, <3>1
    <3>3. QED BY <3>2 DEF Waiting
  <2>6. QED BY <2>4, <2>5
<1>5. ASSUME NEW r \in Runs, Shift(r) PROVE QueuedIsWaiting'
  <2>1. SUFFICES ASSUME ~destroyed', NEW q \in Runs, rec'[q].status = "queued"
                 PROVE  Waiting(q)'
    BY DEF QueuedIsWaiting
  <2>2. rec'[r].status # "queued" /\ (q # r => rec'[q] = rec[q])
    BY <1>5, FetchedType DEF Shift
  <2>3. line # <<>> /\ r = Head(line) /\ line' = Tail(line) /\ destroyed' = destroyed
    BY <1>5 DEF Shift
  <2>4. PICK i \in 1..Len(line) : line[i] = q
    BY <2>1, <2>2, <2>3 DEF QueuedIsWaiting, Waiting
  <2>5. line[1] = r BY <2>3
  <2>6. i # 1 BY <2>1, <2>2, <2>4, <2>5
  <2>7. Len(line') = Len(line) - 1 /\ \A j \in 1..Len(line') : line'[j] = line[j + 1]
    BY <2>3, HeadTailProperties
  <2>8. Len(line) \in Nat BY LenProperties
  <2>9. i - 1 \in 1..Len(line') BY <2>4, <2>6, <2>7, <2>8
  <2>10. line'[i - 1] = line[(i - 1) + 1] /\ (i - 1) + 1 = i
    BY <2>4, <2>7, <2>8, <2>9
  <2>11. QED BY <2>4, <2>9, <2>10 DEF Waiting
<1>6. ASSUME NEW r \in Runs, Cancel(r) PROVE QueuedIsWaiting'
  <2>1. CASE rec[r].status = "queued"
    <3>1. /\ Contract!Drops(line, r, line')
          /\ rec'[r].status # "queued" /\ \A q \in Runs \ {r} : rec'[q] = rec[q]
      BY <1>6, <2>1, CancelProperties
    <3>2. destroyed' = destroyed BY <1>6 DEF Cancel
    <3>3. QED BY <3>1, <3>2, QueuedDropped
  <2>2. CASE rec[r].status # "queued"
    <3>1. line' = line /\ rec'[r].status = rec[r].status
      BY <1>6, <2>2, CancelProperties
    <3>2. destroyed' = destroyed BY <1>6 DEF Cancel
    <3>3. ASSUME NEW q \in Runs, rec'[q].status = "queued"
          PROVE  rec[q].status = "queued"
      <4>1. CASE q = r BY <3>1, <3>3, <4>1
      <4>2. CASE q # r BY <1>6, <3>3, <4>2, CancelProperties
      <4>3. QED BY <4>1, <4>2
    <3>4. QED BY <3>1, <3>2, <3>3, QueuedKept
  <2>3. QED BY <2>1, <2>2
<1>7. ASSUME NEW r \in Runs, Remove(r) PROVE QueuedIsWaiting'
  <2>1. /\ Contract!Drops(line, r, line') /\ destroyed' = destroyed
        /\ rec'[r].status # "queued" /\ \A q \in Runs \ {r} : rec'[q] = rec[q]
    BY <1>7 DEF Remove
  <2>2. QED BY <2>1, QueuedDropped
<1>8. CASE Wake BY <1>8, QueuedKept DEF Wake
<1>9. CASE Leave BY <1>9, QueuedKept DEF Leave
<1>10. CASE TimeoutFires BY <1>10, QueuedKept DEF TimeoutFires
<1>11. CASE WatchAborts BY <1>11, QueuedKept DEF WatchAborts
<1>12. CASE EngineEnds
  <2>1. line' = line /\ destroyed' = destroyed BY <1>12 DEF EngineEnds
  <2>2. /\ \A q \in Runs \ {current} : rec'[q] = rec[q]
        /\ rec'[current].status # "queued"
    BY <1>12, EndsProperties
  <2>3. QED BY <2>1, <2>2, QueuedKept
<1>13. CASE Beat BY <1>13, QueuedKept DEF Beat
<1>14. CASE Destroy BY <1>14 DEF Destroy, QueuedIsWaiting
<1>15. CASE UNCHANGED vars BY <1>15, QueuedKept DEF vars
<1>16. QED BY <1>1, <1>2, <1>3, <1>4, <1>5, <1>6, <1>7, <1>8, <1>9, <1>10, <1>11,
          <1>12, <1>13, <1>14, <1>15 DEF Next

\* QueuedIsWaitingHolds: a run reported queued always has a request in the queue.
THEOREM QueuedIsWaitingHolds == Spec => []QueuedIsWaiting
<1>1. Init => QueuedIsWaiting BY NoRecordStatus DEF Init, QueuedIsWaiting
<1>2. QED BY <1>1, QueuedStep, MemTypeCorrect, PTL DEF Spec

-----------------------------------------------------------------------------
\* The strengthening of RunningIsCurrent: an engine runs only inside the loop.
RunningInv == RunningIsCurrent /\ (current # None => processing)

LEMMA RunningStep == TypeOK /\ RunningInv /\ [Next]_vars => RunningInv'
<1> SUFFICES ASSUME TypeOK, RunningInv, [Next]_vars PROVE RunningInv' OBVIOUS
<1> USE PatchType, NoRecordStatus, MemoryAssumption
    DEF TypeOK, RunningInv, RunningIsCurrent, Stores, Updates, jobVars, loopVars,
        postVars
<1>1. ASSUME NEW r \in Runs, Find(r) PROVE RunningInv' BY <1>1 DEF Find
<1>2. ASSUME NEW r \in Runs, Poll(r) PROVE RunningInv' BY <1>2 DEF Poll
<1>3. ASSUME NEW r \in Runs, GrowsStale(r) PROVE RunningInv' BY <1>3 DEF GrowsStale
<1>4. ASSUME NEW r \in Runs, Enqueue(r) PROVE RunningInv' BY <1>4 DEF Enqueue
<1>5. ASSUME NEW r \in Runs, Shift(r) PROVE RunningInv'
  BY <1>5, FetchedType DEF Shift
<1>6. ASSUME NEW r \in Runs, Cancel(r) PROVE RunningInv'
  <2>1. UNCHANGED <<processing, current>> BY <1>6 DEF Cancel
  <2>2. ASSUME NEW q \in Runs, rec'[q].status = "running"
        PROVE  rec[q].status = "running"
    <3>1. CASE q = r BY <1>6, <2>2, <3>1, CancelProperties
    <3>2. CASE q # r BY <1>6, <2>2, <3>2, CancelProperties
    <3>3. QED BY <3>1, <3>2
  <2>3. QED BY <2>1, <2>2
<1>7. ASSUME NEW r \in Runs, Remove(r) PROVE RunningInv' BY <1>7 DEF Remove
<1>8. CASE Wake BY <1>8 DEF Wake
<1>9. CASE Leave BY <1>9 DEF Leave
<1>10. CASE TimeoutFires BY <1>10 DEF TimeoutFires
<1>11. CASE WatchAborts BY <1>11 DEF WatchAborts
<1>12. CASE EngineEnds
  <2>1. /\ current' = None
        /\ \A q \in Runs \ {current} : rec'[q] = rec[q]
        /\ rec'[current].status # "running"
    BY <1>12, EndsProperties DEF EngineEnds
  <2>2. ASSUME NEW q \in Runs, rec'[q].status = "running" PROVE FALSE
    <3>1. q # current /\ rec'[q] = rec[q] BY <2>1, <2>2
    <3>2. QED BY <2>2, <3>1
  <2>3. QED BY <2>1, <2>2
<1>13. CASE Beat BY <1>13 DEF Beat
<1>14. CASE Destroy BY <1>14 DEF Destroy
<1>15. CASE UNCHANGED vars BY <1>15 DEF vars
<1>16. QED BY <1>1, <1>2, <1>3, <1>4, <1>5, <1>6, <1>7, <1>8, <1>9, <1>10, <1>11,
          <1>12, <1>13, <1>14, <1>15 DEF Next

\* RunningIsCurrentHolds: reconciliation never takes a live job for an orphan.
THEOREM RunningIsCurrentHolds == Spec => []RunningIsCurrent
<1>1. Init => RunningInv BY NoRecordStatus DEF Init, RunningInv, RunningIsCurrent
<1>2. RunningInv => RunningIsCurrent BY DEF RunningInv
<1>3. QED BY <1>1, <1>2, RunningStep, MemTypeCorrect, PTL DEF Spec

\* The three together: whatever a record promises, there is somebody to keep it.
THEOREM RecordsAreServedAlways == Spec => []RecordsAreServed
<1>1. Awake /\ QueuedIsWaiting /\ RunningIsCurrent => RecordsAreServed
  BY DEF RecordsAreServed
<1>2. QED BY <1>1, AwakeHolds, QueuedIsWaitingHolds, RunningIsCurrentHolds, PTL

-----------------------------------------------------------------------------
(* The contract, where every run is posted once, none is deleted and the    *)
(* heart-beat timer is fast enough.                                         *)

Distinct(q) == \A i, j \in 1..Len(q) : q[i] = q[j] => i = j

\* A queue without duplicates: the dropped run is gone, the others stay distinct.
LEMMA DropsDistinct ==
  ASSUME NEW before \in Seq(Runs), NEW r \in Runs, NEW after,
         Contract!Drops(before, r, after), Distinct(before)
  PROVE  Distinct(after) /\ \A j \in 1..Len(after) : after[j] # r
<1>1. CASE after = before /\ \A i \in 1..Len(before) : before[i] # r BY <1>1
<1>2. CASE \E k \in 1..Len(before) :
             /\ before[k] = r
             /\ after = SubSeq(before, 1, k - 1) \o SubSeq(before, k + 1, Len(before))
  <2>1. PICK k \in 1..Len(before) :
          /\ before[k] = r
          /\ after = SubSeq(before, 1, k - 1) \o SubSeq(before, k + 1, Len(before))
    BY <1>2
  <2>2. Len(before) \in Nat BY LenProperties
  <2>3. /\ Len(after) = Len(before) - 1
        /\ \A j \in 1..(Len(before) - 1) :
             after[j] = before[IF j <= k - 1 THEN j ELSE j + 1]
    BY <2>1, WithoutAt
  <2>4. Distinct(after)
    <3>1. SUFFICES ASSUME NEW i \in 1..Len(after), NEW j \in 1..Len(after),
                          after[i] = after[j]
                   PROVE  i = j
      BY DEF Distinct
    <3>. DEFINE m(x) == IF x <= k - 1 THEN x ELSE x + 1
    <3>2. m(i) \in 1..Len(before) /\ m(j) \in 1..Len(before) BY <2>2, <2>3
    <3>3. before[m(i)] = before[m(j)] BY <3>1, <2>3
    <3>4. m(i) = m(j) BY <3>2, <3>3 DEF Distinct
    <3>5. QED BY <3>4, <2>2, <2>3
  <2>5. ASSUME NEW j \in 1..Len(after) PROVE after[j] # r
    <3>. DEFINE m == IF j <= k - 1 THEN j ELSE j + 1
    <3>1. m \in 1..Len(before) /\ m # k BY <2>2, <2>3
    <3>2. after[j] = before[m] BY <2>3
    <3>3. before[m] # before[k] BY <3>1 DEF Distinct
    <3>4. QED BY <3>2, <3>3, <2>1
  <2>6. QED BY <2>4, <2>5
<1>3. QED BY <1>1, <1>2 DEF Contract!Drops

PostedOnce ==
  \A r \in Runs : /\ posting[r] <= posts[r] /\ posts[r] <= 1
                  /\ posting[r] > 0 => rec[r] = NoRecord
                  /\ rec[r] # NoRecord => posts[r] = 1
LineInv ==
  /\ Distinct(line)
  /\ \A i \in 1..Len(line) : /\ rec[line[i]].status = "queued"
                             /\ ~rec[line[i]].cancel
CurrentInv ==
  /\ RunningInv
  /\ current # None => rec[current].status = "running"
  /\ \A r \in Runs : rec[r].status = "running" => rec[r].beat = "fresh"
ContractInv == PostedOnce /\ LineInv /\ CurrentInv

\* No record is judged stale or orphaned.
LEMMA NoPoll ==
  ASSUME TypeOK, ContractInv, ~SlowBeats, NEW r \in Runs
  PROVE  ~Poll(r) /\ ~GrowsStale(r)
BY DEF ContractInv, CurrentInv, RunningInv, RunningIsCurrent, Poll, GrowsStale,
       HeartbeatStale, Orphaned

LEMMA PostedStep ==
  ASSUME TypeOK, ContractInv, MaxPosts = 1, ~Deletes, ~SlowBeats, Next
  PROVE  PostedOnce'
<1> USE DEF ContractInv, PostedOnce, TypeOK, jobVars, loopVars, postVars
<1>1. ASSUME NEW r \in Runs, Find(r) PROVE PostedOnce' BY <1>1 DEF Find
<1>2. ASSUME NEW r \in Runs, Enqueue(r) PROVE PostedOnce'
  <2>1. /\ posting' = [posting EXCEPT ![r] = @ - 1] /\ posts' = posts
        /\ posting[r] > 0
    BY <1>2 DEF Enqueue
  <2>2. \A q \in Runs \ {r} : rec'[q] = rec[q]
    BY <1>2, PatchType, StoresProperties DEF Enqueue
  <2>3. posting[r] = 1 /\ posts[r] = 1 BY <2>1
  <2>4. QED BY <2>1, <2>2, <2>3
<1>3. ASSUME NEW r \in Runs, Shift(r) PROVE PostedOnce'
  <2>1. rec[r] # NoRecord /\ UNCHANGED postVars
    <3>1. line # <<>> /\ r = Head(line) /\ UNCHANGED postVars BY <1>3 DEF Shift
    <3>2. 1 \in 1..Len(line) /\ line[1] = r BY <3>1
    <3>3. rec[r].status = "queued" BY <3>2 DEF LineInv
    <3>4. QED BY <3>1, <3>3, NoRecordStatus
  <2>2. QED BY <1>3, <2>1, ShiftProperties
<1>4. ASSUME NEW r \in Runs, Cancel(r) PROVE PostedOnce'
  <2>1. rec[r] # NoRecord /\ UNCHANGED postVars BY <1>4 DEF Cancel
  <2>2. QED BY <1>4, <2>1, CancelProperties
<1>5. ASSUME NEW r \in Runs, Remove(r) \/ Poll(r) \/ GrowsStale(r) PROVE FALSE
  BY <1>5, NoPoll DEF Remove
<1>6. CASE Wake \/ Leave \/ TimeoutFires \/ WatchAborts \/ Destroy
  BY <1>6 DEF Wake, Leave, TimeoutFires, WatchAborts, Destroy
<1>7. CASE EngineEnds
  <2>1. UNCHANGED postVars BY <1>7 DEF EngineEnds
  <2>2. QED BY <1>7, <2>1, EndsProperties
<1>8. CASE Beat
  <2>1. current \in Runs /\ UNCHANGED postVars BY <1>8 DEF Beat
  <2>2. \A q \in Runs : rec[q] = NoRecord => rec'[q] = NoRecord
    BY <1>8, <2>1, PatchType, UpdatesProperties DEF Beat
  <2>3. \A q \in Runs : rec'[q] # NoRecord => rec[q] # NoRecord BY <2>2
  <2>4. QED BY <2>1, <2>2, <2>3
<1>9. QED BY <1>1, <1>2, <1>3, <1>4, <1>5, <1>6, <1>7, <1>8 DEF Next

\* A step that changes no waiting record keeps LineInv, if the queue is kept.
LEMMA LineKept ==
  ASSUME TypeOK, LineInv, line' = line,
         \A r \in Runs : rec[r].status = "queued" => rec'[r] = rec[r]
  PROVE  LineInv'
<1>1. \A i \in 1..Len(line) : line[i] \in Runs BY ElementOfSeq DEF TypeOK
<1>2. QED BY <1>1 DEF LineInv, Distinct

LEMMA LineStep ==
  ASSUME TypeOK, ContractInv, MaxPosts = 1, ~Deletes, ~SlowBeats, Next
  PROVE  LineInv'
<1> USE DEF ContractInv, TypeOK, jobVars, loopVars, postVars
<1>0. /\ Len(line) \in Nat /\ \A i \in 1..Len(line) : line[i] \in Runs
  BY ElementOfSeq, LenProperties
<1>1. ASSUME NEW r \in Runs, Find(r) PROVE LineInv' BY <1>1, LineKept DEF Find
<1>2. ASSUME NEW r \in Runs, Enqueue(r) PROVE LineInv'
  <2>1. /\ rec'[r] = Created /\ \A q \in Runs \ {r} : rec'[q] = rec[q]
    BY <1>2, PatchType, StoresProperties DEF Enqueue
  <2>2. line' = Append(line, r) /\ rec[r] = NoRecord
    BY <1>2 DEF Enqueue, PostedOnce
  <2>3. \A i \in 1..Len(line) : line[i] # r
    BY <1>0, <2>2, NoRecordStatus DEF LineInv
  <2>4. /\ Len(line') = Len(line) + 1 /\ line'[Len(line) + 1] = r
        /\ \A i \in 1..Len(line) : line'[i] = line[i]
    BY <2>2
  <2>5. ASSUME NEW i \in 1..Len(line')
        PROVE  rec'[line'[i]].status = "queued" /\ ~rec'[line'[i]].cancel
    <3>1. CASE i = Len(line) + 1 BY <2>1, <2>4, <3>1, NoRecordStatus
    <3>2. CASE i \in 1..Len(line)
      <4>1. rec'[line'[i]] = rec[line[i]] BY <1>0, <2>1, <2>3, <2>4, <3>2
      <4>2. QED BY <3>2, <4>1 DEF LineInv
    <3>3. QED BY <3>1, <3>2, <2>4, <1>0
  <2>6. Distinct(line')
    <3>1. SUFFICES ASSUME NEW i \in 1..Len(line'), NEW j \in 1..Len(line'),
                          line'[i] = line'[j]
                   PROVE  i = j
      BY DEF Distinct
    <3>2. CASE i \in 1..Len(line) /\ j \in 1..Len(line)
      <4>1. line[i] = line[j] BY <3>1, <3>2, <2>4
      <4>2. QED BY <3>2, <4>1 DEF LineInv, Distinct
    <3>3. CASE i = Len(line) + 1 /\ j \in 1..Len(line) BY <3>1, <3>3, <2>3, <2>4
    <3>4. CASE j = Len(line) + 1 /\ i \in 1..Len(line) BY <3>1, <3>4, <2>3, <2>4
    <3>5. CASE i = Len(line) + 1 /\ j = Len(line) + 1 BY <3>5
    <3>6. Len(line) \in Nat /\ Len(line') = Len(line) + 1 BY <1>0, <2>4
    <3>7. i = Len(line) + 1 \/ i \in 1..Len(line) BY ONLY <3>6, i \in 1..Len(line')
    <3>8. j = Len(line) + 1 \/ j \in 1..Len(line) BY ONLY <3>6, j \in 1..Len(line')
    <3>9. QED BY <3>2, <3>3, <3>4, <3>5, <3>7, <3>8
  <2>7. QED BY <2>5, <2>6 DEF LineInv
<1>3. ASSUME NEW r \in Runs, Shift(r) PROVE LineInv'
  <2>1. line # <<>> /\ r = Head(line) /\ line' = Tail(line) BY <1>3 DEF Shift
  <2>2. line[1] = r /\ 1 \in 1..Len(line) BY <2>1, <1>0
  <2>3. /\ Len(line') = Len(line) - 1
        /\ \A j \in 1..Len(line') : line'[j] = line[j + 1]
    BY <2>1, HeadTailProperties
  <2>4. ASSUME NEW i \in 1..Len(line')
        PROVE  rec'[line'[i]].status = "queued" /\ ~rec'[line'[i]].cancel
    <3>1. i + 1 \in 1..Len(line) /\ i + 1 # 1 BY <1>0, <2>3
    <3>2. line[i + 1] # r BY <2>2, <3>1 DEF LineInv, Distinct
    <3>3. rec'[line'[i]] = rec[line[i + 1]]
      BY <1>0, <1>3, <2>3, <3>1, <3>2, ShiftProperties
    <3>4. QED BY <3>1, <3>3 DEF LineInv
  <2>5. Distinct(line')
    <3>1. SUFFICES ASSUME NEW i \in 1..Len(line'), NEW j \in 1..Len(line'),
                          line'[i] = line'[j]
                   PROVE  i = j
      BY DEF Distinct
    <3>2. i + 1 \in 1..Len(line) /\ j + 1 \in 1..Len(line) BY <1>0, <2>3
    <3>3. line[i + 1] = line[j + 1] BY <2>3, <3>1
    <3>4. i + 1 = j + 1 BY <3>2, <3>3 DEF LineInv, Distinct
    <3>5. QED BY <3>4, <1>0, <2>3
  <2>6. QED BY <2>4, <2>5 DEF LineInv
<1>4. ASSUME NEW r \in Runs, Cancel(r) PROVE LineInv'
  <2>1. CASE rec[r].status = "queued"
    <3>1. Contract!Drops(line, r, line') BY <1>4, <2>1, CancelProperties
    <3>2. Distinct(line') /\ \A j \in 1..Len(line') : line'[j] # r
      BY <3>1, DropsDistinct DEF LineInv
    <3>3. ASSUME NEW j \in 1..Len(line')
          PROVE  rec'[line'[j]].status = "queued" /\ ~rec'[line'[j]].cancel
      <4>1. PICK i \in 1..Len(line) : line'[j] = line[i]
        BY <3>1, DropsProperties
      <4>2. rec'[line'[j]] = rec[line[i]]
        BY <1>0, <1>4, <3>2, <4>1, CancelProperties
      <4>3. QED BY <4>2 DEF LineInv
    <3>4. QED BY <3>2, <3>3 DEF LineInv
  <2>2. CASE rec[r].status # "queued"
    BY <1>4, <2>2, CancelProperties, LineKept
  <2>3. QED BY <2>1, <2>2
<1>5. ASSUME NEW r \in Runs, Remove(r) \/ Poll(r) \/ GrowsStale(r) PROVE FALSE
  BY <1>5, NoPoll DEF Remove
<1>6. CASE Wake \/ Leave \/ TimeoutFires \/ WatchAborts
  BY <1>6, LineKept DEF Wake, Leave, TimeoutFires, WatchAborts
<1>7. CASE EngineEnds
  <2>1. rec[current].status = "running" /\ line' = line
    BY <1>7 DEF EngineEnds, CurrentInv
  <2>2. QED BY <1>7, <2>1, EndsProperties, LineKept
<1>8. CASE Beat
  <2>1. current \in Runs /\ rec[current].status = "running" /\ line' = line
    BY <1>8 DEF Beat, CurrentInv
  <2>2. \A q \in Runs \ {current} : rec'[q] = rec[q]
    BY <1>8, <2>1, PatchType, UpdatesProperties DEF Beat
  <2>3. QED BY <2>1, <2>2, LineKept
<1>9. CASE Destroy BY <1>9 DEF Destroy, LineInv, Distinct
<1>10. QED BY <1>1, <1>2, <1>3, <1>4, <1>5, <1>6, <1>7, <1>8, <1>9 DEF Next

LEMMA CurrentStep ==
  ASSUME TypeOK, ContractInv, MaxPosts = 1, ~Deletes, ~SlowBeats, Next
  PROVE  CurrentInv'
<1> USE DEF ContractInv, CurrentInv, TypeOK, jobVars, loopVars, postVars
<1>0. RunningInv' BY RunningStep
<1>1. ASSUME NEW r \in Runs, Find(r) PROVE CurrentInv' BY <1>0, <1>1 DEF Find
<1>2. ASSUME NEW r \in Runs, Enqueue(r) PROVE CurrentInv'
  <2>1. /\ rec'[r] = Created /\ \A q \in Runs \ {r} : rec'[q] = rec[q]
    BY <1>2, PatchType, StoresProperties DEF Enqueue
  <2>2. current' = current /\ rec[r].status = "absent"
    BY <1>2, NoRecordStatus DEF Enqueue, PostedOnce
  <2>3. QED BY <1>0, <2>1, <2>2, NoRecordStatus
<1>3. ASSUME NEW r \in Runs, Shift(r) PROVE CurrentInv'
  <2>1. current = None BY <1>3 DEF Shift
  <2>2. MarkRunning(Fetched(r)).beat = "fresh"
    BY FetchedType DEF MarkRunning, Record, Fetched, Created
  <2>3. \A q \in Runs : rec[q].status # "running"
    BY <2>1, MemoryAssumption DEF RunningInv, RunningIsCurrent
  <2>4. \A q \in Runs \ {r} : rec'[q] = rec[q] BY <1>3, ShiftProperties
  <2>5. CASE rec'[r].status = "cancelled" /\ current' = current
    BY <1>0, <2>1, <2>3, <2>4, <2>5
  <2>6. CASE /\ rec'[r] = MarkRunning(Fetched(r)) /\ current' = r
             /\ rec'[r].status = "running"
    BY <1>0, <2>2, <2>3, <2>4, <2>6
  <2>7. QED BY <1>3, <2>5, <2>6, ShiftProperties
<1>4. ASSUME NEW r \in Runs, Cancel(r) PROVE CurrentInv'
  <2>1. current' = current BY <1>4 DEF Cancel
  <2>2. rec[r] \in Record BY <1>4 DEF Cancel
  <2>3. rec'[r].status = "running" => rec'[r].beat = rec[r].beat
    <3>1. CASE rec[r].status = "queued" BY <1>4, <3>1, CancelProperties
    <3>2. CASE rec[r].status # "queued"
      <4>1. Stores(r, RequestCancellation(rec[r].status, rec[r]))
        BY <1>4, <3>2 DEF Cancel
      <4>2. RequestCancellation(rec[r].status, rec[r]) \in Record
        BY <2>2, PatchType
      <4>3. rec'[r] = RequestCancellation(rec[r].status, rec[r])
        BY <4>1, <4>2, StoresProperties
      <4>4. QED BY <4>3, <2>2 DEF RequestCancellation, Record
    <3>3. QED BY <3>1, <3>2
  <2>4. \A q \in Runs \ {r} : rec'[q] = rec[q] BY <1>4, CancelProperties
  <2>5. rec'[r].status = "running" <=> rec[r].status = "running"
    BY <1>4, CancelProperties
  <2>6. QED BY <1>0, <2>1, <2>3, <2>4, <2>5
<1>5. ASSUME NEW r \in Runs, Remove(r) \/ Poll(r) \/ GrowsStale(r) PROVE FALSE
  BY <1>5, NoPoll DEF Remove
<1>6. CASE Wake \/ Leave \/ TimeoutFires \/ WatchAborts \/ Destroy
  BY <1>0, <1>6 DEF Wake, Leave, TimeoutFires, WatchAborts, Destroy
<1>7. CASE EngineEnds
  <2>1. current' = None BY <1>7 DEF EngineEnds
  <2>2. rec[current] # NoRecord BY <1>7, NoRecordStatus DEF EngineEnds
  <2>3. rec'[current].status # "running" BY <1>7, <2>2, EndsProperties
  <2>4. \A q \in Runs \ {current} : rec'[q] = rec[q] BY <1>7, EndsProperties
  <2>5. QED BY <1>0, <2>1, <2>3, <2>4
<1>8. CASE Beat
  <2>1. current \in Runs /\ current' = current BY <1>8 DEF Beat
  <2>2. rec[current] # NoRecord BY <1>8, NoRecordStatus DEF Beat
  <2>3. /\ rec'[current] = Heartbeat(rec[current]) /\ rec[current] \in Record
        /\ \A q \in Runs \ {current} : rec'[q] = rec[q]
    BY <1>8, <2>1, <2>2, PatchType, UpdatesProperties DEF Beat
  <2>4. rec'[current].status = rec[current].status /\ rec'[current].beat = "fresh"
    BY <2>3 DEF Heartbeat, Record
  <2>5. QED BY <1>0, <2>1, <2>3, <2>4
<1>9. QED BY <1>1, <1>2, <1>3, <1>4, <1>5, <1>6, <1>7, <1>8 DEF Next

LEMMA ContractInit == Init => ContractInv
<1> SUFFICES ASSUME Init PROVE ContractInv OBVIOUS
<1>1. Len(line) = 0 BY DEF Init
<1>2. LineInv BY <1>1 DEF LineInv, Distinct
<1>3. QED
  BY <1>2, NoRecordStatus
     DEF Init, ContractInv, PostedOnce, CurrentInv, RunningInv, RunningIsCurrent

LEMMA ContractStep ==
  ASSUME MaxPosts = 1, ~Deletes, ~SlowBeats
  PROVE  TypeOK /\ ContractInv /\ [Next]_vars => ContractInv'
<1> SUFFICES ASSUME TypeOK, ContractInv, [Next]_vars PROVE ContractInv' OBVIOUS
<1>1. CASE Next
  BY <1>1, PostedStep, LineStep, CurrentStep DEF ContractInv
<1>2. CASE UNCHANGED vars
  BY <1>2 DEF vars, jobVars, loopVars, postVars, ContractInv, PostedOnce, LineInv,
     CurrentInv, RunningInv, RunningIsCurrent, Distinct
<1>3. QED BY <1>1, <1>2

status == [r \in Runs |-> rec[r].status]

\* A step of the implementation that leaves every status, the queue and the
\* flag alone is a stuttering step of the contract.
LEMMA Stutters ==
  ASSUME \A r \in Runs : rec'[r].status = rec[r].status, UNCHANGED <<line, destroyed>>
  PROVE  UNCHANGED <<status, line, destroyed>>
BY DEF status

LEMMA Implements ==
  ASSUME MaxPosts = 1, ~Deletes, ~SlowBeats, TypeOK, ContractInv, [Next]_vars
  PROVE  [Contract!Next]_<<status, line, destroyed>>
<1> USE DEF ContractInv, CurrentInv, TypeOK, jobVars, loopVars, postVars
<1>1. ASSUME NEW r \in Runs, Find(r) PROVE UNCHANGED <<status, line, destroyed>>
  BY <1>1 DEF Find, status
<1>2. ASSUME NEW r \in Runs, Enqueue(r) PROVE Contract!Accept(r)
  <2>1. /\ rec'[r] = Created /\ \A q \in Runs \ {r} : rec'[q] = rec[q]
    BY <1>2, PatchType, StoresProperties DEF Enqueue
  <2>2. rec[r].status = "absent" /\ line' = Append(line, r) /\ destroyed' = destroyed
    BY <1>2, NoRecordStatus DEF Enqueue, PostedOnce
  <2>3. status' = [status EXCEPT ![r] = "queued"]
    BY <2>1, NoRecordStatus DEF status
  <2>4. QED BY <2>2, <2>3 DEF Contract!Accept, status
<1>3. ASSUME NEW r \in Runs, Shift(r) PROVE Contract!Start(r)
  <2>1. /\ line # <<>> /\ r = Head(line) /\ line' = Tail(line)
        /\ destroyed' = destroyed /\ current = None
    BY <1>3 DEF Shift
  <2>2. 1 \in 1..Len(line) /\ line[1] = r BY <2>1
  <2>3. rec[r].status = "queued" /\ ~rec[r].cancel BY <2>2 DEF LineInv
  <2>4. Fetched(r) = rec[r] BY <2>3, NoRecordStatus DEF Fetched
  <2>5. rec'[r].status = "running" BY <1>3, <2>3, <2>4, ShiftProperties
  <2>6. status' = [status EXCEPT ![r] = "running"]
    BY <1>3, <2>5, ShiftProperties DEF status
  <2>7. \A q \in Runs : rec[q].status # "running"
    BY <2>1, MemoryAssumption DEF RunningInv, RunningIsCurrent
  <2>8. QED BY <2>1, <2>3, <2>6, <2>7 DEF Contract!Start, status
<1>4. ASSUME NEW r \in Runs, Cancel(r)
      PROVE  Contract!Withdraw(r) \/ UNCHANGED <<status, line, destroyed>>
  <2>1. destroyed' = destroyed BY <1>4 DEF Cancel
  <2>2. CASE rec[r].status = "queued"
    <3>1. /\ rec'[r].status = "cancelled" /\ Contract!Drops(line, r, line')
          /\ \A q \in Runs \ {r} : rec'[q] = rec[q]
      BY <1>4, <2>2, CancelProperties
    <3>2. status' = [status EXCEPT ![r] = "cancelled"] BY <3>1 DEF status
    <3>3. QED BY <2>1, <2>2, <3>1, <3>2 DEF Contract!Withdraw, status
  <2>3. CASE rec[r].status # "queued"
    <3>1. \A q \in Runs : rec'[q].status = rec[q].status
      BY <1>4, <2>3, CancelProperties
    <3>2. line' = line BY <1>4, <2>3, CancelProperties
    <3>3. QED BY <2>1, <3>1, <3>2, Stutters
  <2>4. QED BY <2>2, <2>3
<1>5. ASSUME NEW r \in Runs, Remove(r) \/ Poll(r) \/ GrowsStale(r) PROVE FALSE
  BY <1>5, NoPoll DEF Remove
<1>6. CASE Wake \/ Leave \/ TimeoutFires \/ WatchAborts
  BY <1>6, Stutters DEF Wake, Leave, TimeoutFires, WatchAborts
<1>7. CASE EngineEnds
  <2>1. current \in Runs /\ UNCHANGED <<line, destroyed>>
    BY <1>7, EndsProperties DEF EngineEnds
  <2>2. rec[current].status = "running" /\ rec[current] # NoRecord
    BY <1>7, NoRecordStatus DEF EngineEnds
  <2>3. /\ \A q \in Runs \ {current} : rec'[q] = rec[q]
        /\ rec'[current].status \in Contract!Ended
    BY <1>7, <2>2, EndsProperties DEF Contract!Ended
  <2>4. PICK r \in Runs : r = current BY <2>1
  <2>5. status' = [status EXCEPT ![r] = rec'[r].status]
    BY <2>1, <2>3, <2>4 DEF status
  <2>6. Contract!End(r)
    BY <2>1, <2>2, <2>3, <2>4, <2>5 DEF Contract!End, status
  <2>7. Contract!Next BY <2>6 DEF Contract!Next
  <2>8. QED BY <2>7 DEF status
<1>8. CASE Beat
  <2>1. current \in Runs /\ UNCHANGED <<line, destroyed>> BY <1>8 DEF Beat
  <2>2. rec[current] # NoRecord BY <1>8, NoRecordStatus DEF Beat
  <2>3. /\ rec'[current] = Heartbeat(rec[current]) /\ rec[current] \in Record
        /\ \A q \in Runs \ {current} : rec'[q] = rec[q]
    BY <1>8, <2>1, <2>2, PatchType, UpdatesProperties DEF Beat
  <2>4. rec'[current].status = rec[current].status BY <2>3, PatchType
  <2>5. ASSUME NEW q \in Runs PROVE rec'[q].status = rec[q].status
    BY <2>3, <2>4
  <2>6. QED BY <2>1, <2>5, Stutters
<1>9. CASE Destroy
  <2>1. Contract!Close BY <1>9 DEF Destroy, Contract!Close, status
  <2>2. QED BY <2>1 DEF Contract!Next, status
<1>10. CASE UNCHANGED vars BY <1>10, Stutters DEF vars
<1>11. QED BY <1>1, <1>2, <1>3, <1>4, <1>5, <1>6, <1>7, <1>8, <1>9, <1>10
           DEF Next, Contract!Next, status

\* KeepsContract: where every run is posted once, none is deleted and the
\* heart-beats come in time, the queue implements JobContract.
THEOREM KeepsContract ==
  ASSUME MaxPosts = 1, ~Deletes, ~SlowBeats
  PROVE  Spec => ContractSpec
<1>1. Init => Contract!Init BY NoRecordStatus DEF Init, Contract!Init
<1>2. TypeOK /\ ContractInv /\ [Next]_vars
        => [Contract!Next]_<<[r \in Runs |-> rec[r].status], line, destroyed>>
  BY Implements DEF status
<1>3. QED BY <1>1, <1>2, ContractInit, ContractStep, MemTypeCorrect, PTL
          DEF Spec, ContractSpec, Contract!Spec
=============================================================================
