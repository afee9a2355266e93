---------------------------- MODULE JobContract ----------------------------
(***************************************************************************)
(* What a queue of research jobs promises its clients: runs start in the   *)
(* order they were accepted, one at a time; a waiting run can be withdrawn *)
(* and then never starts; every run ends once, and an ended run stays as   *)
(* it is.                                                                  *)
(***************************************************************************)
EXTENDS Sequences, Naturals

CONSTANT Runs

VARIABLES
  status,   \* status of every run, "absent" before it is accepted
  line,     \* the runs that wait, in the order they were accepted
  closed    \* the queue is shut down

Ended == {"completed", "failed", "cancelled", "timed_out"}

\* The first entry for r leaves a queue, if it has one.
Drops(before, r, after) ==
  \/ /\ \A i \in 1..Len(before) : before[i] # r
     /\ after = before
  \/ \E i \in 1..Len(before) :
       /\ before[i] = r /\ \A j \in 1..(i - 1) : before[j] # r
       /\ after = SubSeq(before, 1, i - 1) \o SubSeq(before, i + 1, Len(before))

Init ==
  /\ status = [r \in Runs |-> "absent"]
  /\ line = <<>>
  /\ closed = FALSE

Accept(r) ==
  /\ status[r] = "absent"
  /\ status' = [status EXCEPT ![r] = "queued"]
  /\ line' = Append(line, r)
  /\ UNCHANGED closed

Withdraw(r) ==
  /\ status[r] = "queued"
  /\ status' = [status EXCEPT ![r] = "cancelled"]
  /\ Drops(line, r, line')
  /\ UNCHANGED closed

\* The longest waiting run starts when no other runs.
Start(r) ==
  /\ line # <<>> /\ Head(line) = r
  /\ status[r] = "queued" /\ \A q \in Runs : status[q] # "running"
  /\ status' = [status EXCEPT ![r] = "running"]
  /\ line' = Tail(line)
  /\ UNCHANGED closed

End(r) ==
  /\ status[r] = "running"
  /\ \E s \in Ended : status' = [status EXCEPT ![r] = s]
  /\ UNCHANGED <<line, closed>>

Close ==
  /\ ~closed /\ closed' = TRUE
  /\ line' = <<>>
  /\ UNCHANGED status

Next ==
  \/ \E r \in Runs : Accept(r) \/ Withdraw(r) \/ Start(r) \/ End(r)
  \/ Close

Spec == Init /\ [][Next]_<<status, line, closed>>
=============================================================================
