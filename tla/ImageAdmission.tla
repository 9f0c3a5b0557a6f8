--------------------------- MODULE ImageAdmission ---------------------------
(* The shared admission ledger of the image queue (bullmq-executor.ts,     *)
(* image-worker.ts): a Redis sorted set with a reservation for each job a  *)
(* web process has admitted, which several hands give back: the web        *)
(* process after the answer, the worker when its processor ends, and the   *)
(* next admission once a reservation without a job is old.                 *)
EXTENDS Integers, FiniteSets

CONSTANTS
  Job, Executor,    \* queue jobs; calls of execute() in the web processes
  NoJob,
  Cap,              \* maxQueuedJobs
  Submission,       \* the deadline of one Redis command
  Grace,            \* age at which a reservation without a job is swept
  MaxAttempts, MaxFaults

ASSUME AdmissionTimes ==
  /\ {Cap, Submission, Grace, MaxAttempts} \subseteq Nat \ {0} /\ MaxFaults \in Nat
  /\ NoJob \notin Job
  /\ Grace > 2 * Submission

VARIABLES
  reserved,  \* the sorted set: age of each job's reservation, or None
  queue,     \* BullMQ: state, attempt and stalls of each job
  worker,    \* the one worker: its job, and whether it has released it
  attempts,  \* attempts of each job the image ledger has handed out
  exec,      \* the execute() calls
  faults

vars == <<reserved, queue, worker, attempts, exec, faults>>

None == -1
Ages == 0..Grace

Absent == [state |-> "absent", attempt |-> 0, stalls |-> 0]
Idle == [job |-> NoJob, released |-> FALSE]
Ready == [pc |-> "ready", job |-> NoJob, attempt |-> 0, age |-> 0]

Init ==
  /\ reserved = [j \in Job |-> None]
  /\ queue = [j \in Job |-> Absent]
  /\ worker = Idle
  /\ attempts = [j \in Job |-> 0]
  /\ exec = [e \in Executor |-> Ready]
  /\ faults = 0

Fault == faults < MaxFaults /\ faults' = faults + 1
NoFault == UNCHANGED faults

At(e, pc) == exec' = [exec EXCEPT ![e].pc = pc, ![e].age = 0]

(* An outcome that ends the call, whatever it tells the caller.            *)
End(e) == exec' = [exec EXCEPT ![e] = Ready]

JobOf(e) == exec[e].job
Release(j) == reserved' = [reserved EXCEPT ![j] = None]
Reserved == {j \in Job : reserved[j] # None}
Terminal == {"completed", "failed"}

-----------------------------------------------------------------------------
(* execute(), one command at a time                                        *)

(* The image ledger drives a job by one attempt at a time.                 *)
Begin(e, j) ==
  /\ exec[e].pc = "ready" /\ attempts[j] < MaxAttempts
  /\ \A other \in Executor : JobOf(other) # j
  /\ attempts' = [attempts EXCEPT ![j] = @ + 1]
  /\ exec' = [exec EXCEPT ![e] = [Ready EXCEPT !.pc = "lookup", !.job = j,
                                              !.attempt = attempts[j] + 1]]
  /\ UNCHANGED <<reserved, queue, worker, faults>>

(* decideBullMqJobReplay for an older stored attempt: what runs is joined. *)
Replay(e) ==
  LET stored == queue[JobOf(e)]
  IN CASE stored.state = "absent" -> "reserve"
       [] stored.attempt = exec[e].attempt \/ stored.state = "active" -> "wait"
       [] OTHER -> "remove"

Lookup(e) ==
  /\ exec[e].pc = "lookup"
  /\ \/ At(e, Replay(e)) /\ NoFault
     \/ End(e) /\ Fault
  /\ UNCHANGED <<reserved, queue, worker, attempts>>

(* A job the worker has locked meanwhile cannot be removed.                *)
Removable(j) == queue[j].state # "active"

RemoveOld(e) ==
  LET j == JobOf(e)
      removed == queue' = [queue EXCEPT ![j] = Absent]
  IN /\ exec[e].pc = "remove"
     /\ \/ Removable(j) /\ removed /\ At(e, "releaseOld") /\ NoFault
        \/ ~Removable(j) /\ UNCHANGED queue /\ End(e) /\ NoFault
        \/ End(e) /\ Fault /\ (UNCHANGED queue \/ (Removable(j) /\ removed))
     /\ UNCHANGED <<reserved, worker, attempts>>

(* #releaseAdmission: an error is swallowed.                               *)
ReleaseThen(e, next) ==
  /\ next
  /\ \/ Release(JobOf(e)) /\ NoFault
     \/ UNCHANGED reserved /\ Fault
  /\ UNCHANGED <<queue, worker, attempts>>

ReleaseOld(e) == exec[e].pc = "releaseOld" /\ ReleaseThen(e, At(e, "reserve"))

(* reserveAdmissionScript, in two halves: sweep, then add unless full or   *)
(* present.                                                                *)
SweptAlways == {j \in Reserved : queue[j].state = "absent"}

Swept == {j \in Reserved : reserved[j] >= Grace /\ queue[j].state = "absent"}

Added(j) == Cardinality(Reserved \ Swept) < Cap /\ j \notin Reserved \ Swept

AfterReserve(j, age) ==
  [i \in Job |-> IF i = j /\ Added(j) THEN age ELSE IF i \in Swept THEN None ELSE reserved[i]]

(* The reservation is dated by the web process when it sends the command.  *)
Reserve(e) ==
  LET j == JobOf(e)
      done == reserved' = AfterReserve(j, exec[e].age)
  IN /\ exec[e].pc = "reserve"
     /\ \/ done /\ (IF Added(j) THEN At(e, "add") ELSE End(e)) /\ NoFault
        \/ End(e) /\ Fault /\ (done \/ UNCHANGED reserved)
     /\ UNCHANGED <<queue, worker, attempts>>

Add(e) ==
  LET j == JobOf(e)
      mine == [Absent EXCEPT !.state = "waiting", !.attempt = exec[e].attempt]
      added == queue' = [queue EXCEPT ![j] = IF @ = Absent THEN mine ELSE @]
  IN /\ exec[e].pc = "add"
     /\ \/ added /\ At(e, "wait") /\ NoFault
        \/ End(e) /\ Fault /\ (added \/ UNCHANGED queue)
     /\ UNCHANGED <<reserved, worker, attempts>>

(* The wait ends by the answer of the job, by its own timeout, or by an    *)
(* error, after which the reservation goes only if the job has ended.      *)
Wait(e) ==
  LET state == queue[JobOf(e)].state
  IN /\ exec[e].pc \in {"wait", "waitAgain"}
     /\ \/ state = "completed" /\ At(e, "release") /\ NoFault
        \/ state \in {"failed", "absent"} /\ At(e, "releaseIfTerminal") /\ NoFault
        \/ state # "completed" /\ exec[e].pc = "wait" /\ At(e, "timedOut") /\ NoFault
        \/ state # "completed" /\ exec[e].pc = "waitAgain" /\ End(e) /\ NoFault
        \/ At(e, "releaseIfTerminal") /\ Fault
     /\ UNCHANGED <<reserved, queue, worker, attempts>>

(* Only a job still waiting when looked at is removed.                     *)
TimedOut(e) ==
  /\ exec[e].pc = "timedOut"
  /\ \/ At(e, IF queue[JobOf(e)].state = "waiting" THEN "removeLate" ELSE "waitAgain") /\ NoFault
     \/ At(e, "waitAgain") /\ Fault
  /\ UNCHANGED <<reserved, queue, worker, attempts>>

RemoveLate(e) ==
  LET j == JobOf(e)
      removed == queue' = [queue EXCEPT ![j] = Absent]
  IN /\ exec[e].pc = "removeLate"
     /\ \/ Removable(j) /\ removed /\ At(e, "release") /\ NoFault
        \/ ~Removable(j) /\ UNCHANGED queue /\ At(e, "waitAgain") /\ NoFault
        \/ At(e, "waitAgain") /\ Fault /\ (UNCHANGED queue \/ (Removable(j) /\ removed))
     /\ UNCHANGED <<reserved, worker, attempts>>

ReleaseLast(e) == exec[e].pc = "release" /\ ReleaseThen(e, End(e))

ReleaseAnyway(e) ==
  /\ exec[e].pc = "releaseIfTerminal"
  /\ At(e, "release") /\ NoFault
  /\ UNCHANGED <<reserved, queue, worker, attempts>>

ReleaseIfTerminal(e) ==
  /\ exec[e].pc = "releaseIfTerminal"
  /\ \/ queue[JobOf(e)].state \in Terminal /\ At(e, "release") /\ NoFault
     \/ queue[JobOf(e)].state \notin Terminal /\ End(e) /\ NoFault
     \/ End(e) /\ Fault
  /\ UNCHANGED <<reserved, queue, worker, attempts>>

(* A web process ends: its call stops where it is.                         *)
WebCrash(e) ==
  /\ exec[e].pc # "ready" /\ End(e) /\ Fault
  /\ UNCHANGED <<reserved, queue, worker, attempts>>

-----------------------------------------------------------------------------
(* The worker, and BullMQ on its behalf                                    *)

Take(j) ==
  /\ worker = Idle /\ queue[j].state = "waiting"
  /\ queue' = [queue EXCEPT ![j].state = "active"]
  /\ worker' = [job |-> j, released |-> FALSE]
  /\ UNCHANGED <<reserved, attempts, exec, faults>>

(* The processor's finally gives the reservation back before BullMQ moves  *)
(* the job.                                                                *)
WorkerRelease ==
  /\ worker # Idle /\ ~worker.released
  /\ worker' = [worker EXCEPT !.released = TRUE]
  /\ \/ Release(worker.job) /\ NoFault
     \/ UNCHANGED reserved /\ Fault
  /\ UNCHANGED <<queue, attempts, exec>>

WorkerFinish ==
  /\ worker # Idle /\ worker.released
  /\ \E state \in Terminal : queue' = [queue EXCEPT ![worker.job].state = state]
  /\ worker' = Idle
  /\ UNCHANGED <<reserved, attempts, exec, faults>>

WorkerCrash ==
  /\ worker # Idle /\ Fault
  /\ worker' = Idle
  /\ UNCHANGED <<reserved, queue, attempts, exec>>

StalledUnlimited(j) ==
  /\ queue[j].state = "active" /\ worker.job # j
  /\ queue' = [queue EXCEPT ![j].stalls = @ + 1, ![j].state = "waiting"]
  /\ UNCHANGED <<reserved, worker, attempts, exec, faults>>

(* maxStalledCount 1: a job whose worker is gone is queued again once.     *)
Stalled(j) ==
  /\ queue[j].state = "active" /\ worker.job # j
  /\ queue' = [queue EXCEPT ![j].stalls = @ + 1,
                            ![j].state = IF queue[j].stalls = 0 THEN "waiting" ELSE "failed"]
  /\ UNCHANGED <<reserved, worker, attempts, exec, faults>>

(* removeOnComplete and removeOnFail.                                      *)
Retire(j) ==
  /\ queue[j].state \in Terminal
  /\ queue' = [queue EXCEPT ![j] = Absent]
  /\ UNCHANGED <<reserved, worker, attempts, exec, faults>>

(* withDeadline bounds the time of a command, the waits take any time.     *)
Commanding(e) == exec[e].pc \notin {"ready", "wait", "waitAgain"}

Pass ==
  /\ \A e \in Executor : Commanding(e) => exec[e].age < Submission
  /\ reserved' = [j \in Job |-> IF reserved[j] \in 0..(Grace - 1) THEN reserved[j] + 1 ELSE reserved[j]]
  /\ exec' = [e \in Executor |-> IF Commanding(e) THEN [exec[e] EXCEPT !.age = @ + 1] ELSE exec[e]]
  /\ UNCHANGED <<queue, worker, attempts, faults>>

Call(e) ==
  \/ Lookup(e) \/ RemoveOld(e) \/ ReleaseOld(e) \/ Reserve(e) \/ Add(e) \/ Wait(e)
  \/ TimedOut(e) \/ RemoveLate(e) \/ ReleaseLast(e) \/ ReleaseIfTerminal(e) \/ WebCrash(e)

Next ==
  \/ Pass
  \/ \E e \in Executor : Call(e) \/ \E j \in Job : Begin(e, j)
  \/ \E j \in Job : Take(j) \/ Stalled(j) \/ Retire(j)
  \/ WorkerRelease \/ WorkerFinish \/ WorkerCrash

Spec == Init /\ [][Next]_vars

-----------------------------------------------------------------------------
(* Properties                                                              *)

TypeOK ==
  /\ reserved \in [Job -> Ages \union {None}]
  /\ queue \in [Job -> [state : Terminal \union {"absent", "waiting", "active"},
                        attempt : 0..MaxAttempts, stalls : 0..2]]
  /\ \A j \in Job : queue[j].state = "waiting" => queue[j].stalls < 2
  /\ worker \in [job : Job \union {NoJob}, released : BOOLEAN]
  /\ attempts \in [Job -> 0..MaxAttempts]
  /\ \A e \in Executor : exec[e].job \in Job \union {NoJob} /\ exec[e].age \in 0..Submission
  /\ faults \in 0..MaxFaults

(* Work the worker still has to do counts against the cap: no sweep, no    *)
(* release by an older or a failed call takes its reservation away.  The   *)
(* one exception is a job queued again after its worker had given its      *)
(* reservation back and crashed.                                           *)
Pending(j) == queue[j].state = "waiting" \/ (worker.job = j /\ ~worker.released)

PendingIsReserved == \A j \in Job : Pending(j) /\ queue[j].stalls = 0 => j \in Reserved

(* Between admission and the queue a reservation has no job to show: the   *)
(* sweep of another request must not take it (#reservationGraceMs).        *)
SubmissionKeepsReservation == \A e \in Executor : exec[e].pc = "add" => JobOf(e) \in Reserved

(* What every reachable state has: well-typed variables, and admitted work *)
(* that stays reserved from admission to its end (bullmq-executor.ts).     *)
AdmissionInv == TypeOK /\ PendingIsReserved /\ SubmissionKeepsReservation
=============================================================================
