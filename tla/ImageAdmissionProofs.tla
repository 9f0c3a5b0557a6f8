------------------------ MODULE ImageAdmissionProofs ------------------------
(***************************************************************************)
(* Admitted work stays reserved, for any number of jobs, calls, attempts   *)
(* and failures, as long as the grace period outlasts two commands.  The   *)
(* invariant is inductive only together with what a call knows of its job  *)
(* between two commands: it drives the job alone, so what it saw absent or *)
(* ended is still not at work, and a reservation it has just made is no    *)
(* older than the command that made it and the one it is waiting for.      *)
(***************************************************************************)
EXTENDS ImageAdmission, TLAPS

Pcs == {"ready", "lookup", "remove", "releaseOld", "reserve", "add", "wait", "waitAgain",
        "timedOut", "removeLate", "release", "releaseIfTerminal"}
States == Terminal \union {"absent", "waiting", "active"}

Entry == [state : States, attempt : 0..MaxAttempts, stalls : 0..2]
ExecCall == [pc : Pcs, job : Job \union {NoJob}, attempt : 0..MaxAttempts, age : 0..Submission]

Typed == TypeOK /\ exec \in [Executor -> ExecCall]

(* One call drives a job.                                                  *)
DrivenAlone == \A e, f \in Executor : e # f /\ JobOf(e) \in Job => JobOf(e) # JobOf(f)

(* What a call knows of its job: the job it is about to add is not in the  *)
(* queue, the one it is about to release is at its end, and the            *)
(* reservation it has just made is no older than two commands.             *)
CallOK(c) ==
  /\ c.job \in Job <=> c.pc # "ready"
  /\ c.pc \in {"releaseOld", "reserve", "add"} => queue[c.job] = Absent
  /\ c.pc = "release" => queue[c.job].state \in Terminal \union {"absent"}
  /\ c.pc = "add" => reserved[c.job] # None /\ reserved[c.job] <= c.age + Submission

CallsOK == \A e \in Executor : CallOK(exec[e])

(* The worker's job is active, a job stalls at most twice, and a job that  *)
(* is absent leaves nothing behind.                                        *)
QueueOK ==
  /\ worker.job \in Job => queue[worker.job].state = "active"
  /\ worker.job = NoJob => ~worker.released
  /\ \A j \in Job : queue[j].state = "active" => queue[j].stalls < 2
  /\ \A j \in Job : queue[j].state = "absent" => queue[j] = Absent

AdmissionIInv == Typed /\ DrivenAlone /\ CallsOK /\ QueueOK /\ PendingIsReserved

-----------------------------------------------------------------------------
USE AdmissionTimes
    DEF Terminal, States, JobOf, Absent, Idle, Ready, None, Ages

LEMMA Names ==
  /\ {"ready", "lookup", "remove", "releaseOld", "reserve", "add", "wait", "waitAgain",
      "timedOut", "removeLate", "release", "releaseIfTerminal"} \subseteq Pcs
  /\ Absent \in Entry /\ Ready \in ExecCall
BY DEF Pcs, Entry, ExecCall

LEMMA Present ==
  ASSUME AdmissionIInv
  PROVE  /\ exec \in [Executor -> ExecCall]
         /\ queue \in [Job -> Entry]
         /\ reserved \in [Job -> (0..Grace) \union {-1}]
         /\ attempts \in [Job -> 0..MaxAttempts]
         /\ \A e \in Executor : exec[e] \in ExecCall /\ CallOK(exec[e])
BY DEF AdmissionIInv, Typed, TypeOK, CallsOK, Entry

LEMMA Counted ==
  ASSUME AdmissionIInv, Fault \/ NoFault
  PROVE  faults' \in 0..MaxFaults
BY DEF AdmissionIInv, Typed, TypeOK, Fault, NoFault

(* Steps of one call.  The jobs of the others are other jobs, so nothing   *)
(* the call does to its own job concerns them.                             *)
Advances(e, c) ==
  /\ exec' = [exec EXCEPT ![e] = c]
  /\ c \in ExecCall
  /\ c.job \in {exec[e].job, NoJob}

LEMMA Alone ==
  ASSUME AdmissionIInv, NEW e \in Executor, NEW c, Advances(e, c)
  PROVE  DrivenAlone' /\ exec' \in [Executor -> ExecCall] /\ exec'[e] = c
         /\ \A f \in Executor \ {e} : exec'[f] = exec[f]
<1>1. exec' \in [Executor -> ExecCall] /\ exec'[e] = c /\ \A f \in Executor \ {e} : exec'[f] = exec[f]
  BY Present DEF Advances
<1> QED
  BY <1>1 DEF AdmissionIInv, DrivenAlone, Advances

LEMMA CallStep ==
  ASSUME AdmissionIInv, NEW e \in Executor, NEW c, Advances(e, c), CallOK(c),
         UNCHANGED <<reserved, queue, worker, attempts>>,
         Fault \/ NoFault
  PROVE  AdmissionIInv'
<1>1. Typed'
  BY Alone, Counted DEF AdmissionIInv, Typed, TypeOK, ExecCall
<1>2. CallsOK'
  BY Alone DEF AdmissionIInv, CallsOK, CallOK
<1>3. QueueOK' /\ PendingIsReserved'
  BY DEF AdmissionIInv, QueueOK, PendingIsReserved, Pending, Reserved
<1> QED
  BY <1>1, <1>2, <1>3, Alone DEF AdmissionIInv

LEMMA Moves ==
  ASSUME AdmissionIInv, NEW e \in Executor, NEW pc \in Pcs, At(e, pc)
  PROVE  LET c == [exec[e] EXCEPT !.pc = pc, !.age = 0]
         IN  Advances(e, c) /\ c.pc = pc /\ c.job = exec[e].job /\ c.age = 0
<1>1. [exec[e] EXCEPT !.pc = pc, !.age = 0] \in ExecCall
  <2>1. exec[e] \in ExecCall /\ 0 \in 0..Submission
    BY Present
  <2> QED
    BY <2>1 DEF ExecCall
<1>2. exec' = [exec EXCEPT ![e] = [exec[e] EXCEPT !.pc = pc, !.age = 0]]
  BY Present DEF At
<1> QED
  BY <1>1, <1>2, Present DEF Advances, ExecCall

LEMMA Ends ==
  ASSUME AdmissionIInv, NEW e \in Executor, End(e)
  PROVE  Advances(e, Ready) /\ CallOK(Ready)
BY Names DEF Advances, End, CallOK

(* The step of a call that only asks, or whose answer never came.          *)
LEMMA MoveStep ==
  ASSUME AdmissionIInv, NEW e \in Executor, exec[e].pc # "ready",
         NEW pc \in Pcs \ {"ready", "releaseOld", "add"}, At(e, pc),
         pc = "reserve" => queue[JobOf(e)] = Absent,
         pc = "release" => queue[JobOf(e)].state \in {"completed", "failed", "absent"},
         UNCHANGED <<reserved, queue, worker, attempts>>,
         Fault \/ NoFault
  PROVE  AdmissionIInv'
<1> DEFINE c == [exec[e] EXCEPT !.pc = pc, !.age = 0]
<1>1. Advances(e, c) /\ c.pc = pc /\ c.job = exec[e].job
  BY Moves
<1>2. exec[e].job \in Job
  BY Present DEF CallOK
<1> HIDE DEF c
<1>3. CallOK(c)
  BY <1>1, <1>2 DEF CallOK
<1> QED
  BY <1>1, <1>3, CallStep

LEMMA EndStep ==
  ASSUME AdmissionIInv, NEW e \in Executor, End(e),
         UNCHANGED <<reserved, queue, worker, attempts>>,
         Fault \/ NoFault
  PROVE  AdmissionIInv'
BY Ends, CallStep

LEMMA BeginStep ==
  ASSUME AdmissionIInv, NEW e \in Executor, NEW j \in Job, Begin(e, j)
  PROVE  AdmissionIInv'
<1> DEFINE c == [Ready EXCEPT !.pc = "lookup", !.job = j, !.attempt = attempts[j] + 1]
<1>1. attempts[j] + 1 \in 0..MaxAttempts
  BY Present DEF Begin
<1>2. c \in ExecCall /\ c.pc = "lookup" /\ c.job = j
  BY <1>1, Names DEF ExecCall
<1>3. exec' = [exec EXCEPT ![e] = c]
  BY DEF Begin
<1> HIDE DEF c
<1>4. CallOK(c)
  BY <1>2 DEF CallOK
<1>5. exec' \in [Executor -> ExecCall] /\ exec'[e] = c /\ \A f \in Executor \ {e} : exec'[f] = exec[f]
  BY <1>2, <1>3, Present
<1>6. Typed'
  BY <1>1, <1>5, Present DEF Begin, AdmissionIInv, Typed, TypeOK, ExecCall
<1>7. DrivenAlone'
  BY <1>2, <1>5 DEF Begin, AdmissionIInv, DrivenAlone
<1>8. CallsOK'
  BY <1>4, <1>5 DEF Begin, AdmissionIInv, CallsOK, CallOK
<1>9. QueueOK' /\ PendingIsReserved'
  BY DEF Begin, AdmissionIInv, QueueOK, PendingIsReserved, Pending, Reserved
<1> QED
  BY <1>6, <1>7, <1>8, <1>9 DEF AdmissionIInv

LEMMA LookupStep ==
  ASSUME AdmissionIInv, NEW e \in Executor, Lookup(e)
  PROVE  AdmissionIInv'
<1>1. CASE At(e, Replay(e)) /\ NoFault
  <2>1. JobOf(e) \in Job
    BY Present DEF Lookup, CallOK
  <2>2. Replay(e) \in {"reserve", "wait", "remove"}
    BY DEF Replay
  <2>3. Replay(e) = "reserve" => queue[JobOf(e)] = Absent
    BY <2>1 DEF Replay, AdmissionIInv, QueueOK
  <2> QED
    BY <1>1, <2>1, <2>2, <2>3, MoveStep, Names DEF Lookup
<1> QED
  BY <1>1, EndStep DEF Lookup

(* A step of a call that changes the entry of its job.                     *)
LEMMA QueueStep ==
  ASSUME AdmissionIInv, NEW e \in Executor, JobOf(e) \in Job, NEW c, Advances(e, c), CallOK(c)',
         NEW q \in Entry, queue' = [queue EXCEPT ![JobOf(e)] = q],
         worker.job # JobOf(e), q.state # "active", q.state = "absent" => q = Absent,
         q.state = "waiting" => q.stalls < 2 /\ reserved[JobOf(e)] # None,
         UNCHANGED <<reserved, worker, attempts>>,
         Fault \/ NoFault
  PROVE  AdmissionIInv'
<1>1. queue' \in [Job -> Entry] /\ queue'[JobOf(e)] = q /\ \A j \in Job \ {JobOf(e)} : queue'[j] = queue[j]
  BY Present
<1>2. Typed'
  BY <1>1, Alone, Counted DEF AdmissionIInv, Typed, TypeOK, ExecCall, Entry
<1>3. ASSUME NEW f \in Executor \ {e} PROVE CallOK(exec[f])'
  <2>1. exec'[f] = exec[f] /\ CallOK(exec[f])
    BY Alone, Present
  <2>2. exec[f].pc # "ready" => exec[f].job \in Job /\ exec[f].job # JobOf(e)
    BY <2>1 DEF CallOK, AdmissionIInv, DrivenAlone
  <2> QED
    BY <1>1, <2>1, <2>2 DEF CallOK
<1>4. CallsOK'
  BY <1>3, Alone DEF CallsOK
<1>5. QueueOK'
  BY <1>1 DEF AdmissionIInv, QueueOK
<1>6. PendingIsReserved'
  BY <1>1 DEF AdmissionIInv, PendingIsReserved, Pending, Reserved
<1> QED
  BY <1>2, <1>4, <1>5, <1>6, Alone DEF AdmissionIInv

(* A step of a call that gives back or makes the reservation of its job.   *)
LEMMA ReservationStep ==
  ASSUME AdmissionIInv, NEW e \in Executor, JobOf(e) \in Job, NEW c, Advances(e, c), CallOK(c)',
         queue[JobOf(e)].state \in {"completed", "failed", "absent"},
         reserved' \in [Job -> (0..Grace) \union {-1}],
         \A j \in Job \ {JobOf(e)} :
           reserved'[j] = reserved[j] \/ (reserved[j] >= Grace /\ queue[j].state = "absent"),
         UNCHANGED <<queue, worker, attempts>>,
         Fault \/ NoFault
  PROVE  AdmissionIInv'
<1>1. Typed'
  BY Alone, Counted DEF AdmissionIInv, Typed, TypeOK, ExecCall
<1>2. ASSUME NEW f \in Executor \ {e} PROVE CallOK(exec[f])'
  <2>1. exec'[f] = exec[f] /\ CallOK(exec[f]) /\ exec[f] \in ExecCall
    BY Alone, Present
  <2>2. exec[f].pc # "ready" => exec[f].job \in Job /\ exec[f].job # JobOf(e)
    BY <2>1 DEF CallOK, AdmissionIInv, DrivenAlone
  <2>3. exec[f].pc = "add" => reserved[exec[f].job] < Grace /\ reserved[exec[f].job] # None
    BY <2>1, <2>2, Present DEF CallOK, ExecCall
  <2> QED
    BY <2>1, <2>2, <2>3, Present DEF CallOK
<1>3. CallsOK'
  BY <1>2, Alone DEF CallsOK
<1>4. QueueOK'
  BY DEF AdmissionIInv, QueueOK
<1>5. PendingIsReserved'
  BY DEF AdmissionIInv, PendingIsReserved, Pending, Reserved, QueueOK
<1> QED
  BY <1>1, <1>3, <1>4, <1>5, Alone DEF AdmissionIInv

-----------------------------------------------------------------------------
(* The commands of a call *)

(* A call that goes on after a command.                                    *)
LEMMA Goes ==
  ASSUME AdmissionIInv, NEW e \in Executor, exec[e].pc # "ready",
         NEW pc \in Pcs \ {"ready"}, At(e, pc)
  PROVE  \E c : Advances(e, c) /\ c.pc = pc /\ c.job = JobOf(e) /\ c.age = 0 /\ JobOf(e) \in Job
<1>1. JobOf(e) \in Job
  BY Present DEF CallOK
<1> QED
  BY <1>1, Moves

LEMMA RemoveOldStep ==
  ASSUME AdmissionIInv, NEW e \in Executor, RemoveOld(e)
  PROVE  AdmissionIInv'
<1>0. JobOf(e) \in Job /\ exec[e].pc = "remove"
  BY Present DEF RemoveOld, CallOK
<1>1. CASE Removable(JobOf(e)) /\ queue' = [queue EXCEPT ![JobOf(e)] = Absent]
  <2>1. worker.job # JobOf(e)
    BY <1>0, <1>1 DEF Removable, AdmissionIInv, QueueOK
  <2>2. CASE At(e, "releaseOld")
    <3>1. PICK c : Advances(e, c) /\ c.pc = "releaseOld" /\ c.job = JobOf(e)
      BY <1>0, <2>2, Goes, Names
    <3>2. CallOK(c)'
      BY <1>0, <1>1, <3>1, Present DEF CallOK
    <3> QED
      BY <1>0, <1>1, <2>1, <3>1, <3>2, QueueStep, Names DEF RemoveOld
  <2>3. CASE End(e)
    <3>1. PICK c : c = Ready
      OBVIOUS
    <3>2. Advances(e, c) /\ CallOK(c)'
      BY <2>3, <3>1, Ends DEF CallOK
    <3> QED
      BY <1>0, <1>1, <2>1, <3>2, QueueStep, Names DEF RemoveOld
  <2> QED
    BY <1>1, <2>2, <2>3 DEF RemoveOld
<1>2. CASE UNCHANGED queue /\ End(e)
  BY <1>2, EndStep DEF RemoveOld
<1> QED
  BY <1>1, <1>2 DEF RemoveOld

LEMMA RemoveLateStep ==
  ASSUME AdmissionIInv, NEW e \in Executor, RemoveLate(e)
  PROVE  AdmissionIInv'
<1>0. JobOf(e) \in Job /\ exec[e].pc = "removeLate"
  BY Present DEF RemoveLate, CallOK
<1>1. CASE Removable(JobOf(e)) /\ queue' = [queue EXCEPT ![JobOf(e)] = Absent]
  <2>1. worker.job # JobOf(e)
    BY <1>0, <1>1 DEF Removable, AdmissionIInv, QueueOK
  <2>2. PICK next \in {"release", "waitAgain"} : At(e, next)
    BY DEF RemoveLate
  <2>3. PICK c : Advances(e, c) /\ c.pc = next /\ c.job = JobOf(e)
    BY <1>0, <2>2, Goes, Names
  <2>4. CallOK(c)'
    BY <1>0, <1>1, <2>3, Present DEF CallOK
  <2> QED
    BY <1>0, <1>1, <2>1, <2>3, <2>4, QueueStep, Names DEF RemoveLate
<1>2. CASE UNCHANGED queue /\ At(e, "waitAgain")
  BY <1>0, <1>2, MoveStep, Names DEF RemoveLate
<1> QED
  BY <1>1, <1>2 DEF RemoveLate

LEMMA WaitingEntry ==
  ASSUME NEW n \in 0..MaxAttempts
  PROVE  \E q \in Entry : /\ q = [Absent EXCEPT !.state = "waiting", !.attempt = n]
                          /\ q.state = "waiting" /\ q.stalls = 0
<1>1. ASSUME NEW m \in Entry
      PROVE  LET q == [m EXCEPT !.state = "waiting", !.attempt = n]
             IN  q \in Entry /\ q.state = "waiting" /\ q.stalls = m.stalls
  BY DEF Entry
<1>2. Absent \in Entry /\ Absent.stalls = 0
  BY Names
<1> QED
  BY <1>1, <1>2, Zenon

(* The entry a call adds is reserved: its reservation is too young to have *)
(* been swept.                                                             *)
LEMMA AddStep ==
  ASSUME AdmissionIInv, NEW e \in Executor, Add(e)
  PROVE  AdmissionIInv'
<1> DEFINE mine == [Absent EXCEPT !.state = "waiting", !.attempt = exec[e].attempt]
<1>0. /\ JobOf(e) \in Job /\ exec[e].pc = "add" /\ queue[JobOf(e)] = Absent
      /\ reserved[JobOf(e)] # None
  BY Present DEF Add, CallOK
<1>1. worker.job # JobOf(e)
  BY <1>0 DEF AdmissionIInv, QueueOK
<1>2. PICK q \in Entry : q = mine /\ q.state = "waiting" /\ q.stalls = 0
  <2>1. exec[e].attempt \in 0..MaxAttempts
    BY Present DEF ExecCall
  <2> QED
    BY <2>1, WaitingEntry
<1>3. CASE queue' = [queue EXCEPT ![JobOf(e)] = IF @ = Absent THEN mine ELSE @]
  <2>1. queue' = [queue EXCEPT ![JobOf(e)] = q]
    BY <1>0, <1>2, <1>3
  <2>2. UNCHANGED <<reserved, worker, attempts>> /\ (Fault \/ NoFault)
    BY DEF Add
  <2>5. /\ q.state # "active" /\ (q.state = "absent" => q = Absent)
        /\ q.state = "waiting" => q.stalls < 2 /\ reserved[JobOf(e)] # None
    BY <1>0, <1>2
  <2> HIDE DEF mine
  <2>3. CASE At(e, "wait")
    <3>1. PICK c : Advances(e, c) /\ c.pc = "wait" /\ c.job = JobOf(e)
      BY <1>0, <2>3, Goes, Names
    <3>2. CallOK(c)'
      BY <1>0, <3>1 DEF CallOK
    <3> QED
      BY <1>0, <1>1, <2>1, <2>2, <2>5, <3>1, <3>2, QueueStep, Zenon
  <2>4. CASE End(e)
    <3>1. PICK c : c = Ready
      OBVIOUS
    <3>2. Advances(e, c) /\ CallOK(c)'
      BY <2>4, <3>1, Ends DEF CallOK
    <3> QED
      BY <1>0, <1>1, <2>1, <2>2, <2>5, <3>2, QueueStep
  <2> QED
    BY <2>3, <2>4 DEF Add
<1>4. CASE UNCHANGED queue /\ End(e)
  BY <1>4, EndStep DEF Add
<1> QED
  BY <1>3, <1>4 DEF Add

LEMMA ReserveStep ==
  ASSUME AdmissionIInv, NEW e \in Executor, Reserve(e)
  PROVE  AdmissionIInv'
<1> DEFINE j == JobOf(e)
<1>0. /\ j \in Job /\ exec[e].pc = "reserve" /\ queue[j] = Absent
      /\ exec[e].age \in 0..Submission
  BY Present DEF Reserve, CallOK, ExecCall
<1>1. CASE reserved' = AfterReserve(j, exec[e].age)
  <2>1. reserved' \in [Job -> (0..Grace) \union {-1}]
    BY <1>0, <1>1, Present DEF AfterReserve
  <2>2. \A i \in Job \ {j} : reserved'[i] = reserved[i] \/ (reserved[i] >= Grace /\ queue[i].state = "absent")
    BY <1>1 DEF AfterReserve, Swept
  <2>3. CASE Added(j) /\ At(e, "add")
    <3>1. PICK c : Advances(e, c) /\ c.pc = "add" /\ c.job = j /\ c.age = 0
      BY <1>0, <2>3, Goes, Names
    <3>2. reserved'[j] = exec[e].age
      BY <1>0, <1>1, <2>3 DEF AfterReserve
    <3>3. CallOK(c)'
      BY <1>0, <3>1, <3>2 DEF CallOK, Reserve
    <3> QED
      BY <1>0, <2>1, <2>2, <3>1, <3>3, ReservationStep DEF Reserve
  <2>4. CASE End(e)
    <3>1. PICK c : c = Ready
      OBVIOUS
    <3>2. Advances(e, c) /\ CallOK(c)'
      BY <2>4, <3>1, Ends DEF CallOK
    <3> QED
      BY <1>0, <2>1, <2>2, <3>2, ReservationStep DEF Reserve
  <2> QED
    BY <2>3, <2>4 DEF Reserve
<1>2. CASE UNCHANGED reserved /\ End(e)
  BY <1>2, EndStep DEF Reserve
<1> QED
  BY <1>1, <1>2 DEF Reserve

(* A call releases a job that is absent or at its end.                     *)
LEMMA ReleaseOldStep ==
  ASSUME AdmissionIInv, NEW e \in Executor, ReleaseOld(e)
  PROVE  AdmissionIInv'
<1>0. JobOf(e) \in Job /\ exec[e].pc = "releaseOld" /\ queue[JobOf(e)] = Absent
  BY Present DEF ReleaseOld, CallOK
<1>1. PICK c : Advances(e, c) /\ c.pc = "reserve" /\ c.job = JobOf(e)
  BY <1>0, Goes, Names DEF ReleaseOld, ReleaseThen
<1>2. CallOK(c)'
  BY <1>0, <1>1 DEF CallOK, ReleaseOld, ReleaseThen
<1>3. /\ reserved' \in [Job -> (0..Grace) \union {-1}]
      /\ \A j \in Job \ {JobOf(e)} : reserved'[j] = reserved[j]
  BY <1>0, Present DEF ReleaseOld, ReleaseThen, Release
<1> QED
  BY <1>0, <1>1, <1>2, <1>3, ReservationStep DEF ReleaseOld, ReleaseThen

LEMMA ReleaseLastStep ==
  ASSUME AdmissionIInv, NEW e \in Executor, ReleaseLast(e)
  PROVE  AdmissionIInv'
<1>0. JobOf(e) \in Job /\ queue[JobOf(e)].state \in {"completed", "failed", "absent"}
  BY Present DEF ReleaseLast, CallOK
<1>1. PICK c : c = Ready
  OBVIOUS
<1>2. Advances(e, c) /\ CallOK(c)'
  BY <1>1, Ends DEF CallOK, ReleaseLast, ReleaseThen
<1>3. /\ reserved' \in [Job -> (0..Grace) \union {-1}]
      /\ \A j \in Job \ {JobOf(e)} : reserved'[j] = reserved[j]
  BY <1>0, Present DEF ReleaseLast, ReleaseThen, Release
<1> QED
  BY <1>0, <1>2, <1>3, ReservationStep DEF ReleaseLast, ReleaseThen

LEMMA WaitStep ==
  ASSUME AdmissionIInv, NEW e \in Executor, Wait(e)
  PROVE  AdmissionIInv'
<1>0. exec[e].pc # "ready" /\ UNCHANGED <<reserved, queue, worker, attempts>>
  BY DEF Wait
<1>1. CASE queue[JobOf(e)].state = "completed" /\ At(e, "release") /\ NoFault
  BY <1>0, <1>1, MoveStep, Names
<1>2. CASE (At(e, "releaseIfTerminal") \/ At(e, "timedOut")) /\ (Fault \/ NoFault)
  BY <1>0, <1>2, MoveStep, Names
<1>3. CASE End(e) /\ NoFault
  BY <1>0, <1>3, EndStep
<1> QED
  BY <1>1, <1>2, <1>3 DEF Wait

LEMMA TimedOutStep ==
  ASSUME AdmissionIInv, NEW e \in Executor, TimedOut(e)
  PROVE  AdmissionIInv'
<1>1. At(e, "removeLate") \/ At(e, "waitAgain")
  BY DEF TimedOut
<1> QED
  BY <1>1, MoveStep, Names DEF TimedOut

LEMMA ReleaseIfTerminalStep ==
  ASSUME AdmissionIInv, NEW e \in Executor, ReleaseIfTerminal(e)
  PROVE  AdmissionIInv'
<1>1. CASE queue[JobOf(e)].state \in Terminal /\ At(e, "release") /\ NoFault
  BY <1>1, MoveStep, Names DEF ReleaseIfTerminal
<1> QED
  BY <1>1, EndStep DEF ReleaseIfTerminal

LEMMA WebCrashStep ==
  ASSUME AdmissionIInv, NEW e \in Executor, WebCrash(e)
  PROVE  AdmissionIInv'
BY EndStep DEF WebCrash

-----------------------------------------------------------------------------
(* The worker, BullMQ and time *)

(* A step that moves the entry of a job no call is about to add.           *)
LEMMA EntryStep ==
  ASSUME AdmissionIInv, NEW j \in Job, NEW q \in Entry,
         queue' = [queue EXCEPT ![j] = q],
         queue[j].state # "absent",
         queue[j].state \in Terminal => q.state \in Terminal \union {"absent"},
         q.state = "absent" => q = Absent,
         UNCHANGED <<reserved, attempts, exec>>,
         worker' \in [job : Job \union {NoJob}, released : BOOLEAN],
         worker'.job \in Job => queue'[worker'.job].state = "active",
         worker'.job = NoJob => ~worker'.released,
         \A i \in Job \ {j} : worker'.job = i => worker' = worker,
         q.state = "active" => q.stalls < 2,
         q.state = "waiting" => q.stalls < 2,
         (q.state = "waiting" \/ (worker'.job = j /\ ~worker'.released)) /\ q.stalls = 0
           => reserved[j] # None,
         Fault \/ NoFault
  PROVE  AdmissionIInv'
<1>1. queue' \in [Job -> Entry] /\ queue'[j] = q /\ \A i \in Job \ {j} : queue'[i] = queue[i]
  BY Present
<1>2. Typed'
  BY <1>1, Counted DEF AdmissionIInv, Typed, TypeOK, Entry
<1>3. DrivenAlone'
  BY DEF AdmissionIInv, DrivenAlone
<1>4. CallsOK'
  <2>1. ASSUME NEW e \in Executor PROVE CallOK(exec[e])'
    BY <1>1, Present DEF CallOK
  <2> QED
    BY <2>1 DEF CallsOK
<1>5. QueueOK'
  BY <1>1 DEF AdmissionIInv, QueueOK
<1>6. PendingIsReserved'
  BY <1>1 DEF AdmissionIInv, PendingIsReserved, Pending, Reserved
<1> QED
  BY <1>2, <1>3, <1>4, <1>5, <1>6 DEF AdmissionIInv

LEMMA TakeStep ==
  ASSUME AdmissionIInv, NEW j \in Job, Take(j)
  PROVE  AdmissionIInv'
<1> DEFINE q == [queue[j] EXCEPT !.state = "active"]
<1>1. q \in Entry /\ q.state = "active" /\ q.stalls = queue[j].stalls
  BY Present DEF Entry
<1>2. queue' = [queue EXCEPT ![j] = q] /\ queue'[j] = q
  BY Present DEF Take
<1>3. queue[j].stalls < 2 /\ (queue[j].stalls = 0 => reserved[j] # None)
  BY DEF Take, AdmissionIInv, Typed, TypeOK, PendingIsReserved, Pending, Reserved
<1> HIDE DEF q
<1> QED
  BY <1>1, <1>2, <1>3, EntryStep DEF Take, NoFault

LEMMA StalledStep ==
  ASSUME AdmissionIInv, NEW j \in Job, Stalled(j)
  PROVE  AdmissionIInv'
<1> DEFINE q == [queue[j] EXCEPT !.stalls = @ + 1,
                                 !.state = IF queue[j].stalls = 0 THEN "waiting" ELSE "failed"]
<1>1. queue[j].state = "active" /\ queue[j].stalls \in 0..1
  BY Present DEF Stalled, AdmissionIInv, QueueOK, Entry
<1>2. q \in Entry /\ q.stalls = queue[j].stalls + 1
      /\ q.state = (IF queue[j].stalls = 0 THEN "waiting" ELSE "failed")
  <2>1. queue[j] \in Entry /\ queue[j].stalls + 1 \in 0..2
    BY <1>1, Present
  <2>2. PICK state \in States : state = IF queue[j].stalls = 0 THEN "waiting" ELSE "failed"
    OBVIOUS
  <2>3. PICK m \in Entry, n \in 0..2 : m = queue[j] /\ n = queue[j].stalls + 1
    BY <2>1
  <2>4. q = [m EXCEPT !.stalls = n, !.state = state]
    BY <2>2, <2>3, Zenon
  <2> HIDE DEF q
  <2>5. LET p == [m EXCEPT !.stalls = n, !.state = state]
        IN  p \in Entry /\ p.stalls = n /\ p.state = state
    BY <2>2, <2>3 DEF Entry
  <2> QED
    BY <2>2, <2>3, <2>4, <2>5
<1>3. queue' = [queue EXCEPT ![j] = q] /\ queue'[j] = q
  BY Present DEF Stalled
<1>4. /\ worker' = worker /\ worker.job # j /\ worker \in [job : Job \union {NoJob}, released : BOOLEAN]
      /\ worker.job \in Job => queue'[worker.job].state = "active"
      /\ worker.job = NoJob => ~worker.released
  BY <1>3, Present DEF Stalled, AdmissionIInv, Typed, TypeOK, QueueOK
<1> HIDE DEF q
<1>5. /\ queue[j].state # "absent" /\ queue[j].state \notin {"completed", "failed"}
      /\ q.state # "absent" /\ q.state # "active" /\ q.stalls # 0
      /\ q.state = "waiting" => q.stalls < 2
  BY <1>1, <1>2
<1>6. UNCHANGED <<reserved, attempts, exec>> /\ NoFault
  BY DEF Stalled, NoFault
<1>7. \A i \in Job \ {j} : worker'.job = i => worker' = worker
  BY <1>4
<1>8. worker'.job # j /\ worker' \in [job : Job \union {NoJob}, released : BOOLEAN]
      /\ (worker'.job \in Job => queue'[worker'.job].state = "active")
      /\ (worker'.job = NoJob => ~worker'.released)
  BY <1>4
<1> QED
  BY <1>2, <1>3, <1>5, <1>6, <1>7, <1>8, EntryStep

LEMMA RetireStep ==
  ASSUME AdmissionIInv, NEW j \in Job, Retire(j)
  PROVE  AdmissionIInv'
<1>1. worker' = worker /\ worker.job # j /\ worker \in [job : Job \union {NoJob}, released : BOOLEAN]
      /\ (worker.job \in Job => queue'[worker.job].state = "active")
      /\ (worker.job = NoJob => ~worker.released)
  BY Present DEF Retire, AdmissionIInv, Typed, TypeOK, QueueOK
<1> QED
  BY <1>1, EntryStep, Names, Present DEF Retire, NoFault

LEMMA WorkerFinishStep ==
  ASSUME AdmissionIInv, WorkerFinish
  PROVE  AdmissionIInv'
<1> DEFINE j == worker.job
<1>1. j \in Job /\ queue[j].state = "active"
  BY DEF WorkerFinish, AdmissionIInv, Typed, TypeOK, QueueOK
<1>2. PICK state \in Terminal : queue' = [queue EXCEPT ![j].state = state]
  BY DEF WorkerFinish
<1> DEFINE q == [queue[j] EXCEPT !.state = state]
<1>3. q \in Entry /\ q.state = state
  BY <1>1, Present DEF Entry
<1>4. queue' = [queue EXCEPT ![j] = q]
  BY <1>1, <1>2, Present
<1>5. /\ worker' \in [job : Job \union {NoJob}, released : BOOLEAN]
      /\ worker'.job = NoJob /\ ~worker'.released
  BY DEF WorkerFinish
<1> HIDE DEF q
<1>6. /\ queue[j].state # "absent" /\ queue[j].state \notin {"completed", "failed"}
      /\ q.state # "absent" /\ q.state # "active" /\ q.state # "waiting"
      /\ \A i \in Job : worker'.job # i
  BY <1>1, <1>3, <1>5
<1>7. UNCHANGED <<reserved, attempts, exec>> /\ NoFault
  BY DEF WorkerFinish, NoFault
<1> QED
  BY <1>1, <1>3, <1>4, <1>5, <1>6, <1>7, EntryStep

LEMMA WorkerReleaseStep ==
  ASSUME AdmissionIInv, WorkerRelease
  PROVE  AdmissionIInv'
<1>1. worker.job \in Job /\ queue[worker.job].state = "active"
  BY DEF WorkerRelease, AdmissionIInv, Typed, TypeOK, QueueOK
<1>2. /\ reserved' \in [Job -> (0..Grace) \union {-1}]
      /\ \A j \in Job \ {worker.job} : reserved'[j] = reserved[j]
  BY <1>1, Present DEF WorkerRelease, Release
<1>3. worker' \in [job : Job \union {NoJob}, released : BOOLEAN] /\ worker'.job = worker.job /\ worker'.released
  BY DEF WorkerRelease, AdmissionIInv, Typed, TypeOK
<1>4. Typed'
  BY <1>2, <1>3, Counted DEF WorkerRelease, AdmissionIInv, Typed, TypeOK
<1>5. CallsOK'
  BY <1>1, <1>2, Present DEF WorkerRelease, CallsOK, CallOK
<1>6. DrivenAlone' /\ QueueOK'
  BY <1>1, <1>3 DEF WorkerRelease, AdmissionIInv, DrivenAlone, QueueOK
<1>7. PendingIsReserved'
  BY <1>1, <1>2, <1>3 DEF WorkerRelease, AdmissionIInv, PendingIsReserved, Pending, Reserved
<1> QED
  BY <1>4, <1>5, <1>6, <1>7 DEF AdmissionIInv

LEMMA WorkerCrashStep ==
  ASSUME AdmissionIInv, WorkerCrash
  PROVE  AdmissionIInv'
<1>1. worker' = [job |-> NoJob, released |-> FALSE]
  BY DEF WorkerCrash
<1>2. Typed' /\ DrivenAlone' /\ CallsOK' /\ QueueOK'
  BY <1>1, Counted DEF WorkerCrash, AdmissionIInv, Typed, TypeOK, DrivenAlone, CallsOK, CallOK, QueueOK
<1>3. PendingIsReserved'
  BY <1>1 DEF WorkerCrash, AdmissionIInv, PendingIsReserved, Pending, Reserved
<1> QED
  BY <1>2, <1>3 DEF AdmissionIInv

(* A reservation ages with the command that follows it.                    *)
LEMMA PassStep ==
  ASSUME AdmissionIInv, Pass
  PROVE  AdmissionIInv'
<1>1. /\ reserved' \in [Job -> (0..Grace) \union {-1}]
      /\ \A j \in Job : /\ reserved'[j] = -1 <=> reserved[j] = -1
                       /\ reserved'[j] <= reserved[j] + 1
  BY Present DEF Pass
<1>2. ASSUME NEW e \in Executor
      PROVE  /\ exec'[e] \in ExecCall /\ CallOK(exec[e])'
             /\ exec'[e].job = exec[e].job
  <2>1. exec[e] \in ExecCall /\ CallOK(exec[e])
    BY Present
  <2>2. CASE Commanding(e)
    <3>1. exec'[e] = [exec[e] EXCEPT !.age = @ + 1] /\ exec[e].age + 1 \in 0..Submission
      BY <2>1, <2>2 DEF Pass, ExecCall
    <3>2. /\ exec'[e] \in ExecCall /\ exec'[e].age = exec[e].age + 1
          /\ exec'[e].pc = exec[e].pc /\ exec'[e].job = exec[e].job
      BY <2>1, <3>1 DEF ExecCall
    <3>3. exec[e].pc = "add" => reserved'[exec[e].job] # None
                                /\ reserved'[exec[e].job] <= exec'[e].age + Submission
      BY <1>1, <2>1, <3>2, Present DEF CallOK, ExecCall
    <3> QED
      BY <2>1, <3>2, <3>3 DEF CallOK, Pass
  <2>3. CASE ~Commanding(e)
    <3>1. exec'[e] = exec[e] /\ exec[e].pc # "add"
      BY <2>3 DEF Pass, Commanding
    <3> QED
      BY <2>1, <3>1 DEF CallOK, Pass
  <2> QED
    BY <2>2, <2>3
<1>3. Typed'
  BY <1>1, <1>2, Present DEF Pass, AdmissionIInv, Typed, TypeOK, ExecCall
<1>4. DrivenAlone' /\ CallsOK'
  BY <1>2 DEF AdmissionIInv, DrivenAlone, CallsOK
<1>5. QueueOK' /\ PendingIsReserved'
  BY <1>1 DEF Pass, AdmissionIInv, QueueOK, PendingIsReserved, Pending, Reserved
<1> QED
  BY <1>3, <1>4, <1>5 DEF AdmissionIInv

-----------------------------------------------------------------------------
(* The invariant *)

LEMMA InitGood == Init => AdmissionIInv
<1> SUFFICES ASSUME Init PROVE AdmissionIInv
  OBVIOUS
<1>1. Typed
  BY Names DEF Init, Typed, TypeOK
<1>2. DrivenAlone /\ CallsOK
  BY DEF Init, DrivenAlone, CallsOK, CallOK
<1>3. QueueOK /\ PendingIsReserved
  BY DEF Init, QueueOK, PendingIsReserved, Pending
<1> QED
  BY <1>1, <1>2, <1>3 DEF AdmissionIInv

LEMMA StutterStep ==
  ASSUME AdmissionIInv, UNCHANGED vars
  PROVE  AdmissionIInv'
BY DEF vars, AdmissionIInv, Typed, TypeOK, DrivenAlone, CallsOK, CallOK, QueueOK, PendingIsReserved,
   Pending, Reserved

LEMMA InductiveInvariant == Spec => []AdmissionIInv
<1>1. AdmissionIInv /\ [Next]_vars => AdmissionIInv'
  BY StutterStep, PassStep, BeginStep, LookupStep, RemoveOldStep, ReleaseOldStep, ReserveStep, AddStep,
     WaitStep, TimedOutStep, RemoveLateStep, ReleaseLastStep, ReleaseIfTerminalStep, WebCrashStep,
     TakeStep, StalledStep, RetireStep, WorkerReleaseStep, WorkerFinishStep, WorkerCrashStep
  DEF Next, Call
<1> QED
  BY <1>1, InitGood, PTL DEF Spec

(* Admitted work stays reserved from its admission to its end, and a       *)
(* reservation is not swept while its job is on the way to the queue       *)
(* (bullmq-executor.ts: reserveAdmissionScript, #releaseAdmission).        *)
THEOREM AdmissionSafe == Spec => []AdmissionInv
<1>1. AdmissionIInv => AdmissionInv
  BY DEF AdmissionIInv, AdmissionInv, Typed, SubmissionKeepsReservation, CallsOK, CallOK, Reserved, ExecCall
<1> QED
  BY <1>1, InductiveInvariant, PTL

(* Two calls never drive the same job, and what a call adds was not queued *)
(* by another (bullmq-executor.ts: execute).                               *)
OneCallPerJob ==
  /\ \A e, f \in Executor : e # f /\ JobOf(e) \in Job => JobOf(e) # JobOf(f)
  /\ \A e \in Executor : exec[e].pc = "add" => queue[JobOf(e)] = Absent

(* The call that claimed a job is the only one that submits it (execute).  *)
THEOREM OneCallDrivesAJob == Spec => []OneCallPerJob
<1>1. AdmissionIInv => OneCallPerJob
  BY DEF AdmissionIInv, OneCallPerJob, DrivenAlone, CallsOK, CallOK
<1> QED
  BY <1>1, InductiveInvariant, PTL
=============================================================================
