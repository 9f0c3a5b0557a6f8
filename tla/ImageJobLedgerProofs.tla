------------------------ MODULE ImageJobLedgerProofs ------------------------
(***************************************************************************)
(* Every transaction of the ledger writes one row, and writes it well      *)
(* (CommandWrites, from the row lemmas of ImageJobPolicyProofs); hence the *)
(* ledger keeps LedgerInv (LedgerStep), for any number of jobs, attempts,  *)
(* clock readings and tokens.                                              *)
(***************************************************************************)
EXTENDS ImageJobLedger, ImageJobPolicyProofs

-----------------------------------------------------------------------------
(* The ledger *)

(* The inductive invariant: types, and every stored row good.              *)
RowsOK == \A id \in JobId : jobs[id] = None \/ RowOK(jobs[id])
IInv == TypeOK /\ RowsOK

LEMMA RowOfType ==
  ASSUME NEW j, RowOK(j)
  PROVE  j \in Job
BY DEF RowOK

(* A transaction writes one row, and writes it well.                       *)
Wrote(id) ==
  \E k \in Job : /\ RowOK(k)
                 /\ jobs[id] # None /\ RowMoves(jobs[id], k)
                 /\ jobs' = [jobs EXCEPT ![id] = k]
                 /\ UNCHANGED requestKey

LEMMA TransitionWrites ==
  ASSUME IInv, NEW id \in JobId, NEW may, NEW after, NEW at \in Nat,
         Transition(id, may, after, at),
         (Applying(jobs[id], at) /\ may) => RowOK(after) /\ RowMoves(jobs[id], after)
  PROVE  Wrote(id)
<1>1. Applying(jobs[id], at) /\ may
  BY DEF IInv, RowsOK, Transition, Applying
<1>2. RowOK(after) /\ RowMoves(jobs[id], after) /\ after \in Job
  BY <1>1, RowOfType
<1> QED
  BY <1>2 DEF Transition, Wrote

LEMMA CommandWrites ==
  ASSUME IInv, NEW id \in JobId, NEW at \in Time, Command(id, at)
  PROVE  Wrote(id)
<1> USE LedgerConstants
<1>1. CASE Enqueue(id, at)
  <2>1. PICK notBefore \in Time :
          Transition(id, MayEnqueue(jobs[id], notBefore, at),
            AfterEnqueue(jobs[id], notBefore, at), at)
    BY <1>1 DEF Enqueue
  <2>2. ASSUME Applying(jobs[id], at), MayEnqueue(jobs[id], notBefore, at)
        PROVE  /\ RowOK(AfterEnqueue(jobs[id], notBefore, at))
               /\ RowMoves(jobs[id], AfterEnqueue(jobs[id], notBefore, at))
    BY <2>2, EnqueueOK, EnqueueMoves DEF Applying
  <2> QED
    BY <2>1, <2>2, TransitionWrites
<1>2. CASE ClaimProcessing(id, at)
  <2>1. PICK o \in Owner, t \in Token, expires \in Time :
          Transition(id, MayClaimProcessing(jobs[id], at, expires),
            AfterClaimProcessing(jobs[id], LeaseFor(o, t, at, expires), at), at)
    BY <1>2 DEF ClaimProcessing
  <2>2. ASSUME Applying(jobs[id], at), MayClaimProcessing(jobs[id], at, expires)
        PROVE  /\ RowOK(AfterClaimProcessing(jobs[id], LeaseFor(o, t, at, expires), at))
               /\ RowMoves(jobs[id], AfterClaimProcessing(jobs[id], LeaseFor(o, t, at, expires), at))
    BY <2>2, ClaimProcessingOK, ClaimProcessingMoves DEF Applying
  <2> QED
    BY <2>1, <2>2, TransitionWrites
<1>3. CASE RecordOutputReady(id, at)
  <2>1. PICK t \in Token :
          Transition(id, MayRecordOutputReady(jobs[id], t, at),
            AfterRecordOutputReady(jobs[id], at), at)
    BY <1>3 DEF RecordOutputReady
  <2>2. ASSUME Applying(jobs[id], at), MayRecordOutputReady(jobs[id], t, at)
        PROVE  /\ RowOK(AfterRecordOutputReady(jobs[id], at))
               /\ RowMoves(jobs[id], AfterRecordOutputReady(jobs[id], at))
    BY <2>2, RecordOutputReadyOK, RecordOutputReadyMoves DEF Applying
  <2> QED
    BY <2>1, <2>2, TransitionWrites
<1>4. CASE BeginPublication(id, at)
  <2>1. PICK t \in Token :
          Transition(id, MayBeginPublication(jobs[id], t, at),
            AfterBeginPublication(jobs[id], at), at)
    BY <1>4 DEF BeginPublication
  <2>2. ASSUME Applying(jobs[id], at), MayBeginPublication(jobs[id], t, at)
        PROVE  /\ RowOK(AfterBeginPublication(jobs[id], at))
               /\ RowMoves(jobs[id], AfterBeginPublication(jobs[id], at))
    BY <2>2, BeginPublicationOK, BeginPublicationMoves DEF Applying
  <2> QED
    BY <2>1, <2>2, TransitionWrites
<1>5. CASE MarkReady(id, at)
  <2>1. PICK t \in Token :
          Transition(id, MayMarkReady(jobs[id], t, at),
            AfterMarkReady(jobs[id], at), at)
    BY <1>5 DEF MarkReady
  <2>2. ASSUME Applying(jobs[id], at), MayMarkReady(jobs[id], t, at)
        PROVE  /\ RowOK(AfterMarkReady(jobs[id], at))
               /\ RowMoves(jobs[id], AfterMarkReady(jobs[id], at))
    BY <2>2, MarkReadyOK, MarkReadyMoves DEF MayMarkReady, Applying
  <2> QED
    BY <2>1, <2>2, TransitionWrites
<1>6. CASE RecordFailure(id, at)
  <2>1. PICK t \in Token, p \in BOOLEAN, retryAt \in Time \union {None} :
          Transition(id, MayRecordFailure(jobs[id], t, at),
            AfterRecordFailure(jobs[id], p, retryAt, at), at)
    BY <1>6 DEF RecordFailure
  <2>2. ASSUME Applying(jobs[id], at), MayRecordFailure(jobs[id], t, at)
        PROVE  /\ RowOK(AfterRecordFailure(jobs[id], p, retryAt, at))
               /\ RowMoves(jobs[id], AfterRecordFailure(jobs[id], p, retryAt, at))
    BY <2>2, RecordFailureOK, RecordFailureMoves DEF Applying
  <2> QED
    BY <2>1, <2>2, TransitionWrites
<1>7. CASE RecoverReady(id, at)
  <2>1. Transition(id, MayRecoverReady(jobs[id], at), AfterMarkReady(jobs[id], at), at)
    BY <1>7 DEF RecoverReady
  <2>2. ASSUME Applying(jobs[id], at), MayRecoverReady(jobs[id], at)
        PROVE  /\ RowOK(AfterMarkReady(jobs[id], at))
               /\ RowMoves(jobs[id], AfterMarkReady(jobs[id], at))
    BY <2>2, MarkReadyOK, MarkReadyMoves DEF MayRecoverReady, Applying
  <2> QED
    BY <2>1, <2>2, TransitionWrites
<1>8. CASE RecoverRetry(id, at)
  <2>1. PICK retryAt \in Time :
          Transition(id, MayRecoverRetry(jobs[id], at),
            AfterRecoverRetry(jobs[id], retryAt, at), at)
    BY <1>8 DEF RecoverRetry
  <2>2. ASSUME Applying(jobs[id], at), MayRecoverRetry(jobs[id], at)
        PROVE  /\ RowOK(AfterRecoverRetry(jobs[id], retryAt, at))
               /\ RowMoves(jobs[id], AfterRecoverRetry(jobs[id], retryAt, at))
    BY <2>2, RecoverRetryOK, RecoverRetryMoves DEF MayRecoverRetry, Applying
  <2> QED
    BY <2>1, <2>2, TransitionWrites
<1>9. CASE RequireCompensation(id, at)
  <2>1. PICK retryAt \in Time :
          Transition(id, MayRequireCompensation(jobs[id], at),
            AfterRequireCompensation(jobs[id], retryAt, at), at)
    BY <1>9 DEF RequireCompensation
  <2>2. ASSUME Applying(jobs[id], at), MayRequireCompensation(jobs[id], at)
        PROVE  /\ RowOK(AfterRequireCompensation(jobs[id], retryAt, at))
               /\ RowMoves(jobs[id], AfterRequireCompensation(jobs[id], retryAt, at))
    BY <2>2, RequireCompensationOK, RequireCompensationMoves DEF MayRequireCompensation, Applying
  <2> QED
    BY <2>1, <2>2, TransitionWrites
<1>10. CASE ClaimCompensation(id, at)
  <2>1. PICK o \in Owner, t \in Token, expires \in Time :
          Transition(id, MayClaimCompensation(jobs[id], at, expires),
            AfterClaimCompensation(jobs[id], LeaseFor(o, t, at, expires), at), at)
    BY <1>10 DEF ClaimCompensation
  <2>2. ASSUME Applying(jobs[id], at), MayClaimCompensation(jobs[id], at, expires)
        PROVE  /\ RowOK(AfterClaimCompensation(jobs[id], LeaseFor(o, t, at, expires), at))
               /\ RowMoves(jobs[id], AfterClaimCompensation(jobs[id], LeaseFor(o, t, at, expires), at))
    BY <2>2, ClaimCompensationOK, ClaimCompensationMoves DEF Applying
  <2> QED
    BY <2>1, <2>2, TransitionWrites
<1>11. CASE MarkCompensated(id, at)
  <2>1. PICK t \in Token :
          Transition(id, MayMarkCompensated(jobs[id], t, at),
            AfterMarkCompensated(jobs[id], at), at)
    BY <1>11 DEF MarkCompensated
  <2>2. ASSUME Applying(jobs[id], at), MayMarkCompensated(jobs[id], t, at)
        PROVE  /\ RowOK(AfterMarkCompensated(jobs[id], at))
               /\ RowMoves(jobs[id], AfterMarkCompensated(jobs[id], at))
    BY <2>2, MarkCompensatedOK, MarkCompensatedMoves DEF MayMarkCompensated, Applying
  <2> QED
    BY <2>1, <2>2, TransitionWrites
<1>12. CASE RecoverCompensated(id, at)
  <2>1. Transition(id, MayRecoverCompensated(jobs[id], at), AfterMarkCompensated(jobs[id], at), at)
    BY <1>12 DEF RecoverCompensated
  <2>2. ASSUME Applying(jobs[id], at), MayRecoverCompensated(jobs[id], at)
        PROVE  /\ RowOK(AfterMarkCompensated(jobs[id], at))
               /\ RowMoves(jobs[id], AfterMarkCompensated(jobs[id], at))
    BY <2>2, MarkCompensatedOK, MarkCompensatedMoves DEF MayRecoverCompensated, Applying
  <2> QED
    BY <2>1, <2>2, TransitionWrites
<1>13. CASE RecordCompensationFailure(id, at)
  <2>1. PICK t \in Token, retryAt \in Time :
          Transition(id, MayRecordCompensationFailure(jobs[id], t, at),
            AfterRecordCompensationFailure(jobs[id], retryAt, at), at)
    BY <1>13 DEF RecordCompensationFailure
  <2>2. ASSUME Applying(jobs[id], at), MayRecordCompensationFailure(jobs[id], t, at)
        PROVE  /\ RowOK(AfterRecordCompensationFailure(jobs[id], retryAt, at))
               /\ RowMoves(jobs[id], AfterRecordCompensationFailure(jobs[id], retryAt, at))
    BY <2>2, RecordCompensationFailureOK, RecordCompensationFailureMoves DEF MayRecordCompensationFailure, Applying
  <2> QED
    BY <2>1, <2>2, TransitionWrites
<1>14. CASE MarkManualReview(id, at)
  <2>1. Transition(id, MayMarkManualReview(jobs[id], at), AfterMarkManualReview(jobs[id], at), at)
    BY <1>14 DEF MarkManualReview
  <2>2. ASSUME Applying(jobs[id], at), MayMarkManualReview(jobs[id], at)
        PROVE  /\ RowOK(AfterMarkManualReview(jobs[id], at))
               /\ RowMoves(jobs[id], AfterMarkManualReview(jobs[id], at))
    BY <2>2, MarkManualReviewOK, MarkManualReviewMoves DEF MayMarkManualReview, Applying
  <2> QED
    BY <2>1, <2>2, TransitionWrites
<1> QED
  BY <1>1, <1>2, <1>3, <1>4, <1>5, <1>6, <1>7, <1>8, <1>9, <1>10, <1>11, <1>12, <1>13, <1>14 DEF Command

LEMMA WriteKeeps ==
  ASSUME IInv, NEW id \in JobId, Wrote(id)
  PROVE  IInv'
<1>1. PICK k \in Job : RowOK(k) /\ jobs' = [jobs EXCEPT ![id] = k] /\ UNCHANGED requestKey
  BY DEF Wrote
<1>2. TypeOK'
  BY <1>1 DEF IInv, TypeOK
<1>3. RowsOK'
  BY <1>1 DEF IInv, TypeOK, RowsOK
<1> QED
  BY <1>2, <1>3 DEF IInv

LEMMA ReserveKeeps ==
  ASSUME IInv, NEW id \in JobId, NEW at \in Time, NEW key \in RequestKey, Reserve(id, key, at)
  PROVE  IInv'
<1>1. RowOK(CreatedJob(at)) /\ CreatedJob(at) \in Job
  BY LedgerConstants, CreatedOK, RowOfType
<1>2. TypeOK'
  BY <1>1 DEF IInv, TypeOK, Reserve
<1>3. RowsOK'
  BY <1>1 DEF IInv, TypeOK, RowsOK, Reserve
<1> QED
  BY <1>2, <1>3 DEF IInv

LEMMA LedgerStep == IInv /\ [Next]_vars => IInv'
<1> SUFFICES ASSUME IInv, [Next]_vars PROVE IInv'
  OBVIOUS
<1>1. CASE Next
  BY <1>1, CommandWrites, WriteKeeps, ReserveKeeps DEF Next
<1>2. CASE UNCHANGED vars
  BY <1>2 DEF vars, IInv, TypeOK, RowsOK
<1> QED
  BY <1>1, <1>2

LEMMA InductiveInvariant == Spec => []IInv
<1>1. Init => IInv
  BY DEF Init, IInv, TypeOK, RowsOK
<1> QED
  BY <1>1, LedgerStep, PTL DEF Spec

(* Every reachable ledger is well typed.                                   *)
THEOREM TypeCorrect == Spec => []TypeOK
<1>1. IInv => TypeOK
  BY DEF IInv
<1> QED
  BY <1>1, InductiveInvariant, PTL

(* assertImageJobInvariant never fires: no sequence of accepted commands   *)
(* stores a row that the next read would reject.                           *)
THEOREM RowsStayValid == Spec => []LedgerInv
<1>1. IInv => LedgerInv
  BY NoneIsNull DEF IInv, RowsOK, RowOK, LedgerInv, RowsValid, Rows
<1> QED
  BY <1>1, InductiveInvariant, PTL

(* A row that was ever asked to be withdrawn is never published.           *)
THEOREM WithdrawalNeverReverts == Spec => []WithdrawalIsFinal
<1>1. LedgerInv => WithdrawalIsFinal
  BY DEF LedgerInv, HistoryKept, WithdrawalIsFinal
<1> QED
  BY <1>1, RowsStayValid, PTL

(* The planner looks at the state, the lease and the schedule of a row, as *)
(* the policy does; what it takes for granted of the rest, good rows have. *)
LEMMA PlanIsAccepted ==
  ASSUME NEW j, RowOK(j), NEW ev, NEW at \in Nat
  PROVE  PlanAccepted(j, PlanRestart(j, ev, at), at)
<1>1. /\ j.state \in JobState /\ (j.lease # None <=> j.state \in Leased)
      /\ j.attempts \in Nat /\ (j.state = "queued" => j.attempts < MaxAttempts)
      /\ j.compensationAttempts \in Nat /\ j.compensationAttempts <= MaxCompensationAttempts
  BY DEF RowOK, Job, ValidJob, ShapeMatches, CountersBounded, HistoryKept
<1>2. CASE j.state = "requested"
  <2>1. PlanRestart(j, ev, at) = "enqueue"
    BY <1>2 DEF PlanRestart, Leased, Attempting, Scheduled
  <2> QED
    BY <1>2, <2>1 DEF PlanAccepted, MayEnqueue
<1>3. CASE j.state \in Scheduled /\ ~Due(j, at)
  <2>1. PlanRestart(j, ev, at) = "wait_until_due"
    BY <1>3 DEF PlanRestart, Leased, Attempting, Scheduled
  <2> QED
    BY <2>1 DEF PlanAccepted
<1>4. CASE j.state = "queued" /\ Due(j, at)
  <2>1. PlanRestart(j, ev, at) = "claim_processing"
    BY <1>4 DEF PlanRestart, Leased, Attempting, Scheduled
  <2> QED
    BY <1>1, <1>4, <2>1 DEF PlanAccepted, MayClaimProcessing
<1>5. CASE j.state = "compensation_required" /\ Due(j, at)
  <2>1. PlanRestart(j, ev, at) = "claim_compensation"
    BY <1>5 DEF PlanRestart, Leased, Attempting, Scheduled
  <2> QED
    BY PolicyConstants, <1>1, <1>5, <2>1 DEF PlanAccepted, MayClaimCompensation
<1>6. CASE j.state \in Leased /\ LiveLease(j, at)
  <2>1. PlanRestart(j, ev, at) = "wait_for_lease"
    BY <1>6 DEF PlanRestart, Leased, Attempting
  <2> QED
    BY <2>1 DEF PlanAccepted
<1>7. CASE j.state \in Attempting /\ ~LiveLease(j, at)
  <2>1. PlanRestart(j, ev, at) = PlanAttempt(j, ev) /\ LapsedLease(j, at) /\ j.state \notin {"ready", "compensated"}
    BY <1>1, <1>7 DEF PlanRestart, LapsedLease, Leased, Attempting
  <2>2. \/ PlanAttempt(j, ev) = "recover_ready" /\ j.state = "publishing"
        \/ PlanAttempt(j, ev) \in {"clean_private_then_recover_retry", "manual_review", "require_compensation"}
    BY DEF PlanAttempt
  <2> QED
    BY <1>7, <2>1, <2>2 DEF PlanAccepted, MayRecoverReady, MayRecoverRetry, MayMarkManualReview,
                            MayRequireCompensation
<1>8. CASE j.state = "compensating" /\ ~LiveLease(j, at)
  <2>1. PlanRestart(j, ev, at) = PlanCompensating(j, ev) /\ LapsedLease(j, at)
    BY <1>1, <1>8 DEF PlanRestart, LapsedLease, Leased, Attempting
  <2>2. PlanCompensating(j, ev) \in {"recover_compensated", "require_compensation", "manual_review"}
    BY DEF PlanCompensating
  <2> QED
    BY <1>8, <2>1, <2>2 DEF PlanAccepted, MayRecoverCompensated, MayRequireCompensation, MayMarkManualReview
<1>9. CASE j.state \in {"failed", "ready", "compensated", "manual_review"}
  <2>1. ~LiveLease(j, at)
    BY <1>1, <1>9 DEF LiveLease, Leased, Attempting
  <2>2. CASE j.state = "failed"
    <3>1. PlanRestart(j, ev, at) = PlanFailed(ev)
      BY <2>2 DEF PlanRestart, Leased, Attempting
    <3>2. PlanFailed(ev) \in {"require_compensation", "clean_private", "manual_review", "none"}
      BY DEF PlanFailed
    <3> QED
      BY <2>1, <2>2, <3>1, <3>2 DEF PlanAccepted, MayRequireCompensation, MayMarkManualReview
  <2>3. CASE j.state \in {"ready", "compensated", "manual_review"}
    <3>1. PlanRestart(j, ev, at) \in {"none", "manual_review"}
      BY <2>3 DEF PlanRestart, Leased, Attempting
    <3> QED
      BY <2>1, <2>3, <3>1 DEF PlanAccepted, MayMarkManualReview
  <2> QED
    BY <1>9, <2>2, <2>3
<1> QED
  BY <1>1, <1>2, <1>3, <1>4, <1>5, <1>6, <1>7, <1>8, <1>9 DEF JobState, Leased, Attempting, Scheduled

(* Whatever recovery finds of an image, the command it plans for the row   *)
(* is one that transitionImageJob accepts, or the compensation attempts    *)
(* are used up (job-ledger-policy.ts planImageJobRestart).                 *)
THEOREM RecoveryIsNotRefused == Spec => []PlansAreAccepted
<1>1. IInv => PlansAreAccepted
  BY PlanIsAccepted, LedgerConstants, NoneIsNull DEF IInv, RowsOK, PlansAreAccepted, Rows
<1> QED
  BY <1>1, InductiveInvariant, PTL

(* A ready or compensated row is never rewritten.                          *)
THEOREM SettledRowsAreFinal == Spec => SettledRowsStay
<1> DEFINE Settled == \A id \in Rows : jobs[id].state \in {"ready", "compensated"}
                                       => jobs'[id] = jobs[id]
<1>1. IInv /\ [Next]_vars => Settled
  <2> SUFFICES ASSUME IInv, [Next]_vars, NEW r \in Rows,
                      jobs[r].state \in {"ready", "compensated"}
               PROVE  jobs'[r] = jobs[r]
    OBVIOUS
  <2>1. ASSUME NEW id \in JobId, Wrote(id) PROVE jobs'[r] = jobs[r]
    <3>1. PICK k : RowMoves(jobs[id], k) /\ jobs' = [jobs EXCEPT ![id] = k]
      BY <2>1 DEF Wrote
    <3>2. r # id
      BY <3>1 DEF RowMoves
    <3> QED
      BY <3>1, <3>2 DEF IInv, TypeOK, Rows
  <2>2. ASSUME NEW id \in JobId, NEW key, NEW at, Reserve(id, key, at) PROVE jobs'[r] = jobs[r]
    BY <2>2 DEF IInv, TypeOK, Rows, Reserve
  <2>3. CASE UNCHANGED vars
    BY <2>3 DEF vars
  <2> QED
    BY <2>1, <2>2, <2>3, CommandWrites DEF Next
<1>2. Settled => [Settled]_vars
  OBVIOUS
<1> QED
  BY <1>1, <1>2, InductiveInvariant, PTL DEF Spec, SettledRowsStay

(* No worker's lease is replaced by another worker's in one step.          *)
THEOREM LeasesAreNotTakenOver == Spec => LeaseHandedOverFree
<1> DEFINE Kept == \A id \in Rows : jobs[id].lease # None /\ jobs'[id].lease # None
                                    => jobs'[id].lease = jobs[id].lease
<1>1. IInv /\ [Next]_vars => Kept
  <2> SUFFICES ASSUME IInv, [Next]_vars, NEW r \in Rows,
                      jobs[r].lease # None, jobs'[r].lease # None
               PROVE  jobs'[r].lease = jobs[r].lease
    OBVIOUS
  <2>1. ASSUME NEW id \in JobId, Wrote(id) PROVE jobs'[r].lease = jobs[r].lease
    <3>1. PICK k : RowMoves(jobs[id], k) /\ jobs' = [jobs EXCEPT ![id] = k]
      BY <2>1 DEF Wrote
    <3>2. CASE r = id
      BY <3>1, <3>2 DEF RowMoves, IInv, TypeOK
    <3>3. CASE r # id
      BY <3>1, <3>3 DEF IInv, TypeOK, Rows
    <3> QED
      BY <3>2, <3>3
  <2>2. ASSUME NEW id \in JobId, NEW key, NEW at, Reserve(id, key, at)
        PROVE  jobs'[r].lease = jobs[r].lease
    BY <2>2 DEF IInv, TypeOK, Rows, Reserve
  <2>3. CASE UNCHANGED vars
    BY <2>3 DEF vars
  <2> QED
    BY <2>1, <2>2, <2>3, CommandWrites DEF Next
<1>2. Kept => [Kept]_vars
  OBVIOUS
<1> QED
  BY <1>1, <1>2, InductiveInvariant, PTL DEF Spec, LeaseHandedOverFree

-----------------------------------------------------------------------------
(* The ledger implements ImagePublication *)

phases == [id \in JobId |-> PhaseOf(id)]

(* Writing a row moves its phase by one step of the abstract specification *)
(* or not at all.                                                          *)
LEMMA WriteRefines ==
  ASSUME IInv, NEW id \in JobId, Wrote(id)
  PROVE  [Publication!Next]_phases
<1>1. PICK k \in Job : /\ jobs[id] # None /\ RowMoves(jobs[id], k)
                       /\ jobs' = [jobs EXCEPT ![id] = k]
  BY DEF Wrote
<1>2. k # None
  BY <1>1, NoneIsNull
<1>3. phases' = [phases EXCEPT ![id] = RowPhase(k)]
  BY <1>1, <1>2 DEF phases, PhaseOf, IInv, TypeOK
<1>4. phases[id] = RowPhase(jobs[id])
  BY <1>1 DEF phases, PhaseOf
<1>5. CASE RowPhase(k) = RowPhase(jobs[id])
  BY <1>3, <1>4, <1>5 DEF phases
<1>6. CASE RowPhase(jobs[id]) = "open" /\ RowPhase(k) = "published"
  BY <1>3, <1>4, <1>6 DEF phases, Publication!Next, Publication!Publish, Publication!Move
<1>7. CASE RowPhase(jobs[id]) = "open" /\ RowPhase(k) = "withdrawing"
  BY <1>3, <1>4, <1>7 DEF phases, Publication!Next, Publication!BeginWithdrawal, Publication!Move
<1>8. CASE RowPhase(jobs[id]) = "withdrawing" /\ RowPhase(k) = "withdrawn"
  BY <1>3, <1>4, <1>8 DEF phases, Publication!Next, Publication!Withdraw, Publication!Move
<1> QED
  BY <1>1, <1>5, <1>6, <1>7, <1>8 DEF RowMoves

LEMMA ReserveRefines ==
  ASSUME IInv, NEW id \in JobId, NEW key, NEW at \in Time, Reserve(id, key, at)
  PROVE  [Publication!Next]_phases
<1>1. CreatedJob(at) # None /\ RowPhase(CreatedJob(at)) = "open"
  BY LedgerConstants, CreatedType, NoneIsNull DEF CreatedJob, RowPhase, Withdrawing
<1>2. phases[id] = "absent" /\ phases' = [phases EXCEPT ![id] = "open"]
  BY <1>1 DEF phases, PhaseOf, Reserve, IInv, TypeOK
<1> QED
  BY <1>2 DEF phases, Publication!Next, Publication!Accept, Publication!Move

(* The ledger implements ImagePublication: an accepted image is published  *)
(* for good or withdrawn for good, under any interleaving of commands.     *)
THEOREM LedgerImplementsPublication == Spec => PublicationKept
<1>1. Init => Publication!Init
  BY DEF Init, Publication!Init, PhaseOf
<1>2. IInv /\ [Next]_vars => [Publication!Next]_phases
  <2> SUFFICES ASSUME IInv, [Next]_vars PROVE [Publication!Next]_phases
    OBVIOUS
  <2>1. CASE Next
    BY <2>1, CommandWrites, WriteRefines, ReserveRefines DEF Next
  <2>2. CASE UNCHANGED vars
    BY <2>2 DEF vars, phases, PhaseOf
  <2> QED
    BY <2>1, <2>2
<1> QED
  BY <1>1, <1>2, InductiveInvariant, PTL DEF Spec, PublicationKept, Publication!Spec, phases
=============================================================================
