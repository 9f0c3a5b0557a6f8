--------------------------- MODULE ImageJobLedger ---------------------------
(***************************************************************************)
(* The table image_job_ledger_v1 under any sequence of policy commands.    *)
(* Each action is one committed transaction of MysqlImageJobStore: the row *)
(* is locked (SELECT ... FOR UPDATE), the policy decides, the new row is   *)
(* written.  A rejected command rolls back and is no step.                 *)
(*                                                                         *)
(* Nothing is assumed of the callers: any command may come at any moment,  *)
(* stamped with any clock reading, so the properties hold for skewed       *)
(* clocks, crashed callers and commands repeated after a lost answer.      *)
(***************************************************************************)
EXTENDS ImageJobPolicy

CONSTANTS
  JobId,       \* job identities
  RequestKey,  \* idempotency keys of upload requests
  Time         \* clock readings that commands may carry

ASSUME LedgerConstants == Time \subseteq Nat /\ None \notin RequestKey

VARIABLES
  jobs,        \* the rows: a job, or None where no row exists
  requestKey   \* request_key of each row

vars == <<jobs, requestKey>>

TypeOK ==
  /\ jobs \in [JobId -> Job \union {None}]
  /\ requestKey \in [JobId -> RequestKey \union {None}]

Init ==
  /\ jobs = [id \in JobId |-> None]
  /\ requestKey = [id \in JobId |-> None]

(* reserveImageJob inserts a row; when the request key or the job id       *)
(* already has one, the existing row is returned or the call is refused,   *)
(* and nothing changes.                                                    *)
Reserve(id, key, at) ==
  /\ jobs[id] = None
  /\ \A other \in JobId : requestKey[other] # key
  /\ jobs' = [jobs EXCEPT ![id] = CreatedJob(at)]
  /\ requestKey' = [requestKey EXCEPT ![id] = key]

(* transitionImageJob: the command names the version it expects.           *)
Transition(id, may, after, at) ==
  /\ jobs[id] # None
  /\ Fresh(jobs[id], jobs[id].version, at)
  /\ may
  /\ jobs' = [jobs EXCEPT ![id] = after]
  /\ UNCHANGED requestKey

Enqueue(id, at) == \E notBefore \in Time :
  Transition(id, MayEnqueue(jobs[id], notBefore, at), AfterEnqueue(jobs[id], notBefore, at), at)

ClaimProcessing(id, at) == \E o \in Owner, t \in Token, expires \in Time :
  Transition(id, MayClaimProcessing(jobs[id], at, expires),
             AfterClaimProcessing(jobs[id], LeaseFor(o, t, at, expires), at), at)

RecordOutputReady(id, at) == \E t \in Token :
  Transition(id, MayRecordOutputReady(jobs[id], t, at), AfterRecordOutputReady(jobs[id], at), at)

BeginPublication(id, at) == \E t \in Token :
  Transition(id, MayBeginPublication(jobs[id], t, at), AfterBeginPublication(jobs[id], at), at)

MarkReady(id, at) == \E t \in Token :
  Transition(id, MayMarkReady(jobs[id], t, at), AfterMarkReady(jobs[id], at), at)

RecordFailure(id, at) ==
  \E t \in Token, mayBePublic \in BOOLEAN, retryAt \in Time \union {None} :
    Transition(id, MayRecordFailure(jobs[id], t, at),
               AfterRecordFailure(jobs[id], mayBePublic, retryAt, at), at)

RecoverReady(id, at) ==
  Transition(id, MayRecoverReady(jobs[id], at), AfterMarkReady(jobs[id], at), at)

RecoverRetry(id, at) == \E retryAt \in Time :
  Transition(id, MayRecoverRetry(jobs[id], at), AfterRecoverRetry(jobs[id], retryAt, at), at)

RequireCompensation(id, at) == \E retryAt \in Time :
  Transition(id, MayRequireCompensation(jobs[id], at),
             AfterRequireCompensation(jobs[id], retryAt, at), at)

ClaimCompensation(id, at) == \E o \in Owner, t \in Token, expires \in Time :
  Transition(id, MayClaimCompensation(jobs[id], at, expires),
             AfterClaimCompensation(jobs[id], LeaseFor(o, t, at, expires), at), at)

MarkCompensated(id, at) == \E t \in Token :
  Transition(id, MayMarkCompensated(jobs[id], t, at), AfterMarkCompensated(jobs[id], at), at)

RecoverCompensated(id, at) ==
  Transition(id, MayRecoverCompensated(jobs[id], at), AfterMarkCompensated(jobs[id], at), at)

RecordCompensationFailure(id, at) == \E t \in Token, retryAt \in Time :
  Transition(id, MayRecordCompensationFailure(jobs[id], t, at),
             AfterRecordCompensationFailure(jobs[id], retryAt, at), at)

MarkManualReview(id, at) ==
  Transition(id, MayMarkManualReview(jobs[id], at), AfterMarkManualReview(jobs[id], at), at)

Command(id, at) ==
  \/ Enqueue(id, at) \/ ClaimProcessing(id, at) \/ RecordOutputReady(id, at)
  \/ BeginPublication(id, at) \/ MarkReady(id, at) \/ RecordFailure(id, at)
  \/ RecoverReady(id, at) \/ RecoverRetry(id, at) \/ RequireCompensation(id, at)
  \/ ClaimCompensation(id, at) \/ MarkCompensated(id, at) \/ RecoverCompensated(id, at)
  \/ RecordCompensationFailure(id, at) \/ MarkManualReview(id, at)

Next == \E id \in JobId, at \in Time :
  Command(id, at) \/ \E key \in RequestKey : Reserve(id, key, at)

Spec == Init /\ [][Next]_vars

-----------------------------------------------------------------------------
Rows == {id \in JobId : jobs[id] # None}

(* transitionImageJob asserts every row it reads and every row it is about *)
(* to write; the assertion throws INVALID_JOB and strands the job.  It     *)
(* never does: whatever commands came before, every stored row passes      *)
(* assertImageJobInvariant.                                                *)
RowsValid == \A id \in Rows : ValidJob(jobs[id])

LedgerInv == TypeOK /\ RowsValid /\ \A id \in Rows : HistoryKept(jobs[id])

(* Once any caller has asked for compensation, whatever it believed, the   *)
(* row can never be published again: a driver that resumes late cannot     *)
(* make ready an image whose files a compensator may already be deleting.  *)
WithdrawalIsFinal ==
  \A id \in Rows : "compensationRequested" \in jobs[id].stamps => jobs[id].state \in Withdrawing

(* A ready or compensated row is never rewritten by any command, so what a *)
(* client was told about its image stays true.                             *)
SettledRowsStay ==
  [][\A id \in Rows : jobs[id].state \in {"ready", "compensated"} => jobs'[id] = jobs[id]]_vars

(* A lease is never taken over in place: between two different leases the  *)
(* row is written without one, so no claim can inherit a state whose       *)
(* effects another worker is still producing.                              *)
LeaseHandedOverFree ==
  [][\A id \in Rows : jobs[id].lease # None /\ jobs'[id].lease # None
                         => jobs'[id].lease = jobs[id].lease]_vars

(* Whatever the files and registration look like, the command the restart  *)
(* planner chooses for a row is one the policy accepts, so recovery is not *)
(* refused forever.  The one exception is a compensation that has used all *)
(* its attempts and was required again.                                    *)
Evidence == [final: {"present", "absent", "unknown"}, private: {"present", "absent", "unknown"},
             registration: {"present", "absent", "unknown"}]

PlanAccepted(j, plan, at) ==
  CASE plan = "enqueue" -> MayEnqueue(j, at, at)
    [] plan = "claim_processing" -> MayClaimProcessing(j, at, at + 1)
    [] plan = "recover_ready" -> MayRecoverReady(j, at)
    [] plan = "clean_private_then_recover_retry" -> MayRecoverRetry(j, at)
    [] plan = "require_compensation" -> MayRequireCompensation(j, at)
    [] plan = "claim_compensation" -> \/ MayClaimCompensation(j, at, at + 1)
                                      \/ j.compensationAttempts = MaxCompensationAttempts
    [] plan = "recover_compensated" -> MayRecoverCompensated(j, at)
    [] plan = "manual_review" -> \/ MayMarkManualReview(j, at)
                                 \/ j.state \in {"ready", "compensated"}
    [] OTHER -> TRUE

PlansAreAccepted ==
  \A id \in Rows, ev \in Evidence, at \in Time :
    jobs[id].updatedAt <= at => PlanAccepted(jobs[id], PlanRestart(jobs[id], ev, at), at)

(* The ledger keeps the promise of ImagePublication.                       *)
PhaseOf(id) == IF jobs[id] = None THEN "absent" ELSE RowPhase(jobs[id])

Publication == INSTANCE ImagePublication WITH phase <- [id \in JobId |-> PhaseOf(id)]

PublicationKept == Publication!Spec
=============================================================================
