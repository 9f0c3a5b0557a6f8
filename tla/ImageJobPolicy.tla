--------------------------- MODULE ImageJobPolicy ---------------------------
(***************************************************************************)
(* The pure transition policy of the durable image-job ledger              *)
(* (modules/uploads/job-ledger-policy.ts): what a ledger row is, what each *)
(* command requires of it, and the row each command produces.  A module    *)
(* that executes commands (the ledger, the upload service) combines a      *)
(* guard "May..." with its result "After...".                              *)
(*                                                                         *)
(* Next to some definitions stands a defective variant that nothing uses   *)
(* (FreshAnyVersion, MayClaimLapsed, ...); put in the place of the      *)
(* definition that follows it, it breaks the property README.md names.     *)
(*                                                                         *)
(* Times are natural numbers.  The ten nullable timestamps the code never  *)
(* compares with anything but null (or with the creation time) are         *)
(* abstracted to the set "stamps" of those that are set; the times that    *)
(* guard a transition (nextAt, the lease, updatedAt) are kept.  Identity   *)
(* fields, error codes and image dimensions are left out; "result" in      *)
(* stamps stands for the pair of result dimensions.                        *)
(***************************************************************************)
EXTENDS Naturals

CONSTANTS
  MaxAttempts,             \* job.maxAttempts, 3 in the service
  MaxCompensationAttempts, \* job.maxCompensationAttempts, 5 in the service
  MaxVersion,              \* largest version, Number.MAX_SAFE_INTEGER in the code
  Owner,                   \* lease owners
  Token,                   \* lease tokens, random 128-bit strings in the code
  None                     \* null

Lease == [owner: Owner, token: Token, acquiredAt: Nat, expiresAt: Nat]

ASSUME PolicyConstants ==
  /\ MaxAttempts \in Nat \ {0}
  /\ MaxCompensationAttempts \in Nat \ {0}
  /\ MaxVersion \in Nat

-----------------------------------------------------------------------------
(* Rows *)

JobState == {"requested", "queued", "processing", "output_ready", "publishing",
             "ready", "failed", "compensation_required", "compensating",
             "compensated", "manual_review"}
PublicationState == {"private", "publishing", "published", "unknown", "removed"}
CompensationState == {"not_required", "required", "in_progress", "complete"}
Stamp == {"firstAttempt", "lastAttempt", "lastCompensation", "outputReady", "result",
          "published", "ready", "failed", "compensationRequested", "compensated"}

Job == [state: JobState, publication: PublicationState, compensation: CompensationState,
        version: Nat, attempts: Nat, compensationAttempts: Nat,
        nextAt: Nat \union {None}, lease: Lease \union {None},
        stamps: SUBSET Stamp, updatedAt: Nat]

ASSUME NoneIsNull == None \notin Nat \union Lease \union Job

Attempting == {"processing", "output_ready", "publishing"}
Leased == Attempting \union {"compensating"}
Scheduled == {"queued", "compensation_required"}
Withdrawing == {"compensation_required", "compensating", "compensated", "manual_review"}

PublicationShape(s) ==
  CASE s = "publishing" -> "publishing"
    [] s = "ready" -> "published"
    [] s = "compensated" -> "removed"
    [] s \in {"compensation_required", "compensating", "manual_review"} -> "unknown"
    [] OTHER -> "private"

CompensationShape(s) ==
  CASE s \in {"compensation_required", "manual_review"} -> "required"
    [] s = "compensating" -> "in_progress"
    [] s = "compensated" -> "complete"
    [] OTHER -> "not_required"

(* assertImageJobInvariant, one conjunct per check.                        *)
CountersBounded(j) ==
  /\ j.version <= MaxVersion
  /\ j.attempts <= MaxAttempts
  /\ j.compensationAttempts <= MaxCompensationAttempts

ShapeMatches(j) ==
  /\ j.publication = PublicationShape(j.state)
  /\ j.compensation = CompensationShape(j.state)
  /\ (j.lease # None) <=> (j.state \in Leased)

TimesOrdered(j) ==
  /\ j.lease # None => /\ j.lease.acquiredAt <= j.updatedAt
                       /\ j.lease.acquiredAt < j.lease.expiresAt
  /\ j.nextAt # None => j.state \in Scheduled /\ j.updatedAt <= j.nextAt

PublicationStamped(j) ==
  IF j.state = "ready" THEN {"published", "ready", "result"} \subseteq j.stamps
                       ELSE j.stamps \intersect {"published", "ready"} = {}

AttemptsStamped(j) ==
  /\ IF j.attempts = 0 THEN j.stamps \intersect {"firstAttempt", "lastAttempt"} = {}
                       ELSE {"firstAttempt", "lastAttempt"} \subseteq j.stamps
  /\ (j.compensationAttempts = 0) <=> ("lastCompensation" \notin j.stamps)

CompensationStamped(j) ==
  /\ (j.state = "compensated") <=> ("compensated" \in j.stamps)
  /\ j.state \in Withdrawing => "compensationRequested" \in j.stamps

ValidJob(j) ==
  /\ CountersBounded(j)
  /\ ShapeMatches(j)
  /\ TimesOrdered(j)
  /\ PublicationStamped(j)
  /\ AttemptsStamped(j)
  /\ CompensationStamped(j)

(* The facts of a row's history that keep ValidJob inductive: dimensions   *)
(* are known before publication can start, and a row that may be claimed   *)
(* for processing, or is on its way to publication, was never asked to be  *)
(* withdrawn.                                                              *)
HistoryKept(j) ==
  /\ j.state = "requested" => j.attempts = 0
  /\ j.state \in {"output_ready", "publishing"} => "result" \in j.stamps
  /\ j.state \in Attempting => j.attempts > 0
  /\ j.state = "queued" => j.attempts < MaxAttempts
  /\ "compensationRequested" \in j.stamps => j.state \in Withdrawing

CreatedJob(at) ==
  [state |-> "requested", publication |-> "private", compensation |-> "not_required",
   version |-> 0, attempts |-> 0, compensationAttempts |-> 0, nextAt |-> None,
   lease |-> None, stamps |-> {}, updatedAt |-> at]

LeaseFor(owner, token, at, expires) ==
  [owner |-> owner, token |-> token, acquiredAt |-> at, expiresAt |-> expires]

-----------------------------------------------------------------------------
(* What commands require.  A command whose proof flags are false is        *)
(* rejected; every caller passes true, so the flags are left out.          *)

FreshAnyVersion(j, version, at) == j.updatedAt <= at /\ j.version < MaxVersion

(* assertCommandFresh, and the safe-integer bound on the version the       *)
(* command would write.                                                    *)
Fresh(j, version, at) ==
  /\ version = j.version
  /\ j.updatedAt <= at
  /\ j.version < MaxVersion

LiveLease(j, at) == j.lease # None /\ at < j.lease.expiresAt
HoldsLease(j, token, at) == j.lease # None /\ j.lease.token = token /\ at < j.lease.expiresAt
LapsedLease(j, at) == j.lease # None /\ ~LiveLease(j, at)
Due(j, at) == j.nextAt = None \/ j.nextAt <= at

MayEnqueue(j, notBefore, at) == j.state = "requested" /\ at <= notBefore
MayClaimLapsed(j, at, expires) ==
  /\ (j.state = "queued" /\ Due(j, at)) \/ (j.state = "processing" /\ LapsedLease(j, at))
  /\ j.attempts < MaxAttempts /\ at < expires
MayClaimProcessing(j, at, expires) ==
  j.state = "queued" /\ Due(j, at) /\ j.attempts < MaxAttempts /\ at < expires
MayRecordOutputReady(j, token, at) == j.state = "processing" /\ HoldsLease(j, token, at)
MayBeginPublication(j, token, at) == j.state = "output_ready" /\ HoldsLease(j, token, at)
MayMarkReadyAnyLease(j, token, at) ==
  j.state \in {"publishing", "compensating"} /\ HoldsLease(j, token, at)
MayMarkReady(j, token, at) == j.state = "publishing" /\ HoldsLease(j, token, at)
MayRecordFailure(j, token, at) == j.state \in Attempting /\ HoldsLease(j, token, at)
MayRecoverReady(j, at) == j.state = "publishing" /\ LapsedLease(j, at)
MayRecoverRetryAny(j, at) == j.state \in Leased /\ LapsedLease(j, at)
MayRecoverRetry(j, at) == j.state \in Attempting /\ LapsedLease(j, at)
MayRequireCompensationAny(j, at) == ~LiveLease(j, at)
MayRequireCompensation(j, at) == j.state \notin {"ready", "compensated"} /\ ~LiveLease(j, at)
MayClaimCompensation(j, at, expires) ==
  /\ j.state = "compensation_required" /\ Due(j, at)
  /\ j.compensationAttempts < MaxCompensationAttempts /\ at < expires
MayMarkCompensated(j, token, at) == j.state = "compensating" /\ HoldsLease(j, token, at)
MayRecoverCompensated(j, at) == j.state = "compensating" /\ LapsedLease(j, at)
MayRecordCompensationFailure(j, token, at) == j.state = "compensating" /\ HoldsLease(j, token, at)
MayMarkManualReview(j, at) == j.state \notin {"ready", "compensated"} /\ ~LiveLease(j, at)

-----------------------------------------------------------------------------
(* What commands produce *)

FutureOrNow(retryAt, at) == IF retryAt < at THEN at ELSE retryAt

Advance(j, at) == [j EXCEPT !.version = @ + 1, !.updatedAt = at]

AfterEnqueue(j, notBefore, at) ==
  [Advance(j, at) EXCEPT !.state = "queued", !.nextAt = notBefore]

AfterClaimProcessing(j, lease, at) ==
  [Advance(j, at) EXCEPT !.state = "processing", !.attempts = @ + 1, !.nextAt = None,
                         !.lease = lease, !.stamps = @ \union {"firstAttempt", "lastAttempt"}]

AfterRecordOutputReady(j, at) ==
  [Advance(j, at) EXCEPT !.state = "output_ready", !.stamps = @ \union {"outputReady", "result"}]

AfterBeginPublication(j, at) ==
  [Advance(j, at) EXCEPT !.state = "publishing", !.publication = "publishing"]

(* mark_ready and recover_ready write the same row.                        *)
AfterMarkReady(j, at) ==
  [Advance(j, at) EXCEPT !.state = "ready", !.publication = "published", !.lease = None,
                         !.stamps = @ \union {"published", "ready"}]

(* toCompensationRequired                                                  *)
AfterRequireCompensation(j, retryAt, at) ==
  [Advance(j, at) EXCEPT !.state = "compensation_required", !.publication = "unknown",
                         !.compensation = "required", !.lease = None,
                         !.nextAt = FutureOrNow(retryAt, at),
                         !.stamps = @ \union {"compensationRequested"}]

RetryLater(j, retryAt, at) ==
  [Advance(j, at) EXCEPT !.state = "queued", !.lease = None, !.nextAt = FutureOrNow(retryAt, at)]

GiveUp(j, at) ==
  [Advance(j, at) EXCEPT !.state = "failed", !.lease = None, !.nextAt = None,
                         !.stamps = @ \union {"failed"}]

RecordFailureAsPrivate(j, publicationMayHaveOccurred, retryAt, at) ==
  IF j.attempts < MaxAttempts /\ retryAt # None THEN RetryLater(j, retryAt, at) ELSE GiveUp(j, at)

(* record_failure; retryAt is None when the caller asks for no retry.      *)
AfterRecordFailure(j, publicationMayHaveOccurred, retryAt, at) ==
  IF j.state = "publishing" \/ publicationMayHaveOccurred
  THEN AfterRequireCompensation(j, IF retryAt = None THEN at ELSE retryAt, at)
  ELSE IF j.attempts < MaxAttempts /\ retryAt # None THEN RetryLater(j, retryAt, at)
  ELSE GiveUp(j, at)

RecoverRetryStillPublishing(j, retryAt, at) ==
  IF j.attempts < MaxAttempts THEN RetryLater(j, retryAt, at) ELSE GiveUp(j, at)

AfterRecoverRetry(j, retryAt, at) ==
  [(IF j.attempts < MaxAttempts THEN RetryLater(j, retryAt, at) ELSE GiveUp(j, at))
     EXCEPT !.publication = "private"]

AfterClaimCompensation(j, lease, at) ==
  [Advance(j, at) EXCEPT !.state = "compensating", !.compensation = "in_progress",
                         !.compensationAttempts = @ + 1, !.nextAt = None, !.lease = lease,
                         !.stamps = @ \union {"lastCompensation"}]

(* mark_compensated and recover_compensated write the same row.            *)
AfterMarkCompensated(j, at) ==
  [Advance(j, at) EXCEPT !.state = "compensated", !.publication = "removed",
                         !.compensation = "complete", !.lease = None,
                         !.stamps = @ \union {"compensated"}]

AfterRecordCompensationFailure(j, retryAt, at) ==
  IF j.compensationAttempts < MaxCompensationAttempts
  THEN [Advance(j, at) EXCEPT !.state = "compensation_required", !.compensation = "required",
                              !.lease = None, !.nextAt = FutureOrNow(retryAt, at)]
  ELSE [Advance(j, at) EXCEPT !.state = "manual_review", !.compensation = "required",
                              !.lease = None, !.nextAt = None]

AfterMarkManualReview(j, at) ==
  [Advance(j, at) EXCEPT !.state = "manual_review", !.publication = "unknown",
                         !.compensation = "required", !.lease = None, !.nextAt = None,
                         !.stamps = @ \union {"compensationRequested"}]

-----------------------------------------------------------------------------
(* Reading a row *)

(* isImageJobAttachable                                                    *)
Attachable(j) ==
  /\ j.state = "ready" /\ j.publication = "published" /\ j.compensation = "not_required"
  /\ {"ready", "result"} \subseteq j.stamps

(* planImageJobRestart; the evidence is [final, private, registration],    *)
(* each "present", "absent" or "unknown".  "failed", "ready",              *)
(* "compensated" and "manual_review" rows are planned too, although the    *)
(* recovery query never returns them.                                      *)
GoneUnregistered(ev) == ev.registration = "absent"
Gone(ev) == ev.final = "absent" /\ ev.registration = "absent"
IntactUnregistered(ev) == ev.final = "present"
Intact(ev) == ev.final = "present" /\ ev.registration = "present"

PlanAttemptAnyState(j, ev) ==
  CASE Intact(ev) -> "recover_ready"
    [] Gone(ev) /\ ev.private # "unknown" -> "clean_private_then_recover_retry"
    [] OTHER -> "require_compensation"

PlanAttempt(j, ev) ==
  CASE j.state = "publishing" /\ Intact(ev) -> "recover_ready"
    [] Gone(ev) /\ ev.private # "unknown" -> "clean_private_then_recover_retry"
    [] Gone(ev) /\ j.state # "publishing" -> "manual_review"
    [] OTHER -> "require_compensation"

PlanFailed(ev) ==
  CASE ~Gone(ev) -> "require_compensation"
    [] Gone(ev) /\ ev.private = "present" -> "clean_private"
    [] Gone(ev) /\ ev.private = "unknown" -> "manual_review"
    [] OTHER -> "none"

PlanCompensating(j, ev) ==
  CASE Gone(ev) -> "recover_compensated"
    [] ~Gone(ev) /\ j.compensationAttempts < MaxCompensationAttempts -> "require_compensation"
    [] OTHER -> "manual_review"

PlanRestart(j, ev, at) ==
  CASE j.state = "requested" -> "enqueue"
    [] j.state \in Scheduled /\ ~Due(j, at) -> "wait_until_due"
    [] j.state = "queued" /\ Due(j, at) -> "claim_processing"
    [] j.state = "compensation_required" /\ Due(j, at) -> "claim_compensation"
    [] j.state \in Leased /\ LiveLease(j, at) -> "wait_for_lease"
    [] j.state \in Attempting /\ ~LiveLease(j, at) -> PlanAttempt(j, ev)
    [] j.state = "compensating" /\ ~LiveLease(j, at) -> PlanCompensating(j, ev)
    [] j.state = "failed" -> PlanFailed(ev)
    [] j.state = "ready" -> IF Intact(ev) THEN "none" ELSE "manual_review"
    [] j.state = "compensated" -> IF Gone(ev) THEN "none" ELSE "manual_review"
    [] j.state = "manual_review" -> "manual_review"

(* How far the image of a row is from being public for good.               *)
RowPhase(j) ==
  CASE j.state = "ready" -> "published"
    [] j.state = "compensated" -> "withdrawn"
    [] j.state \in Withdrawing \ {"compensated"} -> "withdrawing"
    [] OTHER -> "open"
=============================================================================
