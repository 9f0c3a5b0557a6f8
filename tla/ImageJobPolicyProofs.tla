------------------------ MODULE ImageJobPolicyProofs ------------------------
(***************************************************************************)
(* What each command of the policy makes of a row: good rows stay good     *)
(* (one lemma per command for its type, one for its validity and history), *)
(* and a row moves through its phases in one direction.                    *)
(***************************************************************************)
EXTENDS ImageJobPolicy, TLAPS

(* A row the ledger may hold, and the situation in which a command that    *)
(* passed assertCommandFresh is applied to one.                            *)
RowOK(j) == j \in Job /\ ValidJob(j) /\ HistoryKept(j)
Applying(j, at) == RowOK(j) /\ at \in Nat /\ Fresh(j, j.version, at)

-----------------------------------------------------------------------------
(* Rows *)

LEMMA Names ==
  /\ {"requested", "queued", "processing", "output_ready", "publishing", "ready", "failed",
      "compensation_required", "compensating", "compensated", "manual_review"} \subseteq JobState
  /\ {"private", "publishing", "published", "unknown", "removed"} \subseteq PublicationState
  /\ {"not_required", "required", "in_progress", "complete"} \subseteq CompensationState
  /\ {"firstAttempt", "lastAttempt", "lastCompensation", "outputReady", "result", "published",
      "ready", "failed", "compensationRequested", "compensated"} \subseteq Stamp
BY DEF JobState, PublicationState, CompensationState, Stamp

LEMMA AdvanceType ==
  ASSUME NEW j \in Job, NEW at \in Nat
  PROVE  Advance(j, at) \in Job
<1>1. j.version + 1 \in Nat
  BY DEF Job
<1>2. \A v \in Nat : [j EXCEPT !.version = v, !.updatedAt = at] \in Job
  BY DEF Job
<1> QED
  BY <1>1, <1>2 DEF Advance

LEMMA LeaseType ==
  ASSUME NEW o \in Owner, NEW t \in Token, NEW at \in Nat, NEW expires \in Nat
  PROVE  LeaseFor(o, t, at, expires) \in Lease
BY DEF LeaseFor, Lease

LEMMA FutureOrNowType ==
  ASSUME NEW retryAt \in Nat, NEW at \in Nat
  PROVE  FutureOrNow(retryAt, at) \in Nat /\ at <= FutureOrNow(retryAt, at)
BY DEF FutureOrNow

(* The types of the rows commands produce.                                 *)
LEMMA CreatedType ==
  ASSUME NEW at \in Nat
  PROVE  CreatedJob(at) \in Job
BY Names DEF CreatedJob, Job

LEMMA EnqueueType ==
  ASSUME NEW j \in Job, NEW at \in Nat, NEW notBefore \in Nat
  PROVE  AfterEnqueue(j, notBefore, at) \in Job
BY AdvanceType, Names DEF AfterEnqueue, Job

LEMMA ClaimProcessingType ==
  ASSUME NEW j \in Job, NEW at \in Nat, NEW l \in Lease
  PROVE  AfterClaimProcessing(j, l, at) \in Job
<1>1. \A a \in Job : a.attempts + 1 \in Nat
  BY DEF Job
<1> QED
  BY <1>1, AdvanceType, Names DEF AfterClaimProcessing, Job

LEMMA RecordOutputReadyType ==
  ASSUME NEW j \in Job, NEW at \in Nat
  PROVE  AfterRecordOutputReady(j, at) \in Job
BY AdvanceType, Names DEF AfterRecordOutputReady, Job

LEMMA BeginPublicationType ==
  ASSUME NEW j \in Job, NEW at \in Nat
  PROVE  AfterBeginPublication(j, at) \in Job
BY AdvanceType, Names DEF AfterBeginPublication, Job

LEMMA MarkReadyType ==
  ASSUME NEW j \in Job, NEW at \in Nat
  PROVE  AfterMarkReady(j, at) \in Job
BY AdvanceType, Names DEF AfterMarkReady, Job

LEMMA RequireCompensationType ==
  ASSUME NEW j \in Job, NEW at \in Nat, NEW retryAt \in Nat
  PROVE  AfterRequireCompensation(j, retryAt, at) \in Job
BY AdvanceType, FutureOrNowType, Names DEF AfterRequireCompensation, Job

LEMMA RetryLaterType ==
  ASSUME NEW j \in Job, NEW at \in Nat, NEW retryAt \in Nat
  PROVE  RetryLater(j, retryAt, at) \in Job
BY AdvanceType, FutureOrNowType, Names DEF RetryLater, Job

LEMMA GiveUpType ==
  ASSUME NEW j \in Job, NEW at \in Nat
  PROVE  GiveUp(j, at) \in Job
BY AdvanceType, Names DEF GiveUp, Job

LEMMA ClaimCompensationType ==
  ASSUME NEW j \in Job, NEW at \in Nat, NEW l \in Lease
  PROVE  AfterClaimCompensation(j, l, at) \in Job
<1>1. \A a \in Job : a.compensationAttempts + 1 \in Nat
  BY DEF Job
<1> QED
  BY <1>1, AdvanceType, Names DEF AfterClaimCompensation, Job

LEMMA MarkCompensatedType ==
  ASSUME NEW j \in Job, NEW at \in Nat
  PROVE  AfterMarkCompensated(j, at) \in Job
BY AdvanceType, Names DEF AfterMarkCompensated, Job

LEMMA RecordCompensationFailureType ==
  ASSUME NEW j \in Job, NEW at \in Nat, NEW retryAt \in Nat
  PROVE  AfterRecordCompensationFailure(j, retryAt, at) \in Job
BY AdvanceType, FutureOrNowType, Names DEF AfterRecordCompensationFailure, Job

LEMMA MarkManualReviewType ==
  ASSUME NEW j \in Job, NEW at \in Nat
  PROVE  AfterMarkManualReview(j, at) \in Job
BY AdvanceType, Names DEF AfterMarkManualReview, Job

-----------------------------------------------------------------------------
(* Commands keep rows good.  The definitions of a good row are expanded    *)
(* throughout this section.                                                *)
USE PolicyConstants, NoneIsNull
  DEF Applying, RowOK, Job, ValidJob, HistoryKept, CountersBounded, ShapeMatches, TimesOrdered,
      PublicationStamped, AttemptsStamped, CompensationStamped, PublicationShape,
      CompensationShape, Fresh, Advance, Leased, Attempting, Scheduled, Withdrawing

LEMMA CreatedOK ==
  ASSUME NEW at \in Nat
  PROVE  RowOK(CreatedJob(at))
<1>1. CreatedJob(at) \in Job
  BY CreatedType
<1>2. ValidJob(CreatedJob(at)) /\ HistoryKept(CreatedJob(at))
  BY DEF CreatedJob
<1> QED
  BY <1>1, <1>2

LEMMA EnqueueOK ==
  ASSUME NEW j, NEW at, Applying(j, at),
         NEW notBefore \in Nat,
         MayEnqueue(j, notBefore, at)
  PROVE  RowOK(AfterEnqueue(j, notBefore, at))
<1>1. AfterEnqueue(j, notBefore, at) \in Job
  BY EnqueueType
<1>2. ValidJob(AfterEnqueue(j, notBefore, at))
  BY DEF AfterEnqueue, MayEnqueue
<1>3. HistoryKept(AfterEnqueue(j, notBefore, at))
  BY DEF AfterEnqueue, MayEnqueue
<1> QED
  BY <1>1, <1>2, <1>3

LEMMA ClaimProcessingOK ==
  ASSUME NEW j, NEW at, Applying(j, at),
         NEW o \in Owner,
         NEW t \in Token,
         NEW expires \in Nat,
         MayClaimProcessing(j, at, expires)
  PROVE  RowOK(AfterClaimProcessing(j, LeaseFor(o, t, at, expires), at))
<1>1. AfterClaimProcessing(j, LeaseFor(o, t, at, expires), at) \in Job
  BY ClaimProcessingType, LeaseType
<1>2. ValidJob(AfterClaimProcessing(j, LeaseFor(o, t, at, expires), at))
  BY DEF AfterClaimProcessing, MayClaimProcessing, LeaseFor, Lease
<1>3. HistoryKept(AfterClaimProcessing(j, LeaseFor(o, t, at, expires), at))
  BY DEF AfterClaimProcessing, MayClaimProcessing, LeaseFor, Lease
<1> QED
  BY <1>1, <1>2, <1>3

LEMMA RecordOutputReadyOK ==
  ASSUME NEW j, NEW at, Applying(j, at),
         NEW t,
         MayRecordOutputReady(j, t, at)
  PROVE  RowOK(AfterRecordOutputReady(j, at))
<1>1. AfterRecordOutputReady(j, at) \in Job
  BY RecordOutputReadyType
<1>2. ValidJob(AfterRecordOutputReady(j, at))
  <2> DEFINE r == AfterRecordOutputReady(j, at)
  <2>1. CountersBounded(r) /\ ShapeMatches(r) /\ TimesOrdered(r)
    BY DEF AfterRecordOutputReady, MayRecordOutputReady, Lease
  <2>2. PublicationStamped(r)
    BY DEF AfterRecordOutputReady, MayRecordOutputReady
  <2>3. AttemptsStamped(r)
    BY DEF AfterRecordOutputReady, MayRecordOutputReady
  <2>4. CompensationStamped(r)
    BY DEF AfterRecordOutputReady, MayRecordOutputReady
  <2> QED
    BY <2>1, <2>2, <2>3, <2>4
<1>3. HistoryKept(AfterRecordOutputReady(j, at))
  BY DEF AfterRecordOutputReady, MayRecordOutputReady
<1> QED
  BY <1>1, <1>2, <1>3

LEMMA BeginPublicationOK ==
  ASSUME NEW j, NEW at, Applying(j, at),
         NEW t,
         MayBeginPublication(j, t, at)
  PROVE  RowOK(AfterBeginPublication(j, at))
<1>1. AfterBeginPublication(j, at) \in Job
  BY BeginPublicationType
<1>2. ValidJob(AfterBeginPublication(j, at))
  <2> DEFINE r == AfterBeginPublication(j, at)
  <2>1. CountersBounded(r) /\ ShapeMatches(r) /\ TimesOrdered(r)
    BY DEF AfterBeginPublication, MayBeginPublication, Lease
  <2>2. PublicationStamped(r)
    BY DEF AfterBeginPublication, MayBeginPublication
  <2>3. AttemptsStamped(r)
    BY DEF AfterBeginPublication, MayBeginPublication
  <2>4. CompensationStamped(r)
    BY DEF AfterBeginPublication, MayBeginPublication
  <2> QED
    BY <2>1, <2>2, <2>3, <2>4
<1>3. HistoryKept(AfterBeginPublication(j, at))
  BY DEF AfterBeginPublication, MayBeginPublication
<1> QED
  BY <1>1, <1>2, <1>3

LEMMA MarkReadyOK ==
  ASSUME NEW j, NEW at, Applying(j, at),
         j.state = "publishing"
  PROVE  RowOK(AfterMarkReady(j, at))
<1>1. AfterMarkReady(j, at) \in Job
  BY MarkReadyType
<1>2. ValidJob(AfterMarkReady(j, at))
  BY DEF AfterMarkReady
<1>3. HistoryKept(AfterMarkReady(j, at))
  BY DEF AfterMarkReady
<1> QED
  BY <1>1, <1>2, <1>3

LEMMA RequireCompensationOK ==
  ASSUME NEW j, NEW at, Applying(j, at),
         NEW retryAt \in Nat,
         j.state \notin {"ready", "compensated"}
  PROVE  RowOK(AfterRequireCompensation(j, retryAt, at))
<1>1. AfterRequireCompensation(j, retryAt, at) \in Job
  BY RequireCompensationType
<1>2. ValidJob(AfterRequireCompensation(j, retryAt, at))
  BY FutureOrNowType DEF AfterRequireCompensation
<1>3. HistoryKept(AfterRequireCompensation(j, retryAt, at))
  BY DEF AfterRequireCompensation
<1> QED
  BY <1>1, <1>2, <1>3

LEMMA RetryLaterOK ==
  ASSUME NEW j, NEW at, Applying(j, at),
         NEW retryAt \in Nat,
         j.state \in {"processing", "output_ready"},
         j.attempts < MaxAttempts
  PROVE  RowOK(RetryLater(j, retryAt, at))
<1>1. RetryLater(j, retryAt, at) \in Job
  BY RetryLaterType
<1>2. ValidJob(RetryLater(j, retryAt, at))
  BY FutureOrNowType DEF RetryLater
<1>3. HistoryKept(RetryLater(j, retryAt, at))
  BY DEF RetryLater
<1> QED
  BY <1>1, <1>2, <1>3

LEMMA GiveUpOK ==
  ASSUME NEW j, NEW at, Applying(j, at),
         j.state \in {"processing", "output_ready"}
  PROVE  RowOK(GiveUp(j, at))
<1>1. GiveUp(j, at) \in Job
  BY GiveUpType
<1>2. ValidJob(GiveUp(j, at))
  BY DEF GiveUp
<1>3. HistoryKept(GiveUp(j, at))
  BY DEF GiveUp
<1> QED
  BY <1>1, <1>2, <1>3

LEMMA ClaimCompensationOK ==
  ASSUME NEW j, NEW at, Applying(j, at),
         NEW o \in Owner,
         NEW t \in Token,
         NEW expires \in Nat,
         MayClaimCompensation(j, at, expires)
  PROVE  RowOK(AfterClaimCompensation(j, LeaseFor(o, t, at, expires), at))
<1>1. AfterClaimCompensation(j, LeaseFor(o, t, at, expires), at) \in Job
  BY ClaimCompensationType, LeaseType
<1>2. ValidJob(AfterClaimCompensation(j, LeaseFor(o, t, at, expires), at))
  BY DEF AfterClaimCompensation, MayClaimCompensation, LeaseFor, Lease
<1>3. HistoryKept(AfterClaimCompensation(j, LeaseFor(o, t, at, expires), at))
  BY DEF AfterClaimCompensation, MayClaimCompensation, LeaseFor, Lease
<1> QED
  BY <1>1, <1>2, <1>3

LEMMA MarkCompensatedOK ==
  ASSUME NEW j, NEW at, Applying(j, at),
         j.state = "compensating"
  PROVE  RowOK(AfterMarkCompensated(j, at))
<1>1. AfterMarkCompensated(j, at) \in Job
  BY MarkCompensatedType
<1>2. ValidJob(AfterMarkCompensated(j, at))
  BY DEF AfterMarkCompensated
<1>3. HistoryKept(AfterMarkCompensated(j, at))
  BY DEF AfterMarkCompensated
<1> QED
  BY <1>1, <1>2, <1>3

LEMMA RecordCompensationFailureOK ==
  ASSUME NEW j, NEW at, Applying(j, at),
         NEW retryAt \in Nat,
         j.state = "compensating"
  PROVE  RowOK(AfterRecordCompensationFailure(j, retryAt, at))
<1>1. AfterRecordCompensationFailure(j, retryAt, at) \in Job
  BY RecordCompensationFailureType
<1>2. ValidJob(AfterRecordCompensationFailure(j, retryAt, at))
  BY FutureOrNowType DEF AfterRecordCompensationFailure
<1>3. HistoryKept(AfterRecordCompensationFailure(j, retryAt, at))
  BY DEF AfterRecordCompensationFailure
<1> QED
  BY <1>1, <1>2, <1>3

LEMMA MarkManualReviewOK ==
  ASSUME NEW j, NEW at, Applying(j, at),
         j.state \notin {"ready", "compensated"}
  PROVE  RowOK(AfterMarkManualReview(j, at))
<1>1. AfterMarkManualReview(j, at) \in Job
  BY MarkManualReviewType
<1>2. ValidJob(AfterMarkManualReview(j, at))
  BY DEF AfterMarkManualReview
<1>3. HistoryKept(AfterMarkManualReview(j, at))
  BY DEF AfterMarkManualReview
<1> QED
  BY <1>1, <1>2, <1>3

(* recover_retry also resets the publication of a publishing row.          *)
LEMMA RecoverRetryOK ==
  ASSUME NEW j, NEW at, Applying(j, at), NEW retryAt \in Nat, j.state \in Attempting
  PROVE  RowOK(AfterRecoverRetry(j, retryAt, at))
<1> DEFINE r == AfterRecoverRetry(j, retryAt, at)
<1>1. CASE j.attempts < MaxAttempts
  <2>1. r = [RetryLater(j, retryAt, at) EXCEPT !.publication = "private"]
    BY <1>1 DEF AfterRecoverRetry
  <2>2. r \in Job
    BY <2>1, RetryLaterType, Names
  <2>3. ValidJob(r)
    BY <1>1, <2>1, FutureOrNowType DEF RetryLater
  <2>4. HistoryKept(r)
    BY <1>1, <2>1 DEF RetryLater
  <2> QED
    BY <2>2, <2>3, <2>4
<1>2. CASE ~(j.attempts < MaxAttempts)
  <2>1. r = [GiveUp(j, at) EXCEPT !.publication = "private"]
    BY <1>2 DEF AfterRecoverRetry
  <2>2. r \in Job
    BY <2>1, GiveUpType, Names
  <2>3. ValidJob(r)
    BY <2>1 DEF GiveUp
  <2>4. HistoryKept(r)
    BY <2>1 DEF GiveUp
  <2> QED
    BY <2>2, <2>3, <2>4
<1> QED
  BY <1>1, <1>2

HIDE DEF Applying, RowOK, Job, ValidJob, HistoryKept, CountersBounded, ShapeMatches, TimesOrdered,
      PublicationStamped, AttemptsStamped, CompensationStamped, PublicationShape,
      CompensationShape, Fresh, Advance, Leased, Attempting, Scheduled, Withdrawing

(* record_failure and recover_retry choose between the results above.      *)
LEMMA RecordFailureOK ==
  ASSUME NEW j, NEW at, Applying(j, at), NEW t, NEW mayBePublic \in BOOLEAN,
         NEW retryAt \in Nat \union {None}, MayRecordFailure(j, t, at)
  PROVE  RowOK(AfterRecordFailure(j, mayBePublic, retryAt, at))
<1> DEFINE withdrawAt == IF retryAt = None THEN at ELSE retryAt
<1>1. j.state \in Attempting
  BY DEF MayRecordFailure
<1>2. withdrawAt \in Nat
  BY DEF Applying
<1>3. RowOK(AfterRequireCompensation(j, withdrawAt, at))
  <2> HIDE DEF withdrawAt
  <2> QED
    BY <1>1, <1>2, RequireCompensationOK DEF Attempting
<1>4. CASE j.state = "publishing" \/ mayBePublic
  BY <1>3, <1>4 DEF AfterRecordFailure
<1>5. CASE ~(j.state = "publishing" \/ mayBePublic)
  <2>1. j.state \in {"processing", "output_ready"}
    BY <1>1, <1>5 DEF Attempting
  <2>2. CASE j.attempts < MaxAttempts /\ retryAt # None
    BY <1>5, <2>1, <2>2, RetryLaterOK DEF AfterRecordFailure
  <2>3. CASE ~(j.attempts < MaxAttempts /\ retryAt # None)
    BY <1>5, <2>1, <2>3, GiveUpOK DEF AfterRecordFailure
  <2> QED
    BY <2>2, <2>3
<1> QED
  BY <1>4, <1>5

-----------------------------------------------------------------------------
(* What a command may do to a row: a settled row is not written, a lease   *)
(* does not change hands in place, and the publication phase takes at most *)
(* one of the steps of ImagePublication.                                   *)
RowMoves(j, k) ==
  /\ j.state \notin {"ready", "compensated"}
  /\ j.lease # None /\ k.lease # None => k.lease = j.lease
  /\ \/ RowPhase(k) = RowPhase(j)
     \/ RowPhase(j) = "open" /\ RowPhase(k) \in {"published", "withdrawing"}
     \/ RowPhase(j) = "withdrawing" /\ RowPhase(k) = "withdrawn"

USE DEF RowOK, Job, ValidJob, ShapeMatches, Advance, RowMoves, RowPhase, Leased, Attempting,
        Withdrawing

LEMMA EnqueueMoves ==
  ASSUME NEW j, RowOK(j), NEW at, NEW notBefore, MayEnqueue(j, notBefore, at)
  PROVE  RowMoves(j, AfterEnqueue(j, notBefore, at))
BY DEF MayEnqueue, AfterEnqueue

LEMMA ClaimProcessingMoves ==
  ASSUME NEW j, RowOK(j), NEW at, NEW l, NEW expires, MayClaimProcessing(j, at, expires)
  PROVE  RowMoves(j, AfterClaimProcessing(j, l, at))
BY DEF MayClaimProcessing, AfterClaimProcessing

LEMMA RecordOutputReadyMoves ==
  ASSUME NEW j, RowOK(j), NEW at, NEW t, MayRecordOutputReady(j, t, at)
  PROVE  RowMoves(j, AfterRecordOutputReady(j, at))
BY DEF MayRecordOutputReady, AfterRecordOutputReady

LEMMA BeginPublicationMoves ==
  ASSUME NEW j, RowOK(j), NEW at, NEW t, MayBeginPublication(j, t, at)
  PROVE  RowMoves(j, AfterBeginPublication(j, at))
BY DEF MayBeginPublication, AfterBeginPublication

LEMMA MarkReadyMoves ==
  ASSUME NEW j, RowOK(j), NEW at, j.state = "publishing"
  PROVE  RowMoves(j, AfterMarkReady(j, at))
BY DEF AfterMarkReady

LEMMA RecordFailureMoves ==
  ASSUME NEW j, RowOK(j), NEW at, NEW t, NEW mayBePublic, NEW retryAt, 
         MayRecordFailure(j, t, at)
  PROVE  RowMoves(j, AfterRecordFailure(j, mayBePublic, retryAt, at))
BY DEF MayRecordFailure, AfterRecordFailure, AfterRequireCompensation, RetryLater, GiveUp

LEMMA RecoverRetryMoves ==
  ASSUME NEW j, RowOK(j), NEW at, NEW retryAt, MayRecoverRetry(j, at)
  PROVE  RowMoves(j, AfterRecoverRetry(j, retryAt, at))
BY DEF MayRecoverRetry, AfterRecoverRetry, RetryLater, GiveUp

LEMMA RequireCompensationMoves ==
  ASSUME NEW j, RowOK(j), NEW at, NEW retryAt, MayRequireCompensation(j, at)
  PROVE  RowMoves(j, AfterRequireCompensation(j, retryAt, at))
BY DEF MayRequireCompensation, AfterRequireCompensation

LEMMA ClaimCompensationMoves ==
  ASSUME NEW j, RowOK(j), NEW at, NEW l, NEW expires, MayClaimCompensation(j, at, expires)
  PROVE  RowMoves(j, AfterClaimCompensation(j, l, at))
BY DEF MayClaimCompensation, AfterClaimCompensation

LEMMA MarkCompensatedMoves ==
  ASSUME NEW j, RowOK(j), NEW at, j.state = "compensating"
  PROVE  RowMoves(j, AfterMarkCompensated(j, at))
BY DEF AfterMarkCompensated

LEMMA RecordCompensationFailureMoves ==
  ASSUME NEW j, RowOK(j), NEW at, NEW retryAt, j.state = "compensating"
  PROVE  RowMoves(j, AfterRecordCompensationFailure(j, retryAt, at))
BY DEF AfterRecordCompensationFailure

LEMMA MarkManualReviewMoves ==
  ASSUME NEW j, RowOK(j), NEW at, MayMarkManualReview(j, at)
  PROVE  RowMoves(j, AfterMarkManualReview(j, at))
BY DEF MayMarkManualReview, AfterMarkManualReview

HIDE DEF RowOK, Job, ValidJob, ShapeMatches, Advance, RowMoves, RowPhase, Leased, Attempting,
         Withdrawing
=============================================================================
