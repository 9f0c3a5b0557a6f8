---------------------------- MODULE ImageUpload ----------------------------
(***************************************************************************)
(* The life of one durable image upload: the web request that brought it,  *)
(* the recovery drainer, the image worker and its queue, all acting on one *)
(* ledger row, three files and one registration.                           *)
(*                                                                         *)
(* Every step is what the code does between two awaits that matter: one    *)
(* ledger transaction, one queue exchange, one group of file operations.   *)
(* Any step of any process may come between two steps of another.          *)
(*                                                                         *)
(* Time moves in ticks; a ledger lease lasts JobLease ticks.  At most      *)
(* MaxFaults adverse events happen: a process crash, a database or queue   *)
(* error (before or after its effect), a refused admission or capacity, a  *)
(* failed stat, rename or unlink.  Timeouts and rejected images are not    *)
(* counted, they may always happen.                                        *)
(***************************************************************************)
EXTENDS ImageJobPolicy, FiniteSets

CONSTANTS
  Web,         \* the request that uploads the image
  Reconciler,  \* recovery drainers: one, unless processes are misconfigured
  JobLease,    \* duration of a ledger lease, in ticks
  MaxFaults,   \* bound on adverse events
  Punctual     \* whether a lease outlives the work of a holder that does not crash

Actor == {Web} \union Reconciler

ASSUME UploadConstants ==
  /\ JobLease \in Nat \ {0} /\ MaxFaults \in Nat /\ Punctual \in BOOLEAN
  /\ Web \notin Reconciler /\ Actor \subseteq Owner
  /\ {"processing"} \X (1..MaxAttempts) \subseteq Token
  /\ {"compensation"} \X (1..MaxCompensationAttempts) \subseteq Token

VARIABLES
  now,      \* the clock
  row,      \* the ledger row, None before the upload is reserved
  files,    \* durable input, private output (temp) and public output (final)
  upload,   \* the row of uploaded_images for the output path
  queue,    \* the BullMQ job under the ledger job's id
  worker,   \* what the image worker is doing, and to which file it writes
  local,    \* each actor's control state and local variables
  faults    \* adverse events so far

vars == <<now, row, files, upload, queue, worker, local, faults>>

NoEntry == [attempt |-> 0, state |-> "none"]

PrivateSteps == {"reserve", "readBack", "readyResult", "enqueue", "claim", "submit", "await", "recordOutput",
                 "beginPublication", "rename", "publish", "publishFailed", "finish"}
CatchSteps == {"caught", "caughtAmbiguous", "caughtPublished", "discard", "giveUp"}
CompensationSteps == {"compensate", "claimCompensation", "checkSafe", "compensationFailed",
                      "removeFiles", "complete"}
RecoverySteps == {"observe", "recoverReady", "cleanTemp", "recoverRetry", "dropInput",
                  "manualReview"}
Running == PrivateSteps \union CatchSteps \union CompensationSteps \union RecoverySteps
Caller == {"none", "publish", "catch", "recovery", "lapsed"}

TypeOK ==
  /\ now \in Nat
  /\ row \in Job \union {None}
  /\ files \in [{"input", "temp", "final"} -> {"absent", "partial", "complete"}]
  /\ upload \in {"none", "ready", "attached"}
  /\ queue \in [attempt: 0..MaxAttempts,
                state: {"none", "waiting", "active", "completed", "failed"}]
  /\ worker \in {"idle", "reading", "temp", "final", "gone"}
  /\ local \in [Actor -> [pc: Running \union {"idle", "answered", "refused"},
                          seen: Job \union {None}, at: Nat, caller: Caller]]
  /\ faults \in 0..MaxFaults

At(pc) == [pc |-> pc, seen |-> None, at |-> 0, caller |-> "none"]

Init ==
  /\ now = 0 /\ row = None /\ upload = "none" /\ queue = NoEntry /\ worker = "idle" /\ faults = 0
  /\ files = [f \in {"input", "temp", "final"} |-> "absent"]
  /\ local = [a \in Actor |-> At(IF a = Web THEN "reserve" ELSE "idle")]

-----------------------------------------------------------------------------
(* Control *)

Fault == faults < MaxFaults /\ faults' = faults + 1
NoFault == UNCHANGED faults

Seen(a) == local[a].seen
End(a) == IF a = Web THEN "refused" ELSE "idle"
Answer(a) == IF a = Web THEN "answered" ELSE "idle"

(* An actor that ends forgets its locals; otherwise it remembers the row   *)
(* it last saw.                                                            *)
Go(a, pc, seen) ==
  local' = [local EXCEPT ![a] = IF pc \in Running THEN [@ EXCEPT !.pc = pc, !.seen = seen]
                                                  ELSE At(pc)]
Stay(a, pc) == Go(a, pc, Seen(a))
Enter(a, pc, seen, caller) ==
  local' = [local EXCEPT ![a] = [@ EXCEPT !.pc = pc, !.seen = seen, !.caller = caller]]

(* unlink takes a file away from a worker that still has it open.          *)
Remove(names) ==
  /\ files' = [f \in DOMAIN files |-> IF f \in names THEN "absent" ELSE files[f]]
  /\ worker' = IF worker \in names THEN "gone" ELSE worker

(* transitionImageJob: the command is applied to the stored row when it    *)
(* has the version the actor last saw and the policy accepts it.  A        *)
(* database error is reported whether or not the commit took effect.       *)
Command(a, may, after, at, onward, onError) ==
  LET accepted == Fresh(row, Seen(a).version, at) /\ may
  IN /\ \/ accepted /\ row' = after /\ Go(a, onward, after) /\ NoFault
        \/ ~accepted /\ UNCHANGED row /\ Stay(a, onError) /\ NoFault
        \/ Fault /\ Stay(a, onError) /\ (UNCHANGED row \/ (accepted /\ row' = after))
     /\ UNCHANGED <<now, files, upload, queue, worker>>

LeaseToken(a) == Seen(a).lease.token
ProcessingLease(a) ==
  LeaseFor(a, <<"processing", row.attempts + 1>>, now, now + JobLease)
CompensationLease(a) ==
  LeaseFor(a, <<"compensation", row.compensationAttempts + 1>>, now, now + JobLease)

-----------------------------------------------------------------------------
(* #completeDurable and #driveImageJob *)

DriveFromInsideTry(a, j) ==
  CASE j.state = "ready" -> "readyResult"
    [] j.state = "requested" -> "enqueue"
    [] j.state = "queued" -> "claim"
    [] OTHER -> "caught"

(* Where driving a job starts.                                             *)
DriveFrom(a, j) ==
  CASE j.state = "ready" -> "readyResult"
    [] j.state = "requested" -> "enqueue"
    [] j.state = "queued" -> "claim"
    [] OTHER -> End(a)

(* The staged input is moved to its durable place and the row reserved.    *)
(* stage() draws a new request key for every upload, so the row is new;    *)
(* only a lost commit acknowledgement makes the request look for it.       *)
Reserve ==
  /\ local[Web].pc = "reserve"
  /\ row' = CreatedJob(now) /\ files' = [files EXCEPT !["input"] = "complete"]
  /\ \/ Go(Web, "enqueue", CreatedJob(now)) /\ NoFault
     \/ Stay(Web, "readBack") /\ Fault
  /\ UNCHANGED <<now, upload, queue, worker>>

(* observeReservedImageJob: by now the drainer may be driving the job.  If *)
(* the row cannot be read, the request removes its input and gives up.     *)
ReadBack ==
  /\ local[Web].pc = "readBack"
  /\ \/ Go(Web, DriveFrom(Web, row), row) /\ UNCHANGED <<files, worker>> /\ NoFault
     \/ Stay(Web, "refused") /\ Remove({"input"}) /\ Fault
  /\ UNCHANGED <<now, row, upload, queue>>

ReadyResult(a) ==
  /\ local[a].pc = "readyResult"
  /\ Stay(a, IF Attachable(Seen(a)) /\ upload # "none" /\ files["final"] # "absent"
             THEN "answered" ELSE "refused")
  /\ UNCHANGED <<now, row, files, upload, queue, worker, faults>>

(* The drainer enqueues at the clock of its pass, a request at the         *)
(* present.                                                                *)
Enqueue(a) ==
  LET at == IF a \in Reconciler THEN local[a].at ELSE now
  IN /\ local[a].pc = "enqueue"
     /\ Command(a, MayEnqueue(row, at, at), AfterEnqueue(row, at, at), at, "claim", End(a))

ClaimProcessing(a) ==
  /\ local[a].pc = "claim"
  /\ Command(a, MayClaimProcessing(row, now, now + JobLease),
             AfterClaimProcessing(row, ProcessingLease(a), now), now, "submit", End(a))

(* decideBullMqJobReplay, for the attempts 1..20 that occur.               *)
Replay(stored, requested, state) ==
  CASE stored > requested -> "reject"
    [] stored = requested \/ (stored < requested /\ state = "active") -> "reuse"
    [] OTHER -> "replace"

(* BullMqImageExecutor.execute up to the wait: an existing queue job is    *)
(* reused, replaced or refused, a new one needs admission.                 *)
Submit(a) ==
  LET mine == [attempt |-> Seen(a).attempts, state |-> "waiting"]
      replay == IF queue = NoEntry THEN "replace"
                ELSE Replay(queue.attempt, mine.attempt, queue.state)
  IN /\ local[a].pc = "submit"
     /\ UNCHANGED <<now, row, files, upload, worker>>
     /\ \/ replay = "reuse" /\ Stay(a, "await") /\ UNCHANGED queue /\ NoFault
        \/ replay = "reject" /\ Stay(a, "caught") /\ UNCHANGED queue /\ NoFault
        \/ replay = "replace" /\ queue' = mine /\ Stay(a, "await") /\ NoFault
        \/ replay = "replace" /\ queue' = NoEntry /\ Stay(a, "caught") /\ Fault
        \/ /\ Fault /\ Stay(a, "caughtAmbiguous")
           /\ UNCHANGED queue \/ (replay = "replace" /\ queue' \in {NoEntry, mine})

(* The wait for the worker's answer.  Events are matched by job id, so any *)
(* attempt's outcome ends it.  On a timeout a job still waiting is         *)
(* removed; an active one is left for recovery.  If the queue job was      *)
(* removed meanwhile, the library reports either a timeout or an error.    *)
(* A connection error during the wait is not taken for an ambiguous one.   *)
Await(a) ==
  /\ local[a].pc = "await"
  /\ UNCHANGED <<now, row, files, upload, worker>>
  /\ \/ queue.state = "completed" /\ Stay(a, "recordOutput") /\ UNCHANGED queue /\ NoFault
     \/ queue.state \in {"failed", "none"} /\ Stay(a, "caught") /\ UNCHANGED queue /\ NoFault
     \/ queue.state \in {"active", "none"} /\ Stay(a, "caughtAmbiguous") /\ UNCHANGED queue /\ NoFault
     \/ queue.state = "waiting" /\ Stay(a, "caughtAmbiguous") /\ queue' = NoEntry /\ NoFault
     \/ Stay(a, "caught") /\ UNCHANGED queue /\ Fault

RecordOutputReady(a) ==
  /\ local[a].pc = "recordOutput"
  /\ Command(a, MayRecordOutputReady(row, LeaseToken(a), now), AfterRecordOutputReady(row, now), now,
             "beginPublication", "caught")

BeginPublication(a) ==
  /\ local[a].pc = "beginPublication"
  /\ Command(a, MayBeginPublication(row, LeaseToken(a), now), AfterBeginPublication(row, now), now,
             "rename", "caught")

(* The private output becomes the public one, whatever wrote it.           *)
Rename(a) ==
  /\ local[a].pc = "rename"
  /\ UNCHANGED <<now, row, upload, queue>>
  /\ \/ files["temp"] = "absent" /\ Stay(a, "caught") /\ UNCHANGED <<files, worker>> /\ NoFault
     \/ Stay(a, "caught") /\ UNCHANGED <<files, worker>> /\ Fault
     \/ /\ files["temp"] # "absent" /\ NoFault
        /\ files' = [files EXCEPT !["final"] = files["temp"], !["temp"] = "absent"]
        /\ worker' = IF worker = "temp" THEN "final" ELSE worker
        /\ local' = [local EXCEPT ![a].pc = "publish", ![a].at = now]

MayPublishUnchecked(a) == upload = "none"

MayPublish(a) ==
  /\ Fresh(row, Seen(a).version, local[a].at)
  /\ MayMarkReady(row, LeaseToken(a), local[a].at)
  /\ upload = "none"

(* publishImageJobReady: registration and ready row in one transaction, at *)
(* a clock read before the capacity lock is taken.                         *)
Publish(a) ==
  LET after == AfterMarkReady(row, local[a].at)
      published == row.state = "ready" /\ upload # "none"
      written == row' = after /\ upload' = "ready"
  IN /\ local[a].pc = "publish"
     /\ UNCHANGED <<now, files, queue, worker>>
     /\ \/ published /\ Go(a, "finish", row) /\ UNCHANGED <<row, upload>> /\ NoFault
        \/ MayPublish(a) /\ written /\ Go(a, "finish", after) /\ NoFault
        \/ /\ ~published /\ ~MayPublish(a)
           /\ Stay(a, "publishFailed") /\ UNCHANGED <<row, upload>> /\ NoFault
        \/ /\ Stay(a, "publishFailed") /\ Fault
           /\ UNCHANGED <<row, upload>> \/ (MayPublish(a) /\ written)

(* Where compensating a row starts: a row already required or in progress  *)
(* is taken up where it is.                                                *)
CompensateFrom(j) ==
  CASE j.state = "compensation_required" -> "claimCompensation"
    [] j.state = "compensating" -> "checkSafe"
    [] OTHER -> "compensate"

CompletedByFile == files["final"] # "absent"

(* A ready row with its public file: somebody completed this upload.       *)
Completed == row.state = "ready" /\ files["final"] # "absent"

(* Publication reported an error: the stored row tells what happened.      *)
PublishFailed(a) ==
  /\ local[a].pc = "publishFailed"
  /\ UNCHANGED <<now, row, files, upload, queue, worker>>
  /\ \/ Completed /\ Go(a, "finish", row) /\ NoFault
     \/ ~Completed /\ Enter(a, CompensateFrom(row), row, "publish") /\ NoFault
     \/ Stay(a, "caughtPublished") /\ Fault

Finish(a) ==
  /\ local[a].pc = "finish"
  /\ \/ Remove({"input"}) /\ Stay(a, Answer(a)) /\ NoFault
     \/ Stay(a, "caughtPublished") /\ UNCHANGED <<files, worker>> /\ Fault
  /\ UNCHANGED <<now, row, upload, queue>>

(* The outer catch: what to undo depends on the row as it is now, on       *)
(* whether this driver renamed its output, and on whether the worker may   *)
(* still be running.                                                       *)
Caught(a) ==
  LET pc == local[a].pc
      published == pc = "caughtPublished" \/ row.state = "publishing"
      withdraw == published /\ row.state # "compensated"
      abandon == pc = "caught" /\ ~published /\ row.state \in {"processing", "output_ready"}
  IN /\ pc \in {"caught", "caughtAmbiguous", "caughtPublished"}
     /\ UNCHANGED <<now, row, upload, queue>>
     /\ \/ Completed /\ Remove({"input"}) /\ Stay(a, Answer(a)) /\ NoFault
        \/ /\ ~Completed /\ NoFault /\ UNCHANGED <<files, worker>>
           /\ \/ withdraw /\ Enter(a, CompensateFrom(row), row, "catch")
              \/ abandon /\ Go(a, "discard", row)
              \/ ~withdraw /\ ~abandon /\ Stay(a, End(a))
        \/ Stay(a, End(a)) /\ UNCHANGED <<files, worker>> /\ Fault

Discard(a) ==
  /\ local[a].pc = "discard"
  /\ \/ Remove({"temp", "input"}) /\ Stay(a, "giveUp") /\ NoFault
     \/ Stay(a, End(a)) /\ Fault /\ \E some \in SUBSET {"temp", "input"} : Remove(some)
  /\ UNCHANGED <<now, row, upload, queue>>

(* The attempt is failed with the token found in the row, not with the     *)
(* driver's own.                                                           *)
GiveUpAttempt(a) ==
  /\ local[a].pc = "giveUp"
  /\ Command(a, MayRecordFailure(row, LeaseToken(a), now), AfterRecordFailure(row, FALSE, None, now),
             now, End(a), End(a))

-----------------------------------------------------------------------------
(* #compensatePublishedJob; an error is swallowed or rethrown to the same  *)
(* place.                                                                  *)
Return(a) == IF local[a].caller = "publish" THEN "caughtPublished" ELSE End(a)

RequireCompensation(a) ==
  LET holds == LiveLease(Seen(a), now) /\ Seen(a).state \in Attempting
  IN /\ local[a].pc = "compensate"
     /\ Command(a,
          IF holds THEN MayRecordFailure(row, LeaseToken(a), now) ELSE MayRequireCompensation(row, now),
          IF holds THEN AfterRecordFailure(row, TRUE, now, now)
                   ELSE AfterRequireCompensation(row, now, now),
          now, "claimCompensation", Return(a))

ClaimCompensation(a) ==
  /\ local[a].pc = "claimCompensation"
  /\ Command(a, MayClaimCompensation(row, now, now + JobLease),
             AfterClaimCompensation(row, CompensationLease(a), now), now, "checkSafe", Return(a))

(* assertImageJobCompensationSafe: the output must not be attached to a    *)
(* link.  recover_compensated does not record a failed check.              *)
CheckSafe(a) ==
  LET unsafe == IF local[a].caller = "lapsed" THEN End(a) ELSE "compensationFailed"
  IN /\ local[a].pc = "checkSafe"
     /\ \/ Stay(a, IF upload = "attached" THEN unsafe ELSE "removeFiles") /\ NoFault
        \/ Stay(a, unsafe) /\ Fault
     /\ UNCHANGED <<now, row, files, upload, queue, worker>>

CompensationFailed(a) ==
  /\ local[a].pc = "compensationFailed"
  /\ Command(a, MayRecordCompensationFailure(row, LeaseToken(a), now),
             AfterRecordCompensationFailure(row, now + JobLease, now), now, Return(a), Return(a))

RemoveFilesUnsettled(a) ==
  /\ local[a].pc = "removeFiles"
  /\ Stay(a, "complete")
  /\ \/ Remove({"input", "temp", "final"}) /\ NoFault
     \/ Fault /\ \E some \in SUBSET {"input", "temp", "final"} : Remove(some)
  /\ UNCHANGED <<now, row, upload, queue>>

RemoveFiles(a) ==
  /\ local[a].pc = "removeFiles"
  /\ \/ Remove({"input", "temp", "final"}) /\ Stay(a, "complete") /\ NoFault
     \/ Fault /\ Stay(a, Return(a)) /\ \E some \in SUBSET {"input", "temp", "final"} : Remove(some)
  /\ UNCHANGED <<now, row, upload, queue>>

(* completeImageJobCompensation: registration and row in one transaction.  *)
CompleteCompensation(a) ==
  LET lapsed == local[a].caller = "lapsed"
      at == IF lapsed THEN local[a].at ELSE now
      accepted == /\ Fresh(row, Seen(a).version, at) /\ upload # "attached"
                  /\ IF lapsed THEN MayRecoverCompensated(row, at)
                               ELSE MayMarkCompensated(row, LeaseToken(a), at)
      written == row' = AfterMarkCompensated(row, at) /\ upload' = "none"
  IN /\ local[a].pc = "complete"
     /\ Stay(a, Return(a))
     /\ \/ accepted /\ written /\ NoFault
        \/ ~accepted /\ UNCHANGED <<row, upload>> /\ NoFault
        \/ Fault /\ (UNCHANGED <<row, upload>> \/ (accepted /\ written))
     /\ UNCHANGED <<now, files, queue, worker>>

-----------------------------------------------------------------------------
(* reconcileOnStartup, as the recovery drainer runs it: one due row a pass *)

ListedWithoutLeases(j, at) == j.state = "requested" \/ (j.state \in Scheduled /\ Due(j, at))

ListedWithoutRequests(j, at) ==
  \/ j.state \in Scheduled /\ Due(j, at)
  \/ j.state \in Leased /\ LapsedLease(j, at)

Listed(j, at) ==
  \/ j.state = "requested"
  \/ j.state \in Scheduled /\ Due(j, at)
  \/ j.state \in Leased /\ LapsedLease(j, at)

ListDue(a) ==
  /\ local[a].pc = "idle"
  /\ row # None /\ Listed(row, now)
  /\ local' = [local EXCEPT ![a] = [At("observe") EXCEPT !.seen = row, !.at = now]]
  /\ UNCHANGED <<now, row, files, upload, queue, worker, faults>>

Present(found) == IF found THEN "present" ELSE "absent"

(* What the files and the registration look like; the registration is only *)
(* looked for when the row is ready by now.                                *)
Observed ==
  [final |-> Present(files["final"] # "absent"),
   private |-> Present(files["input"] # "absent" \/ files["temp"] # "absent"),
   registration |-> Present(Attachable(row) /\ upload # "none")]

Obscured == {[Observed EXCEPT ![f] = "unknown"] : f \in DOMAIN Observed}

(* The chosen action's first step, and the compensation it runs under.     *)
StepOf(plan, j) ==
  CASE plan = "enqueue" -> "enqueue"
    [] plan = "claim_processing" -> "claim"
    [] plan = "recover_ready" -> "recoverReady"
    [] plan = "clean_private_then_recover_retry" -> "cleanTemp"
    [] plan \in {"require_compensation", "claim_compensation"} -> CompensateFrom(j)
    [] plan = "recover_compensated" -> "checkSafe"
    [] plan = "manual_review" -> "manualReview"

CallerOf(plan) ==
  CASE plan \in {"require_compensation", "claim_compensation"} -> "recovery"
    [] plan = "recover_compensated" -> "lapsed"
    [] OTHER -> "none"

Observe(a) ==
  /\ local[a].pc = "observe"
  /\ \E ev \in {Observed} \union Obscured :
       LET plan == PlanRestart(Seen(a), ev, local[a].at)
       IN /\ IF ev = Observed THEN NoFault ELSE Fault
          /\ Enter(a, StepOf(plan, Seen(a)), Seen(a), CallerOf(plan))
  /\ UNCHANGED <<now, row, files, upload, queue, worker>>

RecoverReady(a) ==
  /\ local[a].pc = "recoverReady"
  /\ Command(a, MayRecoverReady(row, local[a].at), AfterMarkReady(row, local[a].at), local[a].at,
             "idle", "idle")

(* The private output is removed before the version is checked.            *)
CleanTemp(a) ==
  /\ local[a].pc = "cleanTemp"
  /\ \/ Remove({"temp"}) /\ Stay(a, "recoverRetry") /\ NoFault
     \/ Stay(a, "idle") /\ UNCHANGED <<files, worker>> /\ Fault
  /\ UNCHANGED <<now, row, upload, queue>>

RecoverRetry(a) ==
  LET after == AfterRecoverRetry(row, local[a].at, local[a].at)
  IN /\ local[a].pc = "recoverRetry"
     /\ Command(a, MayRecoverRetry(row, local[a].at), after, local[a].at,
                IF after.state = "queued" THEN "claim" ELSE "dropInput", "idle")

DropInput(a) ==
  /\ local[a].pc = "dropInput"
  /\ \/ Remove({"input"}) /\ Stay(a, "idle") /\ NoFault
     \/ Stay(a, "idle") /\ UNCHANGED <<files, worker>> /\ Fault
  /\ UNCHANGED <<now, row, upload, queue>>

MarkManualReview(a) ==
  /\ local[a].pc = "manualReview"
  /\ Command(a, MayMarkManualReview(row, local[a].at), AfterMarkManualReview(row, local[a].at),
             local[a].at, "idle", "idle")

-----------------------------------------------------------------------------
(* The image worker: one job at a time, one output file per ledger job *)

Take ==
  /\ worker = "idle" /\ queue.state = "waiting"
  /\ worker' = "reading" /\ queue' = [queue EXCEPT !.state = "active"]
  /\ UNCHANGED <<now, row, files, upload, local, faults>>

(* The input is missing or not an acceptable image.                        *)
Reject ==
  /\ worker = "reading"
  /\ worker' = "idle" /\ queue' = [queue EXCEPT !.state = "failed"]
  /\ UNCHANGED <<now, row, files, upload, local, faults>>

(* Opening the output truncates what an earlier attempt left there.        *)
Open ==
  /\ worker = "reading" /\ files["input"] # "absent"
  /\ worker' = "temp" /\ files' = [files EXCEPT !["temp"] = "partial"]
  /\ UNCHANGED <<now, row, upload, queue, local, faults>>

(* The last bytes go to the file that was opened, wherever it is by now;   *)
(* the chmod that follows needs it under its private name.                 *)
Finished ==
  /\ worker \in {"temp", "final", "gone"}
  /\ files' = IF worker = "gone" THEN files ELSE [files EXCEPT ![worker] = "complete"]
  /\ queue' = [queue EXCEPT !.state = IF worker = "temp" THEN "completed" ELSE "failed"]
  /\ worker' = "idle"
  /\ UNCHANGED <<now, row, upload, local, faults>>

(* A stalled job is run again once, or failed.                             *)
WorkerCrash ==
  /\ worker # "idle" /\ Fault
  /\ worker' = "idle" /\ \E s \in {"waiting", "failed"} : queue' = [queue EXCEPT !.state = s]
  /\ UNCHANGED <<now, row, files, upload, local>>

-----------------------------------------------------------------------------
(* Surroundings *)

(* createLink attaches the registered upload of a ready row to a link of   *)
(* the client that was given its path.                                     *)
Attach ==
  /\ local[Web].pc = "answered" /\ upload = "ready" /\ Attachable(row)
  /\ upload' = "attached"
  /\ UNCHANGED <<now, row, files, queue, worker, local, faults>>

Crash(a) ==
  /\ local[a].pc \in Running \ {"reserve"} /\ Fault
  /\ Stay(a, End(a))
  /\ UNCHANGED <<now, row, files, upload, queue, worker>>

(* The actor works under the lease that the row has.                       *)
Holding(a) == local[a].pc \in Running /\ Seen(a) # None /\ Seen(a).lease = row.lease

(* Time passes; it is only worth a step while a deadline lies ahead.  The  *)
(* lease is three times the wait for the worker: a holder that is not      *)
(* Punctual was held up by something else.                                 *)
Tick ==
  /\ row # None
  /\ \/ LiveLease(row, now) /\ (Punctual => ~\E a \in Actor : Holding(a))
     \/ ~Due(row, now)
  /\ now' = now + 1
  /\ UNCHANGED <<row, files, upload, queue, worker, local, faults>>

Drive(a) ==
  \/ ReadyResult(a) \/ Enqueue(a) \/ ClaimProcessing(a) \/ Submit(a) \/ Await(a)
  \/ RecordOutputReady(a) \/ BeginPublication(a) \/ Rename(a) \/ Publish(a) \/ PublishFailed(a)
  \/ Finish(a) \/ Caught(a) \/ Discard(a) \/ GiveUpAttempt(a)

Compensate(a) ==
  \/ RequireCompensation(a) \/ ClaimCompensation(a) \/ CheckSafe(a) \/ CompensationFailed(a)
  \/ RemoveFiles(a) \/ CompleteCompensation(a)

Recover(a) ==
  \/ ListDue(a) \/ Observe(a) \/ RecoverReady(a) \/ CleanTemp(a) \/ RecoverRetry(a)
  \/ DropInput(a) \/ MarkManualReview(a)

Work == Take \/ Reject \/ Open \/ Finished

Next ==
  \/ Reserve \/ ReadBack
  \/ \E a \in Actor : Drive(a) \/ Compensate(a) \/ Crash(a)
  \/ \E a \in Reconciler : Recover(a)
  \/ Work \/ WorkerCrash \/ Attach \/ Tick

Spec == Init /\ [][Next]_vars


(* Promises are settled, timers fire, the drainer keeps passing and the    *)
(* worker keeps consuming.                                                 *)
Fairness ==
  /\ \A a \in Actor : WF_vars(Drive(a)) /\ WF_vars(Compensate(a))
  /\ \A a \in Reconciler : WF_vars(Recover(a))
  /\ WF_vars(ReadBack) /\ WF_vars(Work) /\ WF_vars(Tick)

FairSpec == Spec /\ Fairness

-----------------------------------------------------------------------------
(* Properties *)

InState(states) == row # None /\ row.state \in states

(* A ready row, its registration and its public file come and stay         *)
(* together: no late driver or compensator takes one of them away, and     *)
(* recovery never publishes a row that lacks one of the others.            *)
ReadyIntact ==
  /\ InState({"ready"}) <=> upload # "none"
  /\ upload # "none" => files["final"] # "absent"

(* What a ready row names is a finished image, and no worker of an earlier *)
(* attempt is still writing to it.                                         *)
ReadyWhole == InState({"ready"}) => files["final"] = "complete" /\ worker # "final"

(* A client that was told its upload succeeded has a ready row, even when  *)
(* the answer came out of the error path after somebody else completed or  *)
(* withdrew the job, and recovery never takes the image back.              *)
AnswersHold == local[Web].pc = "answered" => InState({"ready"})

Quiet == worker = "idle" /\ \A a \in Actor : local[a].pc \notin Running

(* Once a compensated image has come to rest, no file is left under its    *)
(* public name, whoever renamed or removed files late.                     *)
CompensatedClean == Quiet /\ InState({"compensated"}) => files["final"] = "absent"

(* The same of an upload that was given up: the failure path and the retry *)
(* path discard private files only, so they must never be taken once a     *)
(* rename may have happened.                                               *)
FailedClean == Quiet /\ InState({"failed"}) => files["final"] = "absent"

(* The public file never has the unfinished output of any attempt.         *)
NoPartialPublic == files["final"] # "partial"

(* At rest and underway, the public names are as clean as the rows say     *)
(* (the publication, failure and recovery paths of service.ts).            *)
PublicNamesClean == FailedClean /\ NoPartialPublic /\ ReadyWhole

(* Automatic recovery leaves a row that was put aside for a human alone:   *)
(* whoever takes it out of manual review is a driver on its error path.    *)
RecoverySparesManual ==
  [][InState({"manual_review"}) /\ row'.state # "manual_review"
       => \E a \in Actor : local[a].caller \in {"publish", "catch"} /\ local'[a] # local[a]]_vars

(* An attempt is only retried or failed while nothing of it is public,     *)
(* whatever the recovery read before it decided.                           *)
RetryOnlyNonPublic ==
  [][InState(Attempting) /\ row' # row /\ row'.state \in {"queued", "failed"}
       => files["final"] = "absent"]_vars

(* While an attempt's lease is live, only the actor that holds it ends it. *)
LiveLeaseRespected ==
  [][InState(Attempting) /\ LiveLease(row, now) /\ row'.lease = None
       => local'[row.lease.owner] # local[row.lease.owner]]_vars

(* While the lease on a finished output is live, only its holder touches   *)
(* the output.                                                             *)
OutputUndisturbed ==
  [][InState({"output_ready", "publishing"}) /\ LiveLease(row, now)
       => \/ local'[row.lease.owner] # local[row.lease.owner]
          \/ files'["temp"] = files["temp"]]_vars

(* Every reserved upload comes to an end, whatever crashed, was lost or    *)
(* timed out on the way: recovery finds it and gets it there.              *)
Settles == (row # None) ~> InState({"ready", "failed", "compensated", "manual_review"})

(* Without the assumption that holders are punctual, one more end exists:  *)
(* compensation is required again after its last attempt.                  *)
SettlesOrExhausts ==
  (row # None) ~>
    \/ InState({"ready", "failed", "compensated", "manual_review"})
    \/ InState({"compensation_required"}) /\ row.compensationAttempts = MaxCompensationAttempts

(* A row that recovery is due to work on does not stay due for ever, where *)
(* it would be picked before later rows pass after pass.                   *)
InDueQueue == row # None /\ Listed(row, now)
LeavesDueQueue == InDueQueue ~> ~InDueQueue

(* What every reachable state has: well-typed variables, and ready images  *)
(* that are registered and public (uploads/service.ts).                    *)
UploadInv == TypeOK /\ ReadyIntact
=============================================================================
