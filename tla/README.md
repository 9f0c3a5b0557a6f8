# Formal models of the shortener

TLA+ modules, TLC runs and TLAPS proofs for the link shortener in this repository.
Paths below are relative to the repository root; names of files without a path are under `src/`.
The service is a TypeScript program: several PM2 web processes and one image-worker process share
MariaDB, Redis (cache, sessions, BullMQ) and a directory of uploaded images. Browsers run
`public/assets/dashboard-shell.js`; operators run the tools that issue activations and write
maintenance reports.

## 1. Inventory

| Component | State | Operations | What is hard | What makes it correct |
|---|---|---|---|---|
| Image-job policy (`modules/uploads/job-ledger-policy.ts`) | none: a pure function from row and command to row | create, 14 commands, attachability, restart plan | sequences of legal commands; boundaries of leases, attempts, due times | every row it writes passes `assertImageJobInvariant`; final outcomes stay; withdrawn never published; every planned command is accepted |
| Ledger store (`infrastructure/mysql-image-job-store.ts`) | `image_job_ledger_v1`, `uploaded_images` | reserve, transition, publish, compensate, list for recovery | lost commit acknowledgements, two tables in one transaction | compare-and-swap on version; row and registration change together |
| Upload service (`modules/uploads/service.ts`) | three files per job, local variables across awaits | complete, drive, compensate, reconcile | a late holder, a stale snapshot, one of several file operations failing, a crash anywhere | a ready image is whole and public; a failed or compensated one is not; every upload ends |
| Queue executor (`bullmq-executor.ts`) | BullMQ job per ledger job, admission set in Redis | reserve, submit, wait, replay, release, sweep | a timeout with a worker still running, reservations of dead processes | the queue never holds a job without its reservation; a slow submission keeps its own |
| Image worker (`workers/image-worker.ts`, `worker-heartbeat.ts`) | singleton lease in Redis | acquire, refresh, lose, stop; take, write, finish | commands that run late, a lease that may have lapsed | who consumes holds the lease |
| Recovery drainer and web process (`server.ts`, `infrastructure/startup-recovery.ts`) | timer, active pass, listener, resources | preflight, gate, listen, pass, signal, close | a signal at any moment, stop racing a pass | nothing runs or starts once the resources are closed |
| Runtime readiness (`infrastructure/runtime-readiness.ts`) | active probe, cached answer | check, close | late results, single flight | a positive answer is recent; close() ends |
| Links (`modules/links/service.ts`, `infrastructure/mysql-store.ts`) | `links`, Redis cache | create (bulk), delete, attach, look up | lost commits; cache fill against delete | one link per request; a deleted link stops within the cache lifetime |
| Redirect (`modules/redirect/`) | click claim, accounting | resolve, decide, claim, record, observe | SET NX with a lost reply, fail-open accounting, many inputs to one decision | what is booked is what was served; a claim is honest; one decision per browser |
| Delivered-country reporting (`modules/reporting/observer.ts`, `completeness.ts`) | Redis buckets, sticky gap marker, published rows | observe, mark gap, judge | an observation that fails after its click was counted | a bucket without a gap is exact; "complete" has all that was delivered |
| Reporting views (`admin-report-service.ts`, `dashboard/shield-service.ts`, `history-service.ts`) | a ring of daily counters, cached summaries | window, report, panel, page | reads between the publisher's writes, midnight, stale cache | nothing partial is shown as whole |
| Authentication (`modules/auth/`) | sessions in Redis, remember tokens and epoch in MariaDB | login, register, restore, logout, global reset | two stores, lost acknowledgements, a reset between two writes | after a reset nothing of the old epoch authenticates |
| Administration (`modules/admin/`, `current-decision-provider.ts`) | settings of a domain, their cache | show, save, announce, read | forms cut short, a cache filled while a save commits | what was typed is stored, what is stored is obeyed |
| Dashboard page (`public/assets/dashboard-shell.js`) | the form, the image pool, the domain | choose, upload, create, remember | answers that come after the author chose again | newer choices stand; what the author is told is true |
| Production activation (`config/production-startup.ts`, `tools/`) | receipts, readiness document, activations | capture, bind, issue, start, verify | reboots, replaced artifacts, receipts that grow old | what runs was shown fit; what ran comes back |
| Maintenance reports (`modules/maintenance/`) | receipts and a lock directory | read, select, write | runs that end inside the lock | one writer; a receipt said to be written is whole |

How they interact. An upload request moves the staged file to its durable name, reserves a ledger
row and drives it: enqueue, claim a lease, submit to BullMQ and wait, record the output, begin
publication, rename the private output to its public name, register the upload and mark the row
ready in one transaction. Whatever stops it, the recovery drainer in one web process finds the row
later, looks at files and registration, and finishes, retries or compensates (withdraws) it. Link
creation attaches a registered upload to a link. A visit looks a link up through the cache, decides
by cached settings, claims its click in Redis, books it in MariaDB and observes delivered ones in
a Redis bucket, which a publisher outside this repository seals into the tables that reports read.
Admins change the settings that visits read. Every request passes the session layer. A web process
starts only on an activation whose evidence is in place, and serves once readiness answers.

The hazards this gives are listed one by one in `PROJECT.json`, at their source lines, with the
properties that cover them.

## 2. The modules

| Module | Models |
|---|---|
| `ImageJobPolicy` | the pure policy: rows, the row invariant, `May...` (what a command requires), `After...` (the row it writes), attachability, `PlanRestart`; what a row keeps of its history (`HistoryKept`) |
| `ImagePublication` | abstract specification: absent, open, then published for good, or withdrawing and withdrawn |
| `ImageJobLedger` | the ledger table under any commands at any time with any clock reading |
| `ImageUpload` | one upload from request to end: request, drainers, queue, worker, files, registration, crashes, faults, time |
| `ImageAdmission` | the admission set of the queue: executors, worker, sweep, grace period |
| `WorkerLease` | the worker's lease key, the commands on their way to it, the workers |
| `WebProcess` | one life of a web process: probe, gate, listener, drainer, shutdown |
| `AuthSessions` | requests of browsers against the session store and the account tables |
| `RedirectDecision` | the decision on a visit as operators, over all combinations of inputs the run lists |
| `LinkTraffic` | visits, writers, cache, claims, books and the observed bucket of one code; EXTENDS `RedirectDecision` |
| `DeliveredCountry` | the judgement of windows and of a bucket's publication as operators over rows |
| `AdminReport` | a traffic report whose queries interleave with the publisher's writes |
| `TrafficShield` | the ring of filtered clicks by date and the panel over it |
| `DashboardHistory` | a dashboard request: three promises, the summary cache, the process |
| `AdminForm` | the country and Quality form, from the page to a visit's treatment, as operators |
| `SettingsCache` | saves, announcements, and visits that read through the cache |
| `DashboardPage` | the author's page in the browser and the answers of the mutation routes |
| `ProductionActivation` | issue, verification and start of activations |
| `MaintenanceReport` | runs of the maintenance report that share one directory |
| `ImageJobPolicyProofs` | what each command makes of a row; the ground of the next two |
| `ImageJobLedgerProofs`, `ImageUploadProofs` | theorems about the ledger and the upload, and that the upload implements the ledger |
| `AuthSessionsProofs`, `ImageAdmissionProofs`, `WorkerLeaseProofs` | theorems about these components |
| `Reconciliation` | `LinkTraffic` and `DeliveredCountry` side by side: the observed buckets and their judges |
| `LinkTrafficProofs` | theorems about the decision, about links, claims and books, and about the judgement of windows |
| `Operations`, `ControlPlane`, `Production`, `Desk`, `ShieldPanel`, `Views` | name the other components, with variables that do not clash: web process and maintenance, settings, activation, page, shield, history and report |
| `OperationsProofs` | theorems about the components that these six name |
| `MC...` | finite instances. `MCImageUpload` also maps the upload's row to `ImageJobLedger` |

`ImageJobLedger` and `ImageUpload` both extend `ImageJobPolicy`, so what a command requires and
writes is stated once. The ledger says what the *policy* guarantees against any caller; the upload
adds what the *callers* do. They meet twice: `ImageUpload`'s row implements `ImageJobLedger`
(`LedgerKept`), and `ImageJobLedger` implements `ImagePublication` (`PublicationKept`). Both are
checked and proved.
`LinkTraffic` uses the decision of `RedirectDecision` inside its visits, so what is booked there is
what the decision table says.

*Runs that hold several parts.* `MCImageJobLedger`, `MCControlPlane`, `MCWorkerLease`,
`MCImageAdmission` and `MCAuthSessions` explore specifications that share no variable next to one
another: a behaviour moves one part and leaves the others in an initial state. They extend the modules that name
the parts (`Operations` and the like), as `OperationsProofs` does, so the runs and the theorems speak of the
same definitions. This is sound, as no
part can see another, and it makes the state space the sum of the parts instead of their product.
`MCSpec` of these modules is `Init` of all parts with the disjunction of their next-state
relations, each with the others unchanged. Invariants and action properties
are judged on every state and step of every part. Fairness and liveness speak of one part each; where
that part does not move, its fairness either asks nothing or leaves the behaviour out of the liveness
check, in which there is nothing to see.

### How the models correspond to the code

*Rows.* A row keeps its state, publication and compensation states, version, counters, next-attempt
time, lease and update time. The nullable timestamps that are only compared with null are the set
`stamps`. Identities, error codes and sizes are left out. Proof flags of commands are always passed
as true by the code and are left out.

*Ledger actions.* One action is one committed transaction. `Transition` is `transitionImageJob`:
lock, check version, times and state, write. In `ImageJobLedger` the version named is the stored
one, since a command with another is refused and changes nothing; `ImageUpload` keeps the version each
actor saw and compares it (`Command`). A command there has three outcomes: accepted, refused, or a
database error with or without the effect.

*Upload actors.* `local` has, per actor, a program counter, the row it last saw, the clock reading
it carries (the drainer's `nowMs`, the publisher's `readyAt`) and who called the compensation. Each
action is the code between two awaits that others can interfere at. The row an actor saw is kept
through every await, so stale snapshots are real. Tokens are named by their claim
(`<<"processing", n>>`), as the random ones of the code are unique to it.

| Actions | Code |
|---|---|
| `Reserve`, `ReadBack` | `#completeDurable`, `observeReservedImageJob` |
| `Enqueue` ... `Finish`, `ReadyResult` | `#driveImageJob`, its try block, and `publishImageJobReady` |
| `PublishFailed`, `Caught`, `Discard`, `GiveUpAttempt` | its two catch blocks |
| `RequireCompensation` ... `CompleteCompensation` | `#compensatePublishedJob` and the store's compensation |
| `ListDue`, `Observe`, `RecoverReady` ... `MarkManualReview` | `reconcileOnStartup(1, 1)` |
| `Submit`, `Await` | `BullMqImageExecutor.execute` with `decideBullMqJobReplay` |
| `Take`, `Reject`, `Open`, `Finished`, `WorkerCrash` | the worker's processor and `processImage`, BullMQ's stalled retry |
| `Attach` | `createLink`'s attachment |

*Files.* `input`, `temp` (the private output) and `final` are absent, partial or complete. The
worker writes to the file it opened: renaming that file carries the writer to the public name,
unlinking it leaves the writer with no name. This is POSIX behaviour and it decides several
properties.

*Simplifications that a reader should know.* One upload at a time. All processes read one clock
(`ImageJobLedger` takes any). `Observe` reads the three pieces of evidence in one step and `Submit`
is one exchange with Redis; the late effect of a `queue.add` that already timed out is not modelled,
nor is the queue's pruning of finished jobs. The capacity pre-check has no state; a refused
capacity inside `publishImageJobReady` is a fault of `Publish`. A crash between the move of the
staged input and the reservation leaves an orphan outside the model. A stage draws a fresh request
key, so a reused row appears only through a lost commit acknowledgement (`ReadBack`). The lease
owner is `web-<pid>` in the code, where a request and the drainer of one process share it; no
decision reads it, and the model names each actor. The legacy path without a ledger is left out.
Attempts are 3 and compensations 5 in the service; the runs use 2 compensations at most, and 2 attempts
but for `upload_punctual` and `partial_public`, which use 3.

Branches of the code that no modelled behaviour reaches, which the models keep all the same in the
policy: `recover_ready` from recovery never becomes accepted, because `hasReadyImageRegistration`
answers true for ready rows only, and the planner's `wait_...`, `clean_private` and settled-row answers
are never asked for by the recovery query. The `IMAGE_JOB_REFERENCED`/`ATTACHED` branch of
`reconcileOnStartup` (613-631) would need an attached image on a row that is not ready
(`ReadyIntact`, a part of `UploadInv`, says there is none), so it has no action.

### The other models and their code

**`ImageAdmission`.** `reserved` is the sorted set of admissions with the age of each member,
`queue` what BullMQ keeps of each job, `exec` the `execute()` calls of the web processes.
Inspecting and reserving a job is one action per Redis script, sweep included; `Grace` is the age after which
a reservation without a job is swept: 30 s in the code, more than twice its default submission deadline.
A crash of an executor, a stall of the worker and lost replies of `zrem` are counted faults. One
driver per job at a time is assumed, as the ledger lease grants.

**`WorkerLease`.** `key` is the lease with the time left to it, `pipe` the commands a connection has
sent and Redis has not taken, in their order, however late. `worker` is a heartbeat with its
refresh under way, the time since the last confirmed refresh and the consumer. The constructor
admits times (6 s, 2 s, 1 s) with which the refresh window decides too late; the worker uses
the default 15 s, 5 s and 1 s, for which `LeaseMargin` holds, and the model assumes it.

**`WebProcess`.** One action per step of `server.ts` between awaits, of the probe and of the drainer's
timer. Dependencies go up and down, answer or hang. A raw check of a probe that timed out may go on
when the resources close, as in the code. What a pass does to rows is in `ImageUpload`.

**`AuthSessions`.** `req` holds one request per member of `Request`, from `getSession` to its answer,
one store access per action, each with success, failure and lost acknowledgement. The row lock on
`auth_epoch` is `locks`. Ids and validators are named after the request that draws them. The
login throttle and the expiry of tokens are left out; sessions may expire at any time.

**`LinkTraffic` and `RedirectDecision`.** `visit` and `writer` hold what one request carries between
store accesses. `RedirectDecision` is the function from a visit (agent class, method, fbclid, proxy
headers, cookie, clock, dice, answers of the stores) and the settings to the decision, in the order
of the code, with every store answer possibly `Failed`. One command takes at most `Delay`, less
than a claim lives; visits are accounted before time moves on from `serve`.

**`DeliveredCountry`.** `EvaluateRange` and `Reconcile` are the two judges of a bucket, over sets of
rows with missing, doubled, null and overflowing members. What a snapshot's digest identifies is the
snapshot.

**`AdminReport`.** A report reads activation, rows, states and history one after the other, and the
publisher, an external, seals, misses at most one slot in a row, or marks a gap in between. It
writes a positive total for every sealed bucket; a bucket without clicks is never complete.

**`TrafficShield`.** Slots of the ring are dates modulo `Days`; a click carries the date it came with
and is accounted within a day. The panel is loaded once until the page is reloaded.

**`DashboardHistory`.** One request with its own summary, the community's, and the page of links. A
summary is abstracted to the date it was summed for, since one statement sums its figures. Other
requests are modelled where they write the cache, with what they read today or the day before.

**`AdminForm` and `SettingsCache`.** A form is the sequence of fields as the browser posts it, and a
form cut short is a prefix. `Saved` is the whole path of route, `reconstructGeoQualityForm` and
`normalize...`; `Treatment` what a visit of a country gets from it. `SettingsCache` has a section for
the settings that one transaction saves, and reads in the order of the provider's queries.

**`DashboardPage`.** The fields of the form that later code reads, and the requests under way. A
revision counter is only ever compared with the value of the time of submission, so a request
carries whether that value is still current. `told` keeps what the author was last told and what
was true on the server.

**`ProductionActivation`.** Digests are what they identify: artifact, site, topology, documents.
The operator may replace files, capture or remove receipts, bind and render at any time; hashing a
document before and after reading and atomic publishing are one step. The twelve gates are
represented by three, one of each treatment.

**`MaintenanceReport`.** `run` is a run of the tool, `file` its receipt, `lock` the lock directory.
A crash may come between any two steps; a write may fail and leave a part of the file.

## 3. Runs

| Run | Parts | Configuration | Question |
|---|---|---|---|
| `ledger` | `ImageJobLedger`, `WebProcess`, `TrafficShield`, `MaintenanceReport` | 2 jobs, 1 key, 2 attempts, 2 compensations, clocks 0..3, 2 tokens; 2 dependencies; a ring of 3 days and 2 clicks; 3 runs, 2 faults | what the policy guarantees against any caller; the life of the web process; exact days; receipts |
| `upload` | `ImageUpload`, `SettingsCache`, `AdminForm` | 1 request, 1 drainer, 2 faults, holders may outlive leases; 2 admins, 1 visit, 2 saves, 1 fault, symmetric admins; forms of 2 rows, 2 countries, 2 domains | safety of an upload with faults and delay; what admins save is what visits obey |
| `upload_late` | `ImageUpload` | the same without faults, 1 compensation, fair | implementation of the ledger; termination under delay |
| `upload_punctual` | `ImageUpload` | 2 drainers, 3 attempts, 1 fault, punctual holders, fair | what holds when a lease outlives its work |
| `worker_lease` | `WorkerLease`, `DashboardPage` | 2 workers, times 9, 3, 1; 2 pictures, 2 domains, batches of 2; workers and pictures are symmetric | one consumer; late answers yield to the author |
| `admission` | `ImageAdmission`, `ProductionActivation` | 2 jobs, 2 executors, capacity 1, 2 faults; 2 artifacts, 2 sites, 2 topologies, 3 receipts, 4 changes | reservations; starts on evidence |
| `auth` | `AuthSessions`, `AdminReport`, `DashboardHistory` | 2 requests, 2 browsers, 2 faults; a report over 6 ticks; one link, 1 event | credentials across resets; truthful reports and pages |
| `link_traffic` | `LinkTraffic`, `RedirectDecision`, `DeliveredCountry` | 2 visitors, 2 writers, 1 code, 1 fault; all visits that differ from a diverted one in two parts | deletion, claims, booking, decision, completeness |
| `partial_public`, `starvation`, `duplicate_drainers`, `created_not_answered` | `ImageUpload`, `LinkTraffic` | see section 5 | disagreements between code and documentation |

### Properties and the defects that break them

Next to a definition some modules have a defective variant, which nothing uses. Replaced by its
variant, a definition makes the run in question report the property violated.

| Property | Run | Says | Defect that breaks it |
|---|---|---|---|
| `LedgerInv` | `ledger` | types; every stored row passes `assertImageJobInvariant` | `RecoverRetryStillPublishing`: the retry keeps the publication state |
| `WithdrawalIsFinal` | `ledger` | once compensation is asked for, never published, retried or failed | `MayRecoverRetryAny`: a lapsed compensation may be retried |
| `PlansAreAccepted` | `ledger` | whatever the evidence, the planned command is accepted | `PlanAttemptAnyState`: `recover_ready` planned for a row not publishing |
| `SettledRowsStay` | `ledger` | ready and compensated rows are never rewritten | `MayRequireCompensationAny`: no state excluded |
| `LeaseHandedOverFree` | `ledger` | no lease is replaced by another in place | `MayClaimLapsed`: a lapsed attempt may be claimed directly |
| `PublicationKept` | `ledger` | the ledger implements `ImagePublication` | `MayMarkReadyAnyLease`: a compensator may mark ready |
| `WebInv` | `ledger` | a positive answer rests on dependencies that were in order within the timeout and cache period; after the resources are closed nothing runs | `TimedOutNever`: a probe has no deadline |
| `ShutdownSettles` | `ledger` | a signal ends in closed resources though dependencies hang | `CloseWaitsForChecks`: close() waits for the raw checks |
| `ShieldIsExact` | `ledger` | a day called exact has all that was filtered on it; today's count is of its date | `CountKept`: a reused counter keeps its old count |
| `ReceiptsHold` | `ledger` | one run writes at a time; a receipt said to be written is whole, and lists the oldest of what may go | `LockedReleasing`: a run that finds the lock removes it as it ends |
| `UploadInv` | `upload` | types; ready row, registration and public file come and stay together | `IntactUnregistered`: recovery asks for the file only |
| `AnswersHold` | `upload` | a client told "uploaded" has a ready row, for good | `CompletedByFile`: the catch block looks at the file only |
| `CompensatedClean` | `upload` | at rest, a compensated image has no public file | `RemoveFilesUnsettled`: completion does not wait for the removals |
| `RecoverySparesManual` | `upload` | recovery leaves a row that was put aside for a human alone: only a driver on its error path takes it out | `FreshAnyVersion`: a command is accepted whatever version it names |
| `SettingsInv` | `upload` | a replaced setting decides no visit later than a command and a cache lifetime, an announced save none at all | `DropAllButPercent`: the announcement leaves one key out |
| `FormTruthful` | `upload` | a form cut short saves nothing, an accepted one treats each country as typed, the shown page saved again changes nothing, and each is saved for its own domain | `CompleteUnchecked`: a form is taken for complete without its end |
| `LedgerKept` | `upload_late` | the service's steps are ledger steps | `MayPublishUnchecked`: publication without version and lease |
| `SettlesOrExhausts` | `upload_late` | every upload ends, or has its compensations used up | `ListedWithoutLeases`: the query forgets lapsed leases |
| `PublicNamesClean` | `upload_punctual` | the public file is never unfinished; that of a ready row is whole and nobody writes to it; at rest, a failed image has none | `GoneUnregistered`: the planner ignores the final file |
| `RetryOnlyNonPublic` | `upload_punctual` | an attempt is retried or failed only while nothing is public | `RecordFailureAsPrivate`: a failure while publishing treated as private |
| `LiveLeaseRespected` | `upload_punctual` | only the holder ends an attempt with a live lease | `DriveFromInsideTry`: the "already in progress" refusal inside the try block |
| `Settles` | `upload_punctual` | every upload ends | `ListedWithoutRequests`: the query forgets requested rows |
| `LeaseInv` | `worker_lease` | who consumes holds the key; nothing follows a compare-and-delete | `RefreshWindowAtExpiry`: the window ends when the key may already have lapsed |
| `PageInv` | `worker_lease` | what is ready and under way fits one batch; what the author is told of a link is true | `SlotsOfReady`: uploads under way are not counted |
| `AnswersYield` | `worker_lease` | a late answer overrides neither the image nor the domain chosen since | `RetainsAlways`: the answer is kept whatever was chosen |
| `AdmissionInv` | `admission` | a queued job that never stalled has its reservation; so has one about to be added | `ReleaseAnyway`: a release after a timeout without looking at the job |
| `StartedOnEvidence` | `admission` | what a process runs was shown fit: every check, this artifact, this site or the pilot it was rehearsed on | `FilesUnchecked`: the manifest's files are not compared |
| `ActivationHolds` | `admission` | a process that ran comes back until its activation expires; what the verifier calls green, the start accepts | `EvidenceAsOfNow`: the age of receipts is judged at each start |
| `AuthInv` | `auth` | no request after a reset is let in on a credential from before; a registration ends in its own account | `EpochUnchecked`: sessions are accepted whatever their epoch |
| `TokensFollowReset` | `auth` | no token of an older epoch exists | `SharedAlways`: a login does not wait for the reset's lock |
| `RememberedSessionAlive` | `auth` | a session with a living token is of the present epoch | `SameEpochAssumed`: the epoch is not compared before the token is written |
| `Answered` | `auth` | every request is answered | `UnlockForgotten`: a transaction ends without its lock being released |
| `ReportTruthful` | `auth` | a figure shown covers sealed buckets, and the present ones; the last six hours reach no unsealed bucket | `AgreesAssumed`: state and history are not compared |
| `HistoryHolds` | `auth` | a summary is of the page's date and recent; a page is not empty when there are links | `InEnvelopeUndated`: the cached date is not compared |
| `TrafficInv` | `link_traffic` | types; a claim's winner took the key, a duplicate did not; a request creates one link at most | `StoredAny`: the readback takes whoever owns the key for a winner |
| `UngappedBucketIsExact` | `link_traffic` | a bucket without a gap observed exactly what was booked as delivered | `AfterRecordUnchecked`: a booking that failed, or an unproven claim, leaves no gap mark |
| `DeletedLinkForgotten` | `link_traffic` | a deleted link is not served after a command and a cache lifetime | `LapseNever`: cached entries do not lapse |
| `BookedAsServed` | `link_traffic` | what is booked is what was served, under a country a trusted proxy named | `UnfilteredAssumed`: a filtered visit is eligible for diversion |
| `DecidedOncePerBrowser` | `link_traffic` | within the cookie's lifetime a browser is decided once | `CookieValidHere`: no skew between the clocks of two hosts is allowed for |
| `ReconciledWindowIsComplete` | `link_traffic` | what needs no publishing is complete for a report, with the observed total; published windows are complete with their sum | `NormalSnapshotUnsummed`: the countries of a snapshot are not summed |

Checks of pure functions (`BookedAsServed`, `DecidedOncePerBrowser`, `ReconciledWindowIsComplete`,
`FormTruthful`) speak of no variable: a run evaluates them in the initial states.

### Bounds, and why they are enough

Two attempts tell "another attempt" from "the last one", and two compensations likewise. A third
attempt matters where queue jobs do: an attempt may take over the unfinished queue job of an earlier one
and a late driver of another replace it, which needs three. So `upload_punctual` and `partial_public` have three;
the properties of `upload` are proved for any number. Two
jobs make a second row compete for the one request key; rows do not otherwise interact in the policy.
Clock readings 0..3 let a lease be acquired, live, lapse, and be followed by a later command;
the proofs of section 4 remove the bound. A lease lasts one tick: live at its start, lapsed after
it, and as ticks come at any moment a lease may lapse before, between or after any two steps. Time
only moves while a deadline lies ahead, so it needs no bound. Two faults are enough for an error
while handling an error, the deepest nesting in the code (a failed publication and a failed
compensation); one request, one drainer and the worker make three actors, which all catch blocks
are written for. `MaxVersion` 30 is more than any behaviour of the upload reaches; in `ledger` it
is 10 and bounds the search, standing for the safe-integer limit the code enforces. `MaxTime` 5 is
only the range of clock readings of the mapped ledger, above any reading of `upload_late`.

The other parts are bounded by the number of their actors, by counted faults, and by clocks:

* Two actors of each kind where they compete (workers, executors, jobs, requests, browsers, writers,
  visitors, admins, domains, artifacts); three runs of the maintenance report, so that one can find what a
  second left of the lock of a first.
* Two faults in `ImageAdmission`, `AuthSessions` and `MaintenanceReport`, for an error while an error is
  handled; one in `LinkTraffic` and `SettingsCache`, whose errors are handled nowhere further.
* Times keep the order of the code's. `WorkerLease` has the ratio of its defaults but for slack (9, 3, 1
  for 15, 5, 1). `ImageAdmission` has a grace period of more than two deadlines. `WebProcess` has the
  database's deadline within the probe's and the gate's beyond both. `LinkTraffic` has claims that outlive
  cache entries. Their clocks count down or saturate, so they run on for ever.
* `AdminReport`, `TrafficShield`, `DashboardHistory` and `ProductionActivation` have clocks that stop
  (`MaxTime`, `Horizon`): long enough for a window of a day and one of a week (two days here) to begin
  and end with the seal lag and a missed slot (6),
  for the ring of three days to be reused (7), for a cached entry to live over midnight (2), and for evidence to grow old between issue and restart, an activation to expire (2).
* `MaxRows` 2 stands for the 250 rows of a form; the parser cuts a form at any field.
* `RedirectDecision` is evaluated on a diverted visit and on all that differ from it in one or two
  parts, as each veto, filter and failure is a part of its own, under settings with each switch turned off in turn.

Deadlock is checked in `link_traffic` only. In the others there is nothing left to do for an
upload that has ended, a process that exited, or a clock that stopped.


### Fairness

`ImageUpload`: `FairSpec` assumes that what Node schedules happens: each actor's next driver or compensation step
(awaits settle: every wait has a deadline in `withDeadline` or the pool), the drainer's next pass
(it reschedules itself after every pass, failed ones included, at most 5 s later), the worker's next
step, and time. All are weak. A client's decision to upload or attach and all faults are not fair.
The drainer and the request are separately fair: no actor is assumed faster than another.

`AuthSessions`: a request in the server runs on, one weak condition for each: store accesses settle
by deadline, and a lock that is free is granted. Sending is not fair, nor are faults.

`WebProcess`: timers, promises that can settle, and the end of a pass (every wait in it has a timeout);
dependencies may hang for ever, requests and signals need not come.

### Punctual

`src/server.ts:54` makes the ledger lease three times the job timeout (at least 30 s), and a
driver waits for the worker at most two job timeouts (`bullmq-executor.ts:189-228`), so a holder
that is not held up by something else finishes within its lease. `Punctual` states exactly
that: time does not pass a live lease while its holder is working. Nothing in the code enforces
it: a paused process, a slow disk or a slow database breaks it. That is why the safety that matters
to clients (`UploadInv`, `AnswersHold`, `CompensatedClean`) is checked and proved without it, and
`Punctual` is only used to state what the ledger alone does not give. Without it these fail:
all three parts of `PublicNamesClean`, `NoPartialPublic` and `ReadyWhole` by the first finding below,
`FailedClean` and `RetryOnlyNonPublic` because recovery retries on evidence read before a late rename (compare
`test/image-job-ledger-policy.test.ts:151`); and
`LiveLeaseRespected`, as a late driver's catch block ends its successor's attempt with the token it read
from the row (`service.ts:368` and `401`).

## 4. Proofs

Each theorem holds for all constants that satisfy the assumptions: any number of actors, attempts, faults
and clock readings, so the bounds of section 3 do not limit these properties.

| Module | Theorem | Property |
|---|---|---|
| `ImageJobLedgerProofs` | `TypeCorrect` | `TypeOK` |
| | `RowsStayValid` | `LedgerInv` |
| | `WithdrawalNeverReverts` | `WithdrawalIsFinal` |
| | `RecoveryIsNotRefused` | `PlansAreAccepted` |
| | `SettledRowsAreFinal` | `SettledRowsStay` |
| | `LeasesAreNotTakenOver` | `LeaseHandedOverFree` |
| | `LedgerImplementsPublication` | `PublicationKept` |
| `ImageUploadProofs` | `UploadSafe` | `UploadInv` |
| | `AnswersKept` | `AnswersHold` |
| | `CompensatedIsErased` | `CompensatedClean`, and that no file is left under any name even before all is at rest |
| | `UploadImplementsLedger` | the refinement of `LedgerKept`, to the whole specification of the ledger |
| | `ManualReviewIsSpared` | `RecoverySparesManual` |
| | `RowsSeenInOrder` | what an actor saw is never newer than the row, and is the row if of its version; recovery asks for no compensation of a row it saw in manual review |
| | `WorkerHasItsJob` | the worker works exactly while the queue's job is active; a completed job has no unfinished output |
| | `PublicNamesStayClean` (`Punctual`) | `PublicNamesClean` |
| | `RetriesAreOfPrivateImages` (`Punctual`) | `RetryOnlyNonPublic` |
| | `LiveLeasesAreRespected` (`Punctual`) | `LiveLeaseRespected` |
| `AuthSessionsProofs` | `AuthSafe` | `AuthInv` |
| | `ResetMissesNoToken` | `TokensFollowReset` |
| | `RememberedSessionsLive` | `RememberedSessionAlive` |
| | `ResetsAlone` | a reset's transaction excludes every login and rotation |
| `ImageAdmissionProofs` | `AdmissionSafe` | `AdmissionInv` |
| | `OneCallDrivesAJob` | two calls never drive one job |
| `WorkerLeaseProofs` | `LeaseSafe` | `LeaseInv` |
| | `OneConsumerAtATime` | two workers never consume at once |
| `LinkTrafficProofs` | `TrafficSafe` | `TrafficInv` |
| | `BucketExact` | `UngappedBucketIsExact` |
| | `DeletedIsForgotten` | `DeletedLinkForgotten` |
| | `ServedIsBooked` | `BookedAsServed` |
| | `CookieIsKept` | `DecidedOncePerBrowser` |
| | `WindowsAreReconciled` | `ReconciledWindowIsComplete` |
| `OperationsProofs` | `WebHolds` | `WebInv` |
| | `SavesAreObeyed` | `SettingsInv` |
| | `ReportsAreWhole` | `ReceiptsHold` |
| | `StartsRestOnEvidence` | `StartedOnEvidence` |
| | `StartsComeBack` | `ActivationHolds` |
| | `DashboardsAreOfTheirDate` | `HistoryHolds` |
| | `PageHolds` | `PageInv` |
| | `LateAnswersYield` | `AnswersYield` |
| | `DaysAreExact` | `ShieldIsExact` |
| | `ReportsAreTruthful` | `ReportTruthful` |

Of the theorems about the upload only the three marked so assume `Punctual`.

### Assumptions

| Assumption | Says | Because |
|---|---|---|
| `PolicyConstants`, `UploadConstants` | limits and the lease are positive; claims have their tokens; the request is not the drainer | configuration parsing; random tokens |
| `LedgerConstants` | clock readings are natural numbers | milliseconds |
| `AdmissionTimes` | `Grace > 2 * Submission` | 30 s floor of the grace period, and the default deadline |
| `LeaseTimes`, `LeaseMargin` | three intervals cover the lease; two refreshes that fail are over before it lapses | the default 15 s, 5 s, 1 s, which the worker uses |
| `AuthConstants` | the first administrator and its account exist | installation |
| `TrafficConstants` | `Delay < ClaimTtl` | a claim lives 15 s (`redirect/service.ts:113`), a command at most 5 s (`runtime.ts:48`) |
| `DecisionConstants` | times are numbers; a visit is a record with a method, a cookie, a clock reading and a roll | the types of the code |
| `Punctual` (three theorems) | time does not pass a live lease while its holder works | the lease is three job timeouts, a driver waits for two (section 3) |
| `WebConstants`, `SettingsConstants`, `PageConstants` | the database is a dependency; times and limits are natural numbers | `server.ts:54-58`, configuration parsing |
| `MaintenanceConstants` | the batch limit is a natural number; a directory holds finitely many files, with integer ages; null is no run and no answer | types of the code |
| `ActivationConstants` | there is an artifact, a site and a topology; lifetimes are natural numbers | what a first installation has |
| `ShieldConstants` | the ring has two slots at least; null is no number and no link | seven (`shield-service.ts:1`, `mysql-store.ts:1396`) |
| `ReportConstants` | the tolerance covers two buckets at least; lengths are natural numbers | 1,200 s of ten-minute buckets (`report-window.ts:25`) |
| `CountryConstants` | finitely many countries; a snapshot is of a numbered bucket, with a value for each of some countries; null is none of these | types of the code (`completeness.ts`) |
| `HistoryConstants` | the author has finitely many links; pages, days and page numbers are positive | `history-policy.ts` |

Beside these, null is none of the values it stands next to (`NoneIsNull` and the clauses on `None`).

### The arguments

*Ledger.* `assertImageJobInvariant` (`ValidJob`) is not inductive on its own. `mark_ready` on a
publishing row writes a valid row only if the result dimensions were recorded, which the assertion
does not ask of a publishing row; `record_failure` writes one with consistent attempt stamps only
if the attempt was counted; a claim of a queued row stays within the limit only because queued rows
have attempts left; and withdrawal is final only because a row with a compensation stamp is in a
withdrawing state. These are `HistoryKept`; a row with its type, `ValidJob` and `HistoryKept` is
`RowOK`. `ImageJobPolicyProofs` has three lemmas for each command, on the row it writes: its type,
that it is `RowOK`, and how it moves the row's phase. `CommandWrites` reduces a step of the
ledger to "some row is replaced by one of these", so that each theorem handles a write once.

*Upload.* What makes delay harmless is that rows move one way. `Before` says what a row that an actor read
long ago still tells of the row now: one seen ready is ready, one seen withdrawing is withdrawing. So
whoever answers "uploaded" has a ready row (`Completing`), whoever removes public files has a withdrawing one
(`Undoing`), and no step can bring the two together. `RemovedForGood` says that after the
removals nothing can come back: the input is placed once, the private output is opened by a worker that
has the input, the public file is the private one renamed. With types these make `UploadIInv`,
inductive action by action; for the drivers' steps the lemmas on commands of the policy are used
again. `UploadImplementsLedger` then maps each step to a ledger command on the stored row, or to none, and with
`LedgerImplementsPublication` an upload does what `ImagePublication` promises: the chain from the service's
steps to the abstract promise is closed.

*Sessions.* A session about to be written was decided by an earlier read, and a reset may have come
between. `PendingWrites` says what such a write is worth: its epoch is the present one, or its token is
gone. `LocksExact` ties the lock to program counters, so that a token is written under the epoch that was
read; `SessionsOffered`, `CookiesGiven` and `SelectorsGiven` say that a fresh selector is known to nobody else until its
request has ended; `OwnAccount` that a registration goes on only with the account it made; `EpochsKnown` and
`Knows` what a request holds at each step.

*Admission.* A call knows that what it saw absent or ended is still not at work, as it drives the job
alone (`DrivenAlone`), and that a reservation it made is no older than two commands (`CallOK`): with `Grace` beyond
that, no sweep takes it before the job is in the queue.

*Upload, punctual holders.* First without `Punctual`: what an actor saw is a past of the row, ordered by version,
so a command that is accepted was decided on the present row (`InOrder`). `Holds(a)` says that `a` works under
the live lease of its attempt. `HoldersInv` ties that to program counters: a driver that submits, waits, publishes or
renames holds the row in the right state, or, on its error path, the row is settled or withdrawn; what recovery goes on
with had a lapsed lease (`Overdue`); and the public file is there only in the states that allow it (`FinalOK`).
Two actors never hold the row at once, and only its holder may write it or its files while the lease is live
(`Entitled`), so a step of one actor keeps what is said of the others (`StepBy`, `OtherHolders`). Time passing is
where `Punctual` enters, and there alone.

*Web process.* A dependency that answered "ok" was in order when it did, no longer ago than what is used up of the
probe's deadline; what is used up of the cache's lifetime adds to that (`Recently`). A probe that timed out gives no
positive answer. `Quiet` says that a top level that has not listened, or failed, has started nothing, one
that was told to stop starts nothing more, and only these two close the resources.

*Settings.* `ReplacedSince` says that when a visit is about to fill the cache with a replaced value, the replacement is
no older than the visit's read, and that the time since a replacement, with what is left of an outdated entry,
never exceeds a command and a lifetime. `NoneUnderway` says that no visit is on its way to the cache with an older
value once an announced save has settled.

*Maintenance.* `Oldest` takes the candidates with fewer than the limit ahead of them. `Before` orders candidates of
distinct paths totally, so the number ahead is injective, and what is left out has all the chosen ahead. Whoever is
inside holds the lock, so only it writes; what it persisted is its receipt (`RunHolds`).

*Activation.* A process that runs has an activation for its stage, site, artifact and topology, and the readiness
document held at the moment of issue (`ProcessFit`). As the age of evidence is judged at that moment and not at the
start, a restart finds the same answer until the activation expires.

*Dashboard history.* The age of a summary in the cache, of one being written, and of one in hand are bounded (`Kept`,
`Fresh`), and it is of the page's date or dropped; an undisturbed page begins within the links there are (`Reaches`), and the
ranks below their number are all taken (`EveryRankIsTaken`), so the list is not empty.

*Dashboard page.* An upload has its slot from its start, so what is ready and under way fits a batch; a request that is
to change the image, the domain or the default carries what the form still shows (`Carried`). `TellsTheTruth` goes
through the answers of the routes, and `AnswersYield` is then a case for each answer.

*Shield panel.* For every date that the ring still covers, the slot has that date and all that was filtered on it, or
another date and nothing was (`RingExact`): a click is accounted at most a day late (`AccountedInTime`), so it
never overwrites the slot of a date that is still covered, and no slot is dated ahead (`NotAhead`). The sums over
links agree where their summands do (`DaysAddUp`), which needs no induction.

*Traffic report.* The publisher has sealed what was due up to `Seen`, at most two buckets ago (`SealedInTime`); so the
tolerance of the six-hour window hides a missed slot. What was complete when the states were read is
complete when the report is built (`StatesKept`). `RowsShown`, `StatesShown` and `HistoryShown` are a case for
each statement that may come last: with the rows the sum is of this moment; with the history its buckets equal
the states', so the totals agree (`FiguresAddUp`) and `Agrees` compares them with the rows that were read before.

*Worker lease.* The invariant needs the arithmetic of the refresh window (`WindowOK`): the time since the last
confirmed refresh against the timer shows that the next refresh is either an ordinary one or the one
that is taken for the last, and `LeaseOK` that what is left of the key covers that time and one command
more. `PipeOK` says that a compare-and-delete is the last command of its process.

*Traffic.* An entry's remaining life and the time its link has been gone never exceed together what a
command and a cache lifetime allow (`EntryOK`), and what a visit carries is bounded likewise (`VisitOK`), so
`DeletedLinkForgotten` follows for any times. A key that a visit took outlasts its readback, as `Delay <
ClaimTtl`; `OwnerOK` keeps others from it. `BooksExact` counts the visits between booking and observation, with
the cardinality theorems of the library. The decision needs no invariant: a visit that is diverted passed every
filter, so its booking is fixed; and an eligible browser with its cookie is eligible again.

*Completeness.* The judges of a bucket sum over sets, in an order that the fold chooses; what was published is summed over
other rows than what was observed. So first: any element may be taken first (`AnySummand`), and sets that correspond
one to one with equal summands have equal sums (`SameSum`). Both are by induction on the number of elements, written
with a set of counterexamples and its least number (`NumbersByInduction`), which takes no operator as a parameter.
Then history rows of a bucket correspond to the countries of its snapshot, and the two judges agree bucket by bucket.

### Only model-checked

* Liveness and what rests on fairness: `SettlesOrExhausts`, `Settles`, `ShutdownSettles`, `Answered`. The
  prover has no rule for it.
* `LedgerKept` names the clock readings and the key of the run, which bound them; its content is
  proved as `UploadImplementsLedger`, with all natural numbers for `Time`.
* `FormTruthful`: forms are sequences of fields that a recursive function flattens, which is induction over data.

## 5. Disagreements with the documentation

Each has a run that finds it; the shortest counterexample is described here.

1. `partial_public`, `docs/ARCHITECTURE.md:35` ("replacement processing cannot make a partial
   result public"). Attempt 1 of the drainer times out while its queue job is still at work, and is retried.
   The request, whose reservation lost its acknowledgement, reads the row back, claims attempt 2 and is
   delayed before it reaches the queue. Its lease lapses; the drainer retries the row and attempt 3 takes
   the unfinished queue job of attempt 1 for its own (`bullmq-executor.ts:324-327`). The job finishes. Now the late
   request finds a finished job of an older attempt and replaces it (`bullmq-executor.ts:152-155`), and the
   worker opens the same private path, while the drainer passes its compare-and-swaps, renames the
   half-written file and marks the row ready. Clients are given an image that is still being written, and
   that stays half-written if the worker ends there. With two attempts a half-written file can be public
   too (a driver delayed between `begin_publication` and the rename, `service.ts:309`), but no ready row names it.
2. `starvation`, `docs/ARCHITECTURE.md:36` ("a manual-review row is removed from the due queue so
   it cannot starve later jobs"). The last compensation attempt lapses and the row goes to manual
   review; a late driver's catch block requires compensation again (`service.ts:407`). The row is due
   for ever, can never be claimed (attempts exhausted), and is picked first on every pass.
3. `duplicate_drainers`, `src/infrastructure/startup-recovery.ts:61-65` ("compare-and-swap remains
   the correctness boundary; singleton ownership only avoids needless duplicate scanning"). Two
   drainers list the same lapsed row; one retries it and its worker finishes; the other, with the
   old row in hand, unlinks the finished private output (`service.ts:557`) before its own
   compare-and-swap is refused.
4. `created_not_answered`, `test/mysql-link-commit-ambiguity.test.ts:9` ("returns the exact committed
   row after a lost commit acknowledgement without retrying the insert"). `createLink` reads the row
   back and accepts it only if its creation time equals the one it sent to the millisecond
   (`mysql-store.ts:1286`), while the row keeps whole seconds (`mysql-store.ts:1439-1441`). Unless the
   clock read a whole second, as it does in the test, the owner gets an error for a link that exists.

## 6. What the models show of the code besides

Behaviour met while modelling that no text of the repository speaks against; the models have it, and
the properties are stated so that it is visible rather than hidden.

*Uploads and the queue.* A retried job may be refused as "full" because of its own young reservation
(`ZADD NX` counts it). If both releases of a finished job fail, its reservation stays until the job is
retried or pruned. A grace period of exactly two submission deadlines would be too short; the 30 s floor
keeps it longer with the default deadlines. A SIGTERM while the worker acquires its lease may still announce
"ready" before it closes.

*Sessions.* A parallel request that finds the session deleted but its token not yet may restore a
session that outlives the logout (`auth/service.ts:314-320`). Two restores from one browser at once
clear its cookies, since the loser takes the rotated validator for theft. A login whose remember step fails
leaves an older user's remember cookie in place.

*Redirects and links.* HEAD visits neither get nor honour the decision cookie; the cookie is issued
though the roll loses; two first visits at once can both be diverted. A cached link ignores that its
domain was deactivated for up to 60 s. A stale preview may be shown under a reused code for up to
twice the cache lifetime. A process that ends between accounting and observation leaves the bucket
short with no gap mark (`redirect/service.ts:152-170`); only the comparison of sums can notice it.
A filtered click dated before its slot's date fails as a whole record (`mysql-store.ts:1124`).

*Administration.* A domain without country rules shows one blank row, so saving that page unedited is
refused. The legacy `quality_active`/`quality_scope` branch cannot be reached over HTTP, as
`reconstructGeoQualityForm` always sets `quality_mode`. A registration form cut short closes
registration. Settings and country rules are read in two statements for a page, and there is no version: the
last save wins. A commit whose acknowledgement is lost skips the announcement, and a visit may
mix the settings of two saves, both for at most a cache lifetime.

*Views.* When midnight passes between the clock reading and the statement of a report, the slot of the oldest
day may have been given to the new one, and that day is shown as an exact 0 although "Incomplete
dates are never shown as zero" (`dashboard-shell.js:1610`); `ExactDays` leaves out exactly that day. An
opened panel is not refreshed before a reload. A click under way at the end of a window may be
booked after a report showed the window as complete.
`history-service.ts:80` starts the summaries before it waits for anything, so one that is rejected before
`Promise.all` is reached, or after the count threw, has no handler: Node ends the process instead of
answering 500. The model has this step, and PM2 starts the process again. A
page may be empty when links are deleted between the count and the list.

*Dashboard page.* A batch counts a link whose commit is unknown as "failed", so "No links were created"
may be false. With "keep" off, images uploaded while a batch is being created leave the pool with it.
A request that ends in an exception clears the retained image whatever was chosen since (`dashboard-shell.js:695-697`).

*Production and maintenance.* A process that runs is not stopped when its activation expires. Removing
receipts makes the next start fail, closed. A maintenance run that crashes, or cannot remove its lock,
leaves it, and all later runs refuse until an operator removes it; a write that fails leaves a partial
file that no answer calls a receipt.

## 7. Not modelled, and why

* The legacy upload path without a ledger, multipart staging, `verifyOwnedPaths` (read-only), the Sharp
  calls. The connection handling of the queue.
* The login throttle (check, then record: an approximate limit by design), expiry of tokens, token signing.
* The removal of an account (`mysql-control-plane-store.ts:168-222`): what it removes depends on foreign
  keys that the repository's schema evidence does not hold.
* Rendering, wording, analytics, the clipboard; `DashboardHistoryService.invalidateUserStats` and
  `exactCleanupIdentityStillMatches`, which no running code calls.
* Configuration parsing, headers and the registration of routes: evaluated once.
* The publisher of delivered-country rows, BullMQ, Redis, MariaDB, PM2 and the file system are
  externals, modelled by what this code relies on.
* Contract, benchmark and backup tools, and the in-memory test stores.

## 8. Plan

Done: the upload from request to end, its queue and worker, links, redirects, reports, sessions,
administration, the dashboard page, the web process and its production start; and the proofs of
section 4. Left, in this order:

1. Section 7's parts that have state: the login throttle, the expiry of tokens, the removal of an account.
2. Several uploads at once, with the capacity counters of the ledger store (`mysql-image-job-store.ts`),
   which are a refusal that may happen today.
3. The contract and benchmark tools, should one of them begin to write what the service reads.
