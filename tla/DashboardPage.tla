---------------------------- MODULE DashboardPage ----------------------------
(* A dashboard page in an author's browser (public/assets/dashboard-shell.js) *)
(* and what the mutation routes answer it (links/http.ts, uploads/http.ts).   *)
(* The author goes on using the page while requests are under way: choosing   *)
(* other images, other domains, uploading more.  Texts of the form, results,  *)
(* cards and analytics are left out.                                          *)
(*                                                                            *)
(* Revision counters are only ever compared with the value they had when a    *)
(* request was submitted: a request carries whether the form's image is still *)
(* the same, and the domain to remember as long as nothing was revised.       *)
EXTENDS Integers

CONSTANTS
  Picture,       \* what the author may pick, each time as another File
  Domain,        \* what the author may choose
  None,
  MaxImages      \* maxBulkImages

VARIABLES
  image,         \* of the single form: picked, typed, or retained on the server
  keep,          \* "keep for next"
  single,        \* the single create under way
  pool,          \* bulk uploads: ready, under way, and under way for a chip that is gone
  batch,         \* the bulk create under way
  preference,    \* domain selected, remember box, default domain, save under way
  scope,         \* where the default domain is kept
  told           \* what the author was last told, and what was true

vars == <<image, keep, single, pool, batch, preference, scope, told>>

NoImage == [kind |-> "none", of |-> None]   \* none, or an address typed in

Idle == [at |-> "idle", image |-> NoImage, same |-> FALSE, remember |-> None]

NoBatch == [at |-> "idle", awaited |-> 0, sent |-> 0, remember |-> None]

Quiet == [said |-> "nothing", done |-> FALSE]

Init ==
  /\ image = NoImage /\ keep = TRUE
  /\ single = Idle /\ batch = NoBatch
  /\ pool = [ready |-> 0, uploading |-> 0, gone |-> 0]
  /\ \E d \in Domain : preference = [selected |-> d, remember |-> FALSE, default |-> d, saving |-> None]
  /\ scope \in {"account", "browser"}
  /\ told = Quiet

-----------------------------------------------------------------------------
(* What the server answers                                                    *)

(* Errors raised before anything is committed: of the session, the form, the  *)
(* image and its queue, the link's destination and domain.                    *)
Refusal ==
  {[status |-> 401, code |-> "other"], [status |-> 403, code |-> "other"],
   [status |-> 400, code |-> "other"], [status |-> 422, code |-> "unavailable"],
   [status |-> 429, code |-> "busy"], [status |-> 503, code |-> "other"]}

Unexpected == [status |-> 500, code |-> "other"]

(* sendApiError: a full image queue is marked as not committed.               *)
ApiError(error) ==
  [status |-> error.status, body |-> IF error.code = "busy" THEN "busy" ELSE "failed",
   code |-> error.code]

Ok == [status |-> 200, body |-> "ok", code |-> "none"]

(* A proxy's own answer, or none.                                             *)
Lost == {[status |-> s, body |-> "other", code |-> "none"] : s \in {0, 408, 413, 502}}

(* createSingle, deleteLink: an error that is not an AppError may come before *)
(* or after the commit.                                                       *)
Outcome ==
  {[done |-> FALSE, reply |-> ApiError(e)] : e \in Refusal}
    \union {[done |-> TRUE, reply |-> Ok]}
    \union [done : BOOLEAN, reply : {ApiError(Unexpected)} \union Lost]

-----------------------------------------------------------------------------
(* How the page understands it                                                *)

Busy429(reply) == reply.status = 429 /\ reply.body = "busy"

KindByBody(reply) ==
  CASE Busy429(reply) -> "retryable_precommit"
    [] reply.body = "ok" -> "ok"
    [] reply.status = 401 -> "auth"
    [] reply.status = 403 -> "security"
    [] reply.body \in {"failed", "busy"} -> "application"
    [] OTHER -> "uncertain"

(* safeMutation.                                                              *)
Kind(reply) ==
  IF reply.status \in {0, 408, 429} \/ reply.status >= 500
  THEN IF Busy429(reply) THEN "retryable_precommit" ELSE "uncertain"
  ELSE KindByBody(reply)

(* handleMutationFailure and the success message.                             *)
Say(kind) ==
  CASE kind = "ok" -> "done"
    [] kind \in {"retryable_precommit", "application", "auth", "security"} -> "refused"
    [] kind = "uncertain" -> "uncertain"

Tell(outcome) == told' = [said |-> Say(Kind(outcome.reply)), done |-> outcome.done]

-----------------------------------------------------------------------------
(* The domain preference                                                      *)

Forget(request) == [request EXCEPT !.remember = None]

(* domainPreferenceRevision: requests under way remember nothing any more.    *)
Revised == single' = Forget(single) /\ batch' = Forget(batch)

Select(d) ==
  /\ d # preference.selected
  /\ preference' = [preference EXCEPT !.selected = d]
  /\ Revised
  /\ told' = Quiet /\ UNCHANGED <<image, keep, pool, scope>>

Remember ==
  /\ preference' = [preference EXCEPT !.remember = ~@]
  /\ Revised
  /\ told' = Quiet /\ UNCHANGED <<image, keep, pool, scope>>

(* saveDefaultDomain: at once in the browser's storage, if that works, or by  *)
(* a request, one at a time.                                                  *)
Savable(d) == preference.saving = None /\ d # preference.default

Save(d) ==
  IF scope = "account"
  THEN preference' = [preference EXCEPT !.saving = d]
  ELSE preference' \in {preference, [preference EXCEPT !.default = d]}

MakeDefault ==
  /\ Savable(preference.selected)
  /\ Save(preference.selected)
  /\ Revised
  /\ told' = Quiet /\ UNCHANGED <<image, keep, pool, scope>>

SaveAnswered ==
  /\ preference.saving # None
  /\ \E confirmed \in BOOLEAN :
       preference' = [preference EXCEPT !.saving = None, !.default = IF confirmed THEN preference.saving ELSE @]
  /\ told' = Quiet /\ UNCHANGED <<image, keep, single, pool, batch, scope>>

(* A storage event: another tab of this browser saved another default.        *)
OtherTab(d) ==
  /\ scope = "browser" /\ d # preference.default
  /\ preference' = [preference EXCEPT !.default = d]
  /\ Revised
  /\ told' = Quiet /\ UNCHANGED <<image, keep, pool, scope>>

ToRemember == IF preference.remember THEN preference.selected ELSE None

(* rememberDomainAfterComplete.                                               *)
Remembers(request) == request.remember # None /\ Savable(request.remember)

-----------------------------------------------------------------------------
(* The single form                                                            *)

(* Pick a file, type an address, clear: each makes another image revision.    *)
Choose(choice) ==
  /\ image' = choice
  /\ single' = [single EXCEPT !.same = FALSE]
  /\ told' = Quiet /\ UNCHANGED <<keep, pool, batch, preference, scope>>

Keep ==
  /\ keep' = ~keep
  /\ told' = Quiet /\ UNCHANGED <<image, single, pool, batch, preference, scope>>

SubmitSingle ==
  /\ single.at = "idle"
  /\ single' = [at |-> "asked", image |-> image, same |-> TRUE, remember |-> ToRemember]
  /\ told' = Quiet /\ UNCHANGED <<image, keep, pool, batch, preference, scope>>

RetainsAlways == keep /\ single.image.kind = "file"

(* The server keeps a managed path for the file that was sent: the form may   *)
(* name it instead, if it still holds that file.                              *)
Retains == keep /\ single.image.kind = "file" /\ single.same

Retained == IF Retains THEN [kind |-> "retained", of |-> single.image.of] ELSE image

RememberSingle ==
  IF Remembers(single)
  THEN Save(single.remember) /\ batch' = Forget(batch)
  ELSE UNCHANGED <<preference, batch>>

(* applyKeepSingle clears what the form holds now.                            *)
SingleCreated(outcome) ==
  /\ Kind(outcome.reply) = "ok"
  /\ image' = IF keep THEN Retained ELSE NoImage
  /\ RememberSingle

(* A retained path the server no longer has is forgotten.                     *)
SingleRefused(outcome) ==
  /\ Kind(outcome.reply) # "ok"
  /\ image' = IF outcome.reply.code = "unavailable" /\ single.image.kind = "retained" /\ single.same
              THEN NoImage ELSE image
  /\ UNCHANGED <<preference, batch>>

(* An exception while the page shows the result leaves it half done; the      *)
(* retained path of the form is forgotten if one was submitted.               *)
SingleBroken ==
  /\ image' = IF single.image.kind # "retained" THEN Retained
              ELSE IF image.kind = "retained" THEN NoImage ELSE image
  /\ RememberSingle \/ UNCHANGED <<preference, batch>>
  /\ told' = Quiet

SingleAnswered ==
  /\ single.at = "asked"
  /\ single' = Idle
  /\ \/ \E outcome \in Outcome : (SingleCreated(outcome) \/ SingleRefused(outcome)) /\ Tell(outcome)
     \/ SingleBroken
  /\ UNCHANGED <<keep, pool, scope>>

-----------------------------------------------------------------------------
(* Bulk uploads and the bulk form                                             *)

Busy == pool.uploading + pool.gone

SlotsOfReady == MaxImages - pool.ready

(* availableBulkUploadSlots.                                                  *)
Slots == MaxImages - pool.ready - Busy

PickBulk ==
  /\ Slots > 0
  /\ pool' = [pool EXCEPT !.uploading = @ + 1]
  /\ told' = Quiet /\ UNCHANGED <<image, keep, single, batch, preference, scope>>

(* One upload after another, in the order they were picked; a batch that was  *)
(* submitted waits for those before it.                                       *)
UploadEnds ==
  /\ \/ pool.gone > 0 /\ pool' = [pool EXCEPT !.gone = @ - 1]
     \/ \E ready \in {pool.ready, pool.ready + 1} :
          /\ pool.gone = 0 /\ pool.uploading > 0
          /\ pool' = [pool EXCEPT !.uploading = @ - 1, !.ready = ready]
  /\ batch' = [batch EXCEPT !.awaited = IF @ = 0 THEN 0 ELSE @ - 1]
  /\ told' = Quiet /\ UNCHANGED <<image, keep, single, preference, scope>>

RemoveChip ==
  /\ pool.ready > 0
  /\ pool' = [pool EXCEPT !.ready = @ - 1]
  /\ told' = Quiet /\ UNCHANGED <<image, keep, single, batch, preference, scope>>

SubmitBulk ==
  /\ batch.at = "idle"
  /\ batch' = [NoBatch EXCEPT !.at = "preparing", !.awaited = Busy]
  /\ told' = Quiet /\ UNCHANGED <<image, keep, single, pool, preference, scope>>

(* Images picked since, or too many, or a form that does not hold together,   *)
(* and the batch is not sent.                                                 *)
SendBulk ==
  /\ batch.at = "preparing" /\ batch.awaited = 0
  /\ \/ batch' = NoBatch
     \/ /\ Busy = 0 /\ pool.ready <= MaxImages
        /\ batch' = [at |-> "asked", awaited |-> 0, sent |-> pool.ready, remember |-> ToRemember]
  /\ told' = Quiet /\ UNCHANGED <<image, keep, single, pool, preference, scope>>

(* applyKeepBulk: the images the batch used stay, or the pool is emptied,     *)
(* with the chips of uploads still under way.                                 *)
PoolAfterCreate ==
  IF keep
  THEN {[pool EXCEPT !.ready = n] : n \in {k \in 0..batch.sent : k <= pool.ready}}
  ELSE {[ready |-> 0, uploading |-> 0, gone |-> Busy]}

RememberBulk ==
  IF Remembers(batch)
  THEN Save(batch.remember) /\ single' = Forget(single)
  ELSE UNCHANGED <<preference, single>>

(* createBulk goes on after a failure; only a complete batch is remembered.   *)
BulkAnswered ==
  /\ batch.at = "asked"
  /\ batch' = NoBatch
  /\ \/ pool' \in PoolAfterCreate /\ (RememberBulk \/ UNCHANGED <<preference, single>>)
     \/ UNCHANGED <<pool, preference, single>>
  /\ told' = Quiet /\ UNCHANGED <<image, keep, scope>>

-----------------------------------------------------------------------------
(* deleteLink.                                                                *)
Delete ==
  /\ \E outcome \in Outcome : Tell(outcome)
  /\ UNCHANGED <<image, keep, single, pool, batch, preference, scope>>

(* A file, an address, or nothing.                                            *)
Choices == {NoImage} \union [kind : {"file"}, of : Picture]

Next ==
  \/ \E d \in Domain : Select(d) \/ OtherTab(d)
  \/ Remember \/ MakeDefault \/ SaveAnswered
  \/ \E choice \in Choices : Choose(choice)
  \/ Keep \/ SubmitSingle \/ SingleAnswered
  \/ PickBulk \/ UploadEnds \/ RemoveChip \/ SubmitBulk \/ SendBulk \/ BulkAnswered
  \/ Delete

Spec == Init /\ [][Next]_vars

-----------------------------------------------------------------------------
(* The server takes no more than MaxImages: whatever is picked, removed and   *)
(* created meanwhile, what is ready and what will be fit                      *)
(* (dashboard-shell.js:702-728).                                              *)
PoolFits == pool.ready + Busy <= MaxImages

(* "Link created" is said of a link that exists, and a refusal only of one    *)
(* that does not; whatever cannot be known is called uncertain                *)
(* (dashboard-shell.js:2159-2205, links/http.ts:342-364).                     *)
ToldTheTruth ==
  /\ told.said = "done" => told.done
  /\ told.said = "refused" => ~told.done

PageInv == PoolFits /\ ToldTheTruth

(* An answer that comes late never overrides what the author did since: the   *)
(* form's image becomes a retained one only in place of the very file, and a  *)
(* default domain is saved only while the page shows it selected              *)
(* (dashboard-shell.js:616-700, 967-1099).                                    *)
AnswersYield ==
  [][/\ image'.kind = "retained" /\ image' # image => image = [kind |-> "file", of |-> image'.of]
     /\ preference'.saving \notin {None, preference.saving} =>
          /\ preference'.saving = preference.selected
          /\ preference.remember \/ (single.at = single'.at /\ batch.at = batch'.at)]_vars
=============================================================================
