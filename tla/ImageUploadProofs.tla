------------------------- MODULE ImageUploadProofs -------------------------
(***************************************************************************)
(* What holds of an upload however long its drivers are delayed, for any   *)
(* number of drainers, attempts and faults.                                *)
(*                                                                         *)
(* The argument rests on rows that move one way.  What an actor once read  *)
(* of the row bounds what the row is now: a row seen ready is ready, a row *)
(* seen withdrawing is still (Before).  Public files are removed by actors *)
(* that saw the row withdrawing only, so a ready row keeps its file; and a *)
(* row is compensated by actors that removed all three files, of which     *)
(* none can come back: the input is placed once, before the row exists,    *)
(* the private output is opened by a worker that has the input, and the    *)
(* public file is the private output renamed.                              *)
(*                                                                         *)
(* A further part maps every step to a command of ImageJobLedger.          *)
(*                                                                         *)
(* The rest is about what needs holders that do not outlive their leases   *)
(* (Punctual).  What an actor remembers under the version of the stored    *)
(* row is the stored row (InOrder), so that a command that is accepted     *)
(* was decided from the row that it rewrites; and whoever writes the row   *)
(* of an attempt holds its live lease, or found it lapsed; the two exclude *)
(* each other (HoldersInv).  All of it is carried by one statement about   *)
(* the steps of an actor (StepBy), and one about the actors that do not    *)
(* step (OtherHolders).                                                    *)
(***************************************************************************)
EXTENDS ImageUpload, ImageJobPolicyProofs

File == {"input", "temp", "final"}
Content == {"absent", "partial", "complete"}
Entry == [attempt: 0..MaxAttempts, state: {"none", "waiting", "active", "completed", "failed"}]
Writer == {"idle", "reading", "temp", "final", "gone"}
Pc == Running \union {"idle", "answered", "refused"}
Local == [pc: Pc, seen: Job \union {None}, at: Nat, caller: Caller]

(* k is what has become of a row that was j.                               *)
Before(j, k) ==
  /\ k # None
  /\ j.state \in Withdrawing => k.state \in Withdrawing
  /\ j.state = "ready" => k.state = "ready"

(* Where an actor takes the upload for completed, and where it undoes one. *)
Completing == {"readyResult", "finish", "answered", "recoverReady"}
Undoing == {"claimCompensation", "checkSafe", "compensationFailed", "removeFiles", "complete"}

LocalOK(l) ==
  /\ l.seen # None => RowOK(l.seen) /\ Before(l.seen, row)
  /\ l.pc \in Running \ {"reserve", "readBack"} => l.seen # None
  /\ l.pc \in Completing => InState({"ready"})
  /\ l.pc \in Undoing => InState(Withdrawing)
  /\ l.pc = "publish" => files["final"] # "absent" \/ InState(Withdrawing)
  /\ l.pc = "observe" => Listed(l.seen, l.at)

Reserved ==
  /\ row = None <=> local[Web].pc = "reserve"
  /\ row = None => \A r \in Reconciler : local[r].pc = "idle"

NothingLeft ==
  files["input"] = "absent" /\ files["temp"] = "absent" /\ files["final"] = "absent"
    /\ worker \notin {"temp", "final"}

RemovedForGood ==
  InState({"compensated"}) \/ (\E a \in Actor : local[a].pc = "complete") => NothingLeft

UploadIInv ==
  /\ TypeOK /\ ReadyIntact /\ Reserved /\ RemovedForGood
  /\ row # None => RowOK(row)
  /\ \A a \in Actor : LocalOK(local[a])

-----------------------------------------------------------------------------
(* Types *)

LEMMA Pcs ==
  /\ {"reserve", "readBack", "readyResult", "enqueue", "claim", "submit", "await", "recordOutput",
      "beginPublication", "rename", "publish", "publishFailed", "finish", "caught",
      "caughtAmbiguous", "caughtPublished", "discard", "giveUp", "compensate",
      "claimCompensation", "checkSafe", "compensationFailed", "removeFiles", "complete",
      "observe", "recoverReady", "cleanTemp", "recoverRetry", "dropInput",
      "manualReview"} \subseteq Running
  /\ Running \subseteq Pc /\ {"idle", "answered", "refused"} \subseteq Pc
  /\ {"idle", "answered", "refused"} \intersect Running = {}
  /\ {"none", "publish", "catch", "recovery", "lapsed"} \subseteq Caller
BY DEF Pc, Running, PrivateSteps, CatchSteps, CompensationSteps, RecoverySteps, Caller

LEMMA TypeSplit ==
  TypeOK <=> /\ now \in Nat /\ row \in Job \union {None} /\ files \in [File -> Content]
             /\ upload \in {"none", "ready", "attached"} /\ queue \in Entry /\ worker \in Writer
             /\ local \in [Actor -> Local] /\ faults \in 0..MaxFaults
BY DEF TypeOK, File, Content, Entry, Writer, Local, Pc

LEMMA LocalFields ==
  ASSUME NEW l \in Local
  PROVE  l.pc \in Pc /\ l.seen \in Job \union {None} /\ l.at \in Nat /\ l.caller \in Caller
BY DEF Local

LEMMA GoLocal ==
  ASSUME TypeOK, NEW a \in Actor, NEW pc \in Pc, NEW seen \in Job \union {None}, Go(a, pc, seen)
  PROVE  \E l \in Local : /\ local' = [local EXCEPT ![a] = l] /\ l.pc = pc
                          /\ pc \in Running => l.seen = seen /\ l.at = local[a].at
                                               /\ l.caller = local[a].caller
                          /\ pc \notin Running => l.seen = None
<1>1. local[a] \in Local
  BY TypeSplit
<1>2. CASE pc \in Running
  <2>1. [local[a] EXCEPT !.pc = pc, !.seen = seen] \in Local
    BY <1>1 DEF Local
  <2>2. local' = [local EXCEPT ![a] = [local[a] EXCEPT !.pc = pc, !.seen = seen]]
    BY <1>2 DEF Go
  <2> QED
    BY <1>1, <1>2, <2>1, <2>2 DEF Local
<1>3. CASE pc \notin Running
  <2>1. At(pc) \in Local
    BY Pcs DEF At, Local
  <2>2. local' = [local EXCEPT ![a] = At(pc)]
    BY <1>3 DEF Go
  <2> QED
    BY <1>3, <2>1, <2>2 DEF At
<1> QED
  BY <1>2, <1>3

LEMMA EnterLocal ==
  ASSUME TypeOK, NEW a \in Actor, NEW pc \in Running, NEW seen \in Job \union {None},
         NEW caller \in Caller, Enter(a, pc, seen, caller)
  PROVE  \E l \in Local : /\ local' = [local EXCEPT ![a] = l] /\ l.pc = pc
                          /\ l.seen = seen /\ l.at = local[a].at
<1>1. local[a] \in Local
  BY TypeSplit
<1>2. [local[a] EXCEPT !.pc = pc, !.seen = seen, !.caller = caller] \in Local
  BY <1>1, Pcs DEF Local
<1>3. local' = [local EXCEPT ![a] = [local[a] EXCEPT !.pc = pc, !.seen = seen, !.caller = caller]]
  BY DEF Enter
<1> QED
  BY <1>1, <1>2, <1>3 DEF Local

-----------------------------------------------------------------------------
(* Rows and what was seen of them *)

LEMMA RowFields ==
  ASSUME NEW j, RowOK(j)
  PROVE  /\ j \in Job /\ j # None
         /\ j.state \in JobState /\ j.version \in Nat /\ j.updatedAt \in Nat
         /\ j.attempts \in 0..MaxAttempts /\ j.compensationAttempts \in 0..MaxCompensationAttempts
         /\ j.lease # None => j.lease \in Lease
         /\ (j.lease # None) <=> (j.state \in Leased)
BY NoneIsNull, PolicyConstants DEF RowOK, Job, ValidJob, CountersBounded, ShapeMatches

(* A row that is written was not ready, and moves on.                      *)
LEMMA MovesOn ==
  ASSUME NEW j, NEW k, RowOK(j), RowOK(k), RowMoves(j, k)
  PROVE  Before(j, k) /\ j.state # "ready" /\ j.state # "compensated"
<1>1. j.state \in JobState /\ k.state \in JobState /\ k # None
  BY RowFields
<1>2. j.state \notin {"ready", "compensated"}
  BY DEF RowMoves
<1>3. ASSUME j.state \in Withdrawing PROVE k.state \in Withdrawing
  <2>1. RowPhase(j) = "withdrawing"
    BY <1>2, <1>3 DEF RowPhase, Withdrawing
  <2>2. RowPhase(k) \in {"withdrawing", "withdrawn"}
    BY <2>1 DEF RowMoves
  <2> QED
    BY <2>2 DEF RowPhase, Withdrawing
<1> QED
  BY <1>1, <1>2, <1>3 DEF Before

LEMMA BeforeOn ==
  ASSUME NEW i, NEW j, NEW k, Before(i, j), Before(j, k)
  PROVE  Before(i, k)
BY DEF Before

LEMMA BeforeSelf ==
  ASSUME NEW j, RowOK(j)
  PROVE  Before(j, j)
BY RowFields DEF Before

-----------------------------------------------------------------------------
(* A step writes the row well or not at all, and moves one actor or none.  *)
RowStep ==
  /\ row # None
  /\ \/ row' = row
     \/ RowOK(row') /\ RowMoves(row, row') /\ (row'.state = "compensated" => NothingLeft)

(* The public file of a row that is not being undone stays, and what was   *)
(* removed altogether does not come back.                                  *)
FilesStep ==
  /\ files' \in [File -> Content] /\ worker' \in Writer
  /\ files["final"] # "absent" => files'["final"] # "absent" \/ InState(Withdrawing)
  /\ NothingLeft => NothingLeft'

RestStep ==
  now' \in Nat /\ upload' \in {"none", "ready", "attached"} /\ queue' \in Entry /\ faults' \in 0..MaxFaults

LEMMA RowStepOn ==
  ASSUME UploadIInv, RowStep
  PROVE  /\ RowOK(row) /\ RowOK(row') /\ Before(row, row')
         /\ InState({"ready"}) => InState({"ready"})'
         /\ InState(Withdrawing) => InState(Withdrawing)'
         /\ InState({"compensated"})' => InState({"compensated"}) \/ NothingLeft
<1>1. RowOK(row)
  BY DEF UploadIInv, RowStep
<1>2. RowOK(row') /\ Before(row, row')
  BY <1>1, MovesOn, BeforeSelf DEF RowStep
<1>3. row # None /\ row' # None
  BY <1>1, <1>2, RowFields
<1>4. InState({"compensated"})' => InState({"compensated"}) \/ NothingLeft
  BY <1>3 DEF RowStep, InState
<1> QED
  BY <1>1, <1>2, <1>3, <1>4 DEF InState, Before

LEMMA OthersKeep ==
  ASSUME UploadIInv, RowStep, FilesStep, NEW l, LocalOK(l)
  PROVE  LocalOK(l)'
<1>1. /\ RowOK(row) /\ RowOK(row') /\ Before(row, row')
      /\ InState({"ready"}) => InState({"ready"})'
      /\ InState(Withdrawing) => InState(Withdrawing)'
  BY RowStepOn
<1>2. l.seen # None => RowOK(l.seen) /\ Before(l.seen, row')
  BY <1>1, BeforeOn DEF LocalOK
<1>3. l.pc = "publish" => files'["final"] # "absent" \/ InState(Withdrawing)'
  BY <1>1 DEF LocalOK, FilesStep
<1> QED
  BY <1>1, <1>2, <1>3 DEF LocalOK

LEMMA StepKeeps ==
  ASSUME UploadIInv, RowStep, FilesStep, RestStep, ReadyIntact',
         NEW a \in Actor, NEW l \in Local, local' = [local EXCEPT ![a] = l],
         LocalOK(l)', l.pc # "reserve", l.pc = "complete" => NothingLeft'
  PROVE  UploadIInv'
<1>1. RowOK(row) /\ RowOK(row') /\ row' # None /\ row' \in Job
  BY RowStepOn, RowFields
<1>2. local \in [Actor -> Local] /\ Web \in Actor
  BY TypeSplit DEF UploadIInv, Actor
<1>3. /\ local' \in [Actor -> Local] /\ local'[a] = l
      /\ \A b \in Actor : b # a => local'[b] = local[b]
  BY <1>2
<1>4. TypeOK'
  BY <1>1, <1>3, TypeSplit DEF FilesStep, RestStep, TypeOK, File, Content, Entry, Writer, Local, Pc
<1>5. Reserved'
  <2>1. local[Web].pc # "reserve"
    BY DEF UploadIInv, Reserved, RowStep
  <2> QED
    BY <1>1, <1>2, <1>3, <2>1 DEF Reserved
<1>6. RemovedForGood'
  <2>1. ASSUME InState({"compensated"})' PROVE NothingLeft'
    BY <2>1, RowStepOn DEF UploadIInv, RemovedForGood, FilesStep
  <2>2. ASSUME NEW b \in Actor, local'[b].pc = "complete" PROVE NothingLeft'
    BY <1>3, <2>2 DEF UploadIInv, RemovedForGood, FilesStep
  <2> QED
    BY <2>1, <2>2 DEF RemovedForGood
<1>7. ASSUME NEW b \in Actor PROVE LocalOK(local[b])'
  <2>1. CASE b = a
    BY <1>3, <2>1 DEF LocalOK
  <2>2. CASE b # a
    <3>1. PICK k : k = local[b]
      OBVIOUS
    <3>2. LocalOK(k)
      BY <3>1 DEF UploadIInv
    <3>3. LocalOK(k)'
      BY <3>2, OthersKeep
    <3> QED
      BY <1>3, <2>2, <3>1, <3>3 DEF LocalOK
  <2> QED
    BY <2>1, <2>2
<1> QED
  BY <1>1, <1>4, <1>5, <1>6, <1>7 DEF UploadIInv

(* The same of a step that moves no actor.                                 *)
LEMMA QuietStepKeeps ==
  ASSUME UploadIInv, row # None, FilesStep, RestStep, ReadyIntact', UNCHANGED <<row, local>>
  PROVE  UploadIInv'
<1>1. Web \in Actor /\ local \in [Actor -> Local]
  BY TypeSplit DEF UploadIInv, Actor
<1>2. PICK l : l = local[Web]
  OBVIOUS
<1>3. l \in Local /\ local' = [local EXCEPT ![Web] = l]
  BY <1>1, <1>2
<1>4. RowStep
  BY DEF RowStep
<1>5. LocalOK(l)
  BY <1>1, <1>2 DEF UploadIInv
<1>6. LocalOK(l)'
  BY <1>4, <1>5, OthersKeep
<1>7. l.pc # "reserve" /\ (l.pc = "complete" => NothingLeft')
  BY <1>1, <1>2 DEF UploadIInv, Reserved, RemovedForGood, FilesStep
<1> QED
  BY <1>1, <1>3, <1>4, <1>6, <1>7, StepKeeps

-----------------------------------------------------------------------------
(* Where an actor may go next, given what the row and files have become.   *)
Fits(pc) ==
  /\ pc \in Completing => InState({"ready"})
  /\ pc \in Undoing => InState(Withdrawing)
  /\ pc = "publish" => files["final"] # "absent" \/ InState(Withdrawing)
  /\ pc = "complete" => NothingLeft

Plain == Pc \ (Completing \union Undoing \union {"publish", "observe", "reserve", "readBack"})

LEMMA PlainFits ==
  ASSUME NEW pc \in Plain
  PROVE  Fits(pc)' /\ pc \in Pc /\ pc \notin {"observe", "reserve"}
BY DEF Plain, Fits, Undoing

LEMMA PlainPcs ==
  /\ {"enqueue", "claim", "submit", "await", "recordOutput", "beginPublication", "rename",
      "publishFailed", "caught", "caughtAmbiguous", "caughtPublished", "discard", "giveUp",
      "compensate", "cleanTemp", "recoverRetry", "dropInput", "manualReview", "idle",
      "refused"} \subseteq Plain
  /\ \A a \in Actor : End(a) \in Plain /\ Return(a) \in Plain /\ End(a) # "reserve"
BY Pcs DEF Plain, Completing, Undoing, End, Return

LEMMA GoKeeps ==
  ASSUME UploadIInv, RowStep, FilesStep, RestStep, ReadyIntact', NEW a \in Actor,
         NEW pc \in Pc \ {"observe", "reserve"}, NEW seen, RowOK(seen), Before(seen, row'),
         Go(a, pc, seen), Fits(pc)'
  PROVE  UploadIInv'
<1>1. seen \in Job \union {None} /\ seen # None
  BY RowFields
<1>2. PICK l \in Local : /\ local' = [local EXCEPT ![a] = l] /\ l.pc = pc
                         /\ pc \in Running => l.seen = seen
                         /\ pc \notin Running => l.seen = None
  BY <1>1, GoLocal DEF UploadIInv
<1>3. l.seen # None => l.seen = seen
  BY <1>2
<1>4. l.pc \in Running => l.seen # None
  BY <1>1, <1>2
<1>5. l.pc = "complete" => NothingLeft'
  BY <1>2 DEF Fits
<1>6. LocalOK(l)'
  BY <1>2, <1>3, <1>4 DEF LocalOK, Fits
<1> QED
  BY <1>2, <1>5, <1>6, StepKeeps

LEMMA EnterKeeps ==
  ASSUME UploadIInv, RowStep, FilesStep, RestStep, ReadyIntact', NEW a \in Actor,
         NEW pc \in Running \ {"observe", "reserve"}, NEW seen, RowOK(seen), Before(seen, row'),
         NEW caller \in Caller, Enter(a, pc, seen, caller), Fits(pc)'
  PROVE  UploadIInv'
<1>1. seen \in Job \union {None} /\ seen # None
  BY RowFields
<1>2. PICK l \in Local : local' = [local EXCEPT ![a] = l] /\ l.pc = pc /\ l.seen = seen
  BY <1>1, EnterLocal DEF UploadIInv
<1>3. l.pc = "complete" => NothingLeft'
  BY <1>2 DEF Fits
<1>4. LocalOK(l)'
  BY <1>1, <1>2 DEF LocalOK, Fits
<1> QED
  BY <1>2, <1>3, <1>4, StepKeeps

(* What a working actor saw.                                               *)
Working(a) == local[a].pc \in Running \ {"reserve", "readBack"}

LEMMA SeenRow ==
  ASSUME UploadIInv, NEW a \in Actor, Working(a)
  PROVE  /\ row # None /\ RowOK(row) /\ RowOK(Seen(a)) /\ Before(Seen(a), row)
         /\ Seen(a) \in Job \union {None} /\ local[a].at \in Nat /\ LocalOK(local[a])
<1>1. LocalOK(local[a]) /\ local[a] \in Local
  BY TypeSplit DEF UploadIInv
<1>2. RowOK(Seen(a)) /\ Before(Seen(a), row)
  BY <1>1 DEF LocalOK, Working, Seen
<1>3. row # None
  BY <1>2 DEF Before
<1> QED
  BY <1>1, <1>2, <1>3, LocalFields DEF UploadIInv, Seen

LEMMA StayKeeps ==
  ASSUME UploadIInv, RowStep, FilesStep, RestStep, ReadyIntact', NEW a \in Actor, Working(a),
         NEW pc \in Pc \ {"observe", "reserve"}, Stay(a, pc), Fits(pc)'
  PROVE  UploadIInv'
<1>1. RowOK(Seen(a)) /\ Before(Seen(a), row) /\ Before(row, row')
  BY SeenRow, RowStepOn
<1>2. PICK s : s = Seen(a)
  OBVIOUS
<1>3. RowOK(s) /\ Before(s, row') /\ Go(a, pc, s)
  BY <1>1, <1>2, BeforeOn DEF Stay
<1> QED
  BY <1>3, GoKeeps

-----------------------------------------------------------------------------
(* Commands on the row *)

Same == UNCHANGED <<now, files, upload, queue, worker>>

LEMMA FaultTypes == TypeOK /\ (Fault \/ NoFault) => faults' \in 0..MaxFaults
BY UploadConstants DEF TypeOK, Fault, NoFault

LEMMA SameFiles ==
  ASSUME TypeOK, UNCHANGED <<files, worker>>
  PROVE  FilesStep
BY TypeSplit DEF FilesStep, NothingLeft

LEMMA CommandKeeps ==
  ASSUME UploadIInv, NEW a \in Actor, Working(a), NEW may, NEW after, NEW at \in Nat,
         NEW onward \in Pc \ {"observe", "reserve"}, NEW onError \in Plain,
         Command(a, may, after, at, onward, onError),
         Applying(row, at) /\ may
           => /\ RowOK(after) /\ RowMoves(row, after) /\ after.state \notin {"ready", "compensated"}
              /\ onward \in Plain \/ (onward \in Undoing \ {"complete"} /\ after.state \in Withdrawing)
  PROVE  UploadIInv'
<1>1. row # None /\ RowOK(row) /\ TypeOK
  BY SeenRow DEF UploadIInv
<1>2. FilesStep /\ RestStep
  <2>1. Same /\ (Fault \/ NoFault)
    BY DEF Command, Same
  <2>2. FilesStep
    BY <1>1, <2>1, SameFiles DEF Same
  <2>3. RestStep
    BY <1>1, <2>1, FaultTypes, TypeSplit DEF Same, RestStep
  <2> QED
    BY <2>2, <2>3
<1>3. Fresh(row, Seen(a).version, at) => Fresh(row, row.version, at)
  BY DEF Fresh
<1>4. \/ /\ row' = after /\ Applying(row, at) /\ may
         /\ Go(a, onward, after) \/ Stay(a, onError)
      \/ row' = row /\ Stay(a, onError)
  BY <1>1, <1>3 DEF Command, Applying
<1>5. CASE row' = row /\ Stay(a, onError)
  <2>1. RowStep /\ ReadyIntact'
    BY <1>1, <1>5 DEF RowStep, Command, UploadIInv, ReadyIntact, InState
  <2> QED
    BY <1>2, <1>5, <2>1, PlainFits, StayKeeps
<1>6. CASE row' = after /\ Applying(row, at) /\ may
  <2>1. RowOK(after) /\ RowMoves(row, after) /\ after.state \notin {"ready", "compensated"}
    BY <1>6
  <2>2. RowStep
    BY <1>1, <1>6, <2>1 DEF RowStep
  <2>3. row.state # "ready" /\ after # None /\ UNCHANGED <<files, upload>>
    BY <1>1, <2>1, MovesOn, RowFields DEF Command
  <2>4. ReadyIntact'
    BY <1>1, <1>6, <2>1, <2>3 DEF UploadIInv, ReadyIntact, InState
  <2>5. CASE Stay(a, onError)
    BY <1>2, <2>2, <2>4, <2>5, PlainFits, StayKeeps
  <2>6. CASE Go(a, onward, after)
    <3>1. Before(after, row')
      BY <1>6, <2>1, BeforeSelf
    <3>2. Fits(onward)'
      <4>1. CASE onward \in Plain
        BY <4>1, PlainFits
      <4>2. CASE onward \in Undoing \ {"complete"} /\ after.state \in Withdrawing
        BY <1>6, <2>3, <4>2 DEF Fits, Undoing, Completing, InState
      <4> QED
        BY <1>6, <4>1, <4>2
    <3>3. PICK j : j = after
      OBVIOUS
    <3> QED
      BY <1>2, <2>1, <2>2, <2>4, <2>6, <3>1, <3>2, <3>3, GoKeeps
  <2> QED
    BY <1>4, <1>5, <1>6, <2>5, <2>6
<1> QED
  BY <1>4, <1>5, <1>6

LEMMA Goals ==
  /\ Plain \subseteq Pc \ {"observe", "reserve"}
  /\ Undoing \subseteq Pc \ {"observe", "reserve"}
  /\ Completing \subseteq Pc \ {"observe", "reserve"}
BY Pcs DEF Plain, Undoing, Completing

LEMMA EnqueueKeeps == ASSUME UploadIInv, NEW a \in Actor, Enqueue(a) PROVE UploadIInv'
<1>1. PICK at : /\ at \in Nat /\ local[a].pc = "enqueue"
                /\ Command(a, MayEnqueue(row, at, at), AfterEnqueue(row, at, at), at, "claim", End(a))
  <2>1. local[a].at \in Nat /\ now \in Nat
    BY TypeSplit, LocalFields DEF UploadIInv
  <2> QED
    BY <2>1 DEF Enqueue
<1>2. Working(a) /\ "claim" \in Plain /\ End(a) \in Plain
  BY <1>1, Pcs, PlainPcs DEF Working
<1>3. ASSUME Applying(row, at), MayEnqueue(row, at, at)
      PROVE  /\ RowOK(AfterEnqueue(row, at, at)) /\ RowMoves(row, AfterEnqueue(row, at, at))
             /\ AfterEnqueue(row, at, at).state \notin {"ready", "compensated"}
  BY <1>1, <1>3, EnqueueOK, EnqueueMoves DEF Applying, AfterEnqueue, Advance, RowOK, Job
<1> QED
  BY <1>1, <1>2, <1>3, Goals, CommandKeeps

LEMMA ClaimProcessingKeeps == ASSUME UploadIInv, NEW a \in Actor, ClaimProcessing(a) PROVE UploadIInv'
<1> DEFINE may == MayClaimProcessing(row, now, now + JobLease)
           after == AfterClaimProcessing(row, ProcessingLease(a), now)
<1>1. local[a].pc = "claim" /\ Command(a, may, after, now, "submit", End(a))
  BY DEF ClaimProcessing
<1>2. Working(a) /\ "submit" \in Plain /\ End(a) \in Plain
  BY <1>1, Pcs, PlainPcs DEF Working
<1>3. now \in Nat /\ now + JobLease \in Nat /\ a \in Owner
  BY TypeSplit, UploadConstants DEF UploadIInv
<1>4. ASSUME Applying(row, now), may
      PROVE  RowOK(after) /\ RowMoves(row, after) /\ after.state \notin {"ready", "compensated"}
  <2>1. row.attempts \in 0..MaxAttempts /\ row.attempts < MaxAttempts /\ row \in Job
    BY <1>4, RowFields DEF Applying, MayClaimProcessing
  <2>2. <<"processing", row.attempts + 1>> \in Token
    BY <2>1, UploadConstants, PolicyConstants
  <2>3. RowOK(after)
    BY <1>3, <1>4, <2>2, ClaimProcessingOK DEF ProcessingLease
  <2>4. RowMoves(row, after)
    BY <1>3, <1>4, ClaimProcessingMoves DEF Applying
  <2> QED
    BY <2>1, <2>3, <2>4 DEF AfterClaimProcessing, Advance, Job
<1> QED
  BY <1>1, <1>2, <1>3, <1>4, Goals, CommandKeeps

LEMMA RecordOutputReadyKeeps == ASSUME UploadIInv, NEW a \in Actor, RecordOutputReady(a) PROVE UploadIInv'
<1> DEFINE may == MayRecordOutputReady(row, LeaseToken(a), now)
           after == AfterRecordOutputReady(row, now)
<1>1. local[a].pc = "recordOutput" /\ Command(a, may, after, now, "beginPublication", "caught")
  BY DEF RecordOutputReady
<1>2. Working(a) /\ "beginPublication" \in Plain /\ "caught" \in Plain
  BY <1>1, Pcs, PlainPcs DEF Working
<1>3. now \in Nat
  BY TypeSplit DEF UploadIInv
<1>4. ASSUME Applying(row, now), may
      PROVE  RowOK(after) /\ RowMoves(row, after) /\ after.state \notin {"ready", "compensated"}
  BY <1>3, <1>4, RecordOutputReadyOK, RecordOutputReadyMoves
     DEF Applying, AfterRecordOutputReady, Advance, RowOK, Job
<1> QED
  BY <1>1, <1>2, <1>3, <1>4, Goals, CommandKeeps

LEMMA BeginPublicationKeeps == ASSUME UploadIInv, NEW a \in Actor, BeginPublication(a) PROVE UploadIInv'
<1> DEFINE may == MayBeginPublication(row, LeaseToken(a), now)
           after == AfterBeginPublication(row, now)
<1>1. local[a].pc = "beginPublication" /\ Command(a, may, after, now, "rename", "caught")
  BY DEF BeginPublication
<1>2. Working(a) /\ "rename" \in Plain /\ "caught" \in Plain
  BY <1>1, Pcs, PlainPcs DEF Working
<1>3. now \in Nat
  BY TypeSplit DEF UploadIInv
<1>4. ASSUME Applying(row, now), may
      PROVE  RowOK(after) /\ RowMoves(row, after) /\ after.state \notin {"ready", "compensated"}
  BY <1>3, <1>4, BeginPublicationOK, BeginPublicationMoves
     DEF Applying, AfterBeginPublication, Advance, RowOK, Job
<1> QED
  BY <1>1, <1>2, <1>3, <1>4, Goals, CommandKeeps

LEMMA GiveUpAttemptKeeps == ASSUME UploadIInv, NEW a \in Actor, GiveUpAttempt(a) PROVE UploadIInv'
<1> DEFINE may == MayRecordFailure(row, LeaseToken(a), now)
           after == AfterRecordFailure(row, FALSE, None, now)
<1>1. local[a].pc = "giveUp" /\ Command(a, may, after, now, End(a), End(a))
  BY DEF GiveUpAttempt
<1>2. Working(a) /\ End(a) \in Plain
  BY <1>1, Pcs, PlainPcs DEF Working
<1>3. now \in Nat
  BY TypeSplit DEF UploadIInv
<1>4. ASSUME Applying(row, now), may
      PROVE  RowOK(after) /\ RowMoves(row, after) /\ after.state \notin {"ready", "compensated"}
  <2>1. RowOK(after)
    BY <1>3, <1>4, RecordFailureOK
  <2>2. RowMoves(row, after)
    BY <1>3, <1>4, RecordFailureMoves DEF Applying
  <2> QED
    BY <1>4, <2>1, <2>2
       DEF Applying, AfterRecordFailure, AfterRequireCompensation, GiveUp, RetryLater, Advance, RowOK, Job
<1> QED
  BY <1>1, <1>2, <1>3, <1>4, Goals, CommandKeeps

(* A failed or withdrawn attempt leaves the row asked to be compensated.   *)
LEMMA RequireCompensationKeeps == ASSUME UploadIInv, NEW a \in Actor, RequireCompensation(a) PROVE UploadIInv'
<1>1. local[a].pc = "compensate" /\ now \in Nat
  BY TypeSplit DEF UploadIInv, RequireCompensation
<1>2. /\ Working(a) /\ Return(a) \in Plain /\ "claimCompensation" \in Undoing \ {"complete"}
      /\ "claimCompensation" \in Pc \ {"observe", "reserve"}
  BY <1>1, Pcs, PlainPcs DEF Working, Undoing
<1>3. CASE LiveLease(Seen(a), now) /\ Seen(a).state \in Attempting
  <2> DEFINE may == MayRecordFailure(row, LeaseToken(a), now)
             after == AfterRecordFailure(row, TRUE, now, now)
  <2>1. Command(a, may, after, now, "claimCompensation", Return(a))
    BY <1>3 DEF RequireCompensation
  <2>2. ASSUME Applying(row, now), may
        PROVE  /\ RowOK(after) /\ RowMoves(row, after) /\ after.state \notin {"ready", "compensated"}
               /\ after.state \in Withdrawing
    <3>1. RowOK(after)
      BY <1>1, <2>2, RecordFailureOK
    <3>2. RowMoves(row, after)
      BY <1>1, <2>2, RecordFailureMoves DEF Applying
    <3>3. after.state = "compensation_required"
      BY <2>2 DEF Applying, AfterRecordFailure, AfterRequireCompensation, Advance, RowOK, Job
    <3> QED
      BY <3>1, <3>2, <3>3 DEF Withdrawing
  <2> QED
    BY <1>1, <1>2, <2>1, <2>2, CommandKeeps
<1>4. CASE ~(LiveLease(Seen(a), now) /\ Seen(a).state \in Attempting)
  <2> DEFINE may == MayRequireCompensation(row, now)
             after == AfterRequireCompensation(row, now, now)
  <2>1. Command(a, may, after, now, "claimCompensation", Return(a))
    BY <1>4 DEF RequireCompensation
  <2>2. ASSUME Applying(row, now), may
        PROVE  /\ RowOK(after) /\ RowMoves(row, after) /\ after.state \notin {"ready", "compensated"}
               /\ after.state \in Withdrawing
    <3>1. RowOK(after)
      BY <1>1, <2>2, RequireCompensationOK DEF MayRequireCompensation
    <3>2. RowMoves(row, after)
      BY <1>1, <2>2, RequireCompensationMoves DEF Applying
    <3>3. after.state = "compensation_required"
      BY <2>2 DEF Applying, AfterRequireCompensation, Advance, RowOK, Job
    <3> QED
      BY <3>1, <3>2, <3>3 DEF Withdrawing
  <2> QED
    BY <1>1, <1>2, <2>1, <2>2, CommandKeeps
<1> QED
  BY <1>3, <1>4

LEMMA ClaimCompensationKeeps == ASSUME UploadIInv, NEW a \in Actor, ClaimCompensation(a) PROVE UploadIInv'
<1> DEFINE may == MayClaimCompensation(row, now, now + JobLease)
           after == AfterClaimCompensation(row, CompensationLease(a), now)
<1>1. local[a].pc = "claimCompensation" /\ Command(a, may, after, now, "checkSafe", Return(a))
  BY DEF ClaimCompensation
<1>2. /\ Working(a) /\ Return(a) \in Plain /\ "checkSafe" \in Undoing \ {"complete"}
      /\ "checkSafe" \in Pc \ {"observe", "reserve"}
  BY <1>1, Pcs, PlainPcs DEF Working, Undoing
<1>3. now \in Nat /\ now + JobLease \in Nat /\ a \in Owner
  BY TypeSplit, UploadConstants DEF UploadIInv
<1>4. ASSUME Applying(row, now), may
      PROVE  /\ RowOK(after) /\ RowMoves(row, after) /\ after.state \notin {"ready", "compensated"}
             /\ after.state \in Withdrawing
  <2>1. /\ row.compensationAttempts \in 0..MaxCompensationAttempts
        /\ row.compensationAttempts < MaxCompensationAttempts /\ row \in Job
    BY <1>4, RowFields DEF Applying, MayClaimCompensation
  <2>2. <<"compensation", row.compensationAttempts + 1>> \in Token
    BY <2>1, UploadConstants, PolicyConstants
  <2>3. RowOK(after)
    BY <1>3, <1>4, <2>2, ClaimCompensationOK DEF CompensationLease
  <2>4. RowMoves(row, after)
    BY <1>3, <1>4, ClaimCompensationMoves DEF Applying
  <2>5. after.state = "compensating"
    BY <2>1 DEF AfterClaimCompensation, Advance, Job
  <2> QED
    BY <2>3, <2>4, <2>5 DEF Withdrawing
<1> QED
  BY <1>1, <1>2, <1>3, <1>4, CommandKeeps

LEMMA CompensationFailedKeeps == ASSUME UploadIInv, NEW a \in Actor, CompensationFailed(a) PROVE UploadIInv'
<1> DEFINE may == MayRecordCompensationFailure(row, LeaseToken(a), now)
           after == AfterRecordCompensationFailure(row, now + JobLease, now)
<1>1. local[a].pc = "compensationFailed" /\ Command(a, may, after, now, Return(a), Return(a))
  BY DEF CompensationFailed
<1>2. Working(a) /\ Return(a) \in Plain
  BY <1>1, Pcs, PlainPcs DEF Working
<1>3. now \in Nat /\ now + JobLease \in Nat
  BY TypeSplit, UploadConstants DEF UploadIInv
<1>4. ASSUME Applying(row, now), may
      PROVE  RowOK(after) /\ RowMoves(row, after) /\ after.state \notin {"ready", "compensated"}
  <2>1. RowOK(after)
    BY <1>3, <1>4, RecordCompensationFailureOK DEF MayRecordCompensationFailure
  <2>2. RowMoves(row, after)
    BY <1>3, <1>4, RecordCompensationFailureMoves DEF Applying, MayRecordCompensationFailure
  <2> QED
    BY <1>4, <2>1, <2>2 DEF Applying, AfterRecordCompensationFailure, Advance, RowOK, Job
<1> QED
  BY <1>1, <1>2, <1>3, <1>4, Goals, CommandKeeps

(* A row is only planned to be made ready when it is ready already: the    *)
(* registration that the plan asks for comes with the ready row.           *)
LEMMA RecoverReadyKeeps == ASSUME UploadIInv, NEW a \in Actor, RecoverReady(a) PROVE UploadIInv'
<1>1. /\ local[a].pc = "recoverReady"
      /\ Command(a, MayRecoverReady(row, local[a].at), AfterMarkReady(row, local[a].at), local[a].at,
                 "idle", "idle")
  BY DEF RecoverReady
<1>2. Working(a) /\ "idle" \in Plain
  BY <1>1, Pcs, PlainPcs DEF Working
<1>3. local[a].at \in Nat /\ InState({"ready"})
  BY <1>1, <1>2, SeenRow DEF LocalOK, Completing
<1>4. ~MayRecoverReady(row, local[a].at)
  BY <1>3 DEF MayRecoverReady, InState
<1> QED
  BY <1>1, <1>2, <1>3, <1>4, Goals, CommandKeeps

LEMMA RecoverRetryKeeps == ASSUME UploadIInv, NEW a \in Actor, RecoverRetry(a) PROVE UploadIInv'
<1>1. PICK at, onward :
        /\ at = local[a].at /\ onward \in {"claim", "dropInput"} /\ local[a].pc = "recoverRetry"
        /\ Command(a, MayRecoverRetry(row, at), AfterRecoverRetry(row, at, at), at, onward, "idle")
  BY DEF RecoverRetry
<1>2. Working(a) /\ onward \in Plain /\ "idle" \in Plain
  BY <1>1, Pcs, PlainPcs DEF Working
<1>3. at \in Nat
  BY <1>1, <1>2, SeenRow
<1>4. ASSUME Applying(row, at), MayRecoverRetry(row, at)
      PROVE  /\ RowOK(AfterRecoverRetry(row, at, at)) /\ RowMoves(row, AfterRecoverRetry(row, at, at))
             /\ AfterRecoverRetry(row, at, at).state \notin {"ready", "compensated"}
  <2>1. RowOK(AfterRecoverRetry(row, at, at))
    BY <1>3, <1>4, RecoverRetryOK DEF MayRecoverRetry
  <2>2. RowMoves(row, AfterRecoverRetry(row, at, at))
    BY <1>3, <1>4, RecoverRetryMoves DEF Applying
  <2> QED
    BY <1>4, <2>1, <2>2 DEF Applying, AfterRecoverRetry, GiveUp, RetryLater, Advance, RowOK, Job
<1> QED
  BY <1>1, <1>2, <1>3, <1>4, Goals, CommandKeeps

LEMMA MarkManualReviewKeeps == ASSUME UploadIInv, NEW a \in Actor, MarkManualReview(a) PROVE UploadIInv'
<1>1. PICK at :
        /\ at = local[a].at /\ local[a].pc = "manualReview"
        /\ Command(a, MayMarkManualReview(row, at), AfterMarkManualReview(row, at), at, "idle", "idle")
  BY DEF MarkManualReview
<1>2. Working(a) /\ "idle" \in Plain
  BY <1>1, Pcs, PlainPcs DEF Working
<1>3. at \in Nat
  BY <1>1, <1>2, SeenRow
<1>4. ASSUME Applying(row, at), MayMarkManualReview(row, at)
      PROVE  /\ RowOK(AfterMarkManualReview(row, at)) /\ RowMoves(row, AfterMarkManualReview(row, at))
             /\ AfterMarkManualReview(row, at).state \notin {"ready", "compensated"}
  <2>1. RowOK(AfterMarkManualReview(row, at))
    BY <1>3, <1>4, MarkManualReviewOK DEF MayMarkManualReview
  <2>2. RowMoves(row, AfterMarkManualReview(row, at))
    BY <1>3, <1>4, MarkManualReviewMoves DEF Applying
  <2> QED
    BY <1>4, <2>1, <2>2 DEF Applying, AfterMarkManualReview, Advance, RowOK, Job
<1> QED
  BY <1>1, <1>2, <1>3, <1>4, Goals, CommandKeeps

-----------------------------------------------------------------------------
(* Steps that leave the row alone *)

(* A ready row is not being undone, so its public file stays.              *)
LEMMA SameRow ==
  ASSUME UploadIInv, row # None, FilesStep, UNCHANGED <<row, upload>>
  PROVE  ReadyIntact' /\ RowStep
<1>1. ASSUME InState({"ready"}) PROVE ~InState(Withdrawing)
  BY <1>1 DEF InState, Withdrawing
<1> QED
  BY <1>1 DEF UploadIInv, ReadyIntact, InState, FilesStep, RowStep

LEMMA RemoveStep ==
  ASSUME TypeOK, NEW names \in SUBSET File, Remove(names), "final" \in names => InState(Withdrawing)
  PROVE  FilesStep
<1>1. /\ files \in [File -> Content] /\ DOMAIN files = File /\ worker \in Writer
      /\ "final" \in File /\ "temp" \in File /\ "input" \in File
      /\ "absent" \in Content /\ {"gone"} \subseteq Writer
  BY TypeSplit DEF File, Content, Writer
<1>2. files' = [f \in File |-> IF f \in names THEN "absent" ELSE files[f]]
  BY <1>1 DEF Remove
<1>3. worker' = (IF worker \in names THEN "gone" ELSE worker)
  BY DEF Remove
<1>4. files' \in [File -> Content]
  BY <1>1, <1>2
<1>5. files'["final"] = IF "final" \in names THEN "absent" ELSE files["final"]
  BY <1>1, <1>2
<1>6. NothingLeft => NothingLeft'
  BY <1>1, <1>2, <1>3 DEF NothingLeft
<1> QED
  BY <1>1, <1>3, <1>4, <1>5, <1>6 DEF FilesStep

(* The actor stops: what it saw no longer matters.                         *)
LEMMA EndKeeps ==
  ASSUME UploadIInv, RowStep, FilesStep, RestStep, ReadyIntact', NEW a \in Actor,
         NEW pc \in {"idle", "refused"}, NEW seen \in Job \union {None}, Go(a, pc, seen)
  PROVE  UploadIInv'
<1>1. pc \in Pc /\ pc \notin Running
  BY Pcs
<1>2. PICK l \in Local : local' = [local EXCEPT ![a] = l] /\ l.pc = pc /\ l.seen = None
  BY <1>1, GoLocal DEF UploadIInv
<1>3. LocalOK(l)'
  BY <1>1, <1>2 DEF LocalOK, Completing, Undoing
<1> QED
  BY <1>2, <1>3, StepKeeps

(* A working actor goes on with what it saw, or with the row as it is.     *)
LEMMA IdleRow ==
  ASSUME UploadIInv, NEW a \in Actor, Working(a), UNCHANGED <<row, upload>>, FilesStep
  PROVE  RowStep /\ ReadyIntact'
BY SeenRow, SameRow

LEMMA StayOn ==
  ASSUME UploadIInv, NEW a \in Actor, Working(a), UNCHANGED <<now, row, upload>>, FilesStep,
         queue' \in Entry, Fault \/ NoFault,
         NEW pc \in Pc \ {"observe", "reserve"}, Stay(a, pc), Fits(pc)'
  PROVE  UploadIInv'
<1>1. RestStep
  BY FaultTypes, TypeSplit DEF RestStep, UploadIInv
<1> QED
  BY <1>1, IdleRow, StayKeeps

LEMMA GoOn ==
  ASSUME UploadIInv, NEW a \in Actor, Working(a), UNCHANGED <<now, row, upload, queue>>, FilesStep,
         Fault \/ NoFault, NEW pc \in Pc \ {"observe", "reserve"}, Go(a, pc, row), Fits(pc)'
  PROVE  UploadIInv'
<1>1. RestStep
  BY FaultTypes, TypeSplit DEF RestStep, UploadIInv
<1>2. RowOK(row) /\ Before(row, row')
  BY SeenRow, BeforeSelf
<1>3. PICK r : r = row
  OBVIOUS
<1>4. RowOK(r) /\ Before(r, row') /\ Go(a, pc, r)
  BY <1>2, <1>3
<1> QED
  BY <1>1, <1>4, IdleRow, GoKeeps

LEMMA EnterOn ==
  ASSUME UploadIInv, NEW a \in Actor, Working(a), UNCHANGED <<now, row, upload, queue>>, FilesStep,
         Fault \/ NoFault, NEW pc \in Running \ {"observe", "reserve"}, NEW caller \in Caller,
         NEW seen, RowOK(seen), Before(seen, row), Enter(a, pc, seen, caller), Fits(pc)'
  PROVE  UploadIInv'
<1>1. RestStep
  BY FaultTypes, TypeSplit DEF RestStep, UploadIInv
<1>2. Before(seen, row')
  OBVIOUS
<1> QED
  BY <1>1, <1>2, IdleRow, EnterKeeps

LEMMA SameEntry == TypeOK => queue \in Entry /\ NoEntry \in Entry
BY TypeSplit, PolicyConstants DEF Entry, NoEntry

-----------------------------------------------------------------------------
(* The driver *)

LEMMA ReserveKeeps == ASSUME UploadIInv, Reserve PROVE UploadIInv'
<1>1. Web \in Actor /\ TypeOK /\ local[Web].pc = "reserve" /\ row = None /\ now \in Nat
  BY TypeSplit DEF UploadIInv, Reserved, Reserve, Actor
<1>2. RowOK(row') /\ row' # None /\ row' \in Job /\ row'.state = "requested"
  BY <1>1, CreatedOK, RowFields DEF Reserve, CreatedJob
<1>3. local[Web] \in Local /\ local[Web].seen \in Job \union {None}
  BY <1>1, TypeSplit, LocalFields
<1>4. PICK l \in Local : /\ local' = [local EXCEPT ![Web] = l] /\ l.pc \in {"enqueue", "readBack"}
                         /\ l.seen = None \/ l.seen = row'
                         /\ l.pc = "enqueue" => l.seen = row'
  <2>1. CASE Go(Web, "enqueue", CreatedJob(now))
    <3>1. "enqueue" \in Running /\ "enqueue" \in Pc
      BY Pcs
    <3>2. CreatedJob(now) \in Job \union {None} /\ row' = CreatedJob(now)
      BY <1>1, CreatedType DEF Reserve
    <3> QED
      BY <1>1, <2>1, <3>1, <3>2, GoLocal
  <2>2. CASE Stay(Web, "readBack")
    <3>1. "readBack" \in Running /\ "readBack" \in Pc
      BY Pcs
    <3>2. Seen(Web) = None /\ Seen(Web) \in Job \union {None}
      BY <1>1, <1>3 DEF UploadIInv, LocalOK, Before, Seen
    <3> QED
      BY <1>1, <2>2, <3>1, <3>2, GoLocal DEF Stay
  <2> QED
    BY <2>1, <2>2 DEF Reserve
<1>5. /\ local \in [Actor -> Local] /\ local' \in [Actor -> Local] /\ local'[Web] = l
      /\ \A b \in Actor : b # Web => local'[b] = local[b] /\ local[b].pc = "idle"
  BY <1>1, <1>4, TypeSplit DEF UploadIInv, Reserved, Actor
<1>6. upload = "none" /\ UNCHANGED <<now, upload, queue, worker>> /\ (Fault \/ NoFault)
  BY <1>1 DEF UploadIInv, ReadyIntact, InState, Reserve
<1>7. TypeOK'
  <2>1. files' \in [File -> Content]
    BY <1>1, TypeSplit DEF Reserve, Content, File
  <2>2. faults' \in 0..MaxFaults
    BY <1>1, <1>6, FaultTypes
  <2> QED
    BY <1>1, <1>2, <1>5, <1>6, <2>1, <2>2, TypeSplit DEF TypeOK, File, Content, Entry, Writer, Local, Pc
<1>8. ReadyIntact'
  BY <1>2, <1>6 DEF ReadyIntact, InState
<1>9. Reserved'
  BY <1>2, <1>4, <1>5 DEF Reserved
<1>10. RemovedForGood'
  <2>1. \A b \in Actor : local'[b].pc # "complete"
    BY <1>4, <1>5
  <2>2. ~InState({"compensated"})'
    BY <1>2 DEF InState
  <2> QED
    BY <2>1, <2>2 DEF RemovedForGood
<1>11. ASSUME NEW b \in Actor PROVE LocalOK(local[b])'
  <2>1. CASE b = Web
    <3>1. Before(row', row')
      BY <1>2, BeforeSelf
    <3> QED
      BY <1>2, <1>4, <1>5, <2>1, <3>1 DEF LocalOK, Completing, Undoing
  <2>2. CASE b # Web
    <3>1. local'[b] = local[b] /\ local[b].pc = "idle" /\ LocalOK(local[b])
      BY <1>5, <2>2 DEF UploadIInv
    <3>2. local[b].seen = None
      BY <1>1, <3>1 DEF LocalOK, Before
    <3> QED
      BY <3>1, <3>2, Pcs DEF LocalOK, Completing, Undoing
  <2> QED
    BY <2>1, <2>2
<1> QED
  BY <1>2, <1>7, <1>8, <1>9, <1>10, <1>11 DEF UploadIInv

LEMMA ReadBackKeeps == ASSUME UploadIInv, ReadBack PROVE UploadIInv'
<1>1. Web \in Actor /\ TypeOK /\ row # None /\ local[Web].pc = "readBack"
  BY DEF UploadIInv, Reserved, ReadBack, Actor
<1>2. RowOK(row) /\ RestStep /\ UNCHANGED <<row, upload>>
  BY <1>1, FaultTypes, TypeSplit DEF UploadIInv, RestStep, ReadBack
<1>3. CASE Go(Web, DriveFrom(Web, row), row) /\ UNCHANGED <<files, worker>>
  <2>1. PICK pc : pc = DriveFrom(Web, row)
    OBVIOUS
  <2>2. pc \in {"readyResult", "enqueue", "claim", "refused"} /\ (pc = "readyResult" => row.state = "ready")
    BY <2>1 DEF DriveFrom, End
  <2>3. pc \in Pc \ {"observe", "reserve"}
    BY <2>2, Pcs
  <2>4. FilesStep /\ RowStep /\ ReadyIntact'
    BY <1>1, <1>2, <1>3, SameFiles, SameRow
  <2>5. Fits(pc)'
    BY <1>1, <1>2, <2>2 DEF Fits, Completing, Undoing, InState
  <2>6. PICK r : r = row
    OBVIOUS
  <2>7. RowOK(r) /\ Before(r, row') /\ Go(Web, pc, r)
    BY <1>2, <1>3, <2>1, <2>6, BeforeSelf
  <2> QED
    BY <1>1, <1>2, <2>3, <2>4, <2>5, <2>7, GoKeeps
<1>4. CASE Stay(Web, "refused") /\ Remove({"input"})
  <2>1. FilesStep
    BY <1>1, <1>4, RemoveStep DEF File
  <2>2. RowStep /\ ReadyIntact'
    BY <1>1, <1>2, <2>1, SameRow
  <2>3. Seen(Web) \in Job \union {None} /\ Go(Web, "refused", Seen(Web))
    BY <1>1, <1>4, TypeSplit, LocalFields DEF Seen, Stay
  <2> QED
    BY <1>1, <1>2, <2>1, <2>2, <2>3, EndKeeps
<1> QED
  BY <1>3, <1>4 DEF ReadBack

LEMMA ReadyResultKeeps == ASSUME UploadIInv, NEW a \in Actor, ReadyResult(a) PROVE UploadIInv'
<1>1. PICK pc : pc \in {"answered", "refused"} /\ Stay(a, pc) /\ local[a].pc = "readyResult"
  BY DEF ReadyResult
<1>2. Working(a) /\ pc \in Pc \ {"observe", "reserve"}
  BY <1>1, Pcs DEF Working
<1>3. FilesStep /\ queue' \in Entry /\ NoFault /\ UNCHANGED <<now, row, upload>>
  BY SameFiles, SameEntry DEF ReadyResult, UploadIInv, NoFault
<1>4. InState({"ready"})
  BY <1>1, <1>2, SeenRow DEF LocalOK, Completing
<1>5. Fits(pc)'
  BY <1>1, <1>3, <1>4 DEF Fits, Completing, Undoing, InState
<1> QED
  BY <1>1, <1>2, <1>3, <1>5, StayOn

LEMMA SubmitKeeps == ASSUME UploadIInv, NEW a \in Actor, Submit(a) PROVE UploadIInv'
<1>1. local[a].pc = "submit" /\ UNCHANGED <<now, row, files, upload, worker>>
  BY DEF Submit
<1>2. Working(a)
  BY <1>1, Pcs DEF Working
<1>3. PICK mine : mine = [attempt |-> Seen(a).attempts, state |-> "waiting"]
  OBVIOUS
<1>4. mine \in Entry
  BY <1>2, <1>3, SeenRow, RowFields DEF Entry
<1>5. PICK pc : /\ pc \in {"await", "caught", "caughtAmbiguous"} /\ Stay(a, pc)
                /\ queue' \in {queue, mine, NoEntry} /\ (Fault \/ NoFault)
  BY <1>3 DEF Submit
<1>6. FilesStep /\ queue' \in Entry
  BY <1>1, <1>4, <1>5, SameFiles, SameEntry DEF UploadIInv
<1>7. pc \in Plain
  BY <1>5, PlainPcs
<1> QED
  BY <1>1, <1>2, <1>5, <1>6, <1>7, PlainFits, StayOn

LEMMA AwaitKeeps == ASSUME UploadIInv, NEW a \in Actor, Await(a) PROVE UploadIInv'
<1>1. local[a].pc = "await" /\ UNCHANGED <<now, row, files, upload, worker>>
  BY DEF Await
<1>2. Working(a)
  BY <1>1, Pcs DEF Working
<1>3. PICK pc : /\ pc \in {"recordOutput", "caught", "caughtAmbiguous"} /\ Stay(a, pc)
                /\ queue' \in {queue, NoEntry} /\ (Fault \/ NoFault)
  BY DEF Await
<1>4. FilesStep /\ queue' \in Entry
  BY <1>1, <1>3, SameFiles, SameEntry DEF UploadIInv
<1>5. pc \in Plain
  BY <1>3, PlainPcs
<1> QED
  BY <1>1, <1>2, <1>3, <1>4, <1>5, PlainFits, StayOn

LEMMA RenameKeeps == ASSUME UploadIInv, NEW a \in Actor, Rename(a) PROVE UploadIInv'
<1>1. local[a].pc = "rename" /\ UNCHANGED <<now, row, upload, queue>>
  BY DEF Rename
<1>2. Working(a) /\ TypeOK /\ queue' \in Entry
  BY <1>1, Pcs, SameEntry DEF Working, UploadIInv
<1>3. CASE Stay(a, "caught") /\ UNCHANGED <<files, worker>> /\ (Fault \/ NoFault)
  <2>1. FilesStep /\ "caught" \in Plain
    BY <1>2, <1>3, SameFiles, PlainPcs
  <2> QED
    BY <1>1, <1>2, <1>3, <2>1, PlainFits, StayOn
<1>4. CASE /\ files["temp"] # "absent" /\ NoFault
           /\ files' = [files EXCEPT !["final"] = files["temp"], !["temp"] = "absent"]
           /\ worker' = (IF worker = "temp" THEN "final" ELSE worker)
           /\ local' = [local EXCEPT ![a].pc = "publish", ![a].at = now]
  <2>1. files \in [File -> Content] /\ worker \in Writer /\ local[a] \in Local /\ now \in Nat
    BY <1>2, TypeSplit
  <2>2. files' \in [File -> Content] /\ worker' \in Writer /\ files'["final"] # "absent"
    BY <1>4, <2>1 DEF File, Content, Writer
  <2>3. FilesStep
    BY <1>4, <2>2 DEF FilesStep, NothingLeft
  <2>4. RestStep
    BY <1>1, <1>2, <1>4, FaultTypes, TypeSplit DEF RestStep
  <2>5. RowStep /\ ReadyIntact'
    BY <1>1, <1>2, <2>3, IdleRow
  <2>6. PICK l : l = [local[a] EXCEPT !.pc = "publish", !.at = now]
    OBVIOUS
  <2>7. l \in Local /\ l.pc = "publish" /\ l.seen = Seen(a) /\ "publish" \in Running
    BY <2>1, <2>6, Pcs DEF Local, Seen
  <2>8. local' = [local EXCEPT ![a] = l]
    BY <1>2, <1>4, <2>6, TypeSplit
  <2>9. RowOK(l.seen) /\ Before(l.seen, row') /\ l.seen # None
    BY <1>1, <1>2, <2>7, SeenRow, RowFields
  <2>10. LocalOK(l)'
    BY <2>2, <2>7, <2>9 DEF LocalOK, Completing, Undoing
  <2> QED
    BY <2>3, <2>4, <2>5, <2>7, <2>8, <2>10, StepKeeps
<1> QED
  BY <1>3, <1>4 DEF Rename

(* A row may only become ready in "publishing", where the driver's renamed *)
(* file is still there.                                                    *)
LEMMA PublishedRow ==
  ASSUME UploadIInv, NEW a \in Actor, local[a].pc = "publish", UNCHANGED <<now, files, queue, worker>>,
         MayPublish(a), row' = AfterMarkReady(row, local[a].at), upload' = "ready"
  PROVE  RowStep /\ FilesStep /\ ReadyIntact' /\ row'.state = "ready" /\ RowOK(row')
<1>1. Working(a)
  BY Pcs DEF Working
<1>2. RowOK(row) /\ row # None /\ local[a].at \in Nat /\ LocalOK(local[a])
  BY <1>1, SeenRow
<1>3. PICK at : at = local[a].at
  OBVIOUS
<1>4. Applying(row, at) /\ row.state = "publishing" /\ upload = "none"
  BY <1>2, <1>3 DEF MayPublish, Applying, Fresh, MayMarkReady
<1>5. RowOK(row') /\ RowMoves(row, row')
  BY <1>2, <1>3, <1>4, MarkReadyOK, MarkReadyMoves
<1>6. row'.state = "ready" /\ row' # None
  BY <1>2, <1>3, <1>4, <1>5, RowFields DEF AfterMarkReady, Advance, RowOK, Job
<1>7. files["final"] # "absent"
  BY <1>2, <1>4 DEF LocalOK, InState, Withdrawing
<1>8. FilesStep
  BY SameFiles DEF UploadIInv
<1> QED
  BY <1>2, <1>5, <1>6, <1>7, <1>8 DEF RowStep, ReadyIntact, InState

LEMMA PublishKeeps == ASSUME UploadIInv, NEW a \in Actor, Publish(a) PROVE UploadIInv'
<1>1. local[a].pc = "publish" /\ UNCHANGED <<now, files, queue, worker>>
  BY DEF Publish
<1>2. Working(a) /\ TypeOK /\ FilesStep /\ queue' \in Entry
  BY <1>1, Pcs, SameFiles, SameEntry DEF Working, UploadIInv
<1>3. "publishFailed" \in Plain /\ "publishFailed" \in Pc \ {"observe", "reserve"}
      /\ "finish" \in Pc \ {"observe", "reserve"} /\ "finish" \in Running
  BY PlainPcs, Goals, Pcs DEF Completing
<1>4. CASE /\ row.state = "ready" /\ upload # "none" /\ Go(a, "finish", row)
           /\ UNCHANGED <<row, upload>> /\ NoFault
  <2>1. row # None
    BY <1>2, SeenRow
  <2>2. Fits("finish")'
    BY <1>4, <2>1 DEF Fits, Completing, Undoing, InState
  <2> QED
    BY <1>1, <1>2, <1>3, <1>4, <2>2, GoOn
<1>5. CASE Stay(a, "publishFailed") /\ UNCHANGED <<row, upload>> /\ (Fault \/ NoFault)
  BY <1>1, <1>2, <1>3, <1>5, PlainFits, StayOn
<1>6. CASE /\ MayPublish(a) /\ row' = AfterMarkReady(row, local[a].at) /\ upload' = "ready"
           /\ (Fault \/ NoFault)
           /\ Go(a, "finish", row') \/ Stay(a, "publishFailed")
  <2>1. RowStep /\ ReadyIntact' /\ row'.state = "ready" /\ RowOK(row')
    BY <1>1, <1>6, PublishedRow
  <2>2. RestStep
    BY <1>1, <1>2, <1>6, FaultTypes, TypeSplit DEF RestStep
  <2>3. CASE Stay(a, "publishFailed")
    BY <1>2, <1>3, <2>1, <2>2, <2>3, PlainFits, StayKeeps
  <2>4. CASE Go(a, "finish", row')
    <3>1. Fits("finish")'
      BY <2>1, RowFields DEF Fits, Completing, Undoing, InState
    <3>2. Before(row', row')
      BY <2>1, BeforeSelf
    <3>3. PICK r : r = row'
      OBVIOUS
    <3>4. RowOK(r) /\ Before(r, row') /\ Go(a, "finish", r)
      BY <2>1, <2>4, <3>2, <3>3
    <3> QED
      BY <1>2, <1>3, <2>1, <2>2, <3>1, <3>4, GoKeeps
  <2> QED
    BY <1>6, <2>3, <2>4
<1> QED
  BY <1>4, <1>5, <1>6 DEF Publish

(* Undoing starts at the row as it is.                                     *)
LEMMA CompensateFits ==
  ASSUME NEW j, RowOK(j), Before(j, row')
  PROVE  /\ CompensateFrom(j) \in Running \ {"observe", "reserve"}
         /\ Fits(CompensateFrom(j))'
<1>1. PICK pc : pc = CompensateFrom(j)
  OBVIOUS
<1>2. /\ pc \in {"claimCompensation", "checkSafe", "compensate"}
      /\ pc # "compensate" => j.state \in Withdrawing
  BY <1>1 DEF CompensateFrom, Withdrawing
<1>3. pc # "compensate" => InState(Withdrawing)'
  BY <1>2 DEF Before, InState
<1> QED
  BY <1>1, <1>2, <1>3, Pcs DEF Fits, Completing, Undoing

LEMMA PublishFailedKeeps == ASSUME UploadIInv, NEW a \in Actor, PublishFailed(a) PROVE UploadIInv'
<1>1. local[a].pc = "publishFailed" /\ UNCHANGED <<now, row, files, upload, queue, worker>>
  BY DEF PublishFailed
<1>2. Working(a) /\ TypeOK /\ FilesStep /\ queue' \in Entry
  BY <1>1, Pcs, SameFiles, SameEntry DEF Working, UploadIInv
<1>3. row # None /\ RowOK(row) /\ Before(row, row) /\ row' = row
  BY <1>1, <1>2, SeenRow, BeforeSelf
<1>4. CASE Completed /\ Go(a, "finish", row) /\ NoFault
  <2>1. Fits("finish")' /\ "finish" \in Pc \ {"observe", "reserve"}
    BY <1>3, <1>4, Goals DEF Fits, Completing, Undoing, InState, Completed
  <2> QED
    BY <1>1, <1>2, <1>4, <2>1, GoOn
<1>5. CASE Enter(a, CompensateFrom(row), row, "publish") /\ NoFault
  <2>1. PICK j, pc : j = row /\ pc = CompensateFrom(j)
    OBVIOUS
  <2>2. RowOK(j) /\ Before(j, row) /\ Before(j, row') /\ Enter(a, pc, j, "publish")
    BY <1>3, <1>5, <2>1
  <2>3. pc \in Running \ {"observe", "reserve"} /\ Fits(pc)' /\ "publish" \in Caller
    BY <2>1, <2>2, CompensateFits, Pcs
  <2> QED
    BY <1>1, <1>2, <1>5, <2>2, <2>3, EnterOn
<1>6. CASE Stay(a, "caughtPublished") /\ Fault
  <2>1. "caughtPublished" \in Plain
    BY PlainPcs
  <2> QED
    BY <1>1, <1>2, <1>6, <2>1, Goals, PlainFits, StayOn
<1> QED
  BY <1>4, <1>5, <1>6 DEF PublishFailed

(* The upload is over for the actor, and it saw the row ready.             *)
LEMMA AnswerFits ==
  ASSUME UploadIInv, NEW a \in Actor, InState({"ready"}), row' = row
  PROVE  Answer(a) \in Pc \ {"observe", "reserve"} /\ Fits(Answer(a))'
BY Pcs DEF Answer, Fits, Completing, Undoing, InState

LEMMA FinishKeeps == ASSUME UploadIInv, NEW a \in Actor, Finish(a) PROVE UploadIInv'
<1>1. local[a].pc = "finish" /\ UNCHANGED <<now, row, upload, queue>>
  BY DEF Finish
<1>2. Working(a) /\ TypeOK /\ queue' \in Entry
  BY <1>1, Pcs, SameEntry DEF Working, UploadIInv
<1>3. CASE Remove({"input"}) /\ Stay(a, Answer(a)) /\ NoFault
  <2>1. FilesStep
    BY <1>2, <1>3, RemoveStep DEF File
  <2>2. InState({"ready"})
    BY <1>1, <1>2, SeenRow DEF LocalOK, Completing
  <2>3. Answer(a) \in Pc \ {"observe", "reserve"} /\ Fits(Answer(a))'
    BY <1>1, <2>2, AnswerFits
  <2> QED
    BY <1>1, <1>2, <1>3, <2>1, <2>3, StayOn
<1>4. CASE Stay(a, "caughtPublished") /\ UNCHANGED <<files, worker>> /\ Fault
  <2>1. "caughtPublished" \in Plain /\ FilesStep
    BY <1>2, <1>4, SameFiles, PlainPcs
  <2> QED
    BY <1>1, <1>2, <1>4, <2>1, Goals, PlainFits, StayOn
<1> QED
  BY <1>3, <1>4 DEF Finish

LEMMA CaughtKeeps == ASSUME UploadIInv, NEW a \in Actor, Caught(a) PROVE UploadIInv'
<1>1. /\ local[a].pc \in {"caught", "caughtAmbiguous", "caughtPublished"}
      /\ UNCHANGED <<now, row, upload, queue>>
  BY DEF Caught
<1>2. Working(a) /\ TypeOK /\ queue' \in Entry
  BY <1>1, Pcs, SameEntry DEF Working, UploadIInv
<1>3. row # None /\ RowOK(row) /\ Before(row, row) /\ row' = row
  BY <1>1, <1>2, SeenRow, BeforeSelf
<1>4. CASE Completed /\ Remove({"input"}) /\ Stay(a, Answer(a)) /\ NoFault
  <2>1. FilesStep
    BY <1>2, <1>4, RemoveStep DEF File
  <2>2. Answer(a) \in Pc \ {"observe", "reserve"} /\ Fits(Answer(a))'
    BY <1>3, <1>4, AnswerFits DEF Completed, InState
  <2> QED
    BY <1>1, <1>2, <1>4, <2>1, <2>2, StayOn
<1>5. CASE Enter(a, CompensateFrom(row), row, "catch") /\ UNCHANGED <<files, worker>> /\ NoFault
  <2>1. PICK j, pc : j = row /\ pc = CompensateFrom(j)
    OBVIOUS
  <2>2. RowOK(j) /\ Before(j, row) /\ Before(j, row') /\ Enter(a, pc, j, "catch")
    BY <1>3, <1>5, <2>1
  <2>3. pc \in Running \ {"observe", "reserve"} /\ Fits(pc)' /\ "catch" \in Caller
    BY <2>1, <2>2, CompensateFits, Pcs
  <2> QED
    BY <1>1, <1>2, <1>5, <2>2, <2>3, SameFiles, EnterOn
<1>6. CASE Go(a, "discard", row) /\ UNCHANGED <<files, worker>> /\ NoFault
  <2>1. "discard" \in Plain
    BY PlainPcs
  <2> QED
    BY <1>1, <1>2, <1>6, <2>1, Goals, PlainFits, SameFiles, GoOn
<1>7. CASE Stay(a, End(a)) /\ UNCHANGED <<files, worker>> /\ (Fault \/ NoFault)
  <2>1. End(a) \in Plain
    BY PlainPcs
  <2> QED
    BY <1>1, <1>2, <1>7, <2>1, Goals, PlainFits, SameFiles, StayOn
<1> QED
  BY <1>4, <1>5, <1>6, <1>7 DEF Caught

(* Private files may go at any time.                                       *)
LEMMA PrivateRemoval ==
  ASSUME UploadIInv, NEW a \in Actor, Working(a), UNCHANGED <<now, row, upload, queue>>,
         NEW names \in SUBSET {"temp", "input"}, Remove(names), Fault \/ NoFault,
         NEW pc \in Plain, Stay(a, pc)
  PROVE  UploadIInv'
<1>1. FilesStep
  BY RemoveStep DEF UploadIInv, File
<1>2. queue' \in Entry
  BY SameEntry DEF UploadIInv
<1> QED
  BY <1>1, <1>2, Goals, PlainFits, StayOn

LEMMA DiscardKeeps == ASSUME UploadIInv, NEW a \in Actor, Discard(a) PROVE UploadIInv'
<1>1. local[a].pc = "discard" /\ UNCHANGED <<now, row, upload, queue>>
  BY DEF Discard
<1>2. Working(a) /\ "giveUp" \in Plain /\ End(a) \in Plain
  BY <1>1, Pcs, PlainPcs DEF Working
<1>3. PICK names \in SUBSET {"temp", "input"}, pc \in Plain :
        Remove(names) /\ Stay(a, pc) /\ (Fault \/ NoFault)
  BY <1>2 DEF Discard
<1> QED
  BY <1>1, <1>2, <1>3, PrivateRemoval

-----------------------------------------------------------------------------
(* Compensation *)

LEMMA CheckSafeKeeps == ASSUME UploadIInv, NEW a \in Actor, CheckSafe(a) PROVE UploadIInv'
<1>1. local[a].pc = "checkSafe" /\ UNCHANGED <<now, row, files, upload, queue, worker>>
  BY DEF CheckSafe
<1>2. Working(a) /\ TypeOK /\ queue' \in Entry /\ FilesStep
  BY <1>1, Pcs, SameEntry, SameFiles DEF Working, UploadIInv
<1>3. PICK pc : /\ pc \in {"compensationFailed", "removeFiles"} \/ pc = End(a)
                /\ Stay(a, pc) /\ (Fault \/ NoFault)
  BY DEF CheckSafe
<1>4. InState(Withdrawing)
  BY <1>1, <1>2, SeenRow DEF LocalOK, Undoing
<1>5. CASE pc = End(a)
  <2>1. pc \in Plain
    BY <1>5, PlainPcs
  <2> QED
    BY <1>1, <1>2, <1>3, <2>1, Goals, PlainFits, StayOn
<1>6. CASE pc \in {"compensationFailed", "removeFiles"}
  <2>1. Fits(pc)'
    BY <1>1, <1>4, <1>6 DEF Fits, Completing, InState
  <2>2. pc \in Pc \ {"observe", "reserve"}
    BY <1>6, Goals DEF Undoing
  <2> QED
    BY <1>1, <1>2, <1>3, <2>1, <2>2, StayOn
<1> QED
  BY <1>3, <1>5, <1>6

LEMMA AllRemoved ==
  ASSUME TypeOK, Remove({"input", "temp", "final"})
  PROVE  NothingLeft'
<1>1. files \in [File -> Content] /\ DOMAIN files = File /\ worker \in Writer
  BY TypeSplit
<1> QED
  BY <1>1 DEF Remove, NothingLeft, File

LEMMA RemoveFilesKeeps == ASSUME UploadIInv, NEW a \in Actor, RemoveFiles(a) PROVE UploadIInv'
<1>1. local[a].pc = "removeFiles" /\ UNCHANGED <<now, row, upload, queue>>
  BY DEF RemoveFiles
<1>2. Working(a) /\ TypeOK /\ queue' \in Entry
  BY <1>1, Pcs, SameEntry DEF Working, UploadIInv
<1>3. InState(Withdrawing)
  BY <1>1, <1>2, SeenRow DEF LocalOK, Undoing
<1>4. CASE Remove({"input", "temp", "final"}) /\ Stay(a, "complete") /\ NoFault
  <2>1. FilesStep
    BY <1>2, <1>3, <1>4, RemoveStep DEF File
  <2>2. Fits("complete")'
    BY <1>1, <1>2, <1>3, <1>4, AllRemoved DEF Fits, Completing, InState
  <2>3. "complete" \in Pc \ {"observe", "reserve"}
    BY Goals DEF Undoing
  <2> QED
    BY <1>1, <1>2, <1>4, <2>1, <2>2, <2>3, StayOn
<1>5. CASE Fault /\ Stay(a, Return(a)) /\ \E some \in SUBSET {"input", "temp", "final"} : Remove(some)
  <2>1. FilesStep
    BY <1>2, <1>3, <1>5, RemoveStep DEF File
  <2>2. Return(a) \in Plain
    BY PlainPcs
  <2> QED
    BY <1>1, <1>2, <1>5, <2>1, <2>2, Goals, PlainFits, StayOn
<1> QED
  BY <1>4, <1>5 DEF RemoveFiles

(* The row is only marked compensated by who removed all files.            *)
LEMMA CompleteCompensationKeeps ==
  ASSUME UploadIInv, NEW a \in Actor, CompleteCompensation(a)
  PROVE  UploadIInv'
<1>1. /\ local[a].pc = "complete" /\ UNCHANGED <<now, files, queue, worker>>
      /\ Stay(a, Return(a)) /\ (Fault \/ NoFault)
  BY DEF CompleteCompensation
<1>2. Working(a) /\ TypeOK /\ queue' \in Entry /\ FilesStep
  BY <1>1, Pcs, SameEntry, SameFiles DEF Working, UploadIInv
<1>3. Return(a) \in Plain /\ Return(a) \in Pc \ {"observe", "reserve"}
  BY PlainPcs, Goals
<1>4. row # None /\ RowOK(row) /\ local[a].at \in Nat /\ now \in Nat
  BY <1>2, SeenRow, TypeSplit
<1>5. NothingLeft
  BY <1>1 DEF UploadIInv, RemovedForGood
<1>6. CASE UNCHANGED <<row, upload>>
  BY <1>1, <1>2, <1>3, <1>6, PlainFits, StayOn
<1>7. CASE ~UNCHANGED <<row, upload>>
  <2>1. PICK at : /\ at \in Nat /\ row' = AfterMarkCompensated(row, at) /\ upload' = "none"
                  /\ Applying(row, at) /\ row.state = "compensating"
    BY <1>4, <1>7 DEF CompleteCompensation, Fresh, Applying, MayRecoverCompensated, MayMarkCompensated
  <2>2. RowOK(row') /\ RowMoves(row, row')
    BY <1>4, <2>1, MarkCompensatedOK, MarkCompensatedMoves
  <2>3. row'.state = "compensated"
    BY <2>1 DEF AfterMarkCompensated, Advance, Applying, RowOK, Job
  <2>4. RowStep /\ ReadyIntact'
    BY <1>4, <1>5, <2>1, <2>2, <2>3 DEF RowStep, ReadyIntact, InState
  <2>5. RestStep
    BY <1>1, <1>2, <1>4, <2>1, FaultTypes DEF RestStep
  <2> QED
    BY <1>1, <1>2, <1>3, <2>4, <2>5, PlainFits, StayKeeps
<1> QED
  BY <1>6, <1>7

LEMMA CrashKeeps == ASSUME UploadIInv, NEW a \in Actor, Crash(a) PROVE UploadIInv'
<1>1. /\ local[a].pc \in Running \ {"reserve"} /\ Fault /\ Stay(a, End(a))
      /\ UNCHANGED <<now, row, files, upload, queue, worker>>
  BY DEF Crash
<1>2. TypeOK /\ FilesStep /\ RestStep
  BY <1>1, SameFiles, FaultTypes, TypeSplit DEF UploadIInv, RestStep
<1>3. row # None
  BY <1>1, Pcs DEF UploadIInv, Reserved, Actor
<1>4. RowStep /\ ReadyIntact'
  BY <1>1, <1>2, <1>3, SameRow
<1>5. Seen(a) \in Job \union {None} /\ End(a) \in {"idle", "refused"} /\ Go(a, End(a), Seen(a))
  BY <1>1, <1>2, TypeSplit, LocalFields DEF Seen, Stay, End
<1>6. PICK s, pc : s = Seen(a) /\ pc = End(a)
  OBVIOUS
<1>7. s \in Job \union {None} /\ pc \in {"idle", "refused"} /\ Go(a, pc, s)
  BY <1>5, <1>6
<1> QED
  BY <1>2, <1>4, <1>7, EndKeeps

-----------------------------------------------------------------------------
(* The drainer *)

LEMMA ListDueKeeps == ASSUME UploadIInv, NEW a \in Actor, ListDue(a) PROVE UploadIInv'
<1>1. /\ row # None /\ Listed(row, now)
      /\ local' = [local EXCEPT ![a] = [At("observe") EXCEPT !.seen = row, !.at = now]]
      /\ UNCHANGED <<now, row, files, upload, queue, worker, faults>>
  BY DEF ListDue
<1>2. TypeOK /\ FilesStep /\ RestStep /\ RowOK(row) /\ row \in Job /\ now \in Nat
  BY <1>1, SameFiles, TypeSplit, RowFields DEF UploadIInv, RestStep
<1>3. PICK l : l = [At("observe") EXCEPT !.seen = row, !.at = now]
  OBVIOUS
<1>4. l \in Local /\ l.pc = "observe" /\ l.seen = row /\ l.at = now
  BY <1>2, <1>3, Pcs DEF At, Local
<1>5. Before(row, row)
  BY <1>2, BeforeSelf
<1>6. LocalOK(l)'
  BY <1>1, <1>2, <1>4, <1>5 DEF LocalOK, Completing, Undoing
<1>7. RowStep /\ ReadyIntact'
  BY <1>1, <1>2, SameRow
<1> QED
  BY <1>1, <1>2, <1>3, <1>4, <1>6, <1>7, StepKeeps

(* What recovery decides about a row it lists is among the actions it      *)
(* knows; it completes only what it saw registered, and removes only what  *)
(* is being withdrawn.                                                     *)
LEMMA ListedPlan ==
  ASSUME NEW j, RowOK(j), NEW at, Listed(j, at), NEW ev,
         NEW plan, plan = PlanRestart(j, ev, at)
  PROVE  /\ plan \in {"enqueue", "claim_processing", "recover_ready", "manual_review",
                      "clean_private_then_recover_retry", "require_compensation",
                      "claim_compensation", "recover_compensated"}
         /\ plan = "recover_ready" => ev.registration = "present"
         /\ plan = "recover_compensated" => j.state = "compensating"
<1>1. CASE j.state = "requested"
  BY <1>1 DEF PlanRestart, Scheduled, Leased, Attempting
<1>2. CASE j.state \in Scheduled /\ Due(j, at)
  BY <1>2 DEF PlanRestart, Scheduled, Leased, Attempting
<1>3. CASE j.state \in Attempting /\ LapsedLease(j, at)
  <2>1. plan = PlanAttempt(j, ev)
    BY <1>3 DEF PlanRestart, LapsedLease, Scheduled, Leased, Attempting
  <2>2. plan \in {"recover_ready", "clean_private_then_recover_retry", "manual_review",
                  "require_compensation"}
    BY <2>1 DEF PlanAttempt
  <2>3. plan = "recover_ready" => Intact(ev)
    BY <2>1 DEF PlanAttempt
  <2> QED
    BY <2>2, <2>3 DEF Intact
<1>4. CASE j.state = "compensating" /\ LapsedLease(j, at)
  <2>1. plan = PlanCompensating(j, ev)
    BY <1>4 DEF PlanRestart, LapsedLease, Scheduled, Leased, Attempting
  <2>2. plan \in {"recover_compensated", "require_compensation", "manual_review"}
    BY <2>1 DEF PlanCompensating
  <2> QED
    BY <1>4, <2>2
<1> QED
  BY <1>1, <1>2, <1>3, <1>4 DEF Listed, Leased

(* A registration is only seen of a row that is ready by now.              *)
LEMMA RegistrationSeen ==
  ASSUME NEW ev \in {Observed} \union Obscured, ev.registration = "present", row # None
  PROVE  InState({"ready"})
<1>1. Observed.registration = Present(Attachable(row) /\ upload # "none")
  BY DEF Observed
<1>2. ev.registration \in {Observed.registration, "unknown"}
  <2>1. DOMAIN Observed = {"final", "private", "registration"}
    BY DEF Observed
  <2>2. ASSUME NEW f \in DOMAIN Observed, ev = [Observed EXCEPT ![f] = "unknown"]
        PROVE  ev.registration \in {Observed.registration, "unknown"}
    BY <2>1, <2>2 DEF Observed
  <2> QED
    BY <2>2 DEF Obscured
<1> QED
  BY <1>1, <1>2 DEF Present, Attachable, InState

LEMMA ObserveKeeps == ASSUME UploadIInv, NEW a \in Actor, Observe(a) PROVE UploadIInv'
<1>1. local[a].pc = "observe" /\ UNCHANGED <<now, row, files, upload, queue, worker>>
  BY DEF Observe
<1>2. Working(a) /\ TypeOK /\ FilesStep
  BY <1>1, Pcs, SameFiles DEF Working, UploadIInv
<1>3. PICK j, at : j = Seen(a) /\ at = local[a].at
  OBVIOUS
<1>4. PICK ev, plan :
        /\ ev \in {Observed} \union Obscured /\ plan = PlanRestart(j, ev, at) /\ (Fault \/ NoFault)
        /\ Enter(a, StepOf(plan, j), j, CallerOf(plan))
  BY <1>3 DEF Observe
<1>5. RowOK(j) /\ Before(j, row) /\ Before(j, row') /\ Listed(j, at) /\ row # None /\ row' = row
  BY <1>1, <1>2, <1>3, SeenRow DEF LocalOK, Seen
<1>6. /\ plan \in {"enqueue", "claim_processing", "recover_ready", "manual_review",
                   "clean_private_then_recover_retry", "require_compensation",
                   "claim_compensation", "recover_compensated"}
      /\ plan = "recover_ready" => ev.registration = "present"
      /\ plan = "recover_compensated" => j.state = "compensating"
  BY <1>4, <1>5, ListedPlan
<1>7. PICK pc, caller : pc = StepOf(plan, j) /\ caller = CallerOf(plan)
  OBVIOUS
<1>8. caller \in Caller
  BY <1>7, Pcs DEF CallerOf
<1>9. pc \in Running \ {"observe", "reserve"} /\ Fits(pc)'
  <2>1. CASE plan \in {"require_compensation", "claim_compensation"}
    <3>1. pc = CompensateFrom(j)
      BY <1>7, <2>1 DEF StepOf
    <3> QED
      BY <1>5, <3>1, CompensateFits
  <2>2. CASE plan = "recover_ready"
    <3>1. pc = "recoverReady" /\ InState({"ready"})'
      BY <1>4, <1>5, <1>6, <1>7, <2>2, RegistrationSeen DEF StepOf, InState
    <3> QED
      BY <3>1, Pcs DEF Fits, Undoing
  <2>3. CASE plan = "recover_compensated"
    <3>1. pc = "checkSafe" /\ InState(Withdrawing)'
      BY <1>5, <1>6, <1>7, <2>3 DEF StepOf, InState, Before, Withdrawing
    <3> QED
      BY <3>1, Pcs DEF Fits, Completing
  <2>4. CASE plan \in {"enqueue", "claim_processing", "manual_review",
                       "clean_private_then_recover_retry"}
    <3>1. pc \in {"enqueue", "claim", "cleanTemp", "manualReview"}
      BY <1>7, <2>4 DEF StepOf
    <3> QED
      BY <3>1, Pcs DEF Fits, Completing, Undoing
  <2> QED
    BY <1>6, <2>1, <2>2, <2>3, <2>4
<1>10. Enter(a, pc, j, caller)
  BY <1>4, <1>7
<1> QED
  BY <1>1, <1>2, <1>4, <1>5, <1>8, <1>9, <1>10, EnterOn

LEMMA CleanTempKeeps == ASSUME UploadIInv, NEW a \in Actor, CleanTemp(a) PROVE UploadIInv'
<1>1. local[a].pc = "cleanTemp" /\ UNCHANGED <<now, row, upload, queue>>
  BY DEF CleanTemp
<1>2. Working(a) /\ TypeOK /\ queue' \in Entry /\ "recoverRetry" \in Plain /\ "idle" \in Plain
  BY <1>1, Pcs, PlainPcs, SameEntry DEF Working, UploadIInv
<1>3. CASE Remove({"temp"}) /\ Stay(a, "recoverRetry") /\ NoFault
  BY <1>1, <1>2, <1>3, PrivateRemoval
<1>4. CASE Stay(a, "idle") /\ UNCHANGED <<files, worker>> /\ Fault
  BY <1>1, <1>2, <1>4, Goals, PlainFits, SameFiles, StayOn
<1> QED
  BY <1>3, <1>4 DEF CleanTemp

LEMMA DropInputKeeps == ASSUME UploadIInv, NEW a \in Actor, DropInput(a) PROVE UploadIInv'
<1>1. local[a].pc = "dropInput" /\ UNCHANGED <<now, row, upload, queue>>
  BY DEF DropInput
<1>2. Working(a) /\ TypeOK /\ queue' \in Entry /\ "idle" \in Plain
  BY <1>1, Pcs, PlainPcs, SameEntry DEF Working, UploadIInv
<1>3. CASE Remove({"input"}) /\ Stay(a, "idle") /\ NoFault
  BY <1>1, <1>2, <1>3, PrivateRemoval
<1>4. CASE Stay(a, "idle") /\ UNCHANGED <<files, worker>> /\ Fault
  BY <1>1, <1>2, <1>4, Goals, PlainFits, SameFiles, StayOn
<1> QED
  BY <1>3, <1>4 DEF DropInput

-----------------------------------------------------------------------------
(* The worker and the surroundings: no actor moves, and the row stays.     *)

LEMMA WorldKeeps ==
  ASSUME UploadIInv, FilesStep, RestStep, UNCHANGED <<row, local>>,
         upload' = upload \/ (upload # "none" /\ upload' # "none")
  PROVE  UploadIInv'
<1>1. TypeOK /\ local \in [Actor -> Local] /\ Web \in Actor
  BY TypeSplit DEF UploadIInv, Actor
<1>2. ReadyIntact'
  <2>1. InState({"ready"}) => ~InState(Withdrawing)
    BY DEF InState, Withdrawing
  <2> QED
    BY <2>1 DEF UploadIInv, ReadyIntact, InState, FilesStep
<1>3. CASE row # None
  BY <1>2, <1>3, QuietStepKeeps
<1>4. CASE row = None
  <2>1. TypeOK'
    BY <1>1, TypeSplit DEF FilesStep, RestStep, TypeOK, File, Content, Entry, Writer, Local, Pc
  <2>2. Reserved'
    BY DEF UploadIInv, Reserved
  <2>3. \A a \in Actor : local[a].pc \in {"reserve", "idle"} /\ local[a].seen = None
    BY <1>4 DEF UploadIInv, Reserved, Actor, LocalOK, Before
  <2>4. RemovedForGood'
    BY <1>4, <2>3 DEF RemovedForGood, InState
  <2>5. ASSUME NEW a \in Actor PROVE LocalOK(local[a])'
    BY <2>3, Pcs DEF LocalOK, Completing, Undoing
  <2> QED
    BY <1>2, <1>4, <2>1, <2>2, <2>4, <2>5 DEF UploadIInv
<1> QED
  BY <1>3, <1>4

LEMMA EntryState ==
  ASSUME TypeOK, NEW s \in {"waiting", "active", "completed", "failed"}
  PROVE  [queue EXCEPT !.state = s] \in Entry
BY TypeSplit DEF Entry

LEMMA WorkKeeps == ASSUME UploadIInv, Work PROVE UploadIInv'
<1>1. TypeOK /\ files \in [File -> Content] /\ worker \in Writer /\ UNCHANGED <<now, row, upload, local, faults>>
  BY TypeSplit DEF UploadIInv, Work, Take, Reject, Open, Finished
<1>2. CASE Take \/ Reject
  <2>1. worker' \in {"reading", "idle"} /\ files' = files /\ worker' \in Writer
    BY <1>2 DEF Take, Reject, Writer
  <2>2. queue' \in Entry
    BY <1>1, <1>2, EntryState DEF Take, Reject
  <2>3. FilesStep
    BY <1>1, <2>1 DEF FilesStep, NothingLeft
  <2> QED
    BY <1>1, <2>2, <2>3, WorldKeeps, TypeSplit DEF RestStep
<1>3. CASE Open
  <2>1. queue' \in Entry
    BY <1>1, <1>3, SameEntry DEF Open
  <2>2. FilesStep
    BY <1>1, <1>3 DEF Open, FilesStep, NothingLeft, File, Content, Writer
  <2> QED
    BY <1>1, <2>1, <2>2, WorldKeeps, TypeSplit DEF RestStep
<1>4. CASE Finished
  <2>1. queue' \in Entry
    BY <1>1, <1>4, EntryState DEF Finished
  <2>2. FilesStep
    BY <1>1, <1>4 DEF Finished, FilesStep, NothingLeft, File, Content, Writer
  <2> QED
    BY <1>1, <2>1, <2>2, WorldKeeps, TypeSplit DEF RestStep
<1> QED
  BY <1>2, <1>3, <1>4 DEF Work

LEMMA WorkerCrashKeeps == ASSUME UploadIInv, WorkerCrash PROVE UploadIInv'
<1>1. TypeOK /\ worker' = "idle" /\ UNCHANGED <<now, row, files, upload, local>> /\ Fault
  BY DEF UploadIInv, WorkerCrash
<1>2. queue' \in Entry
  BY <1>1, EntryState DEF WorkerCrash
<1>3. FilesStep
  BY <1>1, TypeSplit DEF FilesStep, NothingLeft, Writer
<1> QED
  BY <1>1, <1>2, <1>3, WorldKeeps, FaultTypes, TypeSplit DEF RestStep

LEMMA SurroundingsKeep == ASSUME UploadIInv, Attach \/ Tick PROVE UploadIInv'
<1>1. TypeOK /\ UNCHANGED <<row, files, queue, worker, local, faults>>
  BY DEF UploadIInv, Attach, Tick
<1>2. FilesStep
  BY <1>1, SameFiles
<1>3. CASE Attach
  BY <1>1, <1>2, <1>3, WorldKeeps, TypeSplit DEF RestStep, Attach
<1>4. CASE Tick
  BY <1>1, <1>2, <1>4, WorldKeeps, TypeSplit DEF RestStep, Tick
<1> QED
  BY <1>3, <1>4

-----------------------------------------------------------------------------
(* The invariant *)

LEMMA UploadStarts == ASSUME Init PROVE UploadIInv
<1>1. local = [a \in Actor |-> At(IF a = Web THEN "reserve" ELSE "idle")] /\ Web \notin Reconciler
  BY UploadConstants DEF Init
<1>2. \A a \in Actor : /\ local[a].pc = IF a = Web THEN "reserve" ELSE "idle"
                       /\ local[a].seen = None /\ local[a] \in Local
  BY <1>1, Pcs DEF At, Local
<1>3. TypeOK
  <2>1. local \in [Actor -> Local]
    BY <1>1, <1>2
  <2>2. files \in [File -> Content]
    BY DEF Init, File, Content
  <2>3. queue \in Entry
    BY PolicyConstants DEF Init, NoEntry, Entry
  <2> QED
    BY <2>1, <2>2, <2>3, UploadConstants, TypeSplit DEF Init, Writer
<1>4. ReadyIntact /\ RemovedForGood
  BY <1>2 DEF Init, ReadyIntact, RemovedForGood, InState
<1>5. Reserved
  BY <1>1, <1>2 DEF Init, Reserved, Actor
<1>6. \A a \in Actor : LocalOK(local[a])
  BY <1>2, Pcs DEF LocalOK, Completing, Undoing
<1> QED
  BY <1>3, <1>4, <1>5, <1>6 DEF UploadIInv, Init

LEMMA DriveKeeps == ASSUME UploadIInv, NEW a \in Actor, Drive(a) PROVE UploadIInv'
BY ReadyResultKeeps, EnqueueKeeps, ClaimProcessingKeeps, SubmitKeeps, AwaitKeeps,
   RecordOutputReadyKeeps, BeginPublicationKeeps, RenameKeeps, PublishKeeps, PublishFailedKeeps,
   FinishKeeps, CaughtKeeps, DiscardKeeps, GiveUpAttemptKeeps DEF Drive

LEMMA CompensateKeeps == ASSUME UploadIInv, NEW a \in Actor, Compensate(a) PROVE UploadIInv'
BY RequireCompensationKeeps, ClaimCompensationKeeps, CheckSafeKeeps, CompensationFailedKeeps,
   RemoveFilesKeeps, CompleteCompensationKeeps DEF Compensate

LEMMA RecoverKeeps == ASSUME UploadIInv, NEW a \in Actor, Recover(a) PROVE UploadIInv'
BY ListDueKeeps, ObserveKeeps, RecoverReadyKeeps, CleanTempKeeps, RecoverRetryKeeps, DropInputKeeps,
   MarkManualReviewKeeps DEF Recover

(* Every step of an upload keeps the inductive invariant: what an actor    *)
(* remembers of the row is never ahead of it, and files and registration   *)
(* follow the row (uploads/service.ts, uploads/recovery-drainer.ts).       *)
THEOREM UploadInductive == Spec => []UploadIInv
<1>1. Init => UploadIInv
  BY UploadStarts
<1>2. UploadIInv /\ [Next]_vars => UploadIInv'
  <2> SUFFICES ASSUME UploadIInv, [Next]_vars PROVE UploadIInv'
    OBVIOUS
  <2>1. CASE Reserve \/ ReadBack
    BY <2>1, ReserveKeeps, ReadBackKeeps
  <2>2. ASSUME NEW a \in Actor, Drive(a) \/ Compensate(a) \/ Crash(a) PROVE UploadIInv'
    BY <2>2, DriveKeeps, CompensateKeeps, CrashKeeps
  <2>3. ASSUME NEW a \in Reconciler, Recover(a) PROVE UploadIInv'
    BY <2>3, RecoverKeeps DEF Actor
  <2>4. CASE Work \/ WorkerCrash \/ Attach \/ Tick
    BY <2>4, WorkKeeps, WorkerCrashKeeps, SurroundingsKeep
  <2>5. CASE UNCHANGED vars
    <3>1. FilesStep /\ RestStep
      BY <2>5, SameFiles, TypeSplit DEF UploadIInv, vars, RestStep
    <3> QED
      BY <2>5, <3>1, WorldKeeps DEF vars
  <2> QED
    BY <2>1, <2>2, <2>3, <2>4, <2>5 DEF Next
<1> QED
  BY <1>1, <1>2, PTL DEF Spec

(* However late a driver, a compensator or a drainer acts, a ready row,    *)
(* its registration and its public file come and stay together             *)
(* (uploads/service.ts, mysql-store.ts publishImageJobReady).              *)
THEOREM UploadSafe == Spec => []UploadInv
<1>1. UploadIInv => UploadInv
  BY DEF UploadIInv, UploadInv
<1> QED
  BY <1>1, UploadInductive, PTL

(* A client that was told its upload succeeded has a ready row, and keeps  *)
(* it (uploads/service.ts, the answers of #driveImageJob and its catch).   *)
THEOREM AnswersKept == Spec => []AnswersHold
<1>1. UploadIInv => AnswersHold
  BY DEF UploadIInv, LocalOK, AnswersHold, Completing, Actor
<1> QED
  BY <1>1, UploadInductive, PTL

(* Nothing of a compensated image is left under any name, at rest or not:  *)
(* all three files are gone, and the worker has no file of it open that    *)
(* still has a name (uploads/service.ts #compensatePublishedJob).          *)
Erased == InState({"compensated"}) => NothingLeft

THEOREM CompensatedIsErased == Spec => [](Erased /\ CompensatedClean)
<1>1. UploadIInv => Erased /\ CompensatedClean
  BY DEF UploadIInv, RemovedForGood, NothingLeft, Erased, CompensatedClean
<1> QED
  BY <1>1, UploadInductive, PTL
------------------------------------------------------------------

-----------------------------------------------------------------------------
(* The ledger's promises hold of the upload *)

(* The row seen from the ledger: one job with the one request key.         *)
Ledger == INSTANCE ImageJobLedger WITH
  JobId <- {"job"}, RequestKey <- {0}, Time <- Nat,
  jobs <- [id \in {"job"} |-> row],
  requestKey <- [id \in {"job"} |-> IF row = None THEN None ELSE 0]

(* The policy is the same on both sides.                                   *)
LEMMA SameHelpers ==
  /\ Ledger!Attempting = Attempting
  /\ \A j, at, t : /\ Ledger!Advance(j, at) = Advance(j, at)
                   /\ Ledger!Due(j, at) <=> Due(j, at)
                   /\ Ledger!LiveLease(j, at) <=> LiveLease(j, at)
                   /\ Ledger!LapsedLease(j, at) <=> LapsedLease(j, at)
                   /\ Ledger!HoldsLease(j, t, at) <=> HoldsLease(j, t, at)
                   /\ Ledger!FutureOrNow(j, at) = FutureOrNow(j, at)
BY DEF Ledger!Attempting, Attempting, Ledger!Advance, Advance, Ledger!Due, Due, Ledger!LiveLease,
   LiveLease, Ledger!LapsedLease, LapsedLease, Ledger!HoldsLease, HoldsLease, Ledger!FutureOrNow,
   FutureOrNow

LEMMA SameGuards ==
  ASSUME NEW j, NEW at, NEW n, NEW t
  PROVE  /\ Ledger!MayEnqueue(j, n, at) <=> MayEnqueue(j, n, at)
         /\ Ledger!MayClaimProcessing(j, at, n) <=> MayClaimProcessing(j, at, n)
         /\ Ledger!MayRecordOutputReady(j, t, at) <=> MayRecordOutputReady(j, t, at)
         /\ Ledger!MayBeginPublication(j, t, at) <=> MayBeginPublication(j, t, at)
         /\ Ledger!MayMarkReady(j, t, at) <=> MayMarkReady(j, t, at)
         /\ Ledger!MayRecordFailure(j, t, at) <=> MayRecordFailure(j, t, at)
         /\ Ledger!MayRecoverReady(j, at) <=> MayRecoverReady(j, at)
         /\ Ledger!MayRecoverRetry(j, at) <=> MayRecoverRetry(j, at)
         /\ Ledger!MayRequireCompensation(j, at) <=> MayRequireCompensation(j, at)
         /\ Ledger!MayClaimCompensation(j, at, n) <=> MayClaimCompensation(j, at, n)
         /\ Ledger!MayMarkCompensated(j, t, at) <=> MayMarkCompensated(j, t, at)
         /\ Ledger!MayRecoverCompensated(j, at) <=> MayRecoverCompensated(j, at)
         /\ Ledger!MayRecordCompensationFailure(j, t, at) <=> MayRecordCompensationFailure(j, t, at)
         /\ Ledger!MayMarkManualReview(j, at) <=> MayMarkManualReview(j, at)
BY SameHelpers DEF Ledger!MayEnqueue, MayEnqueue,
   Ledger!MayClaimProcessing, MayClaimProcessing,
   Ledger!MayRecordOutputReady, MayRecordOutputReady,
   Ledger!MayBeginPublication, MayBeginPublication,
   Ledger!MayMarkReady, MayMarkReady,
   Ledger!MayRecordFailure, MayRecordFailure,
   Ledger!MayRecoverReady, MayRecoverReady,
   Ledger!MayRecoverRetry, MayRecoverRetry,
   Ledger!MayRequireCompensation, MayRequireCompensation,
   Ledger!MayClaimCompensation, MayClaimCompensation,
   Ledger!MayMarkCompensated, MayMarkCompensated,
   Ledger!MayRecoverCompensated, MayRecoverCompensated,
   Ledger!MayRecordCompensationFailure, MayRecordCompensationFailure,
   Ledger!MayMarkManualReview, MayMarkManualReview

LEMMA SameRows ==
  ASSUME NEW j, NEW at, NEW n, NEW t, NEW l
  PROVE  /\ Ledger!CreatedJob(at) = CreatedJob(at)
         /\ Ledger!LeaseFor(n, t, at, l) = LeaseFor(n, t, at, l)
         /\ Ledger!AfterEnqueue(j, n, at) = AfterEnqueue(j, n, at)
         /\ Ledger!AfterClaimProcessing(j, l, at) = AfterClaimProcessing(j, l, at)
         /\ Ledger!AfterRecordOutputReady(j, at) = AfterRecordOutputReady(j, at)
         /\ Ledger!AfterBeginPublication(j, at) = AfterBeginPublication(j, at)
         /\ Ledger!AfterMarkReady(j, at) = AfterMarkReady(j, at)
         /\ Ledger!AfterRequireCompensation(j, n, at) = AfterRequireCompensation(j, n, at)
         /\ Ledger!AfterClaimCompensation(j, l, at) = AfterClaimCompensation(j, l, at)
         /\ Ledger!AfterMarkCompensated(j, at) = AfterMarkCompensated(j, at)
         /\ Ledger!AfterRecordCompensationFailure(j, n, at) = AfterRecordCompensationFailure(j, n, at)
         /\ Ledger!AfterMarkManualReview(j, at) = AfterMarkManualReview(j, at)
         /\ Ledger!RetryLater(j, n, at) = RetryLater(j, n, at)
         /\ Ledger!GiveUp(j, at) = GiveUp(j, at)
BY SameHelpers DEF Ledger!CreatedJob, CreatedJob,
   Ledger!LeaseFor, LeaseFor,
   Ledger!AfterEnqueue, AfterEnqueue,
   Ledger!AfterClaimProcessing, AfterClaimProcessing,
   Ledger!AfterRecordOutputReady, AfterRecordOutputReady,
   Ledger!AfterBeginPublication, AfterBeginPublication,
   Ledger!AfterMarkReady, AfterMarkReady,
   Ledger!AfterRequireCompensation, AfterRequireCompensation,
   Ledger!AfterClaimCompensation, AfterClaimCompensation,
   Ledger!AfterMarkCompensated, AfterMarkCompensated,
   Ledger!AfterRecordCompensationFailure, AfterRecordCompensationFailure,
   Ledger!AfterMarkManualReview, AfterMarkManualReview,
   Ledger!RetryLater, RetryLater,
   Ledger!GiveUp, GiveUp

LEMMA SameFailures ==
  ASSUME NEW j, NEW at, NEW n, NEW b
  PROVE  /\ Ledger!AfterRecordFailure(j, b, n, at) = AfterRecordFailure(j, b, n, at)
         /\ Ledger!AfterRecoverRetry(j, n, at) = AfterRecoverRetry(j, n, at)
BY SameRows DEF Ledger!AfterRecordFailure, AfterRecordFailure, Ledger!AfterRecoverRetry, AfterRecoverRetry

LedgerMove == Ledger!Next \/ row' = row

LEMMA Transits ==
  ASSUME NEW at, Applying(row, at), NEW after, row' = after, after \in Job, NEW may, may
  PROVE  Ledger!Transition("job", may, after, at)
<1>1. row # None /\ after # None /\ Fresh(row, row.version, at)
  BY RowFields, NoneIsNull DEF Applying
<1> QED
  BY <1>1 DEF Ledger!Transition, Ledger!Fresh, Fresh

LEMMA Commanded ==
  ASSUME NEW at \in Nat, Ledger!Command("job", at)
  PROVE  LedgerMove
BY DEF LedgerMove, Ledger!Next

(* One lemma per command of the upload service.                            *)

LEMMA EnqueueRefines ==
  ASSUME NEW at, Applying(row, at), NEW n \in Nat,
         MayEnqueue(row, n, at), row' = AfterEnqueue(row, n, at)
  PROVE  LedgerMove
<1>1. row \in Job /\ at \in Nat
  BY DEF Applying, RowOK
<1>2. row' \in Job
  BY <1>1, EnqueueType
<1>3. Ledger!Transition("job", Ledger!MayEnqueue(row, n, at), Ledger!AfterEnqueue(row, n, at), at)
  BY SameGuards, SameRows, Transits, <1>2
<1> QED
  BY <1>1, <1>3, Commanded DEF Ledger!Command, Ledger!Enqueue

LEMMA ClaimProcessingRefines ==
  ASSUME NEW at, Applying(row, at), NEW o \in Owner, NEW t \in Token, NEW n \in Nat,
         MayClaimProcessing(row, at, n), row' = AfterClaimProcessing(row, LeaseFor(o, t, at, n), at)
  PROVE  LedgerMove
<1>1. row \in Job /\ at \in Nat
  BY DEF Applying, RowOK
<1>2. row' \in Job
  BY <1>1, ClaimProcessingType, LeaseType
<1>3. Ledger!Transition("job", Ledger!MayClaimProcessing(row, at, n),
                       Ledger!AfterClaimProcessing(row, Ledger!LeaseFor(o, t, at, n), at), at)
  BY SameGuards, SameRows, Transits, <1>2
<1> QED
  BY <1>1, <1>3, Commanded DEF Ledger!Command, Ledger!ClaimProcessing

LEMMA RecordOutputReadyRefines ==
  ASSUME NEW at, Applying(row, at), NEW t \in Token,
         MayRecordOutputReady(row, t, at), row' = AfterRecordOutputReady(row, at)
  PROVE  LedgerMove
<1>1. row \in Job /\ at \in Nat
  BY DEF Applying, RowOK
<1>2. row' \in Job
  BY <1>1, RecordOutputReadyType
<1>3. Ledger!Transition("job", Ledger!MayRecordOutputReady(row, t, at),
                       Ledger!AfterRecordOutputReady(row, at), at)
  BY SameGuards, SameRows, Transits, <1>2
<1> QED
  BY <1>1, <1>3, Commanded DEF Ledger!Command, Ledger!RecordOutputReady

LEMMA BeginPublicationRefines ==
  ASSUME NEW at, Applying(row, at), NEW t \in Token,
         MayBeginPublication(row, t, at), row' = AfterBeginPublication(row, at)
  PROVE  LedgerMove
<1>1. row \in Job /\ at \in Nat
  BY DEF Applying, RowOK
<1>2. row' \in Job
  BY <1>1, BeginPublicationType
<1>3. Ledger!Transition("job", Ledger!MayBeginPublication(row, t, at),
                       Ledger!AfterBeginPublication(row, at), at)
  BY SameGuards, SameRows, Transits, <1>2
<1> QED
  BY <1>1, <1>3, Commanded DEF Ledger!Command, Ledger!BeginPublication

LEMMA MarkReadyRefines ==
  ASSUME NEW at, Applying(row, at), NEW t \in Token,
         MayMarkReady(row, t, at), row' = AfterMarkReady(row, at)
  PROVE  LedgerMove
<1>1. row \in Job /\ at \in Nat
  BY DEF Applying, RowOK
<1>2. row' \in Job
  BY <1>1, MarkReadyType
<1>3. Ledger!Transition("job", Ledger!MayMarkReady(row, t, at), Ledger!AfterMarkReady(row, at), at)
  BY SameGuards, SameRows, Transits, <1>2
<1> QED
  BY <1>1, <1>3, Commanded DEF Ledger!Command, Ledger!MarkReady

LEMMA RecordFailureRefines ==
  ASSUME NEW at, Applying(row, at), NEW t \in Token, NEW b \in BOOLEAN, NEW n \in Nat \union {None},
         MayRecordFailure(row, t, at), row' = AfterRecordFailure(row, b, n, at)
  PROVE  LedgerMove
<1>1. row \in Job /\ at \in Nat
  BY DEF Applying, RowOK
<1>2. row' \in Job
  BY <1>1, RecordFailureOK DEF RowOK
<1>3. Ledger!Transition("job", Ledger!MayRecordFailure(row, t, at),
                       Ledger!AfterRecordFailure(row, b, n, at), at)
  BY SameGuards, SameFailures, SameRows, Transits, <1>2
<1> QED
  BY <1>1, <1>3, Commanded DEF Ledger!Command, Ledger!RecordFailure

LEMMA RecoverReadyRefines ==
  ASSUME NEW at, Applying(row, at),
         MayRecoverReady(row, at), row' = AfterMarkReady(row, at)
  PROVE  LedgerMove
<1>1. row \in Job /\ at \in Nat
  BY DEF Applying, RowOK
<1>2. row' \in Job
  BY <1>1, MarkReadyType
<1>3. Ledger!Transition("job", Ledger!MayRecoverReady(row, at), Ledger!AfterMarkReady(row, at), at)
  BY SameGuards, SameRows, Transits, <1>2
<1> QED
  BY <1>1, <1>3, Commanded DEF Ledger!Command, Ledger!RecoverReady

LEMMA RecoverRetryRefines ==
  ASSUME NEW at, Applying(row, at), NEW n \in Nat,
         MayRecoverRetry(row, at), row' = AfterRecoverRetry(row, n, at)
  PROVE  LedgerMove
<1>1. row \in Job /\ at \in Nat
  BY DEF Applying, RowOK
<1>2. row' \in Job
  BY <1>1, RecoverRetryOK DEF RowOK, MayRecoverRetry
<1>3. Ledger!Transition("job", Ledger!MayRecoverRetry(row, at), Ledger!AfterRecoverRetry(row, n, at), at)
  BY SameGuards, SameFailures, SameRows, Transits, <1>2
<1> QED
  BY <1>1, <1>3, Commanded DEF Ledger!Command, Ledger!RecoverRetry

LEMMA RequireCompensationRefines ==
  ASSUME NEW at, Applying(row, at), NEW n \in Nat,
         MayRequireCompensation(row, at), row' = AfterRequireCompensation(row, n, at)
  PROVE  LedgerMove
<1>1. row \in Job /\ at \in Nat
  BY DEF Applying, RowOK
<1>2. row' \in Job
  BY <1>1, RequireCompensationType
<1>3. Ledger!Transition("job", Ledger!MayRequireCompensation(row, at),
                       Ledger!AfterRequireCompensation(row, n, at), at)
  BY SameGuards, SameRows, Transits, <1>2
<1> QED
  BY <1>1, <1>3, Commanded DEF Ledger!Command, Ledger!RequireCompensation

LEMMA ClaimCompensationRefines ==
  ASSUME NEW at, Applying(row, at), NEW o \in Owner, NEW t \in Token, NEW n \in Nat,
         MayClaimCompensation(row, at, n), row' = AfterClaimCompensation(row, LeaseFor(o, t, at, n), at)
  PROVE  LedgerMove
<1>1. row \in Job /\ at \in Nat
  BY DEF Applying, RowOK
<1>2. row' \in Job
  BY <1>1, ClaimCompensationType, LeaseType
<1>3. Ledger!Transition("job", Ledger!MayClaimCompensation(row, at, n),
                       Ledger!AfterClaimCompensation(row, Ledger!LeaseFor(o, t, at, n), at), at)
  BY SameGuards, SameRows, Transits, <1>2
<1> QED
  BY <1>1, <1>3, Commanded DEF Ledger!Command, Ledger!ClaimCompensation

LEMMA MarkCompensatedRefines ==
  ASSUME NEW at, Applying(row, at), NEW t \in Token,
         MayMarkCompensated(row, t, at), row' = AfterMarkCompensated(row, at)
  PROVE  LedgerMove
<1>1. row \in Job /\ at \in Nat
  BY DEF Applying, RowOK
<1>2. row' \in Job
  BY <1>1, MarkCompensatedType
<1>3. Ledger!Transition("job", Ledger!MayMarkCompensated(row, t, at),
                       Ledger!AfterMarkCompensated(row, at), at)
  BY SameGuards, SameRows, Transits, <1>2
<1> QED
  BY <1>1, <1>3, Commanded DEF Ledger!Command, Ledger!MarkCompensated

LEMMA RecoverCompensatedRefines ==
  ASSUME NEW at, Applying(row, at),
         MayRecoverCompensated(row, at), row' = AfterMarkCompensated(row, at)
  PROVE  LedgerMove
<1>1. row \in Job /\ at \in Nat
  BY DEF Applying, RowOK
<1>2. row' \in Job
  BY <1>1, MarkCompensatedType
<1>3. Ledger!Transition("job", Ledger!MayRecoverCompensated(row, at),
                       Ledger!AfterMarkCompensated(row, at), at)
  BY SameGuards, SameRows, Transits, <1>2
<1> QED
  BY <1>1, <1>3, Commanded DEF Ledger!Command, Ledger!RecoverCompensated

LEMMA RecordCompensationFailureRefines ==
  ASSUME NEW at, Applying(row, at), NEW t \in Token, NEW n \in Nat,
         MayRecordCompensationFailure(row, t, at), row' = AfterRecordCompensationFailure(row, n, at)
  PROVE  LedgerMove
<1>1. row \in Job /\ at \in Nat
  BY DEF Applying, RowOK
<1>2. row' \in Job
  BY <1>1, RecordCompensationFailureType
<1>3. Ledger!Transition("job", Ledger!MayRecordCompensationFailure(row, t, at),
                       Ledger!AfterRecordCompensationFailure(row, n, at), at)
  BY SameGuards, SameRows, Transits, <1>2
<1> QED
  BY <1>1, <1>3, Commanded DEF Ledger!Command, Ledger!RecordCompensationFailure

LEMMA MarkManualReviewRefines ==
  ASSUME NEW at, Applying(row, at),
         MayMarkManualReview(row, at), row' = AfterMarkManualReview(row, at)
  PROVE  LedgerMove
<1>1. row \in Job /\ at \in Nat
  BY DEF Applying, RowOK
<1>2. row' \in Job
  BY <1>1, MarkManualReviewType
<1>3. Ledger!Transition("job", Ledger!MayMarkManualReview(row, at), Ledger!AfterMarkManualReview(row, at), at)
  BY SameGuards, SameRows, Transits, <1>2
<1> QED
  BY <1>1, <1>3, Commanded DEF Ledger!Command, Ledger!MarkManualReview

-----------------------------------------------------------------------------
(* Every step of the upload is a step of the ledger *)

LEMMA HeldToken ==
  ASSUME NEW at, Applying(row, at), NEW t, HoldsLease(row, t, at)
  PROVE  t \in Token
BY RowFields DEF Applying, HoldsLease, Lease

LEMMA CommandWrites ==
  ASSUME UploadIInv, NEW a \in Actor, Working(a), NEW may, NEW after, NEW at \in Nat,
         NEW onward, NEW onError, Command(a, may, after, at, onward, onError)
  PROVE  row' = row \/ (may /\ row' = after /\ Applying(row, at))
BY SeenRow DEF Command, Applying, Fresh

LEMMA Clocks ==
  ASSUME UploadIInv, NEW a \in Actor
  PROVE  now \in Nat /\ now + JobLease \in Nat /\ local[a].at \in Nat /\ a \in Owner
BY TypeSplit, LocalFields, UploadConstants DEF UploadIInv

LEMMA DriveRefines == ASSUME UploadIInv, NEW a \in Actor, Drive(a) PROVE LedgerMove
<1>1. CASE Enqueue(a)
  <2>1. PICK at : /\ at \in Nat /\ local[a].pc = "enqueue"
                  /\ Command(a, MayEnqueue(row, at, at), AfterEnqueue(row, at, at), at, "claim", End(a))
    BY <1>1, Clocks DEF Enqueue
  <2>2. Working(a)
    BY <2>1, Pcs DEF Working
  <2>3. row' = row \/ (MayEnqueue(row, at, at) /\ row' = AfterEnqueue(row, at, at) /\ Applying(row, at))
    BY <2>1, <2>2, CommandWrites
  <2> QED
    BY <2>1, <2>3, EnqueueRefines DEF LedgerMove
<1>2. CASE ClaimProcessing(a)
  <2>1. Working(a)
    BY <1>2, Pcs DEF Working, ClaimProcessing
  <2>2. \/ row' = row
        \/ /\ MayClaimProcessing(row, now, now + JobLease) /\ Applying(row, now)
           /\ row' = AfterClaimProcessing(row, ProcessingLease(a), now)
    BY <1>2, <2>1, Clocks, CommandWrites DEF ClaimProcessing
  <2>3. ASSUME MayClaimProcessing(row, now, now + JobLease), Applying(row, now)
        PROVE  <<"processing", row.attempts + 1>> \in Token
    BY <2>3, RowFields, UploadConstants, PolicyConstants DEF Applying, MayClaimProcessing
  <2> QED
    BY <2>2, <2>3, Clocks, ClaimProcessingRefines DEF LedgerMove, ProcessingLease
<1>3. CASE RecordOutputReady(a)
  <2>1. Working(a)
    BY <1>3, Pcs DEF Working, RecordOutputReady
  <2>2. \/ row' = row
        \/ /\ MayRecordOutputReady(row, LeaseToken(a), now) /\ Applying(row, now)
           /\ row' = AfterRecordOutputReady(row, now)
    BY <1>3, <2>1, Clocks, CommandWrites DEF RecordOutputReady
  <2> QED
    BY <2>2, HeldToken, RecordOutputReadyRefines DEF LedgerMove, MayRecordOutputReady
<1>4. CASE BeginPublication(a)
  <2>1. Working(a)
    BY <1>4, Pcs DEF Working, BeginPublication
  <2>2. \/ row' = row
        \/ /\ MayBeginPublication(row, LeaseToken(a), now) /\ Applying(row, now)
           /\ row' = AfterBeginPublication(row, now)
    BY <1>4, <2>1, Clocks, CommandWrites DEF BeginPublication
  <2> QED
    BY <2>2, HeldToken, BeginPublicationRefines DEF LedgerMove, MayBeginPublication
<1>5. CASE Publish(a)
  <2>1. Working(a)
    BY <1>5, Pcs DEF Working, Publish
  <2>2. PICK at : at = local[a].at
    OBVIOUS
  <2>3. row' = row \/ (MayPublish(a) /\ row' = AfterMarkReady(row, at))
    BY <1>5, <2>2 DEF Publish
  <2>4. MayPublish(a) => MayMarkReady(row, LeaseToken(a), at) /\ Applying(row, at)
    BY <2>1, <2>2, SeenRow DEF MayPublish, Applying, Fresh
  <2> QED
    BY <2>3, <2>4, HeldToken, MarkReadyRefines DEF LedgerMove, MayMarkReady
<1>6. CASE GiveUpAttempt(a)
  <2>1. Working(a)
    BY <1>6, Pcs DEF Working, GiveUpAttempt
  <2>2. \/ row' = row
        \/ /\ MayRecordFailure(row, LeaseToken(a), now) /\ Applying(row, now)
           /\ row' = AfterRecordFailure(row, FALSE, None, now)
    BY <1>6, <2>1, Clocks, CommandWrites DEF GiveUpAttempt
  <2> QED
    BY <2>2, HeldToken, RecordFailureRefines DEF LedgerMove, MayRecordFailure
<1>7. CASE ~(\/ Enqueue(a) \/ ClaimProcessing(a) \/ RecordOutputReady(a)
             \/ BeginPublication(a) \/ Publish(a) \/ GiveUpAttempt(a))
  BY <1>7 DEF LedgerMove, Drive, ReadyResult, Submit, Await, Rename, PublishFailed, Finish, Caught, Discard
<1> QED
  BY <1>1, <1>2, <1>3, <1>4, <1>5, <1>6, <1>7

LEMMA CompensateRefines == ASSUME UploadIInv, NEW a \in Actor, Compensate(a) PROVE LedgerMove
<1>1. CASE RequireCompensation(a)
  <2>1. Working(a)
    BY <1>1, Pcs DEF Working, RequireCompensation
  <2>2. CASE LiveLease(Seen(a), now) /\ Seen(a).state \in Attempting
    <3>1. Command(a, MayRecordFailure(row, LeaseToken(a), now), AfterRecordFailure(row, TRUE, now, now),
                  now, "claimCompensation", Return(a))
      BY <1>1, <2>2 DEF RequireCompensation
    <3>2. \/ row' = row
          \/ /\ MayRecordFailure(row, LeaseToken(a), now) /\ Applying(row, now)
             /\ row' = AfterRecordFailure(row, TRUE, now, now)
      BY <2>1, <3>1, Clocks, CommandWrites
    <3> QED
      BY <3>2, Clocks, HeldToken, RecordFailureRefines DEF LedgerMove, MayRecordFailure
  <2>3. CASE ~(LiveLease(Seen(a), now) /\ Seen(a).state \in Attempting)
    <3>1. Command(a, MayRequireCompensation(row, now), AfterRequireCompensation(row, now, now),
                  now, "claimCompensation", Return(a))
      BY <1>1, <2>3 DEF RequireCompensation
    <3>2. \/ row' = row
          \/ /\ MayRequireCompensation(row, now) /\ Applying(row, now)
             /\ row' = AfterRequireCompensation(row, now, now)
      BY <2>1, <3>1, Clocks, CommandWrites
    <3> QED
      BY <3>2, Clocks, RequireCompensationRefines DEF LedgerMove
  <2> QED
    BY <2>2, <2>3
<1>2. CASE ClaimCompensation(a)
  <2>1. Working(a)
    BY <1>2, Pcs DEF Working, ClaimCompensation
  <2>2. \/ row' = row
        \/ /\ MayClaimCompensation(row, now, now + JobLease) /\ Applying(row, now)
           /\ row' = AfterClaimCompensation(row, CompensationLease(a), now)
    BY <1>2, <2>1, Clocks, CommandWrites DEF ClaimCompensation
  <2>3. ASSUME MayClaimCompensation(row, now, now + JobLease), Applying(row, now)
        PROVE  <<"compensation", row.compensationAttempts + 1>> \in Token
    BY <2>3, RowFields, UploadConstants, PolicyConstants DEF Applying, MayClaimCompensation
  <2> QED
    BY <2>2, <2>3, Clocks, ClaimCompensationRefines DEF LedgerMove, CompensationLease
<1>3. CASE CompensationFailed(a)
  <2>1. Working(a)
    BY <1>3, Pcs DEF Working, CompensationFailed
  <2>2. \/ row' = row
        \/ /\ MayRecordCompensationFailure(row, LeaseToken(a), now) /\ Applying(row, now)
           /\ row' = AfterRecordCompensationFailure(row, now + JobLease, now)
    BY <1>3, <2>1, Clocks, CommandWrites DEF CompensationFailed
  <2> QED
    BY <2>2, Clocks, HeldToken, RecordCompensationFailureRefines DEF LedgerMove, MayRecordCompensationFailure
<1>4. CASE CompleteCompensation(a)
  <2>1. Working(a)
    BY <1>4, Pcs DEF Working, CompleteCompensation
  <2>2. CASE local[a].caller = "lapsed" /\ row' # row
    <3>1. PICK at : at = local[a].at
      OBVIOUS
    <3>2. /\ MayRecoverCompensated(row, at) /\ row' = AfterMarkCompensated(row, at)
          /\ Fresh(row, Seen(a).version, at)
      BY <1>4, <2>2, <3>1 DEF CompleteCompensation
    <3>3. Applying(row, at)
      BY <2>1, <3>1, <3>2, SeenRow DEF Applying, Fresh
    <3> QED
      BY <3>2, <3>3, RecoverCompensatedRefines
  <2>3. CASE local[a].caller # "lapsed" /\ row' # row
    <3>1. /\ MayMarkCompensated(row, LeaseToken(a), now) /\ row' = AfterMarkCompensated(row, now)
          /\ Fresh(row, Seen(a).version, now)
      BY <1>4, <2>3 DEF CompleteCompensation
    <3>2. Applying(row, now)
      BY <2>1, <3>1, SeenRow, Clocks DEF Applying, Fresh
    <3> QED
      BY <3>1, <3>2, HeldToken, MarkCompensatedRefines DEF MayMarkCompensated
  <2> QED
    BY <2>2, <2>3 DEF LedgerMove
<1>5. CASE CheckSafe(a) \/ RemoveFiles(a)
  BY <1>5 DEF LedgerMove, CheckSafe, RemoveFiles
<1> QED
  BY <1>1, <1>2, <1>3, <1>4, <1>5 DEF Compensate

LEMMA RecoverRefines == ASSUME UploadIInv, NEW a \in Actor, Recover(a) PROVE LedgerMove
<1>1. CASE RecoverReady(a)
  <2>1. Working(a)
    BY <1>1, Pcs DEF Working, RecoverReady
  <2>2. PICK at \in Nat : at = local[a].at
    BY Clocks
  <2>3. row' = row \/ (MayRecoverReady(row, at) /\ row' = AfterMarkReady(row, at) /\ Applying(row, at))
    BY <1>1, <2>1, <2>2, CommandWrites DEF RecoverReady
  <2> QED
    BY <2>3, RecoverReadyRefines DEF LedgerMove
<1>2. CASE RecoverRetry(a)
  <2>1. Working(a)
    BY <1>2, Pcs DEF Working, RecoverRetry
  <2>2. PICK at \in Nat : at = local[a].at
    BY Clocks
  <2>3. row' = row \/ (MayRecoverRetry(row, at) /\ row' = AfterRecoverRetry(row, at, at) /\ Applying(row, at))
    BY <1>2, <2>1, <2>2, CommandWrites DEF RecoverRetry
  <2> QED
    BY <2>3, RecoverRetryRefines DEF LedgerMove
<1>3. CASE MarkManualReview(a)
  <2>1. Working(a)
    BY <1>3, Pcs DEF Working, MarkManualReview
  <2>2. PICK at \in Nat : at = local[a].at
    BY Clocks
  <2>3. row' = row \/ (MayMarkManualReview(row, at) /\ row' = AfterMarkManualReview(row, at) /\ Applying(row, at))
    BY <1>3, <2>1, <2>2, CommandWrites DEF MarkManualReview
  <2> QED
    BY <2>3, MarkManualReviewRefines DEF LedgerMove
<1>4. CASE ListDue(a) \/ Observe(a) \/ CleanTemp(a) \/ DropInput(a)
  BY <1>4 DEF LedgerMove, ListDue, Observe, CleanTemp, DropInput
<1> QED
  BY <1>1, <1>2, <1>3, <1>4 DEF Recover

LEMMA ReserveRefines == ASSUME UploadIInv, Reserve PROVE LedgerMove
<1>1. row = None /\ now \in Nat /\ row' = CreatedJob(now)
  BY TypeSplit DEF UploadIInv, Reserved, Reserve
<1>2. CreatedJob(now) # None /\ None # 0
  BY <1>1, CreatedType, NoneIsNull
<1>3. Ledger!Reserve("job", 0, now)
  BY <1>1, <1>2, SameRows DEF Ledger!Reserve
<1> QED
  BY <1>1, <1>3 DEF LedgerMove, Ledger!Next

(* The upload service, the drainer and their crashes write the ledger only *)
(* by commands that its policy accepts, one per version: whatever the      *)
(* ledger keeps for arbitrary callers holds of every upload                *)
(* (uploads/service.ts, mysql-store.ts transitionImageJob).                *)
THEOREM UploadImplementsLedger == Spec => Ledger!Spec
<1>1. Init => Ledger!Init
  BY DEF Init, Ledger!Init
<1>2. UploadIInv /\ [Next]_vars => [Ledger!Next]_(Ledger!vars)
  <2> SUFFICES ASSUME UploadIInv, [Next]_vars PROVE LedgerMove
    BY DEF LedgerMove, Ledger!vars
  <2>1. CASE Reserve \/ ReadBack
    BY <2>1, ReserveRefines DEF LedgerMove, ReadBack
  <2>2. ASSUME NEW a \in Actor, Drive(a) \/ Compensate(a) \/ Crash(a) PROVE LedgerMove
    BY <2>2, DriveRefines, CompensateRefines DEF LedgerMove, Crash
  <2>3. ASSUME NEW a \in Reconciler, Recover(a) PROVE LedgerMove
    BY <2>3, RecoverRefines DEF Actor
  <2>4. CASE Work \/ WorkerCrash \/ Attach \/ Tick
    BY <2>4 DEF LedgerMove, Work, Take, Reject, Open, Finished, WorkerCrash, Attach, Tick
  <2>5. CASE UNCHANGED vars
    BY <2>5 DEF LedgerMove, vars
  <2> QED
    BY <2>1, <2>2, <2>3, <2>4, <2>5 DEF Next
<1> QED
  BY <1>1, <1>2, UploadInductive, PTL DEF Spec, Ledger!Spec

-----------------------------------------------------------------------------
(* Rows are seen in the order of their versions *)

(* What an actor saw is an earlier version of the row, or the row itself.  *)
SeenInOrder(a) ==
  /\ local[a].at <= now
  /\ Seen(a) # None => Seen(a).version <= row.version
  /\ Seen(a) # None /\ Seen(a).version = row.version => Seen(a) = row

(* Recovery does not ask for the compensation of a row it saw in manual    *)
(* review, where it does not look for work.                                *)
Sparing(a) ==
  local[a].pc = "compensate"
    => local[a].caller \in {"publish", "catch"} \/ Seen(a).state # "manual_review"

InOrder == \A a \in Actor : SeenInOrder(a) /\ Sparing(a)

(* Where an actor that takes a step gets to.                               *)
Moved(a, pc, seen) ==
  /\ \A b \in Actor : b # a => local'[b] = local[b]
  /\ local'[a].pc = pc
  /\ pc \in Running => local'[a].seen = seen /\ local'[a].at = local[a].at
  /\ pc \notin Running => local'[a].seen = None /\ local'[a].at = 0

LEMMA GoMoves ==
  ASSUME UploadIInv, NEW a \in Actor, NEW pc, NEW seen, Go(a, pc, seen)
  PROVE  /\ Moved(a, pc, seen)
         /\ pc \in Running => local'[a].caller = local[a].caller
         /\ pc \notin Running => local'[a].caller = "none"
<1>1. local \in [Actor -> Local]
  BY TypeSplit DEF UploadIInv
<1>2. \A r : local' = [local EXCEPT ![a] = r]
               => local'[a] = r /\ \A b \in Actor : b # a => local'[b] = local[b]
  BY <1>1
<1>3. local[a] \in Local
  BY <1>1
<1>4. CASE pc \in Running
  <2>1. local' = [local EXCEPT ![a] = [local[a] EXCEPT !.pc = pc, !.seen = seen]]
    BY <1>4 DEF Go
  <2>2. /\ local'[a] = [local[a] EXCEPT !.pc = pc, !.seen = seen]
        /\ \A b \in Actor : b # a => local'[b] = local[b]
    BY <1>2, <2>1
  <2> QED
    BY <1>3, <1>4, <2>2 DEF Moved, Local
<1>5. CASE pc \notin Running
  <2>1. local' = [local EXCEPT ![a] = At(pc)]
    BY <1>5 DEF Go
  <2>2. local'[a] = At(pc) /\ \A b \in Actor : b # a => local'[b] = local[b]
    BY <1>2, <2>1
  <2> QED
    BY <1>5, <2>2 DEF Moved, At
<1> QED
  BY <1>4, <1>5

LEMMA StayMoves ==
  ASSUME UploadIInv, NEW a \in Actor, NEW pc, Stay(a, pc)
  PROVE  /\ Moved(a, pc, Seen(a))
         /\ pc \in Running => local'[a].caller = local[a].caller
BY GoMoves DEF Stay

LEMMA EnterMoves ==
  ASSUME UploadIInv, NEW a \in Actor, NEW pc \in Running, NEW seen, NEW caller,
         Enter(a, pc, seen, caller)
  PROVE  Moved(a, pc, seen) /\ local'[a].caller = caller
<1>1. local \in [Actor -> Local] /\ local[a] \in Local
  BY TypeSplit DEF UploadIInv
<1>2. local' = [local EXCEPT ![a] = [local[a] EXCEPT !.pc = pc, !.seen = seen, !.caller = caller]]
  BY DEF Enter
<1>3. /\ local'[a] = [local[a] EXCEPT !.pc = pc, !.seen = seen, !.caller = caller]
      /\ \A b \in Actor : b # a => local'[b] = local[b]
  BY <1>1, <1>2
<1> QED
  BY <1>1, <1>3 DEF Moved, Local

(* The command of an actor is applied to the row that it saw, or not.      *)
Wrote(a, may, after, at) == Seen(a) = row /\ may /\ Applying(row, at) /\ row' = after

LEMMA CommandMoves ==
  ASSUME UploadIInv, NEW a \in Actor, Working(a), SeenInOrder(a), NEW may, NEW after, NEW at \in Nat,
         NEW onward, NEW onError, Command(a, may, after, at, onward, onError)
  PROVE  /\ Same /\ (Fault \/ NoFault)
         /\ \/ row' = row /\ Moved(a, onError, Seen(a))
            \/ /\ Wrote(a, may, after, at)
               /\ Moved(a, onward, row') \/ Moved(a, onError, Seen(a))
         /\ local'[a].caller = local[a].caller \/ local'[a].pc \notin Running
<1>1. row # None /\ RowOK(row) /\ RowOK(Seen(a)) /\ Seen(a) # None
  BY SeenRow, RowFields
<1>2. Fresh(row, Seen(a).version, at) => Applying(row, at) /\ Seen(a) = row
  BY <1>1 DEF Fresh, Applying, SeenInOrder
<1>3. Stay(a, onError) => /\ Moved(a, onError, Seen(a))
                          /\ local'[a].caller = local[a].caller \/ local'[a].pc \notin Running
  BY StayMoves DEF Moved
<1>4. Go(a, onward, after) => /\ Moved(a, onward, after)
                              /\ local'[a].caller = local[a].caller \/ local'[a].pc \notin Running
  <2>1. PICK s : s = after
    OBVIOUS
  <2> QED
    BY <2>1, GoMoves DEF Moved
<1> QED
  BY <1>2, <1>3, <1>4 DEF Command, Same, Wrote

(* One step of one actor, as far as the order of versions goes.            *)
RowOn == row' = row \/ (row # None /\ row'.version = row.version + 1)

SeesOn(a) ==
  /\ \A b \in Actor : b # a => local'[b] = local[b]
  /\ local'[a].seen \in {None, Seen(a), row'}
  /\ local'[a].at \in {0, local[a].at, now}
  /\ Sparing(a)'

LEMMA MovedSees ==
  ASSUME NEW a \in Actor, NEW pc, NEW seen \in {Seen(a), row'}, Moved(a, pc, seen),
         pc = "compensate" => Sparing(a)'
  PROVE  SeesOn(a)
BY DEF Moved, SeesOn, Sparing

LEMMA SeenEarlier ==
  ASSUME UploadIInv, NEW a \in Actor, Seen(a) # None
  PROVE  /\ row # None /\ row \in Job /\ Seen(a) \in Job
         /\ row.version \in Nat /\ Seen(a).version \in Nat
<1>1. RowOK(Seen(a)) /\ row # None
  BY DEF UploadIInv, LocalOK, Seen, Before
<1>2. RowOK(row)
  BY <1>1 DEF UploadIInv
<1> QED
  BY <1>1, <1>2, RowFields

LEMMA OrderKept ==
  ASSUME UploadIInv, UploadIInv', InOrder, now' \in {now, now + 1}, RowOn,
         NEW a \in Actor, SeesOn(a)
  PROVE  InOrder'
<1> SUFFICES ASSUME NEW b \in Actor PROVE SeenInOrder(b)' /\ Sparing(b)'
  BY DEF InOrder
<1>0. SeenInOrder(b) /\ Sparing(b)
  BY DEF InOrder
<1>8. Sparing(b)'
  BY <1>0 DEF SeesOn, Sparing, Seen
<1> SUFFICES SeenInOrder(b)'
  BY <1>8
<1>1. now \in Nat /\ now' \in Nat /\ local[b].at \in Nat
  BY Clocks, TypeSplit DEF UploadIInv
<1>2. local'[b].at \in {0, local[b].at, now}
  BY DEF SeesOn
<1>3. local'[b].at <= now'
  BY <1>0, <1>1, <1>2 DEF SeenInOrder
<1>4. local'[b].seen \in {None, Seen(b), row'}
  BY DEF SeesOn, Seen
<1>5. CASE local'[b].seen = Seen(b) /\ Seen(b) # None
  <2>1. row.version \in Nat /\ Seen(b).version \in Nat /\ row # None
    BY <1>5, SeenEarlier
  <2>2. /\ Seen(b).version <= row'.version
        /\ Seen(b).version = row'.version => Seen(b) = row'
    BY <1>0, <1>5, <2>1 DEF SeenInOrder, RowOn
  <2> QED
    BY <1>3, <1>5, <2>2 DEF SeenInOrder, Seen
<1>6. CASE local'[b].seen = None
  BY <1>3, <1>6 DEF SeenInOrder, Seen
<1>7. CASE local'[b].seen = row' /\ row' # None
  <2>1. row'.version \in Nat
    BY <1>7, RowFields DEF UploadIInv
  <2> QED
    BY <1>3, <1>7, <2>1 DEF SeenInOrder, Seen
<1> QED
  BY <1>4, <1>5, <1>6, <1>7

(* Every command advances the version.                                     *)
LEMMA NextVersion ==
  ASSUME NEW j, RowOK(j), NEW at, NEW t, NEW l
  PROVE  /\ AfterEnqueue(j, t, at).version = j.version + 1
         /\ AfterClaimProcessing(j, l, at).version = j.version + 1
         /\ AfterRecordOutputReady(j, at).version = j.version + 1
         /\ AfterBeginPublication(j, at).version = j.version + 1
         /\ AfterMarkReady(j, at).version = j.version + 1
         /\ AfterRequireCompensation(j, t, at).version = j.version + 1
         /\ AfterRecoverRetry(j, t, at).version = j.version + 1
         /\ AfterClaimCompensation(j, l, at).version = j.version + 1
         /\ AfterMarkCompensated(j, at).version = j.version + 1
         /\ AfterRecordCompensationFailure(j, t, at).version = j.version + 1
         /\ AfterMarkManualReview(j, at).version = j.version + 1
<1>1. j \in Job
  BY RowFields
<1>2. \A r : /\ RetryLater(j, r, at).version = j.version + 1
             /\ AfterRequireCompensation(j, r, at).version = j.version + 1
  BY <1>1 DEF RetryLater, AfterRequireCompensation, Advance, Job
<1>3. AfterRecoverRetry(j, t, at).version = j.version + 1
  BY <1>1 DEF AfterRecoverRetry, RetryLater, GiveUp, Advance, Job
<1>4. AfterRecordCompensationFailure(j, t, at).version = j.version + 1
  BY <1>1 DEF AfterRecordCompensationFailure, Advance, Job
<1> QED
  BY <1>1, <1>2, <1>3, <1>4
     DEF AfterEnqueue, AfterClaimProcessing, AfterRecordOutputReady, AfterBeginPublication,
         AfterMarkReady, AfterClaimCompensation, AfterMarkCompensated, AfterMarkManualReview,
         Advance, Job

LEMMA FailureVersion ==
  ASSUME NEW j, RowOK(j), NEW at, NEW t, NEW public
  PROVE  AfterRecordFailure(j, public, t, at).version = j.version + 1
<1>1. j \in Job
  BY RowFields
<1> QED
  BY <1>1 DEF AfterRecordFailure, RetryLater, AfterRequireCompensation, GiveUp, Advance, Job

LEMMA CommandInOrder ==
  ASSUME UploadIInv, NEW a \in Actor, Working(a), SeenInOrder(a), NEW may, NEW after, NEW at \in Nat,
         NEW onward, NEW onError, Command(a, may, after, at, onward, onError),
         RowOK(row) => after.version = row.version + 1,
         onward # "compensate", onError # "compensate"
  PROVE  RowOn /\ SeesOn(a) /\ now' = now
<1>1. /\ row # None /\ RowOK(row) /\ Same
      /\ \/ row' = row /\ Moved(a, onError, Seen(a))
         \/ row' = after /\ (Moved(a, onward, row') \/ Moved(a, onError, Seen(a)))
  BY SeenRow, CommandMoves DEF Wrote
<1>2. PICK s : s = Seen(a)
  OBVIOUS
<1>3. PICK r : r = row'
  OBVIOUS
<1>4. SeesOn(a)
  BY <1>1, <1>2, <1>3, MovedSees
<1> QED
  BY <1>1, <1>4 DEF RowOn, Same

(* The same of a step that only lets the actor go on, or end.              *)
LEMMA GoInOrder ==
  ASSUME UploadIInv, NEW a \in Actor, NEW pc, NEW seen \in {Seen(a), row}, pc # "compensate", Go(a, pc, seen),
         UNCHANGED <<now, row>>
  PROVE  RowOn /\ SeesOn(a) /\ now' = now
BY GoMoves, MovedSees DEF RowOn

LEMMA StayInOrder ==
  ASSUME UploadIInv, NEW a \in Actor, NEW pc, pc # "compensate", Stay(a, pc), UNCHANGED <<now, row>>
  PROVE  RowOn /\ SeesOn(a) /\ now' = now
BY StayMoves, MovedSees DEF RowOn

LEMMA EnterInOrder ==
  ASSUME UploadIInv, NEW a \in Actor, NEW pc \in Running, NEW seen \in {Seen(a), row}, NEW caller,
         pc = "compensate" => caller \in {"publish", "catch"} \/ seen.state # "manual_review",
         Enter(a, pc, seen, caller), UNCHANGED <<now, row>>
  PROVE  RowOn /\ SeesOn(a) /\ now' = now
<1>1. Moved(a, pc, seen) /\ local'[a].caller = caller
  BY EnterMoves
<1>2. pc = "compensate" => Sparing(a)'
  BY <1>1 DEF Sparing, Moved, Seen
<1> QED
  BY <1>1, <1>2, MovedSees DEF RowOn

LEMMA EndsElsewhere ==
  ASSUME NEW a \in Actor
  PROVE  End(a) # "compensate" /\ Return(a) # "compensate" /\ Answer(a) # "compensate"
BY DEF End, Return, Answer

LEMMA CompensateFromRuns ==
  ASSUME NEW j
  PROVE  CompensateFrom(j) \in {"claimCompensation", "checkSafe", "compensate"}
BY DEF CompensateFrom

LEMMA DriveInOrder ==
  ASSUME UploadIInv, NEW a \in Actor, SeenInOrder(a), Drive(a)
  PROVE  RowOn /\ SeesOn(a) /\ now' = now
<1>1. CASE Enqueue(a)
  <2>1. PICK at : /\ at \in Nat /\ local[a].pc = "enqueue"
                  /\ Command(a, MayEnqueue(row, at, at), AfterEnqueue(row, at, at), at, "claim", End(a))
    BY <1>1, Clocks DEF Enqueue
  <2> QED
    BY <2>1, NextVersion, CommandInOrder, EndsElsewhere, Pcs DEF Working
<1>2. CASE ClaimProcessing(a)
  <2>1. now \in Nat /\ Working(a)
    BY <1>2, Clocks, Pcs DEF Working, ClaimProcessing
  <2> QED
    BY <1>2, <2>1, NextVersion, CommandInOrder, EndsElsewhere DEF ClaimProcessing
<1>3. CASE RecordOutputReady(a)
  <2>1. now \in Nat /\ Working(a)
    BY <1>3, Clocks, Pcs DEF Working, RecordOutputReady
  <2> QED
    BY <1>3, <2>1, NextVersion, CommandInOrder, EndsElsewhere DEF RecordOutputReady
<1>4. CASE BeginPublication(a)
  <2>1. now \in Nat /\ Working(a)
    BY <1>4, Clocks, Pcs DEF Working, BeginPublication
  <2> QED
    BY <1>4, <2>1, NextVersion, CommandInOrder, EndsElsewhere DEF BeginPublication
<1>5. CASE GiveUpAttempt(a)
  <2>1. now \in Nat /\ Working(a)
    BY <1>5, Clocks, Pcs DEF Working, GiveUpAttempt
  <2>2. RowOK(row) => AfterRecordFailure(row, FALSE, None, now).version = row.version + 1
    BY FailureVersion
  <2> QED
    BY <1>5, <2>1, <2>2, CommandInOrder, EndsElsewhere DEF GiveUpAttempt
<1>6. CASE Publish(a)
  <2>1. Working(a) /\ row # None /\ RowOK(row) /\ now' = now
    BY <1>6, SeenRow, Pcs DEF Working, Publish
  <2>2. row' = row \/ row' = AfterMarkReady(row, local[a].at)
    BY <1>6 DEF Publish
  <2>3. RowOn
    BY <2>1, <2>2, NextVersion DEF RowOn
  <2>4. Go(a, "finish", row') \/ Stay(a, "publishFailed")
    BY <1>6 DEF Publish
  <2>5. PICK r : r = row'
    OBVIOUS
  <2> QED
    BY <2>1, <2>3, <2>4, <2>5, GoMoves, StayMoves, MovedSees
<1>7. CASE Rename(a)
  <2>1. CASE Stay(a, "caught")
    BY <1>7, <2>1, StayInOrder DEF Rename
  <2>2. CASE local' = [local EXCEPT ![a].pc = "publish", ![a].at = now]
    <3>1. local \in [Actor -> Local] /\ local[a] \in Local
      BY TypeSplit DEF UploadIInv
    <3>2. local' = [local EXCEPT ![a] = [local[a] EXCEPT !.pc = "publish", !.at = now]]
      BY <2>2, <3>1
    <3>3. /\ local'[a] = [local[a] EXCEPT !.pc = "publish", !.at = now]
          /\ \A b \in Actor : b # a => local'[b] = local[b]
      BY <3>1, <3>2
    <3>4. local'[a].seen = local[a].seen /\ local'[a].at = now /\ local'[a].pc = "publish"
      BY <3>1, <3>3 DEF Local
    <3> QED
      BY <1>7, <3>3, <3>4 DEF Rename, SeesOn, Seen, RowOn, Sparing
  <2> QED
    BY <1>7, <2>1, <2>2 DEF Rename
<1>8. CASE PublishFailed(a)
  BY <1>8, GoInOrder, StayInOrder, EndsElsewhere, EnterInOrder, CompensateFromRuns, Pcs DEF PublishFailed
<1>9. CASE Caught(a)
  BY <1>9, GoInOrder, StayInOrder, EndsElsewhere, EnterInOrder, CompensateFromRuns, Pcs DEF Caught
<1>10. CASE ReadyResult(a) \/ Submit(a) \/ Await(a) \/ Finish(a) \/ Discard(a)
  BY <1>10, StayInOrder, EndsElsewhere DEF ReadyResult, Submit, Await, Finish, Discard
<1> QED
  BY <1>1, <1>2, <1>3, <1>4, <1>5, <1>6, <1>7, <1>8, <1>9, <1>10 DEF Drive

LEMMA CompensateInOrder ==
  ASSUME UploadIInv, NEW a \in Actor, SeenInOrder(a), Compensate(a)
  PROVE  RowOn /\ SeesOn(a) /\ now' = now
<1>1. CASE RequireCompensation(a)
  <2>1. now \in Nat /\ Working(a)
    BY <1>1, Clocks, Pcs DEF Working, RequireCompensation
  <2>2. RowOK(row) => /\ AfterRecordFailure(row, TRUE, now, now).version = row.version + 1
                      /\ AfterRequireCompensation(row, now, now).version = row.version + 1
    <3>1. PICK yes : yes = TRUE
      OBVIOUS
    <3>2. RowOK(row) => AfterRecordFailure(row, yes, now, now).version = row.version + 1
      BY FailureVersion
    <3> QED
      BY <3>1, <3>2, NextVersion
  <2> DEFINE holds == LiveLease(Seen(a), now) /\ Seen(a).state \in Attempting
  <2>3. CASE holds
    <3>1. Command(a, MayRecordFailure(row, LeaseToken(a), now), AfterRecordFailure(row, TRUE, now, now),
                  now, "claimCompensation", Return(a))
      BY <1>1, <2>3 DEF RequireCompensation
    <3> QED
      BY <2>1, <2>2, <3>1, CommandInOrder, EndsElsewhere
  <2>4. CASE ~holds
    <3>1. Command(a, MayRequireCompensation(row, now), AfterRequireCompensation(row, now, now),
                  now, "claimCompensation", Return(a))
      BY <1>1, <2>4 DEF RequireCompensation
    <3> QED
      BY <2>1, <2>2, <3>1, CommandInOrder, EndsElsewhere
  <2> QED
    BY <2>3, <2>4
<1>2. CASE ClaimCompensation(a)
  <2>1. now \in Nat /\ Working(a)
    BY <1>2, Clocks, Pcs DEF Working, ClaimCompensation
  <2> QED
    BY <1>2, <2>1, NextVersion, CommandInOrder, EndsElsewhere DEF ClaimCompensation
<1>3. CASE CompensationFailed(a)
  <2>1. now \in Nat /\ Working(a)
    BY <1>3, Clocks, Pcs DEF Working, CompensationFailed
  <2> QED
    BY <1>3, <2>1, NextVersion, CommandInOrder, EndsElsewhere DEF CompensationFailed
<1>4. CASE CompleteCompensation(a)
  <2>1. Working(a) /\ row # None /\ RowOK(row) /\ now' = now
    BY <1>4, SeenRow, Pcs DEF Working, CompleteCompensation
  <2>2. PICK at : row' = row \/ row' = AfterMarkCompensated(row, at)
    BY <1>4 DEF CompleteCompensation
  <2>3. RowOn
    BY <2>1, <2>2, NextVersion DEF RowOn
  <2>4. PICK s : s = Seen(a) /\ Moved(a, Return(a), s)
    BY <1>4, StayMoves DEF CompleteCompensation
  <2> QED
    BY <2>1, <2>3, <2>4, MovedSees, EndsElsewhere
<1>5. CASE CheckSafe(a) \/ RemoveFiles(a)
  BY <1>5, StayInOrder, EndsElsewhere DEF CheckSafe, RemoveFiles
<1> QED
  BY <1>1, <1>2, <1>3, <1>4, <1>5 DEF Compensate

(* What a drainer that looked at the files does next.                      *)
Planned(a, j, ev, plan, pc, caller) ==
  /\ j = Seen(a) /\ RowOK(j) /\ Listed(j, local[a].at)
  /\ ev \in {Observed} \union Obscured /\ plan = PlanRestart(j, ev, local[a].at)
  /\ plan \in {"enqueue", "claim_processing", "recover_ready", "manual_review",
              "clean_private_then_recover_retry", "require_compensation",
              "claim_compensation", "recover_compensated"}
  /\ pc = StepOf(plan, j) /\ caller = CallerOf(plan)
  /\ Enter(a, pc, j, caller)

LEMMA ObservePlans ==
  ASSUME UploadIInv, NEW a \in Actor, Observe(a)
  PROVE  \E j, ev, plan, pc, caller : Planned(a, j, ev, plan, pc, caller) /\ pc \in Running
<1>1. Working(a)
  BY Pcs DEF Working, Observe
<1>2. PICK j, at : j = Seen(a) /\ at = local[a].at
  OBVIOUS
<1>3. RowOK(j) /\ Listed(j, at)
  BY <1>1, <1>2, SeenRow DEF Observe, LocalOK, Seen
<1>4. PICK ev, plan : /\ ev \in {Observed} \union Obscured /\ plan = PlanRestart(j, ev, at)
                      /\ Enter(a, StepOf(plan, j), j, CallerOf(plan))
  BY <1>2 DEF Observe
<1>5. plan \in {"enqueue", "claim_processing", "recover_ready", "manual_review",
               "clean_private_then_recover_retry", "require_compensation",
               "claim_compensation", "recover_compensated"}
  BY <1>3, <1>4, ListedPlan
<1>6. PICK pc, caller : pc = StepOf(plan, j) /\ caller = CallerOf(plan)
  OBVIOUS
<1>7. pc \in {"enqueue", "claim", "recoverReady", "cleanTemp", "claimCompensation", "checkSafe",
             "compensate", "manualReview"}
  BY <1>5, <1>6, CompensateFromRuns DEF StepOf
<1>8. pc \in Running
  BY <1>7, Pcs
<1>9. Planned(a, j, ev, plan, pc, caller)
  BY <1>2, <1>3, <1>4, <1>5, <1>6 DEF Planned
<1> QED
  BY <1>8, <1>9

LEMMA RecoverInOrder ==
  ASSUME UploadIInv, NEW a \in Actor, SeenInOrder(a), Recover(a)
  PROVE  RowOn /\ SeesOn(a) /\ now' = now
<1>1. PICK at : at = local[a].at /\ at \in Nat
  BY Clocks
<1>2. CASE RecoverReady(a)
  <2>1. Working(a)
    BY <1>2, Pcs DEF Working, RecoverReady
  <2>2. Command(a, MayRecoverReady(row, at), AfterMarkReady(row, at), at, "idle", "idle")
    BY <1>1, <1>2 DEF RecoverReady
  <2> QED
    BY <1>1, <2>1, <2>2, NextVersion, CommandInOrder
<1>3. CASE RecoverRetry(a)
  <2>1. Working(a)
    BY <1>3, Pcs DEF Working, RecoverRetry
  <2>2. PICK onward : /\ onward # "compensate"
                      /\ Command(a, MayRecoverRetry(row, at), AfterRecoverRetry(row, at, at), at,
                                 onward, "idle")
    BY <1>1, <1>3 DEF RecoverRetry
  <2> QED
    BY <1>1, <2>1, <2>2, NextVersion, CommandInOrder
<1>4. CASE MarkManualReview(a)
  <2>1. Working(a)
    BY <1>4, Pcs DEF Working, MarkManualReview
  <2>2. Command(a, MayMarkManualReview(row, at), AfterMarkManualReview(row, at), at, "idle", "idle")
    BY <1>1, <1>4 DEF MarkManualReview
  <2> QED
    BY <1>1, <2>1, <2>2, NextVersion, CommandInOrder
<1>5. CASE ListDue(a)
  <2>1. local' = [local EXCEPT ![a] = [At("observe") EXCEPT !.seen = row, !.at = now]]
    BY <1>5 DEF ListDue
  <2>2. /\ local'[a] = [At("observe") EXCEPT !.seen = row, !.at = now]
        /\ \A b \in Actor : b # a => local'[b] = local[b]
    BY <2>1, TypeSplit DEF UploadIInv
  <2>3. local'[a].pc = "observe" /\ local'[a].seen = row /\ local'[a].at = now
    BY <2>2 DEF At
  <2> QED
    BY <1>5, <2>2, <2>3 DEF ListDue, SeesOn, RowOn, Sparing
<1>6. CASE Observe(a)
  <2>1. PICK j, ev, plan, pc, caller : Planned(a, j, ev, plan, pc, caller) /\ pc \in Running
    BY <1>6, ObservePlans
  <2>2. j.state # "manual_review" /\ UNCHANGED <<now, row>>
    BY <1>6, <2>1 DEF Planned, Observe, Listed, Scheduled, Leased, Attempting
  <2> QED
    BY <2>1, <2>2, EnterInOrder DEF Planned
<1>7. CASE CleanTemp(a) \/ DropInput(a)
  BY <1>7, StayInOrder DEF CleanTemp, DropInput
<1> QED
  BY <1>2, <1>3, <1>4, <1>5, <1>6, <1>7 DEF Recover

LEMMA WaitingSeesNothing ==
  ASSUME UploadIInv, row = None, NEW a \in Actor
  PROVE  Seen(a) = None
BY DEF UploadIInv, LocalOK, Before, Seen

LEMMA ReserveInOrder ==
  ASSUME UploadIInv, UploadIInv', InOrder, Reserve
  PROVE  InOrder'
<1>1. Web \in Actor /\ row = None /\ now' = now
  BY DEF UploadIInv, Reserved, Reserve, Actor
<1>2. PICK pc, seen : /\ Go(Web, pc, seen) /\ pc \in {"enqueue", "readBack"}
                      /\ seen = None \/ seen = row'
  <2>1. Seen(Web) = None
    BY <1>1, WaitingSeesNothing
  <2> QED
    BY <1>1, <2>1 DEF Reserve, Stay
<1>3. Moved(Web, pc, seen)
  BY <1>1, <1>2, GoMoves
<1> SUFFICES ASSUME NEW b \in Actor PROVE SeenInOrder(b)' /\ Sparing(b)'
  BY DEF InOrder
<1>4. SeenInOrder(b) /\ Sparing(b) /\ Seen(b) = None /\ pc \in Running
  BY <1>1, <1>2, WaitingSeesNothing, Pcs DEF InOrder
<1>5. CASE b = Web
  <2>1. row'.version \in Nat \/ row' = None
    BY RowFields DEF UploadIInv
  <2> QED
    BY <1>1, <1>2, <1>3, <1>4, <1>5, <2>1 DEF Moved, SeenInOrder, Sparing, Seen
<1>6. CASE b # Web
  BY <1>1, <1>3, <1>4, <1>6 DEF Moved, SeenInOrder, Sparing, Seen
<1> QED
  BY <1>5, <1>6

LEMMA ReadBackInOrder ==
  ASSUME UploadIInv, ReadBack
  PROVE  RowOn /\ SeesOn(Web) /\ now' = now
<1>1. Web \in Actor /\ DriveFrom(Web, row) # "compensate"
  BY DEF Actor, DriveFrom, End
<1> QED
  BY <1>1, GoInOrder, StayInOrder DEF ReadBack

(* The order is kept by every step, whoever takes it.                      *)
LEMMA NextInOrder ==
  ASSUME UploadIInv, UploadIInv', InOrder, [Next]_vars
  PROVE  InOrder'
<1>1. CASE Reserve
  BY <1>1, ReserveInOrder
<1>2. CASE ReadBack
  BY <1>2, ReadBackInOrder, OrderKept DEF Actor
<1>3. ASSUME NEW a \in Actor, Drive(a) \/ Compensate(a) \/ Recover(a) PROVE InOrder'
  <2>1. RowOn /\ SeesOn(a) /\ now' = now
    BY <1>3, DriveInOrder, CompensateInOrder, RecoverInOrder DEF InOrder
  <2> QED
    BY <2>1, OrderKept
<1>4. ASSUME NEW a \in Actor, Crash(a) PROVE InOrder'
  <2>1. RowOn /\ SeesOn(a) /\ now' = now
    BY <1>4, StayInOrder, EndsElsewhere DEF Crash
  <2> QED
    BY <2>1, OrderKept
<1>5. CASE Work \/ WorkerCrash \/ Attach \/ Tick \/ UNCHANGED vars
  <2>1. UNCHANGED <<row, local>> /\ now' \in {now, now + 1}
    BY <1>5 DEF Work, Take, Reject, Open, Finished, WorkerCrash, Attach, Tick, vars
  <2>2. Web \in Actor /\ RowOn /\ Sparing(Web)
    BY <2>1 DEF Actor, RowOn, InOrder
  <2>3. SeesOn(Web)
    BY <2>1, <2>2 DEF SeesOn, Seen, Sparing
  <2> QED
    BY <2>1, <2>2, <2>3, OrderKept
<1> QED
  BY <1>1, <1>2, <1>3, <1>4, <1>5 DEF Next, Actor

(* No actor remembers a row that is newer than the stored one, and what it *)
(* remembers under the stored version is the stored row: commands are      *)
(* compared by version alone (mysql-image-job-store.ts                     *)
(* transitionImageJob, uploads/service.ts).                                *)
THEOREM RowsSeenInOrder == Spec => []InOrder
<1>1. Init => InOrder
  <2> SUFFICES ASSUME Init, NEW a \in Actor PROVE SeenInOrder(a) /\ Sparing(a)
    BY DEF InOrder
  <2>1. local[a] = At(IF a = Web THEN "reserve" ELSE "idle") /\ now = 0
    BY DEF Init
  <2> QED
    BY <2>1 DEF SeenInOrder, Sparing, Seen, At
<1> QED
  BY <1>1, NextInOrder, UploadInductive, PTL DEF Spec

-----------------------------------------------------------------------------
(* Manual review is left to drivers *)

LEMMA DriveSpares ==
  ASSUME UploadIInv, NEW a \in Actor, Drive(a), InState({"manual_review"})
  PROVE  row' = row
<1>1. row.state = "manual_review"
  BY DEF InState
<1>2. CASE Enqueue(a)
  <2>1. PICK at : /\ at \in Nat /\ local[a].pc = "enqueue"
                  /\ Command(a, MayEnqueue(row, at, at), AfterEnqueue(row, at, at), at, "claim", End(a))
    BY <1>2, Clocks DEF Enqueue
  <2> QED
    BY <1>1, <2>1, CommandWrites, Pcs DEF Working, MayEnqueue
<1>3. CASE ClaimProcessing(a)
  BY <1>1, <1>3, Clocks, CommandWrites, Pcs DEF Working, ClaimProcessing, MayClaimProcessing
<1>4. CASE RecordOutputReady(a)
  BY <1>1, <1>4, Clocks, CommandWrites, Pcs DEF Working, RecordOutputReady, MayRecordOutputReady
<1>5. CASE BeginPublication(a)
  BY <1>1, <1>5, Clocks, CommandWrites, Pcs DEF Working, BeginPublication, MayBeginPublication
<1>6. CASE GiveUpAttempt(a)
  BY <1>1, <1>6, Clocks, CommandWrites, Pcs DEF Working, GiveUpAttempt, MayRecordFailure, Attempting
<1>7. CASE Publish(a)
  BY <1>1, <1>7 DEF Publish, MayPublish, MayMarkReady
<1>8. CASE ~(\/ Enqueue(a) \/ ClaimProcessing(a) \/ RecordOutputReady(a)
             \/ BeginPublication(a) \/ Publish(a) \/ GiveUpAttempt(a))
  BY <1>8 DEF Drive, ReadyResult, Submit, Await, Rename, PublishFailed, Finish, Caught, Discard
<1> QED
  BY <1>2, <1>3, <1>4, <1>5, <1>6, <1>7, <1>8

LEMMA CompensateSpares ==
  ASSUME UploadIInv, NEW a \in Actor, SeenInOrder(a), Sparing(a), Compensate(a),
         InState({"manual_review"}), row' # row
  PROVE  local[a].caller \in {"publish", "catch"} /\ local'[a] # local[a]
<1>1. row.state = "manual_review"
  BY DEF InState
<1>2. CASE RequireCompensation(a)
  <2>1. PICK may, after :
          Command(a, may, after, now, "claimCompensation", Return(a)) /\ local[a].pc = "compensate"
    <3> DEFINE holds == LiveLease(Seen(a), now) /\ Seen(a).state \in Attempting
    <3>1. CASE holds
      BY <1>2, <3>1 DEF RequireCompensation
    <3>2. CASE ~holds
      BY <1>2, <3>2 DEF RequireCompensation
    <3> QED
      BY <3>1, <3>2
  <2>2. Working(a) /\ now \in Nat
    BY <2>1, Pcs, Clocks DEF Working
  <2>3. /\ Wrote(a, may, after, now)
        /\ Moved(a, "claimCompensation", row') \/ Moved(a, Return(a), Seen(a))
    BY <2>1, <2>2, CommandMoves
  <2>4. Seen(a) = row /\ local'[a].pc \in {"claimCompensation", Return(a)}
    BY <2>3 DEF Wrote, Moved
  <2> QED
    BY <1>1, <2>1, <2>4, EndsElsewhere DEF Sparing
<1>3. CASE ClaimCompensation(a)
  BY <1>1, <1>3, Clocks, CommandWrites, Pcs DEF Working, ClaimCompensation, MayClaimCompensation
<1>4. CASE CompensationFailed(a)
  BY <1>1, <1>4, Clocks, CommandWrites, Pcs
     DEF Working, CompensationFailed, MayRecordCompensationFailure
<1>5. CASE CompleteCompensation(a)
  BY <1>1, <1>5 DEF CompleteCompensation, MayRecoverCompensated, MayMarkCompensated
<1>6. CASE CheckSafe(a) \/ RemoveFiles(a)
  BY <1>6 DEF CheckSafe, RemoveFiles
<1> QED
  BY <1>2, <1>3, <1>4, <1>5, <1>6 DEF Compensate

LEMMA RecoverSpares ==
  ASSUME UploadIInv, NEW a \in Actor, Recover(a), InState({"manual_review"})
  PROVE  row'.state = "manual_review"
<1>1. row.state = "manual_review"
  BY DEF InState
<1>2. PICK at : at = local[a].at /\ at \in Nat
  BY Clocks
<1>3. CASE RecoverReady(a)
  BY <1>1, <1>2, <1>3, CommandWrites, Pcs DEF Working, RecoverReady, MayRecoverReady
<1>4. CASE RecoverRetry(a)
  BY <1>1, <1>2, <1>4, CommandWrites, Pcs DEF Working, RecoverRetry, MayRecoverRetry, Attempting
<1>5. CASE MarkManualReview(a)
  <2>1. Working(a)
    BY <1>5, Pcs DEF Working, MarkManualReview
  <2>2. Command(a, MayMarkManualReview(row, at), AfterMarkManualReview(row, at), at, "idle", "idle")
    BY <1>2, <1>5 DEF MarkManualReview
  <2>3. row' = row \/ (row' = AfterMarkManualReview(row, at) /\ Applying(row, at))
    BY <1>2, <2>1, <2>2, CommandWrites
  <2> QED
    BY <1>1, <2>3 DEF AfterMarkManualReview, Advance, Applying, RowOK, Job
<1>6. CASE ListDue(a) \/ Observe(a) \/ CleanTemp(a) \/ DropInput(a)
  BY <1>1, <1>6 DEF ListDue, Observe, CleanTemp, DropInput
<1> QED
  BY <1>3, <1>4, <1>5, <1>6 DEF Recover

(* A row in manual review is only taken out of it by a driver whose        *)
(* publication or whose error path met the row, never by recovery,         *)
(* however old the row is that a drainer still remembers                   *)
(* (uploads/service.ts reconcileOnStartup, #compensatePublishedJob).       *)
THEOREM ManualReviewIsSpared == Spec => RecoverySparesManual
<1>1. UploadIInv /\ InOrder /\ [Next]_vars
        => [InState({"manual_review"}) /\ row'.state # "manual_review"
              => \E a \in Actor : local[a].caller \in {"publish", "catch"} /\ local'[a] # local[a]]_vars
  <2> SUFFICES ASSUME UploadIInv, InOrder, Next, InState({"manual_review"}),
                      row'.state # "manual_review"
               PROVE  \E a \in Actor : local[a].caller \in {"publish", "catch"} /\ local'[a] # local[a]
    OBVIOUS
  <2>1. row # None /\ row.state = "manual_review"
    BY DEF InState
  <2>2. ~Reserve
    BY <2>1 DEF UploadIInv, Reserved, Reserve
  <2>3. ~(ReadBack \/ Work \/ WorkerCrash \/ Attach \/ Tick) /\ \A a \in Actor : ~Crash(a)
    BY <2>1 DEF ReadBack, Work, Take, Reject, Open, Finished, WorkerCrash, Attach, Tick, Crash
  <2>4. \A a \in Actor : ~Drive(a) /\ ~Recover(a)
    BY <2>1, DriveSpares, RecoverSpares
  <2>5. PICK a \in Actor : Compensate(a)
    BY <2>2, <2>3, <2>4 DEF Next, Actor
  <2>6. row' # row
    BY <2>1
  <2> QED
    BY <2>5, <2>6, CompensateSpares DEF InOrder
<1> QED
  BY <1>1, UploadInductive, RowsSeenInOrder, PTL DEF Spec, RecoverySparesManual

-----------------------------------------------------------------------------
(* The worker and its queue *)

(* The worker works exactly while the job is active, and a job that is     *)
(* reported completed has no unfinished private output.                    *)
WorkerFollowsQueue ==
  /\ worker # "idle" <=> queue.state = "active"
  /\ queue.state = "completed" => files["temp"] # "partial"

LEMMA Removed ==
  ASSUME UploadIInv, NEW names \in SUBSET File, Remove(names)
  PROVE  /\ files'["temp"] = IF "temp" \in names THEN "absent" ELSE files["temp"]
         /\ files'["final"] = IF "final" \in names THEN "absent" ELSE files["final"]
         /\ worker' # "idle" <=> worker # "idle"
         /\ worker' = "final" => worker = "final"
<1>1. files \in [File -> Content] /\ "temp" \in File /\ "final" \in File /\ "idle" \notin File
  BY TypeSplit DEF UploadIInv, File
<1> QED
  BY <1>1 DEF Remove

LEMMA RemovedFollows ==
  ASSUME UploadIInv, WorkerFollowsQueue, NEW names \in SUBSET File, Remove(names), queue' = queue
  PROVE  WorkerFollowsQueue'
BY Removed DEF WorkerFollowsQueue

LEMMA SubmitFollows ==
  ASSUME UploadIInv, WorkerFollowsQueue, NEW a \in Actor, Submit(a)
  PROVE  WorkerFollowsQueue' /\ queue' \in {queue, NoEntry, [attempt |-> Seen(a).attempts, state |-> "waiting"]}
<1> DEFINE mine == [attempt |-> Seen(a).attempts, state |-> "waiting"]
           replay == IF queue = NoEntry THEN "replace"
                     ELSE Replay(queue.attempt, mine.attempt, queue.state)
<1>1. queue' = queue \/ (replay = "replace" /\ queue' \in {NoEntry, mine})
  BY DEF Submit
<1>2. queue.attempt \in Nat /\ mine.attempt \in Nat
  <2>1. local[a].pc = "submit" /\ Working(a)
    BY Pcs DEF Submit, Working
  <2>2. Seen(a).attempts \in Nat
    BY <2>1, SeenRow, RowFields
  <2> QED
    BY <2>2, TypeSplit DEF UploadIInv, Entry
<1>3. replay = "replace" => queue.state # "active"
  <2>1. CASE queue = NoEntry
    BY <2>1 DEF NoEntry
  <2>2. CASE queue # NoEntry
    BY <1>2, <2>2 DEF Replay
  <2> QED
    BY <2>1, <2>2
<1>4. UNCHANGED <<files, worker>>
  BY DEF Submit
<1> QED
  BY <1>1, <1>3, <1>4 DEF WorkerFollowsQueue, NoEntry

LEMMA RenameFollows ==
  ASSUME UploadIInv, WorkerFollowsQueue, NEW a \in Actor, Rename(a)
  PROVE  WorkerFollowsQueue'
<1>1. files \in [File -> Content] /\ "temp" \in File /\ "final" \in File
  BY TypeSplit DEF UploadIInv, File
<1>2. CASE UNCHANGED <<files, worker>>
  BY <1>2 DEF Rename, WorkerFollowsQueue
<1>3. CASE files' = [files EXCEPT !["final"] = files["temp"], !["temp"] = "absent"]
           /\ worker' = IF worker = "temp" THEN "final" ELSE worker
  <2>1. files'["temp"] = "absent"
    BY <1>1, <1>3
  <2> QED
    BY <1>3, <2>1 DEF Rename, WorkerFollowsQueue
<1> QED
  BY <1>2, <1>3 DEF Rename

LEMMA WorkFollows ==
  ASSUME UploadIInv, WorkerFollowsQueue, Work \/ WorkerCrash
  PROVE  WorkerFollowsQueue'
<1>1. /\ files \in [File -> Content] /\ "temp" \in File
      /\ \A s : [queue EXCEPT !.state = s].state = s
  BY TypeSplit DEF UploadIInv, File, Entry
<1>2. CASE Take
  BY <1>1, <1>2 DEF Take, WorkerFollowsQueue
<1>3. CASE Reject
  BY <1>1, <1>3 DEF Reject, WorkerFollowsQueue
<1>4. CASE Open
  BY <1>1, <1>4 DEF Open, WorkerFollowsQueue
<1>5. CASE Finished
  <2>1. CASE worker = "temp"
    <3>1. files' = [files EXCEPT !["temp"] = "complete"]
      BY <1>5, <2>1 DEF Finished
    <3> QED
      BY <1>1, <1>5, <2>1, <3>1 DEF Finished, WorkerFollowsQueue
  <2>2. CASE worker # "temp"
    BY <1>1, <1>5, <2>2 DEF Finished, WorkerFollowsQueue
  <2> QED
    BY <2>1, <2>2
<1>6. CASE WorkerCrash
  BY <1>1, <1>6 DEF WorkerCrash, WorkerFollowsQueue
<1> QED
  BY <1>2, <1>3, <1>4, <1>5, <1>6 DEF Work

LEMMA DriveFollows ==
  ASSUME UploadIInv, WorkerFollowsQueue, NEW a \in Actor, Drive(a)
  PROVE  WorkerFollowsQueue'
<1>1. CASE Submit(a) \/ Rename(a)
  BY <1>1, SubmitFollows, RenameFollows
<1>2. CASE Await(a)
  BY <1>2 DEF Await, WorkerFollowsQueue, NoEntry
<1>3. CASE Finish(a) \/ Caught(a) \/ Discard(a)
  <2>1. queue' = queue /\ (UNCHANGED <<files, worker>> \/ \E names \in SUBSET File : Remove(names))
    BY <1>3 DEF Finish, Caught, Discard, File
  <2> QED
    BY <2>1, RemovedFollows DEF WorkerFollowsQueue
<1>4. CASE ~(Submit(a) \/ Rename(a) \/ Await(a) \/ Finish(a) \/ Caught(a) \/ Discard(a))
  <2>1. UNCHANGED <<files, queue, worker>>
    BY <1>4 DEF Drive, ReadyResult, Enqueue, ClaimProcessing, RecordOutputReady, BeginPublication,
                Publish, PublishFailed, GiveUpAttempt, Command
  <2> QED
    BY <2>1 DEF WorkerFollowsQueue
<1> QED
  BY <1>1, <1>2, <1>3, <1>4

LEMMA OthersFollow ==
  ASSUME UploadIInv, WorkerFollowsQueue, NEW a \in Actor, Compensate(a) \/ Recover(a)
  PROVE  WorkerFollowsQueue'
<1>1. CASE RemoveFiles(a) \/ CleanTemp(a) \/ DropInput(a)
  <2>1. queue' = queue /\ (UNCHANGED <<files, worker>> \/ \E names \in SUBSET File : Remove(names))
    BY <1>1 DEF RemoveFiles, CleanTemp, DropInput, File
  <2> QED
    BY <2>1, RemovedFollows DEF WorkerFollowsQueue
<1>2. CASE ~(RemoveFiles(a) \/ CleanTemp(a) \/ DropInput(a))
  <2>1. UNCHANGED <<files, queue, worker>>
    BY <1>2 DEF Compensate, Recover, RequireCompensation, ClaimCompensation, CheckSafe,
                CompensationFailed, CompleteCompensation, ListDue, Observe, RecoverReady,
                RecoverRetry, MarkManualReview, Command
  <2> QED
    BY <2>1 DEF WorkerFollowsQueue
<1> QED
  BY <1>1, <1>2

LEMMA NextFollows ==
  ASSUME UploadIInv, WorkerFollowsQueue, [Next]_vars
  PROVE  WorkerFollowsQueue'
<1>1. CASE Reserve
  <2>1. files \in [File -> Content] /\ "temp" \in File /\ "input" \in File
    BY TypeSplit DEF UploadIInv, File
  <2> QED
    BY <1>1, <2>1 DEF Reserve, WorkerFollowsQueue
<1>2. CASE ReadBack
  <2>1. queue' = queue /\ (UNCHANGED <<files, worker>> \/ Remove({"input"}))
    BY <1>2 DEF ReadBack
  <2> QED
    BY <2>1, RemovedFollows DEF WorkerFollowsQueue, File
<1>3. CASE Work \/ WorkerCrash
  BY <1>3, WorkFollows
<1>4. CASE Attach \/ Tick \/ UNCHANGED vars
  BY <1>4 DEF Attach, Tick, vars, WorkerFollowsQueue
<1>5. ASSUME NEW a \in Actor, Drive(a) \/ Compensate(a) \/ Recover(a) \/ Crash(a)
      PROVE  WorkerFollowsQueue'
  BY <1>5, DriveFollows, OthersFollow DEF Crash, WorkerFollowsQueue
<1> QED
  BY <1>1, <1>2, <1>3, <1>4, <1>5 DEF Next, Actor

(* The worker works exactly while the queue says so, and a completed job   *)
(* has no unfinished private output, whatever was removed, renamed or      *)
(* replaced meanwhile (bullmq-executor.ts, image-executor.ts).             *)
THEOREM WorkerHasItsJob == Spec => []WorkerFollowsQueue
<1>1. Init => WorkerFollowsQueue
  BY DEF Init, WorkerFollowsQueue, NoEntry
<1> QED
  BY <1>1, NextFollows, UploadInductive, PTL DEF Spec

-----------------------------------------------------------------------------
(* Punctual holders *)

(* An actor holds the row while it works under the live lease of its       *)
(* attempt; it holds it in one of some states when it also saw it so.      *)
Holds(a) ==
  /\ InState(Attempting) /\ row.lease.owner = a /\ LiveLease(row, now)
  /\ Seen(a) # None /\ Seen(a).lease = row.lease

HoldsIn(a, states) == Holds(a) /\ Seen(a) = row /\ row.state \in states
Overdue(a) == LapsedLease(Seen(a), local[a].at)

HolderOK(a) ==
  LET pc == local[a].pc
  IN /\ pc \in {"submit", "await", "recordOutput"} => HoldsIn(a, {"processing"})
     /\ pc = "beginPublication" => HoldsIn(a, {"output_ready"})
     /\ pc \in {"rename", "publish"} => HoldsIn(a, {"publishing"})
     /\ pc \in {"discard", "giveUp"} => HoldsIn(a, {"processing", "output_ready"})
     /\ pc \in {"caught", "caughtAmbiguous"} => Holds(a)
     /\ pc = "publishFailed" => InState({"ready"}) \/ (Holds(a) /\ row.state = "publishing")
     /\ pc = "caughtPublished" =>
          InState({"ready"} \union Withdrawing) \/ (Holds(a) /\ row.state = "publishing")
     /\ pc = "compensate" =>
          \/ Seen(a).state \in Withdrawing
          \/ HoldsIn(a, {"publishing"})
          \/ Overdue(a) /\ local[a].caller # "publish"
     /\ pc \in {"recordOutput", "beginPublication", "rename"} => queue.state = "completed"
     /\ pc \in {"recoverReady", "cleanTemp", "recoverRetry"} => Overdue(a)
     /\ pc \in {"cleanTemp", "recoverRetry"} /\ Seen(a) = row => files["final"] = "absent"

(* The states in which nothing of the image is public.                     *)
Private == {"requested", "queued", "processing", "output_ready", "failed"}

FinalOK ==
  /\ files["final"] # "partial" /\ worker # "final"
  /\ row = None \/ InState(Private) => files["final"] = "absent"

HoldersInv == FinalOK /\ \A a \in Actor : HolderOK(a)
BaseInv == UploadIInv /\ InOrder /\ WorkerFollowsQueue

Guarded == {"submit", "await", "recordOutput", "beginPublication", "rename", "publish", "discard",
            "giveUp", "caught", "caughtAmbiguous", "publishFailed", "caughtPublished", "compensate",
            "recoverReady", "cleanTemp", "recoverRetry"}

LEMMA Unguarded ==
  ASSUME NEW a \in Actor, local[a].pc \notin Guarded
  PROVE  HolderOK(a)
BY DEF HolderOK, Guarded

LEMMA UnguardedNext ==
  ASSUME NEW a \in Actor, NEW pc, pc \notin Guarded, NEW seen, Moved(a, pc, seen)
  PROVE  HolderOK(a)'
BY DEF HolderOK, Guarded, Moved

(* Who may write the row: its holder, anybody if it is not being           *)
(* attempted, and anybody once the lease of the attempt has lapsed.        *)
Entitled(a) == Holds(a) \/ row.state \notin Attempting \/ LapsedLease(row, now)

Writes(a) ==
  /\ row # None /\ row' # None /\ Entitled(a)
  /\ row.state # "ready" /\ files' = files /\ local'[a] # local[a]
  /\ row.state \in Withdrawing => row'.state \in Withdrawing

StepBy(a) ==
  /\ row' = row \/ Writes(a)
  /\ queue' = queue \/ Holds(a)
  /\ files'["final"] \in {files["final"], "absent"} \/ Holds(a)
  /\ HolderOK(a)' /\ FinalOK'

LEMMA OneHolder ==
  ASSUME UploadIInv, NEW a \in Actor, NEW b \in Actor, Holds(b), b # a
  PROVE  ~Holds(a) /\ ~Entitled(a)
BY DEF Holds, Entitled, LapsedLease, InState

(* A lease that had lapsed when an actor looked has lapsed by now.         *)
LEMMA StaysLapsed ==
  ASSUME BaseInv, NEW a \in Actor, row # None, NEW at \in Nat, at <= now, LapsedLease(row, at)
  PROVE  LapsedLease(row, now) /\ ~LiveLease(row, now)
<1>1. row.lease.expiresAt \in Nat /\ now \in Nat
  <2>1. RowOK(row)
    BY DEF BaseInv, UploadIInv
  <2>2. row.lease \in Lease
    BY <2>1, RowFields DEF LapsedLease
  <2> QED
    BY <2>2, Clocks DEF BaseInv, Lease
<1> QED
  BY <1>1 DEF LapsedLease, LiveLease

LEMMA OtherHolders ==
  ASSUME BaseInv, BaseInv', HoldersInv, NEW a \in Actor, RowOn, SeesOn(a), now' = now, StepBy(a),
         row # None
  PROVE  HoldersInv'
<1> SUFFICES ASSUME NEW b \in Actor, b # a PROVE HolderOK(b)'
  BY DEF HoldersInv, StepBy
<1>1. HolderOK(b) /\ SeenInOrder(b) /\ local'[b] = local[b] /\ Seen(b)' = Seen(b)
  BY DEF HoldersInv, BaseInv, InOrder, SeesOn, Seen
<1>2. ASSUME Holds(b)
      PROVE  row' = row /\ queue' = queue /\ Holds(b)'
  <2>1. ~Holds(a) /\ ~Entitled(a)
    BY <1>2, OneHolder DEF BaseInv
  <2>2. row' = row /\ queue' = queue
    BY <2>1 DEF StepBy, Writes
  <2> QED
    BY <1>1, <1>2, <2>2 DEF Holds, InState
<1>3. ASSUME NEW states, HoldsIn(b, states) PROVE HoldsIn(b, states)' /\ queue' = queue
  BY <1>1, <1>2, <1>3 DEF HoldsIn
<1>4. InState({"ready"}) => InState({"ready"})'
  BY DEF StepBy, Writes, InState
<1>5. InState({"ready"} \union Withdrawing) => InState({"ready"} \union Withdrawing)'
  <2>1. row' # None
    BY DEF StepBy, Writes
  <2> QED
    BY <2>1 DEF StepBy, Writes, InState
<1>6. ASSUME local[b].pc \in {"cleanTemp", "recoverRetry"}, Seen(b) = row'
      PROVE  files'["final"] = "absent"
  <2>1. Overdue(b) /\ local[b].at \in Nat /\ local[b].at <= now
    BY <1>1, <1>6, Clocks DEF HolderOK, SeenInOrder, BaseInv
  <2>2. Seen(b) # None
    BY <1>6, Pcs, SeenRow, RowFields DEF BaseInv, Working
  <2>3. row' = row
    <3>1. row.version \in Nat
      BY <2>2, SeenEarlier DEF BaseInv
    <3> QED
      BY <1>1, <1>6, <2>2, <3>1 DEF RowOn, SeenInOrder
  <2>4. ~Holds(a)
    BY <1>6, <2>1, <2>3, StaysLapsed DEF Overdue, Holds
  <2>5. files["final"] = "absent"
    BY <1>1, <1>6, <2>3 DEF HolderOK
  <2> QED
    BY <2>4, <2>5 DEF StepBy
<1>7. Holds(b) /\ row.state = "publishing" => (Holds(b) /\ row.state = "publishing")'
  BY <1>2
<1>8. Overdue(b) => Overdue(b)'
  BY <1>1 DEF Overdue
<1> QED
  BY <1>1, <1>2, <1>3, <1>4, <1>5, <1>6, <1>7, <1>8 DEF HolderOK

LEMMA StaysReserved ==
  ASSUME UploadIInv, UploadIInv', row # None, NEW a \in Actor, NEW pc, pc # "reserve", NEW seen,
         Moved(a, pc, seen)
  PROVE  row' # None
BY DEF UploadIInv, Reserved, Moved, Actor

(* A command of an actor that is entitled to it.                           *)
LEMMA HolderCommand ==
  ASSUME BaseInv, BaseInv', FinalOK, NEW a \in Actor, Working(a), NEW may, NEW after, NEW at \in Nat,
         NEW onward, NEW onError, Command(a, may, after, at, onward, onError),
         onward \notin {local[a].pc, "reserve"}, onError \notin {local[a].pc, "reserve"},
         Wrote(a, may, after, at)
           => /\ Entitled(a) /\ row.state # "ready"
              /\ row.state \in Withdrawing => after.state \in Withdrawing
              /\ after.state \in Private => files["final"] = "absent",
         Same /\ row' = row /\ Moved(a, onError, Seen(a)) => HolderOK(a)',
         Same /\ Wrote(a, may, after, at) /\ row' # None
           /\ (Moved(a, onward, row') \/ Moved(a, onError, Seen(a))) => HolderOK(a)'
  PROVE  StepBy(a)
<1>1. /\ Same
      /\ \/ row' = row /\ Moved(a, onError, Seen(a))
         \/ /\ Wrote(a, may, after, at)
            /\ Moved(a, onward, row') \/ Moved(a, onError, Seen(a))
  BY CommandMoves DEF BaseInv, InOrder
<1>2. row # None
  BY SeenRow DEF BaseInv
<1>3. CASE row' = row /\ Moved(a, onError, Seen(a))
  BY <1>1, <1>3 DEF StepBy, FinalOK, InState, Same
<1>4. CASE Wrote(a, may, after, at) /\ (Moved(a, onward, row') \/ Moved(a, onError, Seen(a)))
  <2>1. row' # None /\ local'[a] # local[a]
    <3>1. PICK pc, seen : Moved(a, pc, seen) /\ pc \in {onward, onError}
      BY <1>4
    <3> QED
      BY <1>2, <3>1, StaysReserved DEF BaseInv, Moved
  <2>2. row' = after /\ Writes(a)
    BY <1>1, <1>2, <1>4, <2>1 DEF Writes, Wrote, Same
  <2>3. FinalOK'
    BY <1>1, <1>4, <2>1, <2>2 DEF FinalOK, InState, Same
  <2> QED
    BY <1>1, <1>4, <2>1, <2>2, <2>3 DEF StepBy, Same
<1> QED
  BY <1>1, <1>3, <1>4

(* A step that leaves row, queue and public file alone.                    *)
LEMMA HolderPlain ==
  ASSUME FinalOK, NEW a \in Actor, UNCHANGED <<row, files, queue, worker>>, HolderOK(a)'
  PROVE  StepBy(a)
BY DEF StepBy, FinalOK, InState

LEMMA HolderRemoves ==
  ASSUME UploadIInv, FinalOK, NEW a \in Actor, UNCHANGED <<row, queue>>, HolderOK(a)',
         NEW names \in SUBSET File, Remove(names)
  PROVE  StepBy(a)
BY Removed DEF StepBy, FinalOK, InState

-----------------------------------------------------------------------------
(* The steps of a driver *)

(* The state and the lease that each command leaves.                       *)
LEMMA NextState ==
  ASSUME NEW j, RowOK(j), NEW at, NEW t, NEW l
  PROVE  /\ AfterEnqueue(j, t, at).state = "queued"
         /\ AfterClaimProcessing(j, l, at).state = "processing"
         /\ AfterClaimProcessing(j, l, at).lease = l
         /\ AfterRecordOutputReady(j, at).state = "output_ready"
         /\ AfterRecordOutputReady(j, at).lease = j.lease
         /\ AfterBeginPublication(j, at).state = "publishing"
         /\ AfterBeginPublication(j, at).lease = j.lease
         /\ AfterRequireCompensation(j, t, at).state = "compensation_required"
         /\ AfterClaimCompensation(j, l, at).state = "compensating"
         /\ AfterMarkCompensated(j, at).state = "compensated"
         /\ AfterMarkManualReview(j, at).state = "manual_review"
         /\ AfterRecordCompensationFailure(j, t, at).state \in {"compensation_required", "manual_review"}
         /\ AfterRecoverRetry(j, t, at).state \in {"queued", "failed"}
<1>1. j \in Job
  BY RowFields
<1>2. AfterRecordCompensationFailure(j, t, at).state \in {"compensation_required", "manual_review"}
  BY <1>1 DEF AfterRecordCompensationFailure, Advance, Job
<1>3. AfterRecoverRetry(j, t, at).state \in {"queued", "failed"}
  BY <1>1 DEF AfterRecoverRetry, RetryLater, GiveUp, Advance, Job
<1>4. /\ AfterEnqueue(j, t, at).state = "queued"
      /\ AfterClaimProcessing(j, l, at).state = "processing"
      /\ AfterClaimProcessing(j, l, at).lease = l
      /\ AfterRecordOutputReady(j, at).state = "output_ready"
      /\ AfterRecordOutputReady(j, at).lease = j.lease
      /\ AfterBeginPublication(j, at).state = "publishing"
      /\ AfterBeginPublication(j, at).lease = j.lease
  BY <1>1 DEF AfterEnqueue, AfterClaimProcessing, AfterRecordOutputReady, AfterBeginPublication,
              Advance, Job
<1>5. /\ AfterRequireCompensation(j, t, at).state = "compensation_required"
      /\ AfterClaimCompensation(j, l, at).state = "compensating"
      /\ AfterMarkCompensated(j, at).state = "compensated"
      /\ AfterMarkManualReview(j, at).state = "manual_review"
  BY <1>1 DEF AfterRequireCompensation, AfterClaimCompensation, AfterMarkCompensated,
              AfterMarkManualReview, Advance, Job
<1> QED
  BY <1>2, <1>3, <1>4, <1>5

LEMMA FailureState ==
  ASSUME NEW j, RowOK(j), NEW at, NEW t
  PROVE  /\ j.state \in {"processing", "output_ready"} => AfterRecordFailure(j, FALSE, None, at).state = "failed"
         /\ AfterRecordFailure(j, TRUE, t, at).state = "compensation_required"
<1>1. j \in Job
  BY RowFields
<1> QED
  BY <1>1 DEF AfterRecordFailure, AfterRequireCompensation, GiveUp, Advance, Job

LEMMA EnqueueHolds ==
  ASSUME BaseInv, BaseInv', HoldersInv, NEW a \in Actor, Enqueue(a)
  PROVE  StepBy(a)
<1>1. PICK at : /\ at \in Nat /\ local[a].pc = "enqueue"
                /\ Command(a, MayEnqueue(row, at, at), AfterEnqueue(row, at, at), at, "claim", End(a))
  BY Clocks DEF Enqueue, BaseInv
<1>2. Working(a) /\ row # None /\ FinalOK /\ {"claim", End(a)} \intersect (Guarded \union {"enqueue", "reserve"}) = {}
  BY <1>1, Pcs, SeenRow DEF Working, BaseInv, HoldersInv, Guarded, End
<1>3. ASSUME Wrote(a, MayEnqueue(row, at, at), AfterEnqueue(row, at, at), at)
      PROVE  /\ Entitled(a) /\ row.state # "ready"
             /\ row.state \in Withdrawing => AfterEnqueue(row, at, at).state \in Withdrawing
             /\ AfterEnqueue(row, at, at).state \in Private => files["final"] = "absent"
  BY <1>2, <1>3 DEF Wrote, MayEnqueue, Entitled, Attempting, Withdrawing, FinalOK, InState, Private
<1>4. \A pc, s : Moved(a, pc, s) /\ pc \in {"claim", End(a)} => HolderOK(a)'
  BY <1>2, UnguardedNext
<1> QED
  BY <1>1, <1>2, <1>3, <1>4, HolderCommand

LEMMA ClaimProcessingHolds ==
  ASSUME BaseInv, BaseInv', HoldersInv, NEW a \in Actor, ClaimProcessing(a)
  PROVE  StepBy(a)
<1> DEFINE may == MayClaimProcessing(row, now, now + JobLease)
           after == AfterClaimProcessing(row, ProcessingLease(a), now)
<1>1. local[a].pc = "claim" /\ Command(a, may, after, now, "submit", End(a))
  BY DEF ClaimProcessing
<1>2. /\ Working(a) /\ row # None /\ FinalOK /\ now \in Nat
      /\ End(a) \notin Guarded \union {"claim", "reserve"} /\ "submit" \notin {"claim", "reserve"}
  BY <1>1, Pcs, Clocks, SeenRow DEF Working, BaseInv, HoldersInv, Guarded, End
<1>3. ASSUME Wrote(a, may, after, now)
      PROVE  /\ Entitled(a) /\ row.state # "ready"
             /\ row.state \in Withdrawing => after.state \in Withdrawing
             /\ after.state \in Private => files["final"] = "absent"
  BY <1>2, <1>3 DEF Wrote, MayClaimProcessing, Entitled, Attempting, Withdrawing, FinalOK, InState, Private
<1>4. \A s : Moved(a, End(a), s) => HolderOK(a)'
  BY <1>2, UnguardedNext
<1>5. ASSUME Same, Wrote(a, may, after, now), row' # None, Moved(a, "submit", row')
      PROVE  HolderOK(a)'
  <2>1. row'.state = "processing" /\ row'.lease = ProcessingLease(a)
    BY <1>5, NextState DEF Wrote, Applying
  <2>2. row'.lease.owner = a /\ row'.lease.expiresAt = now + JobLease /\ row'.lease # None
    <3>1. RowOK(row')
      BY <1>5 DEF BaseInv, UploadIInv
    <3> QED
      BY <2>1, <3>1, RowFields DEF ProcessingLease, LeaseFor, Leased, Attempting
  <2>3. LiveLease(row', now)
    BY <1>2, <2>2, UploadConstants DEF LiveLease
  <2>4. local'[a].pc = "submit" /\ local'[a].seen = row'
    BY <1>5, Pcs DEF Moved
  <2>5. HoldsIn(a, {"processing"})'
    BY <1>5, <2>1, <2>2, <2>3, <2>4 DEF Same, HoldsIn, Holds, InState, Attempting, Seen
  <2> QED
    BY <2>4, <2>5 DEF HolderOK
<1> HIDE DEF may, after
<1> QED
  BY <1>1, <1>2, <1>3, <1>4, <1>5, HolderCommand

(* A holder that goes on with what it saw is still the holder.             *)
LEMMA HoldsOn ==
  ASSUME NEW a \in Actor, NEW pc \in Running, Moved(a, pc, Seen(a)), UNCHANGED <<now, row>>
  PROVE  /\ Holds(a) => Holds(a)'
         /\ \A states : HoldsIn(a, states) => HoldsIn(a, states)'
         /\ Seen(a)' = Seen(a) /\ local'[a].pc = pc
<1>1. Seen(a)' = Seen(a) /\ local'[a].pc = pc
  BY DEF Moved, Seen
<1>2. Holds(a) => Holds(a)'
  BY <1>1 DEF Holds, InState
<1> QED
  BY <1>1, <1>2 DEF HoldsIn

LEMMA SubmitHolds ==
  ASSUME BaseInv, BaseInv', HoldersInv, NEW a \in Actor, Submit(a)
  PROVE  StepBy(a)
<1>1. /\ HoldsIn(a, {"processing"}) /\ Holds(a) /\ FinalOK
      /\ UNCHANGED <<now, row, files, upload, worker>>
  BY DEF Submit, HoldersInv, HolderOK, HoldsIn
<1>2. PICK pc : pc \in {"await", "caught", "caughtAmbiguous"} /\ Stay(a, pc)
  BY DEF Submit
<1>3. pc \in Running /\ Moved(a, pc, Seen(a))
  BY <1>2, Pcs, StayMoves DEF BaseInv
<1>4. HoldsIn(a, {"processing"})' /\ Holds(a)' /\ local'[a].pc = pc
  BY <1>1, <1>3, HoldsOn
<1>5. HolderOK(a)'
  BY <1>2, <1>4 DEF HolderOK
<1> QED
  BY <1>1, <1>5 DEF StepBy, FinalOK, InState

LEMMA AwaitHolds ==
  ASSUME BaseInv, BaseInv', HoldersInv, NEW a \in Actor, Await(a)
  PROVE  StepBy(a)
<1>1. /\ HoldsIn(a, {"processing"}) /\ Holds(a) /\ FinalOK
      /\ UNCHANGED <<now, row, files, upload, worker>>
  BY DEF Await, HoldersInv, HolderOK, HoldsIn
<1>2. PICK pc : /\ pc \in {"recordOutput", "caught", "caughtAmbiguous"} /\ Stay(a, pc)
                /\ pc = "recordOutput" => queue.state = "completed" /\ queue' = queue
  BY DEF Await
<1>3. pc \in Running /\ Moved(a, pc, Seen(a))
  BY <1>2, Pcs, StayMoves DEF BaseInv
<1>4. HoldsIn(a, {"processing"})' /\ Holds(a)' /\ local'[a].pc = pc
  BY <1>1, <1>3, HoldsOn
<1>5. HolderOK(a)'
  BY <1>2, <1>4 DEF HolderOK
<1> QED
  BY <1>1, <1>5 DEF StepBy, FinalOK, InState

(* The holder renews the row under its lease.                              *)
LEMMA HoldsAfter ==
  ASSUME NEW a \in Actor, Holds(a), Same, row' # None, row'.lease = row.lease,
         row'.state \in Attempting, Seen(a) = row, NEW pc \in Running,
         Moved(a, pc, row') \/ Moved(a, pc, Seen(a))
  PROVE  /\ Holds(a)' /\ local'[a].pc = pc
         /\ Moved(a, pc, row') => Seen(a)' = row'
<1>1. local'[a].pc = pc /\ (local'[a].seen = row' \/ local'[a].seen = row)
  BY DEF Moved
<1>2. Holds(a)'
  BY <1>1 DEF Holds, InState, Seen, LiveLease, Same
<1> QED
  BY <1>1, <1>2 DEF Moved, Seen

LEMMA RecordOutputReadyHolds ==
  ASSUME BaseInv, BaseInv', HoldersInv, NEW a \in Actor, RecordOutputReady(a)
  PROVE  StepBy(a)
<1> DEFINE may == MayRecordOutputReady(row, LeaseToken(a), now)
           after == AfterRecordOutputReady(row, now)
<1>1. local[a].pc = "recordOutput" /\ Command(a, may, after, now, "beginPublication", "caught")
  BY DEF RecordOutputReady
<1>2. /\ Working(a) /\ row # None /\ FinalOK /\ now \in Nat /\ {"beginPublication", "caught"} \subseteq Running
      /\ HoldsIn(a, {"processing"}) /\ Holds(a) /\ queue.state = "completed"
  BY <1>1, Pcs, Clocks, SeenRow DEF Working, BaseInv, HoldersInv, HolderOK, HoldsIn
<1>3. ASSUME Wrote(a, may, after, now)
      PROVE  /\ Entitled(a) /\ row.state # "ready"
             /\ row.state \in Withdrawing => after.state \in Withdrawing
             /\ after.state \in Private => files["final"] = "absent"
  BY <1>2, <1>3 DEF Wrote, HoldsIn, Entitled, Withdrawing, FinalOK, InState, Private
<1>4. ASSUME Same, row' = row, Moved(a, "caught", Seen(a)) PROVE HolderOK(a)'
  BY <1>2, <1>4, HoldsOn DEF Same, HolderOK
<1>5. ASSUME Same, Wrote(a, may, after, now), row' # None,
             Moved(a, "beginPublication", row') \/ Moved(a, "caught", Seen(a))
      PROVE  HolderOK(a)'
  <2>1. row'.state = "output_ready" /\ row'.lease = row.lease /\ Seen(a) = row
    BY <1>5, NextState DEF Wrote, Applying
  <2>2. CASE Moved(a, "beginPublication", row')
    BY <1>2, <1>5, <2>1, <2>2, HoldsAfter DEF HolderOK, HoldsIn, Same, Attempting
  <2>3. CASE Moved(a, "caught", Seen(a))
    BY <1>2, <1>5, <2>1, <2>3, HoldsAfter DEF HolderOK, Attempting
  <2> QED
    BY <1>5, <2>2, <2>3
<1> HIDE DEF may, after
<1> QED
  BY <1>1, <1>2, <1>3, <1>4, <1>5, HolderCommand

LEMMA BeginPublicationHolds ==
  ASSUME BaseInv, BaseInv', HoldersInv, NEW a \in Actor, BeginPublication(a)
  PROVE  StepBy(a)
<1> DEFINE may == MayBeginPublication(row, LeaseToken(a), now)
           after == AfterBeginPublication(row, now)
<1>1. local[a].pc = "beginPublication" /\ Command(a, may, after, now, "rename", "caught")
  BY DEF BeginPublication
<1>2. /\ Working(a) /\ row # None /\ FinalOK /\ now \in Nat /\ {"rename", "caught"} \subseteq Running
      /\ HoldsIn(a, {"output_ready"}) /\ Holds(a) /\ queue.state = "completed"
  BY <1>1, Pcs, Clocks, SeenRow DEF Working, BaseInv, HoldersInv, HolderOK, HoldsIn
<1>3. ASSUME Wrote(a, may, after, now)
      PROVE  /\ Entitled(a) /\ row.state # "ready"
             /\ row.state \in Withdrawing => after.state \in Withdrawing
             /\ after.state \in Private => files["final"] = "absent"
  BY <1>2, <1>3 DEF Wrote, HoldsIn, Entitled, Withdrawing, FinalOK, InState, Private
<1>4. ASSUME Same, row' = row, Moved(a, "caught", Seen(a)) PROVE HolderOK(a)'
  BY <1>2, <1>4, HoldsOn DEF Same, HolderOK
<1>5. ASSUME Same, Wrote(a, may, after, now), row' # None,
             Moved(a, "rename", row') \/ Moved(a, "caught", Seen(a))
      PROVE  HolderOK(a)'
  <2>1. row'.state = "publishing" /\ row'.lease = row.lease /\ Seen(a) = row
    BY <1>5, NextState DEF Wrote, Applying
  <2>2. CASE Moved(a, "rename", row')
    BY <1>2, <1>5, <2>1, <2>2, HoldsAfter DEF HolderOK, HoldsIn, Same, Attempting
  <2>3. CASE Moved(a, "caught", Seen(a))
    BY <1>2, <1>5, <2>1, <2>3, HoldsAfter DEF HolderOK, Attempting
  <2> QED
    BY <1>5, <2>2, <2>3
<1> HIDE DEF may, after
<1> QED
  BY <1>1, <1>2, <1>3, <1>4, <1>5, HolderCommand

(* The holder renames the finished output of a job that is over.           *)
LEMMA RenameHolds ==
  ASSUME BaseInv, BaseInv', HoldersInv, NEW a \in Actor, Rename(a)
  PROVE  StepBy(a)
<1>1. /\ HoldsIn(a, {"publishing"}) /\ Holds(a) /\ FinalOK /\ queue.state = "completed"
      /\ UNCHANGED <<now, row, upload, queue>> /\ row # None
  <2>1. UNCHANGED <<row, upload, queue>> /\ local[a].pc = "rename"
    BY DEF Rename
  <2>2. now' = now
    BY DEF Rename
  <2> QED
    BY <2>1, <2>2 DEF HoldersInv, HolderOK, HoldsIn, Holds, InState
<1>2. worker = "idle" /\ files["temp"] # "partial" /\ row.state = "publishing"
  BY <1>1 DEF BaseInv, WorkerFollowsQueue, HoldsIn
<1>3. CASE Stay(a, "caught") /\ UNCHANGED <<files, worker>>
  <2>1. Moved(a, "caught", Seen(a)) /\ "caught" \in Running
    BY <1>3, StayMoves, Pcs DEF BaseInv
  <2>2. Holds(a)' /\ local'[a].pc = "caught"
    BY <1>1, <2>1, HoldsOn
  <2>3. HolderOK(a)'
    BY <2>2 DEF HolderOK
  <2> QED
    BY <1>1, <1>3, <2>3 DEF StepBy, FinalOK, InState
<1>4. CASE /\ files' = [files EXCEPT !["final"] = files["temp"], !["temp"] = "absent"]
           /\ worker' = IF worker = "temp" THEN "final" ELSE worker
           /\ local' = [local EXCEPT ![a].pc = "publish", ![a].at = now]
  <2>1. local \in [Actor -> Local] /\ local[a] \in Local /\ files \in [File -> Content] /\ "final" \in File
    BY TypeSplit DEF BaseInv, UploadIInv, File
  <2>2. local' = [local EXCEPT ![a] = [local[a] EXCEPT !.pc = "publish", !.at = now]]
    BY <1>4, <2>1
  <2>3. local'[a] = [local[a] EXCEPT !.pc = "publish", !.at = now]
    BY <2>1, <2>2
  <2>4. local'[a].seen = local[a].seen /\ local'[a].pc = "publish"
    BY <2>1, <2>3 DEF Local
  <2>5. HoldsIn(a, {"publishing"})'
    BY <1>1, <2>4 DEF HoldsIn, Holds, InState, Seen
  <2>6. HolderOK(a)'
    BY <2>4, <2>5 DEF HolderOK
  <2>7. files'["final"] = files["temp"] /\ worker' = "idle"
    BY <1>2, <1>4, <2>1
  <2>8. FinalOK'
    BY <1>1, <1>2, <2>7 DEF FinalOK, InState, Private
  <2> QED
    BY <1>1, <2>6, <2>8 DEF StepBy
<1> QED
  BY <1>3, <1>4 DEF Rename

LEMMA PublishHolds ==
  ASSUME BaseInv, BaseInv', HoldersInv, NEW a \in Actor, Publish(a)
  PROVE  StepBy(a)
<1>1. /\ HoldsIn(a, {"publishing"}) /\ Holds(a) /\ FinalOK /\ row # None /\ row.state = "publishing"
      /\ UNCHANGED <<now, files, queue, worker>> /\ RowOK(row) /\ local[a].pc = "publish"
  <2>1. UNCHANGED <<now, files, queue, worker>> /\ local[a].pc = "publish" /\ Working(a)
    BY Pcs DEF Publish, Working
  <2> QED
    BY <2>1, SeenRow DEF HoldersInv, HolderOK, HoldsIn, BaseInv
<1>2. \/ row' = row /\ Stay(a, "publishFailed")
      \/ /\ row' = AfterMarkReady(row, local[a].at)
         /\ Go(a, "finish", row') \/ Stay(a, "publishFailed")
  BY <1>1 DEF Publish
<1>3. {"finish", "publishFailed"} \subseteq Running /\ "finish" \notin Guarded
  BY Pcs DEF Guarded
<1>4. CASE row' = row /\ Stay(a, "publishFailed")
  <2>1. Holds(a)' /\ local'[a].pc = "publishFailed"
    BY <1>1, <1>3, <1>4, StayMoves, HoldsOn DEF BaseInv
  <2>2. HolderOK(a)'
    BY <1>1, <1>4, <2>1 DEF HolderOK
  <2> QED
    BY <1>1, <1>4, <2>2, HolderPlain
<1>5. CASE /\ row' = AfterMarkReady(row, local[a].at)
           /\ Go(a, "finish", row') \/ Stay(a, "publishFailed")
  <2>1. row'.state = "ready"
    BY <1>1, <1>5 DEF AfterMarkReady, Advance, RowOK, Job
  <2>2. PICK pc, seen : Moved(a, pc, seen) /\ pc \in {"finish", "publishFailed"}
    <3>1. PICK r : r = row'
      OBVIOUS
    <3> QED
      BY <1>5, <3>1, GoMoves, StayMoves DEF BaseInv
  <2>3. row' # None /\ local'[a].pc = pc
    BY <1>1, <2>2, StaysReserved DEF BaseInv, Moved
  <2>4. HolderOK(a)'
    BY <1>3, <2>1, <2>2, <2>3 DEF HolderOK, InState
  <2>5. Writes(a)
    BY <1>1, <2>1, <2>2, <2>3 DEF Writes, Entitled, Withdrawing
  <2>6. FinalOK'
    BY <1>1, <2>1, <2>3 DEF FinalOK, InState, Private
  <2> QED
    BY <1>1, <2>4, <2>5, <2>6 DEF StepBy
<1> QED
  BY <1>2, <1>4, <1>5

(* Taking up the compensation of a row that is being withdrawn or that the *)
(* actor holds while it is being published.                                *)
LEMMA CompensateEntered ==
  ASSUME BaseInv, NEW a \in Actor, UNCHANGED <<now, row>>, row # None, NEW caller \in Caller,
         Enter(a, CompensateFrom(row), row, caller),
         row.state \in Withdrawing \/ (Holds(a) /\ row.state = "publishing")
  PROVE  HolderOK(a)'
<1>1. PICK pc, seen : pc = CompensateFrom(row) /\ seen = row /\ Enter(a, pc, seen, caller)
  OBVIOUS
<1>2. pc \in {"claimCompensation", "checkSafe", "compensate"} /\ pc \in Running
  BY <1>1, CompensateFromRuns, Pcs
<1>3. Moved(a, pc, seen)
  BY <1>1, <1>2, EnterMoves DEF BaseInv
<1>4. CASE pc # "compensate"
  BY <1>2, <1>3, <1>4, UnguardedNext DEF Guarded
<1>5. CASE pc = "compensate"
  <2>1. Seen(a)' = row' /\ local'[a].pc = "compensate"
    BY <1>1, <1>2, <1>3, <1>5 DEF Moved, Seen
  <2>2. Holds(a) /\ row.state = "publishing" => HoldsIn(a, {"publishing"})'
    BY <2>1 DEF HoldsIn, Holds, InState
  <2> QED
    BY <2>1, <2>2 DEF HolderOK
<1> QED
  BY <1>4, <1>5

LEMMA PublishFailedHolds ==
  ASSUME BaseInv, BaseInv', HoldersInv, NEW a \in Actor, PublishFailed(a)
  PROVE  StepBy(a)
<1>1. /\ local[a].pc = "publishFailed" /\ FinalOK /\ UNCHANGED <<now, row, files, upload, queue, worker>>
      /\ InState({"ready"}) \/ (Holds(a) /\ row.state = "publishing")
  <2>1. local[a].pc = "publishFailed" /\ UNCHANGED <<now, row, files, upload, queue, worker>>
    BY DEF PublishFailed
  <2> QED
    BY <2>1 DEF HoldersInv, HolderOK
<1>2. row # None
  BY <1>1 DEF Holds, InState
<1>3. CASE Go(a, "finish", row)
  <2>1. PICK s : Moved(a, "finish", s)
    BY <1>3, GoMoves DEF BaseInv
  <2> QED
    BY <1>1, <2>1, UnguardedNext, HolderPlain DEF Guarded
<1>4. CASE ~Completed /\ Enter(a, CompensateFrom(row), row, "publish")
  <2>1. ~InState({"ready"})
    BY <1>4 DEF BaseInv, UploadIInv, ReadyIntact, Completed, InState
  <2>2. HolderOK(a)'
    BY <1>1, <1>2, <1>4, <2>1, CompensateEntered, Pcs
  <2> QED
    BY <1>1, <2>2, HolderPlain
<1>5. CASE Stay(a, "caughtPublished")
  <2>1. Moved(a, "caughtPublished", Seen(a)) /\ "caughtPublished" \in Running
    BY <1>5, StayMoves, Pcs DEF BaseInv
  <2>2. (Holds(a) => Holds(a)') /\ local'[a].pc = "caughtPublished"
    BY <1>1, <2>1, HoldsOn
  <2>3. HolderOK(a)'
    BY <1>1, <2>2 DEF HolderOK, InState
  <2> QED
    BY <1>1, <2>3, HolderPlain
<1> QED
  BY <1>3, <1>4, <1>5 DEF PublishFailed

LEMMA FinishHolds ==
  ASSUME BaseInv, BaseInv', HoldersInv, NEW a \in Actor, Finish(a)
  PROVE  StepBy(a)
<1>1. InState({"ready"}) /\ FinalOK /\ UNCHANGED <<now, row, upload, queue>>
  BY DEF Finish, BaseInv, UploadIInv, LocalOK, Completing, HoldersInv
<1>2. CASE Remove({"input"}) /\ Stay(a, Answer(a))
  <2>1. HolderOK(a)'
    BY <1>2, StayMoves, UnguardedNext DEF BaseInv, Guarded, Answer
  <2> QED
    BY <1>1, <1>2, <2>1, HolderRemoves DEF BaseInv, File
<1>3. CASE Stay(a, "caughtPublished") /\ UNCHANGED <<files, worker>>
  <2>1. local'[a].pc = "caughtPublished"
    BY <1>3, StayMoves DEF BaseInv, Moved
  <2>2. HolderOK(a)'
    BY <1>1, <2>1 DEF HolderOK, InState
  <2> QED
    BY <1>1, <1>3, <2>2, HolderPlain
<1> QED
  BY <1>2, <1>3 DEF Finish

LEMMA CaughtHolds ==
  ASSUME BaseInv, BaseInv', HoldersInv, NEW a \in Actor, Caught(a)
  PROVE  StepBy(a)
<1> DEFINE pc == local[a].pc
           published == pc = "caughtPublished" \/ row.state = "publishing"
           withdraw == published /\ row.state # "compensated"
           abandon == pc = "caught" /\ ~published /\ row.state \in {"processing", "output_ready"}
<1>1. /\ pc \in {"caught", "caughtAmbiguous", "caughtPublished"} /\ FinalOK
      /\ UNCHANGED <<now, row, upload, queue>>
  BY DEF Caught, HoldersInv
<1>2. /\ pc \in {"caught", "caughtAmbiguous"} => Holds(a)
      /\ InState({"ready"} \union Withdrawing) \/ Holds(a)
      /\ pc = "caughtPublished" => InState({"ready"} \union Withdrawing) \/ row.state = "publishing"
      /\ row # None
  BY <1>1 DEF HoldersInv, HolderOK, Holds, InState
<1>3. CASE Remove({"input"}) /\ Stay(a, Answer(a))
  <2>1. HolderOK(a)'
    BY <1>3, StayMoves, UnguardedNext DEF BaseInv, Guarded, Answer
  <2> QED
    BY <1>1, <1>3, <2>1, HolderRemoves DEF BaseInv, File
<1>4. CASE Stay(a, End(a)) /\ UNCHANGED <<files, worker>>
  <2>1. HolderOK(a)'
    BY <1>4, StayMoves, UnguardedNext DEF BaseInv, Guarded, End
  <2> QED
    BY <1>1, <1>4, <2>1, HolderPlain
<1>5. CASE ~Completed /\ withdraw /\ Enter(a, CompensateFrom(row), row, "catch") /\ UNCHANGED <<files, worker>>
  <2>1. row.state # "ready"
    BY <1>2, <1>5 DEF BaseInv, UploadIInv, ReadyIntact, Completed, InState
  <2>2. row.state \in Withdrawing \/ (Holds(a) /\ row.state = "publishing")
    BY <1>1, <1>2, <1>5, <2>1 DEF InState, Holds, Attempting, Withdrawing
  <2>3. HolderOK(a)'
    BY <1>1, <1>2, <1>5, <2>2, CompensateEntered, Pcs
  <2> QED
    BY <1>1, <1>5, <2>3, HolderPlain
<1>6. CASE abandon /\ Go(a, "discard", row) /\ UNCHANGED <<files, worker>>
  <2>1. Holds(a) /\ row.state \in {"processing", "output_ready"}
    BY <1>2, <1>6
  <2>2. PICK r : r = row /\ Moved(a, "discard", r)
    BY <1>6, GoMoves DEF BaseInv
  <2>3. Seen(a)' = row /\ local'[a].pc = "discard"
    BY <2>2, Pcs DEF Moved, Seen
  <2>4. HoldsIn(a, {"processing", "output_ready"})'
    BY <1>1, <1>2, <2>1, <2>3 DEF HoldsIn, Holds, InState
  <2>5. HolderOK(a)'
    BY <2>3, <2>4 DEF HolderOK
  <2> QED
    BY <1>1, <1>6, <2>5, HolderPlain
<1> QED
  BY <1>3, <1>4, <1>5, <1>6 DEF Caught

LEMMA DiscardHolds ==
  ASSUME BaseInv, BaseInv', HoldersInv, NEW a \in Actor, Discard(a)
  PROVE  StepBy(a)
<1>1. HoldsIn(a, {"processing", "output_ready"}) /\ FinalOK /\ UNCHANGED <<now, row, upload, queue>>
  <2>1. local[a].pc = "discard" /\ UNCHANGED <<now, row, upload, queue>>
    BY DEF Discard
  <2> QED
    BY <2>1 DEF HoldersInv, HolderOK
<1>2. PICK pc : pc \in {"giveUp", End(a)} /\ Stay(a, pc)
  BY DEF Discard
<1>3. HolderOK(a)'
  <2>1. Moved(a, pc, Seen(a))
    BY <1>2, StayMoves DEF BaseInv
  <2>2. CASE pc = "giveUp"
    <3>1. HoldsIn(a, {"processing", "output_ready"})' /\ local'[a].pc = "giveUp"
      BY <1>1, <2>1, <2>2, HoldsOn, Pcs
    <3> QED
      BY <3>1 DEF HolderOK
  <2>3. CASE pc = End(a)
    BY <2>1, <2>3, UnguardedNext DEF Guarded, End
  <2> QED
    BY <1>2, <2>2, <2>3
<1>4. PICK names \in SUBSET File : Remove(names)
  <2>1. {"temp", "input"} \in SUBSET File
    BY DEF File
  <2> QED
    BY <2>1 DEF Discard
<1> QED
  BY <1>1, <1>3, <1>4, HolderRemoves DEF BaseInv

LEMMA GiveUpAttemptHolds ==
  ASSUME BaseInv, BaseInv', HoldersInv, NEW a \in Actor, GiveUpAttempt(a)
  PROVE  StepBy(a)
<1> DEFINE may == MayRecordFailure(row, LeaseToken(a), now)
           after == AfterRecordFailure(row, FALSE, None, now)
<1>1. local[a].pc = "giveUp" /\ Command(a, may, after, now, End(a), End(a))
  BY DEF GiveUpAttempt
<1>2. /\ Working(a) /\ row # None /\ FinalOK /\ now \in Nat /\ RowOK(row)
      /\ HoldsIn(a, {"processing", "output_ready"}) /\ Holds(a)
      /\ End(a) \notin Guarded \union {"giveUp", "reserve"}
  BY <1>1, Pcs, Clocks, SeenRow DEF Working, BaseInv, HoldersInv, HolderOK, HoldsIn, Guarded, End
<1>3. after.state = "failed"
  BY <1>2, FailureState DEF HoldsIn
<1>4. /\ Entitled(a) /\ row.state # "ready"
      /\ row.state \in Withdrawing => after.state \in Withdrawing
      /\ after.state \in Private => files["final"] = "absent"
  BY <1>2, <1>3 DEF HoldsIn, Entitled, Withdrawing, FinalOK, InState, Private
<1>5. \A s : Moved(a, End(a), s) => HolderOK(a)'
  BY <1>2, UnguardedNext
<1> HIDE DEF may, after
<1> QED
  BY <1>1, <1>2, <1>4, <1>5, HolderCommand

LEMMA DriveHolds ==
  ASSUME BaseInv, BaseInv', HoldersInv, NEW a \in Actor, Drive(a)
  PROVE  StepBy(a)
<1>1. CASE ReadyResult(a)
  <2>1. PICK pc : pc \in {"answered", "refused"} /\ Stay(a, pc)
    BY <1>1 DEF ReadyResult
  <2>2. HolderOK(a)'
    BY <2>1, StayMoves, UnguardedNext DEF BaseInv, Guarded
  <2> QED
    BY <1>1, <2>2, HolderPlain DEF ReadyResult, HoldersInv
<1> QED
  BY <1>1, EnqueueHolds, ClaimProcessingHolds, SubmitHolds, AwaitHolds, RecordOutputReadyHolds,
     BeginPublicationHolds, RenameHolds, PublishHolds, PublishFailedHolds, FinishHolds, CaughtHolds,
     DiscardHolds, GiveUpAttemptHolds DEF Drive

-----------------------------------------------------------------------------
(* The steps of a compensation *)

(* Where a compensation returns to: the error path of a publication only   *)
(* runs on while the row is withdrawn, or held and being published.        *)
LEMMA ReturnHolds ==
  ASSUME NEW a \in Actor, NEW seen, Moved(a, Return(a), seen),
         local[a].caller = "publish"
           => InState(Withdrawing)' \/ (Holds(a)' /\ row'.state = "publishing")
  PROVE  HolderOK(a)'
<1>1. CASE local[a].caller = "publish"
  <2>1. local'[a].pc = "caughtPublished"
    BY <1>1 DEF Return, Moved
  <2> QED
    BY <1>1, <2>1 DEF HolderOK, InState
<1>2. CASE local[a].caller # "publish"
  BY <1>2, UnguardedNext DEF Return, End, Guarded
<1> QED
  BY <1>1, <1>2

LEMMA RequireCompensationHolds ==
  ASSUME BaseInv, BaseInv', HoldersInv, NEW a \in Actor, RequireCompensation(a)
  PROVE  StepBy(a)
<1>1. /\ local[a].pc = "compensate" /\ Working(a) /\ row # None /\ RowOK(row) /\ FinalOK /\ now \in Nat
      /\ Before(Seen(a), row)
  <2>1. local[a].pc = "compensate"
    BY DEF RequireCompensation
  <2> QED
    BY <2>1, Pcs, Clocks, SeenRow DEF Working, BaseInv, HoldersInv
<1>2. \/ Seen(a).state \in Withdrawing
      \/ HoldsIn(a, {"publishing"})
      \/ Overdue(a) /\ local[a].caller # "publish"
  BY <1>1 DEF HoldersInv, HolderOK
<1>3. PICK may, after :
        /\ Command(a, may, after, now, "claimCompensation", Return(a))
        /\ after.state = "compensation_required"
        /\ may => row.state # "ready"
  <2> DEFINE holds == LiveLease(Seen(a), now) /\ Seen(a).state \in Attempting
  <2>1. CASE holds
    <3>1. Command(a, MayRecordFailure(row, LeaseToken(a), now), AfterRecordFailure(row, TRUE, now, now),
                  now, "claimCompensation", Return(a))
      BY <2>1 DEF RequireCompensation
    <3> QED
      BY <1>1, <3>1, FailureState DEF MayRecordFailure, Attempting
  <2>2. CASE ~holds
    <3>1. Command(a, MayRequireCompensation(row, now), AfterRequireCompensation(row, now, now),
                  now, "claimCompensation", Return(a))
      BY <2>2 DEF RequireCompensation
    <3>2. AfterRequireCompensation(row, now, now).state = "compensation_required"
      BY <1>1, NextState
    <3>3. MayRequireCompensation(row, now) => row.state # "ready"
      BY DEF MayRequireCompensation
    <3> HIDE DEF holds
    <3> QED
      BY <3>1, <3>2, <3>3
  <2> QED
    BY <2>1, <2>2
<1>4. ASSUME Wrote(a, may, after, now)
      PROVE  /\ Entitled(a) /\ row.state # "ready"
             /\ row.state \in Withdrawing => after.state \in Withdrawing
             /\ after.state \in Private => files["final"] = "absent"
  <2>1. Seen(a) = row
    BY <1>4 DEF Wrote
  <2>2. Entitled(a)
    <3>1. CASE Seen(a).state \in Withdrawing
      BY <2>1, <3>1 DEF Entitled, Withdrawing, Attempting
    <3>2. CASE HoldsIn(a, {"publishing"})
      BY <3>2 DEF HoldsIn, Entitled
    <3>3. CASE Overdue(a)
      <4>1. local[a].at \in Nat /\ local[a].at <= now
        BY Clocks DEF BaseInv, InOrder, SeenInOrder
      <4> QED
        BY <1>1, <2>1, <3>3, <4>1, StaysLapsed DEF Overdue, Entitled
    <3> QED
      BY <1>2, <3>1, <3>2, <3>3
  <2> QED
    BY <1>3, <1>4, <2>2 DEF Wrote, Withdrawing, Private
<1>5. ASSUME Same, row' = row, Moved(a, Return(a), Seen(a)) PROVE HolderOK(a)'
  <2>1. ASSUME local[a].caller = "publish"
        PROVE  InState(Withdrawing)' \/ (Holds(a)' /\ row'.state = "publishing")
    <3>1. CASE Seen(a).state \in Withdrawing
      BY <1>1, <1>5, <3>1 DEF Before, InState
    <3>2. CASE HoldsIn(a, {"publishing"})
      <4>1. Return(a) \in Running
        BY <2>1, Pcs DEF Return
      <4> QED
        BY <1>5, <3>2, <4>1, HoldsOn DEF HoldsIn, Same
    <3> QED
      BY <1>2, <2>1, <3>1, <3>2
  <2> QED
    BY <1>5, <2>1, ReturnHolds
<1>6. ASSUME Same, Wrote(a, may, after, now), row' # None,
             Moved(a, "claimCompensation", row') \/ Moved(a, Return(a), Seen(a))
      PROVE  HolderOK(a)'
  <2>1. InState(Withdrawing)'
    BY <1>3, <1>6 DEF Wrote, InState, Withdrawing
  <2>2. CASE Moved(a, "claimCompensation", row')
    <3>1. PICK r : Moved(a, "claimCompensation", r)
      BY <2>2
    <3> QED
      BY <3>1, UnguardedNext DEF Guarded
  <2>3. CASE Moved(a, Return(a), Seen(a))
    BY <2>1, <2>3, ReturnHolds
  <2> QED
    BY <1>6, <2>2, <2>3
<1>7. "claimCompensation" \notin {local[a].pc, "reserve"} /\ Return(a) \notin {local[a].pc, "reserve"}
  BY <1>1 DEF Return, End
<1> QED
  BY <1>1, <1>3, <1>4, <1>5, <1>6, <1>7, HolderCommand

(* A command on a row that is being withdrawn already.                     *)
LEMMA UndoingCommand ==
  ASSUME BaseInv, BaseInv', HoldersInv, NEW a \in Actor, local[a].pc \in Undoing, NEW may, NEW after,
         NEW at \in Nat, NEW onward, onward \in {"checkSafe", Return(a)} \ {local[a].pc},
         Command(a, may, after, at, onward, Return(a)), RowOK(row) => after.state \in Withdrawing
  PROVE  StepBy(a)
<1>1. Working(a) /\ row # None /\ RowOK(row) /\ FinalOK /\ row.state \in Withdrawing
  <2>1. Working(a)
    BY Pcs DEF Undoing, Working
  <2> QED
    BY <2>1, SeenRow DEF BaseInv, HoldersInv, LocalOK, InState
<1>2. /\ Entitled(a) /\ row.state # "ready" /\ after.state \in Withdrawing /\ after.state \notin Private
  BY <1>1 DEF Entitled, Withdrawing, Attempting, Private
<1>3. /\ onward \notin {local[a].pc, "reserve"} /\ Return(a) \notin {local[a].pc, "reserve"}
  BY DEF Undoing, Return, End
<1>4. ASSUME Same, row' = row, Moved(a, Return(a), Seen(a)) PROVE HolderOK(a)'
  BY <1>1, <1>4, ReturnHolds DEF InState
<1>5. ASSUME Wrote(a, may, after, at), row' # None,
             Moved(a, onward, row') \/ Moved(a, Return(a), Seen(a))
      PROVE  HolderOK(a)'
  <2>1. InState(Withdrawing)'
    BY <1>2, <1>5 DEF Wrote, InState
  <2>2. PICK pc, seen : Moved(a, pc, seen) /\ pc \in {"checkSafe", Return(a)}
    BY <1>5
  <2>3. CASE pc = Return(a)
    BY <2>1, <2>2, <2>3, ReturnHolds
  <2>4. CASE pc = "checkSafe"
    BY <2>2, <2>4, UnguardedNext DEF Guarded
  <2> QED
    BY <2>2, <2>3, <2>4
<1> QED
  BY <1>1, <1>2, <1>3, <1>4, <1>5, HolderCommand

LEMMA ClaimCompensationHolds ==
  ASSUME BaseInv, BaseInv', HoldersInv, NEW a \in Actor, ClaimCompensation(a)
  PROVE  StepBy(a)
<1> DEFINE may == MayClaimCompensation(row, now, now + JobLease)
           after == AfterClaimCompensation(row, CompensationLease(a), now)
<1>1. /\ local[a].pc = "claimCompensation" /\ Command(a, may, after, now, "checkSafe", Return(a))
      /\ now \in Nat
  BY Clocks DEF ClaimCompensation, BaseInv
<1>2. RowOK(row) => after.state \in Withdrawing
  BY NextState DEF Withdrawing
<1> HIDE DEF may, after
<1> QED
  BY <1>1, <1>2, UndoingCommand DEF Undoing

LEMMA CompensationFailedHolds ==
  ASSUME BaseInv, BaseInv', HoldersInv, NEW a \in Actor, CompensationFailed(a)
  PROVE  StepBy(a)
<1> DEFINE may == MayRecordCompensationFailure(row, LeaseToken(a), now)
           after == AfterRecordCompensationFailure(row, now + JobLease, now)
<1>1. /\ local[a].pc = "compensationFailed" /\ Command(a, may, after, now, Return(a), Return(a))
      /\ now \in Nat
  BY Clocks DEF CompensationFailed, BaseInv
<1>2. RowOK(row) => after.state \in Withdrawing
  BY NextState DEF Withdrawing
<1>3. Return(a) # "compensationFailed"
  BY DEF Return, End
<1> HIDE DEF may, after
<1> QED
  BY <1>1, <1>2, <1>3, UndoingCommand DEF Undoing

LEMMA UndoingRest ==
  ASSUME BaseInv, BaseInv', HoldersInv, NEW a \in Actor, CheckSafe(a) \/ RemoveFiles(a)
  PROVE  StepBy(a)
<1>1. InState(Withdrawing) /\ FinalOK /\ UNCHANGED <<now, row, upload, queue>>
  BY DEF CheckSafe, RemoveFiles, BaseInv, UploadIInv, LocalOK, Undoing, HoldersInv
<1>2. CASE CheckSafe(a)
  <2>1. PICK pc : pc \in {End(a), "compensationFailed", "removeFiles"} /\ Stay(a, pc)
    BY <1>2 DEF CheckSafe
  <2>2. HolderOK(a)'
    BY <2>1, StayMoves, UnguardedNext DEF BaseInv, Guarded, End
  <2> QED
    BY <1>1, <1>2, <2>2, HolderPlain DEF CheckSafe
<1>3. CASE RemoveFiles(a)
  <2>1. PICK pc : pc \in {Return(a), "complete"} /\ Stay(a, pc)
    BY <1>3 DEF RemoveFiles
  <2>2. Moved(a, pc, Seen(a))
    BY <2>1, StayMoves DEF BaseInv
  <2>3. HolderOK(a)'
    <3>1. CASE pc = Return(a)
      BY <1>1, <2>2, <3>1, ReturnHolds DEF InState
    <3>2. CASE pc = "complete"
      BY <2>2, <3>2, UnguardedNext DEF Guarded
    <3> QED
      BY <2>1, <3>1, <3>2
  <2>4. PICK names \in SUBSET File : Remove(names)
    <3>1. {"input", "temp", "final"} \in SUBSET File
      BY DEF File
    <3> QED
      BY <1>3, <3>1 DEF RemoveFiles
  <2> QED
    BY <1>1, <2>3, <2>4, HolderRemoves DEF BaseInv
<1> QED
  BY <1>2, <1>3

LEMMA CompleteCompensationHolds ==
  ASSUME BaseInv, BaseInv', HoldersInv, NEW a \in Actor, CompleteCompensation(a)
  PROVE  StepBy(a)
<1>1. /\ local[a].pc = "complete" /\ Working(a) /\ row # None /\ RowOK(row) /\ FinalOK
      /\ row.state \in Withdrawing /\ UNCHANGED <<now, files, queue, worker>>
  <2>1. local[a].pc = "complete" /\ Working(a) /\ UNCHANGED <<now, files, queue, worker>>
    BY Pcs DEF Working, CompleteCompensation
  <2> QED
    BY <2>1, SeenRow DEF BaseInv, HoldersInv, LocalOK, InState, Undoing
<1>2. PICK at : \/ row' = row
                \/ /\ row' = AfterMarkCompensated(row, at)
                   /\ MayRecoverCompensated(row, at) \/ \E t : MayMarkCompensated(row, t, at)
  BY DEF CompleteCompensation
<1>3. Moved(a, Return(a), Seen(a))
  BY StayMoves DEF CompleteCompensation, BaseInv
<1>4. Return(a) \notin {"complete", "reserve"}
  BY DEF Return, End
<1>5. row' # None /\ local'[a] # local[a]
  BY <1>1, <1>3, <1>4, StaysReserved DEF BaseInv, Moved
<1>6. row'.state \in Withdrawing
  BY <1>1, <1>2, NextState DEF Withdrawing
<1>7. HolderOK(a)'
  BY <1>3, <1>5, <1>6, ReturnHolds DEF InState
<1>8. row' = row \/ Writes(a)
  BY <1>1, <1>2, <1>5, <1>6
     DEF Writes, Entitled, Withdrawing, Attempting, MayRecoverCompensated, MayMarkCompensated
<1>9. FinalOK'
  BY <1>1, <1>5, <1>6 DEF FinalOK, InState, Private, Withdrawing
<1> QED
  BY <1>1, <1>7, <1>8, <1>9 DEF StepBy

LEMMA CompensateHolds ==
  ASSUME BaseInv, BaseInv', HoldersInv, NEW a \in Actor, Compensate(a)
  PROVE  StepBy(a)
BY RequireCompensationHolds, ClaimCompensationHolds, CompensationFailedHolds, UndoingRest,
   CompleteCompensationHolds DEF Compensate

-----------------------------------------------------------------------------
(* What recovery may conclude from the files and the lapsed lease it saw.  *)
LEMMA OverduePlan ==
  ASSUME NEW j, RowOK(j), NEW at, Listed(j, at), NEW ev, NEW plan, plan = PlanRestart(j, ev, at)
  PROVE  /\ plan \in {"recover_ready", "clean_private_then_recover_retry"} => LapsedLease(j, at)
         /\ plan = "clean_private_then_recover_retry" => ev.final = "absent"
         /\ plan = "require_compensation" => LapsedLease(j, at)
         /\ plan = "claim_compensation" => j.state = "compensation_required"
<1>1. CASE j.state = "requested"
  BY <1>1 DEF PlanRestart, Scheduled, Leased, Attempting
<1>2. CASE j.state \in Scheduled /\ Due(j, at)
  BY <1>2 DEF PlanRestart, Scheduled, Leased, Attempting
<1>3. CASE j.state \in Attempting /\ LapsedLease(j, at)
  <2>1. plan = PlanAttempt(j, ev)
    BY <1>3 DEF PlanRestart, LapsedLease, Scheduled, Leased, Attempting
  <2>2. plan # "claim_compensation"
    BY <2>1 DEF PlanAttempt
  <2>3. plan = "clean_private_then_recover_retry" => Gone(ev)
    BY <2>1 DEF PlanAttempt
  <2> QED
    BY <1>3, <2>2, <2>3 DEF Gone
<1>4. CASE j.state = "compensating" /\ LapsedLease(j, at)
  <2>1. plan = PlanCompensating(j, ev)
    BY <1>4 DEF PlanRestart, LapsedLease, Scheduled, Leased, Attempting
  <2>2. plan \notin {"claim_compensation", "clean_private_then_recover_retry"}
    BY <2>1 DEF PlanCompensating
  <2> QED
    BY <1>4, <2>2
<1> QED
  BY <1>1, <1>2, <1>3, <1>4 DEF Listed, Leased

LEMMA FinalSeen ==
  ASSUME NEW ev \in {Observed} \union Obscured, ev.final = "absent"
  PROVE  files["final"] = "absent"
<1>1. Observed.final = Present(files["final"] # "absent")
  BY DEF Observed
<1>2. ev.final \in {Observed.final, "unknown"}
  <2>1. DOMAIN Observed = {"final", "private", "registration"}
    BY DEF Observed
  <2>2. ASSUME NEW f \in DOMAIN Observed, ev = [Observed EXCEPT ![f] = "unknown"]
        PROVE  ev.final \in {Observed.final, "unknown"}
    BY <2>1, <2>2 DEF Observed
  <2> QED
    BY <2>2 DEF Obscured
<1> QED
  BY <1>1, <1>2 DEF Present

LEMMA ObserveHolds ==
  ASSUME BaseInv, BaseInv', HoldersInv, NEW a \in Actor, Observe(a)
  PROVE  StepBy(a)
<1>1. FinalOK /\ UNCHANGED <<now, row, files, upload, queue, worker>>
  BY DEF Observe, HoldersInv
<1>2. PICK j, ev, plan, pc, caller : Planned(a, j, ev, plan, pc, caller) /\ pc \in Running
  BY ObservePlans DEF BaseInv
<1>3. Moved(a, pc, j) /\ local'[a].caller = caller
  BY <1>2, EnterMoves DEF Planned, BaseInv
<1>4. Seen(a)' = j /\ local'[a].at = local[a].at /\ local'[a].pc = pc
  BY <1>2, <1>3 DEF Moved, Seen
<1>5. PICK at : at = local[a].at
  OBVIOUS
<1>6. /\ plan \in {"recover_ready", "clean_private_then_recover_retry"} => LapsedLease(j, at)
      /\ plan = "clean_private_then_recover_retry" => files["final"] = "absent"
      /\ plan = "require_compensation" => LapsedLease(j, at)
      /\ plan = "claim_compensation" => j.state = "compensation_required"
  BY <1>2, <1>5, OverduePlan, FinalSeen DEF Planned
<1>7. CASE plan \in {"require_compensation", "claim_compensation"}
  <2>1. pc = CompensateFrom(j) /\ caller = "recovery"
    BY <1>2, <1>7 DEF Planned, StepOf, CallerOf
  <2>2. pc = "compensate" => LapsedLease(j, at)
    BY <1>6, <1>7, <2>1 DEF CompensateFrom
  <2>3. pc \in {"claimCompensation", "checkSafe", "compensate"}
    BY <2>1, CompensateFromRuns
  <2>4. HolderOK(a)'
    BY <1>3, <1>4, <1>5, <2>1, <2>2, <2>3 DEF HolderOK, Overdue
  <2> QED
    BY <1>1, <2>4, HolderPlain
<1>8. CASE plan \in {"recover_ready", "clean_private_then_recover_retry"}
  <2>1. pc \in {"recoverReady", "cleanTemp"} /\ (pc = "cleanTemp" => files["final"] = "absent")
    BY <1>2, <1>6, <1>8 DEF Planned, StepOf
  <2>2. HolderOK(a)'
    BY <1>1, <1>4, <1>5, <1>6, <1>8, <2>1 DEF HolderOK, Overdue
  <2> QED
    BY <1>1, <2>2, HolderPlain
<1>9. CASE plan \in {"enqueue", "claim_processing", "manual_review", "recover_compensated"}
  <2>1. pc \in {"enqueue", "claim", "manualReview", "checkSafe"}
    BY <1>2, <1>9 DEF Planned, StepOf
  <2>2. HolderOK(a)'
    BY <1>3, <2>1, UnguardedNext DEF Guarded
  <2> QED
    BY <1>1, <2>2, HolderPlain
<1> QED
  BY <1>2, <1>7, <1>8, <1>9 DEF Planned

-----------------------------------------------------------------------------
(* The steps of recovery.  A drainer writes what it saw at a time when the *)
(* lease had lapsed, so no holder is left.                                 *)
LEMMA OverdueEntitled ==
  ASSUME BaseInv, HoldersInv, NEW a \in Actor, Overdue(a), row # None, Seen(a) = row
  PROVE  Entitled(a)
<1>1. local[a].at \in Nat /\ local[a].at <= now
  BY Clocks DEF BaseInv, InOrder, SeenInOrder
<1> QED
  BY <1>1, StaysLapsed DEF Overdue, Entitled

LEMMA ListDueHolds ==
  ASSUME BaseInv, HoldersInv, NEW a \in Actor, ListDue(a)
  PROVE  StepBy(a)
<1>1. local' = [local EXCEPT ![a] = [At("observe") EXCEPT !.seen = row, !.at = now]]
  BY DEF ListDue
<1>2. local'[a] = [At("observe") EXCEPT !.seen = row, !.at = now]
  BY <1>1, TypeSplit DEF BaseInv, UploadIInv
<1>3. local'[a].pc = "observe"
  BY <1>2 DEF At
<1>4. HolderOK(a)'
  BY <1>3 DEF HolderOK
<1> QED
  BY <1>4, HolderPlain DEF ListDue, HoldersInv

LEMMA RecoverReadyHolds ==
  ASSUME BaseInv, BaseInv', HoldersInv, NEW a \in Actor, RecoverReady(a)
  PROVE  StepBy(a)
<1> DEFINE may == MayRecoverReady(row, local[a].at)
           after == AfterMarkReady(row, local[a].at)
<1>1. local[a].pc = "recoverReady" /\ Command(a, may, after, local[a].at, "idle", "idle") /\ FinalOK
  BY DEF RecoverReady, HoldersInv
<1>2. ~may /\ row # None
  BY <1>1 DEF BaseInv, UploadIInv, LocalOK, Completing, InState, MayRecoverReady
<1>3. row' = row /\ Stay(a, "idle") /\ UNCHANGED <<now, files, upload, queue, worker>>
  BY <1>1, <1>2 DEF Command
<1>4. HolderOK(a)'
  BY <1>3, StayMoves, UnguardedNext DEF BaseInv, Guarded
<1> QED
  BY <1>1, <1>3, <1>4, HolderPlain

LEMMA CleanTempHolds ==
  ASSUME BaseInv, BaseInv', HoldersInv, NEW a \in Actor, CleanTemp(a)
  PROVE  StepBy(a)
<1>1. /\ local[a].pc = "cleanTemp" /\ FinalOK /\ HolderOK(a) /\ UNCHANGED <<now, row, upload, queue>>
  BY DEF CleanTemp, HoldersInv
<1>2. CASE Remove({"temp"}) /\ Stay(a, "recoverRetry")
  <2>1. Moved(a, "recoverRetry", Seen(a)) /\ "recoverRetry" \in Running
    BY <1>2, StayMoves, Pcs DEF BaseInv
  <2>2. /\ Seen(a)' = Seen(a) /\ local'[a].at = local[a].at /\ local'[a].pc = "recoverRetry"
    BY <2>1 DEF Moved, Seen
  <2>3. files'["final"] = files["final"]
    BY <1>2, Removed DEF BaseInv, File
  <2>4. Overdue(a)' /\ ((Seen(a) = row)' => files'["final"] = "absent")
    BY <1>1, <2>2, <2>3 DEF HolderOK, Overdue
  <2>5. HolderOK(a)'
    BY <2>2, <2>4 DEF HolderOK
  <2> QED
    BY <1>1, <1>2, <2>5, HolderRemoves DEF BaseInv, File
<1>3. CASE Stay(a, "idle") /\ UNCHANGED <<files, worker>>
  <2>1. HolderOK(a)'
    BY <1>3, StayMoves, UnguardedNext DEF BaseInv, Guarded
  <2> QED
    BY <1>1, <1>3, <2>1, HolderPlain
<1> QED
  BY <1>2, <1>3 DEF CleanTemp

LEMMA RecoverRetryHolds ==
  ASSUME BaseInv, BaseInv', HoldersInv, NEW a \in Actor, RecoverRetry(a)
  PROVE  StepBy(a)
<1> DEFINE may == MayRecoverRetry(row, local[a].at)
           after == AfterRecoverRetry(row, local[a].at, local[a].at)
<1>1. PICK onward : onward \in {"claim", "dropInput"} /\ Command(a, may, after, local[a].at, onward, "idle")
  BY DEF RecoverRetry
<1>2. /\ local[a].pc = "recoverRetry" /\ Working(a) /\ row # None /\ RowOK(row) /\ FinalOK
      /\ HolderOK(a) /\ local[a].at \in Nat
  <2>1. local[a].pc = "recoverRetry" /\ Working(a)
    BY Pcs DEF RecoverRetry, Working
  <2> QED
    BY <2>1, SeenRow, Clocks DEF BaseInv, HoldersInv
<1>3. after.state \in {"queued", "failed"}
  BY <1>2, NextState
<1>4. ASSUME Wrote(a, may, after, local[a].at)
      PROVE  /\ Entitled(a) /\ row.state # "ready"
             /\ row.state \in Withdrawing => after.state \in Withdrawing
             /\ after.state \in Private => files["final"] = "absent"
  <2>1. Seen(a) = row /\ row.state \in Attempting
    BY <1>4 DEF Wrote, MayRecoverRetry
  <2>2. Entitled(a) /\ files["final"] = "absent"
    BY <1>2, <2>1, OverdueEntitled DEF HolderOK
  <2> QED
    BY <2>1, <2>2 DEF Attempting, Withdrawing
<1>5. \A s : Moved(a, onward, s) \/ Moved(a, "idle", s) => HolderOK(a)'
  BY <1>1, UnguardedNext DEF Guarded
<1>6. onward \notin {local[a].pc, "reserve"} /\ "idle" \notin {local[a].pc, "reserve"}
  BY <1>1, <1>2
<1>7. PICK at : at = local[a].at
  OBVIOUS
<1>8. at \in Nat /\ Command(a, may, after, at, onward, "idle")
  BY <1>1, <1>2, <1>7
<1>9. Wrote(a, may, after, at)
        => /\ Entitled(a) /\ row.state # "ready"
           /\ row.state \in Withdrawing => after.state \in Withdrawing
           /\ after.state \in Private => files["final"] = "absent"
  BY <1>4, <1>7
<1> HIDE DEF may, after
<1> QED
  BY <1>2, <1>5, <1>6, <1>8, <1>9, HolderCommand

LEMMA DropInputHolds ==
  ASSUME BaseInv, BaseInv', HoldersInv, NEW a \in Actor, DropInput(a)
  PROVE  StepBy(a)
<1>1. Stay(a, "idle") /\ FinalOK /\ UNCHANGED <<now, row, upload, queue>>
  BY DEF DropInput, HoldersInv
<1>2. HolderOK(a)'
  BY <1>1, StayMoves, UnguardedNext DEF BaseInv, Guarded
<1> QED
  BY <1>1, <1>2, HolderPlain, HolderRemoves DEF DropInput, BaseInv, File

LEMMA MarkManualReviewHolds ==
  ASSUME BaseInv, BaseInv', HoldersInv, NEW a \in Actor, MarkManualReview(a)
  PROVE  StepBy(a)
<1> DEFINE may == MayMarkManualReview(row, local[a].at)
           after == AfterMarkManualReview(row, local[a].at)
<1>1. /\ local[a].pc = "manualReview" /\ Working(a) /\ row # None /\ RowOK(row) /\ FinalOK
      /\ local[a].at \in Nat /\ local[a].at <= now
      /\ Command(a, may, after, local[a].at, "idle", "idle")
  <2>1. local[a].pc = "manualReview" /\ Working(a)
    BY Pcs DEF MarkManualReview, Working
  <2> QED
    BY <2>1, SeenRow, Clocks DEF BaseInv, HoldersInv, MarkManualReview, InOrder, SeenInOrder
<1>2. after.state = "manual_review"
  BY <1>1, NextState
<1>3. ASSUME Wrote(a, may, after, local[a].at)
      PROVE  /\ Entitled(a) /\ row.state # "ready"
             /\ row.state \in Withdrawing => after.state \in Withdrawing
             /\ after.state \in Private => files["final"] = "absent"
  <2>1. ~LiveLease(row, local[a].at) /\ row.state # "ready"
    BY <1>3 DEF Wrote, MayMarkManualReview
  <2>2. row.state \in Attempting => LapsedLease(row, local[a].at)
    BY <1>1, <2>1, RowFields DEF LapsedLease, Leased
  <2>3. Entitled(a)
    BY <1>1, <2>2, StaysLapsed DEF Entitled
  <2> QED
    BY <1>2, <2>1, <2>3 DEF Withdrawing, Private
<1>4. \A s : Moved(a, "idle", s) => HolderOK(a)'
  BY UnguardedNext DEF Guarded
<1>5. "idle" \notin {local[a].pc, "reserve"}
  BY <1>1
<1>6. PICK at : at = local[a].at
  OBVIOUS
<1>7. at \in Nat /\ Command(a, may, after, at, "idle", "idle")
  BY <1>1, <1>6
<1>8. Wrote(a, may, after, at)
        => /\ Entitled(a) /\ row.state # "ready"
           /\ row.state \in Withdrawing => after.state \in Withdrawing
           /\ after.state \in Private => files["final"] = "absent"
  BY <1>3, <1>6
<1> HIDE DEF may, after
<1> QED
  BY <1>1, <1>4, <1>5, <1>7, <1>8, HolderCommand

LEMMA RecoverHolds ==
  ASSUME BaseInv, BaseInv', HoldersInv, NEW a \in Actor, Recover(a)
  PROVE  StepBy(a)
BY ListDueHolds, ObserveHolds, RecoverReadyHolds, CleanTempHolds, RecoverRetryHolds, DropInputHolds,
   MarkManualReviewHolds DEF Recover

LEMMA CrashHolds ==
  ASSUME BaseInv, BaseInv', HoldersInv, NEW a \in Actor, Crash(a)
  PROVE  StepBy(a) /\ RowOn /\ SeesOn(a) /\ now' = now /\ row # None
<1>1. Stay(a, End(a)) /\ FinalOK /\ UNCHANGED <<now, row, files, upload, queue, worker>>
  BY DEF Crash, HoldersInv
<1>2. HolderOK(a)'
  BY <1>1, StayMoves, UnguardedNext DEF BaseInv, Guarded, End
<1>3. row # None
  BY Pcs DEF Crash, BaseInv, UploadIInv, Reserved, Actor
<1> QED
  BY <1>1, <1>2, <1>3, StayInOrder, EndsElsewhere, HolderPlain DEF BaseInv

-----------------------------------------------------------------------------
(* The request before it drives its row, and the steps of no actor.        *)
LEMMA ReadBackHolds ==
  ASSUME BaseInv, BaseInv', HoldersInv, ReadBack
  PROVE  StepBy(Web) /\ RowOn /\ SeesOn(Web) /\ now' = now /\ row # None
<1>1. Web \in Actor /\ FinalOK /\ UNCHANGED <<now, row, upload, queue>> /\ local[Web].pc = "readBack"
  BY DEF ReadBack, HoldersInv, Actor
<1>2. row # None
  BY <1>1 DEF BaseInv, UploadIInv, Reserved
<1>3. CASE Go(Web, DriveFrom(Web, row), row) /\ UNCHANGED <<files, worker>>
  <2>1. PICK pc : pc = DriveFrom(Web, row) /\ pc \in {"readyResult", "enqueue", "claim", "refused"}
    BY DEF DriveFrom, End
  <2>2. PICK r : r = row /\ Moved(Web, pc, r)
    BY <1>1, <1>3, <2>1, GoMoves DEF BaseInv
  <2>3. HolderOK(Web)'
    BY <1>1, <2>1, <2>2, UnguardedNext DEF Guarded
  <2> QED
    BY <1>1, <1>2, <1>3, <2>1, <2>3, HolderPlain, GoInOrder DEF BaseInv
<1>4. CASE Stay(Web, "refused") /\ Remove({"input"})
  <2>1. HolderOK(Web)'
    BY <1>1, <1>4, StayMoves, UnguardedNext DEF BaseInv, Guarded
  <2> QED
    BY <1>1, <1>2, <1>4, <2>1, StayInOrder, HolderRemoves DEF BaseInv, File
<1> QED
  BY <1>3, <1>4 DEF ReadBack

LEMMA ReserveHolds ==
  ASSUME BaseInv, BaseInv', HoldersInv, Reserve
  PROVE  HoldersInv'
<1>1. /\ row = None /\ FinalOK /\ worker' = worker
      /\ files' = [files EXCEPT !["input"] = "complete"]
  BY DEF Reserve, BaseInv, UploadIInv, Reserved, HoldersInv
<1>2. FinalOK'
  <2>1. files'["final"] = files["final"]
    BY <1>1, TypeSplit DEF BaseInv, UploadIInv, File
  <2> QED
    BY <1>1, <2>1 DEF FinalOK
<1>3. Web \in Actor
  BY DEF Actor
<1>4. PICK pc, seen : pc \in {"enqueue", "readBack"} /\ Moved(Web, pc, seen)
  <2>1. PICK s : s = CreatedJob(now)
    OBVIOUS
  <2>2. Go(Web, "enqueue", s) \/ Stay(Web, "readBack")
    BY <2>1 DEF Reserve
  <2> QED
    BY <1>3, <2>2, GoMoves, StayMoves DEF BaseInv
<1>5. HolderOK(Web)'
  BY <1>3, <1>4, UnguardedNext DEF Guarded
<1>6. ASSUME NEW b \in Actor, b # Web PROVE HolderOK(b)'
  <2>1. local'[b].pc = "idle"
    BY <1>1, <1>4, <1>6 DEF Moved, Actor, BaseInv, UploadIInv, Reserved
  <2> QED
    BY <2>1 DEF HolderOK
<1> QED
  BY <1>2, <1>5, <1>6 DEF HoldersInv

(* What the worker does under its own name disturbs no holder: a job that  *)
(* was completed is not taken again.                                       *)
LEMMA WorkHolds ==
  ASSUME BaseInv, HoldersInv, Work \/ WorkerCrash \/ Attach
  PROVE  HoldersInv' /\ row' = row
<1>1. FinalOK /\ WorkerFollowsQueue /\ UNCHANGED <<now, row, local>>
  BY DEF HoldersInv, BaseInv, Work, Take, Reject, Open, Finished, WorkerCrash, Attach
<1>2. files \in [File -> Content] /\ {"input", "temp", "final"} = File
  BY TypeSplit DEF BaseInv, UploadIInv, File
<1>3. /\ files'["final"] = files["final"] /\ worker' # "final"
      /\ queue.state = "completed" => queue' = queue
  <2>1. CASE Finished
    <3>1. worker \in {"temp", "gone"} /\ queue.state = "active"
      BY <1>1, <2>1 DEF Finished, FinalOK, WorkerFollowsQueue
    <3>2. CASE worker = "temp"
      <4>1. files' = [files EXCEPT !["temp"] = "complete"]
        BY <2>1, <3>2 DEF Finished
      <4> QED
        BY <1>2, <2>1, <3>1, <4>1 DEF Finished
    <3>3. CASE worker = "gone"
      BY <2>1, <3>1, <3>3 DEF Finished
    <3> QED
      BY <3>1, <3>2, <3>3
  <2>2. CASE Take \/ Reject \/ Open
    BY <1>1, <1>2, <2>2 DEF Take, Reject, Open, WorkerFollowsQueue
  <2>3. CASE WorkerCrash \/ Attach
    BY <1>1, <2>3 DEF WorkerCrash, Attach, FinalOK, WorkerFollowsQueue
  <2> QED
    BY <2>1, <2>2, <2>3 DEF Work
<1>4. FinalOK'
  BY <1>1, <1>3 DEF FinalOK, InState
<1>5. ASSUME NEW b \in Actor PROVE HolderOK(b)'
  <2>1. HolderOK(b) /\ local'[b] = local[b] /\ Seen(b)' = Seen(b)
    BY <1>1 DEF HoldersInv, Seen
  <2>2. (Holds(b) => Holds(b)') /\ (Overdue(b) => Overdue(b)')
    BY <1>1, <2>1 DEF Holds, Overdue, InState
  <2>3. \A states : /\ HoldsIn(b, states) => HoldsIn(b, states)'
                    /\ InState(states) => InState(states)'
    BY <1>1, <2>1, <2>2 DEF HoldsIn, InState
  <2> QED
    BY <1>1, <1>3, <2>1, <2>2, <2>3 DEF HolderOK
<1> QED
  BY <1>1, <1>4, <1>5 DEF HoldersInv

(* Time stands still while somebody works under a live lease.              *)
LEMMA TickHolds ==
  ASSUME Punctual, BaseInv, HoldersInv, Tick
  PROVE  HoldersInv' /\ row' = row
<1>1. FinalOK /\ UNCHANGED <<row, files, queue, worker, local>> /\ row # None /\ RowOK(row)
  BY DEF HoldersInv, BaseInv, UploadIInv, Tick
<1>2. FinalOK'
  BY <1>1 DEF FinalOK, InState
<1>3. ASSUME NEW b \in Actor PROVE HolderOK(b)'
  <2>1. HolderOK(b) /\ local'[b] = local[b] /\ Seen(b)' = Seen(b)
    BY <1>1 DEF HoldersInv, Seen
  <2>2. Holds(b) => local[b].pc \notin Running
    <3>1. SUFFICES ASSUME Holds(b), local[b].pc \in Running PROVE FALSE
      OBVIOUS
    <3>2. Holding(b)
      BY <3>1 DEF Holds, Holding
    <3>3. ~Due(row, now)
      BY <3>2 DEF Tick
    <3>4. row.nextAt = None
      BY <1>1, <3>1 DEF Holds, InState, RowOK, ValidJob, TimesOrdered, Attempting, Scheduled
    <3> QED
      BY <3>3, <3>4 DEF Due
  <2>3. local[b].pc \in Guarded => ~Holds(b)
    BY <2>2, Pcs DEF Guarded
  <2>4. Overdue(b) => Overdue(b)'
    BY <2>1 DEF Overdue
  <2>5. \A states : InState(states) => InState(states)'
    BY <1>1 DEF InState
  <2>6. CASE local[b].pc \in Guarded
    BY <1>1, <2>1, <2>3, <2>4, <2>5, <2>6 DEF HolderOK, HoldsIn
  <2>7. CASE local[b].pc \notin Guarded
    BY <2>1, <2>7 DEF HolderOK, Guarded
  <2> QED
    BY <2>6, <2>7
<1> QED
  BY <1>1, <1>2, <1>3 DEF HoldersInv

-----------------------------------------------------------------------------
(* What punctual holders keep *)

LEMMA NextHolds ==
  ASSUME Punctual, BaseInv, BaseInv', HoldersInv, [Next]_vars
  PROVE  HoldersInv' /\ (row = None \/ row' = row \/ \E a \in Actor : StepBy(a))
<1>1. CASE Reserve
  BY <1>1, ReserveHolds DEF Reserve, BaseInv, UploadIInv, Reserved
<1>2. CASE ReadBack
  BY <1>2, ReadBackHolds, OtherHolders DEF Actor
<1>3. ASSUME NEW a \in Actor, Drive(a) \/ Compensate(a) \/ Recover(a)
      PROVE  HoldersInv' /\ \E b \in Actor : StepBy(b)
  <2>1. RowOn /\ SeesOn(a) /\ now' = now
    BY <1>3, DriveInOrder, CompensateInOrder, RecoverInOrder DEF BaseInv, InOrder
  <2>2. StepBy(a)
    BY <1>3, DriveHolds, CompensateHolds, RecoverHolds
  <2>3. row # None
    <3>1. local[a].pc # "reserve" /\ (a # Web => local[a].pc \in Running \/ row # None)
      BY <1>3, Pcs DEF Drive, Compensate, Recover, ReadyResult, Enqueue, ClaimProcessing, Submit, Await,
           RecordOutputReady, BeginPublication, Rename, Publish, PublishFailed, Finish, Caught, Discard,
           GiveUpAttempt, RequireCompensation, ClaimCompensation, CheckSafe, CompensationFailed,
           RemoveFiles, CompleteCompensation, ListDue, Observe, RecoverReady, CleanTemp, RecoverRetry,
           DropInput, MarkManualReview
    <3> QED
      BY <3>1, Pcs DEF BaseInv, UploadIInv, Reserved, Actor
  <2> QED
    BY <2>1, <2>2, <2>3, OtherHolders
<1>4. ASSUME NEW a \in Actor, Crash(a) PROVE HoldersInv' /\ \E b \in Actor : StepBy(b)
  BY <1>4, CrashHolds, OtherHolders
<1>5. CASE Work \/ WorkerCrash \/ Attach
  BY <1>5, WorkHolds
<1>6. CASE Tick
  BY <1>6, TickHolds
<1>7. CASE UNCHANGED vars
  BY <1>7 DEF vars, HoldersInv, FinalOK, HolderOK, HoldsIn, Holds, Overdue, InState, Seen, LiveLease,
              LapsedLease
<1> QED
  BY <1>1, <1>2, <1>3, <1>4, <1>5, <1>6, <1>7 DEF Next, Actor

LEMMA BaseHolds == Spec => []BaseInv
BY UploadInductive, RowsSeenInOrder, WorkerHasItsJob, PTL DEF BaseInv

(* While holders are punctual, nobody else writes the row of an attempt    *)
(* and no worker has the public file open.                                 *)
LEMMA HoldersKept ==
  ASSUME Punctual
  PROVE  Spec => []HoldersInv
<1>1. Init => HoldersInv
  <2> SUFFICES ASSUME Init PROVE HoldersInv
    OBVIOUS
  <2>1. FinalOK
    BY DEF Init, FinalOK
  <2>2. ASSUME NEW a \in Actor PROVE HolderOK(a)
    <3>1. local[a].pc \in {"reserve", "idle"}
      BY DEF Init, At
    <3> QED
      BY <3>1 DEF HolderOK
  <2> QED
    BY <2>1, <2>2 DEF HoldersInv
<1>2. BaseInv /\ BaseInv' /\ HoldersInv /\ [Next]_vars => HoldersInv'
  BY NextHolds
<1> QED
  BY <1>1, <1>2, BaseHolds, PTL DEF Spec

(* A failed upload leaves nothing under its public name, the public file   *)
(* is never unfinished, and a ready row names a finished image that no     *)
(* worker writes to any more (uploads/service.ts #driveImageJob, its catch *)
(* and reconcileOnStartup), as long as no holder outlives its lease.       *)
THEOREM PublicNamesStayClean ==
  ASSUME Punctual
  PROVE  Spec => []PublicNamesClean
<1>1. BaseInv /\ HoldersInv => PublicNamesClean
  <2> SUFFICES ASSUME BaseInv, HoldersInv PROVE PublicNamesClean
    OBVIOUS
  <2>1. FinalOK
    BY DEF HoldersInv
  <2>2. InState({"failed"}) => files["final"] = "absent"
    BY <2>1 DEF FinalOK, InState, Private
  <2>3. InState({"ready"}) => files["final"] = "complete"
    BY <2>1, TypeSplit DEF BaseInv, UploadIInv, ReadyIntact, FinalOK, File, Content
  <2> QED
    BY <2>1, <2>2, <2>3 DEF PublicNamesClean, FailedClean, NoPartialPublic, ReadyWhole, FinalOK
<1> QED
  BY <1>1, BaseHolds, HoldersKept, PTL

(* An attempt is retried or failed only while nothing of it is public,     *)
(* however late the retry comes (uploads/service.ts recoverRetry and       *)
(* #driveImageJob's catch), as long as no holder outlives its lease.       *)
THEOREM RetriesAreOfPrivateImages ==
  ASSUME Punctual
  PROVE  Spec => RetryOnlyNonPublic
<1>1. BaseInv /\ BaseInv' /\ HoldersInv /\ HoldersInv' /\ [Next]_vars
        => [InState(Attempting) /\ row' # row /\ row'.state \in {"queued", "failed"}
              => files["final"] = "absent"]_vars
  <2> SUFFICES ASSUME BaseInv, BaseInv', HoldersInv, HoldersInv', Next, InState(Attempting),
                      row' # row, row'.state \in {"queued", "failed"}
               PROVE  files["final"] = "absent"
    OBVIOUS
  <2>1. PICK a \in Actor : StepBy(a)
    BY NextHolds DEF InState
  <2>2. files' = files /\ row' # None
    BY <2>1 DEF StepBy, Writes
  <2> QED
    BY <2>2 DEF HoldersInv, FinalOK, InState, Private
<1> QED
  BY <1>1, BaseHolds, HoldersKept, PTL DEF Spec, RetryOnlyNonPublic

(* The lease of an attempt is ended by its owner alone while it is live:   *)
(* nobody's earlier look at the row takes it away (uploads/service.ts,     *)
(* image-job-policy.ts), as long as no holder outlives its lease.          *)
THEOREM LiveLeasesAreRespected ==
  ASSUME Punctual
  PROVE  Spec => LiveLeaseRespected
<1>1. BaseInv /\ BaseInv' /\ HoldersInv /\ [Next]_vars
        => [InState(Attempting) /\ LiveLease(row, now) /\ row'.lease = None
              => local'[row.lease.owner] # local[row.lease.owner]]_vars
  <2> SUFFICES ASSUME BaseInv, BaseInv', HoldersInv, Next, InState(Attempting),
                      LiveLease(row, now), row'.lease = None
               PROVE  local'[row.lease.owner] # local[row.lease.owner]
    OBVIOUS
  <2>1. row' # row /\ row # None /\ row.state \in Attempting /\ ~LapsedLease(row, now)
    BY DEF LiveLease, InState, LapsedLease
  <2>2. PICK a \in Actor : StepBy(a)
    BY <2>1, NextHolds
  <2>3. Writes(a)
    BY <2>1, <2>2 DEF StepBy
  <2>4. Holds(a)
    BY <2>1, <2>3 DEF Writes, Entitled
  <2> QED
    BY <2>3, <2>4 DEF Writes, Holds
<1> QED
  BY <1>1, BaseHolds, HoldersKept, PTL DEF Spec, LiveLeaseRespected
=============================================================================
