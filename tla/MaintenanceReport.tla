-------------------------- MODULE MaintenanceReport --------------------------
(* The report of what maintenance would remove (tools/maintenance-report.mjs, *)
(* maintenance-report.ts, image-cleanup-policy.ts) and the writing of its     *)
(* receipt (maintenance-receipt.ts), when several runs share the directory    *)
(* of the receipts, end abruptly or meet file errors.                         *)
(*                                                                            *)
(* Rows are a set: the receipt keeps digests of sorted rows and paths only.   *)
(* The counts of other data are copied, known or not, and stand for one.      *)
EXTENDS Integers, FiniteSets

CONSTANTS
  None,
  Run,                       \* runs of the tool
  Snapshot,                  \* what a run may be given to read
  Target,                    \* its --target-id
  MaximumBatch,              \* maximumCandidateBatch
  LinkedDays, OrphanDays,    \* ages at the cutoffs
  ActivityLimit,             \* latest24HourActivity is below it
  MaxFaults

VARIABLES
  run,      \* per run: where it is, its snapshot, its receipt, what it ended with
  file,     \* per run: its receipt file, under a name of its own
  lock,     \* .maintenance-report.lock, and who made it
  faults

vars == <<run, file, lock, faults>>

NoRun == [pc |-> "idle", snapshot |-> None, cap |-> 0, receipt |-> None, persisted |-> FALSE, told |-> None]

Init ==
  /\ run = [r \in Run |-> NoRun]
  /\ file = [r \in Run |-> None]
  /\ lock = None /\ faults = 0

Fault == faults < MaxFaults /\ faults' = faults + 1

-----------------------------------------------------------------------------
(* image-cleanup-policy.ts                                                    *)

LinkedEligible(c) ==
  c.managed /\ c.owned /\ c.references > 0 /\ c.activity < ActivityLimit /\ c.age >= LinkedDays

OrphanEligible(c) == c.managed /\ c.owned /\ c.references = 0 /\ c.age > OrphanDays

(* The sort before the slice: oldest first, then by path.                     *)
Before(c, d) == c.age > d.age \/ (c.age = d.age /\ c.path < d.path)

Oldest(rows, cap) == {c \in rows : Cardinality({d \in rows : Before(d, c)}) < cap}

SelectLinkedImages(rows, cap) == Oldest({c \in rows : LinkedEligible(c)}, cap)
SelectOrphanImages(rows, cap) == Oldest({c \in rows : OrphanEligible(c)}, cap)

-----------------------------------------------------------------------------
(* maintenance-report.ts                                                      *)

Paths(rows) == {c.path : c \in rows}

(* assertUniqueSnapshotPaths.                                                 *)
UniquePaths(s) ==
  /\ Cardinality(Paths(s.linked)) = Cardinality(s.linked)
  /\ Cardinality(Paths(s.orphan)) = Cardinality(s.orphan)
  /\ Paths(s.linked) \intersect Paths(s.orphan) = {}

(* The checks of buildMaintenanceDryRunReceipt, and of the target before.     *)
Acceptable(s, cap) ==
  /\ s.targetId = Target
  /\ ~s.future                        \* captured more than five minutes ahead
  /\ cap \in 1..MaximumBatch
  /\ UniquePaths(s)
  /\ ~s.cutoffAhead                   \* a cutoff after the capture

Limitations(s) ==
  {"dry_run"}
    \union (IF s.linkedComplete THEN {} ELSE {"linked_incomplete"})
    \union (IF s.orphanComplete THEN {} ELSE {"orphan_incomplete"})
    \union (IF s.counts = None THEN {"count_unknown"} ELSE {})

Receipt(s, cap) ==
  [source |-> s, cap |-> cap,
   linked |-> Paths(SelectLinkedImages(s.linked, cap)),
   orphan |-> Paths(SelectOrphanImages(s.orphan, cap)),
   counts |-> s.counts, limitations |-> Limitations(s)]

-----------------------------------------------------------------------------
(* The tool and writeMaintenanceDryRunReceipt                                 *)

At(r, pc) == run[r].pc = pc

Build(r) ==
  /\ At(r, "idle")
  /\ \E s \in Snapshot, cap \in 1..MaximumBatch :
       run' = [run EXCEPT ![r] =
         IF Acceptable(s, cap)
         THEN [NoRun EXCEPT !.pc = "lock", !.snapshot = s, !.cap = cap, !.receipt = Receipt(s, cap)]
         ELSE [NoRun EXCEPT !.pc = "ended", !.told = "refused"]]
  /\ UNCHANGED <<file, lock, faults>>

(* A mutant: the lock is made inside the block whose end removes it.          *)
LockedReleasing(r) == run' = [run EXCEPT ![r].pc = "ended", ![r].told = "locked"] /\ lock' = None

(* A run that finds the lock is no part of what comes after.                  *)
Locked(r) == run' = [run EXCEPT ![r].pc = "ended", ![r].told = "locked"] /\ UNCHANGED lock

MakeLock(r) ==
  /\ At(r, "lock")
  /\ IF lock = None
     THEN lock' = r /\ run' = [run EXCEPT ![r].pc = "open"]
     ELSE Locked(r)
  /\ UNCHANGED <<file, faults>>

Step(r, from, to, content) ==
  /\ At(r, from)
  /\ \/ /\ file' = [file EXCEPT ![r] = content]
        /\ run' = [run EXCEPT ![r].pc = to]
        /\ UNCHANGED faults
     \/ /\ Fault
        /\ run' = [run EXCEPT ![r].pc = "release"]
        /\ UNCHANGED file
  /\ UNCHANGED lock

(* What was written so far is left behind when a later write fails.           *)
Open(r) == Step(r, "open", "write", "empty")
Write(r) == Step(r, "write", "finish", "part")
Finish(r) == Step(r, "finish", "readback", run[r].receipt)

ReadBack(r) ==
  /\ At(r, "readback")
  /\ \/ run' = [run EXCEPT ![r].pc = "release", ![r].persisted = (file[r] = run[r].receipt)] /\ UNCHANGED faults
     \/ run' = [run EXCEPT ![r].pc = "release"] /\ Fault
  /\ UNCHANGED <<file, lock>>

(* rmdir; a lock that was not released is told unless something went wrong    *)
(* before.                                                                    *)
Release(r) ==
  /\ At(r, "release")
  /\ \/ lock' = None /\ UNCHANGED faults
        /\ run' = [run EXCEPT ![r].pc = "ended", ![r].told = IF run[r].persisted THEN "written" ELSE "failed"]
     \/ Fault /\ UNCHANGED lock
        /\ run' = [run EXCEPT ![r].pc = "ended", ![r].told = IF run[r].persisted THEN "unreleased" ELSE "failed"]
  /\ UNCHANGED file

Crash(r) ==
  /\ run[r].pc \notin {"idle", "ended"} /\ Fault
  /\ run' = [run EXCEPT ![r].pc = "ended"]
  /\ UNCHANGED <<file, lock>>

Inside == {r \in Run : run[r].pc \in {"open", "write", "finish", "readback", "release"}}

(* By hand, once nothing runs that could hold it.                             *)
RemoveStaleLock ==
  /\ lock # None /\ Inside = {}
  /\ lock' = None /\ UNCHANGED <<run, file, faults>>

Next ==
  \/ \E r \in Run : Build(r) \/ MakeLock(r) \/ Open(r) \/ Write(r) \/ Finish(r) \/ ReadBack(r) \/ Release(r) \/ Crash(r)
  \/ RemoveStaleLock

Spec == Init /\ [][Next]_vars

-----------------------------------------------------------------------------
(* At most one run writes, and the lock is its own; a lock without a writer   *)
(* is left by one that did not say it was done (maintenance-receipt.ts).      *)
LockHolds ==
  /\ \A r \in Inside : lock = r
  /\ lock # None /\ lock \notin Inside => run[lock].told \in {None, "failed", "unreleased"}

(* A receipt said to be written is there, whole, and lists the oldest of what *)
(* may go: owned images that nothing refers to, or nothing recent, and none   *)
(* of them under both headings (image-cleanup-policy.ts:28-66).               *)
WrittenHolds ==
  \A r \in Run : run[r].told = "written" =>
    LET receipt == file[r]
        s == run[r].snapshot
        kept == {c \in s.linked : c.path \notin receipt.linked}
    IN /\ receipt = run[r].receipt
       /\ receipt.linked \intersect receipt.orphan = {}
       /\ Cardinality(receipt.linked) <= run[r].cap
       /\ \A c \in s.linked \ kept, d \in kept : LinkedEligible(d) => Before(c, d)

ReceiptsHold == LockHolds /\ WrittenHolds
=============================================================================
