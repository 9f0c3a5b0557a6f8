----------------------------- MODULE Operations -----------------------------
(***************************************************************************)
(* What keeps the service in order: the life of a web process, and the     *)
(* maintenance report.  They share no state; each is a specification of    *)
(* its own, named here so that it can be explored beside others and proved *)
(* about.                                                                  *)
(***************************************************************************)
CONSTANTS
  Blank,
  \* WebProcess
  Dependency, Database, Timeout, CacheTtl, DatabaseTimeout, GateTimeout, Retry,
  \* MaintenanceReport
  Run, Snapshot, Target, MaximumBatch, LinkedDays, OrphanDays, ActivityLimit, MaxFaults

VARIABLES
  \* WebProcess
  probe, cached, acquisition, asked, main, app, drainer, shutdown, resources, up, down,
  \* MaintenanceReport
  run, file, lock, faults

Web == INSTANCE WebProcess
Maintenance == INSTANCE MaintenanceReport WITH None <- Blank

(* A positive answer of check() (runtime-readiness.ts:59-88), to the gate  *)
(* or to a health request, rests on every dependency having been in order  *)
(* within the last timeout and cache period, however probes hang and are   *)
(* shared; and once the resources are closed no recovery pass runs or can  *)
(* start and no request is under way (server.ts:126-143).                  *)
WebInv == Web!WebInv

(* A signal ends in closed resources even when a dependency never answers  *)
(* the probe (server.ts:122-151, runtime-readiness.ts:91-97).              *)
ShutdownSettles == Web!ShutdownSettles

(* One run of the report writes at a time, and a receipt said to be        *)
(* written is whole and lists the oldest of what may go                    *)
(* (maintenance-receipt.ts, maintenance-report.ts, image-cleanup-policy.ts).*)
ReceiptsHold == Maintenance!ReceiptsHold
=============================================================================
