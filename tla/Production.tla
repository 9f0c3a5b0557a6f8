----------------------------- MODULE Production -----------------------------
(***************************************************************************)
(* The activations that production starts on, named here so that they can  *)
(* be explored beside others and proved about.                             *)
(***************************************************************************)
CONSTANTS
  Nothing, Artifact, Site, Topology, MaxAge, MaxLifetime, Horizon, MaxReceipts, MaxChanges, MaxActivations

VARIABLES
  now, machine, env, evidence, bindings, issued, process, changes

Activation == INSTANCE ProductionActivation WITH None <- Nothing

(* What a production process runs was shown fit when its activation was    *)
(* issued: every required check, on this artifact and this site, or on the *)
(* one pilot the cutover was rehearsed from                                *)
(* (production-startup.ts:353-541).                                        *)
StartedOnEvidence == Activation!StartedOnEvidence

(* A reboot brings back what ran until its activation expires, and what    *)
(* the verifier calls green the start accepts                              *)
(* (production-startup.ts:422-424, verify-production-readiness.mjs:81-137).*)
ActivationHolds == Activation!ActivationHolds
=============================================================================
