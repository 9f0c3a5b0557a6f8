---------------------------- MODULE ControlPlane ----------------------------
(***************************************************************************)
(* The settings of a domain, named here so that they can be explored       *)
(* beside others and proved about.                                         *)
(***************************************************************************)
CONSTANTS
  Unset, Admin, Visit, Ttl, Delay, MaxSaves, MaxMishaps

VARIABLES
  stored, cache, admin, reading, settled, saves, used

Settings == INSTANCE SettingsCache WITH None <- Unset, MaxFaults <- MaxMishaps

(* Visits go by a save once it is announced, and a lifetime of the cache   *)
(* after it in any case (admin/service.ts:112-140, 238-249,                *)
(* current-decision-provider.ts:174-249).                                  *)
SettingsInv == Settings!SettingsInv
=============================================================================
