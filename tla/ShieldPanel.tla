---------------------------- MODULE ShieldPanel -----------------------------
(***************************************************************************)
(* The filtered clicks on an author's dashboard, named here so that they   *)
(* can be explored beside other specifications and proved about.           *)
(***************************************************************************)
CONSTANTS NoDate, Link, Click, Days, MaxTick, MaxClicks

VARIABLES tick, active, rows, clicks, counted, panel, came

Shield == INSTANCE TrafficShield WITH None <- NoDate, now <- tick, MaxTime <- MaxTick

(* A day the shield panel calls exact has all that was filtered on it,     *)
(* past midnights and reused slots (mysql-store.ts #updateLink,            *)
(* shield-service.ts).                                                     *)
ShieldIsExact == Shield!ShieldIsExact
=============================================================================
