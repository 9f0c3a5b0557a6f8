--------------------------- MODULE MCWorkerLease ---------------------------
(* The lease of the image worker, and beside it the page of an author: two  *)
(* specifications explored side by side, as neither reads the variables of    *)
(* the other.  A behaviour moves one of them, so the state space is the sum   *)
(* of theirs.                                                                 *)
EXTENDS WorkerLease, Desk, TLC

pageVars == <<image, keep, single, pool, batch, preference, scope, told>>

VARIABLE part

(* The page begins in one of its initial states where the lease moves.        *)
MCInit ==
  /\ Init /\ Page!Init
  /\ part \in {"lease", "page"}
  /\ part # "page" => scope = "account" /\ preference.selected = CHOOSE d \in Domain : TRUE

MCNext ==
  /\ UNCHANGED part
  /\ \/ part = "lease" /\ Next /\ UNCHANGED pageVars
     \/ part = "page" /\ Page!Next /\ UNCHANGED vars

MCSpec == MCInit /\ [][MCNext]_<<part, vars, pageVars>>

(* Workers are alike, and so are pictures; no property of the run is about    *)
(* what happens eventually.                                                   *)
Alike == Permutations(Process) \union Permutations(Picture)
=============================================================================
