-------------------------- MODULE MCImageAdmission --------------------------
(* Two specifications that share no variable are explored side by side: the   *)
(* admission of image jobs to the queue, and the activations that production  *)
(* processes start on.  A behaviour moves one of them only, so the state      *)
(* space is the sum of both.                                                  *)
EXTENDS ImageAdmission, Production

productionVars == <<now, machine, env, evidence, bindings, issued, process, changes>>

(* A release may run longer than a pilot.                                     *)
Lifetimes == [pilot |-> 1, release |-> 2]

VARIABLE part

MCInit == Init /\ Activation!Init /\ part \in {"admission", "production"}

MCNext ==
  \/ part = "admission" /\ Next /\ UNCHANGED <<part, productionVars>>
  \/ part = "production" /\ Activation!Next /\ UNCHANGED <<part, vars>>

MCSpec == MCInit /\ [][MCNext]_<<part, vars, productionVars>>
=============================================================================
