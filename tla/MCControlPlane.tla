---------------------------- MODULE MCControlPlane ----------------------------
(* Two specifications that share no variable are explored side by side: the   *)
(* image upload, and the settings of a domain with the form that changes      *)
(* them.  A behaviour moves one of them only, so the state space is the sum.  *)
EXTENDS MCImageUpload, ControlPlane, TLC

CONSTANTS Country, MaxRows

Form == INSTANCE AdminForm WITH Domain <- {1, 2}

settingsVars == <<stored, cache, admin, reading, settled, saves, used>>

MCNext ==
  \/ Settings!Init /\ Next /\ UNCHANGED settingsVars
  \/ Init /\ Settings!Next /\ UNCHANGED vars

(* The administrators are alike; no property names one or needs fairness.     *)
Alike == Permutations(Admin)

MCSpec == Init /\ Settings!Init /\ [][MCNext]_<<vars, settingsVars>>

(* A form that arrives cut short saves nothing, one that is accepted treats   *)
(* each country as it was typed, saving the page as shown changes nothing, and*)
(* it is saved for the domain it was shown for (geo-quality-policy.ts:51-145, *)
(* form-policy.ts:35-65, view.ts, domain-selection-policy.ts:24-57).          *)
FormTruthful == Init /\ Settings!Init => Form!FormTruthful
=============================================================================
