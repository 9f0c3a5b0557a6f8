---------------------------- MODULE Reconciliation ----------------------------
(* The links of a domain and the completeness of its ten-minute buckets:   *)
(* what LinkTraffic observes of a bucket, DeliveredCountry judges.  The    *)
(* two share no variable.                                                  *)
EXTENDS LinkTraffic, DeliveredCountry

(* A window the report calls reconciled has all that was delivered in it;  *)
(* looked at where the behaviours begin, as it speaks of no variable       *)
(* (completeness.ts:185-335).                                              *)
ReconciledWindowIsComplete == Init => ReconciledIsComplete
=============================================================================
