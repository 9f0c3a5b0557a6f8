--------------------------- MODULE MCImageUpload ---------------------------
(* Small instances of ImageUpload.  A lease token is unique to its claim,  *)
(* which the attempt counters number.                                      *)
EXTENDS ImageUpload

CONSTANT MaxTime   \* clock readings of the ledger the upload is mapped to

MCToken == ({"processing"} \X (1..MaxAttempts)) \union ({"compensation"} \X (1..MaxCompensationAttempts))

(* The row seen from the ledger: one job with the one request key.         *)
Ledger == INSTANCE ImageJobLedger WITH
  JobId <- {"job"}, RequestKey <- {"key"}, Time <- 0..MaxTime,
  jobs <- [id \in {"job"} |-> row],
  requestKey <- [id \in {"job"} |-> IF row = None THEN None ELSE "key"]

(* All the upload service does to its row is what the ledger allows any    *)
(* caller: each version is written by one policy command that applies.     *)
LedgerKept == Ledger!Spec
=============================================================================
