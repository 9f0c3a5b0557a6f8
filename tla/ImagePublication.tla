-------------------------- MODULE ImagePublication --------------------------
(***************************************************************************)
(* What the image-job ledger promises, without attempts, leases, clocks or *)
(* retries: an accepted image is open until it is either published, for    *)
(* good, or being withdrawn, after which it can only become withdrawn.     *)
(***************************************************************************)
CONSTANT JobId

VARIABLE phase

Phase == {"absent", "open", "published", "withdrawing", "withdrawn"}

Init == phase = [id \in JobId |-> "absent"]

Move(id, from, to) == phase[id] = from /\ phase' = [phase EXCEPT ![id] = to]

Accept(id) == Move(id, "absent", "open")
Publish(id) == Move(id, "open", "published")
BeginWithdrawal(id) == Move(id, "open", "withdrawing")
Withdraw(id) == Move(id, "withdrawing", "withdrawn")

Next == \E id \in JobId :
  Accept(id) \/ Publish(id) \/ BeginWithdrawal(id) \/ Withdraw(id)

Spec == Init /\ [][Next]_phase
=============================================================================
