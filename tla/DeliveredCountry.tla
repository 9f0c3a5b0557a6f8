-------------------------- MODULE DeliveredCountry --------------------------
(* When a report may call the delivered clicks of a domain complete:       *)
(* modules/reporting/completeness.ts over the ten-minute buckets of        *)
(* delivered_country_10m_state and diversion_history_10m, and the Redis    *)
(* snapshot a bucket is published from.                                    *)
(*                                                                         *)
(* The rows of a window are sets.  The digest of a snapshot is the         *)
(* snapshot itself; a malformed digest is Null.                            *)
EXTENDS Integers, Sequences, FiniteSetsExt

CONSTANTS
  Null,             \* no row, no value, a malformed value
  Countries,          \* the well-formed country codes
  MaxCounter,       \* DELIVERED_COUNTRY_MAX_COUNTER
  Snapshots, StateRows, HistoryRows   \* those considered

Positive(n) == n \in 1..MaxCounter

(* A sum that would pass the largest counter is refused.                   *)
Overflows(n) == n > MaxCounter

-----------------------------------------------------------------------------
(* evaluateDeliveredCountryRange                                           *)

InvalidRows(window, states, history) ==
  \/ \E r \in states \union history : ~r.mine \/ r.bucket \notin window
  \/ \E r \in history : r.country \notin Countries \/ (r.delivered # Null /\ r.delivered < 0)
  \/ \E r, s \in states : r # s /\ r.bucket = s.bucket
  \/ \E r, s \in history : r # s /\ r.bucket = s.bucket /\ r.country = s.country

State(states, b) == CHOOSE r \in states : r.bucket = b

Delivered(history, b) == {r \in history : r.bucket = b /\ r.delivered # Null}

DeliveredTotal(history, b) == MapThenSumSet(LAMBDA r : r.delivered, Delivered(history, b))

(* What keeps one bucket incomplete, in the order it is looked for.        *)
Problem(b, states, history) ==
  IF ~\E r \in states : r.bucket = b THEN "missing_state" ELSE
  LET row == State(states, b)
      delivered == Delivered(history, b)
      holds == [state_incomplete   |-> row.status # "complete",
                state_not_positive |-> ~Positive(row.total),
                invalid_provenance |-> row.provenance # "redis_nonempty",
                invalid_source     |-> row.source = Null \/ row.run = Null,
                invalid_history    |-> Overflows(DeliveredTotal(history, b)) \/ \E r \in delivered : ~Positive(r.delivered),
                missing_history    |-> delivered = {},
                history_mismatch   |-> DeliveredTotal(history, b) # row.total]
      order == <<"state_incomplete", "state_not_positive", "invalid_provenance", "invalid_source",
                 "invalid_history", "missing_history", "history_mismatch">>
      found == {i \in DOMAIN order : holds[order[i]]}
  IN IF found = {} THEN Null ELSE order[Min(found)]

Incomplete(done, reason) == [complete |-> FALSE, done |-> done, total |-> Null, reason |-> reason]

EvaluateRange(window, states, history) ==
  LET problem(b) == Problem(b, states, history)
      before(b) == {d \in window : d < b}
      sum(buckets) == MapThenSumSet(LAMBDA b : State(states, b).total, buckets)
      stops == {b \in window : \/ \E d \in before(b) \union {b} : problem(d) # Null
                               \/ Overflows(sum(before(b) \union {b}))}
  IN IF InvalidRows(window, states, history) THEN Incomplete(0, "invalid_rows")
     ELSE IF stops = {} THEN [complete |-> TRUE, done |-> Cardinality(window), total |-> sum(window), reason |-> Null]
     ELSE LET first == Min(stops)
          IN Incomplete(Cardinality(before(first)),
                        IF problem(first) = Null THEN "state_not_positive" ELSE problem(first))

-----------------------------------------------------------------------------
(* reconcileDeliveredCountryBucket                                         *)

SnapshotTotal(s) == MapThenSumSet(LAMBDA c : s.countries[c], DOMAIN s.countries)

NormalSnapshotUnsummed(s) ==
  /\ s.run # Null /\ Positive(s.observed)
  /\ DOMAIN s.countries # {} /\ DOMAIN s.countries \subseteq Countries
  /\ \A c \in DOMAIN s.countries : Positive(s.countries[c])

NormalSnapshot(s) ==
  /\ s.run # Null /\ Positive(s.observed)
  /\ DOMAIN s.countries # {} /\ DOMAIN s.countries \subseteq Countries
  /\ \A c \in DOMAIN s.countries : Positive(s.countries[c])
  /\ SnapshotTotal(s) = s.observed

MatchesState(s, row) ==
  /\ row # Null /\ row.mine /\ row.bucket = s.bucket
  /\ row.status = "complete" /\ row.total = s.observed /\ row.provenance = "redis_nonempty"
  /\ row.run = s.run /\ row.source = s

PublishedCountries(s, history) ==
  LET counted == {r \in history : r.delivered # Null}
      wellFormed ==
        /\ \A r \in history : r.mine /\ r.bucket = s.bucket /\ r.country \in Countries
        /\ \A r, t \in history : r.country = t.country => r = t
        /\ \A r \in counted : Positive(r.delivered)
  IN IF wellFormed THEN [c \in {r.country : r \in counted} |-> (CHOOSE r \in counted : r.country = c).delivered] ELSE Null

Reconcile(s, row, history) ==
  CASE s = Null -> "invalidate"
    [] s # Null -> IF ~NormalSnapshot(s) THEN "invalidate"
                   ELSE IF MatchesState(s, row) /\ PublishedCountries(s, history) = s.countries
                        THEN "unchanged" ELSE "replace"

-----------------------------------------------------------------------------
(* What a publisher writes when it is told to replace.                     *)
PublishedState(s) ==
  [mine |-> TRUE, bucket |-> s.bucket, status |-> "complete", total |-> s.observed,
   provenance |-> "redis_nonempty", source |-> s, run |-> s.run]

PublishedHistory(s) ==
  {[mine |-> TRUE, bucket |-> s.bucket, country |-> c, delivered |-> s.countries[c]] : c \in DOMAIN s.countries}

(* A snapshot is of a ten-minute bucket and has a count for some countries; *)
(* null is none of this.                                                   *)
ASSUME CountryConstants ==
  /\ IsFiniteSet(Countries) /\ MaxCounter \in Nat /\ Null \notin Int
  /\ \A s \in Snapshots \ {Null} :
       /\ s.bucket \in Int /\ s.countries = [c \in DOMAIN s.countries |-> s.countries[c]]
       /\ Null \notin {s.countries, PublishedState(s)}

(* The two judges of a bucket agree: what needs no publishing is complete  *)
(* for a report, with the total Redis observed; what is published as told  *)
(* needs no publishing again; and a window of published buckets is         *)
(* complete with their sum, unless the sum overflows (completeness.ts).    *)
ReconciledIsComplete ==
  /\ \A s \in Snapshots, row \in StateRows, history \in SUBSET HistoryRows :
       Reconcile(s, row, history) = "unchanged" =>
         LET judged == EvaluateRange({s.bucket}, {row}, history)
         IN judged.complete /\ judged.total = s.observed
  /\ LET good == {s \in Snapshots : Reconcile(s, Null, {}) = "replace"}
     IN /\ \A s \in good : Reconcile(s, PublishedState(s), PublishedHistory(s)) = "unchanged"
        /\ \A s, t \in good :
             LET judged == EvaluateRange({s.bucket, t.bucket}, {PublishedState(s), PublishedState(t)},
                                         PublishedHistory(s) \union PublishedHistory(t))
             IN s.bucket # t.bucket =>
                  judged.total = IF Overflows(s.observed + t.observed) THEN Null ELSE s.observed + t.observed
=============================================================================
