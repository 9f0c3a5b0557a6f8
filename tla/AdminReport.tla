----------------------------- MODULE AdminReport -----------------------------
(* The traffic report of one domain on the admin page: admin-report-          *)
(* service.ts, report-window.ts and admin-report-policy.ts over the           *)
(* ten-minute buckets, while visits are booked and the publisher, which is    *)
(* not part of this repository, seals and repairs buckets.                    *)
(*                                                                            *)
(* Time is counted in buckets, and the lag of the seals is a whole number of  *)
(* them.  Each statement is a step; countries are left out, as every figure   *)
(* is a sum of those of the countries.                                        *)
EXTENDS Integers, FiniteSetsExt

CONSTANTS
  None, Unread,
  Applicable,       \* the domain is one of deliveredCountryDomainIds
  Hours, Day, Week, \* buckets in six hours and in a day, days in "7d"
  Offset,           \* buckets the reporting timezone is ahead of UTC
  Lag,              \* buckets before a finished bucket is due to be sealed
  Tolerance,        \* publisherMissToleranceSeconds
  MaxTime, MaxMark, MaxUpsets

Ranges == {"6h", "yesterday", "7d"}
Bucket == 0..(MaxTime - 1)

VARIABLES
  now,
  publisher,    \* whether it ran in this bucket, and the last one it missed
  marks,        \* the buckets from which on a figure is recorded in full
  buckets,      \* per bucket, the row of its state and of its clicks
  unrecorded,   \* buckets with a diversion that was not recorded
  report,       \* the request for a report
  upsets        \* gaps, repairs, failures and unrecorded clicks so far

vars == <<now, publisher, marks, buckets, unrecorded, report, upsets>>

NoBucket == [status |-> None, total |-> 0, delivered |-> 0, diverted |-> 0]
NoReport == [pc |-> "idle", range |-> None, marks |-> None, window |-> None,
             rows |-> None, states |-> None, history |-> None, shown |-> None]

Init ==
  /\ now = 0
  /\ publisher = [ran |-> FALSE, missed |-> FALSE]
  /\ marks = [delivered |-> None, diversion |-> None]
  /\ buckets = [b \in Bucket |-> NoBucket]
  /\ unrecorded = {} /\ upsets = 0
  /\ report = NoReport

Upset == upsets < MaxUpsets /\ upsets' = upsets + 1
NoUpset == UNCHANGED upsets

-----------------------------------------------------------------------------
(* What others write                                                          *)

(* A figure is recorded in full from the next bucket on.                      *)
Activate(figure) ==
  /\ marks[figure] = None /\ now < MaxMark
  /\ marks' = [marks EXCEPT ![figure] = now + 1]
  /\ UNCHANGED <<now, publisher, buckets, unrecorded, report, upsets>>

(* Until then the writer that was replaced may record nothing.                *)
BookDiversion ==
  /\ now \in Bucket
  /\ \/ buckets' = [buckets EXCEPT ![now].diverted = @ + 1] /\ UNCHANGED unrecorded
     \/ /\ ~(marks.diversion # None /\ marks.diversion <= now)
        /\ unrecorded' = unrecorded \union {now} /\ UNCHANGED buckets
  /\ Upset
  /\ UNCHANGED <<now, publisher, marks, report>>

Sealed(b, status, n) == [buckets[b] EXCEPT !.status = status, !.total = n, !.delivered = n]

Due(b) == marks.delivered # None /\ b >= marks.delivered /\ b + 1 + Lag <= now

(* One run seals all that is due; a bucket whose clicks were not all observed *)
(* is marked incomplete.                                                      *)
Publish ==
  LET due == {b \in Bucket : Due(b) /\ buckets[b].status = None}
      sealing(gaps) == buckets' = [b \in Bucket |->
        IF b \in gaps THEN Sealed(b, "incomplete", 1) ELSE IF b \in due THEN Sealed(b, "complete", 1) ELSE buckets[b]]
  IN /\ ~publisher.ran
     /\ publisher' = [ran |-> TRUE, missed |-> FALSE]
     /\ \/ sealing({}) /\ NoUpset
        \/ (\E gap \in due : sealing({gap})) /\ Upset
     /\ UNCHANGED <<now, marks, unrecorded, report>>

(* A later reconciliation replaces the count.                                 *)
Repair(b) ==
  /\ buckets[b].status # None
  /\ buckets' = [buckets EXCEPT ![b] = Sealed(b, "complete", buckets[b].total + 1)]
  /\ Upset
  /\ UNCHANGED <<now, publisher, marks, unrecorded, report>>

(* The publisher misses one of its slots at most, never two in a row.         *)
Tick ==
  /\ now < MaxTime
  /\ publisher.ran \/ ~publisher.missed
  /\ now' = now + 1
  /\ publisher' = [ran |-> FALSE, missed |-> ~publisher.ran]
  /\ UNCHANGED <<marks, buckets, unrecorded, report, upsets>>

-----------------------------------------------------------------------------
(* AdminReportService.load                                                    *)

LoadActivation(range) ==
  /\ report = NoReport
  /\ report' = [NoReport EXCEPT !.pc = "window", !.range = range, !.marks = marks]
  /\ UNCHANGED <<now, publisher, marks, buckets, unrecorded, upsets>>

Configured == Applicable /\ report.marks.delivered # None

EdgeAtSeal(configured) == now - (IF configured THEN Lag ELSE 0)

(* The last six hours end where a slot the publisher missed does not show.    *)
Edge(configured) == now - (IF configured THEN Lag + Tolerance ELSE 0)

Midnight == ((now + Offset) \div Day) * Day - Offset

Span(start, end) == [start |-> start, end |-> end]

(* buildAdminReportWindow                                                     *)
Window(range, configured) ==
  CASE range = "6h" -> Span(Edge(configured) - Hours, Edge(configured))
    [] range = "yesterday" -> Span(Midnight - Day, Midnight)
    [] range = "7d" -> Span(Midnight - Week * Day, Midnight)

ChooseWindow ==
  /\ report.pc = "window"
  /\ report' = [report EXCEPT !.pc = "read", !.window = Window(report.range, Configured)]
  /\ UNCHANGED <<now, publisher, marks, buckets, unrecorded, upsets>>

Within(window) == {b \in Bucket : window.start <= b /\ b < window.end}

Covers(mark, window) == mark # None /\ mark <= window.start

Sum(field, window) == MapThenSumSet(LAMBDA b : buckets[b][field], Within(window))

(* evaluateDeliveredCountryRange, of what the two statements returned.        *)
Evaluated(r) ==
  IF /\ Covers(r.marks.delivered, r.window) /\ r.states # Unread /\ r.history # Unread
     /\ \A b \in Within(r.window) : r.states[b].status = "complete" /\ r.states[b].total = r.history[b]
  THEN MapThenSumSet(LAMBDA b : r.states[b].total, Within(r.window))
  ELSE None

AgreesAssumed(rows, total) == TRUE

Agrees(rows, total) == rows.delivered = total

(* buildAdminCountryOutcomeReport: each figure is shown on its own, and a     *)
(* total that contradicts the states fails the report.                        *)
Built(r) ==
  LET total == IF Applicable THEN Evaluated(r) ELSE None
      shown == [delivered |-> IF total = None THEN None ELSE r.rows.delivered,
                diverted |-> IF Covers(r.marks.diversion, r.window) THEN r.rows.diverted ELSE None]
  IN IF total # None /\ ~Agrees(r.rows, total) THEN [r EXCEPT !.pc = "failed"]
     ELSE [r EXCEPT !.pc = "shown", !.shown = shown]

Read(r) ==
  LET asked == Configured /\ Covers(r.marks.delivered, r.window)
      complete == r.rows # None /\ (asked => r.states = Unread \/ r.history # None)
  IN report' = IF complete THEN Built(r) ELSE r

ReadRows ==
  /\ report.pc = "read" /\ report.rows = None
  /\ \/ Read([report EXCEPT !.rows =
                [delivered |-> Sum("delivered", report.window), diverted |-> Sum("diverted", report.window)]])
        /\ NoUpset
     \/ report' = [report EXCEPT !.pc = "failed"] /\ Upset
  /\ UNCHANGED <<now, publisher, marks, buckets, unrecorded>>

ReadStates ==
  /\ report.pc = "read" /\ report.states = None
  /\ Configured /\ Covers(report.marks.delivered, report.window)
  /\ \/ Read([report EXCEPT !.states = [b \in Within(report.window) |->
                 [status |-> buckets[b].status, total |-> buckets[b].total]]]) /\ NoUpset
     \/ Read([report EXCEPT !.states = Unread]) /\ Upset
  /\ UNCHANGED <<now, publisher, marks, buckets, unrecorded>>

ReadHistory ==
  /\ report.pc = "read" /\ report.states \notin {None, Unread} /\ report.history = None
  /\ \/ Read([report EXCEPT !.history = [b \in Within(report.window) |-> buckets[b].delivered]]) /\ NoUpset
     \/ Read([report EXCEPT !.history = Unread]) /\ Upset
  /\ UNCHANGED <<now, publisher, marks, buckets, unrecorded>>

Answer ==
  /\ report.pc \in {"shown", "failed"}
  /\ report' = NoReport
  /\ UNCHANGED <<now, publisher, marks, buckets, unrecorded, upsets>>

Next ==
  \/ \E figure \in DOMAIN marks : Activate(figure)
  \/ BookDiversion \/ Publish \/ Tick
  \/ \E b \in Bucket : Repair(b)
  \/ \E range \in Ranges : LoadActivation(range)
  \/ ChooseWindow \/ ReadRows \/ ReadStates \/ ReadHistory \/ Answer

Spec == Init /\ [][Next]_vars

-----------------------------------------------------------------------------
(* A count of delivered clicks that is shown is that of sealed buckets, and   *)
(* the present one, however the publisher wrote between the three statements  *)
(* that were read; a count of diversions covers no bucket in which some went  *)
(* unrecorded.                                                                *)
ShownIsWhole ==
  LET shown == report'.shown
      window == report'.window
  IN report'.pc = "shown" /\ report.pc # "shown" =>
       /\ shown.delivered # None =>
            /\ window.start \in Nat /\ \A b \in Within(window) : buckets[b].status = "complete"
            /\ shown.delivered = Sum("delivered", window)
       /\ shown.diverted # None => window.start \in Nat /\ Within(window) \intersect unrecorded = {}

(* The last six hours reach no bucket that waits to be sealed, though the     *)
(* publisher missed a slot ("one missed writer-lock slot does not become a    *)
(* false complete edge").                                                     *)
EdgeIsSealed ==
  report.window # None /\ report.range = "6h" /\ Applicable /\ Covers(report.marks.delivered, report.window)
    => \A b \in Within(report.window) : buckets[b].status # None

ReportTruthful == []EdgeIsSealed /\ [][ShownIsWhole]_vars
=============================================================================
