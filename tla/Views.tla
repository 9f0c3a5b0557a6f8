------------------------------- MODULE Views --------------------------------
(***************************************************************************)
(* What the service shows of its traffic: an author's dashboard, and the   *)
(* report of a domain.  They share no state; each is a specification of    *)
(* its own, named here so that it can be explored beside others and proved *)
(* about.                                                                  *)
(***************************************************************************)
CONSTANTS
  Absent,
  \* DashboardHistory
  Mine, PerPage, Wanted, SummaryTtl, CommandTime, Day, MaxTime, MaxEvents,
  \* AdminReport
  Unread, Applicable, Hours, BucketsADay, Week, Offset, Lag, Tolerance, MaxBucket, MaxMark, MaxUpsets

VARIABLES
  \* DashboardHistory
  time, links, born, summaries, page, alive, events,
  \* AdminReport
  bucket, publisher, marks, buckets, unrecorded, report, upsets

History == INSTANCE DashboardHistory WITH
  None <- Absent, now <- time, cache <- summaries, up <- alive, Ttl <- SummaryTtl, Delay <- CommandTime
Traffic == INSTANCE AdminReport WITH
  None <- Absent, now <- bucket, Day <- BucketsADay, MaxTime <- MaxBucket

(* The totals of a dashboard are of its date and recent, and its page has  *)
(* links when there are any to show (history-service.ts,                   *)
(* history-policy.ts).                                                     *)
HistoryHolds == History!HistoryHolds

(* What the report of a domain shows is whole and present, though the      *)
(* publisher works between its queries (admin-report-service.ts:55-118,    *)
(* report-window.ts, admin-report-policy.ts:60-203).                       *)
ReportTruthful == Traffic!ReportTruthful
=============================================================================
