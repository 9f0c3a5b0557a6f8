---------------------------- MODULE TrafficShield ----------------------------
(* The filtered clicks of the last days on an author's dashboard: how         *)
(* accounting keeps them in a ring of one slot per weekday in the row of each *)
(* link (mysql-store.ts), how the report reads them (shield-service.ts), and  *)
(* how the page shows them (dashboard-shell.js).                              *)
(*                                                                            *)
(* A day is two ticks, so that the history may be activated in the middle of  *)
(* one.  A click is dated when it comes and accounted within a day.           *)
EXTENDS Integers, FiniteSetsExt

CONSTANTS
  None,
  Link,         \* the links of the author
  Click,        \* the clicks under way at one time
  Days,         \* slots of the ring (filteredHistoryDays)
  MaxTime, MaxClicks

Slots == 0..(Days - 1)
Date(tick) == tick \div 2
DayStart(date) == 2 * date
Dates == 0..Date(MaxTime)
Kinds == {"filtered", "delivered"}

VARIABLES
  now,
  active,     \* compact_filtered_history_started_at_utc
  rows,       \* per link, its counters, while it exists
  clicks,     \* the clicks not yet accounted
  counted,    \* per link, kind and date, the clicks that were
  panel,      \* the panel of the page and the report in it
  came        \* clicks so far

vars == <<now, active, rows, clicks, counted, panel, came>>

Undated == [date |-> None, count |-> 0]
NewRow == [lifetime |-> 0, today |-> Undated, ring |-> [s \in Slots |-> Undated]]
NoClick == [link |-> None, kind |-> None, date |-> None]
Closed == [pc |-> "closed", day |-> None, days |-> None]

Init ==
  /\ now = 0 /\ active = None /\ came = 0
  /\ rows = [l \in Link |-> NewRow]
  /\ clicks = [c \in Click |-> NoClick]
  /\ counted = [l \in Link |-> [k \in Kinds |-> [d \in Dates |-> 0]]]
  /\ panel = Closed

-----------------------------------------------------------------------------
(* #updateLink                                                                *)

CountKept(dated, date, n) ==
  IF dated.date = None THEN [date |-> date, count |-> n]
  ELSE IF dated.date <= date THEN [date |-> date, count |-> dated.count + n]
  ELSE dated

(* filtered_d and filtered_c, or the two columns of today: a count is of the  *)
(* latest date, and begins anew with it.                                      *)
Counted(dated, date, n) ==
  IF dated.date = None THEN [date |-> date, count |-> n]
  ELSE IF dated.date = date THEN [dated EXCEPT !.count = @ + n]
  ELSE IF dated.date < date THEN [date |-> date, count |-> n]
  ELSE dated

(* trafficShieldSlotForDate                                                   *)
Slot(date) == date % Days

(* The statement finds no row when the slot has a later date.                 *)
Refused(row, click) ==
  LET slot == row.ring[Slot(click.date)]
  IN click.kind = "filtered" /\ slot.date # None /\ ~(slot.date <= click.date)

(* A filtered click dates today's column too, and adds nothing to it.         *)
AfterClick(row, click) ==
  IF click.kind = "filtered"
  THEN [row EXCEPT !.lifetime = @ + 1, !.today = Counted(@, click.date, 0),
                   !.ring[Slot(click.date)] = Counted(@, click.date, 1)]
  ELSE [row EXCEPT !.today = Counted(@, click.date, 1)]

Come(c, l, kind) ==
  /\ clicks[c] = NoClick /\ rows[l] # None /\ came < MaxClicks
  /\ clicks' = [clicks EXCEPT ![c] = [link |-> l, kind |-> kind, date |-> Date(now)]]
  /\ came' = came + 1
  /\ UNCHANGED <<now, active, rows, counted, panel>>

(* A click whose link is gone, or whose statement fails, is not counted.      *)
Account(c) ==
  LET click == clicks[c]
      l == click.link
      uncounted == UNCHANGED <<rows, counted>>
  IN /\ click # NoClick
     /\ clicks' = [clicks EXCEPT ![c] = NoClick]
     /\ \/ uncounted
        \/ /\ rows[l] # None /\ ~Refused(rows[l], click)
           /\ rows' = [rows EXCEPT ![l] = AfterClick(@, click)]
           /\ counted' = [counted EXCEPT ![l][click.kind][click.date] = @ + 1]
     /\ UNCHANGED <<now, active, panel, came>>

(* Before the activation a filtered click may count in the lifetime only.     *)
CountedInTotal(l) ==
  /\ ~(active # None /\ active <= now) /\ rows[l] # None /\ came < MaxClicks
  /\ rows' = [rows EXCEPT ![l].lifetime = @ + 1]
  /\ counted' = [counted EXCEPT ![l]["filtered"][Date(now)] = @ + 1]
  /\ came' = came + 1
  /\ UNCHANGED <<now, active, clicks, panel>>

(* The moment is taken for the end of its tick.                               *)
Activate ==
  /\ active = None
  /\ active' = now + 1
  /\ UNCHANGED <<now, rows, clicks, counted, panel, came>>

DeleteLink(l) ==
  /\ rows[l] # None
  /\ rows' = [rows EXCEPT ![l] = None]
  /\ UNCHANGED <<now, active, clicks, counted, panel, came>>

-----------------------------------------------------------------------------
(* loadTrafficShieldReport, on behalf of the panel                            *)

(* The panel asks once per page, unless it was not answered.                  *)
Open ==
  /\ panel = Closed
  /\ panel' = [Closed EXCEPT !.pc = "asked", !.day = Date(now)]
  /\ UNCHANGED <<now, active, rows, clicks, counted, came>>

Current == {l \in Link : rows[l] # None}

DailyTotal(date) ==
  MapThenSumSet(LAMBDA l : LET slot == rows[l].ring[Slot(date)]
                           IN IF slot.date = date THEN slot.count ELSE 0, Current)

Collecting(count) == [count |-> count, state |-> "collecting"]

(* A day is exact when the history was active from its start, and is not      *)
(* shown when it was not active at all.                                       *)
ReportedDay(date, today) ==
  IF active = None \/ (date # today /\ ~(active < DayStart(date + 1))) THEN Collecting(None)
  ELSE IF active > DayStart(date) THEN Collecting(DailyTotal(date))
  ELSE [count |-> DailyTotal(date), state |-> IF date = today THEN "exact_so_far" ELSE "exact"]

(* The days are those of the clock read before the statement ran.             *)
Report ==
  /\ panel.pc = "asked"
  /\ \/ panel' = Closed
     \/ panel' = [panel EXCEPT !.pc = "shown",
                    !.days = [d \in (panel.day - Days + 1)..panel.day |-> ReportedDay(d, panel.day)]]
  /\ UNCHANGED <<now, active, rows, clicks, counted, came>>

Reload ==
  /\ panel.pc = "shown" /\ panel' = Closed
  /\ UNCHANGED <<now, active, rows, clicks, counted, came>>

Tick ==
  /\ now < MaxTime
  /\ \A c \in Click : clicks[c] # NoClick => DayStart(clicks[c].date + 2) > now + 1
  /\ now' = now + 1
  /\ UNCHANGED <<active, rows, clicks, counted, panel, came>>

Next ==
  \/ \E c \in Click : Account(c) \/ \E l \in Link, kind \in Kinds : Come(c, l, kind)
  \/ \E l \in Link : CountedInTotal(l) \/ DeleteLink(l)
  \/ Activate \/ Open \/ Report \/ Reload \/ Tick

Spec == Init /\ [][Next]_vars

-----------------------------------------------------------------------------
(* What today's column holds are the delivered clicks of its date, those that *)
(* were accounted after midnight excepted, which belong to the day before.    *)
TodayIsOfItsDate ==
  \A l \in Current : rows[l].today.date # None =>
    rows[l].today.count = counted[l]["delivered"][rows[l].today.date]

(* A day that is called exact has all that was filtered on it, for the links  *)
(* there are now, midnight, late accounting and the reuse of slots            *)
(* notwithstanding ("Incomplete dates are never shown as zero"); but when     *)
(* midnight passes between the clock and the statement, the oldest day's slot *)
(* may have been given to the new day.                                        *)
ExactDays ==
  LET filtered(d) == MapThenSumSet(LAMBDA l : counted[l]["filtered"][d], Current)
      kept == (Date(now) - Days + 1)..panel'.day
  IN panel.pc = "asked" /\ panel'.pc = "shown" =>
       \A d \in kept : panel'.days[d].state # "collecting" =>
         panel'.days[d].count = (IF d \in Dates THEN filtered(d) ELSE 0)

(* Both, after every step (mysql-store.ts:1083-1155, shield-service.ts).      *)
ShieldIsExact == [][TodayIsOfItsDate' /\ ExactDays]_vars
=============================================================================
