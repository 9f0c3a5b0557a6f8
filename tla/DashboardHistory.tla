-------------------------- MODULE DashboardHistory --------------------------
(* An author's dashboard as the server loads it (history-service.ts,          *)
(* history-policy.ts and its queries in mysql-store.ts): two summaries behind *)
(* a cache of a minute, and one page of links, while links come and go,       *)
(* midnight passes and queries fail.  Of a summary only the date it was       *)
(* summed for is kept: one statement sums its figures.                        *)
(*                                                                            *)
(* Both summaries are asked for before the page; a promise that is rejected   *)
(* while nobody waits for it ends the process, as no handler is installed for *)
(* such rejections.  invalidateUserStats is left out: no route calls it.      *)
EXTENDS Integers, FiniteSetsExt

CONSTANTS
  None,
  Mine,              \* numbers of the author's links, in the order of creation
  PerPage, Wanted,   \* links on a page, and the pages asked for
  Ttl,               \* statsCacheSeconds
  Delay,             \* what a command to Redis takes at most
  Day, MaxTime, MaxEvents

Kind == {"own", "community"}

VARIABLES
  now,
  links, born,   \* those of the author that exist, and all that ever did
  cache,         \* under the two keys
  page,          \* a request, with its three promises
  up,            \* the web process
  events         \* links created and deleted, and failures so far

vars == <<now, links, born, cache, page, up, events>>

Today == now \div Day

NoSummary == [pc |-> "idle", of |-> None, at |-> None, age |-> 0]

NoPage == [pc |-> "idle", date |-> None, match |-> {}, wanted |-> 1, offset |-> 0,
           existing |-> {}, shown |-> {}, disturbed |-> FALSE,
           own |-> NoSummary, community |-> NoSummary]

Init ==
  /\ now = 0 /\ up = TRUE /\ events = 0
  /\ links \in {{}, Mine} /\ born = links
  /\ cache = [k \in Kind |-> None]
  /\ page = NoPage

Event == events < MaxEvents /\ events' = events + 1

-----------------------------------------------------------------------------
(* Others, on the author's links and the cache                                *)

Create(l) ==
  /\ l \notin born /\ \A n \in Mine : n < l => n \in born
  /\ links' = links \union {l} /\ born' = born \union {l}
  /\ Event /\ UNCHANGED <<now, cache, page, up>>

Delete(l) ==
  /\ l \in links
  /\ links' = links \ {l}
  /\ page' = [page EXCEPT !.disturbed = @ \/ (page.pc = "list" /\ l \in page.match)]
  /\ Event /\ UNCHANGED <<now, born, cache, up>>

Entry(date, at) == [date |-> date, at |-> at, until |-> now + Ttl]

(* Another request, of any process, at the end of #writeCache: it was received*)
(* today or the day before, and its sums are as old as they may be.           *)
OtherWrites(kind) ==
  /\ \E date \in {Today, Max({0, Today - 1})} :
       cache' = [cache EXCEPT ![kind] = Entry(date, Max({0, now - Delay}))]
  /\ UNCHANGED <<now, links, born, page, up, events>>

-----------------------------------------------------------------------------
(* The page of links                                                          *)

Matching == links \intersect page.match

(* resolveDashboardPagination.                                                *)
PageOffset(wanted, count) ==
  LET totalPages == Max({1, (count + PerPage - 1) \div PerPage})
  IN (Min({wanted, totalPages}) - 1) * PerPage

(* listDashboardLinks: the newest first, from the offset on.                  *)
Window(matching, offset) ==
  {l \in matching : Cardinality({n \in matching : n > l}) \in offset..(offset + PerPage - 1)}

CountLinks ==
  /\ page.pc = "count"
  /\ \/ /\ page' = [page EXCEPT !.pc = "list", !.offset = PageOffset(page.wanted, Cardinality(Matching))]
        /\ UNCHANGED events
     \/ Event /\ page' = [page EXCEPT !.pc = "thrown"]
  /\ UNCHANGED <<now, links, born, cache, up>>

ListLinks ==
  /\ page.pc = "list"
  /\ \/ /\ page' = [page EXCEPT !.pc = "all", !.existing = Matching, !.shown = Window(Matching, page.offset)]
        /\ UNCHANGED events
     \/ Event /\ page' = [page EXCEPT !.pc = "failed"]
  /\ UNCHANGED <<now, links, born, cache, up>>

-----------------------------------------------------------------------------
(* The summaries                                                              *)

Resolved(kind, of, at) ==
  page' = [page EXCEPT ![kind] = [pc |-> "done", of |-> of, at |-> None, age |-> now - at]]

(* A mutant: the date in the envelope is not compared.                        *)
InEnvelopeUndated(entry, date) == entry.date = entry.date

(* isCacheEnvelope.                                                           *)
InEnvelope(entry, date) == entry.date = date

(* #readCache.                                                                *)
Hit(kind) ==
  /\ page[kind].pc = "cache" /\ cache[kind] # None
  /\ InEnvelope(cache[kind], page.date)
  /\ Resolved(kind, cache[kind].date, cache[kind].at)
  /\ UNCHANGED <<now, links, born, cache, up, events>>

(* An error is a miss.                                                        *)
Miss(kind) ==
  /\ page[kind].pc = "cache"
  /\ IF cache[kind] # None /\ InEnvelope(cache[kind], page.date) THEN Event ELSE UNCHANGED events
  /\ page' = [page EXCEPT ![kind].pc = "query"]
  /\ UNCHANGED <<now, links, born, cache, up>>

(* loadDashboardOwnStats, loadDashboardCommunityStats.                        *)
Query(kind) ==
  /\ page[kind].pc = "query"
  /\ page' = [page EXCEPT ![kind] = [pc |-> "store", of |-> page.date, at |-> now, age |-> 0]]
  /\ UNCHANGED <<now, links, born, cache, up, events>>

(* #writeCache; an error is forgotten.                                        *)
WriteCache(kind) ==
  /\ page[kind].pc = "store"
  /\ Resolved(kind, page[kind].of, page[kind].at)
  /\ \/ cache' = [cache EXCEPT ![kind] = Entry(page.date, page[kind].at)] /\ UNCHANGED events
     \/ Event /\ UNCHANGED cache
  /\ UNCHANGED <<now, links, born, up>>

(* Promise.all waits for the summaries only once the links were counted, and  *)
(* never if that throws.                                                      *)
Awaited == page.pc \notin {"count", "thrown"}

OwnRejected ==
  /\ page.own.pc = "query" /\ Event
  /\ up' = Awaited
  /\ page' = IF Awaited THEN [page EXCEPT !.pc = "failed", !.own.pc = "failed"]
                        ELSE [NoPage EXCEPT !.pc = "gone"]
  /\ UNCHANGED <<now, links, born, cache>>

(* The community's totals are optional.                                       *)
CommunityRejected ==
  /\ page.community.pc = "query" /\ Event
  /\ page' = [page EXCEPT !.community = [NoSummary EXCEPT !.pc = "done"]]
  /\ UNCHANGED <<now, links, born, cache, up>>

-----------------------------------------------------------------------------
(* load                                                                       *)

Load ==
  /\ up /\ page = NoPage
  /\ \E match \in {Mine, {Max(Mine)}}, wanted \in Wanted :
       page' = [NoPage EXCEPT !.pc = "count", !.date = Today, !.match = match, !.wanted = wanted,
                              !.own.pc = "cache", !.community.pc = "cache"]
  /\ UNCHANGED <<now, links, born, cache, up, events>>

Settled(kind) == page[kind].pc \in {"done", "failed"}

(* The page is sent, or the error and all that went on behind it.             *)
End ==
  /\ page.pc \in {"all", "failed", "thrown", "gone"}
  /\ page.pc # "gone" => \A k \in Kind : Settled(k)
  /\ page' = NoPage
  /\ UNCHANGED <<now, links, born, cache, up, events>>

(* PM2 starts the process again.                                              *)
Restart == ~up /\ up' = TRUE /\ UNCHANGED <<now, links, born, cache, page, events>>

Tick ==
  /\ now < MaxTime
  /\ \A k \in Kind : page[k].pc = "store" => now < page[k].at + Delay
  /\ now' = now + 1
  /\ cache' = [k \in Kind |-> IF cache[k] # None /\ cache[k].until <= now + 1 THEN None ELSE cache[k]]
  /\ UNCHANGED <<links, born, page, up, events>>

Next ==
  \/ \E l \in Mine : Create(l) \/ Delete(l)
  \/ \E k \in Kind : OtherWrites(k) \/ Hit(k) \/ Miss(k) \/ Query(k) \/ WriteCache(k)
  \/ OwnRejected \/ CommunityRejected
  \/ Load \/ CountLinks \/ ListLinks \/ End
  \/ Restart \/ Tick

Spec == Init /\ [][Next]_vars

-----------------------------------------------------------------------------
(* A summary is of the page's own date, whoever filled the cache and when,    *)
(* and not older than the cache allows (history-service.ts:104-181).          *)
SummaryOfItsDate ==
  \A k \in Kind : page[k].pc = "done" /\ page[k].of # None =>
    page[k].of = page.date /\ page[k].age <= Ttl + Delay

(* Unless a link was deleted while the page was loaded, a page is not empty   *)
(* when there is something to show (history-policy.ts:47-64).                 *)
PageNotEmpty == page.pc = "all" /\ ~page.disturbed /\ page.existing # {} => page.shown # {}

HistoryHolds == SummaryOfItsDate /\ PageNotEmpty
=============================================================================
