----------------------------- MODULE LinkTraffic -----------------------------
(* Short links of one domain while they are created, deleted and visited:  *)
(* links/service.ts, redirect/service.ts and mysql-store.ts around the     *)
(* link cache, the click claims and the country bucket in Redis            *)
(* (redis-store.ts, reporting/observer.ts).                                *)
(*                                                                         *)
(* A step is one access to a store.  An access may fail, counted by        *)
(* MaxFaults, with or without its effect.  All visits come from one        *)
(* address, and the observer of the domain is enabled.  Time is what is    *)
(* left of a cached entry or a claim, and what has passed since a row was  *)
(* read or deleted.                                                        *)
EXTENDS RedirectDecision, FiniteSets

CONSTANTS
  Visitor, Writer, Code,
  Old,              \* the link there is at first, if any
  Config,           \* the member of Configs in force
  Sample,           \* the members of Visits that come
  AcceptUnproven,   \* acceptUnprovenDeliveredClaim of the domain
  CacheTtl, ClaimTtl,
  Delay,            \* how long one command may take
  MaxAttempts,      \* codes tried for one link
  MaxFaults

ASSUME TrafficConstants ==
  /\ Old \notin Writer /\ Old \notin Visitor /\ Config \in Configs /\ Sample \subseteq Visits
  /\ None \notin Writer \union Visitor \union {Old}
  /\ None \notin {"winner", "duplicate"} /\ None \notin [link : Writer \union {Old}, instant : {0}]
  /\ AcceptUnproven \in BOOLEAN
  /\ {CacheTtl, ClaimTtl, MaxAttempts} \subseteq Nat \ {0} /\ {Delay, MaxFaults} \subseteq Nat
  /\ Delay < ClaimTtl

VARIABLES
  rows,      \* the link of each code, named after its writer
  gone,      \* time since each link was deleted
  cache,     \* per code, the cached link and the cached preview of a link
  claims,    \* per link, the owner of the click key
  books,     \* clicks booked by outcome, and the bucket observed of them
  visit, writer,
  faults

vars == <<rows, gone, cache, claims, books, visit, writer, faults>>

Link == Writer \union {Old}
Outcomes == {"delivered", "diverted", "filtered_meta", "filtered_bot"}
Kinds == {"link", "preview"}

(* A deleted link may be read just before, cached Delay later and served   *)
(* for a lifetime of the cache; a preview may be taken from it then, and   *)
(* be cached two commands later.                                           *)
LastSeen == [link |-> Delay + CacheTtl, preview |-> 3 * Delay + 2 * CacheTtl]
Longest == LastSeen["preview"] + 1

Empty == [link |-> None, left |-> 0]
NoVisit == [pc |-> "new", code |-> None, link |-> None, age |-> 0, forgotten |-> [k \in Kinds |-> {}],
            outcome |-> None, took |-> FALSE, claim |-> None, preview |-> None]

NoWriter == [pc |-> "new", code |-> None, tries |-> 0, instant |-> 0, answer |-> None,
             read |-> None, made |-> 0]

(* The row keeps the second of its creation, and no fraction.              *)
Row(link) == [link |-> link, instant |-> 0]

Init ==
  /\ \E c \in Code \union {None} : rows = [d \in Code |-> IF d = c THEN Row(Old) ELSE None]
  /\ gone = [l \in Link |-> 0]
  /\ cache = [k \in Kinds |-> [c \in Code |-> Empty]]
  /\ claims = [l \in Link |-> [owner |-> None, left |-> 0]]
  /\ books = [booked |-> [o \in Outcomes |-> 0], observed |-> 0, gap |-> FALSE, unmarked |-> 0]
  /\ visit = [v \in Visitor |-> NoVisit]
  /\ writer = [w \in Writer |-> NoWriter]
  /\ faults = 0

Fault == faults < MaxFaults /\ faults' = faults + 1
NoFault == UNCHANGED faults

Set(v, x) == visit' = [visit EXCEPT ![v] = x]
Go(v, pc) == Set(v, [visit[v] EXCEPT !.pc = pc])
Leave(v) == Set(v, [NoVisit EXCEPT !.pc = "done"])
Then(v, pc) == IF pc = "done" THEN Leave(v) ELSE Go(v, pc)
SetWriter(w, x) == writer' = [writer EXCEPT ![w] = x]
Answer(w, answer) == SetWriter(w, [NoWriter EXCEPT !.pc = "done", !.answer = answer, !.made = writer[w].made])

FreshAsClaim(link) == [link |-> link, left |-> ClaimTtl]

Fresh(link) == [link |-> link, left |-> CacheTtl]
CacheSet(kind, c, link) == cache' = [cache EXCEPT ![kind][c] = Fresh(link)]

-----------------------------------------------------------------------------
(* A visit: the link                                                       *)

(* What may no longer be served, by the time the visit begins.             *)
Forgotten == [k \in Kinds |-> {l \in Link : gone[l] > LastSeen[k]}]

Arrive(v, c) ==
  /\ visit[v].pc = "new"
  /\ Set(v, [NoVisit EXCEPT !.pc = "getLink", !.code = c, !.forgotten = Forgotten])
  /\ UNCHANGED <<rows, gone, cache, claims, books, writer, faults>>

GetLink(v) ==
  LET entry == cache["link"][visit[v].code]
  IN /\ visit[v].pc = "getLink"
     /\ \/ entry # Empty /\ Set(v, [visit[v] EXCEPT !.pc = "serve", !.link = entry.link]) /\ NoFault
        \/ entry = Empty /\ Go(v, "findLink") /\ NoFault
        \/ Go(v, "findLink") /\ Fault
     /\ UNCHANGED <<rows, gone, cache, claims, books, writer>>

FindLink(v) ==
  LET row == rows[visit[v].code]
  IN /\ visit[v].pc = "findLink"
     /\ \/ row = None /\ Leave(v) /\ NoFault
        \/ row # None /\ Set(v, [visit[v] EXCEPT !.pc = "fill", !.link = row.link, !.age = 0]) /\ NoFault
        \/ Leave(v) /\ Fault
     /\ UNCHANGED <<rows, gone, cache, claims, books, writer>>

Fill(v) ==
  LET filled == CacheSet("link", visit[v].code, visit[v].link)
  IN /\ visit[v].pc = "fill" /\ Set(v, [visit[v] EXCEPT !.pc = "serve", !.age = 0])
     /\ \/ filled /\ NoFault
        \/ (filled \/ UNCHANGED cache) /\ Fault
     /\ UNCHANGED <<rows, gone, claims, books, writer>>

(* The agent decides what is served; a bot is neither claimed nor booked.  *)
Serve(v, x) ==
  LET outcome == Outcome(Decision(Config, x))
  IN /\ visit[v].pc = "serve"
     /\ \/ PreviewCrawler(x.agent) /\ Set(v, [visit[v] EXCEPT !.pc = "getPreview", !.age = 0])
        \/ ~PreviewCrawler(x.agent) /\ GenericBot(x.agent) /\ Leave(v)
        \/ ~GenericBot(x.agent) /\ Set(v, [visit[v] EXCEPT !.pc = "claim", !.outcome = outcome])
     /\ UNCHANGED <<rows, gone, cache, claims, books, writer, faults>>

GetPreview(v) ==
  LET entry == cache["preview"][visit[v].code]
      rendered == Set(v, [visit[v] EXCEPT !.pc = "setPreview", !.age = 0])
  IN /\ visit[v].pc = "getPreview"
     /\ \/ entry # Empty /\ Set(v, [visit[v] EXCEPT !.pc = "done", !.age = 0, !.preview = entry.link]) /\ NoFault
        \/ entry = Empty /\ rendered /\ NoFault
        \/ rendered /\ Fault
     /\ UNCHANGED <<rows, gone, cache, claims, books, writer>>

SetPreview(v) ==
  LET filled == CacheSet("preview", visit[v].code, visit[v].link)
  IN /\ visit[v].pc = "setPreview"
     /\ Set(v, [visit[v] EXCEPT !.pc = "done", !.age = 0, !.preview = visit[v].link])
     /\ \/ filled /\ NoFault
        \/ (filled \/ UNCHANGED cache) /\ Fault
     /\ UNCHANGED <<rows, gone, claims, books, writer>>

-----------------------------------------------------------------------------
(* A visit: the click                                                      *)

Claimed(v, claim, took) ==
  Set(v, [visit[v] EXCEPT !.claim = claim, !.took = took, !.age = 0,
                          !.pc = IF claim = "duplicate" THEN "done" ELSE "record"])

AwaitReadback(v, took) == Set(v, [visit[v] EXCEPT !.pc = "readClaim", !.took = took, !.age = 0])

(* claimWithOwnership: SET NX, and a readback of every answer but OK.      *)
Claim(v) ==
  LET l == visit[v].link
      taken == claims' = [claims EXCEPT ![l] = [owner |-> v, left |-> ClaimTtl]]
      free == claims[l].owner = None
  IN /\ visit[v].pc = "claim"
     /\ \/ free /\ taken /\ Claimed(v, "winner", TRUE) /\ NoFault
        \/ ~free /\ UNCHANGED claims /\ AwaitReadback(v, FALSE) /\ NoFault
        \/ AwaitReadback(v, FALSE) /\ UNCHANGED claims /\ Fault
        \/ free /\ taken /\ AwaitReadback(v, TRUE) /\ Fault
     /\ UNCHANGED <<rows, gone, cache, books, writer>>

StoredAny(v) == "winner"

Stored(v) == IF claims[visit[v].link].owner = v THEN "winner" ELSE "duplicate"

ReadClaim(v) ==
  /\ visit[v].pc = "readClaim"
  /\ \/ claims[visit[v].link].owner # None /\ Claimed(v, Stored(v), visit[v].took) /\ NoFault
     \/ claims[visit[v].link].owner = None /\ Claimed(v, "unavailable", visit[v].took) /\ NoFault
     \/ Claimed(v, "unavailable", visit[v].took) /\ Fault
  /\ UNCHANGED <<rows, gone, cache, claims, books, writer>>

Proven(v) == visit[v].claim = "winner" \/ AcceptUnproven

AfterRecordUnchecked(v, succeeded) ==
  IF visit[v].outcome # "delivered" THEN "done" ELSE IF Proven(v) /\ succeeded THEN "observe" ELSE "done"

(* A delivered click is observed when booked and proven; else it leaves a  *)
(* gap in the bucket.                                                      *)
AfterRecord(v, succeeded) ==
  IF visit[v].outcome # "delivered" THEN "done" ELSE IF Proven(v) /\ succeeded THEN "observe" ELSE "mark"

(* record(): the row is updated by its id, or the booking fails.           *)
Record(v) ==
  LET there == \E c \in Code : rows[c] # None /\ rows[c].link = visit[v].link
      booked == books' = [books EXCEPT !.booked[visit[v].outcome] = @ + 1]
  IN /\ visit[v].pc = "record"
     /\ \/ there /\ booked /\ Then(v, AfterRecord(v, TRUE)) /\ NoFault
        \/ ~there /\ UNCHANGED books /\ Then(v, AfterRecord(v, FALSE)) /\ NoFault
        \/ (UNCHANGED books \/ (there /\ booked)) /\ Then(v, AfterRecord(v, FALSE)) /\ Fault
     /\ UNCHANGED <<rows, gone, cache, claims, writer>>

Observe(v) ==
  LET counted == books' = [books EXCEPT !.observed = @ + 1]
  IN /\ visit[v].pc = "observe"
     /\ \/ counted /\ Leave(v) /\ NoFault
        \/ (counted \/ UNCHANGED books) /\ Go(v, "mark") /\ Fault
     /\ UNCHANGED <<rows, gone, cache, claims, writer>>

(* The gap flag is a file that is made once and never removed.             *)
Mark(v) ==
  /\ visit[v].pc = "mark" /\ Leave(v)
  /\ \/ books' = [books EXCEPT !.gap = TRUE] /\ NoFault
     \/ books' = [books EXCEPT !.unmarked = @ + 1] /\ Fault
  /\ UNCHANGED <<rows, gone, cache, claims, writer>>

-----------------------------------------------------------------------------
(* LinkService.create, with its answer, and deleteOwned                    *)

(* The clock reads a fraction of a second, which the row will not have.    *)
Create(w, instant) ==
  /\ writer[w].pc = "new"
  /\ SetWriter(w, [NoWriter EXCEPT !.pc = "insert", !.instant = instant])
  /\ UNCHANGED <<rows, gone, cache, claims, books, visit, faults>>

Committed(w, c) == rows' = [rows EXCEPT ![c] = Row(w)]

(* One transaction.  A taken code is tried anew with another; after COMMIT *)
(* was sent nothing is retried.                                            *)
Insert(w, c) ==
  LET x == [writer[w] EXCEPT !.code = c, !.tries = @ + 1]
      sent == [x EXCEPT !.pc = "readBack"]
  IN /\ writer[w].pc = "insert"
     /\ \/ /\ rows[c] # None /\ UNCHANGED rows /\ NoFault
           /\ IF x.tries < MaxAttempts THEN SetWriter(w, [writer[w] EXCEPT !.tries = @ + 1]) ELSE Answer(w, "error")
        \/ /\ rows[c] = None /\ Committed(w, c) /\ NoFault
           /\ SetWriter(w, [NoWriter EXCEPT !.pc = "done", !.answer = "ok", !.made = x.made + 1])
        \/ UNCHANGED rows /\ Answer(w, "error") /\ Fault
        \/ rows[c] = None /\ UNCHANGED rows /\ SetWriter(w, sent) /\ Fault
        \/ rows[c] = None /\ Committed(w, c) /\ SetWriter(w, [sent EXCEPT !.made = @ + 1]) /\ Fault
     /\ UNCHANGED <<gone, cache, claims, books, visit>>

AfterReadBackRetried(w, seen) == IF seen THEN "ok" ELSE "retry"

AfterReadBack(w, seen) == IF seen THEN "ok" ELSE "error"

(* observeCommittedLinkCreate: the row is that of this request when every  *)
(* field agrees, the time of its creation to the millisecond.              *)
SameTuple(w, row) == row # None /\ row.link = w /\ row.instant = writer[w].instant

ReadBack(w) ==
  LET row == rows[writer[w].code]
      then(answer) == [writer[w] EXCEPT !.pc = IF answer = "retry" THEN "insert" ELSE "done", !.answer = answer]
      read == IF row = None THEN None ELSE row.link
  IN /\ writer[w].pc = "readBack"
     /\ \/ SetWriter(w, [then(AfterReadBack(w, SameTuple(w, row))) EXCEPT !.read = read]) /\ NoFault
        \/ SetWriter(w, then("error")) /\ Fault
     /\ UNCHANGED <<rows, gone, cache, claims, books, visit>>

Delete(w, c) ==
  LET link == IF rows[c] = None THEN Old ELSE rows[c].link
      deleted == rows' = [rows EXCEPT ![c] = None] /\ gone' = [gone EXCEPT ![link] = 1]
      kept == UNCHANGED <<rows, gone>>
  IN /\ writer[w].pc = "new"
     /\ \/ rows[c] = None /\ kept /\ Answer(w, None) /\ NoFault
        \/ rows[c] # None /\ deleted /\ SetWriter(w, [NoWriter EXCEPT !.pc = "invalidate", !.code = c]) /\ NoFault
        \/ (kept \/ (rows[c] # None /\ deleted)) /\ Answer(w, None) /\ Fault
     /\ UNCHANGED <<cache, claims, books, visit>>

Invalidate(w) ==
  LET dropped == cache' = [k \in Kinds |-> [cache[k] EXCEPT ![writer[w].code] = Empty]]
  IN /\ writer[w].pc = "invalidate" /\ Answer(w, None)
     /\ \/ dropped /\ NoFault
        \/ (dropped \/ UNCHANGED cache) /\ Fault
     /\ UNCHANGED <<rows, gone, claims, books, visit>>

-----------------------------------------------------------------------------
(* A command is cut off; between a link and its decision nothing waits.    *)
Holding(v) == visit[v].pc \in {"fill", "getPreview", "setPreview", "readClaim"}

(* From the deletion on; 0 while the link lives.                           *)
Older(age, most) == IF age \in 1..(most - 1) THEN age + 1 ELSE age

LapseNever(entry) == entry

Lapse(entry) == IF entry.left > 1 THEN [entry EXCEPT !.left = @ - 1] ELSE Empty

Pass ==
  /\ \A v \in Visitor : visit[v].pc # "serve" /\ (Holding(v) => visit[v].age < Delay)
  /\ gone' = [l \in Link |-> Older(gone[l], Longest)]
  /\ cache' = [k \in Kinds |-> [c \in Code |-> Lapse(cache[k][c])]]
  /\ claims' = [l \in Link |-> IF claims[l].left > 1 THEN [claims[l] EXCEPT !.left = @ - 1]
                               ELSE [owner |-> None, left |-> 0]]
  /\ visit' = [v \in Visitor |-> IF Holding(v) THEN [visit[v] EXCEPT !.age = @ + 1] ELSE visit[v]]
  /\ UNCHANGED <<rows, books, writer, faults>>

Visiting(v) ==
  \/ \E c \in Code : Arrive(v, c)
  \/ \E x \in Sample : Serve(v, x)
  \/ GetLink(v) \/ FindLink(v) \/ Fill(v) \/ GetPreview(v) \/ SetPreview(v)
  \/ Claim(v) \/ ReadClaim(v) \/ Record(v) \/ Observe(v) \/ Mark(v)

Writing(w) ==
  \/ \E instant \in {0, 1} : Create(w, instant)
  \/ \E c \in Code : Insert(w, c) \/ Delete(w, c)
  \/ ReadBack(w) \/ Invalidate(w)

Next ==
  \/ \E v \in Visitor : Visiting(v) \/ \E w \in Writer : Writing(w)
  \/ Pass

Spec == Init /\ [][Next]_vars

-----------------------------------------------------------------------------
(* Properties                                                              *)

TypeOK ==
  /\ \A c \in Code : rows[c] # None => rows[c].link \in Link
  /\ \A c, d \in Code : rows[c] # None /\ rows[c] = rows[d] => c = d
  /\ gone \in [Link -> 0..Longest]
  /\ \A k \in Kinds, c \in Code : cache[k][c] = Empty \/ cache[k][c] \in [link : Link, left : 1..CacheTtl]
  /\ \A l \in Link : claims[l].owner \in Visitor \union {None} /\ claims[l].left \in 0..ClaimTtl
  /\ books.observed \in Nat /\ books.gap \in BOOLEAN
  /\ faults \in 0..MaxFaults

(* A lost reply neither loses nor doubles a click: a visit is the winner   *)
(* only if its own token took the key, and is a duplicate only if it did   *)
(* not (claimWithOwnership).                                               *)
ClaimIsHonest ==
  \A v \in Visitor :
    /\ visit[v].claim = "winner" => visit[v].took
    /\ visit[v].claim = "duplicate" => ~visit[v].took

(* While no gap is flagged, and no flag failed to be written, the bucket   *)
(* observed every delivered click that was booked and nothing else, once   *)
(* the visits under way are done (RedisDeliveredCountryObserver).          *)
UngappedBucketIsExact ==
  ~books.gap /\ books.unmarked = 0 /\ (\A v \in Visitor : visit[v].pc \notin {"observe", "mark"})
    => books.observed = books.booked["delivered"]

(* A link deleted longer ago than a command and a cache lifetime take is   *)
(* not served to a visit that begins then, be its invalidation lost or     *)
(* overtaken by the fill of an earlier reader; nor is its preview after    *)
(* twice that (deleteOwned: "Cache expiry is bounded to 60 seconds").      *)
DeletedLinkForgotten ==
  \A v \in Visitor :
    /\ visit[v].link \notin visit[v].forgotten["link"]
    /\ visit[v].preview \notin visit[v].forgotten["preview"]

(* A request creates one link at most, whatever is known of its COMMIT     *)
(* (mysql-store.ts createLink).                                            *)
OneLinkPerCreate == \A w \in Writer : writer[w].made <= 1

(* A creation that reads back the row it committed is answered with it     *)
(* (test/mysql-link-commit-ambiguity.test.ts).                             *)
CommittedIsReturned == \A w \in Writer : writer[w].read = w => writer[w].answer = "ok"

(* What every reachable state has: well-typed variables, clicks that are    *)
(* claimed once, and requests that create one link at most                 *)
(* (redis-store.ts:22-46, mysql-store.ts createLink).                       *)
TrafficInv == TypeOK /\ ClaimIsHonest /\ OneLinkPerCreate

(* The properties of the decision speak of no variable; they are looked at *)
(* where the behaviours begin.                                             *)

(* What accounting books for a visit is how decide() served it, under a    *)
(* country that only a trusted proxy may name (current-decision.ts,        *)
(* redirect/service.ts:117-145, client-identity.ts:60-130).                *)
BookedAsServed == Init => CountedAsServed /\ ReportCountryIsTrusted

(* Whatever a browser was told first, its next GETs within the lifetime of *)
(* the decision cookie are not diverted (current-decision.ts:472-560).     *)
DecidedOncePerBrowser == Init => OneDecisionPerBrowser
=============================================================================
