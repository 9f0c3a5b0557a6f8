-------------------------- MODULE LinkTrafficProofs --------------------------
(***************************************************************************)
(* Clicks are claimed and counted once and a deleted link is forgotten,    *)
(* for any number of visitors, writers, codes and failures and any times   *)
(* with Delay < ClaimTtl.  Inductive are these only together with what     *)
(* binds a step to the one before it: how long a link can have been gone   *)
(* when a visit or a cache entry still holds it, whose token a readback    *)
(* will find, and how many booked clicks are yet to be observed.  Before   *)
(* that come the theorems about the decision of a visit alone, and after   *)
(* it what the report makes of the buckets.                                *)
(***************************************************************************)
EXTENDS Reconciliation, TLAPS, FiniteSetTheorems, WellFoundedInduction

-----------------------------------------------------------------------------
(* The decision agrees with what is booked, with what is reported and with *)
(* itself, for any visits and settings.  A diverted visit has passed every *)
(* filter, so that nothing blocks it; a browser that was given a cookie    *)
(* is eligible as it was then, whatever changed of the visit since.        *)

(* A visit that no filter is enforced on is not blocked, and is booked by  *)
(* where it is sent.                                                       *)
LEMMA UnfilteredIs ==
  ASSUME NEW c, NEW v, FilterReason(c, v) = None
  PROVE  Block(c, v) = None
<1>1. \A f \in Filters : ~Enforced(c, v, f)
  BY DecisionConstants DEF FilterReason, Filters
<1>2. ~HardReplay(c, v)
  <2>1. ~Enforced(c, v, "fbclid_replay")
    BY <1>1 DEF Filters
  <2> QED
    BY <2>1 DEF Enforced, HardReplay
<1>3. ~(Datacenter(c, v) /\ c.datacenterEnforce)
  <2>1. ~Enforced(c, v, "aws_dc")
    BY <1>1 DEF Filters
  <2> QED
    BY <2>1 DEF Enforced
<1> QED
  BY <1>2, <1>3 DEF Block

LEMMA FilterIs ==
  ASSUME NEW c, NEW v
  PROVE  FilterReason(c, v) \in Filters \union {None}
BY DEF FilterReason

LEMMA DecidedForms ==
  ASSUME NEW c, NEW v
  PROVE  \/ Decided(c, v) = Author(v)
         \/ /\ v.base # Failed /\ ~v.admin
            /\ Selected(c, v, v.context) /\ v.campaign = "valid"
            /\ Decided(c, v) = [to |-> "diversion", attribution |-> Attribution(v, v.context), diverted |-> TRUE,
                                cookie |-> Issued(c, v, v.context)]
         \/ Decided(c, v) = [Author(v) EXCEPT !.cookie = Issued(c, v, v.context)]
<1>1. CASE v.base = Failed \/ v.admin
  BY <1>1 DEF Decided
<1>2. CASE v.base # Failed /\ ~v.admin /\ (v.base \in {[skim |-> FALSE, debug |-> FALSE]} \/ v.context = Failed)
  BY <1>2 DEF Decided
<1>3. CASE /\ v.base # Failed /\ ~v.admin
           /\ ~(v.base \in {[skim |-> FALSE, debug |-> FALSE]} \/ v.context = Failed)
  BY <1>3 DEF Decided
<1> QED
  BY <1>1, <1>2, <1>3

LEMMA DecidedIs ==
  ASSUME NEW c, NEW v
  PROVE  \/ Decided(c, v).to = "author" /\ Decided(c, v).diverted = FALSE
         \/ /\ Decided(c, v).to = "diversion" /\ Decided(c, v).diverted = TRUE
            /\ v.base # Failed /\ ~v.admin /\ v.base.skim /\ Selected(c, v, v.context)
<1>1. Author(v).to = "author" /\ Author(v).diverted = FALSE
  BY DEF Author
<1>2. [Author(v) EXCEPT !.cookie = Issued(c, v, v.context)].to = "author"
      /\ [Author(v) EXCEPT !.cookie = Issued(c, v, v.context)].diverted = FALSE
  BY DEF Author
<1>3. CASE /\ v.base # Failed /\ ~v.admin /\ Selected(c, v, v.context)
           /\ Decided(c, v) = [to |-> "diversion", attribution |-> Attribution(v, v.context), diverted |-> TRUE,
                               cookie |-> Issued(c, v, v.context)]
  BY <1>3 DEF Selected, Eligible
<1> QED
  BY <1>1, <1>2, <1>3, DecidedForms

LEMMA ServedAsCounted ==
  ASSUME NEW c, NEW v, NEW d, d = Decision(c, v), NEW response, response = Response(v, d)
  PROVE  /\ (Outcome(d) = "diverted") <=> response.to = "diversion"
         /\ Outcome(d) = "delivered" => response.kind = "redirect"
         /\ response.to = "diversion" => response.status = 302
<1>1. CASE ~v.known
  <2>1. d.filter = None /\ d.block = None /\ d.decided.to = "author" /\ d.decided.diverted = FALSE
    BY <1>1 DEF Decision, Author
  <2>2. response.to = "author" /\ response.kind = "redirect"
    BY <2>1 DEF Response
  <2>3. Outcome(d) = "delivered"
    BY <2>1, DecisionConstants DEF Outcome
  <2> QED
    BY <2>2, <2>3
<1>2. CASE v.known
  <2>1. /\ d.filter = FilterReason(c, v) /\ d.block = Block(c, v) /\ d.decided = Decided(c, v)
        /\ d.dynamic <=> v.base # Failed /\ v.base.skim
    BY <1>2 DEF Decision
  <2>2. CASE FilterReason(c, v) # None
    <3>1. FilterReason(c, v) \in {"meta", "aws_dc", "fbclid_replay"}
      BY <2>2, FilterIs DEF Filters
    <3>2. Outcome(d) \in {"filtered_meta", "filtered_bot"}
      BY <2>1, <3>1 DEF Outcome
    <3>3. ~Selected(c, v, v.context)
      BY <2>2 DEF Selected, Eligible, Unfiltered
    <3>4. d.decided.to = "author"
      BY <2>1, <3>3, DecidedIs
    <3>5. response.to # "diversion"
      BY <3>4, DecisionConstants DEF Response
    <3> QED
      BY <3>2, <3>5
  <2>3. CASE FilterReason(c, v) = None
    <3>1. d.block = None /\ d.filter = None
      BY <2>1, <2>3, UnfilteredIs
    <3>2. /\ response.to = d.decided.to /\ response.kind = "redirect"
          /\ response.status = IF ~d.dynamic \/ v.admin THEN 301 ELSE 302
      BY <3>1 DEF Response
    <3>3. Outcome(d) = IF d.decided.diverted THEN "diverted" ELSE "delivered"
      BY <3>1, DecisionConstants DEF Outcome
    <3>4. \/ d.decided.to = "author" /\ d.decided.diverted = FALSE
          \/ d.decided.to = "diversion" /\ d.decided.diverted = TRUE /\ d.dynamic /\ ~v.admin
      BY <2>1, DecidedIs
    <3> QED
      BY <3>2, <3>3, <3>4
  <2> QED
    BY <2>2, <2>3
<1> QED
  BY <1>1, <1>2

(* What is reported of a visit is the word of a trusted proxy, whatever    *)
(* the lookup of its address would have said.                              *)
LEMMA ReportIs ==
  ASSUME NEW c, NEW v, v = [f \in DOMAIN v |-> v[f]]
  PROVE  LET report(w) == Decision(c, w).report
         IN /\ report(v) # None => v.edge.configured /\ v.edge.peer = "trusted" /\ report(v) = Country(v)
            /\ report([v EXCEPT !.lookup = None]) = report(v)
<1>1. \A w : Decision(c, w).report = IF w.known THEN TrustedCountry(w.edge) ELSE None
  BY DEF Decision
<1>2. /\ [v EXCEPT !.lookup = None].known = v.known
      /\ [v EXCEPT !.lookup = None].edge = v.edge
  OBVIOUS
<1>3. TrustedCountry(v.edge) # None => v.edge.configured /\ v.edge.peer = "trusted" /\ TrustedCountry(v.edge) = Country(v)
  BY DEF TrustedCountry, Country
<1> QED
  BY <1>1, <1>2, <1>3

(* A visit again, with another cookie, clock, method and dice.             *)
Again(v, w) ==
  /\ w.agent = v.agent /\ w.fbclid = v.fbclid /\ w.referer = v.referer /\ w.campaign = v.campaign
  /\ w.edge = v.edge /\ w.lookup = v.lookup /\ w.site = v.site /\ w.known = v.known /\ w.admin = v.admin
  /\ w.base = v.base /\ w.meta = v.meta /\ w.datacenter = v.datacenter /\ w.replay = v.replay
  /\ w.context = v.context

(* Neither the filters nor the policy look at what changed.                *)
LEMMA EligibleAgain ==
  ASSUME NEW c, NEW v, NEW w, Again(v, w), NEW x
  PROVE  Eligible(c, w, x) <=> Eligible(c, v, x)
<1>1. MetaNetwork(w) <=> MetaNetwork(v)
  BY DEF Again, MetaNetwork
<1>2. Datacenter(c, w) <=> Datacenter(c, v)
  BY <1>1 DEF Again, Datacenter
<1>3. Detected(c, w) <=> Detected(c, v)
  BY DEF Again, Detected
<1>4. Replay(c, w) <=> Replay(c, v)
  BY <1>1, <1>2, <1>3 DEF Replay
<1>5. \A f : Enforced(c, w, f) <=> Enforced(c, v, f)
  BY <1>1, <1>2, <1>4 DEF Enforced
<1>6. FilterReason(c, w) = None <=> FilterReason(c, v) = None
  <2>1. \A u : FilterReason(c, u) = None <=> \A f \in Filters : ~Enforced(c, u, f)
    <3> TAKE u
    <3>1. CASE \E f \in Filters : Enforced(c, u, f)
      <4>1. FilterReason(c, u) \in Filters
        BY <3>1 DEF FilterReason
      <4> QED
        BY <3>1, <4>1, DecisionConstants DEF Filters
    <3>2. CASE ~\E f \in Filters : Enforced(c, u, f)
      BY <3>2 DEF FilterReason
    <3> QED
      BY <3>1, <3>2
  <2> QED
    BY <1>5, <2>1
<1>7. Country(w) = Country(v)
  BY DEF Again, Country
<1>8. Percent(w, x) = Percent(v, x) /\ (Explicit(w, x) <=> Explicit(v, x))
  BY <1>7 DEF Percent, Explicit
<1>9. QualityCountry(c, w, x) <=> QualityCountry(c, v, x)
  BY <1>7, <1>8 DEF QualityCountry
<1>10. FacebookEvidence(w) <=> FacebookEvidence(v)
  BY DEF Again, FacebookEvidence
<1> QED
  BY <1>6, <1>8, <1>9, <1>10 DEF Again, Eligible, Unfiltered

(* A cookie is only given to a browser that is eligible.                   *)
LEMMA CookieIs ==
  ASSUME NEW c, NEW v, Response(v, Decision(c, v)).cookie # None
  PROVE  /\ CookieEligible(c, v, v.context) /\ c.decisionCookieActive
         /\ Response(v, Decision(c, v)).cookie = CreateCookie(c, v.site, v.now)
<1> DEFINE d == Decision(c, v)
<1>1. Response(v, d).cookie = d.decided.cookie \/ Response(v, d).cookie = None
  BY DEF Response
<1>2. d.decided = Decided(c, v) \/ d.decided = Author(v)
  BY DEF Decision
<1>3. Author(v).cookie = None
  BY DEF Author
<1>4. Decided(c, v).cookie = Issued(c, v, v.context) \/ Decided(c, v).cookie = None
  <2>1. [Author(v) EXCEPT !.cookie = Issued(c, v, v.context)].cookie = Issued(c, v, v.context)
    BY DEF Author
  <2>2. [to |-> "diversion", attribution |-> Attribution(v, v.context), diverted |-> TRUE,
         cookie |-> Issued(c, v, v.context)].cookie = Issued(c, v, v.context)
    OBVIOUS
  <2> QED
    BY <1>3, <2>1, <2>2, DecidedForms
<1>5. Response(v, d).cookie = Issued(c, v, v.context)
  BY <1>1, <1>2, <1>3, <1>4
<1> QED
  BY <1>5 DEF Issued

LEMMA DecidedOnce ==
  ASSUME NEW c \in Configs, NEW v \in Visits, Response(v, Decision(c, v)).cookie # None,
         NEW t \in (v.now - c.decisionCookieFutureSkew)..(v.now + c.decisionCookieTtl - 1)
  PROVE  ~Decision(c, [v EXCEPT !.cookie = Response(v, Decision(c, v)).cookie, !.now = t,
                                !.method = "GET", !.roll = 1]).decided.diverted
<1>1. PICK cookie : /\ cookie = Response(v, Decision(c, v)).cookie /\ cookie # None
                    /\ cookie = CreateCookie(c, v.site, v.now)
  BY CookieIs
<1>2. CookieEligible(c, v, v.context) /\ c.decisionCookieActive
  BY CookieIs
<1>3. PICK w : w = [v EXCEPT !.cookie = cookie, !.now = t, !.method = "GET", !.roll = 1]
  OBVIOUS
<1>4. Again(v, w) /\ w.cookie = cookie /\ w.now = t /\ w.method = "GET"
  BY <1>3, DecisionConstants DEF Again
<1>5. Eligible(c, w, w.context)
  <2>1. w.context = v.context /\ Eligible(c, v, v.context)
    BY <1>2, <1>4 DEF Again, CookieEligible
  <2> QED
    BY <1>4, <2>1, EligibleAgain
<1>6. cookie.genuine /\ cookie.site = w.site /\ cookie.expires = v.now + c.decisionCookieTtl
  BY <1>1, <1>4 DEF CreateCookie, Again
<1>7. cookie.expires > t /\ cookie.expires <= t + c.decisionCookieTtl + c.decisionCookieFutureSkew
  <2>1. v.now \in Int /\ c.decisionCookieTtl \in Nat /\ c.decisionCookieFutureSkew \in Nat
    BY DecisionConstants
  <2> QED
    BY <1>6, <2>1
<1>8. CookieValid(c, w.cookie, w.site, w.now)
  BY <1>1, <1>4, <1>6, <1>7 DEF CookieValid
<1>9. ~Selected(c, w, w.context)
  BY <1>2, <1>4, <1>5, <1>8 DEF Selected, RepeatBrowser, CookieEligible
<1>10. Decided(c, w).diverted = FALSE /\ Author(w).diverted = FALSE
  BY <1>9, DecidedIs DEF Author
<1>11. Decision(c, w).decided = Decided(c, w) \/ Decision(c, w).decided = Author(w)
  BY DEF Decision
<1> QED
  BY <1>1, <1>3, <1>10, <1>11

(* What is booked for a visit is what it was served: diverted if sent to   *)
(* the diversion, filtered if blocked; and a country is reported on the    *)
(* word of a trusted proxy only (redirect/service.ts:117-145,              *)
(* client-identity.ts:60-130).                                             *)
THEOREM DecisionsAreCounted == CountedAsServed /\ ReportCountryIsTrusted
<1>1. CountedAsServed
  BY ServedAsCounted DEF CountedAsServed
<1>2. ReportCountryIsTrusted
  BY ReportIs, DecisionConstants DEF ReportCountryIsTrusted
<1> QED
  BY <1>1, <1>2

(* Within the lifetime of its cookie a browser is not diverted after it    *)
(* was given one, on hosts whose clocks differ by the skew at most         *)
(* (current-decision.ts:472-560).                                          *)
THEOREM BrowsersAreDecidedOnce == OneDecisionPerBrowser
BY DecidedOnce DEF OneDecisionPerBrowser

-----------------------------------------------------------------------------

VisitPc == {"new", "getLink", "findLink", "fill", "serve", "getPreview", "setPreview", "claim", "readClaim",
            "record", "observe", "mark", "done"}
WriterPc == {"new", "insert", "readBack", "invalidate", "done"}

AVisit ==
  [pc : VisitPc, code : Code \union {None}, link : Link \union {None}, age : 0..Delay,
   forgotten : [Kinds -> SUBSET Link], outcome : Outcomes \union {None}, took : BOOLEAN,
   claim : {None, "winner", "duplicate", "unavailable"}, preview : Link \union {None}]

AWriter ==
  [pc : WriterPc, code : Code \union {None}, tries : Nat, instant : {0, 1}, answer : {None, "ok", "error"},
   read : Link \union {None}, made : Nat]

ARow == [link : Link, instant : {0}]
Entry == [link : Link, left : 1..CacheTtl]
Hold == [owner : Visitor \union {None}, left : 0..ClaimTtl]
Books == [booked : [Outcomes -> Nat], observed : Nat, gap : BOOLEAN, unmarked : Nat]

Typed ==
  /\ rows \in [Code -> ARow \union {None}]
  /\ gone \in [Link -> 0..Longest]
  /\ cache \in [Kinds -> [Code -> Entry \union {Empty}]]
  /\ claims \in [Link -> Hold]
  /\ books \in Books
  /\ visit \in [Visitor -> AVisit]
  /\ writer \in [Writer -> AWriter]
  /\ faults \in 0..MaxFaults

(* A row is that of a link that lives, at one code, and its writer has     *)
(* made it.                                                                *)
RowOK(c) ==
  rows[c] # None =>
    /\ gone[rows[c].link] = 0
    /\ rows[c].link \in Writer => writer[rows[c].link].pc \notin {"new", "insert"}

RowsOK ==
  /\ \A c \in Code : RowOK(c)
  /\ \A c, d \in Code : rows[c] # None /\ rows[c] = rows[d] => c = d
  /\ \A w \in Writer : writer[w].pc \in {"new", "insert"} => gone[w] = 0

WriterOK(x) ==
  /\ x.made <= 1
  /\ x.pc \in {"new", "insert"} => x.made = 0
  /\ x.pc \in {"readBack", "invalidate"} => x.code \in Code

(* What is left of an entry bounds how long its link can have been gone.   *)
EntryOK(kind, entry) ==
  entry # Empty => gone[entry.link] + entry.left <= LastSeen[kind] + 1

CacheOK == \A k \in Kinds, c \in Code : EntryOK(k, cache[k][c])

(* Where a visit has a link, and how long that can have been gone; whose   *)
(* token it has put into Redis, and what it knows of it.                   *)
Located == {"getLink", "findLink", "fill", "serve", "getPreview", "setPreview"}
Linked == {"fill", "serve", "getPreview", "setPreview", "claim", "readClaim", "record"}
Claimant == {"readClaim", "record", "observe", "mark", "done"}

VisitOK(v, x) ==
  /\ x.pc \in Located => x.code \in Code
  /\ x.pc \in Linked => x.link \in Link
  /\ x.pc \in {"claim", "readClaim", "record"} => x.outcome \in Outcomes
  /\ x.pc \in Located \union {"claim", "readClaim"} => x.claim = None
  /\ x.pc = "fill" => gone[x.link] <= x.age + 1
  /\ x.pc = "serve" => gone[x.link] <= Delay + CacheTtl
  /\ x.pc = "getPreview" => gone[x.link] <= Delay + CacheTtl + x.age
  /\ x.pc = "setPreview" => gone[x.link] <= 2 * Delay + CacheTtl + x.age
  /\ \A k \in Kinds : \A l \in x.forgotten[k] : gone[l] > LastSeen[k]
  /\ x.link \notin x.forgotten["link"] /\ x.preview \notin x.forgotten["preview"]
  /\ x.claim = "winner" => x.took
  /\ x.claim = "duplicate" => ~x.took
  /\ x.pc = "readClaim" /\ x.took => claims[x.link].owner = v /\ claims[x.link].left + x.age >= ClaimTtl

(* A key belongs to a visit that took it.                                  *)
OwnerOK(l, v, x) ==
  claims[l].owner = v => x.pc \in Claimant /\ (x.pc = "readClaim" => x.took /\ x.link = l)

Observing == {v \in Visitor : visit[v].pc = "observe"}

(* What is booked and not observed is about to be observed, or a visit is  *)
(* about to say that it may not be.                                        *)
BooksExact ==
  ~books.gap /\ books.unmarked = 0 /\ (\A v \in Visitor : visit[v].pc # "mark")
    => books.booked["delivered"] = books.observed + Cardinality(Observing)

BooksOK == IsFiniteSet(Observing) /\ BooksExact

TrafficIInv ==
  /\ Typed /\ RowsOK /\ CacheOK /\ BooksOK
  /\ \A w \in Writer : WriterOK(writer[w])
  /\ \A v \in Visitor : VisitOK(v, visit[v])
  /\ \A l \in Link, v \in Visitor : OwnerOK(l, v, visit[v])

-----------------------------------------------------------------------------
LEMMA Constants ==
  /\ CacheTtl \in Nat /\ 0 < CacheTtl /\ ClaimTtl \in Nat /\ 0 < ClaimTtl /\ Delay \in Nat /\ Delay < ClaimTtl
  /\ MaxFaults \in Nat
  /\ None \notin Link /\ None \notin Visitor /\ None # "winner" /\ None # "duplicate" /\ None \notin ARow
  /\ Old \notin Writer /\ Old \in Link /\ Writer \subseteq Link
BY TrafficConstants DEF Link, ARow

LEMMA Times ==
  /\ LastSeen["link"] = Delay + CacheTtl /\ LastSeen["preview"] = 3 * Delay + 2 * CacheTtl
  /\ LastSeen["link"] \in Nat /\ LastSeen["preview"] \in Nat
  /\ Longest = 3 * Delay + 2 * CacheTtl + 1 /\ Longest \in Nat
  /\ "link" \in Kinds /\ "preview" \in Kinds
BY Constants DEF LastSeen, Longest, Kinds

LEMMA VisitNames ==
  /\ "new" \in VisitPc /\ "getLink" \in VisitPc /\ "findLink" \in VisitPc /\ "fill" \in VisitPc
  /\ "serve" \in VisitPc /\ "getPreview" \in VisitPc /\ "setPreview" \in VisitPc /\ "claim" \in VisitPc
  /\ "readClaim" \in VisitPc /\ "record" \in VisitPc /\ "observe" \in VisitPc /\ "mark" \in VisitPc
  /\ "done" \in VisitPc
BY DEF VisitPc

LEMMA Entries == Empty \notin Entry /\ \A entry \in Entry : entry # Empty /\ entry.left \in Nat /\ entry.link \in Link
BY Constants DEF Entry, Empty

LEMMA Present ==
  ASSUME TrafficIInv
  PROVE  /\ Typed /\ RowsOK /\ CacheOK /\ BooksOK
         /\ \A v \in Visitor : visit[v] \in AVisit /\ VisitOK(v, visit[v])
         /\ \A w \in Writer : writer[w] \in AWriter /\ WriterOK(writer[w])
         /\ \A l \in Link, v \in Visitor : OwnerOK(l, v, visit[v])
BY DEF TrafficIInv, Typed

LEMMA Counted ==
  ASSUME TrafficIInv, Fault \/ NoFault
  PROVE  faults' \in 0..MaxFaults
BY Constants DEF TrafficIInv, Typed, Fault, NoFault

-----------------------------------------------------------------------------
(* Steps of one visit *)

(* The key of a click changes hands only when nobody has it.               *)
KeysKept(v) ==
  /\ claims' \in [Link -> Hold]
  /\ \A l \in Link : claims'[l] = claims[l] \/ (claims[l].owner = None /\ claims'[l].owner = v)

LEMMA VisitStep ==
  ASSUME TrafficIInv, NEW v \in Visitor, NEW x \in AVisit,
         Set(v, x), VisitOK(v, x)', \A l \in Link : OwnerOK(l, v, x)',
         UNCHANGED <<rows, gone, writer>>, KeysKept(v),
         cache' \in [Kinds -> [Code -> Entry \union {Empty}]], CacheOK',
         books' \in Books, BooksOK',
         Fault \/ NoFault
  PROVE  TrafficIInv'
<1>1. visit' \in [Visitor -> AVisit] /\ visit'[v] = x /\ \A u \in Visitor \ {v} : visit'[u] = visit[u]
  BY Present DEF Typed, Set
<1>2. Typed'
  BY <1>1, Present, Counted DEF Typed, KeysKept
<1>3. RowsOK'
  BY Present DEF RowsOK, RowOK
<1>4. \A w \in Writer : WriterOK(writer[w])'
  BY Present DEF WriterOK
<1>5. ASSUME NEW u \in Visitor \ {v} PROVE VisitOK(u, visit[u])'
  <2>1. visit'[u] = visit[u] /\ VisitOK(u, visit[u])
    BY <1>1, Present
  <2>2. visit[u].pc = "readClaim" /\ visit[u].took => claims'[visit[u].link] = claims[visit[u].link]
    BY <2>1, Constants DEF VisitOK, KeysKept, Linked
  <2> QED
    BY <2>1, <2>2 DEF VisitOK
<1>6. ASSUME NEW l \in Link, NEW u \in Visitor \ {v} PROVE OwnerOK(l, u, visit[u])'
  <2>1. visit'[u] = visit[u] /\ OwnerOK(l, u, visit[u])
    BY <1>1, Present
  <2>2. claims'[l].owner = u => claims[l].owner = u
    BY DEF KeysKept
  <2> QED
    BY <2>1, <2>2 DEF OwnerOK
<1>7. VisitOK(v, visit[v])' /\ \A l \in Link : OwnerOK(l, v, visit[v])'
  BY <1>1 DEF VisitOK, OwnerOK
<1> QED
  BY <1>2, <1>3, <1>4, <1>5, <1>6, <1>7 DEF TrafficIInv

(* What a step of one visit does to the set of those about to observe.     *)
LEMMA ObservingIs ==
  ASSUME TrafficIInv, NEW v \in Visitor, NEW x \in AVisit, Set(v, x)
  PROVE  Observing' = IF x.pc = "observe" THEN Observing \union {v} ELSE Observing \ {v}
<1>1. \A u \in Visitor : visit'[u] = IF u = v THEN x ELSE visit[u]
  BY Present DEF Typed, Set
<1> QED
  BY <1>1 DEF Observing

LEMMA BooksKept ==
  ASSUME TrafficIInv, NEW v \in Visitor, NEW x \in AVisit, Set(v, x), UNCHANGED books,
         visit[v].pc \notin {"observe", "mark"}, x.pc # "observe"
  PROVE  books' \in Books /\ BooksOK'
<1>1. Observing' = Observing
  BY ObservingIs DEF Observing
<1>2. (\A u \in Visitor : visit'[u].pc # "mark") => (\A u \in Visitor : visit[u].pc # "mark")
  BY Present DEF Typed, Set
<1> QED
  BY <1>1, <1>2, Present DEF Typed, BooksOK, BooksExact

(* A step that reads, or whose command had no effect.                      *)
LEMMA MoveStep ==
  ASSUME TrafficIInv, NEW v \in Visitor, NEW x \in AVisit, Set(v, x), VisitOK(v, x),
         visit[v].pc \notin {"observe", "mark"}, x.pc # "observe",
         visit[v].pc \in Claimant => x.pc \in Claimant \ {"readClaim"},
         UNCHANGED <<rows, gone, cache, claims, books, writer>>,
         Fault \/ NoFault
  PROVE  TrafficIInv'
<1>1. \A l \in Link : OwnerOK(l, v, x)'
  BY Present DEF OwnerOK
<1>2. KeysKept(v) /\ cache' \in [Kinds -> [Code -> Entry \union {Empty}]]
  BY Present DEF KeysKept, Typed
<1>3. VisitOK(v, x)' /\ CacheOK'
  BY Present DEF VisitOK, CacheOK, EntryOK
<1> QED
  BY <1>1, <1>2, <1>3, BooksKept, VisitStep

LEMMA NoVisitIs ==
  /\ NoVisit \in AVisit /\ NoVisit.pc = "new" /\ NoVisit.link = None /\ NoVisit.preview = None /\ NoVisit.age = 0
  /\ NoVisit.claim = None /\ NoVisit.took = FALSE /\ \A k \in Kinds : NoVisit.forgotten[k] = {}
<1>1. 0 \in 0..Delay /\ [k \in Kinds |-> {}] \in [Kinds -> SUBSET Link]
  BY Constants
<1> QED
  BY <1>1, VisitNames DEF NoVisit, AVisit

LEMMA LeftIs ==
  ASSUME NEW v \in Visitor
  PROVE  \E x \in AVisit : x = [NoVisit EXCEPT !.pc = "done"] /\ x.pc = "done" /\ VisitOK(v, x)
<1>1. PICK u \in AVisit : u = NoVisit
  BY NoVisitIs
<1>2. PICK x \in AVisit :
        /\ x = [u EXCEPT !.pc = "done"]
        /\ x.pc = "done" /\ x.code = u.code /\ x.link = u.link /\ x.age = u.age
        /\ x.forgotten = u.forgotten /\ x.outcome = u.outcome /\ x.took = u.took /\ x.claim = u.claim
        /\ x.preview = u.preview
  <2>1. LET x == [u EXCEPT !.pc = "done"]
        IN  /\ x \in AVisit
            /\ x.pc = "done" /\ x.code = u.code /\ x.link = u.link /\ x.age = u.age
            /\ x.forgotten = u.forgotten /\ x.outcome = u.outcome /\ x.took = u.took
            /\ x.claim = u.claim /\ x.preview = u.preview
    BY VisitNames DEF AVisit
  <2> QED
    BY <2>1
<1>3. VisitOK(v, x)
  BY <1>1, <1>2, NoVisitIs, Constants, Times DEF VisitOK, Located, Linked
<1> QED
  BY <1>1, <1>2, <1>3

LEMMA LeaveStep ==
  ASSUME TrafficIInv, NEW v \in Visitor, Leave(v), visit[v].pc \notin {"observe", "mark"},
         UNCHANGED <<rows, gone, cache, claims, books, writer>>,
         Fault \/ NoFault
  PROVE  TrafficIInv'
<1>1. PICK x \in AVisit : x = [NoVisit EXCEPT !.pc = "done"] /\ x.pc = "done" /\ VisitOK(v, x)
  BY LeftIs
<1>2. Set(v, x)
  BY <1>1 DEF Leave
<1> QED
  BY <1>1, <1>2, MoveStep DEF Claimant

LEMMA GoIs ==
  ASSUME TrafficIInv, NEW v \in Visitor, NEW pc \in VisitPc, Go(v, pc)
  PROVE  \E x \in AVisit :
           /\ Set(v, x) /\ x.pc = pc /\ x.code = visit[v].code /\ x.link = visit[v].link /\ x.age = visit[v].age
           /\ x.forgotten = visit[v].forgotten /\ x.outcome = visit[v].outcome /\ x.took = visit[v].took
           /\ x.claim = visit[v].claim /\ x.preview = visit[v].preview
<1>1. PICK u \in AVisit : u = visit[v]
  BY Present
<1>2. PICK x \in AVisit :
        /\ x = [u EXCEPT !.pc = pc]
        /\ x.pc = pc /\ x.code = u.code /\ x.link = u.link /\ x.age = u.age /\ x.forgotten = u.forgotten
        /\ x.outcome = u.outcome /\ x.took = u.took /\ x.claim = u.claim /\ x.preview = u.preview
  <2>1. LET x == [u EXCEPT !.pc = pc]
        IN  /\ x \in AVisit
            /\ x.pc = pc /\ x.code = u.code /\ x.link = u.link /\ x.age = u.age
            /\ x.forgotten = u.forgotten /\ x.outcome = u.outcome /\ x.took = u.took
            /\ x.claim = u.claim /\ x.preview = u.preview
    BY VisitNames DEF AVisit
  <2> QED
    BY <2>1
<1> QED
  BY <1>1, <1>2 DEF Go

-----------------------------------------------------------------------------
(* A visit: the link *)

LEMMA ArriveStep ==
  ASSUME TrafficIInv, NEW v \in Visitor, NEW c \in Code, Arrive(v, c)
  PROVE  TrafficIInv'
<1>1. PICK u \in AVisit : u = NoVisit
  BY NoVisitIs
<1>2. PICK lost \in [Kinds -> SUBSET Link] : lost = Forgotten
  BY DEF Forgotten
<1>3. PICK code \in Code \union {None} : code = c
  OBVIOUS
<1>4. PICK x \in AVisit :
        /\ x = [u EXCEPT !.pc = "getLink", !.code = code, !.forgotten = lost]
        /\ x.pc = "getLink" /\ x.code = code /\ x.link = u.link /\ x.age = u.age /\ x.forgotten = lost
        /\ x.outcome = u.outcome /\ x.took = u.took /\ x.claim = u.claim /\ x.preview = u.preview
  <2>1. LET x == [u EXCEPT !.pc = "getLink", !.code = code, !.forgotten = lost]
        IN  /\ x \in AVisit
            /\ x.pc = "getLink" /\ x.code = code /\ x.link = u.link /\ x.age = u.age
            /\ x.forgotten = lost /\ x.outcome = u.outcome /\ x.took = u.took /\ x.claim = u.claim
            /\ x.preview = u.preview
    BY VisitNames DEF AVisit
  <2> QED
    BY <2>1
<1>5. Set(v, x)
  BY <1>1, <1>2, <1>3, <1>4 DEF Arrive
<1>6. \A k \in Kinds : \A l \in lost[k] : l \in Link /\ gone[l] > LastSeen[k]
  BY <1>2 DEF Forgotten
<1>7. VisitOK(v, x)
  BY <1>1, <1>3, <1>4, <1>6, NoVisitIs, Constants, Times DEF VisitOK, Located, Linked
<1> QED
  BY <1>4, <1>5, <1>7, MoveStep DEF Arrive, Claimant, NoFault

(* A cached link can be gone for as long as a command and the cache take.  *)
LEMMA GetLinkStep ==
  ASSUME TrafficIInv, NEW v \in Visitor, GetLink(v)
  PROVE  TrafficIInv'
<1>0. /\ visit[v] \in AVisit /\ VisitOK(v, visit[v]) /\ visit[v].pc = "getLink" /\ visit[v].code \in Code
      /\ UNCHANGED <<rows, gone, cache, claims, books, writer>> /\ (Fault \/ NoFault)
  BY Present DEF GetLink, VisitOK, Located
<1>1. CASE Go(v, "findLink")
  <2>1. PICK x \in AVisit :
          /\ Set(v, x) /\ x.pc = "findLink" /\ x.code = visit[v].code /\ x.link = visit[v].link
          /\ x.forgotten = visit[v].forgotten /\ x.took = visit[v].took
          /\ x.claim = visit[v].claim /\ x.preview = visit[v].preview
    BY <1>1, GoIs, VisitNames
  <2>2. VisitOK(v, x)
    BY <1>0, <2>1 DEF VisitOK, Linked, Located
  <2> QED
    BY <1>0, <2>1, <2>2, MoveStep DEF Claimant
<1>2. CASE cache["link"][visit[v].code] # Empty
           /\ Set(v, [visit[v] EXCEPT !.pc = "serve", !.link = cache["link"][visit[v].code].link])
  <2>1. PICK entry \in Entry : entry = cache["link"][visit[v].code]
    BY <1>0, <1>2, Present, Times DEF Typed
  <2>2. gone[entry.link] + entry.left <= Delay + CacheTtl + 1
    BY <1>0, <2>1, Entries, Present, Times DEF CacheOK, EntryOK
  <2>3. gone[entry.link] <= Delay + CacheTtl /\ entry.link \in Link
    <3>1. entry.left \in 1..CacheTtl /\ entry.link \in Link /\ gone[entry.link] \in 0..Longest
      BY Present DEF Entry, Typed
    <3> QED
      BY <2>2, <3>1, Constants, Times
  <2>4. PICK u \in AVisit, l \in Link \union {None} : u = visit[v] /\ l = entry.link
    BY <1>0, <2>3
  <2>5. PICK x \in AVisit :
          /\ x = [u EXCEPT !.pc = "serve", !.link = l]
          /\ x.pc = "serve" /\ x.code = u.code /\ x.link = l /\ x.age = u.age
          /\ x.forgotten = u.forgotten /\ x.outcome = u.outcome /\ x.took = u.took /\ x.claim = u.claim
          /\ x.preview = u.preview
    <3>1. LET x == [u EXCEPT !.pc = "serve", !.link = l]
          IN  /\ x \in AVisit
              /\ x.pc = "serve" /\ x.code = u.code /\ x.link = l /\ x.age = u.age
              /\ x.forgotten = u.forgotten /\ x.outcome = u.outcome /\ x.took = u.took
              /\ x.claim = u.claim /\ x.preview = u.preview
      BY VisitNames DEF AVisit
    <3> QED
      BY <3>1
  <2>6. l \notin x.forgotten["link"]
    <3>1. \A m \in x.forgotten["link"] : gone[m] > LastSeen["link"]
      BY <1>0, <2>4, <2>5, Times DEF VisitOK
    <3>2. gone[l] \in 0..Longest
      BY <2>3, <2>4, Present DEF Typed
    <3> QED
      BY <2>3, <2>4, <3>1, <3>2, Constants, Times
  <2>7. VisitOK(v, x)
    BY <1>0, <2>3, <2>4, <2>5, <2>6 DEF VisitOK, Located
  <2>8. Set(v, x)
    BY <1>2, <2>1, <2>4, <2>5
  <2> QED
    BY <1>0, <2>5, <2>7, <2>8, MoveStep DEF Claimant
<1> QED
  BY <1>1, <1>2 DEF GetLink

LEMMA FindLinkStep ==
  ASSUME TrafficIInv, NEW v \in Visitor, FindLink(v)
  PROVE  TrafficIInv'
<1>0. /\ visit[v] \in AVisit /\ VisitOK(v, visit[v]) /\ visit[v].pc = "findLink" /\ visit[v].code \in Code
      /\ UNCHANGED <<rows, gone, cache, claims, books, writer>> /\ (Fault \/ NoFault)
  BY Present DEF FindLink, VisitOK, Located
<1>1. CASE Leave(v)
  BY <1>0, <1>1, LeaveStep
<1>2. CASE rows[visit[v].code] # None
           /\ Set(v, [visit[v] EXCEPT !.pc = "fill", !.link = rows[visit[v].code].link, !.age = 0])
  <2>1. rows[visit[v].code].link \in Link /\ gone[rows[visit[v].code].link] = 0
    BY <1>0, <1>2, Present DEF Typed, RowsOK, RowOK, ARow
  <2>2. PICK u \in AVisit, l \in Link \union {None}, n \in 0..Delay :
          u = visit[v] /\ l = rows[visit[v].code].link /\ n = 0
    BY <1>0, <2>1, Constants
  <2>3. PICK x \in AVisit :
          /\ x = [u EXCEPT !.pc = "fill", !.link = l, !.age = n]
          /\ x.pc = "fill" /\ x.code = u.code /\ x.link = l /\ x.age = n /\ x.forgotten = u.forgotten
          /\ x.outcome = u.outcome /\ x.took = u.took /\ x.claim = u.claim /\ x.preview = u.preview
    <3>1. LET x == [u EXCEPT !.pc = "fill", !.link = l, !.age = n]
          IN  /\ x \in AVisit
              /\ x.pc = "fill" /\ x.code = u.code /\ x.link = l /\ x.age = n
              /\ x.forgotten = u.forgotten /\ x.outcome = u.outcome /\ x.took = u.took
              /\ x.claim = u.claim /\ x.preview = u.preview
      BY VisitNames DEF AVisit
    <3> QED
      BY <3>1
  <2>4. l \notin x.forgotten["link"]
    <3>1. \A m \in x.forgotten["link"] : gone[m] > LastSeen["link"]
      BY <1>0, <2>2, <2>3, Times DEF VisitOK
    <3> QED
      BY <2>1, <2>2, <3>1, Times
  <2>5. VisitOK(v, x)
    BY <1>0, <2>1, <2>2, <2>3, <2>4 DEF VisitOK, Located
  <2>6. Set(v, x)
    BY <1>2, <2>2, <2>3
  <2> QED
    BY <1>0, <2>3, <2>5, <2>6, MoveStep DEF Claimant
<1> QED
  BY <1>1, <1>2 DEF FindLink

LEMMA CacheSetOK ==
  ASSUME TrafficIInv, NEW kind \in Kinds, NEW c \in Code, NEW link \in Link,
         CacheSet(kind, c, link) \/ UNCHANGED cache, UNCHANGED gone,
         gone[link] + CacheTtl <= LastSeen[kind] + 1
  PROVE  cache' \in [Kinds -> [Code -> Entry \union {Empty}]] /\ CacheOK'
<1>0. cache \in [Kinds -> [Code -> Entry \union {Empty}]] /\ CacheOK
  BY Present DEF Typed
<1>1. CASE UNCHANGED cache
  BY <1>0, <1>1 DEF CacheOK, EntryOK
<1>2. CASE CacheSet(kind, c, link)
  <2>1. PICK entry \in Entry : entry = Fresh(link) /\ entry.link = link /\ entry.left = CacheTtl
    <3>1. CacheTtl \in 1..CacheTtl
      BY Constants
    <3>2. Fresh(link) \in Entry /\ Fresh(link).link = link /\ Fresh(link).left = CacheTtl
      BY <3>1 DEF Fresh, Entry
    <3> QED
      BY <3>2
  <2>2. cache' = [cache EXCEPT ![kind][c] = entry]
    BY <1>2, <2>1 DEF CacheSet
  <2>3. cache' \in [Kinds -> [Code -> Entry \union {Empty}]]
    BY <1>0, <2>2
  <2>4. \A k \in Kinds, d \in Code : cache'[k][d] = IF k = kind /\ d = c THEN entry ELSE cache[k][d]
    BY <1>0, <2>2
  <2>5. CacheOK'
    BY <1>0, <2>1, <2>4 DEF CacheOK, EntryOK
  <2> QED
    BY <2>3, <2>5
<1> QED
  BY <1>1, <1>2

(* A reader that is slow fills the cache after the deletion, by the time   *)
(* its command may take.                                                   *)
LEMMA FillStep ==
  ASSUME TrafficIInv, NEW v \in Visitor, Fill(v)
  PROVE  TrafficIInv'
<1>0. /\ visit[v] \in AVisit /\ VisitOK(v, visit[v]) /\ visit[v].pc = "fill" /\ visit[v].code \in Code
      /\ visit[v].link \in Link /\ gone[visit[v].link] <= visit[v].age + 1
      /\ visit[v].age \in 0..Delay /\ gone[visit[v].link] \in 0..Longest
      /\ UNCHANGED <<rows, gone, claims, books, writer>> /\ (Fault \/ NoFault)
  BY Present DEF Fill, VisitOK, Located, Linked, AVisit, Typed
<1>1. PICK u \in AVisit, n \in 0..Delay : u = visit[v] /\ n = 0
  BY <1>0, Constants
<1>2. PICK x \in AVisit :
        /\ x = [u EXCEPT !.pc = "serve", !.age = n]
        /\ x.pc = "serve" /\ x.code = u.code /\ x.link = u.link /\ x.age = n
        /\ x.forgotten = u.forgotten /\ x.outcome = u.outcome /\ x.took = u.took /\ x.claim = u.claim
        /\ x.preview = u.preview
  <2>1. LET x == [u EXCEPT !.pc = "serve", !.age = n]
        IN  /\ x \in AVisit
            /\ x.pc = "serve" /\ x.code = u.code /\ x.link = u.link /\ x.age = n
            /\ x.forgotten = u.forgotten /\ x.outcome = u.outcome /\ x.took = u.took
            /\ x.claim = u.claim /\ x.preview = u.preview
    BY VisitNames DEF AVisit
  <2> QED
    BY <2>1
<1>3. Set(v, x)
  BY <1>1, <1>2 DEF Fill
<1>4. gone[visit[v].link] <= Delay + 1 /\ gone[visit[v].link] <= Delay + CacheTtl
  BY <1>0, Constants
<1>5. VisitOK(v, x)
  BY <1>0, <1>1, <1>2, <1>4 DEF VisitOK, Located
<1>6. CacheSet("link", visit[v].code, visit[v].link) \/ UNCHANGED cache
  BY DEF Fill
<1>7. gone[visit[v].link] + CacheTtl <= LastSeen["link"] + 1
  BY <1>0, <1>4, Constants, Times
<1>8. cache' \in [Kinds -> [Code -> Entry \union {Empty}]] /\ CacheOK'
  BY <1>0, <1>6, <1>7, CacheSetOK, Times
<1>9. VisitOK(v, x)' /\ \A l \in Link : OwnerOK(l, v, x)'
  BY <1>0, <1>5, Present DEF VisitOK, OwnerOK, Claimant
<1>10. KeysKept(v)
  BY <1>0, Present DEF KeysKept, Typed
<1>11. books' \in Books /\ BooksOK'
  BY <1>0, <1>2, <1>3, BooksKept
<1> QED
  BY <1>0, <1>3, <1>8, <1>9, <1>10, <1>11, VisitStep

LEMMA OutcomeIs == \A d : Outcome(d) \in Outcomes
BY DEF Outcome, Outcomes

LEMMA ServeStep ==
  ASSUME TrafficIInv, NEW v \in Visitor, NEW y, Serve(v, y)
  PROVE  TrafficIInv'
<1>0. /\ visit[v] \in AVisit /\ VisitOK(v, visit[v]) /\ visit[v].pc = "serve" /\ visit[v].code \in Code
      /\ visit[v].link \in Link /\ gone[visit[v].link] <= Delay + CacheTtl
      /\ UNCHANGED <<rows, gone, cache, claims, books, writer>> /\ NoFault
  BY Present DEF Serve, VisitOK, Located, Linked, NoFault
<1>1. PICK u \in AVisit, n \in 0..Delay, out \in Outcomes \union {None} :
        u = visit[v] /\ n = 0 /\ out = Outcome(Decision(Config, y)) /\ out \in Outcomes
  BY <1>0, Constants, OutcomeIs
<1>2. CASE Set(v, [visit[v] EXCEPT !.pc = "getPreview", !.age = 0])
  <2>1. PICK x \in AVisit :
          /\ x = [u EXCEPT !.pc = "getPreview", !.age = n]
          /\ x.pc = "getPreview" /\ x.code = u.code /\ x.link = u.link /\ x.age = n
          /\ x.forgotten = u.forgotten /\ x.outcome = u.outcome /\ x.took = u.took /\ x.claim = u.claim
          /\ x.preview = u.preview
    <3>1. LET x == [u EXCEPT !.pc = "getPreview", !.age = n]
          IN  /\ x \in AVisit
              /\ x.pc = "getPreview" /\ x.code = u.code /\ x.link = u.link /\ x.age = n
              /\ x.forgotten = u.forgotten /\ x.outcome = u.outcome /\ x.took = u.took
              /\ x.claim = u.claim /\ x.preview = u.preview
      BY VisitNames DEF AVisit
    <3> QED
      BY <3>1
  <2>2. Set(v, x)
    BY <1>1, <1>2, <2>1
  <2>3. gone[visit[v].link] <= Delay + CacheTtl + 0
    BY <1>0, Constants, Present DEF Typed
  <2>4. VisitOK(v, x)
    BY <1>0, <1>1, <2>1, <2>3 DEF VisitOK, Located
  <2> QED
    BY <1>0, <2>1, <2>2, <2>4, MoveStep DEF Claimant
<1>3. CASE Leave(v)
  BY <1>0, <1>3, LeaveStep
<1>4. CASE Set(v, [visit[v] EXCEPT !.pc = "claim", !.outcome = Outcome(Decision(Config, y))])
  <2>1. PICK x \in AVisit :
          /\ x = [u EXCEPT !.pc = "claim", !.outcome = out]
          /\ x.pc = "claim" /\ x.code = u.code /\ x.link = u.link /\ x.age = u.age
          /\ x.forgotten = u.forgotten /\ x.outcome = out /\ x.took = u.took /\ x.claim = u.claim
          /\ x.preview = u.preview
    <3>1. LET x == [u EXCEPT !.pc = "claim", !.outcome = out]
          IN  /\ x \in AVisit
              /\ x.pc = "claim" /\ x.code = u.code /\ x.link = u.link /\ x.age = u.age
              /\ x.forgotten = u.forgotten /\ x.outcome = out /\ x.took = u.took /\ x.claim = u.claim
              /\ x.preview = u.preview
      BY VisitNames DEF AVisit
    <3> QED
      BY <3>1
  <2>2. Set(v, x)
    BY <1>1, <1>4, <2>1
  <2>3. VisitOK(v, x)
    BY <1>0, <1>1, <2>1 DEF VisitOK, Located
  <2> QED
    BY <1>0, <2>1, <2>2, <2>3, MoveStep DEF Claimant
<1> QED
  BY <1>2, <1>3, <1>4 DEF Serve

LEMMA GetPreviewStep ==
  ASSUME TrafficIInv, NEW v \in Visitor, GetPreview(v)
  PROVE  TrafficIInv'
<1>0. /\ visit[v] \in AVisit /\ VisitOK(v, visit[v]) /\ visit[v].pc = "getPreview" /\ visit[v].code \in Code
      /\ visit[v].link \in Link /\ gone[visit[v].link] <= Delay + CacheTtl + visit[v].age
      /\ visit[v].age \in 0..Delay /\ gone[visit[v].link] \in 0..Longest
      /\ UNCHANGED <<rows, gone, cache, claims, books, writer>> /\ (Fault \/ NoFault)
  BY Present DEF GetPreview, VisitOK, Located, Linked, AVisit, Typed
<1>1. CASE Set(v, [visit[v] EXCEPT !.pc = "setPreview", !.age = 0])
  <2>1. PICK u \in AVisit, n \in 0..Delay : u = visit[v] /\ n = 0
    BY <1>0, Constants
  <2>2. PICK x \in AVisit :
          /\ x = [u EXCEPT !.pc = "setPreview", !.age = n]
          /\ x.pc = "setPreview" /\ x.code = u.code /\ x.link = u.link /\ x.age = n
          /\ x.forgotten = u.forgotten /\ x.outcome = u.outcome /\ x.took = u.took /\ x.claim = u.claim
          /\ x.preview = u.preview
    <3>1. LET x == [u EXCEPT !.pc = "setPreview", !.age = n]
          IN  /\ x \in AVisit
              /\ x.pc = "setPreview" /\ x.code = u.code /\ x.link = u.link /\ x.age = n
              /\ x.forgotten = u.forgotten /\ x.outcome = u.outcome /\ x.took = u.took
              /\ x.claim = u.claim /\ x.preview = u.preview
      BY VisitNames DEF AVisit
    <3> QED
      BY <3>1
  <2>3. Set(v, x)
    BY <1>1, <2>1, <2>2
  <2>4. gone[visit[v].link] <= 2 * Delay + CacheTtl + 0
    BY <1>0, Constants
  <2>5. VisitOK(v, x)
    BY <1>0, <2>1, <2>2, <2>4 DEF VisitOK, Located
  <2> QED
    BY <1>0, <2>2, <2>3, <2>5, MoveStep DEF Claimant
<1>2. CASE cache["preview"][visit[v].code] # Empty
           /\ Set(v, [visit[v] EXCEPT !.pc = "done", !.age = 0, !.preview = cache["preview"][visit[v].code].link])
  <2>1. PICK entry \in Entry : entry = cache["preview"][visit[v].code]
    BY <1>0, <1>2, Present, Times DEF Typed
  <2>2. gone[entry.link] + entry.left <= LastSeen["preview"] + 1
    BY <1>0, <2>1, Entries, Present, Times DEF CacheOK, EntryOK
  <2>3. gone[entry.link] <= LastSeen["preview"] /\ entry.link \in Link
    <3>1. entry.left \in 1..CacheTtl /\ entry.link \in Link /\ gone[entry.link] \in 0..Longest
      BY Present DEF Entry, Typed
    <3> QED
      BY <2>2, <3>1, Constants, Times
  <2>4. PICK u \in AVisit, n \in 0..Delay, l \in Link \union {None} : u = visit[v] /\ n = 0 /\ l = entry.link
    BY <1>0, <2>3, Constants
  <2>5. PICK x \in AVisit :
          /\ x = [u EXCEPT !.pc = "done", !.age = n, !.preview = l]
          /\ x.pc = "done" /\ x.code = u.code /\ x.link = u.link /\ x.age = n
          /\ x.forgotten = u.forgotten /\ x.outcome = u.outcome /\ x.took = u.took /\ x.claim = u.claim
          /\ x.preview = l
    <3>1. LET x == [u EXCEPT !.pc = "done", !.age = n, !.preview = l]
          IN  /\ x \in AVisit
              /\ x.pc = "done" /\ x.code = u.code /\ x.link = u.link /\ x.age = n
              /\ x.forgotten = u.forgotten /\ x.outcome = u.outcome /\ x.took = u.took
              /\ x.claim = u.claim /\ x.preview = l
      BY VisitNames DEF AVisit
    <3> QED
      BY <3>1
  <2>6. l \notin x.forgotten["preview"]
    <3>1. \A m \in x.forgotten["preview"] : gone[m] > LastSeen["preview"]
      BY <1>0, <2>4, <2>5, Times DEF VisitOK
    <3>2. gone[l] \in 0..Longest
      BY <2>3, <2>4, Present DEF Typed
    <3> QED
      BY <2>3, <2>4, <3>1, <3>2, Times
  <2>7. VisitOK(v, x)
    BY <1>0, <2>4, <2>5, <2>6 DEF VisitOK, Located, Linked
  <2>8. Set(v, x)
    BY <1>2, <2>1, <2>4, <2>5
  <2> QED
    BY <1>0, <2>5, <2>7, <2>8, MoveStep DEF Claimant
<1> QED
  BY <1>1, <1>2 DEF GetPreview

LEMMA SetPreviewStep ==
  ASSUME TrafficIInv, NEW v \in Visitor, SetPreview(v)
  PROVE  TrafficIInv'
<1>0. /\ visit[v] \in AVisit /\ VisitOK(v, visit[v]) /\ visit[v].pc = "setPreview" /\ visit[v].code \in Code
      /\ visit[v].link \in Link /\ gone[visit[v].link] <= 2 * Delay + CacheTtl + visit[v].age
      /\ visit[v].age \in 0..Delay /\ gone[visit[v].link] \in 0..Longest
      /\ UNCHANGED <<rows, gone, claims, books, writer>> /\ (Fault \/ NoFault)
  BY Present DEF SetPreview, VisitOK, Located, Linked, AVisit, Typed
<1>1. PICK u \in AVisit, n \in 0..Delay, l \in Link \union {None} : u = visit[v] /\ n = 0 /\ l = visit[v].link
  BY <1>0, Constants
<1>2. PICK x \in AVisit :
        /\ x = [u EXCEPT !.pc = "done", !.age = n, !.preview = l]
        /\ x.pc = "done" /\ x.code = u.code /\ x.link = u.link /\ x.age = n /\ x.forgotten = u.forgotten
        /\ x.outcome = u.outcome /\ x.took = u.took /\ x.claim = u.claim /\ x.preview = l
  <2>1. LET x == [u EXCEPT !.pc = "done", !.age = n, !.preview = l]
        IN  /\ x \in AVisit
            /\ x.pc = "done" /\ x.code = u.code /\ x.link = u.link /\ x.age = n
            /\ x.forgotten = u.forgotten /\ x.outcome = u.outcome /\ x.took = u.took
            /\ x.claim = u.claim /\ x.preview = l
    BY VisitNames DEF AVisit
  <2> QED
    BY <2>1
<1>3. Set(v, x)
  BY <1>1, <1>2 DEF SetPreview
<1>4. gone[visit[v].link] <= LastSeen["preview"] /\ gone[visit[v].link] + CacheTtl <= LastSeen["preview"] + 1
  BY <1>0, Constants, Times
<1>5. l \notin x.forgotten["preview"]
  <2>1. \A m \in x.forgotten["preview"] : gone[m] > LastSeen["preview"]
    BY <1>0, <1>1, <1>2, Times DEF VisitOK
  <2> QED
    BY <1>0, <1>1, <1>4, <2>1, Times
<1>6. VisitOK(v, x)
  BY <1>0, <1>1, <1>2, <1>5 DEF VisitOK, Located, Linked
<1>7. CacheSet("preview", visit[v].code, visit[v].link) \/ UNCHANGED cache
  BY DEF SetPreview
<1>8. cache' \in [Kinds -> [Code -> Entry \union {Empty}]] /\ CacheOK'
  BY <1>0, <1>4, <1>7, CacheSetOK, Times
<1>9. VisitOK(v, x)' /\ \A m \in Link : OwnerOK(m, v, x)'
  BY <1>0, <1>2, <1>6, Present DEF VisitOK, OwnerOK, Claimant
<1>10. KeysKept(v)
  BY <1>0, Present DEF KeysKept, Typed
<1>11. books' \in Books /\ BooksOK'
  BY <1>0, <1>2, <1>3, BooksKept
<1> QED
  BY <1>0, <1>3, <1>8, <1>9, <1>10, <1>11, VisitStep

-----------------------------------------------------------------------------
(* A visit: the click *)

LEMMA ClaimedIs ==
  ASSUME TrafficIInv, NEW v \in Visitor, NEW claim \in {"winner", "duplicate", "unavailable"}, NEW took \in BOOLEAN,
         Claimed(v, claim, took)
  PROVE  \E x \in AVisit :
           /\ Set(v, x) /\ x.pc = (IF claim = "duplicate" THEN "done" ELSE "record")
           /\ x.link = visit[v].link /\ x.age = 0
           /\ x.forgotten = visit[v].forgotten /\ x.outcome = visit[v].outcome /\ x.took = took
           /\ x.claim = claim /\ x.preview = visit[v].preview
<1>1. PICK u \in AVisit, n \in 0..Delay, pc \in VisitPc :
        u = visit[v] /\ n = 0 /\ pc = IF claim = "duplicate" THEN "done" ELSE "record"
  BY Present, Constants, VisitNames
<1>2. PICK x \in AVisit :
        /\ x = [u EXCEPT !.claim = claim, !.took = took, !.age = n, !.pc = pc]
        /\ x.pc = pc /\ x.code = u.code /\ x.link = u.link /\ x.age = n /\ x.forgotten = u.forgotten
        /\ x.outcome = u.outcome /\ x.took = took /\ x.claim = claim /\ x.preview = u.preview
  <2>1. LET x == [u EXCEPT !.claim = claim, !.took = took, !.age = n, !.pc = pc]
        IN  /\ x \in AVisit
            /\ x.pc = pc /\ x.code = u.code /\ x.link = u.link /\ x.age = n /\ x.forgotten = u.forgotten
            /\ x.outcome = u.outcome /\ x.took = took /\ x.claim = claim /\ x.preview = u.preview
    BY VisitNames DEF AVisit
  <2> QED
    BY <2>1
<1>3. Set(v, x)
  BY <1>1, <1>2 DEF Claimed
<1> QED
  BY <1>1, <1>2, <1>3

LEMMA AwaitedIs ==
  ASSUME TrafficIInv, NEW v \in Visitor, NEW took \in BOOLEAN, AwaitReadback(v, took)
  PROVE  \E x \in AVisit :
           /\ Set(v, x) /\ x.pc = "readClaim" /\ x.link = visit[v].link /\ x.age = 0
           /\ x.forgotten = visit[v].forgotten /\ x.outcome = visit[v].outcome /\ x.took = took
           /\ x.claim = visit[v].claim /\ x.preview = visit[v].preview
<1>1. PICK u \in AVisit, n \in 0..Delay : u = visit[v] /\ n = 0
  BY Present, Constants
<1>2. PICK x \in AVisit :
        /\ x = [u EXCEPT !.pc = "readClaim", !.took = took, !.age = n]
        /\ x.pc = "readClaim" /\ x.code = u.code /\ x.link = u.link /\ x.age = n
        /\ x.forgotten = u.forgotten /\ x.outcome = u.outcome /\ x.took = took /\ x.claim = u.claim
        /\ x.preview = u.preview
  <2>1. LET x == [u EXCEPT !.pc = "readClaim", !.took = took, !.age = n]
        IN  /\ x \in AVisit
            /\ x.pc = "readClaim" /\ x.code = u.code /\ x.link = u.link /\ x.age = n
            /\ x.forgotten = u.forgotten /\ x.outcome = u.outcome /\ x.took = took /\ x.claim = u.claim
            /\ x.preview = u.preview
    BY VisitNames DEF AVisit
  <2> QED
    BY <2>1
<1>3. Set(v, x)
  BY <1>1, <1>2 DEF AwaitReadback
<1> QED
  BY <1>1, <1>2, <1>3

(* A visit that takes the key, which nobody has.                           *)
LEMMA KeyStep ==
  ASSUME TrafficIInv, NEW v \in Visitor, NEW x \in AVisit, Set(v, x), visit[v].pc = "claim",
         claims[visit[v].link].owner = None, visit[v].link \in Link,
         claims' = [claims EXCEPT ![visit[v].link] = [owner |-> v, left |-> ClaimTtl]],
         x.pc \in {"readClaim", "record"}, x.took, x.link = visit[v].link, x.age = 0, x.outcome \in Outcomes,
         x.forgotten = visit[v].forgotten, x.preview = visit[v].preview, x.claim # "duplicate",
         x.pc = "readClaim" => x.claim = None,
         UNCHANGED <<rows, gone, cache, books, writer>>,
         Fault \/ NoFault
  PROVE  TrafficIInv'
<1>1. PICK hold \in Hold : hold = [owner |-> v, left |-> ClaimTtl] /\ hold.owner = v /\ hold.left = ClaimTtl
  <2>1. ClaimTtl \in 0..ClaimTtl
    BY Constants
  <2>2. [owner |-> v, left |-> ClaimTtl] \in Hold
    BY <2>1 DEF Hold
  <2> QED
    BY <2>2
<1>2. /\ claims' \in [Link -> Hold]
      /\ \A m \in Link : claims'[m] = IF m = visit[v].link THEN hold ELSE claims[m]
  BY <1>1, Present DEF Typed
<1>3. KeysKept(v)
  BY <1>1, <1>2 DEF KeysKept
<1>4. \A m \in Link : claims[m].owner # v
  BY Present DEF OwnerOK, Claimant
<1>5. \A m \in Link : OwnerOK(m, v, x)'
  BY <1>1, <1>2, <1>4 DEF OwnerOK, Claimant
<1>6. VisitOK(v, x)'
  <2>1. VisitOK(v, visit[v])
    BY Present
  <2> QED
    BY <1>1, <1>2, <2>1, Constants DEF VisitOK, Located, Linked
<1>7. cache' \in [Kinds -> [Code -> Entry \union {Empty}]] /\ CacheOK'
  BY Present DEF Typed, CacheOK, EntryOK
<1>8. books' \in Books /\ BooksOK'
  BY BooksKept
<1> QED
  BY <1>3, <1>5, <1>6, <1>7, <1>8, VisitStep

LEMMA ClaimStep ==
  ASSUME TrafficIInv, NEW v \in Visitor, Claim(v)
  PROVE  TrafficIInv'
<1>0. /\ visit[v] \in AVisit /\ VisitOK(v, visit[v]) /\ visit[v].pc = "claim"
      /\ visit[v].link \in Link /\ visit[v].outcome \in Outcomes /\ visit[v].claim = None
      /\ UNCHANGED <<rows, gone, cache, books, writer>> /\ (Fault \/ NoFault)
  BY Present DEF Claim, VisitOK, Linked
<1>1. CASE /\ claims[visit[v].link].owner = None
           /\ claims' = [claims EXCEPT ![visit[v].link] = [owner |-> v, left |-> ClaimTtl]]
           /\ Claimed(v, "winner", TRUE)
  <2>1. PICK claim \in {"winner", "duplicate", "unavailable"}, took \in BOOLEAN :
          claim = "winner" /\ took = TRUE
    OBVIOUS
  <2>2. Claimed(v, claim, took)
    BY <1>1, <2>1
  <2>3. PICK x \in AVisit :
          /\ Set(v, x) /\ x.pc = (IF claim = "duplicate" THEN "done" ELSE "record")
          /\ x.link = visit[v].link /\ x.age = 0
          /\ x.forgotten = visit[v].forgotten /\ x.outcome = visit[v].outcome /\ x.took = took
          /\ x.claim = claim /\ x.preview = visit[v].preview
    BY <2>2, ClaimedIs
  <2> QED
    BY <1>0, <1>1, <2>1, <2>3, KeyStep
<1>2. CASE /\ claims[visit[v].link].owner = None
           /\ claims' = [claims EXCEPT ![visit[v].link] = [owner |-> v, left |-> ClaimTtl]]
           /\ AwaitReadback(v, TRUE)
  <2>1. PICK took \in BOOLEAN : took = TRUE /\ AwaitReadback(v, took)
    BY <1>2
  <2>2. PICK x \in AVisit :
          /\ Set(v, x) /\ x.pc = "readClaim" /\ x.link = visit[v].link /\ x.age = 0
          /\ x.forgotten = visit[v].forgotten /\ x.outcome = visit[v].outcome /\ x.took = took
          /\ x.claim = visit[v].claim /\ x.preview = visit[v].preview
    BY <2>1, AwaitedIs
  <2>3. x.claim # "duplicate"
    BY <1>0, <2>2, Constants
  <2> QED
    BY <1>0, <1>2, <2>1, <2>2, <2>3, KeyStep
<1>3. CASE UNCHANGED claims /\ AwaitReadback(v, FALSE)
  <2>1. PICK took \in BOOLEAN : took = FALSE /\ AwaitReadback(v, took)
    BY <1>3
  <2>2. PICK x \in AVisit :
          /\ Set(v, x) /\ x.pc = "readClaim" /\ x.link = visit[v].link /\ x.age = 0
          /\ x.forgotten = visit[v].forgotten /\ x.outcome = visit[v].outcome /\ x.took = took
          /\ x.claim = visit[v].claim /\ x.preview = visit[v].preview
    BY <2>1, AwaitedIs
  <2>3. VisitOK(v, x)
    BY <1>0, <2>1, <2>2, Constants DEF VisitOK, Located
  <2> QED
    BY <1>0, <1>3, <2>2, <2>3, MoveStep DEF Claimant
<1> QED
  BY <1>1, <1>2, <1>3 DEF Claim

(* A readback finds the token of the visit exactly if the visit took the   *)
(* key: it comes before the key can lapse.                                 *)
LEMMA ReadClaimStep ==
  ASSUME TrafficIInv, NEW v \in Visitor, ReadClaim(v)
  PROVE  TrafficIInv'
<1>0. /\ visit[v] \in AVisit /\ VisitOK(v, visit[v]) /\ visit[v].pc = "readClaim"
      /\ visit[v].link \in Link /\ visit[v].outcome \in Outcomes /\ visit[v].took \in BOOLEAN
      /\ UNCHANGED <<rows, gone, cache, claims, books, writer>> /\ (Fault \/ NoFault)
  BY Present DEF ReadClaim, VisitOK, Linked, AVisit
<1>1. claims[visit[v].link].owner = v <=> visit[v].took
  BY <1>0, Present DEF VisitOK, OwnerOK
<1>2. PICK claim \in {"winner", "duplicate", "unavailable"} :
        /\ Claimed(v, claim, visit[v].took)
        /\ claim = "winner" => visit[v].took
        /\ claim = "duplicate" => ~visit[v].took
  BY <1>0, <1>1 DEF ReadClaim, Stored
<1>3. PICK x \in AVisit :
        /\ Set(v, x) /\ x.pc = (IF claim = "duplicate" THEN "done" ELSE "record")
        /\ x.link = visit[v].link /\ x.age = 0
        /\ x.forgotten = visit[v].forgotten /\ x.outcome = visit[v].outcome /\ x.took = visit[v].took
        /\ x.claim = claim /\ x.preview = visit[v].preview
  BY <1>0, <1>2, ClaimedIs
<1>4. VisitOK(v, x)
  BY <1>0, <1>2, <1>3 DEF VisitOK, Located
<1> QED
  BY <1>0, <1>3, <1>4, MoveStep DEF Claimant

(* What follows the claim: the visit moves on to "observe" or "mark", or   *)
(* is done.                                                                *)
LEMMA ThenIs ==
  ASSUME TrafficIInv, NEW v \in Visitor, NEW pc \in {"observe", "mark", "done"}, Then(v, pc)
  PROVE  \E x \in AVisit : Set(v, x) /\ x.pc = pc /\ VisitOK(v, x)
<1>1. CASE pc = "done"
  BY <1>1, LeftIs DEF Then, Leave
<1>2. CASE pc # "done"
  <2>1. Go(v, pc)
    BY <1>2 DEF Then
  <2>2. pc \in VisitPc
    BY VisitNames
  <2>3. PICK x \in AVisit :
          /\ Set(v, x) /\ x.pc = pc /\ x.link = visit[v].link /\ x.forgotten = visit[v].forgotten
          /\ x.took = visit[v].took /\ x.claim = visit[v].claim /\ x.preview = visit[v].preview
    BY <2>1, <2>2, GoIs
  <2>4. VisitOK(v, visit[v])
    BY Present
  <2>5. VisitOK(v, x)
    BY <1>2, <2>3, <2>4 DEF VisitOK, Located, Linked
  <2> QED
    BY <2>3, <2>5
<1> QED
  BY <1>1, <1>2

LEMMA ClickStep ==
  ASSUME TrafficIInv, NEW v \in Visitor, NEW x \in AVisit, Set(v, x), VisitOK(v, x),
         x.pc \in {"observe", "mark", "done"},
         UNCHANGED <<rows, gone, cache, claims, writer>>, books' \in Books, BooksExact',
         Fault \/ NoFault
  PROVE  TrafficIInv'
<1>1. \A l \in Link : OwnerOK(l, v, x)'
  BY DEF OwnerOK, Claimant
<1>2. KeysKept(v) /\ cache' \in [Kinds -> [Code -> Entry \union {Empty}]]
  BY Present DEF KeysKept, Typed
<1>3. VisitOK(v, x)' /\ CacheOK'
  BY Present DEF VisitOK, CacheOK, EntryOK
<1>4. IsFiniteSet(Observing')
  <2>1. Observing' = Observing \union {v} \/ Observing' = Observing \ {v}
    BY ObservingIs
  <2>2. IsFiniteSet(Observing)
    BY Present DEF BooksOK
  <2> QED
    BY <2>1, <2>2, FS_AddElement, FS_RemoveElement
<1>5. BooksOK'
  BY <1>4 DEF BooksOK
<1> QED
  BY <1>1, <1>2, <1>3, <1>5, VisitStep

(* A booked click that the visit goes on to observe is one more observer;  *)
(* one it will not observe, and one whose booking is unknown, is marked.   *)
LEMMA RecordStep ==
  ASSUME TrafficIInv, NEW v \in Visitor, Record(v)
  PROVE  TrafficIInv'
<1>0. /\ visit[v].pc = "record" /\ visit[v].outcome \in Outcomes /\ books \in Books
      /\ UNCHANGED <<rows, gone, cache, claims, writer>> /\ (Fault \/ NoFault)
  BY Present DEF Record, VisitOK, Typed
<1> DEFINE more == books' = [books EXCEPT !.booked[visit[v].outcome] = @ + 1]
<1>1. PICK pc \in {"observe", "mark", "done"} :
        /\ Then(v, pc)
        /\ UNCHANGED books \/ more
        /\ pc = "observe" => more /\ visit[v].outcome = "delivered"
        /\ pc = "done" => visit[v].outcome # "delivered"
  BY <1>0 DEF Record, AfterRecord
<1>2. PICK x \in AVisit : Set(v, x) /\ x.pc = pc /\ VisitOK(v, x)
  BY <1>1, ThenIs
<1>3. books' \in Books
  BY <1>0, <1>1 DEF Books
<1>4. BooksExact'
  <2>0. \A u \in Visitor : visit'[u] = IF u = v THEN x ELSE visit[u]
    BY <1>2, Present DEF Typed, Set
  <2>1. CASE pc = "mark"
    BY <1>2, <2>0, <2>1 DEF BooksExact
  <2>2. CASE pc = "done"
    <3>1. Observing' = Observing
      BY <1>0, <1>2, <2>2, ObservingIs DEF Observing
    <3>2. /\ books'.gap = books.gap /\ books'.unmarked = books.unmarked /\ books'.observed = books.observed
          /\ books'.booked["delivered"] = books.booked["delivered"]
      BY <1>0, <1>1, <2>2 DEF Books, Outcomes
    <3>3. (\A u \in Visitor : visit'[u].pc # "mark") => (\A u \in Visitor : visit[u].pc # "mark")
      BY <1>0, <2>0
    <3>4. BooksExact
      BY Present DEF BooksOK
    <3> QED
      BY <3>1, <3>2, <3>3, <3>4 DEF BooksExact
  <2>3. CASE pc = "observe"
    <3>1. Observing' = Observing \union {v} /\ v \notin Observing
      BY <1>0, <1>2, <2>3, ObservingIs DEF Observing
    <3>2. /\ books'.gap = books.gap /\ books'.unmarked = books.unmarked /\ books'.observed = books.observed
          /\ books'.booked["delivered"] = books.booked["delivered"] + 1
          /\ books.booked["delivered"] \in Nat /\ books.observed \in Nat
      BY <1>0, <1>1, <2>3 DEF Books, Outcomes
    <3>3. (\A u \in Visitor : visit'[u].pc # "mark") => (\A u \in Visitor : visit[u].pc # "mark")
      BY <1>0, <2>0
    <3>4. BooksExact /\ IsFiniteSet(Observing)
      BY Present DEF BooksOK
    <3>5. Cardinality(Observing') = Cardinality(Observing) + 1 /\ Cardinality(Observing) \in Nat
      BY <3>1, <3>4, FS_AddElement, FS_CardinalityType
    <3> QED
      BY <3>2, <3>3, <3>4, <3>5 DEF BooksExact
  <2> QED
    BY <2>1, <2>2, <2>3
<1> QED
  BY <1>0, <1>2, <1>3, <1>4, ClickStep

LEMMA ObserveStep ==
  ASSUME TrafficIInv, NEW v \in Visitor, Observe(v)
  PROVE  TrafficIInv'
<1>0. /\ visit[v].pc = "observe" /\ books \in Books
      /\ UNCHANGED <<rows, gone, cache, claims, writer>> /\ (Fault \/ NoFault)
  BY Present DEF Observe, Typed
<1>1. PICK pc \in {"observe", "mark", "done"} :
        /\ Then(v, pc)
        /\ UNCHANGED books \/ books' = [books EXCEPT !.observed = @ + 1]
        /\ pc # "observe"
        /\ pc = "done" => books' = [books EXCEPT !.observed = @ + 1]
  BY <1>0 DEF Observe, Then
<1>2. PICK x \in AVisit : Set(v, x) /\ x.pc = pc /\ VisitOK(v, x)
  BY <1>1, ThenIs
<1>3. books' \in Books
  BY <1>0, <1>1 DEF Books
<1>4. BooksExact'
  <2>0. \A u \in Visitor : visit'[u] = IF u = v THEN x ELSE visit[u]
    BY <1>2, Present DEF Typed, Set
  <2>1. CASE pc = "mark"
    BY <1>2, <2>0, <2>1 DEF BooksExact
  <2>2. CASE pc = "done"
    <3>1. Observing' = Observing \ {v} /\ v \in Observing
      BY <1>0, <1>2, <2>2, ObservingIs DEF Observing
    <3>2. /\ books'.gap = books.gap /\ books'.unmarked = books.unmarked /\ books'.observed = books.observed + 1
          /\ books'.booked = books.booked /\ books.booked["delivered"] \in Nat /\ books.observed \in Nat
      BY <1>0, <1>1, <2>2 DEF Books, Outcomes
    <3>3. (\A u \in Visitor : visit'[u].pc # "mark") => (\A u \in Visitor : visit[u].pc # "mark")
      BY <1>0, <2>0
    <3>4. BooksExact /\ IsFiniteSet(Observing)
      BY Present DEF BooksOK
    <3>5. Cardinality(Observing') = Cardinality(Observing) - 1 /\ Cardinality(Observing) \in Nat
      BY <3>1, <3>4, FS_RemoveElement, FS_CardinalityType
    <3> QED
      BY <3>2, <3>3, <3>4, <3>5 DEF BooksExact
  <2> QED
    BY <1>1, <2>1, <2>2
<1> QED
  BY <1>0, <1>2, <1>3, <1>4, ClickStep

LEMMA MarkStep ==
  ASSUME TrafficIInv, NEW v \in Visitor, Mark(v)
  PROVE  TrafficIInv'
<1>0. books \in Books /\ UNCHANGED <<rows, gone, cache, claims, writer>> /\ (Fault \/ NoFault)
  BY Present DEF Mark, Typed
<1>1. PICK x \in AVisit : x = [NoVisit EXCEPT !.pc = "done"] /\ x.pc = "done" /\ VisitOK(v, x)
  BY LeftIs
<1>2. Set(v, x)
  BY <1>1 DEF Mark, Leave
<1>3. books' \in Books /\ (books'.gap \/ books'.unmarked # 0)
  <2>1. CASE books' = [books EXCEPT !.gap = TRUE]
    BY <1>0, <2>1 DEF Books
  <2>2. CASE books' = [books EXCEPT !.unmarked = @ + 1]
    BY <1>0, <2>2 DEF Books
  <2> QED
    BY <2>1, <2>2 DEF Mark
<1>4. BooksExact'
  BY <1>3 DEF BooksExact
<1> QED
  BY <1>0, <1>1, <1>2, <1>3, <1>4, ClickStep

-----------------------------------------------------------------------------
(* Steps of one writer *)

LEMMA WriterNames ==
  "new" \in WriterPc /\ "insert" \in WriterPc /\ "readBack" \in WriterPc /\ "invalidate" \in WriterPc
  /\ "done" \in WriterPc
BY DEF WriterPc

LEMMA WriterStep ==
  ASSUME TrafficIInv, NEW w \in Writer, NEW x \in AWriter, SetWriter(w, x), WriterOK(x),
         UNCHANGED <<claims, books, visit>>,
         rows' \in [Code -> ARow \union {None}], RowsOK',
         gone' \in [Link -> 0..Longest], \A l \in Link : gone'[l] = gone[l] \/ (gone[l] = 0 /\ gone'[l] = 1),
         cache' \in [Kinds -> [Code -> Entry \union {Empty}]], CacheOK',
         Fault \/ NoFault
  PROVE  TrafficIInv'
<1>1. writer' \in [Writer -> AWriter] /\ writer'[w] = x /\ \A u \in Writer \ {w} : writer'[u] = writer[u]
  BY Present DEF Typed, SetWriter
<1>2. Typed'
  BY <1>1, Present, Counted DEF Typed
<1>3. \A u \in Writer : WriterOK(writer[u])'
  BY <1>1, Present DEF WriterOK
<1>4. ASSUME NEW v \in Visitor PROVE VisitOK(v, visit[v])'
  <2>1. PICK u \in AVisit : u = visit[v]
    BY Present
  <2>2. VisitOK(v, u) /\ u.age \in 0..Delay
    BY <2>1, Present DEF AVisit
  <2>3. \A k \in Kinds : \A l \in u.forgotten[k] : l \in Link
    BY <2>1 DEF AVisit
  <2>4. \A l \in Link : gone[l] \in 0..Longest
    BY Present DEF Typed
  <2>5. \A k \in Kinds : LastSeen[k] \in Nat
    BY Times DEF Kinds
  <2>6. \A k \in Kinds : \A l \in u.forgotten[k] : gone'[l] > LastSeen[k]
    BY <2>2, <2>3, <2>4, <2>5, Times DEF VisitOK
  <2>7. /\ u.pc = "fill" => gone'[u.link] <= u.age + 1
        /\ u.pc = "serve" => gone'[u.link] <= Delay + CacheTtl
        /\ u.pc = "getPreview" => gone'[u.link] <= Delay + CacheTtl + u.age
        /\ u.pc = "setPreview" => gone'[u.link] <= 2 * Delay + CacheTtl + u.age
    <3>1. u.pc \in {"fill", "serve", "getPreview", "setPreview"} => u.link \in Link
      BY <2>2 DEF VisitOK, Linked
    <3>2. /\ u.pc = "fill" => gone[u.link] <= u.age + 1
          /\ u.pc = "serve" => gone[u.link] <= Delay + CacheTtl
          /\ u.pc = "getPreview" => gone[u.link] <= Delay + CacheTtl + u.age
          /\ u.pc = "setPreview" => gone[u.link] <= 2 * Delay + CacheTtl + u.age
      BY <2>2 DEF VisitOK
    <3> QED
      BY <2>2, <3>1, <3>2, Constants
  <2>8. VisitOK(v, u)'
    BY <2>2, <2>6, <2>7 DEF VisitOK
  <2> QED
    BY <2>1, <2>8
<1>5. \A l \in Link, v \in Visitor : OwnerOK(l, v, visit[v])'
  BY Present DEF OwnerOK
<1>6. BooksOK'
  BY Present DEF BooksOK, BooksExact, Observing
<1> QED
  BY <1>2, <1>3, <1>4, <1>5, <1>6 DEF TrafficIInv

(* A step that leaves the stores as they are.                              *)
LEMMA TurnStep ==
  ASSUME TrafficIInv, NEW w \in Writer, NEW x \in AWriter, SetWriter(w, x), WriterOK(x),
         x.pc \in {"new", "insert"} => writer[w].pc \in {"new", "insert"},
         UNCHANGED <<rows, gone, cache, claims, books, visit>>,
         Fault \/ NoFault
  PROVE  TrafficIInv'
<1>1. writer' \in [Writer -> AWriter] /\ writer'[w] = x /\ \A u \in Writer \ {w} : writer'[u] = writer[u]
  BY Present DEF Typed, SetWriter
<1>2. RowsOK' /\ CacheOK'
  <2>1. \A c \in Code : RowOK(c)'
    <3> TAKE c \in Code
    <3>1. RowOK(c)
      BY Present DEF RowsOK
    <3> QED
      BY <1>1, <3>1 DEF RowOK
  <2>2. \A u \in Writer : writer'[u].pc \in {"new", "insert"} => gone'[u] = 0
    BY <1>1, Present DEF RowsOK
  <2> QED
    BY <2>1, <2>2, Present DEF RowsOK, CacheOK, EntryOK
<1> QED
  BY <1>2, Present, WriterStep DEF Typed

LEMMA NoWriterIs ==
  NoWriter \in AWriter /\ NoWriter.pc = "new" /\ NoWriter.made = 0
BY WriterNames DEF NoWriter, AWriter

LEMMA AnswerIs ==
  ASSUME TrafficIInv, NEW w \in Writer, NEW answer \in {None, "ok", "error"}, Answer(w, answer)
  PROVE  \E x \in AWriter : SetWriter(w, x) /\ WriterOK(x) /\ x.pc = "done" /\ x.made = writer[w].made
<1>1. PICK u \in AWriter, made \in Nat : u = NoWriter /\ made = writer[w].made
  BY NoWriterIs, Present DEF AWriter
<1>2. PICK x \in AWriter :
        /\ x = [u EXCEPT !.pc = "done", !.answer = answer, !.made = made]
        /\ x.pc = "done" /\ x.code = u.code /\ x.tries = u.tries /\ x.instant = u.instant
        /\ x.answer = answer /\ x.read = u.read /\ x.made = made
  <2>1. LET x == [u EXCEPT !.pc = "done", !.answer = answer, !.made = made]
        IN  /\ x \in AWriter
            /\ x.pc = "done" /\ x.code = u.code /\ x.tries = u.tries /\ x.instant = u.instant
            /\ x.answer = answer /\ x.read = u.read /\ x.made = made
    BY WriterNames DEF AWriter
  <2> QED
    BY <2>1
<1>3. SetWriter(w, x)
  BY <1>1, <1>2 DEF Answer
<1>4. WriterOK(x)
  BY <1>1, <1>2, Present DEF WriterOK
<1> QED
  BY <1>1, <1>2, <1>3, <1>4

LEMMA AnswerStep ==
  ASSUME TrafficIInv, NEW w \in Writer, NEW answer \in {None, "ok", "error"}, Answer(w, answer),
         UNCHANGED <<rows, gone, cache, claims, books, visit>>,
         Fault \/ NoFault
  PROVE  TrafficIInv'
<1>1. PICK x \in AWriter : SetWriter(w, x) /\ WriterOK(x) /\ x.pc = "done"
  BY AnswerIs
<1> QED
  BY <1>1, TurnStep

LEMMA CreateStep ==
  ASSUME TrafficIInv, NEW w \in Writer, NEW instant \in {0, 1}, Create(w, instant)
  PROVE  TrafficIInv'
<1>1. PICK u \in AWriter : u = NoWriter
  BY NoWriterIs
<1>2. PICK x \in AWriter :
        /\ x = [u EXCEPT !.pc = "insert", !.instant = instant]
        /\ x.pc = "insert" /\ x.code = u.code /\ x.tries = u.tries /\ x.instant = instant
        /\ x.answer = u.answer /\ x.read = u.read /\ x.made = u.made
  <2>1. LET x == [u EXCEPT !.pc = "insert", !.instant = instant]
        IN  /\ x \in AWriter
            /\ x.pc = "insert" /\ x.code = u.code /\ x.tries = u.tries /\ x.instant = instant
            /\ x.answer = u.answer /\ x.read = u.read /\ x.made = u.made
    BY WriterNames DEF AWriter
  <2> QED
    BY <2>1
<1>3. SetWriter(w, x)
  BY <1>1, <1>2 DEF Create
<1>4. WriterOK(x)
  BY <1>1, <1>2, NoWriterIs DEF WriterOK
<1> QED
  BY <1>2, <1>3, <1>4, TurnStep DEF Create, NoFault

(* The row of a new link is at a free code, and no other row is its own.   *)
LEMMA CommitStep ==
  ASSUME TrafficIInv, NEW w \in Writer, NEW c \in Code, NEW x \in AWriter, SetWriter(w, x), WriterOK(x),
         writer[w].pc = "insert", x.pc \in {"readBack", "done"}, rows[c] = None, Committed(w, c),
         UNCHANGED <<gone, cache, claims, books, visit>>,
         Fault \/ NoFault
  PROVE  TrafficIInv'
<1>1. writer'[w] = x /\ \A u \in Writer \ {w} : writer'[u] = writer[u]
  BY Present DEF Typed, SetWriter
<1>2. PICK row \in ARow : row = Row(w) /\ row.link = w
  <2>1. Row(w) \in ARow /\ Row(w).link = w
    BY Constants DEF Row, ARow
  <2> QED
    BY <2>1
<1>3. /\ rows' \in [Code -> ARow \union {None}]
      /\ \A d \in Code : rows'[d] = IF d = c THEN row ELSE rows[d]
  BY <1>2, Present DEF Typed, Committed
<1>4. gone[w] = 0
  BY Present DEF RowsOK
<1>5. \A d \in Code : rows[d] # None => rows[d].link # w
  BY Present DEF RowsOK, RowOK
<1>6. row # None
  BY Constants
<1>7. \A d \in Code : RowOK(d)'
  <2> TAKE d \in Code
  <2>1. CASE d = c
    BY <1>1, <1>2, <1>3, <1>4, <2>1 DEF RowOK
  <2>2. CASE d # c
    <3>1. RowOK(d) /\ rows'[d] = rows[d]
      BY <1>3, <2>2, Present DEF RowsOK
    <3> QED
      BY <1>1, <1>5, <3>1 DEF RowOK
  <2> QED
    BY <2>1, <2>2
<1>8. \A d, e \in Code : rows'[d] # None /\ rows'[d] = rows'[e] => d = e
  BY <1>2, <1>3, <1>5, <1>6, Present DEF RowsOK
<1>9. \A u \in Writer : writer'[u].pc \in {"new", "insert"} => gone'[u] = 0
  BY <1>1, Present DEF RowsOK
<1>10. RowsOK' /\ CacheOK'
  BY <1>7, <1>8, <1>9, Present DEF RowsOK, CacheOK, EntryOK
<1> QED
  BY <1>3, <1>10, Present, WriterStep DEF Typed

LEMMA InsertStep ==
  ASSUME TrafficIInv, NEW w \in Writer, NEW c \in Code, Insert(w, c)
  PROVE  TrafficIInv'
<1>0. /\ writer[w] \in AWriter /\ WriterOK(writer[w]) /\ writer[w].pc = "insert" /\ writer[w].made = 0
      /\ UNCHANGED <<gone, cache, claims, books, visit>> /\ (Fault \/ NoFault)
  BY Present DEF Insert, WriterOK
<1>1. PICK u \in AWriter, tries \in Nat, made \in Nat, code \in Code \union {None} :
        u = writer[w] /\ tries = writer[w].tries + 1 /\ made = 1 /\ code = c
  BY <1>0 DEF AWriter
<1>2. CASE UNCHANGED rows /\ SetWriter(w, [writer[w] EXCEPT !.tries = @ + 1])
  <2>1. PICK x \in AWriter :
          /\ x = [u EXCEPT !.tries = tries]
          /\ x.pc = u.pc /\ x.code = u.code /\ x.tries = tries /\ x.instant = u.instant
          /\ x.answer = u.answer /\ x.read = u.read /\ x.made = u.made
    <3>1. LET x == [u EXCEPT !.tries = tries]
          IN  /\ x \in AWriter
              /\ x.pc = u.pc /\ x.code = u.code /\ x.tries = tries /\ x.instant = u.instant
              /\ x.answer = u.answer /\ x.read = u.read /\ x.made = u.made
      BY WriterNames DEF AWriter
    <3> QED
      BY <3>1
  <2>2. SetWriter(w, x)
    BY <1>1, <1>2, <2>1
  <2>3. WriterOK(x)
    BY <1>0, <1>1, <2>1 DEF WriterOK
  <2> QED
    BY <1>0, <1>2, <2>2, <2>3, TurnStep
<1>3. CASE UNCHANGED rows /\ Answer(w, "error")
  <2>1. PICK answer \in {None, "ok", "error"} : answer = "error" /\ Answer(w, answer)
    BY <1>3
  <2> QED
    BY <1>0, <1>3, <2>1, AnswerStep
<1>4. CASE /\ rows[c] = None /\ Committed(w, c)
           /\ SetWriter(w, [NoWriter EXCEPT !.pc = "done", !.answer = "ok", !.made = writer[w].made + 1])
  <2>1. PICK n \in AWriter : n = NoWriter
    BY NoWriterIs
  <2>2. PICK x \in AWriter :
          /\ x = [n EXCEPT !.pc = "done", !.answer = "ok", !.made = made]
          /\ x.pc = "done" /\ x.code = n.code /\ x.tries = n.tries /\ x.instant = n.instant
          /\ x.answer = "ok" /\ x.read = n.read /\ x.made = made
    <3>1. LET x == [n EXCEPT !.pc = "done", !.answer = "ok", !.made = made]
          IN  /\ x \in AWriter
              /\ x.pc = "done" /\ x.code = n.code /\ x.tries = n.tries /\ x.instant = n.instant
              /\ x.answer = "ok" /\ x.read = n.read /\ x.made = made
      BY WriterNames DEF AWriter
    <3> QED
      BY <3>1
  <2>3. SetWriter(w, x)
    BY <1>0, <1>1, <1>4, <2>1, <2>2
  <2>4. WriterOK(x)
    BY <1>0, <1>1, <2>2 DEF WriterOK
  <2> QED
    BY <1>0, <1>4, <2>2, <2>3, <2>4, CommitStep
<1>5. CASE UNCHANGED rows /\ SetWriter(w, [[writer[w] EXCEPT !.code = c, !.tries = @ + 1] EXCEPT !.pc = "readBack"])
  <2>1. PICK y \in AWriter :
          /\ y = [u EXCEPT !.code = code, !.tries = tries]
          /\ y.pc = u.pc /\ y.code = code /\ y.tries = tries /\ y.instant = u.instant
          /\ y.answer = u.answer /\ y.read = u.read /\ y.made = u.made
    <3>1. LET y == [u EXCEPT !.code = code, !.tries = tries]
          IN  /\ y \in AWriter
              /\ y.pc = u.pc /\ y.code = code /\ y.tries = tries /\ y.instant = u.instant
              /\ y.answer = u.answer /\ y.read = u.read /\ y.made = u.made
      BY WriterNames DEF AWriter
    <3> QED
      BY <3>1
  <2>2. PICK x \in AWriter :
          /\ x = [y EXCEPT !.pc = "readBack"]
          /\ x.pc = "readBack" /\ x.code = y.code /\ x.tries = y.tries /\ x.instant = y.instant
          /\ x.answer = y.answer /\ x.read = y.read /\ x.made = y.made
    <3>1. LET x == [y EXCEPT !.pc = "readBack"]
          IN  /\ x \in AWriter
              /\ x.pc = "readBack" /\ x.code = y.code /\ x.tries = y.tries /\ x.instant = y.instant
              /\ x.answer = y.answer /\ x.read = y.read /\ x.made = y.made
      BY WriterNames DEF AWriter
    <3> QED
      BY <3>1
  <2>3. SetWriter(w, x)
    BY <1>1, <1>5, <2>1, <2>2
  <2>4. WriterOK(x)
    BY <1>0, <1>1, <2>1, <2>2 DEF WriterOK
  <2> QED
    BY <1>0, <1>5, <2>2, <2>3, <2>4, TurnStep
<1>6. CASE /\ rows[c] = None /\ Committed(w, c)
           /\ SetWriter(w, [[[writer[w] EXCEPT !.code = c, !.tries = @ + 1] EXCEPT !.pc = "readBack"]
                             EXCEPT !.made = @ + 1])
  <2>1. PICK y \in AWriter :
          /\ y = [u EXCEPT !.code = code, !.tries = tries]
          /\ y.pc = u.pc /\ y.code = code /\ y.tries = tries /\ y.instant = u.instant
          /\ y.answer = u.answer /\ y.read = u.read /\ y.made = u.made
    <3>1. LET y == [u EXCEPT !.code = code, !.tries = tries]
          IN  /\ y \in AWriter
              /\ y.pc = u.pc /\ y.code = code /\ y.tries = tries /\ y.instant = u.instant
              /\ y.answer = u.answer /\ y.read = u.read /\ y.made = u.made
      BY WriterNames DEF AWriter
    <3> QED
      BY <3>1
  <2>2. PICK z \in AWriter :
          /\ z = [y EXCEPT !.pc = "readBack"]
          /\ z.pc = "readBack" /\ z.code = y.code /\ z.tries = y.tries /\ z.instant = y.instant
          /\ z.answer = y.answer /\ z.read = y.read /\ z.made = y.made
    <3>1. LET z == [y EXCEPT !.pc = "readBack"]
          IN  /\ z \in AWriter
              /\ z.pc = "readBack" /\ z.code = y.code /\ z.tries = y.tries /\ z.instant = y.instant
              /\ z.answer = y.answer /\ z.read = y.read /\ z.made = y.made
      BY WriterNames DEF AWriter
    <3> QED
      BY <3>1
  <2>3. PICK x \in AWriter :
          /\ x = [z EXCEPT !.made = made]
          /\ x.pc = z.pc /\ x.code = z.code /\ x.tries = z.tries /\ x.instant = z.instant
          /\ x.answer = z.answer /\ x.read = z.read /\ x.made = made
    <3>1. LET x == [z EXCEPT !.made = made]
          IN  /\ x \in AWriter
              /\ x.pc = z.pc /\ x.code = z.code /\ x.tries = z.tries /\ x.instant = z.instant
              /\ x.answer = z.answer /\ x.read = z.read /\ x.made = made
      BY WriterNames DEF AWriter
    <3> QED
      BY <3>1
  <2>4. SetWriter(w, x)
    <3>1. z = [[writer[w] EXCEPT !.code = c, !.tries = @ + 1] EXCEPT !.pc = "readBack"]
      BY <1>1, <2>1, <2>2
    <3>2. SetWriter(w, [z EXCEPT !.made = @ + 1]) /\ z.made + 1 = made
      BY <1>0, <1>1, <1>6, <2>1, <2>2, <3>1
    <3> QED
      BY <2>3, <3>2
  <2>5. WriterOK(x)
    BY <1>0, <1>1, <2>1, <2>2, <2>3 DEF WriterOK
  <2> QED
    BY <1>0, <1>6, <2>2, <2>3, <2>4, <2>5, CommitStep
<1> QED
  <2> DEFINE x == [writer[w] EXCEPT !.code = c, !.tries = @ + 1]
             sent == [x EXCEPT !.pc = "readBack"]
  <2>1. x.made = writer[w].made
    BY <1>0 DEF AWriter
  <2> HIDE DEF x
  <2>2. \/ UNCHANGED rows /\ SetWriter(w, [writer[w] EXCEPT !.tries = @ + 1])
        \/ UNCHANGED rows /\ Answer(w, "error")
        \/ rows[c] = None /\ Committed(w, c)
           /\ SetWriter(w, [NoWriter EXCEPT !.pc = "done", !.answer = "ok", !.made = x.made + 1])
        \/ UNCHANGED rows /\ SetWriter(w, sent)
        \/ rows[c] = None /\ Committed(w, c) /\ SetWriter(w, [sent EXCEPT !.made = @ + 1])
    BY DEF Insert, x
  <2> QED
    BY <1>2, <1>3, <1>4, <1>5, <1>6, <2>1, <2>2 DEF x

LEMMA ReadBackStep ==
  ASSUME TrafficIInv, NEW w \in Writer, ReadBack(w)
  PROVE  TrafficIInv'
<1>0. /\ writer[w] \in AWriter /\ WriterOK(writer[w]) /\ writer[w].pc = "readBack" /\ writer[w].code \in Code
      /\ UNCHANGED <<rows, gone, cache, claims, books, visit>> /\ (Fault \/ NoFault)
  BY Present DEF ReadBack, WriterOK
<1>1. PICK u \in AWriter : u = writer[w]
  BY <1>0
<1>2. CASE SetWriter(w, [u EXCEPT !.pc = "done", !.answer = "error"])
  <2>1. PICK x \in AWriter :
          /\ x = [u EXCEPT !.pc = "done", !.answer = "error"]
          /\ x.pc = "done" /\ x.code = u.code /\ x.tries = u.tries /\ x.instant = u.instant
          /\ x.answer = "error" /\ x.read = u.read /\ x.made = u.made
    <3>1. LET x == [u EXCEPT !.pc = "done", !.answer = "error"]
          IN  /\ x \in AWriter
              /\ x.pc = "done" /\ x.code = u.code /\ x.tries = u.tries /\ x.instant = u.instant
              /\ x.answer = "error" /\ x.read = u.read /\ x.made = u.made
      BY WriterNames DEF AWriter
    <3> QED
      BY <3>1
  <2>2. WriterOK(x)
    BY <1>0, <1>1, <2>1 DEF WriterOK
  <2> QED
    BY <1>0, <1>2, <2>1, <2>2, TurnStep
<1>3. ASSUME NEW answer \in {"ok", "error"}, NEW read \in Link \union {None},
             SetWriter(w, [[u EXCEPT !.pc = "done", !.answer = answer] EXCEPT !.read = read])
      PROVE  TrafficIInv'
  <2>1. PICK y \in AWriter :
          /\ y = [u EXCEPT !.pc = "done", !.answer = answer]
          /\ y.pc = "done" /\ y.code = u.code /\ y.tries = u.tries /\ y.instant = u.instant
          /\ y.answer = answer /\ y.read = u.read /\ y.made = u.made
    <3>1. LET y == [u EXCEPT !.pc = "done", !.answer = answer]
          IN  /\ y \in AWriter
              /\ y.pc = "done" /\ y.code = u.code /\ y.tries = u.tries /\ y.instant = u.instant
              /\ y.answer = answer /\ y.read = u.read /\ y.made = u.made
      BY WriterNames DEF AWriter
    <3> QED
      BY <3>1
  <2>2. PICK x \in AWriter :
          /\ x = [y EXCEPT !.read = read]
          /\ x.pc = y.pc /\ x.code = y.code /\ x.tries = y.tries /\ x.instant = y.instant
          /\ x.answer = y.answer /\ x.read = read /\ x.made = y.made
    <3>1. LET x == [y EXCEPT !.read = read]
          IN  /\ x \in AWriter
              /\ x.pc = y.pc /\ x.code = y.code /\ x.tries = y.tries /\ x.instant = y.instant
              /\ x.answer = y.answer /\ x.read = read /\ x.made = y.made
      BY WriterNames DEF AWriter
    <3> QED
      BY <3>1
  <2>3. WriterOK(x)
    BY <1>0, <1>1, <2>1, <2>2 DEF WriterOK
  <2> QED
    BY <1>0, <1>3, <2>1, <2>2, <2>3, TurnStep
<1>4. PICK read \in Link \union {None} :
        read = IF rows[writer[w].code] = None THEN None ELSE rows[writer[w].code].link
  BY <1>0, Present DEF Typed, ARow
<1>5. \/ SetWriter(w, [u EXCEPT !.pc = "done", !.answer = "error"])
      \/ SetWriter(w, [[u EXCEPT !.pc = "done", !.answer = "ok"] EXCEPT !.read = read])
      \/ SetWriter(w, [[u EXCEPT !.pc = "done", !.answer = "error"] EXCEPT !.read = read])
  BY <1>1, <1>4 DEF ReadBack, AfterReadBack
<1> QED
  BY <1>2, <1>3, <1>5

(* A deleted link has no other row, and is gone from now on.               *)
LEMMA RemoveStep ==
  ASSUME TrafficIInv, NEW w \in Writer, NEW c \in Code, NEW x \in AWriter, SetWriter(w, x), WriterOK(x),
         x.pc \in {"invalidate", "done"}, rows[c] # None,
         rows' = [rows EXCEPT ![c] = None], gone' = [gone EXCEPT ![rows[c].link] = 1],
         UNCHANGED <<cache, claims, books, visit>>,
         Fault \/ NoFault
  PROVE  TrafficIInv'
<1>1. writer'[w] = x /\ \A u \in Writer \ {w} : writer'[u] = writer[u]
  BY Present DEF Typed, SetWriter
<1>2. PICK link \in Link : rows[c].link = link /\ rows[c] \in ARow /\ gone[link] = 0
  BY Present DEF Typed, ARow, RowsOK, RowOK
<1>3. /\ rows' \in [Code -> ARow \union {None}]
      /\ \A d \in Code : rows'[d] = IF d = c THEN None ELSE rows[d]
  BY Present DEF Typed
<1>4. /\ gone' \in [Link -> 0..Longest]
      /\ \A l \in Link : gone'[l] = IF l = link THEN 1 ELSE gone[l]
  <2>1. 1 \in 0..Longest
    BY Times, Constants
  <2> QED
    BY <1>2, <2>1, Present DEF Typed
<1>5. ASSUME NEW d \in Code, d # c, rows[d] # None PROVE rows[d].link # link
  <2>1. rows[d] \in ARow /\ rows[d] # rows[c]
    BY <1>5, Present DEF Typed, RowsOK
  <2> QED
    BY <1>2, <2>1 DEF ARow
<1>6. \A d \in Code : RowOK(d)'
  <2> SUFFICES ASSUME NEW d \in Code, rows'[d] # None PROVE RowOK(d)'
    BY DEF RowOK
  <2>1. d # c /\ rows'[d] = rows[d] /\ rows[d] \in ARow /\ RowOK(d)
    BY <1>3, Present DEF Typed, RowsOK
  <2>2. rows[d].link \in Link /\ rows[d].link # link
    BY <1>3, <1>5, <2>1 DEF ARow
  <2> QED
    BY <1>1, <1>4, <2>1, <2>2 DEF RowOK
<1>7. \A d, e \in Code : rows'[d] # None /\ rows'[d] = rows'[e] => d = e
  BY <1>3, Present DEF RowsOK
<1>8. ASSUME NEW u \in Writer, writer'[u].pc \in {"new", "insert"} PROVE gone'[u] = 0
  <2>1. writer[u].pc \in {"new", "insert"}
    BY <1>1, <1>8
  <2>2. u # link /\ gone[u] = 0 /\ u \in Link
    BY <1>2, <1>8, <2>1, Present, Constants DEF RowsOK, RowOK
  <2> QED
    BY <1>4, <2>2
<1>9. ASSUME NEW k \in Kinds, NEW d \in Code PROVE EntryOK(k, cache[k][d])'
  <2>1. cache[k][d] \in Entry \union {Empty} /\ EntryOK(k, cache[k][d])
    BY Present DEF Typed, CacheOK
  <2>2. CASE cache[k][d] = Empty
    BY <2>2 DEF EntryOK
  <2>3. CASE cache[k][d] \in Entry
    <3>1. PICK entry \in Entry : entry = cache[k][d]
      BY <2>3
    <3>2. entry.left \in 1..CacheTtl /\ entry.link \in Link /\ gone[entry.link] \in 0..Longest
      BY Present DEF Entry, Typed
    <3>3. gone[entry.link] + entry.left <= LastSeen[k] + 1
      BY <2>1, <3>1, Entries DEF EntryOK
    <3>4. LastSeen[k] \in Nat /\ CacheTtl <= LastSeen[k]
      BY Times, Constants DEF Kinds
    <3>5. gone'[entry.link] + entry.left <= LastSeen[k] + 1
      BY <1>4, <3>2, <3>3, <3>4, Constants
    <3> QED
      BY <3>1, <3>5 DEF EntryOK
  <2> QED
    BY <2>1, <2>2, <2>3
<1>10. RowsOK' /\ CacheOK'
  BY <1>6, <1>7, <1>8, <1>9 DEF RowsOK, CacheOK
<1>11. \A l \in Link : gone'[l] = gone[l] \/ (gone[l] = 0 /\ gone'[l] = 1)
  BY <1>2, <1>4
<1> QED
  BY <1>3, <1>4, <1>10, <1>11, Present, WriterStep DEF Typed

LEMMA DeleteStep ==
  ASSUME TrafficIInv, NEW w \in Writer, NEW c \in Code, Delete(w, c)
  PROVE  TrafficIInv'
<1>0. UNCHANGED <<cache, claims, books, visit>> /\ (Fault \/ NoFault)
  BY DEF Delete
<1>1. CASE UNCHANGED <<rows, gone>> /\ Answer(w, None)
  <2>1. PICK answer \in {None, "ok", "error"} : answer = None /\ Answer(w, answer)
    BY <1>1
  <2> QED
    BY <1>0, <1>1, <2>1, AnswerStep
<1>2. CASE /\ rows[c] # None /\ rows' = [rows EXCEPT ![c] = None] /\ gone' = [gone EXCEPT ![rows[c].link] = 1]
           /\ Answer(w, None)
  <2>1. PICK answer \in {None, "ok", "error"} : answer = None /\ Answer(w, answer)
    BY <1>2
  <2>2. PICK x \in AWriter : SetWriter(w, x) /\ WriterOK(x) /\ x.pc = "done"
    BY <2>1, AnswerIs
  <2> QED
    BY <1>0, <1>2, <2>2, RemoveStep
<1>3. CASE /\ rows[c] # None /\ rows' = [rows EXCEPT ![c] = None] /\ gone' = [gone EXCEPT ![rows[c].link] = 1]
           /\ SetWriter(w, [NoWriter EXCEPT !.pc = "invalidate", !.code = c])
  <2>1. PICK u \in AWriter, code \in Code \union {None} : u = NoWriter /\ code = c
    BY NoWriterIs
  <2>2. PICK x \in AWriter :
          /\ x = [u EXCEPT !.pc = "invalidate", !.code = code]
          /\ x.pc = "invalidate" /\ x.code = code /\ x.tries = u.tries /\ x.instant = u.instant
          /\ x.answer = u.answer /\ x.read = u.read /\ x.made = u.made
    <3>1. LET x == [u EXCEPT !.pc = "invalidate", !.code = code]
          IN  /\ x \in AWriter
              /\ x.pc = "invalidate" /\ x.code = code /\ x.tries = u.tries /\ x.instant = u.instant
              /\ x.answer = u.answer /\ x.read = u.read /\ x.made = u.made
      BY WriterNames DEF AWriter
    <3> QED
      BY <3>1
  <2>3. SetWriter(w, x)
    BY <1>3, <2>1, <2>2
  <2>4. WriterOK(x)
    BY <2>1, <2>2, NoWriterIs DEF WriterOK
  <2> QED
    BY <1>0, <1>3, <2>2, <2>3, <2>4, RemoveStep
<1> QED
  BY <1>1, <1>2, <1>3 DEF Delete

LEMMA InvalidateStep ==
  ASSUME TrafficIInv, NEW w \in Writer, Invalidate(w)
  PROVE  TrafficIInv'
<1>0. UNCHANGED <<rows, gone, claims, books, visit>> /\ (Fault \/ NoFault) /\ Answer(w, None)
  BY DEF Invalidate
<1>1. PICK answer \in {None, "ok", "error"} : answer = None /\ Answer(w, answer)
  BY <1>0
<1>2. CASE UNCHANGED cache
  BY <1>0, <1>1, <1>2, AnswerStep
<1>3. CASE cache' = [k \in Kinds |-> [cache[k] EXCEPT ![writer[w].code] = Empty]]
  <2>1. PICK x \in AWriter : SetWriter(w, x) /\ WriterOK(x) /\ x.pc = "done"
    BY <1>1, AnswerIs
  <2>2. \A k \in Kinds, c \in Code : cache'[k][c] = cache[k][c] \/ cache'[k][c] = Empty
    BY <1>3, Present DEF Typed
  <2>3. cache' \in [Kinds -> [Code -> Entry \union {Empty}]]
    BY <1>3, Present DEF Typed
  <2>4. CacheOK'
    BY <1>0, <2>2, Present DEF CacheOK, EntryOK
  <2>5. RowsOK'
    <3>1. writer'[w] = x /\ \A u \in Writer \ {w} : writer'[u] = writer[u]
      BY <2>1, Present DEF Typed, SetWriter
    <3>2. \A c \in Code : RowOK(c)'
      BY <1>0, <2>1, <3>1, Present DEF RowsOK, RowOK
    <3> QED
      BY <1>0, <2>1, <3>1, <3>2, Present DEF RowsOK
  <2> QED
    BY <1>0, <2>1, <2>3, <2>4, <2>5, Present, WriterStep DEF Typed
<1> QED
  BY <1>2, <1>3 DEF Invalidate

-----------------------------------------------------------------------------
(* The passing of time *)

LEMMA OlderIs ==
  ASSUME TrafficIInv, Pass
  PROVE  /\ gone' \in [Link -> 0..Longest]
         /\ \A l \in Link : gone[l] \in 0..Longest /\ gone[l] <= gone'[l] /\ gone'[l] <= gone[l] + 1
         /\ \A l \in Link : gone[l] = 0 => gone'[l] = 0
BY Present, Times DEF Pass, Older, Typed

(* An entry has a step less left for each step its link is longer gone.    *)
LEMMA LapseIs ==
  ASSUME TrafficIInv, Pass, NEW k \in Kinds, NEW c \in Code
  PROVE  cache'[k][c] \in Entry \union {Empty} /\ EntryOK(k, cache[k][c])'
<1>0. cache'[k][c] = Lapse(cache[k][c]) /\ cache[k][c] \in Entry \union {Empty} /\ EntryOK(k, cache[k][c])
  BY Present DEF Pass, Typed, CacheOK
<1>1. CASE cache[k][c] = Empty
  <2>1. cache'[k][c] = Empty
    BY <1>0, <1>1 DEF Lapse, Empty
  <2> QED
    BY <2>1 DEF EntryOK
<1>2. CASE cache[k][c] \in Entry
  <2>1. PICK entry \in Entry : entry = cache[k][c] /\ entry.left \in 1..CacheTtl /\ entry.link \in Link
    BY <1>2 DEF Entry
  <2>2. gone[entry.link] + entry.left <= LastSeen[k] + 1
    BY <1>0, <2>1, Entries DEF EntryOK
  <2>3. CASE entry.left > 1
    <3>1. PICK left \in 1..CacheTtl : left = entry.left - 1
      BY <2>1, <2>3, Constants
    <3>2. PICK later \in Entry : later = [entry EXCEPT !.left = left] /\ later.link = entry.link /\ later.left = left
      <4>1. LET later == [entry EXCEPT !.left = left]
            IN  later \in Entry /\ later.link = entry.link /\ later.left = left
        BY DEF Entry
      <4> QED
        BY <4>1
    <3>3. cache'[k][c] = later
      BY <1>0, <2>1, <2>3, <3>1, <3>2 DEF Lapse
    <3>4. gone'[later.link] + later.left <= LastSeen[k] + 1
      <4>1. gone'[entry.link] <= gone[entry.link] + 1 /\ gone'[entry.link] \in 0..Longest
            /\ gone[entry.link] \in 0..Longest /\ LastSeen[k] \in Nat
        BY <2>1, OlderIs, Times DEF Kinds
      <4>2. gone'[entry.link] + left <= LastSeen[k] + 1
        BY <2>1, <2>2, <3>1, <4>1, Times, Constants
      <4> QED
        BY <3>2, <4>2
    <3> QED
      BY <3>3, <3>4 DEF EntryOK
  <2>4. CASE ~(entry.left > 1)
    <3>1. cache'[k][c] = Empty
      BY <1>0, <2>1, <2>4 DEF Lapse
    <3> QED
      BY <3>1 DEF EntryOK
  <2> QED
    BY <2>3, <2>4
<1> QED
  BY <1>0, <1>1, <1>2

LEMMA KeyLapseIs ==
  ASSUME TrafficIInv, Pass, NEW l \in Link
  PROVE  /\ claims[l] \in Hold /\ claims'[l] \in Hold
         /\ claims[l].left > 1 => claims'[l].owner = claims[l].owner /\ claims'[l].left = claims[l].left - 1
         /\ ~(claims[l].left > 1) => claims'[l].owner = None
<1>0. claims[l] \in Hold
      /\ claims'[l] = IF claims[l].left > 1 THEN [claims[l] EXCEPT !.left = @ - 1] ELSE [owner |-> None, left |-> 0]
  BY Present DEF Pass, Typed
<1>1. CASE claims[l].left > 1
  <2>1. PICK hold \in Hold, left \in 0..ClaimTtl : hold = claims[l] /\ left = hold.left - 1
    BY <1>0, <1>1, Constants DEF Hold
  <2>2. LET later == [hold EXCEPT !.left = left]
        IN  later \in Hold /\ later.owner = hold.owner /\ later.left = left
    BY DEF Hold
  <2> QED
    BY <1>0, <1>1, <2>1, <2>2
<1>2. CASE ~(claims[l].left > 1)
  <2>1. [owner |-> None, left |-> 0] \in Hold
    BY Constants DEF Hold
  <2> QED
    BY <1>0, <1>2, <2>1
<1> QED
  BY <1>1, <1>2

LEMMA WaitIs ==
  ASSUME TrafficIInv, Pass, NEW v \in Visitor
  PROVE  /\ visit'[v] \in AVisit /\ visit'[v].pc = visit[v].pc /\ visit'[v].code = visit[v].code
         /\ visit'[v].link = visit[v].link /\ visit'[v].forgotten = visit[v].forgotten
         /\ visit'[v].outcome = visit[v].outcome /\ visit'[v].took = visit[v].took
         /\ visit'[v].claim = visit[v].claim /\ visit'[v].preview = visit[v].preview
         /\ visit[v].pc \in {"fill", "getPreview", "setPreview", "readClaim"}
              => visit'[v].age = visit[v].age + 1 /\ visit[v].age < Delay
         /\ visit[v].pc # "serve"
<1>0. visit[v] \in AVisit /\ visit[v].pc # "serve" /\ (Holding(v) => visit[v].age < Delay)
      /\ visit'[v] = IF Holding(v) THEN [visit[v] EXCEPT !.age = @ + 1] ELSE visit[v]
  BY Present DEF Pass
<1>1. CASE Holding(v)
  <2>1. PICK u \in AVisit, age \in 0..Delay : u = visit[v] /\ age = u.age + 1
    BY <1>0, <1>1, Constants DEF AVisit
  <2>2. PICK x \in AVisit :
          /\ x = [u EXCEPT !.age = age]
          /\ x.pc = u.pc /\ x.code = u.code /\ x.link = u.link /\ x.age = age
          /\ x.forgotten = u.forgotten /\ x.outcome = u.outcome /\ x.took = u.took /\ x.claim = u.claim
          /\ x.preview = u.preview
    <3>1. LET x == [u EXCEPT !.age = age]
          IN  /\ x \in AVisit
              /\ x.pc = u.pc /\ x.code = u.code /\ x.link = u.link /\ x.age = age
              /\ x.forgotten = u.forgotten /\ x.outcome = u.outcome /\ x.took = u.took
              /\ x.claim = u.claim /\ x.preview = u.preview
      BY VisitNames DEF AVisit
    <3> QED
      BY <3>1
  <2>3. visit'[v] = x
    BY <1>0, <1>1, <2>1, <2>2
  <2> QED
    BY <1>0, <1>1, <2>1, <2>2, <2>3
<1>2. CASE ~Holding(v)
  BY <1>0, <1>2 DEF Holding
<1> QED
  BY <1>1, <1>2

(* A key that a visit took outlasts its readback.                          *)
LEMMA WaitOK ==
  ASSUME TrafficIInv, Pass, NEW v \in Visitor
  PROVE  VisitOK(v, visit[v])'
<1>0. PICK u \in AVisit : u = visit[v] /\ VisitOK(v, u) /\ u.age \in 0..Delay
  BY Present DEF AVisit
<1>1. PICK x \in AVisit :
        /\ x = visit'[v] /\ x.pc = u.pc /\ x.code = u.code /\ x.link = u.link /\ x.forgotten = u.forgotten
        /\ x.outcome = u.outcome /\ x.took = u.took /\ x.claim = u.claim /\ x.preview = u.preview
        /\ u.pc \in {"fill", "getPreview", "setPreview", "readClaim"} => x.age = u.age + 1 /\ u.age < Delay
        /\ u.pc # "serve"
  BY <1>0, WaitIs
<1>2. \A k \in Kinds : \A l \in x.forgotten[k] : gone'[l] > LastSeen[k]
  <2>1. \A k \in Kinds : \A l \in x.forgotten[k] : l \in Link
    BY DEF AVisit
  <2>2. \A k \in Kinds : \A l \in x.forgotten[k] : gone[l] > LastSeen[k]
    BY <1>0, <1>1 DEF VisitOK
  <2>3. \A k \in Kinds : LastSeen[k] \in Nat
    BY Times DEF Kinds
  <2>4. \A l \in Link : gone'[l] \in 0..Longest
    BY OlderIs
  <2> QED
    BY <2>1, <2>2, <2>3, <2>4, OlderIs, Times
<1>3. /\ x.pc = "fill" => gone'[x.link] <= x.age + 1
      /\ x.pc = "getPreview" => gone'[x.link] <= Delay + CacheTtl + x.age
      /\ x.pc = "setPreview" => gone'[x.link] <= 2 * Delay + CacheTtl + x.age
  <2>1. x.pc \in {"fill", "getPreview", "setPreview"} => u.link \in Link
    BY <1>0, <1>1 DEF VisitOK, Linked
  <2>2. /\ x.pc = "fill" => gone[u.link] <= u.age + 1
        /\ x.pc = "getPreview" => gone[u.link] <= Delay + CacheTtl + u.age
        /\ x.pc = "setPreview" => gone[u.link] <= 2 * Delay + CacheTtl + u.age
    BY <1>0, <1>1 DEF VisitOK
  <2>3. u.link \in Link => gone'[u.link] <= gone[u.link] + 1 /\ gone'[u.link] \in 0..Longest
                           /\ gone[u.link] \in 0..Longest
    BY OlderIs
  <2> QED
    BY <1>0, <1>1, <2>1, <2>2, <2>3, Times, Constants
<1>4. x.pc = "readClaim" /\ x.took => claims'[x.link].owner = v /\ claims'[x.link].left + x.age >= ClaimTtl
  <2> SUFFICES ASSUME x.pc = "readClaim", x.took
               PROVE  claims'[x.link].owner = v /\ claims'[x.link].left + x.age >= ClaimTtl
    OBVIOUS
  <2>1. u.link \in Link /\ claims[u.link].owner = v /\ claims[u.link].left + u.age >= ClaimTtl
    BY <1>0, <1>1 DEF VisitOK, Linked
  <2>2. PICK left \in 0..ClaimTtl : left = claims[u.link].left
    BY <2>1, KeyLapseIs DEF Hold
  <2>3. left > 1 /\ left - 1 + (u.age + 1) >= ClaimTtl
    BY <1>0, <1>1, <2>1, <2>2, Constants
  <2> QED
    BY <1>1, <2>1, <2>2, <2>3, KeyLapseIs
<1>5. VisitOK(v, x)'
  BY <1>0, <1>1, <1>2, <1>3, <1>4 DEF VisitOK, Located
<1> QED
  BY <1>1, <1>5

LEMMA PassStep ==
  ASSUME TrafficIInv, Pass
  PROVE  TrafficIInv'
<1>0. UNCHANGED <<rows, books, writer, faults>>
  BY DEF Pass
<1>1. cache' \in [Kinds -> [Code -> Entry \union {Empty}]]
  <2>1. \A k \in Kinds, c \in Code : Lapse(cache[k][c]) \in Entry \union {Empty}
    BY LapseIs DEF Pass
  <2> QED
    BY <2>1 DEF Pass
<1>2. claims' \in [Link -> Hold]
  <2> DEFINE after(l) == IF claims[l].left > 1 THEN [claims[l] EXCEPT !.left = @ - 1] ELSE [owner |-> None, left |-> 0]
  <2>1. claims' = [l \in Link |-> after(l)]
    BY DEF Pass
  <2> HIDE DEF after
  <2>2. \A l \in Link : after(l) \in Hold
    BY <2>1, KeyLapseIs
  <2> QED
    BY <2>1, <2>2
<1>3. visit' \in [Visitor -> AVisit]
  <2> DEFINE after(v) == IF Holding(v) THEN [visit[v] EXCEPT !.age = @ + 1] ELSE visit[v]
  <2>1. visit' = [v \in Visitor |-> after(v)]
    BY DEF Pass
  <2> HIDE DEF after
  <2>2. \A v \in Visitor : after(v) \in AVisit
    BY <2>1, WaitIs
  <2> QED
    BY <2>1, <2>2
<1>4. Typed'
  BY <1>0, <1>1, <1>2, <1>3, OlderIs, Present DEF Typed
<1>5. RowsOK'
  <2>1. \A c \in Code : rows[c] # None => rows[c].link \in Link
    BY Present DEF Typed, ARow
  <2>2. \A c \in Code : RowOK(c)'
    BY <1>0, <2>1, OlderIs, Present DEF RowsOK, RowOK
  <2>3. \A w \in Writer : writer'[w].pc \in {"new", "insert"} => gone'[w] = 0
    BY <1>0, OlderIs, Present, Constants DEF RowsOK
  <2> QED
    BY <1>0, <2>2, <2>3, Present DEF RowsOK
<1>6. CacheOK'
  BY LapseIs DEF CacheOK
<1>7. BooksOK'
  <2>1. \A v \in Visitor : visit'[v].pc = visit[v].pc
    BY WaitIs
  <2>2. Observing' = Observing
    BY <2>1 DEF Observing
  <2> QED
    BY <1>0, <2>1, <2>2, Present DEF BooksOK, BooksExact
<1>8. \A w \in Writer : WriterOK(writer[w])'
  BY <1>0, Present DEF WriterOK
<1>9. \A v \in Visitor : VisitOK(v, visit[v])'
  BY WaitOK
<1>10. ASSUME NEW l \in Link, NEW v \in Visitor PROVE OwnerOK(l, v, visit[v])'
  <2>1. OwnerOK(l, v, visit[v])
    BY Present
  <2>2. claims'[l].owner = v => claims[l].owner = v
    BY KeyLapseIs, Constants
  <2>3. visit'[v].pc = visit[v].pc /\ visit'[v].link = visit[v].link /\ visit'[v].took = visit[v].took
    BY WaitIs
  <2> QED
    BY <2>1, <2>2, <2>3 DEF OwnerOK
<1> QED
  BY <1>4, <1>5, <1>6, <1>7, <1>8, <1>9, <1>10 DEF TrafficIInv

-----------------------------------------------------------------------------
(* The induction *)

LEMMA TrafficStarts == Init => TrafficIInv
<1> SUFFICES ASSUME Init PROVE TrafficIInv
  OBVIOUS
<1>1. PICK c \in Code \union {None} : rows = [d \in Code |-> IF d = c THEN Row(Old) ELSE None]
  BY DEF Init
<1>2. Row(Old) \in ARow /\ Row(Old).link = Old /\ Row(Old) # None
  BY Constants DEF Row, ARow
<1>3. rows \in [Code -> ARow \union {None}]
  BY <1>1, <1>2
<1>4. [owner |-> None, left |-> 0] \in Hold /\ [owner |-> None, left |-> 0].owner = None
  BY Constants DEF Hold
<1>5. books \in Books /\ books.booked["delivered"] = 0 /\ books.observed = 0
  BY DEF Init, Books, Outcomes
<1>6. Typed
  <2>1. 0 \in 0..Longest /\ 0 \in 0..MaxFaults
    BY Times, Constants
  <2> QED
    BY <1>3, <1>4, <1>5, <2>1, NoVisitIs, NoWriterIs DEF Init, Typed
<1>7. RowsOK
  BY <1>1, <1>2, Constants DEF Init, RowsOK, RowOK
<1>8. CacheOK
  BY DEF Init, CacheOK, EntryOK
<1>9. BooksOK
  <2>1. Observing = {}
    BY NoVisitIs DEF Init, Observing
  <2>2. IsFiniteSet({}) /\ Cardinality({}) = 0
    BY FS_EmptySet
  <2> QED
    BY <1>5, <2>1, <2>2 DEF BooksOK, BooksExact
<1>10. \A w \in Writer : WriterOK(writer[w])
  BY NoWriterIs DEF Init, WriterOK
<1>11. \A v \in Visitor : VisitOK(v, visit[v])
  BY NoVisitIs, Constants, Times DEF Init, VisitOK, Located, Linked
<1>12. \A l \in Link, v \in Visitor : OwnerOK(l, v, visit[v])
  BY <1>4, Constants DEF Init, OwnerOK
<1> QED
  BY <1>6, <1>7, <1>8, <1>9, <1>10, <1>11, <1>12 DEF TrafficIInv

LEMMA TrafficStutters == ASSUME TrafficIInv, UNCHANGED vars PROVE TrafficIInv'
BY DEF vars, TrafficIInv, Typed, RowsOK, RowOK, CacheOK, EntryOK, BooksOK, BooksExact, Observing, WriterOK, VisitOK,
       OwnerOK

LEMMA TrafficSteps == TrafficIInv /\ [Next]_vars => TrafficIInv'
<1> SUFFICES ASSUME TrafficIInv, [Next]_vars PROVE TrafficIInv'
  OBVIOUS
<1>1. CASE UNCHANGED vars
  BY <1>1, TrafficStutters
<1>2. CASE Pass
  BY <1>2, PassStep
<1>3. ASSUME NEW v \in Visitor, Visiting(v) PROVE TrafficIInv'
  BY <1>3, ArriveStep, GetLinkStep, FindLinkStep, FillStep, ServeStep, GetPreviewStep, SetPreviewStep,
     ClaimStep, ReadClaimStep, RecordStep, ObserveStep, MarkStep DEF Visiting
<1>4. ASSUME NEW w \in Writer, Writing(w) PROVE TrafficIInv'
  BY <1>4, CreateStep, InsertStep, ReadBackStep, DeleteStep, InvalidateStep DEF Writing
<1> QED
  BY <1>1, <1>2, <1>3, <1>4 DEF Next

LEMMA TrafficInvariant == Spec => []TrafficIInv
BY TrafficStarts, TrafficSteps, PTL DEF Spec

(* Rows, keys and caches are what the code takes them for, no visit is     *)
(* told a claim that is not so, and a request makes one link at most       *)
(* (redis-store.ts:22-46, mysql-store.ts createLink).                       *)
THEOREM TrafficSafe == Spec => []TrafficInv
<1>1. ASSUME TrafficIInv PROVE TrafficInv
  <2>1. TypeOK
    BY <1>1, Present DEF TypeOK, Typed, RowsOK, ARow, Entry, Hold, Books
  <2>2. ClaimIsHonest
    BY <1>1, Present DEF ClaimIsHonest, VisitOK
  <2>3. OneLinkPerCreate
    BY <1>1, Present DEF OneLinkPerCreate, WriterOK
  <2> QED
    BY <2>1, <2>2, <2>3 DEF TrafficInv
<1> QED
  BY <1>1, TrafficInvariant, PTL

(* A bucket without a gap has observed every delivered click that was      *)
(* booked, once no visit is about to observe or to mark                    *)
(* (reporting/observer.ts, RedisDeliveredCountryObserver).                 *)
THEOREM BucketExact == Spec => []UngappedBucketIsExact
<1>1. ASSUME TrafficIInv PROVE UngappedBucketIsExact
  <2> SUFFICES ASSUME ~books.gap, books.unmarked = 0, \A v \in Visitor : visit[v].pc \notin {"observe", "mark"}
               PROVE  books.observed = books.booked["delivered"]
    BY DEF UngappedBucketIsExact
  <2>1. Observing = {} /\ Cardinality({}) = 0
    BY FS_EmptySet DEF Observing
  <2>2. books.booked["delivered"] = books.observed + Cardinality(Observing) /\ books.observed \in Nat
    BY <1>1, Present DEF BooksOK, BooksExact, Typed, Books
  <2> QED
    BY <2>1, <2>2
<1> QED
  BY <1>1, TrafficInvariant, PTL

(* A visit that begins long enough after the deletion is not served the    *)
(* link, nor its preview (links/service.ts deleteOwned).                   *)
THEOREM DeletedIsForgotten == Spec => []DeletedLinkForgotten
<1>1. ASSUME TrafficIInv PROVE DeletedLinkForgotten
  BY <1>1, Present DEF DeletedLinkForgotten, VisitOK
<1> QED
  BY <1>1, TrafficInvariant, PTL

(* What is booked for a visit is what it was served (current-decision.ts,  *)
(* redirect/service.ts:117-145).                                           *)
THEOREM ServedIsBooked == Spec => []BookedAsServed
<1>1. BookedAsServed
  BY DecisionsAreCounted DEF BookedAsServed
<1> QED
  BY <1>1, PTL

(* A browser is decided once per lifetime of its cookie                    *)
(* (current-decision.ts:472-560).                                          *)
THEOREM CookieIsKept == Spec => []DecidedOncePerBrowser
<1>1. DecidedOncePerBrowser
  BY BrowsersAreDecidedOnce DEF DecidedOncePerBrowser
<1> QED
  BY <1>1, PTL

-----------------------------------------------------------------------------
(* Sums over a finite set.  The fold of the community module takes the     *)
(* elements in an order of its own; the sum is the same in any other, and  *)
(* of any set that corresponds to this one.  All this is by induction on   *)
(* the number of elements.                                                 *)

(* Induction on a set of numbers, from the least that is not in it. *)
LEMMA NumbersByInduction ==
  ASSUME NEW good, 0 \in good, \A n \in Nat : n \in good => n + 1 \in good
  PROVE  \A n \in Nat : n \in good
<1> SUFFICES ASSUME Nat \ good # {} PROVE FALSE
  OBVIOUS
<1>1. PICK n \in Nat \ good : \A m \in Nat \ good : ~(<<m, n>> \in OpToRel(<, Nat))
  <2>1. Nat \ good \subseteq Nat
    OBVIOUS
  <2> QED
    BY <2>1, NatLessThanWellFounded, WFMin
<1>2. n # 0 /\ n - 1 \in Nat
  OBVIOUS
<1>3. <<n - 1, n>> \in OpToRel(<, Nat)
  BY <1>2 DEF OpToRel
<1>4. n - 1 \in good
  BY <1>1, <1>2, <1>3
<1> QED
  BY <1>2, <1>4

(* The sum of g over a finite set, and the recursion that defines it. *)
SumOf(g, S) == MapThenSumSet(LAMBDA x : g[x], S)
Pick(s) == CHOOSE x \in s : TRUE
Adding(g, S, h) == [s \in SUBSET S |-> IF s = {} THEN 0 ELSE g[Pick(s)] + h[s \ {Pick(s)}]]

LEMMA SumIs == ASSUME NEW g, NEW S PROVE SumOf(g, S) = (CHOOSE h : h = Adding(g, S, h))[S]
  BY DEF SumOf, Adding, Pick, MapThenSumSet, MapThenFoldSet

LEMMA PickIs == ASSUME NEW s, s # {} PROVE Pick(s) \in s
  BY DEF Pick

Upto(S, n) == {s \in SUBSET S : Cardinality(s) <= n}
AddsUpto(g, S, n, h) ==
  h \in [Upto(S, n) -> Nat] /\ \A s \in Upto(S, n) : h[s] = IF s = {} THEN 0 ELSE g[Pick(s)] + h[s \ {Pick(s)}]

LEMMA Smaller ==
  ASSUME NEW S, IsFiniteSet(S), NEW s \in SUBSET S
  PROVE  /\ Cardinality(s) \in Nat /\ IsFiniteSet(s) /\ (Cardinality(s) = 0 <=> s = {})
         /\ \A x \in s : s \ {x} \in SUBSET S /\ Cardinality(s \ {x}) = Cardinality(s) - 1
<1>1. IsFiniteSet(s) /\ Cardinality(s) \in Nat
  BY FS_Subset, FS_CardinalityType
<1> QED
  BY <1>1, FS_EmptySet, FS_RemoveElement

LEMMA SumsExist ==
  ASSUME NEW S, IsFiniteSet(S), NEW g \in [S -> Nat]
  PROVE  \E h \in [SUBSET S -> Nat] : h = Adding(g, S, h)
<1> DEFINE good == {n \in Nat : \E h : AddsUpto(g, S, n, h)}
<1>1. 0 \in good
  <2> DEFINE h == [s \in Upto(S, 0) |-> 0]
  <2>1. \A s \in Upto(S, 0) : s = {}
    BY Smaller DEF Upto
  <2>2. AddsUpto(g, S, 0, h)
    BY <2>1 DEF AddsUpto
  <2> QED
    BY <2>2
<1>2. ASSUME NEW n \in Nat, n \in good PROVE n + 1 \in good
  <2>1. PICK h : AddsUpto(g, S, n, h)
    BY <1>2
  <2> DEFINE k == [s \in Upto(S, n + 1) |-> IF s = {} THEN 0 ELSE g[Pick(s)] + h[s \ {Pick(s)}]]
  <2>2. ASSUME NEW s \in Upto(S, n + 1), s # {}
        PROVE  Pick(s) \in S /\ s \ {Pick(s)} \in Upto(S, n) /\ s \ {Pick(s)} \in Upto(S, n + 1)
    BY <2>2, Smaller, PickIs DEF Upto
  <2>3. k \in [Upto(S, n + 1) -> Nat]
    BY <2>1, <2>2 DEF AddsUpto
  <2>4. ASSUME NEW s \in Upto(S, n) PROVE s \in Upto(S, n + 1) /\ k[s] = h[s]
    <3>1. s \in Upto(S, n + 1)
      BY Smaller DEF Upto
    <3> QED
      BY <2>1, <3>1 DEF AddsUpto
  <2>5. ASSUME NEW s \in Upto(S, n + 1) PROVE k[s] = IF s = {} THEN 0 ELSE g[Pick(s)] + k[s \ {Pick(s)}]
    <3>1. CASE s = {}
      BY <3>1
    <3>2. CASE s # {}
      <4>1. k[s] = g[Pick(s)] + h[s \ {Pick(s)}]
        BY <3>2
      <4>2. h[s \ {Pick(s)}] = k[s \ {Pick(s)}]
        BY <2>2, <2>4, <3>2
      <4> HIDE DEF k
      <4> QED
        BY <3>2, <4>1, <4>2
    <3> QED
      BY <3>1, <3>2
  <2> HIDE DEF k
  <2>6. AddsUpto(g, S, n + 1, k)
    BY <2>3, <2>5 DEF AddsUpto
  <2> QED
    BY <2>6
<1>3. Cardinality(S) \in good
  <2> HIDE DEF good
  <2> QED
    BY <1>1, <1>2, NumbersByInduction, FS_CardinalityType
<1>4. PICK h : AddsUpto(g, S, Cardinality(S), h)
  BY <1>3
<1>5. Upto(S, Cardinality(S)) = SUBSET S
  BY FS_Subset DEF Upto
<1>6. h = Adding(g, S, h)
  BY <1>4, <1>5 DEF AddsUpto, Adding
<1> QED
  BY <1>4, <1>5, <1>6 DEF AddsUpto

Sums(g, S) == CHOOSE h : h = Adding(g, S, h)

LEMMA SumsAre ==
  ASSUME NEW S, IsFiniteSet(S), NEW g \in [S -> Nat]
  PROVE  /\ SumOf(g, S) = Sums(g, S)[S]
         /\ Sums(g, S)[{}] = 0
         /\ \A s \in SUBSET S : s # {} => Sums(g, S)[s] = g[Pick(s)] + Sums(g, S)[s \ {Pick(s)}]
<1>1. Sums(g, S) = Adding(g, S, Sums(g, S))
  BY SumsExist DEF Sums
<1>2. SumOf(g, S) = Sums(g, S)[S]
  BY SumIs DEF Sums
<1> HIDE DEF Sums
<1> QED
  BY <1>1, <1>2 DEF Adding

(* What is needed of them below. *)
AreSums(g, S, h) ==
  /\ g \in [S -> Nat] /\ h[{}] = 0
  /\ \A s \in SUBSET S : s # {} => h[s] = g[Pick(s)] + h[s \ {Pick(s)}] /\ Pick(s) \in s
  /\ \A s \in SUBSET S : /\ Cardinality(s) \in Nat /\ (Cardinality(s) = 0 <=> s = {})
                         /\ \A x \in s : s \ {x} \in SUBSET S /\ Cardinality(s \ {x}) = Cardinality(s) - 1

LEMMA SumsOf == ASSUME NEW S, IsFiniteSet(S), NEW g \in [S -> Nat] PROVE AreSums(g, S, Sums(g, S))
<1>1. \A s \in SUBSET S : /\ Cardinality(s) \in Nat /\ (Cardinality(s) = 0 <=> s = {})
                         /\ \A x \in s : s \ {x} \in SUBSET S /\ Cardinality(s \ {x}) = Cardinality(s) - 1
  BY Smaller
<1>2. \A s \in SUBSET S : s # {} => Pick(s) \in s
  BY PickIs
<1> DEFINE h == Sums(g, S)
<1>3. h[{}] = 0 /\ \A s \in SUBSET S : s # {} => h[s] = g[Pick(s)] + h[s \ {Pick(s)}]
  BY SumsAre
<1> HIDE DEF h
<1>4. AreSums(g, S, h)
  BY <1>1, <1>2, <1>3 DEF AreSums
<1> QED
  BY <1>4 DEF h

LEMMA SumsAreNumbers ==
  ASSUME NEW S, NEW g, NEW h, AreSums(g, S, h)
  PROVE  \A s \in SUBSET S : h[s] \in Nat
<1> DEFINE good == {n \in Nat : \A s \in SUBSET S : Cardinality(s) = n => h[s] \in Nat}
<1>0. g \in [S -> Nat]
  BY DEF AreSums
<1>1. 0 \in good
  <2>1. \A s \in SUBSET S : Cardinality(s) = 0 => h[s] = 0
    BY DEF AreSums
  <2> QED
    BY <2>1
<1>2. ASSUME NEW n \in Nat, n \in good PROVE n + 1 \in good
  <2> SUFFICES ASSUME NEW s \in SUBSET S, Cardinality(s) = n + 1 PROVE h[s] \in Nat
    OBVIOUS
  <2>1. s # {} /\ Pick(s) \in s /\ Pick(s) \in S /\ h[s] = g[Pick(s)] + h[s \ {Pick(s)}]
    BY DEF AreSums
  <2>2. s \ {Pick(s)} \in SUBSET S /\ Cardinality(s \ {Pick(s)}) = n
    BY <2>1 DEF AreSums
  <2>3. h[s \ {Pick(s)}] \in Nat
    BY <1>2, <2>2
  <2> QED
    BY <1>0, <2>1, <2>3
<1>3. \A n \in Nat : n \in good
  <2> HIDE DEF good
  <2> QED
    BY <1>1, <1>2, NumbersByInduction
<1> QED
  BY <1>3 DEF AreSums

(* Whichever summand is taken out first, the sum is the same. *)
LEMMA AnySummand ==
  ASSUME NEW S, NEW g, NEW h, AreSums(g, S, h)
  PROVE  \A s \in SUBSET S : \A x \in s : h[s] = g[x] + h[s \ {x}]
<1> DEFINE good == {n \in Nat : \A s \in SUBSET S : Cardinality(s) = n => \A x \in s : h[s] = g[x] + h[s \ {x}]}
<1>0. g \in [S -> Nat]
  BY DEF AreSums
<1>1. 0 \in good
  BY DEF AreSums
<1>2. ASSUME NEW n \in Nat, n \in good PROVE n + 1 \in good
  <2> SUFFICES ASSUME NEW s \in SUBSET S, Cardinality(s) = n + 1, NEW x \in s PROVE h[s] = g[x] + h[s \ {x}]
    OBVIOUS
  <2> DEFINE p == Pick(s)
  <2>1. p \in s /\ h[s] = g[p] + h[s \ {p}]
    BY DEF AreSums
  <2> HIDE DEF p
  <2>2. /\ s \ {p} \in SUBSET S /\ Cardinality(s \ {p}) = n
        /\ s \ {x} \in SUBSET S /\ Cardinality(s \ {x}) = n
    BY <2>1 DEF AreSums
  <2>3. CASE x # p
    <3>1. h[s \ {p}] = g[x] + h[(s \ {p}) \ {x}]
      BY <1>2, <2>2, <2>3
    <3>2. h[s \ {x}] = g[p] + h[(s \ {x}) \ {p}]
      BY <1>2, <2>1, <2>2, <2>3
    <3>3. (s \ {p}) \ {x} = (s \ {x}) \ {p} /\ (s \ {x}) \ {p} \in SUBSET S
      OBVIOUS
    <3>4. g[x] \in Nat /\ g[p] \in Nat /\ h[(s \ {x}) \ {p}] \in Nat
      BY <1>0, <2>1, <3>3, SumsAreNumbers
    <3>5. h[s] = g[p] + (g[x] + h[(s \ {x}) \ {p}]) /\ h[s \ {x}] = g[p] + h[(s \ {x}) \ {p}]
      BY <2>1, <3>1, <3>2, <3>3
    <3> QED
      BY <3>4, <3>5
  <2> QED
    BY <2>1, <2>3
<1>3. \A n \in Nat : n \in good
  <2> HIDE DEF good
  <2> QED
    BY <1>1, <1>2, NumbersByInduction
<1>4. \A s \in SUBSET S : Cardinality(s) \in Nat
  BY DEF AreSums
<1> QED
  BY <1>3, <1>4

(* Sets that correspond one to one have one sum.                           *)
Corresponds(g, S, e, T, m) ==
  /\ IsFiniteSet(S) /\ g \in [S -> Nat] /\ IsFiniteSet(T) /\ e \in [T -> Nat]
  /\ m \in [S -> T] /\ (\A x, y \in S : m[x] = m[y] => x = y) /\ (\A y \in T : \E x \in S : m[x] = y)
  /\ \A x \in S : g[x] = e[m[x]]

LEMMA SameSum == ASSUME NEW g, NEW S, NEW e, NEW T, NEW m, Corresponds(g, S, e, T, m) PROVE SumOf(g, S) = SumOf(e, T)
<1> USE DEF Corresponds
<1> DEFINE Image(s) == {m[x] : x \in s}
           h == Sums(g, S)
           k == Sums(e, T)
           good == {n \in Nat : \A s \in SUBSET S : Cardinality(s) = n => h[s] = k[Image(s)]}
<1>0. SumOf(g, S) = h[S] /\ SumOf(e, T) = k[T] /\ AreSums(g, S, h) /\ AreSums(e, T, k)
  BY SumsOf, SumsAre
<1> HIDE DEF h, k
<1>1. 0 \in good
  <2>1. Image({}) = {}
    OBVIOUS
  <2> HIDE DEF Image
  <2> QED
    BY <1>0, <2>1 DEF AreSums
<1>2. ASSUME NEW n \in Nat, n \in good PROVE n + 1 \in good
  <2> SUFFICES ASSUME NEW s \in SUBSET S, Cardinality(s) = n + 1 PROVE h[s] = k[Image(s)]
    OBVIOUS
  <2> DEFINE p == Pick(s)
  <2>1. p \in s /\ h[s] = g[p] + h[s \ {p}]
    BY <1>0 DEF AreSums
  <2> HIDE DEF p
  <2>2. s \ {p} \in SUBSET S /\ Cardinality(s \ {p}) = n
    BY <1>0, <2>1 DEF AreSums
  <2>3. h[s \ {p}] = k[Image(s \ {p})]
    BY <1>2, <2>2
  <2>4. Image(s) \in SUBSET T /\ m[p] \in Image(s) /\ Image(s) \ {m[p]} = Image(s \ {p})
    BY <2>1
  <2> HIDE DEF Image
  <2>5. k[Image(s)] = e[m[p]] + k[Image(s) \ {m[p]}]
    <3>1. ASSUME NEW q \in SUBSET T, NEW y \in q
          PROVE  k[q] = e[y] + k[q \ {y}]
      BY <1>0, AnySummand
    <3> QED
      BY <2>4, <3>1
  <2>6. g[p] = e[m[p]]
    BY <2>1
  <2> QED
    BY <2>1, <2>3, <2>4, <2>5, <2>6
<1>3. Cardinality(S) \in good
  <2> HIDE DEF good
  <2> QED
    BY <1>1, <1>2, NumbersByInduction, FS_CardinalityType
<1>4. Image(S) = T
  OBVIOUS
<1> HIDE DEF Image
<1> QED
  BY <1>0, <1>3, <1>4

-----------------------------------------------------------------------------
(* The report judges a window by the sum over its states, reconciliation   *)
(* by the sum over the countries of a snapshot, and the rows of the        *)
(* history lie between: one for each country, with its count.              *)

(* The rows of a bucket that a snapshot was published in: one of its       *)
(* state, and one for each country with its count.                         *)
Published(s, states, history) ==
  /\ \E row \in states : MatchesState(s, row) /\ \A r \in states : r.bucket = s.bucket => r = row
  /\ \A r \in Delivered(history, s.bucket) : r.country \in DOMAIN s.countries /\ r.delivered = s.countries[r.country]
  /\ \A r, t \in Delivered(history, s.bucket) : r.country = t.country => r = t
  /\ \A c \in DOMAIN s.countries : \E r \in Delivered(history, s.bucket) : r.country = c

LEMMA PositiveIs == ASSUME NEW n, Positive(n) PROVE n \in Nat /\ n >= 1 /\ ~Overflows(n)
  BY CountryConstants DEF Positive, Overflows

(* The sums of the module are sums of functions.                           *)
LEMMA DeliveredSum ==
  ASSUME NEW S
  PROVE  MapThenSumSet(LAMBDA r : r.delivered, S) = SumOf([r \in S |-> r.delivered], S)
<1> DEFINE g == [r \in S |-> r.delivered]
           G(h) == [s \in SUBSET S |-> IF s = {} THEN 0 ELSE (CHOOSE x \in s : TRUE).delivered + h[s \ {CHOOSE x \in s : TRUE}]]
           F(h) == Adding(g, S, h)
<1>1. \A h : F(h) = G(h)
  <2>1. \A s \in SUBSET S : s # {} => (CHOOSE x \in s : TRUE) \in S
    OBVIOUS
  <2>2. \A x \in S : g[x] = x.delivered
    OBVIOUS
  <2> HIDE DEF g
  <2> QED
    BY <2>1, <2>2 DEF Adding, Pick
<1>2. (CHOOSE h : h = F(h)) = (CHOOSE h : h = G(h))
  <2> HIDE DEF F, G
  <2> QED
    BY <1>1
<1>3. SumOf(g, S) = (CHOOSE h : h = F(h))[S]
  <2> HIDE DEF g
  <2> QED
    BY SumIs
<1>4. MapThenSumSet(LAMBDA r : r.delivered, S) = (CHOOSE h : h = G(h))[S]
  BY DEF MapThenSumSet, MapThenFoldSet
<1> HIDE DEF F, G
<1> QED
  BY <1>2, <1>3, <1>4

LEMMA DeliveredIsObserved ==
  ASSUME NEW s \in Snapshots \ {Null}, NormalSnapshot(s), NEW states, NEW history,
         Published(s, states, history)
  PROVE  DeliveredTotal(history, s.bucket) = s.observed
<1> DEFINE S == Delivered(history, s.bucket)
           T == DOMAIN s.countries
           g == [r \in S |-> r.delivered]
           m == [r \in S |-> r.country]
           e == s.countries
<1>1. \A r \in S : r.country \in T /\ r.delivered = e[r.country]
  BY DEF Published
<1>2. \A r, t \in S : r.country = t.country => r = t
  BY DEF Published
<1>3. \A c \in T : \E r \in S : r.country = c
  BY DEF Published
<1>4. \A c \in T : e[c] \in Nat
  BY PositiveIs DEF NormalSnapshot
<1>5. IsFiniteSet(T) /\ e = [c \in T |-> e[c]]
  BY FS_Subset, CountryConstants DEF NormalSnapshot
<1> HIDE DEF S, T, e
<1>6. e \in [T -> Nat] /\ g \in [S -> Nat] /\ m \in [S -> T]
  BY <1>1, <1>4, <1>5
<1>7. IsFiniteSet(S)
  <2>1. m \in Injection(S, T)
    BY <1>2, <1>6 DEF Injection, IsInjective
  <2> QED
    BY <1>5, <2>1, FS_Injection
<1>8. /\ \A x, y \in S : m[x] = m[y] => x = y
      /\ \A y \in T : \E x \in S : m[x] = y
      /\ \A x \in S : g[x] = e[m[x]]
  BY <1>1, <1>2, <1>3
<1>9. SumOf(g, S) = SumOf(e, T)
  <2> HIDE DEF g, m
  <2>1. Corresponds(g, S, e, T, m)
    BY <1>5, <1>6, <1>7, <1>8 DEF Corresponds
  <2> QED
    BY <2>1, SameSum
<1>10. DeliveredTotal(history, s.bucket) = SumOf(g, S)
  <2>1. DeliveredTotal(history, s.bucket) = MapThenSumSet(LAMBDA r : r.delivered, S)
    BY DEF DeliveredTotal, S
  <2> QED
    BY <2>1, DeliveredSum
<1>11. s.observed = SumOf(e, T)
  BY DEF NormalSnapshot, SnapshotTotal, SumOf, e, T
<1> QED
  BY <1>9, <1>10, <1>11

LEMMA NoProblem ==
  ASSUME NEW s \in Snapshots \ {Null}, NormalSnapshot(s), NEW states, NEW history,
         Published(s, states, history)
  PROVE  Problem(s.bucket, states, history) = Null /\ State(states, s.bucket).total = s.observed
<1>1. PICK row \in states : MatchesState(s, row) /\ \A r \in states : r.bucket = s.bucket => r = row
  BY DEF Published
<1>2. State(states, s.bucket) = row /\ row.bucket = s.bucket
  BY <1>1 DEF State, MatchesState
<1> DEFINE n == DeliveredTotal(history, s.bucket)
           delivered == Delivered(history, s.bucket)
<1>3. n = row.total /\ row.total = s.observed
  BY <1>1, DeliveredIsObserved DEF MatchesState
<1>4. Positive(row.total) /\ ~Overflows(n)
  BY <1>3, PositiveIs DEF NormalSnapshot
<1>5. delivered # {} /\ \A r \in delivered : Positive(r.delivered)
  BY DEF NormalSnapshot, Published
<1>6. row.status = "complete" /\ row.provenance = "redis_nonempty" /\ row.source # Null /\ row.run # Null
  BY <1>1 DEF MatchesState, NormalSnapshot
<1>7. \E r \in states : r.bucket = s.bucket
  BY <1>1, <1>2
<1> HIDE DEF n, delivered
<1> DEFINE holds == [state_incomplete   |-> row.status # "complete",
                     state_not_positive |-> ~Positive(row.total),
                     invalid_provenance |-> row.provenance # "redis_nonempty",
                     invalid_source     |-> row.source = Null \/ row.run = Null,
                     invalid_history    |-> Overflows(n) \/ \E r \in delivered : ~Positive(r.delivered),
                     missing_history    |-> delivered = {},
                     history_mismatch   |-> n # row.total]
           order == <<"state_incomplete", "state_not_positive", "invalid_provenance", "invalid_source",
                      "invalid_history", "missing_history", "history_mismatch">>
           found == {i \in DOMAIN order : holds[order[i]]}
<1>8. found = {}
  <2>1. /\ ~holds.state_incomplete /\ ~holds.state_not_positive /\ ~holds.invalid_provenance /\ ~holds.invalid_source
        /\ ~holds.invalid_history /\ ~holds.missing_history /\ ~holds.history_mismatch
    BY <1>3, <1>4, <1>5, <1>6
  <2>2. \A i \in DOMAIN order : order[i] \in {"state_incomplete", "state_not_positive", "invalid_provenance", "invalid_source",
                      "invalid_history", "missing_history", "history_mismatch"}
    OBVIOUS
  <2> HIDE DEF holds, order
  <2> QED
    BY <2>1, <2>2
<1>9. Problem(s.bucket, states, history) = IF found = {} THEN Null ELSE order[Min(found)]
  BY <1>2, <1>7 DEF Problem, n, delivered
<1> QED
  BY <1>2, <1>3, <1>8, <1>9

(* Sums of one and of two.                                                  *)
LEMMA Summand ==
  ASSUME NEW W, IsFiniteSet(W), NEW g \in [W -> Nat], NEW s \in SUBSET W, NEW x \in s
  PROVE  Sums(g, W)[s] = g[x] + Sums(g, W)[s \ {x}]
<1> DEFINE h == Sums(g, W)
<1>1. AreSums(g, W, h)
  BY SumsOf
<1> HIDE DEF h
<1>2. h[s] = g[x] + h[s \ {x}]
  BY <1>1, AnySummand
<1> QED
  BY <1>2 DEF h

LEMMA SumOfOne == ASSUME NEW a, NEW g \in [{a} -> Nat] PROVE SumOf(g, {a}) = g[a]
<1> DEFINE W == {a}
           h == Sums(g, W)
<1>1. IsFiniteSet(W)
  BY FS_Singleton
<1>2. W \in SUBSET W /\ a \in W /\ W \ {a} = {} /\ g \in [W -> Nat] /\ g[a] \in Nat
  OBVIOUS
<1> HIDE DEF W
<1>3. Sums(g, W)[W] = g[a] + Sums(g, W)[W \ {a}]
  BY <1>1, <1>2, Summand
<1>4. SumOf(g, W) = h[W] /\ h[{}] = 0
  BY <1>1, <1>2, SumsAre
<1>5. h[W] = g[a] + h[{}]
  BY <1>2, <1>3
<1> HIDE DEF h
<1>6. SumOf(g, W) = g[a]
  BY <1>2, <1>4, <1>5
<1> QED
  BY <1>6 DEF W

LEMMA SumOfTwo == ASSUME NEW a, NEW b, a # b, NEW g \in [{a, b} -> Nat] PROVE SumOf(g, {a, b}) = g[a] + g[b]
<1> DEFINE W == {a, b}
           h == Sums(g, W)
<1>1. IsFiniteSet(W)
  <2>1. {a, b} = {a} \union {b} /\ IsFiniteSet({a})
    BY FS_Singleton
  <2>2. IsFiniteSet({a} \union {b})
    BY <2>1, FS_AddElement
  <2> QED
    BY <2>1, <2>2
<1>2. /\ W \in SUBSET W /\ {b} \in SUBSET W /\ a \in W /\ b \in {b} /\ W \ {a} = {b} /\ {b} \ {b} = {}
      /\ g \in [W -> Nat] /\ g[a] \in Nat /\ g[b] \in Nat
  OBVIOUS
<1> HIDE DEF W
<1>3. Sums(g, W)[W] = g[a] + Sums(g, W)[W \ {a}]
  BY <1>1, <1>2, Summand
<1>4. Sums(g, W)[{b}] = g[b] + Sums(g, W)[{b} \ {b}]
  BY <1>1, <1>2, Summand
<1>5. SumOf(g, W) = h[W] /\ h[{}] = 0
  BY <1>1, <1>2, SumsAre
<1>6. h[W] = g[a] + h[{b}] /\ h[{b}] = g[b] + h[{}]
  BY <1>2, <1>3, <1>4
<1> HIDE DEF h
<1>7. SumOf(g, W) = g[a] + g[b]
  BY <1>2, <1>5, <1>6
<1> QED
  BY <1>7 DEF W

StatesTotal(states, W) == MapThenSumSet(LAMBDA b : State(states, b).total, W)

LEMMA StatesSum ==
  ASSUME NEW states, NEW W
  PROVE  StatesTotal(states, W) = SumOf([b \in W |-> State(states, b).total], W)
<1> DEFINE g == [b \in W |-> State(states, b).total]
           G(h) == [s \in SUBSET W |-> IF s = {} THEN 0
                                       ELSE State(states, CHOOSE x \in s : TRUE).total + h[s \ {CHOOSE x \in s : TRUE}]]
           F(h) == Adding(g, W, h)
<1>1. \A h : F(h) = G(h)
  <2>1. \A s \in SUBSET W : s # {} => (CHOOSE x \in s : TRUE) \in W
    OBVIOUS
  <2>2. \A x \in W : g[x] = State(states, x).total
    OBVIOUS
  <2> HIDE DEF g
  <2> QED
    BY <2>1, <2>2 DEF Adding, Pick
<1>2. (CHOOSE h : h = F(h)) = (CHOOSE h : h = G(h))
  <2> HIDE DEF F, G
  <2> QED
    BY <1>1
<1>3. SumOf(g, W) = (CHOOSE h : h = F(h))[W]
  <2> HIDE DEF g
  <2> QED
    BY SumIs
<1>4. StatesTotal(states, W) = (CHOOSE h : h = G(h))[W]
  BY DEF StatesTotal, MapThenSumSet, MapThenFoldSet
<1> HIDE DEF F, G
<1> QED
  BY <1>2, <1>3, <1>4

(* A window of buckets without a problem is complete unless its sum passes  *)
(* the largest counter.                                                     *)
LEMMA RangeIs ==
  ASSUME NEW W, W # {}, NEW states, NEW history, ~InvalidRows(W, states, history),
         \A b \in W : Problem(b, states, history) = Null,
         NEW last \in W, \A b \in W : b # last => b < last /\ ~(last < b),
         ~(last < last),
         \A b \in W : b # last => ~Overflows(StatesTotal(states, {d \in W : d < b} \union {b}))
  PROVE  /\ Overflows(StatesTotal(states, W)) => EvaluateRange(W, states, history).total = Null
         /\ ~Overflows(StatesTotal(states, W)) =>
              /\ EvaluateRange(W, states, history).complete
              /\ EvaluateRange(W, states, history).total = StatesTotal(states, W)
<1> DEFINE before(b) == {d \in W : d < b}
           sum(B) == MapThenSumSet(LAMBDA b : State(states, b).total, B)
           stops == {b \in W : \/ \E d \in before(b) \union {b} : Problem(d, states, history) # Null
                               \/ Overflows(sum(before(b) \union {b}))}
           first == Min(stops)
           reason == IF Problem(first, states, history) = Null THEN "state_not_positive"
                     ELSE Problem(first, states, history)
<1>1. EvaluateRange(W, states, history) =
        IF stops = {} THEN [complete |-> TRUE, done |-> Cardinality(W), total |-> sum(W), reason |-> Null]
        ELSE Incomplete(Cardinality(before(first)), reason)
  BY DEF EvaluateRange
<1>2. \A B : sum(B) = StatesTotal(states, B)
  BY DEF StatesTotal
<1>3. before(last) \union {last} = W
  OBVIOUS
<1> HIDE DEF sum
<1>4. stops = {} <=> ~Overflows(StatesTotal(states, W))
  BY <1>2, <1>3
<1>5. Incomplete(Cardinality(before(first)), reason).total = Null
  BY DEF Incomplete
<1> HIDE DEF stops, reason, first
<1> QED
  BY <1>1, <1>2, <1>4, <1>5

LEMMA OneBucketIsComplete ==
  ASSUME NEW s \in Snapshots \ {Null}, NormalSnapshot(s), NEW states, NEW history,
         Published(s, states, history), ~InvalidRows({s.bucket}, states, history)
  PROVE  /\ EvaluateRange({s.bucket}, states, history).complete
         /\ EvaluateRange({s.bucket}, states, history).total = s.observed
<1> DEFINE b == s.bucket
           g == [c \in {b} |-> State(states, c).total]
<1>1. Problem(b, states, history) = Null /\ State(states, b).total = s.observed /\ s.observed \in Nat /\ b \in Int
      /\ ~Overflows(s.observed)
  BY NoProblem, PositiveIs, CountryConstants DEF NormalSnapshot
<1>2. g \in [{b} -> Nat] /\ g[b] = s.observed
  BY <1>1
<1>3. StatesTotal(states, {b}) = s.observed
  <2>1. StatesTotal(states, {b}) = SumOf(g, {b})
    BY StatesSum
  <2> HIDE DEF g
  <2> QED
    BY <1>2, <2>1, SumOfOne
<1> HIDE DEF b
<1> QED
  BY <1>1, <1>3, RangeIs DEF b

LEMMA TwoBucketsAreComplete ==
  ASSUME NEW s \in Snapshots \ {Null}, NEW t \in Snapshots \ {Null},
         NormalSnapshot(s), NormalSnapshot(t), NEW states, NEW history,
         Published(s, states, history), Published(t, states, history), s.bucket < t.bucket,
         ~InvalidRows({s.bucket, t.bucket}, states, history)
  PROVE  EvaluateRange({s.bucket, t.bucket}, states, history).total =
           IF Overflows(s.observed + t.observed) THEN Null ELSE s.observed + t.observed
<1> DEFINE a == s.bucket
           b == t.bucket
           W == {a, b}
           g == [c \in W |-> State(states, c).total]
           f == [c \in {a} |-> State(states, c).total]
<1>1. /\ Problem(a, states, history) = Null /\ State(states, a).total = s.observed /\ s.observed \in Nat /\ a \in Int
      /\ Problem(b, states, history) = Null /\ State(states, b).total = t.observed /\ t.observed \in Nat /\ b \in Int
      /\ ~Overflows(s.observed) /\ a < b
  <2>1. Problem(a, states, history) = Null /\ State(states, a).total = s.observed
    BY NoProblem
  <2>2. Problem(b, states, history) = Null /\ State(states, b).total = t.observed
    BY NoProblem
  <2>3. s.observed \in Nat /\ t.observed \in Nat /\ ~Overflows(s.observed)
    BY PositiveIs DEF NormalSnapshot
  <2> QED
    BY <2>1, <2>2, <2>3, CountryConstants
<1>2. /\ g \in [W -> Nat] /\ g[a] = s.observed /\ g[b] = t.observed
      /\ f \in [{a} -> Nat] /\ f[a] = s.observed
  BY <1>1
<1>3. StatesTotal(states, W) = s.observed + t.observed /\ StatesTotal(states, {a}) = s.observed
  <2>1. StatesTotal(states, W) = SumOf(g, W) /\ StatesTotal(states, {a}) = SumOf(f, {a})
    BY StatesSum
  <2>2. a # b
    BY <1>1
  <2> HIDE DEF g, f, a, b
  <2>3. SumOf(g, {a, b}) = g[a] + g[b]
    <3>1. g \in [{a, b} -> Nat]
      BY <1>2
    <3> QED
      BY <2>2, <3>1, SumOfTwo
  <2>4. SumOf(f, {a}) = f[a]
    BY <1>2, SumOfOne
  <2> QED
    BY <1>2, <2>1, <2>3, <2>4
<1>4. {d \in W : d < a} \union {a} = {a}
  BY <1>1
<1>5. ~InvalidRows(W, states, history)
  OBVIOUS
<1> HIDE DEF a, b
<1>6. b \in W /\ \A c \in W : c # b => c < b /\ ~(b < c) /\ ~Overflows(StatesTotal(states, {d \in W : d < c} \union {c}))
  BY <1>1, <1>3, <1>4
<1>7. ~(b < b) /\ \A c \in W : Problem(c, states, history) = Null
  BY <1>1
<1> HIDE DEF W
<1>8. /\ Overflows(StatesTotal(states, W)) => EvaluateRange(W, states, history).total = Null
      /\ ~Overflows(StatesTotal(states, W)) => EvaluateRange(W, states, history).total = StatesTotal(states, W)
  BY <1>5, <1>6, <1>7, RangeIs
<1> QED
  BY <1>3, <1>8 DEF W, a, b

LEMMA UnchangedIsComplete ==
  ASSUME NEW s \in Snapshots, NEW row, NEW history, Reconcile(s, row, history) = "unchanged"
  PROVE  /\ EvaluateRange({s.bucket}, {row}, history).complete
         /\ EvaluateRange({s.bucket}, {row}, history).total = s.observed
<1> DEFINE counted == {r \in history : r.delivered # Null}
           wellFormed == /\ \A r \in history : r.mine /\ r.bucket = s.bucket /\ r.country \in Countries
                         /\ \A r, t \in history : r.country = t.country => r = t
                         /\ \A r \in counted : Positive(r.delivered)
           published == [c \in {r.country : r \in counted} |-> (CHOOSE r \in counted : r.country = c).delivered]
<1>1. s # Null /\ NormalSnapshot(s) /\ MatchesState(s, row) /\ PublishedCountries(s, history) = s.countries
  BY DEF Reconcile
<1>2. PublishedCountries(s, history) = IF wellFormed THEN published ELSE Null
  BY DEF PublishedCountries
<1>3. s.countries # Null
  BY <1>1, CountryConstants
<1>4. wellFormed /\ s.countries = published
  <2> HIDE DEF wellFormed, published
  <2> QED
    BY <1>1, <1>2, <1>3
<1>5. Delivered(history, s.bucket) = counted
  BY <1>4 DEF Delivered
<1>6. /\ DOMAIN s.countries = {r.country : r \in counted}
      /\ \A c \in DOMAIN s.countries : s.countries[c] = (CHOOSE r \in counted : r.country = c).delivered
  BY <1>4
<1>7. \A r \in counted : (CHOOSE t \in counted : t.country = r.country) = r
  BY <1>4
<1>8. Published(s, {row}, history)
  <2>1. MatchesState(s, row) /\ \A r \in {row} : r.bucket = s.bucket => r = row
    BY <1>1
  <2>2. \A r \in counted : r.country \in DOMAIN s.countries /\ r.delivered = s.countries[r.country]
    <3>1. SUFFICES ASSUME NEW r \in counted
                   PROVE  r.country \in DOMAIN s.countries /\ r.delivered = s.countries[r.country]
      OBVIOUS
    <3>2. r.country \in DOMAIN s.countries
      BY <1>6
    <3>3. s.countries[r.country] = (CHOOSE t \in counted : t.country = r.country).delivered
      BY <1>6, <3>2
    <3> QED
      BY <1>7, <3>2, <3>3
  <2>3. \A r, t \in counted : r.country = t.country => r = t
    BY <1>4
  <2>4. \A c \in DOMAIN s.countries : \E r \in counted : r.country = c
    BY <1>6
  <2> HIDE DEF counted
  <2> QED
    BY <1>5, <2>1, <2>2, <2>3, <2>4 DEF Published
<1>9. ~InvalidRows({s.bucket}, {row}, history)
  <2>1. row.mine /\ row.bucket = s.bucket
    BY <1>1 DEF MatchesState
  <2>2. \A r \in history : r.delivered # Null => r.delivered \in Nat
    BY <1>4, PositiveIs
  <2> QED
    BY <1>4, <2>1, <2>2 DEF InvalidRows
<1> QED
  BY <1>1, <1>8, <1>9, OneBucketIsComplete

LEMMA HistoryIs ==
  ASSUME NEW s \in Snapshots \ {Null}, NormalSnapshot(s)
  PROVE  /\ \A r \in PublishedHistory(s) :
              /\ r.mine /\ r.bucket = s.bucket /\ r.country \in DOMAIN s.countries /\ r.country \in Countries
              /\ r.delivered = s.countries[r.country] /\ Positive(r.delivered) /\ r.delivered # Null /\ r.delivered \in Nat
         /\ \A r, t \in PublishedHistory(s) : r.country = t.country => r = t
         /\ \A c \in DOMAIN s.countries : \E r \in PublishedHistory(s) : r.country = c
<1>1. ASSUME NEW r \in PublishedHistory(s)
      PROVE  /\ r.mine /\ r.bucket = s.bucket /\ r.country \in DOMAIN s.countries /\ r.country \in Countries
             /\ r.delivered = s.countries[r.country] /\ Positive(r.delivered) /\ r.delivered # Null /\ r.delivered \in Nat
  <2>1. PICK c \in DOMAIN s.countries : r = [mine |-> TRUE, bucket |-> s.bucket, country |-> c, delivered |-> s.countries[c]]
    BY DEF PublishedHistory
  <2>2. c \in Countries /\ Positive(s.countries[c]) /\ s.countries[c] \in Nat
    BY PositiveIs DEF NormalSnapshot
  <2> QED
    BY <2>1, <2>2, CountryConstants
<1> DEFINE row(c) == [mine |-> TRUE, bucket |-> s.bucket, country |-> c, delivered |-> s.countries[c]]
<1>2. \A c \in DOMAIN s.countries : row(c).country = c
  OBVIOUS
<1>3. PublishedHistory(s) = {row(c) : c \in DOMAIN s.countries}
  BY DEF PublishedHistory
<1> HIDE DEF row
<1>4. \A r, t \in PublishedHistory(s) : r.country = t.country => r = t
  BY <1>2, <1>3
<1>5. \A c \in DOMAIN s.countries : \E r \in PublishedHistory(s) : r.country = c
  BY <1>2, <1>3
<1> QED
  BY <1>1, <1>4, <1>5

LEMMA StateIs ==
  ASSUME NEW s \in Snapshots \ {Null}
  PROVE  MatchesState(s, PublishedState(s)) /\ PublishedState(s).mine /\ PublishedState(s).bucket = s.bucket
BY CountryConstants DEF MatchesState, PublishedState

LEMMA PublishedIsUnchanged ==
  ASSUME NEW s \in Snapshots \ {Null}, NormalSnapshot(s)
  PROVE  Reconcile(s, PublishedState(s), PublishedHistory(s)) = "unchanged"
<1> DEFINE history == PublishedHistory(s)
           counted == {r \in history : r.delivered # Null}
           wellFormed == /\ \A r \in history : r.mine /\ r.bucket = s.bucket /\ r.country \in Countries
                         /\ \A r, t \in history : r.country = t.country => r = t
                         /\ \A r \in counted : Positive(r.delivered)
           published == [c \in {r.country : r \in counted} |-> (CHOOSE r \in counted : r.country = c).delivered]
<1>1. PublishedCountries(s, history) = IF wellFormed THEN published ELSE Null
  BY DEF PublishedCountries
<1>2. counted = history /\ wellFormed
  BY HistoryIs
<1>3. published = s.countries
  <2>1. {r.country : r \in counted} = DOMAIN s.countries
    BY <1>2, HistoryIs
  <2>2. ASSUME NEW c \in DOMAIN s.countries
        PROVE  (CHOOSE r \in counted : r.country = c).delivered = s.countries[c]
    <3> DEFINE t == CHOOSE r \in counted : r.country = c
    <3>1. t \in history /\ t.country = c
      BY <1>2, HistoryIs
    <3> HIDE DEF t
    <3>2. t.delivered = s.countries[t.country]
      BY <3>1, HistoryIs
    <3> QED
      BY <3>1, <3>2 DEF t
  <2>3. s.countries = [c \in DOMAIN s.countries |-> s.countries[c]]
    BY CountryConstants
  <2> DEFINE chosen(c) == (CHOOSE r \in counted : r.country = c).delivered
  <2>4. published = [c \in DOMAIN s.countries |-> chosen(c)] /\ \A c \in DOMAIN s.countries : chosen(c) = s.countries[c]
    BY <2>1, <2>2
  <2> HIDE DEF chosen, published
  <2>5. published = [c \in DOMAIN s.countries |-> s.countries[c]]
    BY <2>4
  <2> QED
    BY <2>3, <2>5
<1>4. PublishedCountries(s, history) = s.countries
  <2> HIDE DEF wellFormed, published
  <2> QED
    BY <1>1, <1>2, <1>3
<1> QED
  BY <1>4, StateIs DEF Reconcile

(* Two windows that were published, one after the other.                    *)
LEMMA PublishedInOrder ==
  ASSUME NEW s \in Snapshots \ {Null}, NEW t \in Snapshots \ {Null},
         NormalSnapshot(s), NormalSnapshot(t), s.bucket < t.bucket, NEW states, NEW history,
         states = {PublishedState(s), PublishedState(t)}, history = PublishedHistory(s) \union PublishedHistory(t)
  PROVE  EvaluateRange({s.bucket, t.bucket}, states, history).total =
           IF Overflows(s.observed + t.observed) THEN Null ELSE s.observed + t.observed
<1>1. s.bucket \in Int /\ t.bucket \in Int /\ s.bucket # t.bucket
  <2>1. s.bucket \in Int /\ t.bucket \in Int
    BY CountryConstants
  <2> QED
    BY <2>1
<1>2. Delivered(history, s.bucket) = PublishedHistory(s) /\ Delivered(history, t.bucket) = PublishedHistory(t)
  BY <1>1, HistoryIs DEF Delivered
<1>3. ASSUME NEW u \in {s, t}
      PROVE  Published(u, states, history)
  <2>1. Delivered(history, u.bucket) = PublishedHistory(u) /\ NormalSnapshot(u) /\ u \in Snapshots \ {Null}
    BY <1>2
  <2>2. PublishedState(u) \in states /\ MatchesState(u, PublishedState(u))
    BY <2>1, StateIs
  <2>3. \A r \in states : r.bucket = u.bucket => r = PublishedState(u)
    BY <1>1, StateIs
  <2>4. /\ \A r \in PublishedHistory(u) : r.country \in DOMAIN u.countries /\ r.delivered = u.countries[r.country]
        /\ \A r, q \in PublishedHistory(u) : r.country = q.country => r = q
        /\ \A c \in DOMAIN u.countries : \E r \in PublishedHistory(u) : r.country = c
    BY <2>1, HistoryIs
  <2>5. \E row \in states : MatchesState(u, row) /\ \A r \in states : r.bucket = u.bucket => r = row
    BY <2>2, <2>3
  <2> DEFINE D == Delivered(history, u.bucket)
  <2>6. /\ \A r \in D : r.country \in DOMAIN u.countries /\ r.delivered = u.countries[r.country]
        /\ \A r, q \in D : r.country = q.country => r = q
        /\ \A c \in DOMAIN u.countries : \E r \in D : r.country = c
    <3> HIDE DEF D
    <3>1. D = PublishedHistory(u)
      BY <2>1 DEF D
    <3> QED
      BY <2>4, <3>1
  <2> QED
    BY <2>5, <2>6 DEF Published
<1>4. ~InvalidRows({s.bucket, t.bucket}, states, history)
  <2>1. \A r \in states : r.mine /\ r.bucket \in {s.bucket, t.bucket}
    BY StateIs
  <2>2. \A r, u \in states : r.bucket = u.bucket => r = u
    BY <1>1, StateIs
  <2>3. \A r \in history : r.mine /\ r.bucket \in {s.bucket, t.bucket} /\ r.country \in Countries /\ r.delivered \in Nat
    BY HistoryIs
  <2>4. \A r, u \in history : r.bucket = u.bucket /\ r.country = u.country => r = u
    BY <1>1, HistoryIs
  <2> QED
    BY <2>1, <2>2, <2>3, <2>4 DEF InvalidRows
<1> QED
  BY <1>3, <1>4, TwoBucketsAreComplete

LEMMA JudgesAgree == ReconciledIsComplete
<1>1. ASSUME NEW s \in Snapshots, NEW row \in StateRows, NEW history \in SUBSET HistoryRows,
             Reconcile(s, row, history) = "unchanged"
      PROVE  /\ EvaluateRange({s.bucket}, {row}, history).complete
             /\ EvaluateRange({s.bucket}, {row}, history).total = s.observed
  BY <1>1, UnchangedIsComplete
<1> DEFINE good == {s \in Snapshots : Reconcile(s, Null, {}) = "replace"}
<1>2. \A s \in good : s \in Snapshots \ {Null} /\ NormalSnapshot(s) /\ s.bucket \in Int
  BY CountryConstants DEF Reconcile
<1> HIDE DEF good
<1>3. \A s \in good : Reconcile(s, PublishedState(s), PublishedHistory(s)) = "unchanged"
  BY <1>2, PublishedIsUnchanged
<1>4. ASSUME NEW s \in good, NEW t \in good, s.bucket # t.bucket
      PROVE  EvaluateRange({s.bucket, t.bucket}, {PublishedState(s), PublishedState(t)},
                           PublishedHistory(s) \union PublishedHistory(t)).total =
               IF Overflows(s.observed + t.observed) THEN Null ELSE s.observed + t.observed
  <2>1. CASE s.bucket < t.bucket
    BY <1>2, <2>1, PublishedInOrder
  <2>2. CASE t.bucket < s.bucket
    <3>1. EvaluateRange({t.bucket, s.bucket}, {PublishedState(t), PublishedState(s)},
                        PublishedHistory(t) \union PublishedHistory(s)).total =
            IF Overflows(t.observed + s.observed) THEN Null ELSE t.observed + s.observed
      BY <1>2, <2>2, PublishedInOrder
    <3>2. /\ {t.bucket, s.bucket} = {s.bucket, t.bucket}
          /\ {PublishedState(t), PublishedState(s)} = {PublishedState(s), PublishedState(t)}
          /\ PublishedHistory(t) \union PublishedHistory(s) = PublishedHistory(s) \union PublishedHistory(t)
      OBVIOUS
    <3>3. t.observed + s.observed = s.observed + t.observed
      BY <1>2, PositiveIs DEF NormalSnapshot
    <3> QED
      BY <3>1, <3>2, <3>3
  <2> QED
    BY <1>2, <1>4, <2>1, <2>2
<1> QED
  BY <1>1, <1>3, <1>4 DEF ReconciledIsComplete, good

(* What the report calls complete is what was observed, and what was       *)
(* published as told needs no publishing again, for any snapshots, rows    *)
(* and countries (completeness.ts:185-335).                                *)
THEOREM WindowsAreReconciled == Spec => []ReconciledWindowIsComplete
<1>1. ReconciledWindowIsComplete
  BY JudgesAgree DEF ReconciledWindowIsComplete
<1> QED
  BY <1>1, PTL
=============================================================================
