-------------------------- MODULE RedirectDecision --------------------------
(* Where a visit of a short link is sent: modules/redirect/current-        *)
(* decision.ts, policy.ts, current-engine.ts and classification.ts, with   *)
(* the parts of client-identity.ts and current-decision-provider.ts that   *)
(* decide, and the outcome that redirect/service.ts books for it.          *)
(*                                                                         *)
(* A visit is a record of what the code asks about it: its agent (the      *)
(* class of its User-Agent), method, fbclid, referer, edge (the proxy      *)
(* headers), decision cookie, clock and dice, and the answers of the       *)
(* stores, each of which may be Failed.                                    *)
EXTENDS Integers, Sequences

CONSTANTS
  None, Failed,
  Configs,          \* the settings of CurrentDecisionConfig considered
  Visits            \* the visits considered

ASSUME DecisionConstants ==
  /\ \A c \in Configs : c.decisionCookieTtl \in Nat /\ c.decisionCookieFutureSkew \in Nat
  /\ \A v \in Visits : /\ v = [f \in DOMAIN v |-> v[f]] /\ v.now \in Int
                       /\ {"method", "cookie", "now", "roll"} \subseteq DOMAIN v
  /\ None \notin {"meta", "aws_dc", "fbclid_replay", "diversion"}
  /\ \A c \in Configs, v \in Visits :
       None # [genuine |-> TRUE, site |-> v.site, expires |-> v.now + c.decisionCookieTtl]

Filters == {"meta", "aws_dc", "fbclid_replay"}

PreviewCrawler(agent) == agent = "preview"
GenericBot(agent) == agent \in {"preview", "bot"}
LowYieldBrowser(agent) == agent = "samsung"
QualityCandidate(agent) == agent = "android chrome"

HeaderCountry(edge) == IF edge.configured /\ edge.ip = "accepted" THEN edge.country ELSE None

(* createClientIdentityResolver: a header counts only from a trusted peer, *)
(* and its country only with its address.                                  *)
TrustedCountry(edge) ==
  IF edge.configured /\ edge.peer = "trusted" /\ edge.ip = "accepted" THEN edge.country ELSE None

FacebookEvidence(v) == v.fbclid # "absent" \/ v.referer = "facebook"

-----------------------------------------------------------------------------
(* #classify: the networks and the replay counters, each failing open      *)

Detected(c, v) ==
  /\ v.fbclid = "token" /\ v.replay # Failed
  /\ v.replay.total >= c.replayMinimumTotal /\ v.replay.token >= c.replayMinimumToken

MetaNetwork(v) == v.meta = TRUE

Datacenter(c, v) ==
  c.datacenterActive /\ ~GenericBot(v.agent) /\ ~MetaNetwork(v) /\ v.datacenter = TRUE

Replay(c, v) == c.replayActive /\ ~MetaNetwork(v) /\ ~Datacenter(c, v) /\ Detected(c, v)

Enforced(c, v, filter) ==
  \/ filter = "meta" /\ MetaNetwork(v) /\ c.metaEnforce
  \/ filter = "aws_dc" /\ Datacenter(c, v) /\ c.datacenterEnforce
  \/ filter = "fbclid_replay" /\ Replay(c, v) /\ c.replayEnforce

(* The filters exclude one another, so their order does not show.          *)
FilterReason(c, v) ==
  IF \E f \in Filters : Enforced(c, v, f) THEN CHOOSE f \in Filters : Enforced(c, v, f) ELSE None

HardReplay(c, v) ==
  /\ Replay(c, v) /\ c.replayEnforce /\ c.replayBlock
  /\ v.replay.total >= c.replayBlockMinimumTotal /\ v.replay.token >= c.replayBlockMinimumToken

Block(c, v) ==
  CASE HardReplay(c, v) -> "fbclid_replay"
    [] ~HardReplay(c, v) /\ Datacenter(c, v) /\ c.datacenterEnforce /\ c.datacenterBlock -> "aws_dc"
    [] OTHER -> None

-----------------------------------------------------------------------------
(* policy.ts: who may be diverted                                          *)

(* Routing takes the trusted country, or looks the address up.             *)
Country(v) == IF TrustedCountry(v.edge) # None THEN TrustedCountry(v.edge) ELSE v.lookup

(* An explicit row of a known country, else the default of the domain.     *)
Explicit(v, x) == Country(v) \in DOMAIN x.percentages

Clamped(n) == IF n < 0 THEN 0 ELSE IF n > 100 THEN 100 ELSE n

Percent(v, x) == Clamped(IF Explicit(v, x) THEN x.percentages[Country(v)] ELSE x.default)

(* A stored policy that cannot be read is Off.                             *)
QualityCountry(c, v, x) ==
  /\ c.countryQualityControlActive /\ x.quality # None /\ x.quality.active
  /\ Percent(v, x) > 0 /\ Explicit(v, x)
  /\ x.quality.scope = "all" \/ Country(v) \in x.quality.countries

UnfilteredAssumed(c, v) == TRUE

Unfiltered(c, v) == FilterReason(c, v) = None

Eligible(c, v, x) ==
  /\ ~v.admin /\ v.base.skim
  /\ Percent(v, x) > 0 /\ FacebookEvidence(v) /\ x.destination # "invalid"
  /\ ~(c.lowYieldBrowserVetoActive /\ LowYieldBrowser(v.agent))
  /\ Unfiltered(c, v)
  /\ ~(QualityCountry(c, v, x) /\ QualityCandidate(v.agent))

CookieEligible(c, v, x) == Eligible(c, v, x) /\ v.method = "GET"

CookieValidHere(c, cookie, site, now) ==
  /\ cookie # None /\ cookie.genuine /\ cookie.site = site
  /\ cookie.expires > now /\ cookie.expires <= now + c.decisionCookieTtl

(* isDiversionDecisionCookieValid: the signature binds the site and the    *)
(* end; the skew allows for the clock of another host.                     *)
CookieValid(c, cookie, site, now) ==
  /\ cookie # None /\ cookie.genuine /\ cookie.site = site
  /\ cookie.expires > now
  /\ cookie.expires <= now + c.decisionCookieTtl + c.decisionCookieFutureSkew

CreateCookie(c, site, now) == [genuine |-> TRUE, site |-> site, expires |-> now + c.decisionCookieTtl]

RepeatBrowser(c, v, x) ==
  CookieEligible(c, v, x) /\ c.decisionCookieActive /\ CookieValid(c, v.cookie, v.site, v.now)

(* The dice are also thrown for a debugging author, and decide nothing.    *)
Selected(c, v, x) == Eligible(c, v, x) /\ ~RepeatBrowser(c, v, x) /\ v.roll <= Percent(v, x)

Issued(c, v, x) ==
  IF CookieEligible(c, v, x) /\ c.decisionCookieActive /\ ~RepeatBrowser(c, v, x)
  THEN CreateCookie(c, v.site, v.now) ELSE None

-----------------------------------------------------------------------------
(* buildDiversionUrlWithAttribution: the source and the medium of the      *)
(* author's link go along when each is named once, and well, or neither.   *)
Attribution(v, x) ==
  LET named(values) == Len(values) = 1 /\ values[1] = "plain"
  IN CASE x.destination = "fragment" -> "untouched"
       [] x.destination # "fragment" /\ named(v.utm.source) /\ named(v.utm.medium) -> "author"
       [] OTHER -> "div2"

Author(v) == [to |-> "author", attribution |-> None, diverted |-> FALSE, cookie |-> None]

(* decide(): every failure ends at the author's destination.               *)
Decided(c, v) ==
  LET x == v.context
      cookie == Issued(c, v, x)
  IN CASE v.base = Failed \/ v.admin -> Author(v)
       [] v.base # Failed /\ ~v.admin /\ (v.base \in {[skim |-> FALSE, debug |-> FALSE]} \/ x = Failed) -> Author(v)
       [] OTHER ->
            IF Selected(c, v, x) /\ v.campaign = "valid"
            THEN [to |-> "diversion", attribution |-> Attribution(v, x), diverted |-> TRUE, cookie |-> cookie]
            ELSE [Author(v) EXCEPT !.cookie = cookie]

(* CurrentRedirectDecisionEngine.decide throws for a link of another       *)
(* domain, and the service falls back to the author's link.                *)
Decision(c, v) ==
  LET known == [filter |-> FilterReason(c, v), block |-> Block(c, v), report |-> TrustedCountry(v.edge),
                dynamic |-> v.base # Failed /\ v.base.skim, decided |-> Decided(c, v)]
      unknown == [filter |-> None, block |-> None, report |-> None, dynamic |-> FALSE, decided |-> Author(v)]
  IN IF v.known THEN known ELSE unknown

-----------------------------------------------------------------------------
(* redirect/service.ts: what the visitor gets and what is booked           *)

Outcome(d) ==
  CASE d.filter = "meta" -> "filtered_meta"
    [] d.filter \in {"aws_dc", "fbclid_replay"} -> "filtered_bot"
    [] OTHER -> IF d.decided.diverted THEN "diverted" ELSE "delivered"

Response(v, d) ==
  IF d.block # None THEN [kind |-> "blocked", to |-> None, status |-> 403, cookie |-> None]
  ELSE [kind |-> "redirect", to |-> d.decided.to,
        status |-> IF ~d.dynamic \/ v.admin THEN 301 ELSE 302, cookie |-> d.decided.cookie]

-----------------------------------------------------------------------------
(* Properties of the decision, for every visit and setting considered      *)

(* The books agree with what the visitor got: counted as diverted exactly  *)
(* when sent to the diversion target, as delivered exactly when sent to    *)
(* the author unfiltered, as filtered whenever blocked; and a diversion is *)
(* never answered with a permanent redirect (redirect/service.ts).         *)
CountedAsServed ==
  \A c \in Configs, v \in Visits :
    LET d == Decision(c, v)
        response == Response(v, d)
        away == response.to = "diversion"
    IN /\ (Outcome(d) = "diverted") <=> away
       /\ Outcome(d) = "delivered" => response.kind = "redirect"
       /\ away => response.status = 302

(* A browser is asked once per lifetime of its cookie: whatever it was     *)
(* told first, a GET within that time, on a host whose clock may lag by    *)
(* the skew, is not diverted (decisionCookieActive).                       *)
OneDecisionPerBrowser ==
  \A c \in Configs, v \in Visits :
    LET cookie == Response(v, Decision(c, v)).cookie
        later == (v.now - c.decisionCookieFutureSkew)..(v.now + c.decisionCookieTtl - 1)
        again(t) == [v EXCEPT !.cookie = cookie, !.now = t, !.method = "GET", !.roll = 1]
    IN cookie # None => \A t \in later : ~Decision(c, again(t)).decided.diverted

(* A country is reported only on the word of a trusted proxy, and is then  *)
(* the one routed by; the lookup routing falls back on never reaches the   *)
(* report (reportCountry, "Never populated from routing fallback GeoIP").  *)
ReportCountryIsTrusted ==
  \A c \in Configs, v \in Visits :
    LET report(w) == Decision(c, w).report
    IN /\ report(v) # None => v.edge.configured /\ v.edge.peer = "trusted" /\ report(v) = Country(v)
       /\ report([v EXCEPT !.lookup = None]) = report(v)
=============================================================================
