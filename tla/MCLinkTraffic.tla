---------------------------- MODULE MCLinkTraffic ----------------------------
(* The instance of Reconciliation: two visitors and two writers of one code,  *)
(* and the visits, settings and rows that the decision and the report are  *)
(* asked about.                                                            *)
EXTENDS Reconciliation, TLC

-----------------------------------------------------------------------------
(* Settings and visits: one that is diverted, and those that differ from   *)
(* it in one or two of their parts.                                        *)

Current ==
  [metaEnforce |-> TRUE, datacenterActive |-> TRUE, datacenterEnforce |-> TRUE, datacenterBlock |-> TRUE,
   replayActive |-> TRUE, replayEnforce |-> TRUE, replayBlock |-> TRUE,
   replayMinimumTotal |-> 2, replayMinimumToken |-> 2,
   replayBlockMinimumTotal |-> 3, replayBlockMinimumToken |-> 3,
   decisionCookieActive |-> TRUE, decisionCookieTtl |-> 3, decisionCookieFutureSkew |-> 1,
   lowYieldBrowserVetoActive |-> TRUE, countryQualityControlActive |-> TRUE]

Numbers == {"replayMinimumTotal", "replayMinimumToken", "replayBlockMinimumTotal", "replayBlockMinimumToken",
            "decisionCookieTtl", "decisionCookieFutureSkew"}

Switches == DOMAIN Current \ Numbers

MCConfigs == {Current} \union {[Current EXCEPT ![f] = FALSE] : f \in Switches}

Edge == [configured |-> TRUE, peer |-> "trusted", ip |-> "accepted", country |-> "VN"]

Policy == [destination |-> "plain", percentages |-> ("VN" :> 50), default |-> 0, quality |-> None]

Quality == [active |-> TRUE, scope |-> "selected", countries |-> {"VN"}]

Utm(source, medium) == [source |-> source, medium |-> medium]

Diverted ==
  [agent |-> "other", method |-> "GET", fbclid |-> "token", referer |-> "other", campaign |-> "valid",
   edge |-> Edge, lookup |-> "US", site |-> 1, cookie |-> None, now |-> 10, roll |-> 1,
   known |-> TRUE, admin |-> FALSE, base |-> [skim |-> TRUE, debug |-> FALSE],
   meta |-> FALSE, datacenter |-> FALSE, replay |-> [total |-> 0, token |-> 0],
   context |-> Policy, utm |-> Utm(<<"plain">>, <<"plain">>)]

Cookie(site, expires) == [genuine |-> TRUE, site |-> site, expires |-> expires]

Values ==
  [agent |-> {"preview", "bot", "samsung", "android chrome"}, method |-> {"HEAD"},
   fbclid |-> {"absent", "blank"}, referer |-> {"facebook"}, campaign |-> {"invalid"},
   edge |-> {[Edge EXCEPT !.configured = FALSE], [Edge EXCEPT !.peer = "other"], [Edge EXCEPT !.ip = "refused"],
             [Edge EXCEPT !.country = None], [Edge EXCEPT !.country = "US"]},
   lookup |-> {None},
   cookie |-> {Cookie(1, 12), Cookie(1, 14), Cookie(1, 15), Cookie(2, 12), [Cookie(1, 12) EXCEPT !.genuine = FALSE]},
   roll |-> {50, 51}, known |-> {FALSE}, admin |-> {TRUE},
   base |-> {[skim |-> FALSE, debug |-> TRUE], [skim |-> FALSE, debug |-> FALSE], Failed},
   meta |-> {TRUE, Failed}, datacenter |-> {TRUE, Failed},
   replay |-> {[total |-> 2, token |-> 2], [total |-> 3, token |-> 3], Failed},
   context |-> {[Policy EXCEPT !.destination = "fragment"], [Policy EXCEPT !.destination = "invalid"],
                [Policy EXCEPT !.percentages = ("US" :> 101), !.default = 0 - 1],
                [Policy EXCEPT !.quality = Quality], [Policy EXCEPT !.quality = [Quality EXCEPT !.countries = {"US"}]],
                [Policy EXCEPT !.quality = [Quality EXCEPT !.scope = "all"]], Failed},
   utm |-> {Utm(<<>>, <<"plain">>), Utm(<<"plain">>, <<"plain", "plain">>), Utm(<<"odd">>, <<"plain">>)}]

Deviate(S) == S \union UNION {{[v EXCEPT ![f] = x] : v \in S, x \in Values[f]} : f \in DOMAIN Values}

Deviation == Deviate({Diverted})

MCVisits == Deviate(Deviation)

(* One visit of each class: shown a preview, a bot, and the outcomes (of   *)
(* the filtered ones one, as they are treated alike).                      *)
MCSample ==
  {Diverted} \union {[Diverted EXCEPT !.agent = "preview"], [Diverted EXCEPT !.agent = "bot"],
                     [Diverted EXCEPT !.roll = 51], [Diverted EXCEPT !.meta = TRUE]}

Interchangeable == Permutations(Visitor) \union Permutations(Writer)

-----------------------------------------------------------------------------
(* Rows of a window of two buckets, up to a counter of 3.                  *)

MCCountries == {"VN", "US"}

Snapshot(b, run, observed, countries) == [bucket |-> b, run |-> run, observed |-> observed, countries |-> countries]

MCSnapshots ==
  {Null} \union
  {Snapshot(b, run, n, countries) : b \in 1..2, run \in {Null, "r"}, n \in 0..4,
     countries \in {<<>>, "VN" :> 1, "VN" :> 2, "ZZ" :> 1, "VN" :> 3, "VN" :> 1 @@ "US" :> 1, "VN" :> 2 @@ "US" :> 2}}

MCStateRows ==
  {[mine |-> mine, bucket |-> 1, status |-> status, total |-> n, provenance |-> provenance, source |-> source, run |-> run] :
     mine \in BOOLEAN, status \in {"complete", "incomplete"}, n \in 1..2,
     provenance \in {"redis_nonempty", "other"}, run \in {Null, "r"},
     source \in {Null, Snapshot(1, "r", 1, "VN" :> 1), Snapshot(1, "r", 2, "VN" :> 1 @@ "US" :> 1)}}

HistoryRow(b, c, n) == [mine |-> TRUE, bucket |-> b, country |-> c, delivered |-> n]

MCHistoryRows ==
  {HistoryRow(1, "VN", n) : n \in {Null, 1, 2}} \union
  {HistoryRow(1, "US", n) : n \in {Null, 1, 0 - 1}} \union
  {HistoryRow(2, "US", Null), [HistoryRow(1, "VN", 1) EXCEPT !.mine = FALSE]}
=============================================================================
