--------------------------- MODULE OperationsProofs ---------------------------
(***************************************************************************)
(* The web process, the settings of a domain, the maintenance report, the  *)
(* activation of production and the dashboard: components that no image    *)
(* passes through, each proved about on its own.  No theorem is about two  *)
(* of them.                                                                *)
(***************************************************************************)
EXTENDS Operations, ControlPlane, Production, Desk, ShieldPanel, Views, Integers, FiniteSets, TLAPS, FiniteSetTheorems

-----------------------------------------------------------------------------
(* The web process.  An answer of a dependency is as recent as what is     *)
(* left of the probe's time; and nothing is ever started by a top level    *)
(* that failed, or once it was told to stop.                               *)
WebConstants ==
  /\ Database \in Dependency
  /\ Timeout \in Nat /\ CacheTtl \in Nat /\ DatabaseTimeout \in Nat /\ GateTimeout \in Nat /\ Retry \in Nat

Places == {"preflight", "gate", "opening", "opened", "serving", "silent", "failed"}

WebTyped ==
  /\ probe \in [running : BOOLEAN, bounded : {"none", "pending", "failed"}, left : 0..Timeout, databaseLeft : Nat,
                answers : [Dependency -> {"none", "pending", "querying", "ok", "bad"}]]
  /\ cached \in [ready : BOOLEAN, left : 0..CacheTtl]
  /\ asked \in [Web!Caller -> {"idle", "waiting", "ready", "refused"}]
  /\ main \in [at : Places, left : Int, delay : Int]
  /\ drainer \in [stopping : BOOLEAN, timer : BOOLEAN, passing : BOOLEAN]
  /\ resources \in {"open", "closing", "closed"} /\ shutdown \in {"none", "settling", "closing", "done"}
  /\ app \in {"idle", "listening", "closing", "closed"}
  /\ up \in [Dependency -> BOOLEAN] /\ down \in [Dependency -> Nat]

(* Dependency d was in order within the last n ticks.                      *)
Within(d, n) == up[d] \/ down[d] <= n

(* What was answered well to a probe, what is cached and what is answered  *)
(* was so lately.                                                          *)
AnswersRecent ==
  probe.bounded = "pending" =>
    \A d \in Dependency : probe.answers[d] = "ok" => Within(d, Timeout - probe.left)

CachedRecent ==
  cached.ready /\ cached.left > 0 => \A d \in Dependency : Within(d, Timeout + CacheTtl - cached.left)

Recently == AnswersRecent /\ CachedRecent /\ Web!ReadyIsRecent

(* A top level that has not listened, or has failed, has started nothing;  *)
(* one that was told to stop starts nothing more; and only these two close *)
(* the resources.                                                          *)
Before == main.at \in {"preflight", "gate", "opening", "failed"}

Quiet ==
  /\ Before => app # "listening" /\ ~drainer.passing /\ ~drainer.timer /\ asked["request"] = "idle"
  /\ shutdown # "none" => drainer.stopping /\ ~drainer.timer /\ app \in {"closing", "closed"}
  /\ shutdown \in {"closing", "done"} => ~drainer.passing /\ asked["request"] = "idle"
  /\ resources # "open" => main.at = "failed" \/ shutdown \in {"closing", "done"}
  /\ asked["gate"] # "idle" => main.at = "gate"

WebIInv == WebTyped /\ Recently /\ Quiet

LEMMA WebInit == ASSUME WebConstants, Web!Init PROVE WebIInv
<1> USE DEF WebConstants, Web!Init, Web!NoProbe, Web!Uncached, Web!Caller
<1>1. WebTyped
  BY DEF WebTyped, Places
<1>2. Recently
  BY DEF Recently, AnswersRecent, CachedRecent, Web!ReadyIsRecent
<1>3. Quiet
  BY DEF Quiet
<1> QED
  BY <1>1, <1>2, <1>3 DEF WebIInv

(* The steps that begin, answer or end no probe.                           *)
Aside ==
  \/ Web!Preflight \/ Web!GatePasses \/ Web!GateWaits \/ Web!GateFails \/ Web!Listen \/ Web!Announce \/ Web!Respond
  \/ Web!PassEnds \/ Web!TimerFires \/ Web!Signal \/ Web!Stopped \/ Web!Close \/ Web!End

Replies ==
  (\E d \in Dependency : Web!Reply(d)) \/ Web!Acquire \/ Web!DatabaseGivesUp

LEMMA WebSteps ==
  Web!Next <=>
    \/ Web!GateAsks \/ Web!Request \/ Web!GiveUp \/ Web!Settle \/ Web!Tick \/ Aside \/ Replies
    \/ \E d \in Dependency : Web!Turn(d)
BY DEF Web!Next, Aside, Replies

LEMMA ReplyIs ==
  ASSUME WebTyped, Replies
  PROVE  /\ \E d \in {Database} \union Dependency, answer \in {"querying", "ok", "bad"} :
              /\ probe' \in {probe, [probe EXCEPT !.answers[d] = answer]}
              /\ answer = "ok" => up[d]
         /\ UNCHANGED <<cached, asked, main, app, drainer, shutdown, resources, up, down>>
BY DEF Replies, Web!Reply, Web!Acquire, Web!DatabaseGivesUp, Web!Answers, Web!process, Web!world

LEMMA AsideIs ==
  ASSUME WebTyped, Aside
  PROVE  /\ UNCHANGED <<probe, up, down>> /\ cached' \in {cached, Web!Uncached}
         /\ asked' \in {asked, [asked EXCEPT !["gate"] = "idle"], [asked EXCEPT !["request"] = "idle"]}
BY DEF Aside, Web!Preflight, Web!GatePasses, Web!GateWaits, Web!GateFails, Web!Listen, Web!Announce, Web!Respond,
       Web!PassEnds, Web!TimerFires, Web!Signal, Web!Stopped, Web!Close, Web!End, Web!Fail, Web!BeginClose,
       Web!probing, Web!process, Web!world

LEMMA ResolvedIs ==
  ASSUME WebConstants, WebTyped, NEW ready \in BOOLEAN, Web!Resolve(ready)
  PROVE  /\ cached' \in [ready : BOOLEAN, left : 0..CacheTtl]
         /\ asked' \in [Web!Caller -> {"idle", "waiting", "ready", "refused"}]
         /\ \A c \in Web!Caller : /\ asked[c] # "waiting" => asked'[c] = asked[c]
                                  /\ asked[c] = "waiting" => asked'[c] = IF ready THEN "ready" ELSE "refused"
BY DEF Web!Resolve, Web!Answer, WebConstants, WebTyped

LEMMA CheckIs ==
  ASSUME WebConstants, WebTyped, NEW c \in Web!Caller, Web!Check(c)
  PROVE  /\ asked' = [asked EXCEPT ![c] = asked'[c]] /\ asked'[c] \in {"waiting", "ready", "refused"}
         /\ asked'[c] = "ready" => cached.ready /\ cached.left > 0
         /\ UNCHANGED cached /\ probe' \in {probe, Web!Started}
BY DEF Web!Check, Web!Answer, Web!probing, WebTyped

LEMMA WebTypedKept ==
  ASSUME WebConstants, WebTyped, Web!Next
  PROVE  WebTyped'
<1> USE DEF WebConstants
<1>1. ASSUME NEW c \in Web!Caller, Web!Check(c), UNCHANGED <<Web!process, Web!world>>
      PROVE  WebTyped'
  <2>1. Web!Started \in [running : BOOLEAN, bounded : {"none", "pending", "failed"}, left : 0..Timeout,
                         databaseLeft : Nat, answers : [Dependency -> {"none", "pending", "querying", "ok", "bad"}]]
    BY DEF Web!Started
  <2>2. asked' = [asked EXCEPT ![c] = asked'[c]] /\ asked'[c] \in {"waiting", "ready", "refused"}
        /\ UNCHANGED cached /\ probe' \in {probe, Web!Started}
    BY <1>1, CheckIs
  <2>3. asked' \in [Web!Caller -> {"idle", "waiting", "ready", "refused"}]
    BY <2>2 DEF WebTyped
  <2>4. UNCHANGED <<main, app, drainer, shutdown, resources, up, down>>
    BY <1>1 DEF Web!process, Web!world
  <2> QED
    BY <2>1, <2>2, <2>3, <2>4 DEF WebTyped
<1>2. CASE Web!GiveUp
  <2>1. probe' = [probe EXCEPT !.bounded = "failed"] /\ Web!Resolve(FALSE) /\ UNCHANGED <<Web!process, Web!world>>
    BY <1>2 DEF Web!GiveUp
  <2> QED
    BY <2>1, ResolvedIs DEF WebTyped, Web!process, Web!world
<1>3. CASE Web!Settle
  <2>1. /\ probe' = Web!NoProbe /\ UNCHANGED <<Web!process, Web!world>>
        /\ (\E ready \in BOOLEAN : Web!Resolve(ready)) \/ UNCHANGED <<asked, cached>>
    BY <1>3 DEF Web!Settle
  <2> QED
    BY <2>1, ResolvedIs DEF WebTyped, Web!process, Web!world, Web!NoProbe
<1>4. CASE Web!Tick
  <2> USE <1>4 DEF Web!Tick, Web!Less, Web!Uncached, WebTyped
  <2>1. probe' \in [running : BOOLEAN, bounded : {"none", "pending", "failed"}, left : 0..Timeout, databaseLeft : Nat,
                    answers : [Dependency -> {"none", "pending", "querying", "ok", "bad"}]]
    <3>1. Web!Less(probe.left) \in 0..Timeout /\ Web!Less(probe.databaseLeft) \in Nat
      OBVIOUS
    <3>2. probe' = [probe EXCEPT !.left = Web!Less(probe.left), !.databaseLeft = Web!Less(probe.databaseLeft)]
      OBVIOUS
    <3> QED
      BY ONLY <3>1, <3>2, WebTyped DEF WebTyped
  <2>2. cached' \in [ready : BOOLEAN, left : 0..CacheTtl]
    OBVIOUS
  <2>3. main' \in [at : Places, left : Int, delay : Int]
    <3> DEFINE left == IF main.at = "gate" THEN Web!Less(main.left) ELSE main.left
               delay == Web!Less(main.delay)
    <3>1. left \in Int /\ delay \in Int
      OBVIOUS
    <3>2. main' = [main EXCEPT !.left = left, !.delay = delay]
      OBVIOUS
    <3> HIDE DEF left, delay
    <3> QED
      BY ONLY <3>1, <3>2, WebTyped DEF WebTyped
  <2>4. down' \in [Dependency -> Nat]
    OBVIOUS
  <2> QED
    BY <2>1, <2>2, <2>3, <2>4
<1>5. CASE Replies
  BY <1>5, ReplyIs DEF WebTyped
<1>6. CASE \E d \in Dependency : Web!Turn(d)
  BY <1>6 DEF Web!Turn, Web!probing, Web!process, WebTyped
<1>7. CASE Aside
  <2>1. /\ UNCHANGED <<probe, up, down>> /\ cached' \in [ready : BOOLEAN, left : 0..CacheTtl]
        /\ asked' \in [Web!Caller -> {"idle", "waiting", "ready", "refused"}]
    <3>1. UNCHANGED <<probe, up, down>> /\ cached' \in {cached, Web!Uncached}
      BY <1>7, AsideIs
    <3>2. asked' \in {asked, [asked EXCEPT !["gate"] = "idle"], [asked EXCEPT !["request"] = "idle"]}
      BY <1>7, AsideIs
    <3>3. asked' \in [Web!Caller -> {"idle", "waiting", "ready", "refused"}]
      BY <3>2 DEF WebTyped, Web!Caller
    <3>4. cached' \in [ready : BOOLEAN, left : 0..CacheTtl]
      <4>1. cached' \in {cached, [ready |-> FALSE, left |-> 0]} /\ 0 \in 0..CacheTtl
        BY <3>1 DEF Web!Uncached
      <4> QED
        <5>1. [ready |-> FALSE, left |-> 0] \in [ready : BOOLEAN, left : 0..CacheTtl]
          BY <4>1
        <5>2. cached \in [ready : BOOLEAN, left : 0..CacheTtl]
          BY DEF WebTyped
        <5> QED
          BY <4>1, <5>1, <5>2
    <3> QED
      BY <3>1, <3>3, <3>4
  <2>2. main' \in [at : Places, left : Int, delay : Int]
    <3>1. CASE Web!GateWaits
      <4> DEFINE delay == IF Retry < main.left THEN Retry ELSE main.left
      <4>1. main' = [main EXCEPT !.delay = delay] /\ delay \in Int
        BY <3>1 DEF Web!GateWaits, WebTyped
      <4> HIDE DEF delay
      <4> QED
        BY <4>1 DEF WebTyped
    <3>2. ASSUME ~Web!GateWaits
          PROVE  UNCHANGED main \/ \E place \in Places : Web!Goto(place)
      BY <1>7, <3>2
      DEF Aside, Web!Preflight, Web!GatePasses, Web!GateFails, Web!Listen, Web!Announce, Web!Respond, Web!PassEnds,
          Web!TimerFires, Web!Signal, Web!Stopped, Web!Close, Web!End, Web!Fail, Web!process, Places
    <3>3. ASSUME NEW place \in Places, Web!Goto(place)
          PROVE  main' \in [at : Places, left : Int, delay : Int]
      <4>1. main' = [at |-> place, left |-> main.left, delay |-> 0]
        BY <3>3 DEF Web!Goto, WebTyped
      <4> QED
        BY <4>1 DEF WebTyped
    <3> QED
      BY <3>1, <3>2, <3>3 DEF WebTyped
  <2>3. drainer' \in [stopping : BOOLEAN, timer : BOOLEAN, passing : BOOLEAN]
    <3> USE DEF WebTyped
    <3>1. CASE Web!Preflight \/ Web!GatePasses \/ Web!GateWaits \/ Web!GateFails \/ Web!Listen
      <4>1. UNCHANGED drainer
        BY <3>1 DEF Web!Preflight, Web!GatePasses, Web!GateWaits, Web!GateFails, Web!Fail, Web!Listen, Web!process
      <4> QED
        BY <4>1
    <3>2. CASE Web!Announce \/ Web!Respond
      <4>1. drainer' = drainer \/ \E owner \in BOOLEAN : drainer' = [drainer EXCEPT !.passing = owner]
        BY <3>2 DEF Web!Announce, Web!Respond, Web!process
      <4> QED
        BY <4>1
    <3>3. CASE Web!PassEnds \/ Web!TimerFires
      BY <3>3, ZenonT(60) DEF Web!PassEnds, Web!TimerFires
    <3>4. CASE Web!Signal \/ Web!Stopped
      BY <3>4 DEF Web!Signal, Web!Stopped
    <3>5. CASE Web!Close \/ Web!End
      BY <3>5 DEF Web!Close, Web!End
    <3> QED
      BY <1>7, <3>1, <3>2, <3>3, <3>4, <3>5 DEF Aside
  <2>4. /\ resources' \in {"open", "closing", "closed"} /\ shutdown' \in {"none", "settling", "closing", "done"}
        /\ app' \in {"idle", "listening", "closing", "closed"}
    BY <1>7
    DEF Aside, Web!Preflight, Web!GatePasses, Web!GateWaits, Web!GateFails, Web!Listen, Web!Announce, Web!Respond,
        Web!PassEnds, Web!TimerFires, Web!Signal, Web!Stopped, Web!Close, Web!End, Web!Fail, Web!BeginClose,
        Web!process, WebTyped
  <2> QED
    BY <2>1, <2>2, <2>3, <2>4 DEF WebTyped
<1> QED
  BY <1>1, <1>2, <1>3, <1>4, <1>5, <1>6, <1>7, WebSteps DEF Web!GateAsks, Web!Request, Web!Caller

LEMMA RecentlyKept ==
  ASSUME WebConstants, WebTyped, Recently, Web!Next
  PROVE  Recently'
<1> USE DEF WebConstants, WebTyped, Recently, AnswersRecent, CachedRecent, Web!ReadyIsRecent, Within, Web!Recent
<1>1. ASSUME NEW c \in Web!Caller, Web!Check(c), UNCHANGED <<up, down>>
      PROVE  Recently'
  <2>1. \A e \in Web!Caller : asked'[e] = "ready" => asked[e] = "ready" \/ (cached.ready /\ cached.left > 0)
    BY <1>1, CheckIs
  <2>2. AnswersRecent'
    BY <1>1, CheckIs DEF Web!Started
  <2>3. CachedRecent'
    BY <1>1, CheckIs
  <2>4. Web!ReadyIsRecent'
    BY <1>1, <2>1
  <2> QED
    BY <2>2, <2>3, <2>4
<1>2. CASE Web!GiveUp
  <2>1. probe' = [probe EXCEPT !.bounded = "failed"] /\ Web!Resolve(FALSE) /\ UNCHANGED <<up, down>>
    BY <1>2 DEF Web!GiveUp, Web!world
  <2>2. \A c \in Web!Caller : asked'[c] = "ready" => asked[c] = "ready"
    BY <2>1, ResolvedIs
  <2>3. cached' = cached \/ cached'.ready = FALSE
    BY <2>1 DEF Web!Resolve
  <2> QED
    BY <2>1, <2>2, <2>3
<1>3. CASE Web!Settle
  <2>1. probe' = Web!NoProbe /\ UNCHANGED <<up, down>>
    BY <1>3 DEF Web!Settle, Web!world
  <2>2. AnswersRecent'
    BY <2>1 DEF Web!NoProbe
  <2>3. CASE probe.bounded # "pending"
    BY <1>3, <2>1, <2>2, <2>3 DEF Web!Settle
  <2>4. CASE probe.bounded = "pending"
    <3> DEFINE ready == \A d \in Dependency : probe.answers[d] = "ok"
    <3>1. Web!Resolve(ready) /\ ready \in BOOLEAN
      BY <1>3, <2>4 DEF Web!Settle
    <3>2. ready => \A d \in Dependency : Within(d, Timeout)
      BY <2>4
    <3>3. \A c \in Web!Caller : asked'[c] = "ready" => asked[c] = "ready" \/ ready
      BY <3>1, ResolvedIs
    <3>4. cached' = cached \/ cached' = [ready |-> ready, left |-> CacheTtl]
      BY <3>1 DEF Web!Resolve
    <3> HIDE DEF ready
    <3>5. CachedRecent'
      BY <2>1, <3>2, <3>4
    <3>6. Web!ReadyIsRecent'
      BY <2>1, <3>2, <3>3
    <3> QED
      BY <2>2, <3>5, <3>6
  <2> QED
    BY <2>3, <2>4
<1>4. CASE Web!Tick
  <2>1. \A d \in Dependency, n \in Nat : Within(d, n) => up'[d] \/ down'[d] <= n + 1
    BY <1>4 DEF Web!Tick
  <2>2. AnswersRecent'
    <3>1. ASSUME probe.bounded = "pending" PROVE probe'.left = probe.left - 1 /\ probe.left > 0
      BY <1>4, <3>1 DEF Web!Tick, Web!Prompt, Web!TimedOut, Web!Less
    <3>2. probe'.bounded = probe.bounded /\ probe'.answers = probe.answers
      BY <1>4 DEF Web!Tick
    <3>3. probe.bounded = "pending" => Timeout - probe.left \in Nat /\ Timeout - probe'.left = (Timeout - probe.left) + 1
      BY <3>1
    <3> QED
      BY <2>1, <3>2, <3>3
  <2>3. CachedRecent'
    <3>1. cached'.ready => cached' = [cached EXCEPT !.left = @ - 1] /\ cached.left > 1
      BY <1>4 DEF Web!Tick, Web!Uncached
    <3>2. cached'.ready => /\ Timeout + CacheTtl - cached.left \in Nat /\ cached.ready
                           /\ Timeout + CacheTtl - cached'.left = (Timeout + CacheTtl - cached.left) + 1
      BY <3>1
    <3> QED
      BY <2>1, <3>1, <3>2
  <2>4. Web!ReadyIsRecent'
    BY <1>4 DEF Web!Tick, Web!Prompt
  <2> QED
    BY <2>2, <2>3, <2>4
<1>5. CASE Replies
  <2>1. PICK d \in {Database} \union Dependency, answer \in {"querying", "ok", "bad"} :
              /\ probe' \in {probe, [probe EXCEPT !.answers[d] = answer]}
              /\ answer = "ok" => up[d]
    BY <1>5, ReplyIs
  <2>2. UNCHANGED <<cached, asked, up, down>>
    BY <1>5, ReplyIs
  <2>3. probe'.bounded = probe.bounded /\ probe'.left = probe.left
    BY <2>1
  <2>4. \A e \in Dependency : probe'.answers[e] = "ok" => probe.answers[e] = "ok" \/ up[e]
    BY <2>1
  <2> QED
    BY <2>2, <2>3, <2>4
<1>6. CASE \E d \in Dependency : Web!Turn(d)
  <2>1. UNCHANGED <<probe, cached, asked>>
    BY <1>6 DEF Web!Turn, Web!probing
  <2>2. \A e \in Dependency, n \in Nat : Within(e, n) => up'[e] \/ down'[e] <= n
    BY <1>6 DEF Web!Turn
  <2>3. \A e \in Dependency : e \in Dependency => Timeout - probe.left \in Nat /\ Timeout + CacheTtl - cached.left \in Nat
    OBVIOUS
  <2> QED
    BY <2>1, <2>2, <2>3
<1>7. CASE Aside
  <2>1. /\ UNCHANGED <<probe, up, down>> /\ cached' \in {cached, Web!Uncached}
        /\ \A c \in Web!Caller : asked'[c] = "ready" => asked[c] = "ready"
    BY <1>7, AsideIs
  <2> QED
    BY <2>1 DEF Web!Uncached
<1> QED
  BY <1>1, <1>2, <1>3, <1>4, <1>5, <1>6, <1>7, WebSteps DEF Web!GateAsks, Web!Request, Web!Caller, Web!world

LEMMA QuietKept ==
  ASSUME WebConstants, WebTyped, Quiet, Web!Next
  PROVE  Quiet'
<1> USE DEF WebTyped, Quiet, Before, Places, Web!Caller
<1>1. CASE Web!GateAsks \/ Web!Request
  BY <1>1, CheckIs DEF Web!GateAsks, Web!Request, Web!process
<1>2. CASE Web!GiveUp \/ Web!Settle
  <2>1. UNCHANGED <<main, app, drainer, shutdown, resources>>
    BY <1>2 DEF Web!GiveUp, Web!Settle, Web!process
  <2>2. \A c \in Web!Caller : asked[c] = "idle" => asked'[c] = "idle"
    BY <1>2, ResolvedIs DEF Web!GiveUp, Web!Settle
  <2> QED
    BY <2>1, <2>2
<1>3. CASE Web!Tick
  <2>1. main'.at = main.at /\ UNCHANGED <<asked, app, drainer, shutdown, resources>>
    BY <1>3 DEF Web!Tick
  <2> QED
    BY <2>1
<1>4. CASE Replies
  BY <1>4, ReplyIs
<1>5. CASE \E d \in Dependency : Web!Turn(d)
  BY <1>5 DEF Web!Turn, Web!process
<1>6. CASE Aside
  <2> USE DEF Web!Goto, Web!Fail, Web!BeginClose, Web!probing, Web!process
  <2>1. CASE Web!Preflight
    BY <2>1, ZenonT(60) DEF Web!Preflight
  <2>2. CASE Web!GatePasses
    BY <2>2 DEF Web!GatePasses
  <2>3. CASE Web!GateWaits
    BY <2>3 DEF Web!GateWaits
  <2>4. CASE Web!GateFails
    BY <2>4 DEF Web!GateFails
  <2>5. CASE Web!Listen
    BY <2>5 DEF Web!Listen
  <2>6. CASE Web!Announce
    BY <2>6, ZenonT(60) DEF Web!Announce
  <2>7. CASE Web!Respond
    BY <2>7 DEF Web!Respond
  <2>8. CASE Web!PassEnds
    BY <2>8 DEF Web!PassEnds
  <2>9. CASE Web!TimerFires
    BY <2>9 DEF Web!TimerFires
  <2>10. CASE Web!Signal
    BY <2>10 DEF Web!Signal
  <2>11. CASE Web!Stopped
    BY <2>11 DEF Web!Stopped, Web!StopWaits
  <2>12. CASE Web!Close \/ Web!End
    BY <2>12 DEF Web!Close, Web!End
  <2> QED
    BY <1>6, <2>1, <2>2, <2>3, <2>4, <2>5, <2>6, <2>7, <2>8, <2>9, <2>10, <2>11, <2>12 DEF Aside
<1> QED
  BY <1>1, <1>2, <1>3, <1>4, <1>5, <1>6, WebSteps

LEMMA WebKept == ASSUME WebConstants, WebIInv, [Web!Next]_(Web!vars) PROVE WebIInv'
<1>1. CASE Web!Next
  BY <1>1, WebTypedKept, RecentlyKept, QuietKept DEF WebIInv
<1>2. CASE UNCHANGED Web!vars
  BY <1>2
  DEF Web!vars, WebIInv, WebTyped, Recently, AnswersRecent, CachedRecent, Within, Web!ReadyIsRecent, Quiet, Before
<1> QED
  BY <1>1, <1>2

(* A positive answer of check(), to the gate or to a health request, rests *)
(* on every dependency having been in order within the last timeout and    *)
(* cache period (runtime-readiness.ts:59-88); and once the resources are   *)
(* closed no recovery pass runs or can start and no request is under way   *)
(* (server.ts:126-143).                                                    *)
THEOREM WebHolds ==
  ASSUME WebConstants
  PROVE  Web!Spec => []WebInv
<1>1. WebIInv => WebInv
  BY DEF WebIInv, WebTyped, Recently, Quiet, Before, WebInv, Web!WebInv, Web!ClosedIsQuiet
<1> QED
  BY WebInit, WebKept, <1>1, PTL DEF Web!Spec

-----------------------------------------------------------------------------
(* The settings of a domain.  An older value on its way to the cache was   *)
(* replaced since it was read, an outdated entry since it was written; a   *)
(* key that is settled has no older value on its way.                      *)
SettingsConstants == Ttl \in Nat /\ Delay \in Nat /\ MaxSaves \in Nat /\ MaxMishaps \in Nat

Reading ==
  [pc : {"idle", "get", "miss", "fill", "had"}, value : (0..MaxSaves) \union {Unset}, age : 0..Delay]

ReplacedSince ==
  /\ \A v \in Visit, k \in Settings!Key :
       LET read == reading[v][k]
           row == stored[Settings!SectionOf(k)]
       IN  read.pc = "fill" /\ read.value # row.value => row.since <= read.age
  /\ \A k \in Settings!Key :
       Settings!Outdated(k) => stored[Settings!SectionOf(k)].since <= Delay + Ttl - cache[k].left

NoneUnderway == \A k \in settled : ~Settings!Underway(k)

SectionsChosen == \A a \in Admin : admin[a].pc # "idle" => admin[a].section \in Settings!Section

SettingsIInv == Settings!SettingsInv /\ ReplacedSince /\ NoneUnderway /\ SectionsChosen

LEMMA SectionsOfKeys ==
  /\ \A k \in Settings!Key : Settings!SectionOf(k) \in Settings!Section
  /\ \A s \in Settings!Section, k \in Settings!Key : k \in Settings!Cached[s] <=> Settings!SectionOf(k) = s
  /\ \A s \in Settings!Section : Settings!Cached[s] \subseteq Settings!Key
BY DEF Settings!Key, Settings!Cached, Settings!SectionOf, Settings!Section

LEMMA SettingsInit == ASSUME SettingsConstants, Settings!Init PROVE SettingsIInv
<1> USE DEF SettingsConstants, Settings!Init
<1>1. Settings!TypeOK
  BY DEF Settings!TypeOK, Settings!Longest, Settings!Uncached, Settings!NoRequest, Settings!Unread
<1>2. /\ \A k \in Settings!Key : ~Settings!Outdated(k)
      /\ \A v \in Visit, k \in Settings!Key : reading[v][k].pc # "fill"
  BY DEF Settings!Outdated, Settings!Unread
<1>3. ReplacedSince /\ NoneUnderway /\ Settings!SettlesInTime /\ Settings!AnnouncedIsRead
  BY <1>2 DEF ReplacedSince, NoneUnderway, Settings!Underway, Settings!SettlesInTime, Settings!AnnouncedIsRead
<1>4. SectionsChosen
  BY DEF SectionsChosen, Settings!NoRequest
<1> QED
  BY <1>1, <1>3, <1>4 DEF SettingsIInv, Settings!SettingsInv

Visiting ==
  \E v \in Visit :
    \/ Settings!Arrive(v) \/ Settings!Proceed(v) \/ Settings!Decide(v)
    \/ \E k \in Settings!Key : Settings!Get(v, k) \/ Settings!Fill(v, k)
    \/ \E q \in Settings!Queries : Settings!Query(v, q)

(* A visit reads what is stored, and fills the cache with what it read.    *)
ReadsAsStored(r) ==
  /\ r \in [Visit -> [Settings!Key -> Reading]]
  /\ \A v \in Visit, k \in Settings!Key :
       r[v][k].pc = "fill" => r[v][k] = reading[v][k] \/ r[v][k].value = stored[Settings!SectionOf(k)].value

LEMMA OneRead ==
  ASSUME SettingsConstants, Settings!TypeOK, NEW v \in Visit, NEW k \in Settings!Key,
         NEW x \in Reading, x.pc # "fill", Settings!Read(v, k, x)
  PROVE  ReadsAsStored(reading')
<1>1. reading' \in [Visit -> [Settings!Key -> Reading]]
  BY DEF Settings!Read, Settings!TypeOK, Reading
<1>2. \A w \in Visit, j \in Settings!Key : reading'[w][j] = reading[w][j] \/ reading'[w][j] = x
  BY DEF Settings!Read, Settings!TypeOK, Reading
<1> QED
  BY <1>1, <1>2 DEF ReadsAsStored

LEMMA AllRead ==
  ASSUME SettingsConstants, Settings!TypeOK, NEW v \in Visit, NEW x \in [Settings!Key -> Reading],
         \A k \in Settings!Key : x[k].pc = "fill" => x[k] = reading[v][k] \/ x[k].value = stored[Settings!SectionOf(k)].value,
         reading' = [reading EXCEPT ![v] = x]
  PROVE  ReadsAsStored(reading')
<1>1. reading' \in [Visit -> [Settings!Key -> Reading]]
  BY DEF Settings!TypeOK, Reading
<1>2. \A w \in Visit : reading'[w] = reading[w] \/ (w = v /\ reading'[w] = x)
  BY DEF Settings!TypeOK, Reading
<1> QED
  BY <1>1, <1>2 DEF ReadsAsStored

LEMMA Unfilled ==
  ASSUME SettingsConstants
  PROVE  /\ Settings!Unread \in Reading /\ Settings!Asked \in Reading /\ Settings!Had \in Reading
         /\ [Settings!Unread EXCEPT !.pc = "miss"] \in Reading /\ [Settings!Unread EXCEPT !.pc = "miss"].pc # "fill"
         /\ Settings!Unread.pc # "fill" /\ Settings!Asked.pc # "fill" /\ Settings!Had.pc # "fill"
BY DEF SettingsConstants, Settings!Unread, Settings!Asked, Settings!Had, Reading

LEMMA FaultsCounted ==
  ASSUME SettingsConstants, Settings!TypeOK, Settings!Fault \/ UNCHANGED used
  PROVE  used' \in 0..MaxMishaps
BY DEF SettingsConstants, Settings!TypeOK, Settings!Fault

LEMMA VisitingIs ==
  ASSUME SettingsConstants, Settings!TypeOK, Visiting
  PROVE  /\ UNCHANGED <<stored, admin, settled, saves>> /\ used' \in 0..MaxMishaps
         /\ ReadsAsStored(reading')
         /\ \/ UNCHANGED cache
            \/ \E v \in Visit, k \in Settings!Key :
                 /\ reading[v][k].pc = "fill"
                 /\ cache' = [cache EXCEPT ![k] = [value |-> reading[v][k].value, left |-> Ttl]]
<1>1. PICK v \in Visit :
        \/ Settings!Arrive(v) \/ Settings!Proceed(v) \/ Settings!Decide(v)
        \/ \E k \in Settings!Key : Settings!Get(v, k) \/ Settings!Fill(v, k)
        \/ \E q \in Settings!Queries : Settings!Query(v, q)
  BY DEF Visiting
<1>2. "enabled" \in Settings!Key
  BY DEF Settings!Key, Settings!Cached
<1>3. ASSUME Settings!Leave(v) PROVE ReadsAsStored(reading')
  <2>1. [k \in Settings!Key |-> Settings!Unread] \in [Settings!Key -> Reading]
    BY Unfilled
  <2> QED
    BY <1>3, <2>1, AllRead, Unfilled DEF Settings!Leave
<1>4. CASE Settings!Arrive(v)
  BY <1>2, <1>4, OneRead, Unfilled, FaultsCounted DEF Settings!Arrive
<1>5. CASE Settings!Decide(v)
  BY <1>3, <1>5, FaultsCounted DEF Settings!Decide
<1>6. CASE Settings!Proceed(v)
  <2> DEFINE x == [k \in Settings!Key |-> IF k = "enabled" THEN reading[v][k] ELSE Settings!Asked]
  <2>1. Settings!Leave(v) \/ reading' = [reading EXCEPT ![v] = x]
    BY <1>6 DEF Settings!Proceed, Settings!TypeOK
  <2>2. /\ x \in [Settings!Key -> Reading]
        /\ \A k \in Settings!Key : x[k].pc = "fill" => x[k] = reading[v][k]
    BY Unfilled DEF Settings!TypeOK, Reading
  <2> HIDE DEF x
  <2>3. ReadsAsStored(reading')
    BY <1>3, <2>1, <2>2, AllRead
  <2> QED
    BY <1>6, <2>3, FaultsCounted DEF Settings!Proceed
<1>7. ASSUME NEW k \in Settings!Key, Settings!Get(v, k)
      PROVE  /\ UNCHANGED <<stored, admin, settled, saves, cache>> /\ used' \in 0..MaxMishaps
             /\ ReadsAsStored(reading')
  BY <1>7, OneRead, Unfilled, FaultsCounted DEF Settings!Get, Settings!NoFault
<1>8. ASSUME NEW k \in Settings!Key, Settings!Fill(v, k)
      PROVE  /\ UNCHANGED <<stored, admin, settled, saves>> /\ used' \in 0..MaxMishaps
             /\ ReadsAsStored(reading')
             /\ reading[v][k].pc = "fill"
             /\ \/ UNCHANGED cache
                \/ cache' = [cache EXCEPT ![k] = [value |-> reading[v][k].value, left |-> Ttl]]
  BY <1>8, OneRead, Unfilled, FaultsCounted DEF Settings!Fill, Settings!NoFault
<1>9. ASSUME NEW q \in Settings!Queries, Settings!Query(v, q)
      PROVE  /\ UNCHANGED <<stored, admin, settled, saves, cache>> /\ used' \in 0..MaxMishaps
             /\ ReadsAsStored(reading')
  <2> DEFINE missed == {k \in q : reading[v][k].pc = "miss"}
             filling(k) == [pc |-> "fill", value |-> stored[Settings!SectionOf(k)].value, age |-> 0]
             x == [k \in Settings!Key |-> IF k \in missed THEN filling(k) ELSE reading[v][k]]
  <2>1. Settings!Leave(v) \/ reading' = [reading EXCEPT ![v] = x]
    BY <1>9 DEF Settings!Query, Settings!TypeOK
  <2>2. \A k \in Settings!Key : filling(k) \in Reading
    BY SectionsOfKeys DEF SettingsConstants, Settings!TypeOK, Reading
  <2>3. /\ x \in [Settings!Key -> Reading]
        /\ \A k \in Settings!Key : x[k] = reading[v][k] \/ x[k].value = stored[Settings!SectionOf(k)].value
    BY <2>2 DEF Settings!TypeOK, Reading
  <2> HIDE DEF x
  <2>4. ReadsAsStored(reading')
    BY <1>3, <2>1, <2>3, AllRead
  <2> QED
    BY <1>9, <2>4, FaultsCounted DEF Settings!Query, Settings!NoFault
<1> QED
  BY <1>1, <1>3, <1>4, <1>5, <1>6, <1>7, <1>8, <1>9 DEF Settings!Arrive, Settings!Proceed, Settings!Decide

LEMMA VisitingKeeps ==
  ASSUME SettingsConstants, SettingsIInv, Visiting
  PROVE  SettingsIInv'
<1> USE DEF SettingsConstants, SettingsIInv, Settings!SettingsInv
<1>1. /\ UNCHANGED <<stored, admin, settled, saves>> /\ used' \in 0..MaxMishaps
      /\ ReadsAsStored(reading')
  BY VisitingIs
<1>2. \/ UNCHANGED cache
      \/ \E v \in Visit, k \in Settings!Key :
           /\ reading[v][k].pc = "fill"
           /\ cache' = [cache EXCEPT ![k] = [value |-> reading[v][k].value, left |-> Ttl]]
  BY VisitingIs
<1>3. Settings!TypeOK'
  <2>1. reading' \in [Visit -> [Settings!Key -> Reading]]
    BY <1>1 DEF ReadsAsStored
  <2>2. cache' \in [Settings!Key -> [value : (0..MaxSaves) \union {Unset}, left : 0..Ttl]]
    <3>1. ASSUME NEW v \in Visit, NEW k \in Settings!Key
          PROVE  [value |-> reading[v][k].value, left |-> Ttl] \in [value : (0..MaxSaves) \union {Unset}, left : 0..Ttl]
      BY DEF Settings!TypeOK
    <3> QED
      BY <1>2, <3>1 DEF Settings!TypeOK
  <2> QED
    BY <1>1, <2>1, <2>2 DEF Settings!TypeOK, Reading
<1>4. \A v \in Visit, k \in Settings!Key :
        reading'[v][k].pc = "fill" =>
          reading'[v][k] = reading[v][k] \/ reading'[v][k].value = stored[Settings!SectionOf(k)].value
  BY <1>1 DEF ReadsAsStored
<1>5. \A k \in Settings!Key : Settings!Underway(k)' => Settings!Underway(k)
  BY <1>1, <1>4 DEF Settings!Underway
<1>6. ASSUME NEW k \in Settings!Key, Settings!Outdated(k)'
      PROVE  \/ cache'[k] = cache[k] /\ Settings!Outdated(k)
             \/ /\ Settings!Underway(k) /\ cache'[k].left = Ttl
                /\ stored[Settings!SectionOf(k)].since <= Delay
  <2>1. CASE cache'[k] = cache[k]
    BY <1>1, <1>6, <2>1 DEF Settings!Outdated
  <2>2. CASE \E v \in Visit : /\ reading[v][k].pc = "fill"
                              /\ cache'[k] = [value |-> reading[v][k].value, left |-> Ttl]
    <3>1. PICK v \in Visit : /\ reading[v][k].pc = "fill"
                             /\ cache'[k] = [value |-> reading[v][k].value, left |-> Ttl]
      BY <2>2
    <3>2. reading[v][k].value # stored[Settings!SectionOf(k)].value
      BY <1>1, <1>6, <3>1 DEF Settings!Outdated
    <3>3. reading[v][k].age \in 0..Delay /\ stored[Settings!SectionOf(k)].since \in Int
      BY SectionsOfKeys DEF Settings!TypeOK, Settings!Longest
    <3>4. stored[Settings!SectionOf(k)].since <= reading[v][k].age
      BY <3>1, <3>2 DEF ReplacedSince
    <3> QED
      BY <3>1, <3>2, <3>3, <3>4 DEF Settings!Underway
  <2> QED
    BY <1>2, <2>1, <2>2 DEF Settings!TypeOK
<1>7. \A k \in Settings!Key : stored[Settings!SectionOf(k)].since \in Int /\ cache[k].left \in 0..Ttl
  BY SectionsOfKeys DEF Settings!TypeOK, Settings!Longest
<1>8. ReplacedSince'
  <2>1. \A v \in Visit, k \in Settings!Key :
          LET read == reading'[v][k]
              row == stored[Settings!SectionOf(k)]
          IN  read.pc = "fill" /\ read.value # row.value => row.since <= read.age
    BY <1>4 DEF ReplacedSince
  <2>2. ASSUME NEW k \in Settings!Key, Settings!Outdated(k)'
        PROVE  stored[Settings!SectionOf(k)].since <= Delay + Ttl - cache'[k].left
    BY <1>6, <1>7, <2>2 DEF ReplacedSince
  <2> QED
    BY <1>1, <2>1, <2>2 DEF ReplacedSince
<1>9. Settings!SettlesInTime'
  <2>1. ASSUME NEW k \in Settings!Key, Settings!Outdated(k)'
        PROVE  stored[Settings!SectionOf(k)].since <= Delay + Ttl
    BY <1>6, <1>7, <2>1 DEF Settings!SettlesInTime
  <2> QED
    BY <1>1, <2>1 DEF Settings!SettlesInTime
<1>10. NoneUnderway' /\ Settings!AnnouncedIsRead'
  <2>1. settled \subseteq Settings!Key
    BY DEF Settings!TypeOK
  <2> QED
    BY <1>1, <1>5, <1>6, <2>1 DEF NoneUnderway, Settings!AnnouncedIsRead
<1> QED
  BY <1>1, <1>3, <1>8, <1>9, <1>10 DEF SectionsChosen

LEMMA AdminKeeps ==
  ASSUME SettingsConstants, SettingsIInv, NEW a \in Admin,
         (\E s \in Settings!Section : Settings!Submit(a, s)) \/ Settings!Save(a) \/ Settings!Announce(a)
  PROVE  SettingsIInv'
<1> USE DEF SettingsConstants, SettingsIInv, Settings!SettingsInv
<1>1. CASE \E s \in Settings!Section : Settings!Submit(a, s)
  <2>1. PICK s \in Settings!Section : Settings!Submit(a, s)
    BY <1>1
  <2>2. UNCHANGED <<stored, cache, reading, settled, saves, used>>
    BY <2>1 DEF Settings!Submit
  <2>3. /\ admin' \in [Admin -> [pc : {"idle", "save", "announce"}, section : Settings!Section \union {Unset}]]
        /\ SectionsChosen'
    BY <2>1 DEF Settings!Submit, Settings!TypeOK, SectionsChosen
  <2> QED
    BY <2>2, <2>3
    DEF Settings!TypeOK, ReplacedSince, NoneUnderway, Settings!SettlesInTime, Settings!AnnouncedIsRead,
        Settings!Outdated, Settings!Underway
<1>2. CASE Settings!Save(a)
  <2> DEFINE s == admin[a].section
  <2>0. s \in Settings!Section /\ saves < MaxSaves /\ UNCHANGED <<cache, reading>>
    BY <1>2 DEF Settings!Save, SectionsChosen
  <2>1. /\ admin' \in [Admin -> [pc : {"idle", "save", "announce"}, section : Settings!Section \union {Unset}]]
        /\ SectionsChosen'
    <3>1. admin' = [admin EXCEPT ![a] = Settings!NoRequest] \/ admin' = [admin EXCEPT ![a] = [@ EXCEPT !.pc = "announce"]]
      BY <1>2 DEF Settings!Save
    <3> QED
      <4>1. CASE admin' = [admin EXCEPT ![a] = Settings!NoRequest]
        BY <4>1 DEF Settings!NoRequest, Settings!TypeOK, SectionsChosen
      <4>2. CASE admin' = [admin EXCEPT ![a] = [@ EXCEPT !.pc = "announce"]]
        BY <2>0, <4>2 DEF Settings!TypeOK, SectionsChosen
      <4> QED
        BY <3>1, <4>1, <4>2
  <2>2. used' \in 0..MaxMishaps
    BY <1>2, FaultsCounted DEF Settings!Save, Settings!NoFault
  <2>3. CASE UNCHANGED <<stored, saves, settled>>
    BY <2>0, <2>1, <2>2, <2>3
    DEF Settings!TypeOK, ReplacedSince, NoneUnderway, Settings!SettlesInTime, Settings!AnnouncedIsRead,
        Settings!Outdated, Settings!Underway
  <2>4. CASE /\ stored' = [stored EXCEPT ![s] = [value |-> saves + 1, since |-> 0]]
             /\ saves' = saves + 1 /\ settled' = settled \ Settings!Cached[s]
    <3>1. Settings!TypeOK'
      BY <2>0, <2>1, <2>2, <2>4 DEF Settings!TypeOK, Settings!Longest
    <3>2. \A k \in Settings!Key : \/ stored'[Settings!SectionOf(k)] = stored[Settings!SectionOf(k)]
                                  \/ Settings!SectionOf(k) = s /\ stored'[Settings!SectionOf(k)].since = 0
      BY <2>0, <2>4, SectionsOfKeys DEF Settings!TypeOK
    <3>3. \A k \in settled' : stored'[Settings!SectionOf(k)] = stored[Settings!SectionOf(k)]
      BY <2>0, <2>4, <3>2, SectionsOfKeys DEF Settings!TypeOK
    <3>4. ASSUME NEW v \in Visit, NEW k \in Settings!Key
          PROVE  reading[v][k].age \in 0..Delay
      BY DEF Settings!TypeOK
    <3>5. ASSUME NEW k \in Settings!Key
          PROVE  cache[k].left \in 0..Ttl
      BY DEF Settings!TypeOK
    <3>6. ReplacedSince' /\ Settings!SettlesInTime'
      BY <2>0, <3>2, <3>4, <3>5 DEF ReplacedSince, Settings!SettlesInTime, Settings!Outdated
    <3>7. NoneUnderway' /\ Settings!AnnouncedIsRead'
      BY <2>0, <2>4, <3>3 DEF NoneUnderway, Settings!AnnouncedIsRead, Settings!Underway, Settings!Outdated
    <3> QED
      BY <2>1, <3>1, <3>6, <3>7
  <2> QED
    BY <1>2, <2>3, <2>4 DEF Settings!Save
<1>3. CASE Settings!Announce(a)
  <2> DEFINE s == admin[a].section
  <2>0. s \in Settings!Section /\ UNCHANGED <<stored, reading, saves>>
    BY <1>3 DEF Settings!Announce, SectionsChosen
  <2>1. /\ admin' \in [Admin -> [pc : {"idle", "save", "announce"}, section : Settings!Section \union {Unset}]]
        /\ SectionsChosen' /\ used' \in 0..MaxMishaps
    BY <1>3, FaultsCounted
    DEF Settings!Announce, Settings!NoFault, Settings!NoRequest, Settings!TypeOK, SectionsChosen
  <2>2. \/ UNCHANGED cache
        \/ cache' = [k \in Settings!Key |-> IF k \in Settings!Cached[s] THEN Settings!Uncached ELSE cache[k]]
    BY <1>3 DEF Settings!Announce, Settings!Dropped
  <2>3. \A k \in Settings!Key : cache'[k] = cache[k] \/ cache'[k] = Settings!Uncached
    BY <2>2
  <2>4. \A k \in settled' : \/ k \in settled
                            \/ k \in Settings!Key /\ ~Settings!Underway(k) /\ cache'[k] = Settings!Uncached
    BY <1>3, <2>0, SectionsOfKeys DEF Settings!Announce, Settings!Dropped
  <2>5. Settings!TypeOK'
    <3>1. cache' \in [Settings!Key -> [value : (0..MaxSaves) \union {Unset}, left : 0..Ttl]]
      BY <2>2 DEF Settings!TypeOK, Settings!Uncached
    <3>2. settled' \subseteq Settings!Key
      BY <2>4 DEF Settings!TypeOK
    <3> QED
      BY <2>0, <2>1, <3>1, <3>2 DEF Settings!TypeOK
  <2>6. \A k \in Settings!Key : Settings!Outdated(k)' => Settings!Outdated(k) /\ cache'[k] = cache[k]
    BY <2>0, <2>3 DEF Settings!Outdated
  <2>7. ReplacedSince' /\ Settings!SettlesInTime'
    BY <2>0, <2>6 DEF ReplacedSince, Settings!SettlesInTime
  <2>8. NoneUnderway' /\ Settings!AnnouncedIsRead'
    <3>1. settled \subseteq Settings!Key
      BY DEF Settings!TypeOK
    <3>2. \A k \in Settings!Key : Settings!Underway(k)' <=> Settings!Underway(k)
      BY <2>0 DEF Settings!Underway
    <3> QED
      BY <2>4, <2>6, <3>1, <3>2 DEF NoneUnderway, Settings!AnnouncedIsRead, Settings!Outdated
  <2> QED
    BY <2>1, <2>5, <2>7, <2>8
<1> QED
  BY <1>1, <1>2, <1>3

LEMMA SettingsAge ==
  ASSUME SettingsConstants, SettingsIInv, Settings!Tick
  PROVE  SettingsIInv'
<1> USE DEF SettingsConstants, SettingsIInv, Settings!SettingsInv
<1>1. UNCHANGED <<admin, settled, saves, used>>
  BY DEF Settings!Tick
<1>2. ASSUME NEW s \in Settings!Section
      PROVE  /\ stored'[s] \in [value : 0..MaxSaves, since : 0..Settings!Longest]
             /\ stored'[s].value = stored[s].value /\ stored[s].since \in Int
             /\ stored'[s].since \in {stored[s].since, stored[s].since + 1}
  <2> DEFINE since == IF stored[s].since < Settings!Longest THEN stored[s].since + 1 ELSE stored[s].since
  <2>1. stored'[s] = [stored[s] EXCEPT !.since = since]
    BY DEF Settings!Tick
  <2>2. Settings!Longest \in Nat
    BY DEF Settings!Longest
  <2>3. stored[s] \in [value : 0..MaxSaves, since : 0..Settings!Longest]
    BY DEF Settings!TypeOK
  <2>4. since \in 0..Settings!Longest /\ since \in {stored[s].since, stored[s].since + 1} /\ stored[s].since \in Int
    BY <2>2, <2>3
  <2> HIDE DEF since
  <2> QED
    BY <2>1, <2>3, <2>4
<1>3. ASSUME NEW k \in Settings!Key
      PROVE  \/ cache'[k] = Settings!Uncached
             \/ /\ cache'[k] = [value |-> cache[k].value, left |-> cache[k].left - 1] /\ cache[k] # Settings!Uncached
                /\ cache[k].left > 1
  <2>1. cache[k] \in [value : (0..MaxSaves) \union {Unset}, left : 0..Ttl]
    BY DEF Settings!TypeOK
  <2>2. cache'[k] = IF cache[k] = Settings!Uncached THEN Settings!Uncached ELSE Settings!Older(cache[k])
    BY DEF Settings!Tick
  <2> QED
    BY <2>1, <2>2 DEF Settings!Older
<1>4. ASSUME NEW v \in Visit, NEW k \in Settings!Key
      PROVE  /\ reading'[v][k] \in Reading /\ reading[v][k].age \in Int
             /\ reading'[v][k].pc = reading[v][k].pc /\ reading'[v][k].value = reading[v][k].value
             /\ reading[v][k].pc = "fill" => reading'[v][k].age = reading[v][k].age + 1
  <2>1. reading[v][k] \in Reading
    BY DEF Settings!TypeOK, Reading
  <2>2. CASE reading[v][k].pc = "fill"
    <3>1. reading'[v][k] = [reading[v][k] EXCEPT !.age = reading[v][k].age + 1] /\ reading[v][k].age < Delay
      BY <2>2 DEF Settings!Tick
    <3> QED
      BY <2>1, <3>1 DEF Reading
  <2>3. CASE reading[v][k].pc # "fill"
    <3>1. reading'[v][k] = reading[v][k]
      BY <2>3 DEF Settings!Tick
    <3> QED
      BY <2>1, <2>3, <3>1 DEF Reading
  <2> QED
    BY <2>2, <2>3
<1>5. Settings!TypeOK'
  <2>1. stored' \in [Settings!Section -> [value : 0..MaxSaves, since : 0..Settings!Longest]]
    <3>1. stored' = [s \in Settings!Section |-> stored'[s]]
      BY DEF Settings!Tick
    <3> QED
      BY <1>2, <3>1
  <2>2. cache' \in [Settings!Key -> [value : (0..MaxSaves) \union {Unset}, left : 0..Ttl]]
    <3>1. cache' = [k \in Settings!Key |-> cache'[k]]
      BY DEF Settings!Tick
    <3>2. ASSUME NEW k \in Settings!Key PROVE cache'[k] \in [value : (0..MaxSaves) \union {Unset}, left : 0..Ttl]
      <4>1. cache[k] \in [value : (0..MaxSaves) \union {Unset}, left : 0..Ttl]
        BY DEF Settings!TypeOK
      <4>2. Settings!Uncached \in [value : (0..MaxSaves) \union {Unset}, left : 0..Ttl]
        BY DEF Settings!Uncached
      <4>3. cache[k].value \in (0..MaxSaves) \union {Unset} /\ (cache[k].left > 1 => cache[k].left - 1 \in 0..Ttl)
        BY <4>1
      <4>4. cache[k].left > 1 => [value |-> cache[k].value, left |-> cache[k].left - 1]
                                   \in [value : (0..MaxSaves) \union {Unset}, left : 0..Ttl]
        BY <4>3
      <4> QED
        BY <1>3, <4>2, <4>4
    <3> QED
      BY <3>1, <3>2
  <2>3. reading' \in [Visit -> [Settings!Key -> Reading]]
    <3>1. reading' = [v \in Visit |-> [k \in Settings!Key |-> reading'[v][k]]]
      BY DEF Settings!Tick
    <3> QED
      BY <1>4, <3>1
  <2> QED
    BY <1>1, <2>1, <2>2, <2>3 DEF Settings!TypeOK, Reading
<1>6. \A k \in Settings!Key :
        /\ stored'[Settings!SectionOf(k)].value = stored[Settings!SectionOf(k)].value
        /\ stored[Settings!SectionOf(k)].since \in Int
        /\ stored'[Settings!SectionOf(k)].since \in {stored[Settings!SectionOf(k)].since, stored[Settings!SectionOf(k)].since + 1}
  BY <1>2, SectionsOfKeys
<1>7. \A k \in Settings!Key :
        Settings!Outdated(k)' => /\ Settings!Outdated(k) /\ cache[k].left \in Int /\ cache'[k].left = cache[k].left - 1
                                 /\ cache'[k].left > 0
  <2>1. ASSUME NEW k \in Settings!Key PROVE cache[k].left \in Int
    BY DEF Settings!TypeOK
  <2> QED
    <3> SUFFICES ASSUME NEW k \in Settings!Key, Settings!Outdated(k)'
                 PROVE  /\ Settings!Outdated(k) /\ cache[k].left \in Int /\ cache'[k].left = cache[k].left - 1
                        /\ cache'[k].left > 0
      OBVIOUS
    <3>1. cache'[k] # Settings!Uncached
      BY DEF Settings!Outdated
    <3>2. /\ cache'[k] = [value |-> cache[k].value, left |-> cache[k].left - 1] /\ cache[k] # Settings!Uncached
          /\ cache[k].left > 1
      BY <1>3, <3>1
    <3> QED
      BY <1>6, <2>1, <3>2 DEF Settings!Outdated
<1>8. ASSUME NEW k \in Settings!Key, Settings!Outdated(k)'
      PROVE  /\ stored'[Settings!SectionOf(k)].since <= Delay + Ttl - cache'[k].left
             /\ stored'[Settings!SectionOf(k)].since <= Delay + Ttl
  <2>1. stored[Settings!SectionOf(k)].since <= Delay + Ttl - cache[k].left
    BY <1>7, <1>8 DEF ReplacedSince
  <2> QED
    BY <1>6, <1>7, <1>8, <2>1
<1>9. \A v \in Visit, k \in Settings!Key :
        LET read == reading'[v][k]
            row == stored'[Settings!SectionOf(k)]
        IN  read.pc = "fill" /\ read.value # row.value => row.since <= read.age
  <2> SUFFICES ASSUME NEW v \in Visit, NEW k \in Settings!Key,
                      reading'[v][k].pc = "fill", reading'[v][k].value # stored'[Settings!SectionOf(k)].value
               PROVE  stored'[Settings!SectionOf(k)].since <= reading'[v][k].age
    OBVIOUS
  <2>1. /\ reading[v][k].pc = "fill" /\ reading'[v][k].age = reading[v][k].age + 1
        /\ reading'[v][k].value = reading[v][k].value /\ reading[v][k].age \in Int
    BY <1>4
  <2>2. stored[Settings!SectionOf(k)].since <= reading[v][k].age
    BY <1>6, <2>1 DEF ReplacedSince
  <2> QED
    BY <1>6, <2>1, <2>2
<1>10. \A k \in Settings!Key : Settings!Underway(k)' => Settings!Underway(k)
  BY <1>4, <1>6 DEF Settings!Underway
<1>11. ReplacedSince' /\ Settings!SettlesInTime'
  BY <1>8, <1>9 DEF ReplacedSince, Settings!SettlesInTime
<1>12. NoneUnderway' /\ Settings!AnnouncedIsRead'
  <2>1. settled \subseteq Settings!Key
    BY DEF Settings!TypeOK
  <2> QED
    BY <1>1, <1>7, <1>10, <2>1 DEF NoneUnderway, Settings!AnnouncedIsRead
<1> QED
  BY <1>1, <1>5, <1>11, <1>12 DEF SectionsChosen

LEMMA SettingsKept == ASSUME SettingsConstants, SettingsIInv, [Settings!Next]_(Settings!vars) PROVE SettingsIInv'
<1>1. CASE Settings!Next
  BY <1>1, VisitingKeeps, AdminKeeps, SettingsAge DEF Settings!Next, Visiting
<1>2. CASE UNCHANGED Settings!vars
  BY <1>2
  DEF Settings!vars, SettingsIInv, Settings!SettingsInv, Settings!TypeOK, ReplacedSince, NoneUnderway, SectionsChosen,
      Settings!SettlesInTime, Settings!AnnouncedIsRead, Settings!Outdated, Settings!Underway
<1> QED
  BY <1>1, <1>2

(* Visits go by a save once it is announced with no older value on its     *)
(* way, and by a lifetime of the cache and a command after it in any case  *)
(* (admin/service.ts:112-140, 238-249,                                     *)
(* current-decision-provider.ts:174-249).                                  *)
THEOREM SavesAreObeyed ==
  ASSUME SettingsConstants
  PROVE  Settings!Spec => []SettingsInv
<1>1. SettingsIInv => SettingsInv
  BY DEF SettingsIInv, SettingsInv
<1> QED
  BY SettingsInit, SettingsKept, <1>1, PTL DEF Settings!Spec

-----------------------------------------------------------------------------
(* The maintenance report.  Before orders candidates of different paths,   *)
(* so that each of those selected has fewer before it than the batch takes *)
(* and no two of them as many.  A lock is its maker's, until it says that  *)
(* it is done.                                                             *)
MaintenanceConstants ==
  /\ Blank \notin Run /\ Blank # "written" /\ MaximumBatch \in Nat
  /\ \A s \in Snapshot :
       /\ IsFiniteSet(s.linked) /\ IsFiniteSet(s.orphan)
       /\ \A c \in s.linked : c.age \in Int /\ c.path \in Int

(* How many of the candidates come before c.                               *)
Ahead(candidates, c) == {d \in candidates : Maintenance!Before(d, c)}

Candidates(candidates) ==
  /\ IsFiniteSet(candidates) /\ \A c \in candidates : c.age \in Int /\ c.path \in Int
  /\ \A c, d \in candidates : c.path = d.path => c = d

LEMMA PathsIdentify ==
  ASSUME NEW candidates, IsFiniteSet(candidates), Cardinality(Maintenance!Paths(candidates)) = Cardinality(candidates)
  PROVE  \A c, d \in candidates : c.path = d.path => c = d
<1> DEFINE f == [c \in candidates |-> c.path]
<1>1. f \in Surjection(candidates, Maintenance!Paths(candidates))
  BY DEF Surjection, Maintenance!Paths
<1>2. f \in Injection(candidates, Maintenance!Paths(candidates))
  BY <1>1, FS_SurjSameCardinalityImpliesInj
<1> QED
  BY <1>2 DEF Injection, IsInjective

LEMMA PathsAreFewer ==
  ASSUME NEW candidates, IsFiniteSet(candidates)
  PROVE  /\ Cardinality(Maintenance!Paths(candidates)) <= Cardinality(candidates)
         /\ IsFiniteSet(Maintenance!Paths(candidates))
<1> DEFINE f == [c \in candidates |-> c.path]
<1>1. f \in Surjection(candidates, Maintenance!Paths(candidates))
  BY DEF Surjection, Maintenance!Paths
<1> QED
  BY <1>1, FS_Surjection

LEMMA MoreAhead ==
  ASSUME NEW candidates, Candidates(candidates), NEW c \in candidates, NEW d \in candidates, Maintenance!Before(c, d)
  PROVE  Cardinality(Ahead(candidates, c)) < Cardinality(Ahead(candidates, d))
<1>1. Ahead(candidates, c) \subseteq Ahead(candidates, d) \ {c} /\ c \in Ahead(candidates, d)
  BY DEF Ahead, Candidates, Maintenance!Before
<1>2. IsFiniteSet(Ahead(candidates, d)) /\ IsFiniteSet(Ahead(candidates, d) \ {c})
  <2>1. Ahead(candidates, d) \in SUBSET candidates /\ Ahead(candidates, d) \ {c} \in SUBSET candidates
    BY DEF Ahead
  <2> QED
    BY <2>1, FS_Subset DEF Candidates
<1>3. Cardinality(Ahead(candidates, d) \ {c}) = Cardinality(Ahead(candidates, d)) - 1
  BY <1>1, <1>2, FS_RemoveElement
<1>4. Cardinality(Ahead(candidates, c)) <= Cardinality(Ahead(candidates, d) \ {c}) /\ IsFiniteSet(Ahead(candidates, c))
  BY <1>1, <1>2, FS_Subset
<1>5. Cardinality(Ahead(candidates, c)) \in Nat /\ Cardinality(Ahead(candidates, d)) \in Nat
  BY <1>2, <1>4, FS_CardinalityType
<1> QED
  BY <1>3, <1>4, <1>5

LEMMA BeforeIsTotal ==
  ASSUME NEW candidates, Candidates(candidates), NEW c \in candidates, NEW d \in candidates, c # d
  PROVE  Maintenance!Before(c, d) \/ Maintenance!Before(d, c)
BY DEF Candidates, Maintenance!Before

LEMMA SameCardinality == ASSUME NEW candidates PROVE Maintenance!Cardinality(candidates) = Cardinality(candidates)
BY DEF Maintenance!Cardinality, Cardinality, Maintenance!IsFiniteSet, IsFiniteSet

LEMMA OldestIs ==
  ASSUME NEW candidates, NEW cap
  PROVE  Maintenance!Oldest(candidates, cap) = {c \in candidates : Cardinality(Ahead(candidates, c)) < cap}
<1>1. Maintenance!Oldest(candidates, cap) = {c \in candidates : Maintenance!Cardinality(Ahead(candidates, c)) < cap}
  BY DEF Maintenance!Oldest, Ahead
<1> QED
  BY <1>1, SameCardinality

LEMMA OldestAreFew ==
  ASSUME NEW candidates, Candidates(candidates), NEW cap \in Nat
  PROVE  IsFiniteSet(Maintenance!Oldest(candidates, cap)) /\ Cardinality(Maintenance!Oldest(candidates, cap)) <= cap
<1> DEFINE old == Maintenance!Oldest(candidates, cap)
           f == [c \in old |-> Cardinality(Ahead(candidates, c))]
<1>1. old \subseteq candidates /\ \A c \in old : Cardinality(Ahead(candidates, c)) < cap
  BY OldestIs
<1>2. IsFiniteSet(old)
  BY <1>1, FS_Subset DEF Candidates
<1>3. \A c \in old : Cardinality(Ahead(candidates, c)) \in Nat
  <2>1. \A c \in old : Ahead(candidates, c) \in SUBSET candidates
    BY DEF Ahead
  <2> QED
    BY <2>1, FS_Subset, FS_CardinalityType DEF Candidates
<1>4. f \in Injection(old, 0..(cap - 1))
  <2>1. f \in [old -> 0..(cap - 1)]
    BY <1>1, <1>3
  <2>2. ASSUME NEW c \in old, NEW d \in old, f[c] = f[d] PROVE c = d
    <3>1. Cardinality(Ahead(candidates, c)) = Cardinality(Ahead(candidates, d))
      BY <2>2
    <3> QED
      BY <1>1, <1>3, <3>1, BeforeIsTotal, MoreAhead
  <2> QED
    BY <2>1, <2>2 DEF Injection, IsInjective
<1>5. IsFiniteSet(0..(cap - 1)) /\ Cardinality(0..(cap - 1)) = cap
  BY FS_Interval
<1> HIDE DEF f, old
<1>6. Cardinality(old) <= cap
  BY <1>4, <1>5, FS_Injection
<1> QED
  BY <1>2, <1>6 DEF old

LEMMA OldestFirst ==
  ASSUME NEW candidates, Candidates(candidates), NEW cap \in Nat,
         NEW c \in Maintenance!Oldest(candidates, cap), NEW d \in candidates \ Maintenance!Oldest(candidates, cap)
  PROVE  Maintenance!Before(c, d)
<1>1. c \in candidates /\ Cardinality(Ahead(candidates, c)) < cap /\ ~(Cardinality(Ahead(candidates, d)) < cap)
  BY OldestIs
<1>2. Cardinality(Ahead(candidates, c)) \in Nat /\ Cardinality(Ahead(candidates, d)) \in Nat
  <2>1. Ahead(candidates, c) \in SUBSET candidates /\ Ahead(candidates, d) \in SUBSET candidates
    BY DEF Ahead
  <2> QED
    BY <2>1, FS_Subset, FS_CardinalityType DEF Candidates
<1> QED
  BY <1>1, <1>2, BeforeIsTotal, MoreAhead

(* A receipt lists the oldest of what may go, no more than the batch, and  *)
(* nothing under both headings.                                            *)
ListsOldest(receipt, s, cap) ==
  LET kept == {c \in s.linked : c.path \notin receipt.linked}
  IN  /\ receipt.linked \intersect receipt.orphan = {}
      /\ Cardinality(receipt.linked) <= cap
      /\ \A c \in s.linked \ kept, d \in kept : Maintenance!LinkedEligible(d) => Maintenance!Before(c, d)

LEMMA ReceiptLists ==
  ASSUME MaintenanceConstants, NEW s \in Snapshot, NEW cap \in Nat, Maintenance!Acceptable(s, cap)
  PROVE  ListsOldest(Maintenance!Receipt(s, cap), s, cap)
<1> DEFINE receipt == Maintenance!Receipt(s, cap)
           eligible == {c \in s.linked : Maintenance!LinkedEligible(c)}
           old == Maintenance!Oldest(eligible, cap)
           kept == {c \in s.linked : c.path \notin receipt.linked}
<1>1. receipt.linked = Maintenance!Paths(old)
  BY DEF Maintenance!Receipt, Maintenance!SelectLinkedImages
<1>2. \A c, d \in s.linked : c.path = d.path => c = d
  <2>1. IsFiniteSet(s.linked)
    BY DEF MaintenanceConstants
  <2>2. Cardinality(Maintenance!Paths(s.linked)) = Cardinality(s.linked)
    BY SameCardinality DEF Maintenance!Acceptable, Maintenance!UniquePaths
  <2> QED
    BY <2>1, <2>2, PathsIdentify
<1>3. Candidates(eligible)
  <2>1. eligible \in SUBSET s.linked
    OBVIOUS
  <2> QED
    BY <1>2, <2>1, FS_Subset DEF Candidates, MaintenanceConstants
<1>4. receipt.linked \intersect receipt.orphan = {}
  <2>1. receipt.linked \subseteq Maintenance!Paths(s.linked)
    BY <1>1 DEF Maintenance!Paths, Maintenance!Oldest
  <2>2. receipt.orphan \subseteq Maintenance!Paths(s.orphan)
    BY DEF Maintenance!Receipt, Maintenance!SelectOrphanImages, Maintenance!Paths, Maintenance!Oldest
  <2> QED
    BY <2>1, <2>2 DEF Maintenance!Acceptable, Maintenance!UniquePaths
<1>5. Cardinality(receipt.linked) <= cap
  <2>1. IsFiniteSet(old) /\ Cardinality(old) <= cap
    BY <1>3, OldestAreFew
  <2> HIDE DEF old
  <2>2. Cardinality(Maintenance!Paths(old)) <= Cardinality(old) /\ IsFiniteSet(Maintenance!Paths(old))
    BY <2>1, PathsAreFewer
  <2> QED
    BY <1>1, <2>1, <2>2, FS_CardinalityType
<1>6. ASSUME NEW c \in s.linked \ kept, NEW d \in kept, Maintenance!LinkedEligible(d)
      PROVE  Maintenance!Before(c, d)
  <2>1. c.path \in Maintenance!Paths(old)
    BY <1>1, <1>6
  <2>2. PICK o \in old : o.path = c.path
    BY <2>1 DEF Maintenance!Paths
  <2>3. c \in old
    BY <1>2, <2>2 DEF Maintenance!Oldest
  <2>4. d \in eligible
    BY <1>6
  <2>5. d \notin old
    BY <1>1, <1>6 DEF Maintenance!Paths
  <2> QED
    BY <1>3, <2>3, <2>4, <2>5, OldestFirst
<1> QED
  BY <1>4, <1>5, <1>6 DEF ListsOldest

Inside == {"open", "write", "finish", "readback", "release"}

Receipts == {Maintenance!Receipt(s, cap) : s \in Snapshot, cap \in 1..MaximumBatch}

ARun ==
  [pc : {"idle", "lock", "ended"} \union Inside, snapshot : Snapshot \union {Blank}, cap : 0..MaximumBatch,
   receipt : Receipts \union {Blank},
   persisted : BOOLEAN, told : {Blank, "refused", "locked", "written", "unreleased", "failed"}]

(* A run that came past its checks made its receipt from its snapshot.     *)
Built(r) ==
  /\ run[r].snapshot \in Snapshot /\ run[r].cap \in 1..MaximumBatch
  /\ Maintenance!Acceptable(run[r].snapshot, run[r].cap)
  /\ run[r].receipt = Maintenance!Receipt(run[r].snapshot, run[r].cap)

RunHolds(r) ==
  /\ run[r].pc \in {"lock"} \union Inside \/ run[r].persisted => Built(r)
  /\ run[r].persisted => run[r].pc \in {"release", "ended"} /\ file[r] = run[r].receipt
  /\ run[r].told = "written" => run[r].persisted
  /\ run[r].pc \in Inside => lock = r
  /\ run[r].pc # "ended" => run[r].told = Blank
  /\ lock = r => run[r].pc \in Inside \union {"ended"} /\ run[r].told \in {Blank, "failed", "unreleased"}

MaintenanceIInv ==
  /\ run \in [Run -> ARun] /\ DOMAIN file = Run /\ lock \in Run \union {Blank}
  /\ \A r \in Run : RunHolds(r)

(* A run is left with its snapshot and its receipt.                        *)
Left(r, pc, persisted, answer) ==
  run' = [run EXCEPT ![r] = [pc |-> pc, snapshot |-> run[r].snapshot, cap |-> run[r].cap, receipt |-> run[r].receipt,
                             persisted |-> persisted, told |-> answer]]

LEMMA MaintenanceInit == ASSUME MaintenanceConstants, Maintenance!Init PROVE MaintenanceIInv
<1>1. Maintenance!NoRun \in ARun
  BY DEF MaintenanceConstants, ARun, Maintenance!NoRun
<1> QED
  BY <1>1 DEF MaintenanceConstants, Maintenance!Init, Maintenance!NoRun, MaintenanceIInv, RunHolds, Inside

(* The others hold as they did while the lock is not one of theirs.        *)
LEMMA OthersHold ==
  ASSUME MaintenanceConstants, MaintenanceIInv, NEW r \in Run, NEW x \in ARun,
         run' = [run EXCEPT ![r] = x], file' = file \/ (\E content : file' = [file EXCEPT ![r] = content]),
         \/ UNCHANGED lock
         \/ lock = Blank /\ lock' = r
         \/ lock = r /\ lock' = Blank,
         RunHolds(r)'
  PROVE  MaintenanceIInv'
<1>1. /\ run' \in [Run -> ARun] /\ DOMAIN file' = Run /\ lock' \in Run \union {Blank}
      /\ \A q \in Run \ {r} : run'[q] = run[q] /\ file'[q] = file[q]
  BY DEF MaintenanceIInv
<1>2. ASSUME NEW q \in Run \ {r} PROVE RunHolds(q)'
  <2>1. RunHolds(q)
    BY DEF MaintenanceIInv
  <2>2. lock' = q <=> lock = q
    BY DEF MaintenanceConstants
  <2> QED
    BY <1>1, <2>1, <2>2 DEF RunHolds, Built
<1> QED
  BY <1>1, <1>2 DEF MaintenanceIInv

LEMMA LeftIs ==
  ASSUME MaintenanceConstants, MaintenanceIInv, NEW r \in Run, NEW pc \in {"idle", "lock", "ended"} \union Inside,
         NEW persisted \in BOOLEAN, NEW answer \in {Blank, "refused", "locked", "written", "unreleased", "failed"},
         Left(r, pc, persisted, answer)
  PROVE  /\ run'[r] \in ARun /\ run' = [run EXCEPT ![r] = run'[r]]
         /\ run'[r].pc = pc /\ run'[r].persisted = persisted /\ run'[r].told = answer
         /\ run'[r].receipt = run[r].receipt /\ (Built(r)' <=> Built(r))
<1> DEFINE x == [pc |-> pc, snapshot |-> run[r].snapshot, cap |-> run[r].cap, receipt |-> run[r].receipt,
                 persisted |-> persisted, told |-> answer]
<1>1. x \in ARun
  BY DEF MaintenanceIInv, ARun
<1>2. run'[r] = x /\ run' = [run EXCEPT ![r] = x]
  BY DEF MaintenanceIInv, Left
<1> QED
  BY <1>1, <1>2 DEF Built

(* x with its place, its success and its message set.                      *)
Set(x, pc, persisted, answer) ==
  [pc |-> pc, snapshot |-> x.snapshot, cap |-> x.cap, receipt |-> x.receipt, persisted |-> persisted, told |-> answer]

LEMMA SetsOne ==
  ASSUME NEW x, x = Set(x, x.pc, x.persisted, x.told), NEW pc
  PROVE  [x EXCEPT !.pc = pc] = Set(x, pc, x.persisted, x.told)
<1> DEFINE y == [x EXCEPT !.pc = pc]
<1>1. y = Set(x, pc, x.persisted, x.told)
  BY DEF Set
<1> QED
  BY <1>1

LEMMA SetsTold ==
  ASSUME NEW x, x = Set(x, x.pc, x.persisted, x.told), NEW pc, NEW answer
  PROVE  [x EXCEPT !.pc = pc, !.told = answer] = Set(x, pc, x.persisted, answer)
<1> DEFINE y == [x EXCEPT !.pc = pc]
           z == [y EXCEPT !.told = answer]
<1>1. y = Set(x, pc, x.persisted, x.told)
  BY DEF Set
<1>2. z = [x EXCEPT !.pc = pc, !.told = answer]
  OBVIOUS
<1> HIDE DEF y
<1>3. z = Set(x, pc, x.persisted, answer)
  BY <1>1 DEF Set
<1> HIDE DEF z
<1> QED
  BY <1>2, <1>3

LEMMA SetsPersisted ==
  ASSUME NEW x, x = Set(x, x.pc, x.persisted, x.told), NEW pc, NEW persisted
  PROVE  [x EXCEPT !.pc = pc, !.persisted = persisted] = Set(x, pc, persisted, x.told)
<1> DEFINE y == [x EXCEPT !.pc = pc]
           z == [y EXCEPT !.persisted = persisted]
<1>1. y = Set(x, pc, x.persisted, x.told)
  BY DEF Set
<1>2. z = [x EXCEPT !.pc = pc, !.persisted = persisted]
  OBVIOUS
<1> HIDE DEF y
<1>3. z = Set(x, pc, persisted, x.told)
  BY <1>1 DEF Set
<1> HIDE DEF z
<1> QED
  BY <1>2, <1>3

LEMMA RunSetsOne ==
  ASSUME MaintenanceIInv, NEW r \in Run, NEW pc, run' = [run EXCEPT ![r].pc = pc]
  PROVE  run' = [run EXCEPT ![r] = Set(run[r], pc, run[r].persisted, run[r].told)]
<1>1. run' = [run EXCEPT ![r] = [run[r] EXCEPT !.pc = pc]]
  BY DEF MaintenanceIInv
<1>2. run[r] = Set(run[r], run[r].pc, run[r].persisted, run[r].told)
  BY DEF MaintenanceIInv, ARun, Set
<1>3. [run[r] EXCEPT !.pc = pc] = Set(run[r], pc, run[r].persisted, run[r].told)
  BY <1>2, SetsOne
<1> QED
  BY <1>1, <1>3

LEMMA RunSetsTold ==
  ASSUME MaintenanceIInv, NEW r \in Run, NEW pc, NEW answer, run' = [run EXCEPT ![r].pc = pc, ![r].told = answer]
  PROVE  run' = [run EXCEPT ![r] = Set(run[r], pc, run[r].persisted, answer)]
<1>1. run' = [run EXCEPT ![r] = [run[r] EXCEPT !.pc = pc, !.told = answer]]
  BY DEF MaintenanceIInv
<1>2. run[r] = Set(run[r], run[r].pc, run[r].persisted, run[r].told)
  BY DEF MaintenanceIInv, ARun, Set
<1>3. [run[r] EXCEPT !.pc = pc, !.told = answer] = Set(run[r], pc, run[r].persisted, answer)
  <2> DEFINE x == run[r]
  <2>1. x = Set(x, x.pc, x.persisted, x.told)
    BY <1>2
  <2> HIDE DEF x
  <2>2. [x EXCEPT !.pc = pc, !.told = answer] = Set(x, pc, x.persisted, answer)
    BY <2>1, SetsTold, ZenonT(60)
  <2> QED
    BY <2>2 DEF x
<1> QED
  BY <1>1, <1>3

LEMMA RunSetsPersisted ==
  ASSUME MaintenanceIInv, NEW r \in Run, NEW pc, NEW persisted, run' = [run EXCEPT ![r].pc = pc, ![r].persisted = persisted]
  PROVE  run' = [run EXCEPT ![r] = Set(run[r], pc, persisted, run[r].told)]
<1>1. run' = [run EXCEPT ![r] = [run[r] EXCEPT !.pc = pc, !.persisted = persisted]]
  BY DEF MaintenanceIInv
<1>2. run[r] = Set(run[r], run[r].pc, run[r].persisted, run[r].told)
  BY DEF MaintenanceIInv, ARun, Set
<1>3. [run[r] EXCEPT !.pc = pc, !.persisted = persisted] = Set(run[r], pc, persisted, run[r].told)
  <2> DEFINE x == run[r]
  <2>1. x = Set(x, x.pc, x.persisted, x.told)
    BY <1>2
  <2> HIDE DEF x
  <2>2. [x EXCEPT !.pc = pc, !.persisted = persisted] = Set(x, pc, persisted, x.told)
    BY <2>1, SetsPersisted
  <2> QED
    BY <2>2 DEF x
<1> QED
  BY <1>1, <1>3

LEMMA RunsLeave ==
  ASSUME MaintenanceConstants, MaintenanceIInv, NEW r \in Run
  PROVE  /\ Maintenance!MakeLock(r) =>
              /\ UNCHANGED file /\ run[r].pc = "lock"
              /\ \/ lock = Blank /\ lock' = r /\ Left(r, "open", run[r].persisted, run[r].told)
                 \/ lock # Blank /\ UNCHANGED lock /\ Left(r, "ended", run[r].persisted, "locked")
         /\ Maintenance!Open(r) \/ Maintenance!Write(r) \/ Maintenance!Finish(r) =>
              /\ UNCHANGED lock /\ run[r].pc \in {"open", "write", "finish"}
              /\ file' = file \/ (\E content : file' = [file EXCEPT ![r] = content])
              /\ \E pc \in Inside : Left(r, pc, run[r].persisted, run[r].told)
         /\ Maintenance!ReadBack(r) =>
              /\ UNCHANGED <<file, lock>> /\ run[r].pc = "readback"
              /\ \E persisted \in BOOLEAN :
                   (persisted => file[r] = run[r].receipt \/ run[r].persisted) /\ Left(r, "release", persisted, run[r].told)
         /\ Maintenance!Release(r) =>
              /\ UNCHANGED file /\ run[r].pc = "release"
              /\ \/ lock' = Blank /\ Left(r, "ended", run[r].persisted, IF run[r].persisted THEN "written" ELSE "failed")
                 \/ UNCHANGED lock /\ Left(r, "ended", run[r].persisted, IF run[r].persisted THEN "unreleased" ELSE "failed")
         /\ Maintenance!Crash(r) =>
              /\ UNCHANGED <<file, lock>> /\ run[r].pc \notin {"idle", "ended"}
              /\ Left(r, "ended", run[r].persisted, run[r].told)
<1> USE DEF Left, Set, Inside, Maintenance!At
<1>1. ASSUME Maintenance!MakeLock(r)
      PROVE  /\ UNCHANGED file /\ run[r].pc = "lock"
             /\ \/ lock = Blank /\ lock' = r /\ Left(r, "open", run[r].persisted, run[r].told)
                \/ lock # Blank /\ UNCHANGED lock /\ Left(r, "ended", run[r].persisted, "locked")
  <2>1. CASE lock = Blank
    BY <1>1, <2>1, RunSetsOne DEF Maintenance!MakeLock
  <2>2. CASE lock # Blank
    <3>1. run' = [run EXCEPT ![r].pc = "ended", ![r].told = "locked"] /\ UNCHANGED <<file, lock>> /\ run[r].pc = "lock"
      BY <1>1, <2>2 DEF Maintenance!MakeLock, Maintenance!Locked
    <3>2. run' = [run EXCEPT ![r] = Set(run[r], "ended", run[r].persisted, "locked")]
      BY <3>1, RunSetsTold
    <3> QED
      BY <2>2, <3>1, <3>2
  <2> QED
    BY <2>1, <2>2
<1>2. ASSUME NEW from, NEW to \in Inside, NEW content, Maintenance!Step(r, from, to, content)
      PROVE  /\ UNCHANGED lock /\ run[r].pc = from
             /\ file' = file \/ (\E x : file' = [file EXCEPT ![r] = x])
             /\ \E pc \in Inside : Left(r, pc, run[r].persisted, run[r].told)
  BY <1>2, RunSetsOne DEF Maintenance!Step
<1>3. ASSUME Maintenance!ReadBack(r)
      PROVE  /\ UNCHANGED <<file, lock>> /\ run[r].pc = "readback"
             /\ \E persisted \in BOOLEAN :
                  (persisted => file[r] = run[r].receipt \/ run[r].persisted) /\ Left(r, "release", persisted, run[r].told)
  <2>1. run[r].persisted \in BOOLEAN
    BY DEF MaintenanceIInv, ARun
  <2>2. /\ UNCHANGED <<file, lock>> /\ run[r].pc = "readback"
        /\ \/ run' = [run EXCEPT ![r].pc = "release", ![r].persisted = (file[r] = run[r].receipt)]
           \/ run' = [run EXCEPT ![r].pc = "release"]
    BY <1>3 DEF Maintenance!ReadBack
  <2>3. CASE run' = [run EXCEPT ![r].pc = "release", ![r].persisted = (file[r] = run[r].receipt)]
    <3> DEFINE persisted == (file[r] = run[r].receipt)
    <3>1. run' = [run EXCEPT ![r].pc = "release", ![r].persisted = persisted]
      BY <2>3
    <3>2. persisted \in BOOLEAN /\ (persisted => file[r] = run[r].receipt)
      OBVIOUS
    <3> HIDE DEF persisted
    <3>3. run' = [run EXCEPT ![r] = Set(run[r], "release", persisted, run[r].told)]
      BY <3>1, RunSetsPersisted
    <3> QED
      BY <2>2, <3>2, <3>3
  <2>4. CASE run' = [run EXCEPT ![r].pc = "release"]
    BY <2>1, <2>2, <2>4, RunSetsOne
  <2> QED
    BY <2>2, <2>3, <2>4
<1>4. ASSUME Maintenance!Release(r)
      PROVE  /\ UNCHANGED file /\ run[r].pc = "release"
             /\ \/ lock' = Blank /\ Left(r, "ended", run[r].persisted, IF run[r].persisted THEN "written" ELSE "failed")
                \/ UNCHANGED lock /\ Left(r, "ended", run[r].persisted, IF run[r].persisted THEN "unreleased" ELSE "failed")
  <2> DEFINE written == IF run[r].persisted THEN "written" ELSE "failed"
             unreleased == IF run[r].persisted THEN "unreleased" ELSE "failed"
  <2>1. /\ UNCHANGED file /\ run[r].pc = "release"
        /\ \/ lock' = Blank /\ run' = [run EXCEPT ![r].pc = "ended", ![r].told = written]
           \/ UNCHANGED lock /\ run' = [run EXCEPT ![r].pc = "ended", ![r].told = unreleased]
    BY <1>4 DEF Maintenance!Release
  <2> HIDE DEF written, unreleased
  <2>2. \/ lock' = Blank /\ run' = [run EXCEPT ![r] = Set(run[r], "ended", run[r].persisted, written)]
        \/ UNCHANGED lock /\ run' = [run EXCEPT ![r] = Set(run[r], "ended", run[r].persisted, unreleased)]
    BY <2>1, RunSetsTold
  <2> QED
    BY <2>1, <2>2 DEF written, unreleased
<1>5. ASSUME Maintenance!Crash(r)
      PROVE  /\ UNCHANGED <<file, lock>> /\ run[r].pc \notin {"idle", "ended"}
             /\ Left(r, "ended", run[r].persisted, run[r].told)
  BY <1>5, RunSetsOne DEF Maintenance!Crash
<1> QED
  BY <1>1, <1>2, <1>3, <1>4, <1>5 DEF Maintenance!Open, Maintenance!Write, Maintenance!Finish

LEMMA BuildKeeps ==
  ASSUME MaintenanceConstants, MaintenanceIInv, NEW r \in Run, Maintenance!Build(r)
  PROVE  MaintenanceIInv'
<1>1. PICK s \in Snapshot, cap \in 1..MaximumBatch :
        run' = [run EXCEPT ![r] =
          IF Maintenance!Acceptable(s, cap)
          THEN [Maintenance!NoRun EXCEPT !.pc = "lock", !.snapshot = s, !.cap = cap, !.receipt = Maintenance!Receipt(s, cap)]
          ELSE [Maintenance!NoRun EXCEPT !.pc = "ended", !.told = "refused"]]
  BY DEF Maintenance!Build
<1>2. UNCHANGED <<file, lock>> /\ lock # r
  BY DEF Maintenance!Build, Maintenance!At, MaintenanceIInv, RunHolds, Inside
<1>3. CASE Maintenance!Acceptable(s, cap)
  <2> DEFINE x == [pc |-> "lock", snapshot |-> s, cap |-> cap, receipt |-> Maintenance!Receipt(s, cap),
                   persisted |-> FALSE, told |-> Blank]
  <2>1. run' = [run EXCEPT ![r] = x]
    <3>1. PICK y : /\ y = [Maintenance!NoRun EXCEPT !.pc = "lock", !.snapshot = s, !.cap = cap,
                                                    !.receipt = Maintenance!Receipt(s, cap)]
                   /\ run' = [run EXCEPT ![r] = y]
      BY <1>1, <1>3
    <3>2. y = x
      BY <3>1 DEF Maintenance!NoRun
    <3> QED
      BY <3>1, <3>2
  <2>2. x \in ARun
    <3>1. Maintenance!Receipt(s, cap) \in Receipts
      BY DEF Receipts
    <3>2. cap \in 0..MaximumBatch
      BY DEF MaintenanceConstants
    <3> QED
      BY <3>1, <3>2 DEF ARun
  <2>3. run'[r] = x
    BY <2>1 DEF MaintenanceIInv
  <2>4. RunHolds(r)'
    BY <1>2, <1>3, <2>3 DEF RunHolds, Built, Inside, MaintenanceConstants
  <2> QED
    BY <1>2, <2>1, <2>2, <2>4, OthersHold
<1>4. CASE ~Maintenance!Acceptable(s, cap)
  <2> DEFINE x == [pc |-> "ended", snapshot |-> Blank, cap |-> 0, receipt |-> Blank, persisted |-> FALSE, told |-> "refused"]
  <2>1. run' = [run EXCEPT ![r] = x]
    <3>1. PICK y : /\ y = [Maintenance!NoRun EXCEPT !.pc = "ended", !.told = "refused"]
                   /\ run' = [run EXCEPT ![r] = y]
      BY <1>1, <1>4
    <3>2. y = x
      BY <3>1 DEF Maintenance!NoRun
    <3> QED
      BY <3>1, <3>2
  <2>2. x \in ARun
    BY DEF ARun, MaintenanceConstants
  <2>3. run'[r] = x
    BY <2>1 DEF MaintenanceIInv
  <2>4. RunHolds(r)'
    BY <1>2, <2>3 DEF RunHolds, Inside
  <2> QED
    BY <1>2, <2>1, <2>2, <2>4, OthersHold
<1> QED
  BY <1>3, <1>4

LEMMA RunKeeps ==
  ASSUME MaintenanceConstants, MaintenanceIInv, NEW r \in Run,
         \/ Maintenance!MakeLock(r) \/ Maintenance!Open(r) \/ Maintenance!Write(r) \/ Maintenance!Finish(r)
         \/ Maintenance!ReadBack(r) \/ Maintenance!Release(r) \/ Maintenance!Crash(r)
  PROVE  MaintenanceIInv'
<1>0. RunHolds(r) /\ run[r] \in ARun
  BY DEF MaintenanceIInv
<1>a. \A pc \in {"idle", "lock", "ended"} \union Inside, persisted \in BOOLEAN,
        answer \in {Blank, "refused", "locked", "written", "unreleased", "failed"} :
        Left(r, pc, persisted, answer) =>
          /\ run'[r] \in ARun /\ run' = [run EXCEPT ![r] = run'[r]]
          /\ run'[r].pc = pc /\ run'[r].persisted = persisted /\ run'[r].told = answer
          /\ run'[r].receipt = run[r].receipt /\ (Built(r)' <=> Built(r))
  BY LeftIs
<1>b. run[r].persisted \in BOOLEAN /\ run[r].told \in {Blank, "refused", "locked", "written", "unreleased", "failed"}
  BY <1>0 DEF ARun
<1>1. CASE Maintenance!MakeLock(r)
  <2>1. /\ UNCHANGED file /\ run[r].pc = "lock"
        /\ \/ lock = Blank /\ lock' = r /\ Left(r, "open", run[r].persisted, run[r].told)
           \/ lock # Blank /\ UNCHANGED lock /\ Left(r, "ended", run[r].persisted, "locked")
    BY <1>1, RunsLeave
  <2>2. run'[r] \in ARun /\ run' = [run EXCEPT ![r] = run'[r]] /\ RunHolds(r)'
    BY <1>0, <1>a, <1>b, <2>1 DEF RunHolds, Inside
  <2> QED
    BY <2>1, <2>2, OthersHold
<1>2. CASE Maintenance!Open(r) \/ Maintenance!Write(r) \/ Maintenance!Finish(r)
  <2>1. /\ UNCHANGED lock /\ run[r].pc \in {"open", "write", "finish"}
        /\ file' = file \/ (\E content : file' = [file EXCEPT ![r] = content])
        /\ \E pc \in Inside : Left(r, pc, run[r].persisted, run[r].told)
    BY <1>2, RunsLeave
  <2>2. run'[r] \in ARun /\ run' = [run EXCEPT ![r] = run'[r]] /\ RunHolds(r)'
    BY <1>0, <1>a, <1>b, <2>1 DEF RunHolds, Inside
  <2> QED
    BY <2>1, <2>2, OthersHold
<1>3. CASE Maintenance!ReadBack(r)
  <2>1. /\ UNCHANGED <<file, lock>> /\ run[r].pc = "readback"
        /\ \E persisted \in BOOLEAN :
             (persisted => file[r] = run[r].receipt \/ run[r].persisted) /\ Left(r, "release", persisted, run[r].told)
    BY <1>3, RunsLeave
  <2>2. run'[r] \in ARun /\ run' = [run EXCEPT ![r] = run'[r]] /\ RunHolds(r)'
    BY <1>0, <1>a, <1>b, <2>1 DEF RunHolds, Inside, MaintenanceConstants
  <2> QED
    BY <2>1, <2>2, OthersHold
<1>4. CASE Maintenance!Release(r)
  <2>1. /\ UNCHANGED file /\ run[r].pc = "release"
        /\ \/ lock' = Blank /\ Left(r, "ended", run[r].persisted, IF run[r].persisted THEN "written" ELSE "failed")
           \/ UNCHANGED lock /\ Left(r, "ended", run[r].persisted, IF run[r].persisted THEN "unreleased" ELSE "failed")
    BY <1>4, RunsLeave
  <2>2. lock = r
    BY <1>0, <2>1 DEF RunHolds, Inside
  <2>3. run'[r] \in ARun /\ run' = [run EXCEPT ![r] = run'[r]] /\ RunHolds(r)'
    BY <1>0, <1>a, <1>b, <2>1, <2>2 DEF RunHolds, Inside, MaintenanceConstants
  <2> QED
    BY <2>1, <2>2, <2>3, OthersHold
<1>5. CASE Maintenance!Crash(r)
  <2>1. /\ UNCHANGED <<file, lock>> /\ run[r].pc \notin {"idle", "ended"}
        /\ Left(r, "ended", run[r].persisted, run[r].told)
    BY <1>5, RunsLeave
  <2>2. run'[r] \in ARun /\ run' = [run EXCEPT ![r] = run'[r]] /\ RunHolds(r)'
    BY <1>0, <1>a, <1>b, <2>1 DEF RunHolds, Inside
  <2> QED
    BY <2>1, <2>2, OthersHold
<1> QED
  BY <1>1, <1>2, <1>3, <1>4, <1>5

LEMMA MaintenanceKept ==
  ASSUME MaintenanceConstants, MaintenanceIInv, [Maintenance!Next]_(Maintenance!vars)
  PROVE  MaintenanceIInv'
<1>1. CASE Maintenance!RemoveStaleLock
  BY <1>1 DEF Maintenance!RemoveStaleLock, Maintenance!Inside, MaintenanceIInv, RunHolds, Built, Inside, MaintenanceConstants
<1>2. CASE UNCHANGED Maintenance!vars
  BY <1>2 DEF Maintenance!vars, MaintenanceIInv, RunHolds, Built
<1> QED
  BY <1>1, <1>2, BuildKeeps, RunKeeps DEF Maintenance!Next

LEMMA ReceiptsFollow == ASSUME MaintenanceConstants, MaintenanceIInv PROVE ReceiptsHold
<1>1. Maintenance!Inside = {r \in Run : run[r].pc \in Inside}
  BY DEF Maintenance!Inside, Inside
<1>2. Maintenance!LockHolds
  BY <1>1 DEF MaintenanceIInv, RunHolds, Maintenance!LockHolds, MaintenanceConstants
<1>3. ASSUME NEW r \in Run, run[r].told = "written"
      PROVE  file[r] = run[r].receipt /\ ListsOldest(file[r], run[r].snapshot, run[r].cap)
  <2>1. Built(r) /\ file[r] = run[r].receipt
    BY <1>3 DEF MaintenanceIInv, RunHolds
  <2> QED
    BY <2>1, ReceiptLists DEF Built, MaintenanceConstants
<1>4. Maintenance!WrittenHolds
  <2> SUFFICES ASSUME NEW r \in Run, run[r].told = "written"
               PROVE  LET receipt == file[r]
                          s == run[r].snapshot
                          kept == {c \in s.linked : c.path \notin receipt.linked}
                      IN /\ receipt = run[r].receipt
                         /\ receipt.linked \intersect receipt.orphan = {}
                         /\ Maintenance!Cardinality(receipt.linked) <= run[r].cap
                         /\ \A c \in s.linked \ kept, d \in kept :
                              Maintenance!LinkedEligible(d) => Maintenance!Before(c, d)
    BY DEF Maintenance!WrittenHolds
  <2>1. file[r] = run[r].receipt /\ ListsOldest(file[r], run[r].snapshot, run[r].cap)
    BY <1>3
  <2> QED
    BY <2>1, SameCardinality DEF ListsOldest
<1> QED
  BY <1>2, <1>4 DEF ReceiptsHold, Maintenance!ReceiptsHold

(* One run of the report writes at a time and the lock is its own; a       *)
(* receipt said to be written is whole, lists no more than the batch, the  *)
(* oldest of what may go, and nothing twice (maintenance-receipt.ts,       *)
(* maintenance-report.ts, image-cleanup-policy.ts:28-66).                  *)
THEOREM ReportsAreWhole ==
  ASSUME MaintenanceConstants
  PROVE  Maintenance!Spec => []ReceiptsHold
BY MaintenanceInit, MaintenanceKept, ReceiptsFollow, PTL DEF Maintenance!Spec

-----------------------------------------------------------------------------
(* The activation of production.  What a start was allowed on stays with   *)
(* the process; only the time, the installation and the evidence move on.  *)
ActivationConstants == Artifact # {} /\ Site # {} /\ Topology # {} /\ \A stage \in Activation!Stage : MaxLifetime[stage] \in Nat

Binding == [site : Site, artifact : Artifact]

AllBindings == [Activation!Stage -> Binding \union {Nothing}]

ActivationTyped ==
  /\ now \in Nat
  /\ machine \in [artifact : Artifact, topology : Topology]
  /\ env \in [stage : Activation!Stage, site : Site, activation : issued \union {Nothing}]
  /\ bindings \in AllBindings
  /\ \A a \in issued : a.document.bindings \in AllBindings /\ a.issued \in Nat

(* A process runs what its activation is for, and the readiness of that    *)
(* held when it was issued.                                                *)
ProcessFit ==
  LET a == process.activation
  IN  /\ process.stage \in Activation!Stage /\ process.site \in Site
      /\ a.stage = process.stage /\ a.site = process.site
      /\ a.artifact = process.artifact /\ a.topology = process.topology
      /\ a.issued \in Nat /\ a.issued <= now /\ a.expires - a.issued \in 1..MaxLifetime[a.stage]
      /\ a.document.bindings \in AllBindings
      /\ Activation!ReadinessHolds(a.stage, a.document, [site |-> process.site, artifact |-> a.artifact], a.issued)

ActivationIInv == ActivationTyped /\ (process # Activation!Down => ProcessFit)

LEMMA ActivationInit == ASSUME ActivationConstants, Activation!Init PROVE ActivationIInv
<1>1. /\ (CHOOSE a \in Artifact : TRUE) \in Artifact /\ (CHOOSE s \in Site : TRUE) \in Site
      /\ (CHOOSE t \in Topology : TRUE) \in Topology
  BY DEF ActivationConstants
<1>2. now \in Nat /\ issued = {} /\ process = Activation!Down
  BY DEF Activation!Init
<1>3. machine \in [artifact : Artifact, topology : Topology]
  BY <1>1 DEF Activation!Init
<1>4. env \in [stage : Activation!Stage, site : Site, activation : issued \union {Nothing}]
  BY <1>1 DEF Activation!Init, Activation!Stage
<1>5. bindings \in AllBindings
  BY DEF Activation!Init, AllBindings
<1> QED
  BY <1>2, <1>3, <1>4, <1>5 DEF ActivationIInv, ActivationTyped

LEMMA StartFits ==
  ASSUME ActivationConstants, ActivationTyped, Activation!Start
  PROVE  ProcessFit'
<1> DEFINE a == env.activation
<1>1. a # Nothing /\ Activation!StartupAllowed(a) /\ process' = Activation!Running /\ UNCHANGED <<now, env, machine>>
  BY DEF Activation!Start
<1>2. a \in issued /\ env.stage \in Activation!Stage /\ env.site \in Site
  BY <1>1 DEF ActivationTyped
<1>3. /\ process'.stage = env.stage /\ process'.site = env.site /\ process'.artifact = machine.artifact
      /\ process'.topology = machine.topology /\ process'.activation = a
  BY <1>1 DEF Activation!Running
<1>4. /\ a.stage = env.stage /\ a.site = env.site /\ a.topology = machine.topology /\ a.artifact = machine.artifact
      /\ a.issued <= now /\ a.expires - a.issued \in 1..MaxLifetime[a.stage]
  BY <1>1 DEF Activation!StartupAllowed, Activation!ForThisRuntime, Activation!FilesIntact
<1>5. Activation!ReadinessHolds(a.stage, a.document, [site |-> env.site, artifact |-> a.artifact], a.issued)
  BY <1>1 DEF Activation!StartupAllowed, Activation!EvidenceAsOf
<1>6. a.document.bindings \in AllBindings /\ a.issued \in Nat
  BY <1>2 DEF ActivationTyped
<1>7. Activation!ReadinessHolds(a.stage, a.document, [site |-> process'.site, artifact |-> a.artifact], a.issued)
  BY <1>3, <1>5
<1> QED
  BY <1>1, <1>2, <1>3, <1>4, <1>6, <1>7 DEF ProcessFit

LEMMA ActivationTypedKept ==
  ASSUME ActivationConstants, ActivationTyped, Activation!Next
  PROVE  ActivationTyped' /\ now' >= now
<1> USE DEF ActivationTyped
<1>1. CASE Activation!Issue
  <2>1. PICK lifetime \in 1..MaxLifetime[env.stage] : issued' = issued \union {Activation!Activation(lifetime)}
    BY <1>1 DEF Activation!Issue
  <2>2. UNCHANGED <<now, machine, env, bindings>>
    BY <1>1 DEF Activation!Issue
  <2>3. /\ Activation!Activation(lifetime).document.bindings \in AllBindings
        /\ Activation!Activation(lifetime).issued \in Nat
    BY DEF Activation!Activation, Activation!Document
  <2> QED
    BY <2>1, <2>2, <2>3
<1>2. CASE Activation!Bind
  <2>1. Activation!Subject \in Binding
    BY DEF Activation!Subject, Binding
  <2> QED
    BY <1>2, <2>1 DEF Activation!Bind, AllBindings
<1>3. CASE Activation!Deploy
  BY <1>3 DEF Activation!Deploy
<1>4. CASE Activation!Render
  <2>1. PICK stage \in Activation!Stage, site \in Site : env' = [env EXCEPT !.stage = stage, !.site = site]
    BY <1>4 DEF Activation!Render
  <2>2. env' = [stage |-> stage, site |-> site, activation |-> env.activation]
    BY <2>1
  <2> QED
    BY <1>4, <2>2 DEF Activation!Render
<1>5. CASE Activation!Adopt
  <2>1. PICK activation \in issued : env' = [env EXCEPT !.activation = activation]
    BY <1>5 DEF Activation!Adopt
  <2> QED
    BY <1>5, <2>1 DEF Activation!Adopt
<1>6. CASE Activation!Tick
  BY <1>6 DEF Activation!Tick
<1>7. CASE Activation!Start \/ Activation!End \/ Activation!Capture \/ Activation!Prune
  BY <1>7 DEF Activation!Start, Activation!End, Activation!Capture, Activation!Prune
<1> QED
  BY <1>1, <1>2, <1>3, <1>4, <1>5, <1>6, <1>7 DEF Activation!Next

LEMMA ActivationKept ==
  ASSUME ActivationConstants, ActivationIInv, [Activation!Next]_(Activation!vars)
  PROVE  ActivationIInv'
<1>1. CASE Activation!Next
  <2>1. ActivationTyped' /\ now' >= now /\ now \in Nat /\ now' \in Nat
    BY <1>1, ActivationTypedKept DEF ActivationIInv, ActivationTyped
  <2>2. \/ Activation!Start \/ process' = Activation!Down \/ UNCHANGED process
    BY <1>1
    DEF Activation!Next, Activation!Issue, Activation!End, Activation!Capture, Activation!Prune, Activation!Bind,
        Activation!Deploy, Activation!Render, Activation!Adopt, Activation!Tick
  <2>3. ASSUME UNCHANGED process, ProcessFit PROVE ProcessFit'
    BY <2>1, <2>3 DEF ProcessFit
  <2> QED
    BY <2>1, <2>2, <2>3, StartFits DEF ActivationIInv
<1>2. CASE UNCHANGED Activation!vars
  BY <1>2 DEF Activation!vars, ActivationIInv, ActivationTyped, ProcessFit
<1> QED
  BY <1>1, <1>2

LEMMA FitIsShown == ASSUME ActivationConstants, ActivationIInv PROVE StartedOnEvidence
<1> SUFFICES ASSUME process # Activation!Down
             PROVE  \E pilot \in Site : \A gate \in Activation!RequiredGates(process.stage) :
                      \A check \in Activation!Checks(gate) : \E r \in process.activation.document.receipts :
                        /\ r.gate = gate /\ r.stage = Activation!EvidenceStage(gate) /\ check \in r.checks
                        /\ Activation!ShownFit(r, pilot)
  BY DEF StartedOnEvidence, Activation!StartedOnEvidence
<1> DEFINE a == process.activation
           bound == a.document.bindings
           pilot == IF bound["pilot"] = Nothing THEN process.site ELSE bound["pilot"].site
<1>1. ProcessFit
  BY DEF ActivationIInv
<1>2. pilot \in Site
  BY <1>1 DEF ProcessFit, AllBindings, Binding, Activation!Stage
<1>3. /\ bound[process.stage] = [site |-> process.site, artifact |-> process.artifact]
      /\ process.stage = "release" /\ bound["pilot"] # Nothing =>
           bound["pilot"].artifact = process.artifact
  BY <1>1 DEF ProcessFit, Activation!ReadinessHolds, Activation!BindsExactly, Activation!OneArtifact
<1>4. ASSUME NEW gate \in Activation!RequiredGates(process.stage), NEW check \in Activation!Checks(gate)
      PROVE  \E r \in a.document.receipts :
               /\ r.gate = gate /\ r.stage = Activation!EvidenceStage(gate) /\ check \in r.checks
               /\ Activation!ShownFit(r, pilot)
  <2>1. Activation!Verified(gate, a.document, a.issued)
    BY <1>1 DEF ProcessFit, Activation!ReadinessHolds
  <2>2. PICK r \in Activation!Matching(gate, a.document, a.issued) : check \in r.checks
    BY <2>1 DEF Activation!Verified, Activation!ObservedChecks
  <2>3. /\ r \in a.document.receipts /\ r.gate = gate /\ r.stage = Activation!EvidenceStage(gate)
        /\ Activation!SubjectOf(r) = bound[r.stage] /\ Activation!RelatesToPilot(r, a.document)
        /\ Activation!Fresh(r, a.issued)
    BY <2>2 DEF Activation!Matching
  <2>4. bound[r.stage] # Nothing /\ r.site = bound[r.stage].site /\ r.artifact = bound[r.stage].artifact
    BY <2>1, <2>3 DEF Activation!Verified, Activation!SubjectOf
  <2>5. process.stage = "release" \/ (process.stage = "pilot" /\ r.stage = "pilot")
    BY <1>1, <2>3 DEF ProcessFit, Activation!Stage, Activation!RequiredGates, Activation!EvidenceStage
  <2>6. r.stage \in {"pilot", "release"}
    BY <2>3 DEF Activation!EvidenceStage
  <2>7. r.artifact = process.artifact
    BY <1>3, <2>4, <2>5, <2>6
  <2>8. r.site = IF r.stage = process.stage THEN process.site ELSE pilot
    BY <1>3, <2>4, <2>5, <2>6
  <2>9. r.gate = "cutover" => r.related = pilot
    BY <2>3 DEF Activation!RelatesToPilot
  <2>10. r.captured + MaxAge >= a.issued
    BY <2>3 DEF Activation!Fresh
  <2> QED
    BY <2>2, <2>3, <2>7, <2>8, <2>9, <2>10 DEF Activation!ShownFit
<1> QED
  BY <1>2, <1>4

LEMMA FitStartsAgain == ASSUME ActivationConstants, ActivationIInv PROVE ActivationHolds
<1>1. ASSUME process # Activation!Down, Activation!Unchanged
      PROVE  Activation!StartupAllowed(env.activation)
  <2> DEFINE a == env.activation
  <2>1. ProcessFit
    BY <1>1 DEF ActivationIInv
  <2>2. /\ process.activation = a /\ process.stage = env.stage /\ process.site = env.site
        /\ process.artifact = machine.artifact /\ process.topology = machine.topology
    BY <1>1 DEF Activation!Unchanged, Activation!Running
  <2>3. a.document.receipts \subseteq evidence /\ now < a.expires
    BY <1>1, <2>2 DEF Activation!Unchanged
  <2>4. now \in Nat /\ a.issued \in Nat /\ a.expires > now
    BY <2>1, <2>2, <2>3 DEF ActivationIInv, ActivationTyped, ProcessFit
  <2>5. Activation!ForThisRuntime(a) /\ Activation!FilesIntact(a)
    BY <2>1, <2>2, <2>3, <2>4 DEF ProcessFit, Activation!ForThisRuntime, Activation!FilesIntact
  <2>6. Activation!ReadinessHolds(a.stage, a.document, [site |-> env.site, artifact |-> a.artifact], a.issued)
    BY <2>1, <2>2 DEF ProcessFit
  <2> QED
    BY <2>5, <2>6 DEF Activation!StartupAllowed, Activation!EvidenceAsOf
<1>2. ASSUME Activation!Green, NEW n \in 1..MaxLifetime[env.stage]
      PROVE  Activation!StartupAllowed(Activation!Activation(n))
  <2> DEFINE a == Activation!Activation(n)
  <2>1. /\ a.stage = env.stage /\ a.site = env.site /\ a.artifact = machine.artifact /\ a.topology = machine.topology
        /\ a.issued = now /\ a.expires = now + n /\ a.document = Activation!Document
    BY DEF Activation!Activation
  <2>2. now \in Nat /\ MaxLifetime[env.stage] \in Nat
    BY DEF ActivationIInv, ActivationTyped, ActivationConstants
  <2>3. Activation!ForThisRuntime(a) /\ Activation!FilesIntact(a)
    BY <2>1, <2>2 DEF Activation!ForThisRuntime, Activation!FilesIntact, Activation!Document
  <2>4. /\ Activation!BindsExactly(env.stage, Activation!Document, Activation!Subject)
        /\ \A gate \in Activation!RequiredGates(env.stage) : Activation!Verified(gate, Activation!Document, now)
    BY <1>2 DEF Activation!Green, Activation!Blockers
  <2>5. Activation!ReadinessHolds(a.stage, a.document, [site |-> env.site, artifact |-> a.artifact], a.issued)
    BY <2>1, <2>4 DEF Activation!ReadinessHolds, Activation!Subject
  <2> HIDE DEF a
  <2>6. Activation!StartupAllowed(a)
    BY <2>3, <2>5 DEF Activation!StartupAllowed, Activation!EvidenceAsOf
  <2> QED
    BY <2>6 DEF a
<1> QED
  BY <1>1, <1>2 DEF ActivationHolds, Activation!ActivationHolds, Activation!Resurrects, Activation!GreenIsAccepted

(* What a production process runs was shown fit when its activation was    *)
(* issued: every required check, on this very artifact, on this site or,   *)
(* for what a pilot shows before a release, on one pilot site, the one the *)
(* cutover was rehearsed from (production-startup.ts:353-541).             *)
THEOREM StartsRestOnEvidence ==
  ASSUME ActivationConstants
  PROVE  Activation!Spec => []StartedOnEvidence
BY ActivationInit, ActivationKept, FitIsShown, PTL DEF Activation!Spec

(* A process that ran comes back until its activation expires, if nothing  *)
(* it is bound to changed; and what the verifier calls green, the start    *)
(* accepts (production-startup.ts:422-424,                                 *)
(* verify-production-readiness.mjs:81-137).                                *)
THEOREM StartsComeBack ==
  ASSUME ActivationConstants
  PROVE  Activation!Spec => []ActivationHolds
BY ActivationInit, ActivationKept, FitStartsAgain, PTL DEF Activation!Spec

-----------------------------------------------------------------------------
(* The history.  Links sort by their numbers, so that every rank up to the *)
(* number of links is that of one; and a cached summary was summed for its *)
(* date, no longer than a command before it was cached.                    *)
HistoryConstants ==
  /\ Mine \in SUBSET Nat /\ IsFiniteSet(Mine) /\ Mine # {}
  /\ PerPage \in Nat \ {0} /\ Wanted \in SUBSET (Nat \ {0})
  /\ SummaryTtl \in Nat /\ CommandTime \in Nat /\ Day \in Nat \ {0}

LEMMA HistoryCardinality == ASSUME NEW S PROVE History!Cardinality(S) = Cardinality(S)
BY DEF History!Cardinality, Cardinality, History!IsFiniteSet, IsFiniteSet

LEMMA LargestIs ==
  ASSUME NEW x \in Int, NEW y \in Int
  PROVE  History!Max({x, y}) = IF x >= y THEN x ELSE y
<1> DEFINE m == IF x >= y THEN x ELSE y
<1>1. m \in {x, y} /\ \A z \in {x, y} : m >= z
  OBVIOUS
<1>2. \A w \in {x, y} : (\A z \in {x, y} : w >= z) => w = m
  OBVIOUS
<1> QED
  BY <1>1, <1>2 DEF History!Max

LEMMA SmallestIs ==
  ASSUME NEW x \in Int, NEW y \in Int
  PROVE  History!Min({x, y}) = IF x <= y THEN x ELSE y
<1> DEFINE m == IF x <= y THEN x ELSE y
<1>1. m \in {x, y} /\ \A z \in {x, y} : m <= z
  OBVIOUS
<1>2. \A w \in {x, y} : (\A z \in {x, y} : w <= z) => w = m
  OBVIOUS
<1> QED
  BY <1>1, <1>2 DEF History!Min

(* The offset of a page is below the number of links, if it is not nought. *)
LEMMA OffsetIs ==
  ASSUME HistoryConstants, NEW wanted \in Nat \ {0}, NEW count \in Nat
  PROVE  /\ History!PageOffset(wanted, count) \in Nat
         /\ History!PageOffset(wanted, count) = 0 \/ History!PageOffset(wanted, count) < count
<1> DEFINE pages == (count + PerPage - 1) \div PerPage
           total == History!Max({1, pages})
           n == History!Min({wanted, total})
<1>0. PerPage \in Nat /\ PerPage > 0
  BY DEF HistoryConstants
<1>1. pages \in Int /\ PerPage * pages <= count + PerPage - 1
  BY <1>0
<1> HIDE DEF pages
<1>2. total \in Int /\ total >= 1 /\ (total = 1 \/ total = pages)
  BY <1>1, LargestIs
<1> HIDE DEF total
<1>3. n \in Int /\ n >= 1 /\ n <= total
  BY <1>2, SmallestIs
<1> HIDE DEF n
<1>4. History!PageOffset(wanted, count) = (n - 1) * PerPage
  BY DEF History!PageOffset, n, total, pages
<1>5. (n - 1) * PerPage \in Nat
  <2>1. n - 1 \in Nat
    BY <1>3
  <2> HIDE DEF n
  <2> QED
    BY <1>0, <2>1
<1>6. CASE n = 1
  BY <1>0, <1>4, <1>5, <1>6
<1>7. CASE n # 1
  <2>1. n <= pages
    BY <1>1, <1>2, <1>3, <1>7
  <2>2. PerPage * n <= PerPage * pages
    BY <1>0, <1>1, <1>3, <2>1
  <2>3. (n - 1) * PerPage = PerPage * n - PerPage
    BY <1>0, <1>3
  <2>4. PerPage * n \in Int /\ PerPage * pages \in Int
    BY <1>0, <1>1, <1>3
  <2> QED
    BY <1>0, <1>1, <1>4, <1>5, <2>2, <2>3, <2>4
<1> QED
  BY <1>6, <1>7


(* Links rank by how many are newer, and every rank below their number is  *)
(* taken.                                                                  *)
Newer(matching, l) == {n \in matching : n > l}

LEMMA NewerAreFewer ==
  ASSUME NEW matching \in SUBSET Nat, IsFiniteSet(matching), NEW l \in matching
  PROVE  /\ Cardinality(Newer(matching, l)) \in 0..(Cardinality(matching) - 1)
         /\ \A n \in matching : n > l => Cardinality(Newer(matching, n)) < Cardinality(Newer(matching, l))
<1>1. ASSUME NEW part \in SUBSET matching
      PROVE  IsFiniteSet(part) /\ Cardinality(part) \in Nat
  BY FS_Subset, FS_CardinalityType
<1>2. Newer(matching, l) \in SUBSET (matching \ {l}) /\ matching \ {l} \in SUBSET matching
  BY DEF Newer
<1>3. IsFiniteSet(matching \ {l}) /\ Cardinality(matching \ {l}) = Cardinality(matching) - 1
  BY <1>2, FS_RemoveElement, FS_Subset
<1>4. Cardinality(Newer(matching, l)) <= Cardinality(matching \ {l})
  BY <1>2, <1>3, FS_Subset
<1>5. Cardinality(Newer(matching, l)) \in Nat /\ Cardinality(matching) \in Nat
  BY <1>1 DEF Newer
<1>6. ASSUME NEW n \in matching, n > l
      PROVE  Cardinality(Newer(matching, n)) < Cardinality(Newer(matching, l))
  <2>1. n \in Newer(matching, l) /\ Newer(matching, n) \in SUBSET (Newer(matching, l) \ {n})
    <3>1. \A m \in matching : m > n => m > l /\ m # n
      BY <1>6
    <3> QED
      BY <1>6, <3>1 DEF Newer
  <2>2. IsFiniteSet(Newer(matching, l)) /\ IsFiniteSet(Newer(matching, l) \ {n})
    BY <1>1 DEF Newer
  <2>3. Cardinality(Newer(matching, l) \ {n}) = Cardinality(Newer(matching, l)) - 1
    BY <2>1, <2>2, FS_RemoveElement
  <2>4. Cardinality(Newer(matching, n)) <= Cardinality(Newer(matching, l) \ {n})
    BY <2>1, <2>2, FS_Subset
  <2>5. Cardinality(Newer(matching, n)) \in Nat
    BY <1>1 DEF Newer
  <2> QED
    BY <1>5, <2>3, <2>4, <2>5
<1> QED
  BY <1>3, <1>4, <1>5, <1>6

LEMMA EveryRankIsTaken ==
  ASSUME NEW matching \in SUBSET Nat, IsFiniteSet(matching),
         NEW rank \in 0..(Cardinality(matching) - 1)
  PROVE  \E l \in matching : Cardinality(Newer(matching, l)) = rank
<1> DEFINE ranks == 0..(Cardinality(matching) - 1)
           f == [l \in matching |-> Cardinality(Newer(matching, l))]
<1>1. Cardinality(matching) \in Nat
  BY FS_CardinalityType
<1>2. IsFiniteSet(ranks) /\ Cardinality(ranks) = Cardinality(matching)
  BY <1>1, FS_Interval
<1>3. f \in Injection(matching, ranks)
  <2>1. f \in [matching -> ranks]
    BY NewerAreFewer
  <2>2. ASSUME NEW l \in matching, NEW n \in matching, f[l] = f[n]
        PROVE  l = n
    <3>1. Cardinality(Newer(matching, l)) = Cardinality(Newer(matching, n))
      BY <2>2
    <3>2. Cardinality(Newer(matching, l)) \in Int /\ l \in Nat /\ n \in Nat
      BY NewerAreFewer
    <3> QED
      BY <3>1, <3>2, NewerAreFewer
  <2> QED
    BY <2>1, <2>2 DEF Injection, IsInjective
<1> HIDE DEF f, ranks
<1>4. f \in Surjection(matching, ranks)
  BY <1>2, <1>3, FS_Injection
<1>5. rank \in ranks
  BY DEF ranks
<1>6. PICK l \in matching : f[l] = rank
  BY <1>4, <1>5 DEF Surjection
<1> QED
  BY <1>6 DEF f

LEMMA WindowIsNotEmpty ==
  ASSUME HistoryConstants, NEW matching \in SUBSET Nat, IsFiniteSet(matching), matching # {},
         NEW offset \in Nat, offset = 0 \/ offset < Cardinality(matching)
  PROVE  History!Window(matching, offset) # {}
<1>1. Cardinality(matching) \in Nat /\ Cardinality(matching) # 0
  BY FS_CardinalityType, FS_EmptySet
<1>2. PICK l \in matching : Cardinality(Newer(matching, l)) = offset
  BY <1>1, EveryRankIsTaken
<1>3. History!Cardinality({n \in matching : n > l}) = offset
  BY <1>2, HistoryCardinality DEF Newer
<1>4. offset \in offset..(offset + PerPage - 1)
  BY DEF HistoryConstants
<1> QED
  BY <1>3, <1>4 DEF History!Window

-----------------------------------------------------------------------------
(* What holds of a page and of the cache.                                  *)
Summary ==
  [pc : {"idle", "cache", "query", "store", "done", "failed"}, of : Int \union {Absent}, at : Nat \union {Absent}, age : Int]

PageType ==
  [pc : {"idle", "count", "list", "all", "failed", "thrown", "gone"}, date : Int \union {Absent}, match : SUBSET (Mine \union {History!Max(Mine)}),
   wanted : Nat \ {0}, offset : Nat, existing : SUBSET Mine, shown : SUBSET Mine,
   disturbed : BOOLEAN, own : Summary, community : Summary]

HistoryTyped ==
  /\ time \in Nat
  /\ links \in SUBSET Mine
  /\ DOMAIN summaries = History!Kind /\ summaries = [k \in History!Kind |-> summaries[k]]
  /\ page \in PageType

(* A stored summary is of the page's date and fresh.                       *)
Fresh(k) ==
  /\ page[k].pc = "done" /\ page[k].of # Absent => page[k].of = page.date /\ page[k].age <= SummaryTtl + CommandTime
  /\ page[k].pc = "store" => page[k].of = page.date /\ page[k].at \in Nat /\ time <= page[k].at + CommandTime

Kept(k) ==
  summaries[k] # Absent => /\ summaries[k].at \in Int /\ summaries[k].until \in Int
                     /\ time <= summaries[k].until /\ summaries[k].until <= summaries[k].at + CommandTime + SummaryTtl

(* What is left to list reaches beyond the offset.                         *)
Reaches ==
  /\ page.pc = "count" => ~page.disturbed
  /\ page.pc = "list" /\ ~page.disturbed =>
       page.offset = 0 \/ page.offset < Cardinality(History!Matching)

HistoryIInv ==
  /\ HistoryTyped
  /\ \A k \in History!Kind : Fresh(k) /\ Kept(k)
  /\ Reaches /\ History!PageNotEmpty

LEMMA HistoryInit == ASSUME HistoryConstants, History!Init PROVE HistoryIInv
<1>1. History!NoSummary \in Summary
  BY DEF History!NoSummary, Summary
<1>2. History!NoPage \in PageType
  BY <1>1 DEF History!NoPage, PageType
<1>3. page = History!NoPage
  BY DEF History!Init
<1> QED
  BY <1>2, <1>3 DEF History!Init, History!NoPage, History!NoSummary, HistoryIInv, HistoryTyped, Fresh,
      Kept, Reaches, History!PageNotEmpty, History!Kind, HistoryConstants

-----------------------------------------------------------------------------
(* The page, as an action leaves it.                                       *)
SamePage(p) ==
  /\ p.pc = page.pc /\ p.date = page.date /\ p.match = page.match /\ p.offset = page.offset
  /\ p.existing = page.existing /\ p.shown = page.shown /\ p.disturbed = page.disturbed

LEMMA SummarySet ==
  ASSUME page \in PageType, NEW k \in History!Kind, NEW STATE x, x \in Summary, page' = [page EXCEPT ![k] = x]
  PROVE  page' \in PageType /\ SamePage(page') /\ page'[k] = x /\ \A j \in History!Kind \ {k} : page'[j] = page[j]
<1>1. CASE k = "own"
  <2>1. page' = [page EXCEPT !.own = x]
    BY <1>1
  <2>2. page' \in PageType /\ SamePage(page') /\ page'.own = x /\ page'.community = page.community
    BY <2>1 DEF PageType, SamePage
  <2> QED
    BY <1>1, <2>2 DEF History!Kind
<1>2. CASE k = "community"
  <2>1. page' = [page EXCEPT !.community = x]
    BY <1>2
  <2>2. page' \in PageType /\ SamePage(page') /\ page'.community = x /\ page'.own = page.own
    BY <2>1 DEF PageType, SamePage
  <2> QED
    BY <1>2, <2>2 DEF History!Kind
<1> QED
  BY <1>1, <1>2 DEF History!Kind

LEMMA SummaryMisses ==
  ASSUME page \in PageType, NEW k \in History!Kind, NEW p, p = [page EXCEPT ![k].pc = "query"]
  PROVE  /\ p \in PageType /\ SamePage(p) /\ p[k].pc = "query"
         /\ \A j \in History!Kind \ {k} : p[j] = page[j]
<1>1. CASE k = "own"
  <2>1. p = [page EXCEPT !.own.pc = "query"]
    BY <1>1
  <2>2. p \in PageType /\ SamePage(p) /\ p.own.pc = "query" /\ p.community = page.community
    BY <2>1 DEF PageType, SamePage, Summary
  <2> QED
    BY <1>1, <2>2 DEF History!Kind
<1>2. CASE k = "community"
  <2>1. p = [page EXCEPT !.community.pc = "query"]
    BY <1>2
  <2>2. p \in PageType /\ SamePage(p) /\ p.community.pc = "query" /\ p.own = page.own
    BY <2>1 DEF PageType, SamePage, Summary
  <2> QED
    BY <1>2, <2>2 DEF History!Kind
<1> QED
  BY <1>1, <1>2 DEF History!Kind

(* A step on the summaries alone leaves the list as it is.                 *)
LEMMA ListFollows ==
  ASSUME HistoryIInv, page' \in PageType, SamePage(page'), UNCHANGED <<time, links>>,
         summaries' = [k \in History!Kind |-> summaries'[k]],
         \A k \in History!Kind : Fresh(k)' /\ Kept(k)'
  PROVE  HistoryIInv'
<1>1. HistoryTyped'
  BY DEF HistoryIInv, HistoryTyped
<1>2. History!Matching' = History!Matching
  BY DEF History!Matching, SamePage
<1>3. Reaches'
  <2>1. page'.pc = "count" => ~page'.disturbed
    BY DEF HistoryIInv, Reaches, SamePage
  <2>2. page'.pc = "list" /\ ~page'.disturbed =>
          page'.offset = 0 \/ page'.offset < Cardinality(History!Matching')
    BY <1>2 DEF HistoryIInv, Reaches, SamePage
  <2> QED
    BY <2>1, <2>2 DEF Reaches
<1>4. History!PageNotEmpty'
  BY DEF HistoryIInv, History!PageNotEmpty, SamePage
<1> QED
  BY <1>1, <1>3, <1>4 DEF HistoryIInv

LEMMA KindKeeps ==
  ASSUME HistoryConstants, HistoryIInv, NEW k \in History!Kind,
         History!OtherWrites(k) \/ History!Hit(k) \/ History!Miss(k) \/ History!Query(k) \/ History!WriteCache(k)
  PROVE  HistoryIInv'
<1>0. /\ page \in PageType /\ time \in Nat /\ \A j \in History!Kind : Fresh(j) /\ Kept(j)
      /\ summaries = [j \in History!Kind |-> summaries[j]] /\ SummaryTtl \in Nat /\ CommandTime \in Nat /\ Day \in Nat \ {0}
  BY DEF HistoryIInv, HistoryTyped, HistoryConstants
<1>a. page[k] \in Summary /\ page.date \in Int \union {Absent}
  BY <1>0 DEF PageType, History!Kind
<1>b. ASSUME NEW at \in Int, time <= at + CommandTime, NEW date,
             summaries' = [summaries EXCEPT ![k] = History!Entry(date, at)], time' = time
      PROVE  summaries' = [j \in History!Kind |-> summaries'[j]] /\ \A j \in History!Kind : Kept(j)'
  <2>1. summaries' = [j \in History!Kind |-> summaries'[j]]
    BY <1>0, <1>b
  <2>2. Kept(k)'
    <3>1. summaries'[k] = [date |-> date, at |-> at, until |-> time + SummaryTtl]
      BY <1>0, <1>b DEF History!Entry
    <3>2. summaries'[k].at = at /\ summaries'[k].until = time + SummaryTtl
      BY <3>1
    <3> QED
      BY <1>0, <1>b, <3>2 DEF Kept
  <2>3. \A j \in History!Kind \ {k} : Kept(j)'
    BY <1>0, <1>b DEF Kept
  <2> QED
    BY <2>1, <2>2, <2>3
<1>c. UNCHANGED <<time, summaries>> => \A j \in History!Kind : Kept(j)'
  BY <1>0 DEF Kept
<1>d. ASSUME NEW p, p \in PageType, SamePage(p), page' = p, time' = time,
             \A j \in History!Kind \ {k} : p[j] = page[j]
      PROVE  \A j \in History!Kind \ {k} : Fresh(j)'
  BY <1>0, <1>d DEF Fresh, SamePage
<1>e. SamePage(page)
  BY DEF SamePage
<1>1. CASE History!OtherWrites(k)
  <2>1. PICK date \in {History!Today, History!Max({0, History!Today - 1})} :
          summaries' = [summaries EXCEPT ![k] = History!Entry(date, History!Max({0, time - CommandTime}))]
    BY <1>1 DEF History!OtherWrites
  <2>2. History!Max({0, time - CommandTime}) \in Int /\ time <= History!Max({0, time - CommandTime}) + CommandTime
    <3>1. time - CommandTime \in Int
      BY <1>0
    <3>2. History!Max({0, time - CommandTime}) = IF 0 >= time - CommandTime THEN 0 ELSE time - CommandTime
      BY <3>1, LargestIs
    <3> QED
      BY <1>0, <3>1, <3>2
  <2>3. UNCHANGED <<time, links, page>>
    BY <1>1 DEF History!OtherWrites
  <2>4. summaries' = [j \in History!Kind |-> summaries'[j]] /\ \A j \in History!Kind : Kept(j)'
    BY <1>b, <2>1, <2>2, <2>3
  <2>5. \A j \in History!Kind : Fresh(j)'
    BY <1>0, <2>3 DEF Fresh
  <2>6. SamePage(page') /\ page' \in PageType
    BY <1>0, <1>e, <2>3 DEF SamePage
  <2> QED
    BY <2>3, <2>4, <2>5, <2>6, ListFollows
<1>2. CASE History!Hit(k)
  <2> DEFINE x == [pc |-> "done", of |-> summaries[k].date, at |-> Absent, age |-> time - summaries[k].at]
  <2>1. page' = [page EXCEPT ![k] = x] /\ UNCHANGED <<time, links, summaries>>
    BY <1>2 DEF History!Hit, History!Resolved
  <2>2. summaries[k] # Absent /\ summaries[k].date = page.date
    BY <1>2 DEF History!Hit, History!InEnvelope
  <2>3. summaries[k].at \in Int /\ time - summaries[k].at <= SummaryTtl + CommandTime
    BY <1>0, <2>2 DEF Kept
  <2>4. x \in Summary
    BY <1>0, <1>a, <2>2, <2>3 DEF Summary
  <2>5. x.pc = "done" /\ x.of = page.date /\ x.age <= SummaryTtl + CommandTime
    BY <2>2, <2>3
  <2> HIDE DEF x
  <2>6. /\ page' \in PageType /\ SamePage(page') /\ page'[k] = x
        /\ \A j \in History!Kind \ {k} : page'[j] = page[j]
    BY <1>0, <2>1, <2>4, SummarySet
  <2>7. \A j \in History!Kind : Fresh(j)'
    <3>1. Fresh(k)'
      BY <2>5, <2>6 DEF Fresh, SamePage
    <3> QED
      BY <1>d, <2>1, <2>6, <3>1
  <2>8. summaries' = [j \in History!Kind |-> summaries'[j]] /\ \A j \in History!Kind : Kept(j)'
    BY <1>0, <1>c, <2>1
  <2> QED
    BY <2>1, <2>6, <2>7, <2>8, ListFollows
<1>3. CASE History!Miss(k)
  <2>1. page' = [page EXCEPT ![k].pc = "query"] /\ UNCHANGED <<time, links, summaries>>
    BY <1>3 DEF History!Miss
  <2>2. /\ page' \in PageType /\ SamePage(page') /\ page'[k].pc = "query"
        /\ \A j \in History!Kind \ {k} : page'[j] = page[j]
    BY <1>0, <2>1, SummaryMisses
  <2>3. \A j \in History!Kind : Fresh(j)'
    <3>1. Fresh(k)'
      BY <2>2 DEF Fresh
    <3> QED
      BY <1>d, <2>1, <2>2, <3>1
  <2>4. summaries' = [j \in History!Kind |-> summaries'[j]] /\ \A j \in History!Kind : Kept(j)'
    BY <1>0, <1>c, <2>1
  <2> QED
    BY <2>1, <2>2, <2>3, <2>4, ListFollows
<1>4. CASE History!Query(k)
  <2> DEFINE x == [pc |-> "store", of |-> page.date, at |-> time, age |-> 0]
  <2>1. page' = [page EXCEPT ![k] = x] /\ UNCHANGED <<time, links, summaries>>
    BY <1>4 DEF History!Query
  <2>2. x \in Summary
    BY <1>0, <1>a DEF Summary
  <2>3. x.pc = "store" /\ x.of = page.date /\ x.at = time
    OBVIOUS
  <2> HIDE DEF x
  <2>4. /\ page' \in PageType /\ SamePage(page') /\ page'[k] = x
        /\ \A j \in History!Kind \ {k} : page'[j] = page[j]
    BY <1>0, <2>1, <2>2, SummarySet
  <2>5. \A j \in History!Kind : Fresh(j)'
    <3>1. Fresh(k)'
      BY <1>0, <2>1, <2>3, <2>4 DEF Fresh, SamePage
    <3> QED
      BY <1>d, <2>1, <2>4, <3>1
  <2>6. summaries' = [j \in History!Kind |-> summaries'[j]] /\ \A j \in History!Kind : Kept(j)'
    BY <1>0, <1>c, <2>1
  <2> QED
    BY <2>1, <2>4, <2>5, <2>6, ListFollows
<1>5. CASE History!WriteCache(k)
  <2> DEFINE x == [pc |-> "done", of |-> page[k].of, at |-> Absent, age |-> time - page[k].at]
  <2>1. /\ page' = [page EXCEPT ![k] = x] /\ UNCHANGED <<time, links>>
        /\ summaries' = [summaries EXCEPT ![k] = History!Entry(page.date, page[k].at)] \/ summaries' = summaries
    BY <1>5 DEF History!WriteCache, History!Resolved
  <2>2. page[k].of = page.date /\ page[k].at \in Nat /\ time <= page[k].at + CommandTime
    BY <1>0, <1>5 DEF History!WriteCache, Fresh
  <2>3. x \in Summary
    BY <1>0, <1>a, <2>2 DEF Summary
  <2>4. x.pc = "done" /\ x.of = page.date /\ x.age <= SummaryTtl + CommandTime
    BY <1>0, <2>2
  <2> HIDE DEF x
  <2>5. /\ page' \in PageType /\ SamePage(page') /\ page'[k] = x
        /\ \A j \in History!Kind \ {k} : page'[j] = page[j]
    BY <1>0, <2>1, <2>3, SummarySet
  <2>6. \A j \in History!Kind : Fresh(j)'
    <3>1. Fresh(k)'
      BY <2>4, <2>5 DEF Fresh, SamePage
    <3> QED
      BY <1>d, <2>1, <2>5, <3>1
  <2>7. page[k].at \in Int
    BY <2>2
  <2>8. summaries' = [j \in History!Kind |-> summaries'[j]] /\ \A j \in History!Kind : Kept(j)'
    BY <1>0, <1>b, <1>c, <2>1, <2>2, <2>7
  <2> QED
    BY <2>1, <2>5, <2>6, <2>8, ListFollows
<1> QED
  BY <1>1, <1>2, <1>3, <1>4, <1>5

(* Links come and go; the offset stays within what matches, or the page is *)
(* disturbed.                                                              *)
LEMMA MatchingIsFinite ==
  ASSUME HistoryConstants, NEW part \in SUBSET Mine
  PROVE  part \in SUBSET Nat /\ IsFiniteSet(part) /\ Cardinality(part) \in Nat
BY FS_Subset, FS_CardinalityType DEF HistoryConstants

LEMMA LinksKeep ==
  ASSUME HistoryConstants, HistoryIInv, NEW l \in Mine, History!Create(l) \/ History!Delete(l)
  PROVE  HistoryIInv'
<1>0. /\ page \in PageType /\ links \in SUBSET Mine /\ \A j \in History!Kind : Fresh(j) /\ Kept(j)
      /\ summaries = [j \in History!Kind |-> summaries[j]] /\ time \in Nat
  BY DEF HistoryIInv, HistoryTyped
<1>1. CASE History!Create(l)
  <2>1. links' = links \union {l} /\ UNCHANGED <<time, summaries, page>>
    BY <1>1 DEF History!Create
  <2>2. HistoryTyped'
    BY <2>1 DEF HistoryIInv, HistoryTyped
  <2>3. \A k \in History!Kind : Fresh(k)' /\ Kept(k)'
    BY <1>0, <2>1 DEF Fresh, Kept
  <2>4. History!Matching \in SUBSET History!Matching' /\ History!Matching' \in SUBSET Mine
    BY <1>0, <2>1 DEF History!Matching
  <2>5. /\ Cardinality(History!Matching) \in Nat /\ Cardinality(History!Matching') \in Nat
        /\ Cardinality(History!Matching) <= Cardinality(History!Matching')
    BY <2>4, MatchingIsFinite, FS_Subset
  <2>6. page.offset \in Nat
    BY <1>0 DEF PageType
  <2>7. Reaches'
    <3>1. page.pc = "list" /\ ~page.disturbed =>
            page.offset = 0 \/ page.offset < Cardinality(History!Matching')
      BY <2>5, <2>6 DEF HistoryIInv, Reaches
    <3> QED
      BY <2>1, <3>1 DEF HistoryIInv, Reaches
  <2>8. History!PageNotEmpty'
    BY <2>1 DEF HistoryIInv, History!PageNotEmpty
  <2> QED
    BY <2>2, <2>3, <2>7, <2>8 DEF HistoryIInv
<1>2. CASE History!Delete(l)
  <2>1. /\ links' = links \ {l} /\ UNCHANGED <<time, summaries>>
        /\ page' = [page EXCEPT !.disturbed = page.disturbed \/ (page.pc = "list" /\ l \in page.match)]
    BY <1>2 DEF History!Delete
  <2>2. /\ page'.pc = page.pc /\ page'.date = page.date /\ page'.match = page.match
        /\ page'.offset = page.offset /\ page'.existing = page.existing /\ page'.shown = page.shown
        /\ page'.own = page.own /\ page'.community = page.community
        /\ page'.disturbed = (page.disturbed \/ (page.pc = "list" /\ l \in page.match))
    BY <1>0, <2>1 DEF PageType
  <2>3. page' \in PageType
    BY <1>0, <2>1 DEF PageType
  <2>4. HistoryTyped'
    BY <1>0, <2>1, <2>3 DEF HistoryIInv, HistoryTyped
  <2>5. \A k \in History!Kind : Fresh(k)' /\ Kept(k)'
    <3>1. \A k \in History!Kind : page'[k] = page[k]
      BY <2>2 DEF History!Kind
    <3> QED
      BY <1>0, <2>1, <2>2, <3>1 DEF Fresh, Kept
  <2>6. l \notin page.match => History!Matching' = History!Matching
    BY <2>1, <2>2 DEF History!Matching
  <2>7. Reaches'
    <3>1. page.pc = "list" /\ ~page'.disturbed => l \notin page.match /\ ~page.disturbed
      BY <2>2
    <3>2. page'.pc = "list" /\ ~page'.disturbed =>
            page'.offset = 0 \/ page'.offset < Cardinality(History!Matching')
      BY <2>2, <2>6, <3>1 DEF HistoryIInv, Reaches
    <3>3. page'.pc = "count" => ~page'.disturbed
      BY <2>2 DEF HistoryIInv, Reaches
    <3> QED
      BY <3>2, <3>3 DEF Reaches
  <2>8. History!PageNotEmpty'
    BY <2>2 DEF HistoryIInv, History!PageNotEmpty
  <2> QED
    BY <2>4, <2>5, <2>7, <2>8 DEF HistoryIInv
<1> QED
  BY <1>1, <1>2

(* A step on the page of links leaves the summaries as they are.           *)
LEMMA SummariesFollow ==
  ASSUME HistoryIInv, page' \in PageType, page'.date = page.date,
         page'.own = page.own, page'.community = page.community, UNCHANGED <<time, links, summaries>>
  PROVE  HistoryTyped' /\ \A k \in History!Kind : Fresh(k)' /\ Kept(k)'
<1>1. \A k \in History!Kind : page'[k] = page[k]
  BY DEF History!Kind
<1>2. HistoryTyped'
  BY DEF HistoryIInv, HistoryTyped
<1> QED
  BY <1>1, <1>2 DEF HistoryIInv, Fresh, Kept

LEMMA PageKeeps ==
  ASSUME HistoryConstants, HistoryIInv, History!CountLinks \/ History!ListLinks
  PROVE  HistoryIInv'
<1>0. page \in PageType /\ links \in SUBSET Mine
  BY DEF HistoryIInv, HistoryTyped
<1>m. History!Matching \in SUBSET Mine
  BY <1>0 DEF History!Matching
<1>n. Cardinality(History!Matching) \in Nat /\ IsFiniteSet(History!Matching) /\ History!Matching \in SUBSET Nat
  BY <1>m, MatchingIsFinite
<1>1. CASE History!CountLinks
  <2> DEFINE offset == History!PageOffset(page.wanted, Cardinality(History!Matching))
  <2>1. page.wanted \in Nat \ {0}
    BY <1>0 DEF PageType
  <2>2. offset \in Nat /\ (offset = 0 \/ offset < Cardinality(History!Matching))
    BY <1>n, <2>1, OffsetIs
  <2>3. History!Cardinality(History!Matching) = Cardinality(History!Matching)
    BY HistoryCardinality
  <2>4. /\ page.pc = "count" /\ UNCHANGED <<time, links, summaries>>
        /\ \/ page' = [page EXCEPT !.pc = "list", !.offset = offset]
           \/ page' = [page EXCEPT !.pc = "thrown"]
    BY <1>1, <2>3 DEF History!CountLinks
  <2> HIDE DEF offset
  <2>5. CASE page' = [page EXCEPT !.pc = "list", !.offset = offset]
    <3>1. /\ page' \in PageType /\ page'.pc = "list" /\ page'.offset = offset /\ page'.match = page.match
          /\ page'.date = page.date /\ page'.own = page.own /\ page'.community = page.community
      BY <1>0, <2>2, <2>5 DEF PageType
    <3>2. History!Matching' = History!Matching
      BY <2>4, <3>1 DEF History!Matching
    <3>3. Reaches'
      BY <2>2, <3>1, <3>2 DEF Reaches
    <3>4. History!PageNotEmpty'
      BY <3>1 DEF History!PageNotEmpty
    <3> QED
      BY <2>4, <3>1, <3>3, <3>4, SummariesFollow DEF HistoryIInv
  <2>6. CASE page' = [page EXCEPT !.pc = "thrown"]
    <3>1. /\ page' \in PageType /\ page'.pc = "thrown"
          /\ page'.date = page.date /\ page'.own = page.own /\ page'.community = page.community
      BY <1>0, <2>6 DEF PageType
    <3>2. Reaches' /\ History!PageNotEmpty'
      BY <3>1 DEF Reaches, History!PageNotEmpty
    <3> QED
      BY <2>4, <3>1, <3>2, SummariesFollow DEF HistoryIInv
  <2> QED
    BY <2>4, <2>5, <2>6
<1>2. CASE History!ListLinks
  <2> DEFINE shown == History!Window(History!Matching, page.offset)
             all == [page EXCEPT !.pc = "all", !.existing = History!Matching, !.shown = shown]
  <2>1. page.pc = "list" /\ UNCHANGED <<time, links, summaries>> /\ (page' = all \/ page' = [page EXCEPT !.pc = "failed"])
    BY <1>2 DEF History!ListLinks
  <2>2. CASE page' = all
    <3>1. shown \in SUBSET Mine
      BY <1>m DEF History!Window
    <3> HIDE DEF shown
    <3>2. /\ page' \in PageType /\ page'.pc = "all" /\ page'.existing = History!Matching /\ page'.shown = shown
          /\ page'.date = page.date /\ page'.own = page.own /\ page'.community = page.community
          /\ page'.disturbed = page.disturbed
      BY <1>0, <1>m, <2>2, <3>1 DEF PageType
    <3>3. ~page.disturbed /\ History!Matching # {} => shown # {}
      <4>1. page.offset \in Nat
        BY <1>0 DEF PageType
      <4>2. ~page.disturbed => page.offset = 0 \/ page.offset < Cardinality(History!Matching)
        BY <2>1 DEF HistoryIInv, Reaches
      <4> QED
        BY <1>n, <4>1, <4>2, WindowIsNotEmpty DEF shown
    <3>4. Reaches' /\ History!PageNotEmpty'
      BY <3>2, <3>3 DEF Reaches, History!PageNotEmpty
    <3> QED
      BY <2>1, <3>2, <3>4, SummariesFollow DEF HistoryIInv
  <2>3. CASE page' = [page EXCEPT !.pc = "failed"]
    <3>1. /\ page' \in PageType /\ page'.pc = "failed"
          /\ page'.date = page.date /\ page'.own = page.own /\ page'.community = page.community
      BY <1>0, <2>3 DEF PageType
    <3>2. Reaches' /\ History!PageNotEmpty'
      BY <3>1 DEF Reaches, History!PageNotEmpty
    <3> QED
      BY <2>1, <3>1, <3>2, SummariesFollow DEF HistoryIInv
  <2> QED
    BY <2>1, <2>2, <2>3
<1> QED
  BY <1>1, <1>2

LEMMA NoPageHolds ==
  ASSUME HistoryConstants, HistoryIInv, UNCHANGED <<time, links, summaries>>,
         page' \in PageType, page'.pc \notin {"list", "all"}, ~page'.disturbed,
         \A k \in History!Kind : page'[k].pc \notin {"done", "store"}
  PROVE  HistoryIInv'
<1>1. HistoryTyped' /\ \A k \in History!Kind : Kept(k)'
  BY DEF HistoryIInv, HistoryTyped, Kept
<1>2. \A k \in History!Kind : Fresh(k)'
  BY DEF Fresh
<1>3. Reaches' /\ History!PageNotEmpty'
  BY DEF Reaches, History!PageNotEmpty
<1> QED
  BY <1>1, <1>2, <1>3 DEF HistoryIInv

LEMMA RequestKeeps ==
  ASSUME HistoryConstants, HistoryIInv, History!Load \/ History!End
  PROVE  HistoryIInv'
<1>1. History!NoSummary \in Summary /\ History!NoSummary.pc = "idle"
  BY DEF History!NoSummary, Summary
<1>2. History!NoPage \in PageType
  BY <1>1 DEF History!NoPage, PageType
<1>3. CASE History!Load
  <2>1. PICK match \in {Mine, {History!Max(Mine)}}, wanted \in Wanted :
          page' = [History!NoPage EXCEPT !.pc = "count", !.date = History!Today, !.match = match, !.wanted = wanted,
                                         !.own.pc = "cache", !.community.pc = "cache"]
    BY <1>3 DEF History!Load
  <2>2. UNCHANGED <<time, links, summaries>>
    BY <1>3 DEF History!Load
  <2> DEFINE begun == [pc |-> "cache", of |-> Absent, at |-> Absent, age |-> 0]
             y == [pc |-> "count", date |-> History!Today, match |-> match, wanted |-> wanted, offset |-> 0,
                   existing |-> {}, shown |-> {}, disturbed |-> FALSE, own |-> begun, community |-> begun]
  <2>3. page' = y
    BY <2>1, ZenonT(60) DEF History!NoPage, History!NoSummary
  <2>4. begun \in Summary
    BY DEF Summary
  <2>5. begun.pc = "cache"
    OBVIOUS
  <2> HIDE DEF begun
  <2>6. History!Today \in Int
    BY DEF History!Today, HistoryIInv, HistoryTyped, HistoryConstants
  <2>7. match \in SUBSET (Mine \union {History!Max(Mine)}) /\ wanted \in Nat \ {0}
    BY DEF HistoryConstants
  <2>8. y \in PageType
    BY <2>4, <2>6, <2>7 DEF PageType
  <2>9. page'.pc = "count" /\ ~page'.disturbed /\ \A k \in History!Kind : page'[k].pc \notin {"done", "store"}
    BY <2>3, <2>5 DEF History!Kind
  <2> QED
    BY <2>2, <2>3, <2>8, <2>9, NoPageHolds
<1>4. CASE History!End
  <2>1. page' = History!NoPage /\ UNCHANGED <<time, links, summaries>>
    BY <1>4 DEF History!End
  <2>2. page'.pc = "idle" /\ ~page'.disturbed /\ \A k \in History!Kind : page'[k].pc \notin {"done", "store"}
    BY <1>1, <2>1 DEF History!NoPage, History!Kind
  <2> QED
    BY <1>2, <2>1, <2>2, NoPageHolds
<1> QED
  BY <1>3, <1>4

LEMMA RejectionKeeps ==
  ASSUME HistoryConstants, HistoryIInv, History!OwnRejected \/ History!CommunityRejected
  PROVE  HistoryIInv'
<1>0. /\ page \in PageType /\ \A k \in History!Kind : Fresh(k) /\ Kept(k)
      /\ summaries = [k \in History!Kind |-> summaries[k]]
  BY DEF HistoryIInv, HistoryTyped
<1>1. CASE History!OwnRejected
  <2>1. /\ page.own.pc = "query" /\ UNCHANGED <<time, links, summaries>>
        /\ \/ page' = [page EXCEPT !.pc = "failed", !.own.pc = "failed"]
           \/ page' = [History!NoPage EXCEPT !.pc = "gone"]
    BY <1>1 DEF History!OwnRejected
  <2>2. CASE page' = [page EXCEPT !.pc = "failed", !.own.pc = "failed"]
    <3> DEFINE mid == [page EXCEPT !.pc = "failed"]
    <3>1. /\ mid \in PageType /\ mid.pc = "failed" /\ mid.date = page.date
          /\ mid.community = page.community /\ mid.own = page.own
      BY <1>0 DEF PageType
    <3>2. page' = [mid EXCEPT !.own.pc = "failed"]
      BY <2>2
    <3> HIDE DEF mid
    <3>3. /\ page' \in PageType /\ page'.pc = "failed" /\ page'.own.pc = "failed"
          /\ page'.date = page.date /\ page'.community = page.community
      BY <3>1, <3>2 DEF PageType, Summary
    <3>4. Fresh("own")' /\ Fresh("community")'
      BY <1>0, <2>1, <3>3 DEF Fresh, History!Kind
    <3>5. \A k \in History!Kind : Fresh(k)' /\ Kept(k)'
      BY <1>0, <2>1, <3>4 DEF Kept, History!Kind
    <3>6. HistoryTyped'
      BY <2>1, <3>3 DEF HistoryIInv, HistoryTyped
    <3>7. Reaches' /\ History!PageNotEmpty'
      BY <3>3 DEF Reaches, History!PageNotEmpty
    <3> QED
      BY <3>5, <3>6, <3>7 DEF HistoryIInv
  <2>3. CASE page' = [History!NoPage EXCEPT !.pc = "gone"]
    <3>1. History!NoSummary \in Summary /\ History!NoSummary.pc = "idle"
      BY DEF History!NoSummary, Summary
    <3>2. /\ History!NoPage \in PageType /\ ~History!NoPage.disturbed
          /\ History!NoPage.own = History!NoSummary /\ History!NoPage.community = History!NoSummary
      BY <3>1 DEF History!NoPage, PageType
    <3>3. /\ page' \in PageType /\ page'.pc = "gone" /\ ~page'.disturbed
          /\ page'.own = History!NoSummary /\ page'.community = History!NoSummary
      BY <2>3, <3>2 DEF PageType
    <3>4. \A k \in History!Kind : page'[k].pc \notin {"done", "store"}
      BY <3>1, <3>3 DEF History!Kind
    <3> QED
      BY <2>1, <3>3, <3>4, NoPageHolds
  <2> QED
    BY <2>1, <2>2, <2>3
<1>2. CASE History!CommunityRejected
  <2> DEFINE x == [History!NoSummary EXCEPT !.pc = "done"]
  <2>1. page' = [page EXCEPT !.community = x] /\ UNCHANGED <<time, links, summaries>>
    BY <1>2 DEF History!CommunityRejected
  <2>2. x \in Summary /\ x.of = Absent
    BY DEF History!NoSummary, Summary
  <2>3. x.pc = "done"
    BY DEF History!NoSummary
  <2> HIDE DEF x
  <2>4. /\ page' \in PageType /\ SamePage(page') /\ page'.community = x /\ page'.own = page.own
    BY <1>0, <2>1, <2>2 DEF PageType, SamePage
  <2>5. Fresh("own")' /\ Fresh("community")'
    BY <1>0, <2>1, <2>2, <2>3, <2>4 DEF Fresh, History!Kind, SamePage
  <2>6. summaries' = [k \in History!Kind |-> summaries'[k]] /\ \A k \in History!Kind : Fresh(k)' /\ Kept(k)'
    BY <1>0, <2>1, <2>5 DEF Kept, History!Kind
  <2> QED
    BY <2>1, <2>4, <2>6, ListFollows
<1> QED
  BY <1>1, <1>2

LEMMA TimeKeeps ==
  ASSUME HistoryConstants, HistoryIInv, History!Tick
  PROVE  HistoryIInv'
<1>0. /\ time \in Nat /\ \A k \in History!Kind : Fresh(k) /\ Kept(k)
      /\ summaries = [k \in History!Kind |-> summaries[k]]
  BY DEF HistoryIInv, HistoryTyped
<1>1. /\ \A k \in History!Kind : page[k].pc = "store" => time < page[k].at + CommandTime
      /\ time' = time + 1 /\ UNCHANGED <<links, page>>
      /\ summaries' = [k \in History!Kind |->
                     IF summaries[k] # Absent /\ summaries[k].until <= time + 1 THEN Absent ELSE summaries[k]]
  BY DEF History!Tick
<1>2. HistoryTyped'
  BY <1>0, <1>1 DEF HistoryIInv, HistoryTyped
<1>3. \A k \in History!Kind : Fresh(k)'
  BY <1>0, <1>1 DEF Fresh, HistoryConstants
<1>4. \A k \in History!Kind : Kept(k)'
  BY <1>0, <1>1 DEF Kept
<1>5. Reaches' /\ History!PageNotEmpty'
  BY <1>1 DEF HistoryIInv, Reaches, History!PageNotEmpty, History!Matching
<1> QED
  BY <1>2, <1>3, <1>4, <1>5 DEF HistoryIInv

LEMMA HistoryStays == ASSUME HistoryIInv, UNCHANGED <<time, links, summaries, page>> PROVE HistoryIInv'
BY DEF HistoryIInv, HistoryTyped, Fresh, Kept, Reaches, History!PageNotEmpty, History!Matching

LEMMA HistoryKept ==
  ASSUME HistoryConstants, HistoryIInv, [History!Next]_(History!vars)
  PROVE  HistoryIInv'
<1>1. CASE History!Restart
  BY <1>1, HistoryStays DEF History!Restart
<1>2. CASE UNCHANGED History!vars
  BY <1>2, HistoryStays DEF History!vars
<1> QED
  BY <1>1, <1>2, KindKeeps, LinksKeep, PageKeeps, RequestKeeps, RejectionKeeps, TimeKeeps DEF History!Next

(* A summary on a dashboard was summed for the page's own date and is no   *)
(* older than the cache allows, whoever filled the cache and when; and a   *)
(* page is not empty while there is something to show, unless a link was   *)
(* deleted meanwhile (history-service.ts:104-181, history-policy.ts:47-64).*)
THEOREM DashboardsAreOfTheirDate ==
  ASSUME HistoryConstants
  PROVE  History!Spec => []HistoryHolds
<1>1. History!Init => HistoryIInv
  BY HistoryInit
<1>2. HistoryIInv /\ [History!Next]_(History!vars) => HistoryIInv'
  BY HistoryKept
<1>3. HistoryIInv => HistoryHolds
  BY DEF HistoryIInv, Fresh, HistoryHolds, History!HistoryHolds, History!SummaryOfItsDate
<1> QED
  BY <1>1, <1>2, <1>3, PTL DEF History!Spec

-----------------------------------------------------------------------------
(* The page of the dashboard.  What a request carries is what the form     *)
(* shows as long as the author has not revised it.                         *)
PageConstants == MaxImages \in Nat

PageTyped ==
  /\ image \in [kind : {"none", "file", "retained"}, of : Picture \union {None}]
  /\ single \in [at : {"idle", "asked"}, image : [kind : {"none", "file", "retained"}, of : Picture \union {None}],
                 same : BOOLEAN, remember : Domain \union {None}]
  /\ pool \in [ready : Nat, uploading : Nat, gone : Nat]
  /\ batch \in [at : {"idle", "preparing", "asked"}, awaited : Int, sent : Nat, remember : Domain \union {None}]
  /\ preference \in [selected : Domain, remember : BOOLEAN, default : Domain, saving : Domain \union {None}]
  /\ told \in [said : {"nothing", "done", "refused", "uncertain"}, done : BOOLEAN]

(* A request carries what the form still shows.                            *)
Carried ==
  /\ single.same => single.image = image
  /\ single.remember # None => single.remember = preference.selected /\ preference.remember
  /\ batch.remember # None => batch.remember = preference.selected /\ preference.remember

PageIInv == PageTyped /\ Carried /\ Page!PageInv

LEMMA PageInit == ASSUME PageConstants, Page!Init PROVE PageIInv
BY DEF PageConstants, PageIInv, PageTyped, Carried, Page!Init, Page!NoImage, Page!Idle, Page!NoBatch, Page!Quiet,
       Page!PageInv, Page!PoolFits, Page!Busy, Page!ToldTheTruth

(* An answer that says "created" or "refused" says so of what happened.    *)
LEMMA TellsTheTruth ==
  ASSUME NEW outcome \in Page!Outcome, Page!Tell(outcome)
  PROVE  /\ told' \in [said : {"nothing", "done", "refused", "uncertain"}, done : BOOLEAN]
         /\ Page!ToldTheTruth'
<1> DEFINE said == Page!Say(Page!Kind(outcome.reply))
<1>1. CASE \E e \in Page!Refusal : outcome = [done |-> FALSE, reply |-> Page!ApiError(e)]
  <2>1. said \in {"refused", "uncertain"}
    BY <1>1 DEF Page!Refusal, Page!ApiError, Page!Kind, Page!KindByBody, Page!Busy429, Page!Say
  <2> QED
    BY <1>1, <2>1 DEF Page!Tell, Page!ToldTheTruth
<1>2. CASE outcome = [done |-> TRUE, reply |-> Page!Ok]
  <2>1. said = "done"
    BY <1>2 DEF Page!Ok, Page!Kind, Page!KindByBody, Page!Busy429, Page!Say
  <2> QED
    BY <1>2, <2>1 DEF Page!Tell, Page!ToldTheTruth
<1>3. CASE outcome \in [done : BOOLEAN, reply : {Page!ApiError(Page!Unexpected)} \union Page!Lost]
  <2>1. said = "uncertain"
    BY <1>3 DEF Page!Unexpected, Page!Lost, Page!ApiError, Page!Kind, Page!KindByBody, Page!Busy429, Page!Say
  <2> QED
    BY <1>3, <2>1 DEF Page!Tell, Page!ToldTheTruth
<1> QED
  BY <1>1, <1>2, <1>3 DEF Page!Outcome

LEMMA QuietIsTrue ==
  ASSUME told' = Page!Quiet
  PROVE  /\ told' \in [said : {"nothing", "done", "refused", "uncertain"}, done : BOOLEAN]
         /\ Page!ToldTheTruth'
BY DEF Page!Quiet, Page!ToldTheTruth

LEMMA PageKept ==
  ASSUME PageConstants, PageIInv, [Page!Next]_(Page!vars)
  PROVE  PageIInv'
<1> USE DEF PageIInv, PageTyped, Carried, Page!PageInv, Page!PoolFits, Page!Busy
<1>1. CASE \E d \in Domain : Page!Select(d) \/ Page!OtherTab(d)
  BY <1>1, QuietIsTrue DEF Page!Select, Page!OtherTab, Page!Revised, Page!Forget
<1>2. CASE Page!Remember \/ Page!MakeDefault \/ Page!SaveAnswered
  <2>1. /\ told' = Page!Quiet /\ UNCHANGED <<image, pool>>
        /\ single' \in {single, Page!Forget(single)} /\ batch' \in {batch, Page!Forget(batch)}
        /\ \/ UNCHANGED <<preference.selected, preference.remember>>
           \/ single' = Page!Forget(single) /\ batch' = Page!Forget(batch)
    BY <1>2 DEF Page!Remember, Page!MakeDefault, Page!SaveAnswered, Page!Save, Page!Revised
  <2>2. preference' \in [selected : Domain, remember : BOOLEAN, default : Domain, saving : Domain \union {None}]
    <3>1. CASE Page!Remember
      BY <3>1 DEF Page!Remember
    <3>2. CASE Page!MakeDefault
      BY <3>2 DEF Page!MakeDefault, Page!Save
    <3>3. CASE Page!SaveAnswered
      BY <3>3 DEF Page!SaveAnswered
    <3> QED
      BY <1>2, <3>1, <3>2, <3>3
  <2> QED
    BY <2>1, <2>2, QuietIsTrue DEF Page!Forget
<1>3. CASE \E choice \in Page!Choices : Page!Choose(choice)
  <2>1. PICK choice \in Page!Choices : Page!Choose(choice)
    BY <1>3
  <2>2. choice \in [kind : {"none", "file", "retained"}, of : Picture \union {None}]
    BY DEF Page!Choices, Page!NoImage
  <2> QED
    BY <2>1, <2>2, QuietIsTrue, ZenonT(60) DEF Page!Choose
<1>4. CASE Page!Keep \/ Page!SubmitSingle
  <2>1. CASE Page!Keep
    BY <2>1, QuietIsTrue DEF Page!Keep
  <2>2. CASE Page!SubmitSingle
    BY <2>2, QuietIsTrue DEF Page!SubmitSingle, Page!ToRemember
  <2> QED
    BY <1>4, <2>1, <2>2
<1>5. CASE Page!SingleAnswered
  <2>1. /\ told' \in [said : {"nothing", "done", "refused", "uncertain"}, done : BOOLEAN]
        /\ Page!ToldTheTruth'
    BY <1>5, QuietIsTrue, TellsTheTruth DEF Page!SingleAnswered, Page!SingleBroken
  <2>2. /\ image' \in {image, Page!Retained, Page!NoImage}
        /\ UNCHANGED <<preference, batch>> \/ Page!RememberSingle
    BY <1>5 DEF Page!SingleAnswered, Page!SingleBroken, Page!SingleCreated, Page!SingleRefused
  <2>3. image' \in [kind : {"none", "file", "retained"}, of : Picture \union {None}]
    BY <2>2 DEF Page!Retained, Page!NoImage
  <2>4. /\ preference' \in [selected : Domain, remember : BOOLEAN, default : Domain, saving : Domain \union {None}]
        /\ preference'.selected = preference.selected /\ preference'.remember = preference.remember
        /\ batch' \in {batch, Page!Forget(batch)}
    BY <2>2 DEF Page!RememberSingle, Page!Remembers, Page!Save, Page!Savable
  <2>5. single' = Page!Idle /\ UNCHANGED pool
    BY <1>5 DEF Page!SingleAnswered
  <2> QED
    BY <2>1, <2>3, <2>4, <2>5 DEF Page!Forget, Page!Idle, Page!NoImage
<1>6. CASE Page!PickBulk \/ Page!UploadEnds \/ Page!RemoveChip
  <2>1. told' = Page!Quiet /\ UNCHANGED <<image, single, preference>>
    BY <1>6 DEF Page!PickBulk, Page!UploadEnds, Page!RemoveChip
  <2>2. pool' \in [ready : Nat, uploading : Nat, gone : Nat] /\ Page!PoolFits'
    <3>1. CASE Page!PickBulk
      BY <3>1 DEF PageConstants, Page!PickBulk, Page!Slots
    <3>2. CASE Page!RemoveChip
      BY <3>2 DEF PageConstants, Page!RemoveChip
    <3>3. CASE Page!UploadEnds
      <4>1. CASE pool.gone > 0 /\ pool' = [pool EXCEPT !.gone = @ - 1]
        <5>1. pool' = [ready |-> pool.ready, uploading |-> pool.uploading, gone |-> pool.gone - 1]
          BY <4>1
        <5> QED
          BY <4>1, <5>1 DEF PageConstants
      <4>2. CASE \E ready \in {pool.ready, pool.ready + 1} :
                   pool.uploading > 0 /\ pool' = [pool EXCEPT !.uploading = @ - 1, !.ready = ready]
        <5>1. PICK ready \in {pool.ready, pool.ready + 1} :
                     pool.uploading > 0 /\ pool' = [pool EXCEPT !.uploading = @ - 1, !.ready = ready]
          BY <4>2
        <5>2. pool' = [ready |-> ready, uploading |-> pool.uploading - 1, gone |-> pool.gone]
          BY <5>1
        <5> QED
          BY <5>1, <5>2 DEF PageConstants
      <4> QED
        BY <3>3, <4>1, <4>2 DEF Page!UploadEnds
    <3> QED
      BY <1>6, <3>1, <3>2, <3>3
  <2>3. /\ batch' \in [at : {"idle", "preparing", "asked"}, awaited : Int, sent : Nat, remember : Domain \union {None}]
        /\ batch'.remember = batch.remember
    BY <1>6 DEF Page!PickBulk, Page!UploadEnds, Page!RemoveChip
  <2> QED
    BY <2>1, <2>2, <2>3, QuietIsTrue
<1>7. CASE Page!SubmitBulk \/ Page!SendBulk
  <2>1. told' = Page!Quiet /\ UNCHANGED <<image, single, preference, pool>>
    BY <1>7 DEF Page!SubmitBulk, Page!SendBulk
  <2>2. /\ batch' \in [at : {"idle", "preparing", "asked"}, awaited : Int, sent : Nat, remember : Domain \union {None}]
        /\ batch'.remember \in {None, Page!ToRemember}
    <3>1. CASE Page!SubmitBulk
      <4>1. batch' = [at |-> "preparing", awaited |-> pool.uploading + pool.gone, sent |-> 0, remember |-> None]
        BY <3>1 DEF Page!SubmitBulk, Page!NoBatch
      <4> QED
        BY <4>1
    <3>2. CASE batch' = Page!NoBatch
      BY <3>2 DEF Page!NoBatch
    <3>3. CASE batch' = [at |-> "asked", awaited |-> 0, sent |-> pool.ready, remember |-> Page!ToRemember]
      BY <3>3 DEF Page!ToRemember
    <3> QED
      BY <1>7, <3>1, <3>2, <3>3 DEF Page!SendBulk
  <2> QED
    BY <2>1, <2>2, QuietIsTrue DEF Page!ToRemember
<1>8. CASE Page!BulkAnswered
  <2>1. pool' = pool \/ pool' \in Page!PoolAfterCreate
    BY <1>8 DEF Page!BulkAnswered
  <2>2. pool' \in [ready : Nat, uploading : Nat, gone : Nat] /\ Page!PoolFits'
    BY <2>1 DEF PageConstants, Page!PoolAfterCreate
  <2>3. UNCHANGED <<preference, single>> \/ Page!RememberBulk
    BY <1>8 DEF Page!BulkAnswered
  <2>4. /\ preference' \in [selected : Domain, remember : BOOLEAN, default : Domain, saving : Domain \union {None}]
        /\ preference'.selected = preference.selected /\ preference'.remember = preference.remember
        /\ single' \in {single, Page!Forget(single)}
    BY <2>3 DEF Page!RememberBulk, Page!Remembers, Page!Save, Page!Savable
  <2>5. batch' = Page!NoBatch /\ UNCHANGED image /\ told' = Page!Quiet
    BY <1>8 DEF Page!BulkAnswered
  <2> QED
    BY <2>2, <2>4, <2>5, QuietIsTrue DEF Page!Forget, Page!NoBatch
<1>9. CASE Page!Delete
  BY <1>9, TellsTheTruth DEF Page!Delete
<1>10. CASE UNCHANGED Page!vars
  BY <1>10 DEF Page!vars, Page!ToldTheTruth
<1> QED
  BY <1>1, <1>2, <1>3, <1>4, <1>5, <1>6, <1>7, <1>8, <1>9, <1>10 DEF Page!Next

(* Whatever is picked, removed and created meanwhile, what is ready and    *)
(* what is being uploaded fits one batch; and "link created" and its       *)
(* refusal are said of what happened (dashboard-shell.js:702-728,          *)
(* 2159-2205, links/http.ts:342-364).                                      *)
THEOREM PageHolds ==
  ASSUME PageConstants
  PROVE  Page!Spec => []PageInv
<1>1. PageIInv => PageInv
  BY DEF PageIInv, PageInv
<1> QED
  BY PageInit, PageKept, <1>1, PTL DEF Page!Spec

LEMMA AnswerYields ==
  ASSUME PageIInv, [Page!Next]_(Page!vars)
  PROVE  [/\ image'.kind = "retained" /\ image' # image => image = [kind |-> "file", of |-> image'.of]
          /\ preference'.saving \notin {None, preference.saving} =>
               /\ preference'.saving = preference.selected
               /\ preference.remember \/ (single.at = single'.at /\ batch.at = batch'.at)]_(Page!vars)
<1> DEFINE Late == \/ image'.kind = "retained" /\ image' # image /\ image # [kind |-> "file", of |-> image'.of]
                   \/ preference'.saving \notin {None, preference.saving}
<1>1. ASSUME Page!Next, Late
      PROVE  Page!MakeDefault \/ Page!SingleAnswered \/ Page!BulkAnswered
  <2>1. ASSUME Page!Remember \/ Page!SaveAnswered \/ \E d \in Domain : Page!Select(d) \/ Page!OtherTab(d)
        PROVE  UNCHANGED image /\ preference'.saving \in {None, preference.saving}
    BY <2>1 DEF Page!Select, Page!OtherTab, Page!Remember, Page!SaveAnswered, PageIInv, PageTyped
  <2>2. ASSUME \E choice \in Page!Choices : Page!Choose(choice)
        PROVE  image'.kind # "retained" /\ UNCHANGED preference
    BY <2>2 DEF Page!Choose, Page!Choices, Page!NoImage
  <2>3. ASSUME \/ Page!Keep \/ Page!SubmitSingle \/ Page!PickBulk \/ Page!UploadEnds \/ Page!RemoveChip
               \/ Page!SubmitBulk \/ Page!SendBulk \/ Page!Delete
        PROVE  UNCHANGED <<image, preference>>
    BY <2>3
    DEF Page!Keep, Page!SubmitSingle, Page!PickBulk, Page!UploadEnds, Page!RemoveChip, Page!SubmitBulk, Page!SendBulk,
        Page!Delete
  <2> QED
    BY <1>1, <2>1, <2>2, <2>3 DEF Page!Next
<1>2. ASSUME Page!MakeDefault
      PROVE  /\ UNCHANGED <<image, single.at, batch.at>>
             /\ preference'.saving \in {preference.saving, preference.selected}
  BY <1>2 DEF Page!MakeDefault, Page!Save, Page!Revised, Page!Forget, PageIInv, PageTyped
<1>3. ASSUME Page!SingleAnswered
      PROVE  /\ image'.kind = "retained" /\ image' # image => image = [kind |-> "file", of |-> image'.of]
             /\ preference'.saving \notin {None, preference.saving} =>
                  preference'.saving = preference.selected /\ preference.remember
  <2>1. /\ image' \in {image, Page!Retained, Page!NoImage}
        /\ UNCHANGED preference \/ Page!RememberSingle
    BY <1>3 DEF Page!SingleAnswered, Page!SingleBroken, Page!SingleCreated, Page!SingleRefused
  <2>2. Page!Retained = image \/ (Page!Retained.of = image.of /\ image.kind = "file")
    BY DEF Page!Retained, Page!Retains, PageIInv, Carried
  <2>3. preference'.saving \in {preference.saving, single.remember}
        /\ (preference'.saving = preference.saving \/ single.remember # None)
    BY <2>1 DEF Page!RememberSingle, Page!Remembers, Page!Save, PageIInv, PageTyped
  <2>4. image = [kind |-> image.kind, of |-> image.of]
    BY DEF PageIInv, PageTyped
  <2> QED
    BY <2>1, <2>2, <2>3, <2>4 DEF Page!NoImage, PageIInv, Carried
<1>4. ASSUME Page!BulkAnswered
      PROVE  /\ UNCHANGED image
             /\ preference'.saving \notin {None, preference.saving} =>
                  preference'.saving = preference.selected /\ preference.remember
  <2>1. UNCHANGED image /\ (UNCHANGED preference \/ Page!RememberBulk)
    BY <1>4 DEF Page!BulkAnswered
  <2>2. preference'.saving \in {preference.saving, batch.remember}
        /\ (preference'.saving = preference.saving \/ batch.remember # None)
    BY <2>1 DEF Page!RememberBulk, Page!Remembers, Page!Save, PageIInv, PageTyped
  <2> QED
    BY <2>1, <2>2 DEF PageIInv, Carried
<1> QED
  BY <1>1, <1>2, <1>3, <1>4

(* No late answer overrides what the author did since: a retained image    *)
(* takes the place of the very file alone, and a default domain is saved   *)
(* while it is the one selected (dashboard-shell.js:616-700, 967-1099).    *)
THEOREM LateAnswersYield ==
  ASSUME PageConstants
  PROVE  Page!Spec => AnswersYield
<1> QED
  BY PageInit, PageKept, AnswerYields, PTL DEF Page!Spec, AnswersYield, Page!AnswersYield

-----------------------------------------------------------------------------
(* The shield panel.  Accounting may touch the row of a link long after the *)
(* slot it reuses was written, and on the day after the click; a slot       *)
(* whose date is not the one asked for counts as nothing filtered.          *)
ShieldConstants == Days \in Nat /\ Days >= 2 /\ MaxTick \in Nat /\ NoDate \notin Int /\ NoDate \notin Link

Dated == [date : Int \union {NoDate}, count : Int]
Counters == [lifetime : Int, today : Dated, ring : [Shield!Slots -> Dated]]
Filtering == [link : Link, kind : Shield!Kinds, date : Shield!Dates]

ShieldTyped ==
  /\ tick \in 0..MaxTick /\ active \in Int \union {NoDate}
  /\ rows \in [Link -> Counters \union {NoDate}]
  /\ clicks \in [Click -> Filtering \union {Shield!NoClick}]
  /\ counted \in [Link -> [Shield!Kinds -> [Shield!Dates -> Int]]]
  /\ panel = [pc |-> panel.pc, day |-> panel.day, days |-> panel.days]
  /\ panel.pc \in {"closed", "asked", "shown"} /\ (panel.pc = "asked" => panel.day \in Int /\ panel.day <= Shield!Date(tick))
  /\ active # NoDate => active >= 1

(* A click is accounted on its date or the next; nothing is dated ahead.    *)
AccountedInTime ==
  /\ \A c \in Click : clicks[c] # Shield!NoClick =>
       clicks[c].date <= Shield!Date(tick) /\ Shield!Date(tick) <= clicks[c].date + 1
  /\ \A l \in Link, k \in Shield!Kinds, d \in Shield!Dates : d > Shield!Date(tick) => counted[l][k][d] = 0

(* No slot of the ring is of a date that is yet to come.                    *)
NotAhead(l) ==
  /\ \A s \in Shield!Slots : rows[l].ring[s].date # NoDate => rows[l].ring[s].date <= Shield!Date(tick)
  /\ rows[l].today.date # NoDate => rows[l].today.date \in Shield!Dates

(* The dates the ring has a slot for, and that the history covers.          *)
Covered(d) ==
  /\ Shield!Date(tick) - Days < d /\ d <= Shield!Date(tick)
  /\ active # NoDate /\ active <= Shield!DayStart(d)

(* What the panel adds for a link: a slot of another date is of none.       *)
ShownFor(l, d) == IF rows[l].ring[Shield!Slot(d)].date = d THEN rows[l].ring[Shield!Slot(d)].count ELSE 0

RingExact(l) == \A d \in Shield!Dates : Covered(d) => ShownFor(l, d) = counted[l]["filtered"][d]

(* Nothing was delivered on a date that today's column has not reached.     *)
TodayExact(l) ==
  \A d \in Shield!Dates :
    /\ rows[l].today.date = d => rows[l].today.count = counted[l]["delivered"][d]
    /\ rows[l].today.date = NoDate \/ rows[l].today.date < d => counted[l]["delivered"][d] = 0

RowExact(l) == NotAhead(l) /\ RingExact(l) /\ TodayExact(l)

ShieldIInv == ShieldTyped /\ AccountedInTime /\ \A l \in Shield!Current : RowExact(l)

LEMMA Halves ==
  ASSUME NEW t \in Int
  PROVE  /\ Shield!Date(t) \in Int /\ 2 * Shield!Date(t) <= t /\ t < 2 * Shield!Date(t) + 2
         /\ \A d \in Int : 2 * d <= t => d <= Shield!Date(t)
         /\ Shield!Date(t) <= Shield!Date(t + 1) /\ Shield!Date(t + 1) <= Shield!Date(t) + 1
BY DEF Shield!Date

LEMMA SlotsDiffer ==
  ASSUME ShieldConstants, NEW d \in Int
  PROVE  /\ Shield!Slot(d) \in Shield!Slots
         /\ \A e \in Int : Shield!Slot(d) = Shield!Slot(e) /\ d - e < Days /\ e - d < Days => d = e
<1>1. Days \in Nat \ {0}
  BY DEF ShieldConstants
<1>2. Shield!Slot(d) \in Shield!Slots
  BY <1>1 DEF Shield!Slot, Shield!Slots
<1>3. ASSUME NEW e \in Int, Shield!Slot(d) = Shield!Slot(e), d - e < Days, e - d < Days
      PROVE  d = e
  <2> DEFINE p == d \div Days
             q == e \div Days
  <2>1. d = Days * p + (d % Days) /\ e = Days * q + (e % Days) /\ p \in Int /\ q \in Int
    BY <1>1
  <2>2. d % Days = e % Days /\ d % Days \in Int
    BY <1>1, <1>3 DEF Shield!Slot
  <2> HIDE DEF p, q
  <2>3. d - e = Days * (p - q) /\ e - d = Days * (q - p)
    BY <1>1, <2>1, <2>2
  <2>4. p >= q + 1 => Days * (p - q) >= Days
    BY <1>1, <2>1
  <2>5. q >= p + 1 => Days * (q - p) >= Days
    BY <1>1, <2>1
  <2>6. p = q
    BY <1>1, <1>3, <2>1, <2>3, <2>4, <2>5
  <2> QED
    BY <2>1, <2>2, <2>6
<1> QED
  BY <1>2, <1>3

LEMMA ShieldInit == ASSUME ShieldConstants, Shield!Init PROVE ShieldIInv
<1>1. Shield!Date(tick) = 0 /\ tick = 0
  BY DEF Shield!Init, Shield!Date
<1>2. ShieldTyped
  BY <1>1 DEF ShieldConstants, Shield!Init, ShieldTyped, Shield!NewRow, Shield!Undated, Shield!Closed, Counters, Dated,
              Shield!Kinds
<1>3. AccountedInTime
  BY <1>1 DEF Shield!Init, AccountedInTime
<1>4. ASSUME NEW l \in Shield!Current PROVE RowExact(l)
  <2>1. l \in Link /\ rows[l] = Shield!NewRow
    BY <1>4 DEF Shield!Current, Shield!Init
  <2>2. \A s \in Shield!Slots : rows[l].ring[s].date = NoDate
    BY <2>1 DEF Shield!NewRow, Shield!Undated
  <2>3. rows[l].today.date = NoDate
    BY <2>1 DEF Shield!NewRow, Shield!Undated
  <2>4. \A d \in Shield!Dates : counted[l]["filtered"][d] = 0 /\ counted[l]["delivered"][d] = 0 /\ d \in Int
    BY <2>1 DEF Shield!Init, Shield!Kinds, Shield!Dates, ShieldConstants
  <2>5. active = NoDate
    BY DEF Shield!Init
  <2> QED
    BY <2>2, <2>3, <2>4, <2>5 DEF RowExact, NotAhead, RingExact, TodayExact, Covered, ShieldConstants
<1> QED
  BY <1>2, <1>3, <1>4 DEF ShieldIInv

LEMMA DatesAre ==
  ASSUME ShieldConstants, ShieldTyped
  PROVE  /\ Shield!Date(tick) \in Shield!Dates /\ Shield!Dates \subseteq Int
         /\ tick \in Int /\ tick >= 0 /\ tick <= MaxTick /\ MaxTick \in Nat
         /\ \A d \in Int : d >= 0 /\ d <= Shield!Date(tick) => d \in Shield!Dates
<1>1. tick \in Int /\ MaxTick \in Int /\ 0 <= tick /\ tick <= MaxTick
  BY DEF ShieldTyped, ShieldConstants
<1>2. Shield!Date(tick) \in Int /\ Shield!Date(MaxTick) \in Int /\ 0 <= Shield!Date(tick)
      /\ Shield!Date(tick) <= Shield!Date(MaxTick)
  <2>1. 2 * Shield!Date(tick) <= MaxTick
    BY <1>1, Halves
  <2> QED
    BY <1>1, <2>1, Halves
<1> QED
  BY <1>1, <1>2 DEF Shield!Dates, ShieldConstants

(* Time that passes begins a date of which nothing is counted yet.          *)
LEMMA TickKeeps ==
  ASSUME ShieldConstants, ShieldIInv, Shield!Tick
  PROVE  ShieldIInv'
<1> DEFINE t == Shield!Date(tick)
           u == Shield!Date(tick + 1)
<1>0. /\ ShieldTyped /\ tick < MaxTick /\ tick' = tick + 1 /\ tick \in Int
      /\ UNCHANGED <<active, rows, clicks, counted, panel, came>>
      /\ \A c \in Click : clicks[c] # Shield!NoClick => 2 * (clicks[c].date + 2) > tick + 1
  BY DatesAre DEF ShieldIInv, Shield!Tick, Shield!DayStart
<1>1. t \in Int /\ u \in Int /\ t <= u /\ u <= t + 1 /\ 2 * u <= tick + 1 /\ Shield!Date(tick') = u
  BY <1>0, Halves
<1> HIDE DEF t, u
<1>2. ShieldTyped'
  <2>1. tick' \in 0..MaxTick
    BY <1>0, DatesAre DEF ShieldTyped
  <2>2. panel.pc = "asked" => panel.day \in Int /\ panel.day <= u
    BY <1>0, <1>1 DEF ShieldTyped, t
  <2> QED
    BY <1>0, <1>1, <2>1, <2>2 DEF ShieldTyped
<1>3. AccountedInTime'
  <2>1. ASSUME NEW c \in Click, clicks[c] # Shield!NoClick
        PROVE  clicks[c].date <= u /\ u <= clicks[c].date + 1
    <3>1. clicks[c].date \in Int
      BY <1>0, <2>1, DatesAre DEF ShieldTyped, Filtering
    <3>2. clicks[c].date <= t
      BY <2>1 DEF ShieldIInv, AccountedInTime, t
    <3> QED
      BY <1>0, <1>1, <2>1, <3>1, <3>2
  <2>2. \A l \in Link, k \in Shield!Kinds, d \in Shield!Dates : d > u => counted[l][k][d] = 0
    BY <1>0, <1>1, DatesAre DEF ShieldIInv, AccountedInTime, t
  <2> QED
    BY <1>0, <1>1, <2>1, <2>2 DEF AccountedInTime
<1>4. ASSUME NEW l \in Shield!Current PROVE RowExact(l)'
  <2>0. /\ NotAhead(l) /\ RingExact(l) /\ TodayExact(l) /\ l \in Link
        /\ \A s \in Shield!Slots : rows[l].ring[s].date \in Int \union {NoDate}
    BY <1>0, <1>4 DEF ShieldIInv, RowExact, Shield!Current, ShieldTyped, Counters, Dated
  <2>1. NotAhead(l)'
    BY <1>0, <1>1, <2>0 DEF NotAhead, t, ShieldConstants
  <2>2. TodayExact(l)'
    BY <1>0, <2>0 DEF TodayExact
  <2>3. ASSUME NEW d \in Shield!Dates, Covered(d)' PROVE ShownFor(l, d) = counted[l]["filtered"][d]
    <3>1. d \in Int /\ u - Days < d /\ d <= u /\ Days \in Int /\ active # NoDate /\ active <= Shield!DayStart(d)
      BY <1>0, <1>1, <2>3, DatesAre DEF Covered, ShieldConstants
    <3>2. CASE d <= t
      <4>1. Covered(d)
        BY <1>1, <3>1, <3>2 DEF Covered, t
      <4> QED
        BY <2>0, <4>1 DEF RingExact
    <3>3. CASE d > t
      <4>1. counted[l]["filtered"][d] = 0
        BY <2>0, <3>3 DEF ShieldIInv, AccountedInTime, t, Shield!Kinds
      <4>2. rows[l].ring[Shield!Slot(d)].date # d
        BY <1>1, <2>0, <3>1, <3>3, SlotsDiffer DEF NotAhead, t, ShieldConstants
      <4> QED
        BY <4>1, <4>2 DEF ShownFor
    <3> QED
      BY <1>1, <3>1, <3>2, <3>3
  <2>4. RingExact(l)'
    BY <1>0, <2>3 DEF RingExact, ShownFor
  <2> QED
    BY <2>1, <2>2, <2>4 DEF RowExact
<1> QED
  BY <1>0, <1>2, <1>3, <1>4 DEF ShieldIInv, Shield!Current

LEMMA ActivateKeeps ==
  ASSUME ShieldConstants, ShieldIInv, Shield!Activate
  PROVE  ShieldIInv'
<1>0. /\ ShieldTyped /\ active' = tick + 1 /\ tick \in Int /\ tick >= 0
      /\ UNCHANGED <<tick, rows, clicks, counted, panel, came>>
  BY DatesAre DEF ShieldIInv, Shield!Activate
<1>1. ShieldTyped'
  BY <1>0 DEF ShieldTyped
<1>2. AccountedInTime'
  BY <1>0 DEF ShieldIInv, AccountedInTime
<1>3. ASSUME NEW l \in Shield!Current PROVE RowExact(l)'
  <2>1. RowExact(l)
    BY <1>3 DEF ShieldIInv
  <2>2. \A d \in Shield!Dates : ~Covered(d)'
    BY <1>0, DatesAre, Halves DEF Covered, Shield!DayStart
  <2> QED
    BY <1>0, <2>1, <2>2 DEF RowExact, NotAhead, RingExact, TodayExact
<1> QED
  BY <1>0, <1>1, <1>2, <1>3 DEF ShieldIInv, Shield!Current

(* A click that is counted in the lifetime only comes before the history.   *)
LEMMA CountedInTotalKeeps ==
  ASSUME ShieldConstants, ShieldIInv, NEW l \in Link, Shield!CountedInTotal(l)
  PROVE  ShieldIInv'
<1> DEFINE t == Shield!Date(tick)
<1>0. /\ ShieldTyped /\ ~(active # NoDate /\ active <= tick) /\ l \in Shield!Current /\ rows[l] \in Counters
      /\ rows' = [rows EXCEPT ![l].lifetime = @ + 1]
      /\ counted' = [counted EXCEPT ![l]["filtered"][t] = @ + 1]
      /\ UNCHANGED <<tick, active, clicks, panel>> /\ t \in Shield!Dates
  BY DatesAre DEF ShieldIInv, Shield!CountedInTotal, Shield!Current, ShieldTyped
<1> HIDE DEF t
<1>1. /\ \A m \in Link : m # l => rows'[m] = rows[m] /\ counted'[m] = counted[m]
      /\ rows'[l] = [rows[l] EXCEPT !.lifetime = @ + 1]
      /\ counted'[l] = [counted[l] EXCEPT !["filtered"][t] = @ + 1]
      /\ counted'[l]["filtered"] = [counted[l]["filtered"] EXCEPT ![t] = @ + 1]
      /\ counted'[l]["delivered"] = counted[l]["delivered"]
  BY <1>0 DEF ShieldTyped, Shield!Kinds
<1>2. rows'[l].ring = rows[l].ring /\ rows'[l].today = rows[l].today /\ rows'[l] \in Counters
  BY <1>0, <1>1 DEF Counters
<1>3. \A d \in Shield!Dates : d # t => counted'[l]["filtered"][d] = counted[l]["filtered"][d]
  BY <1>0, <1>1 DEF ShieldTyped
<1>4. counted'[l] \in [Shield!Kinds -> [Shield!Dates -> Int]]
  BY <1>0, <1>1 DEF ShieldTyped, Shield!Kinds
<1>5. ShieldTyped'
  <2>1. rows' \in [Link -> Counters \union {NoDate}]
    BY <1>0, <1>1, <1>2 DEF ShieldTyped
  <2>2. counted' \in [Link -> [Shield!Kinds -> [Shield!Dates -> Int]]]
    BY <1>0, <1>1, <1>4 DEF ShieldTyped
  <2> QED
    BY <1>0, <2>1, <2>2 DEF ShieldTyped
<1>6. AccountedInTime'
  <2>1. ASSUME NEW m \in Link, NEW k \in Shield!Kinds, NEW d \in Shield!Dates, d > t
        PROVE  counted'[m][k][d] = 0
    <3>1. counted[m][k][d] = 0
      BY <2>1 DEF ShieldIInv, AccountedInTime, t
    <3>2. d # t
      BY <1>0, <2>1, DatesAre
    <3> QED
      BY <1>1, <1>3, <2>1, <3>1, <3>2 DEF Shield!Kinds
  <2> QED
    BY <1>0, <2>1 DEF ShieldIInv, AccountedInTime, t
<1>7. ASSUME NEW m \in Shield!Current PROVE RowExact(m)'
  <2>1. RowExact(m) /\ m \in Link
    BY <1>7 DEF ShieldIInv, Shield!Current
  <2>2. \A d \in Shield!Dates : Covered(d)' <=> Covered(d)
    BY <1>0 DEF Covered
  <2>3. ~Covered(t)
    <3>1. tick \in Int /\ t \in Int /\ 2 * t <= tick /\ active \in Int \union {NoDate}
      BY <1>0, DatesAre, Halves DEF t, ShieldTyped
    <3> QED
      BY <1>0, <3>1 DEF Covered, Shield!DayStart
  <2>4. CASE m = l
    BY <1>0, <1>1, <1>2, <1>3, <2>1, <2>2, <2>3, <2>4 DEF RowExact, NotAhead, RingExact, TodayExact, ShownFor
  <2>5. CASE m # l
    BY <1>0, <1>1, <2>1, <2>2, <2>5 DEF RowExact, NotAhead, RingExact, TodayExact, ShownFor
  <2> QED
    BY <2>4, <2>5
<1>8. Shield!Current' \subseteq Shield!Current
  BY <1>0, <1>1 DEF Shield!Current
<1> QED
  BY <1>5, <1>6, <1>7, <1>8 DEF ShieldIInv

(* Clicks that come, links that go, and what the panel does.                *)
LEMMA AsideKeeps ==
  ASSUME ShieldConstants, ShieldIInv,
         \/ \E c \in Click, l \in Link, kind \in Shield!Kinds : Shield!Come(c, l, kind)
         \/ \E l \in Link : Shield!DeleteLink(l)
         \/ Shield!Open \/ Shield!Report \/ Shield!Reload
         \/ UNCHANGED Shield!vars
  PROVE  ShieldIInv'
<1>0. ShieldTyped /\ AccountedInTime /\ UNCHANGED <<tick, active, counted>>
  BY DEF ShieldIInv, Shield!Come, Shield!DeleteLink, Shield!Open, Shield!Report, Shield!Reload, Shield!vars
<1>1. /\ rows' \in [Link -> Counters \union {NoDate}]
      /\ Shield!Current' \subseteq Shield!Current /\ \A l \in Shield!Current' : rows'[l] = rows[l]
  <2>1. CASE \E l \in Link : Shield!DeleteLink(l)
    BY <1>0, <2>1 DEF Shield!DeleteLink, Shield!Current, ShieldTyped
  <2>2. CASE UNCHANGED rows
    BY <1>0, <2>2 DEF Shield!Current, ShieldTyped
  <2> QED
    BY <2>1, <2>2 DEF Shield!Come, Shield!Open, Shield!Report, Shield!Reload, Shield!vars
<1>2. \/ UNCHANGED clicks
      \/ \E c \in Click, x \in Filtering : x.date = Shield!Date(tick) /\ clicks' = [clicks EXCEPT ![c] = x]
  <2>1. ASSUME NEW c \in Click, NEW l \in Link, NEW kind \in Shield!Kinds, Shield!Come(c, l, kind)
        PROVE  \E x \in Filtering : x.date = Shield!Date(tick) /\ clicks' = [clicks EXCEPT ![c] = x]
    <3>1. [link |-> l, kind |-> kind, date |-> Shield!Date(tick)] \in Filtering
      BY <1>0, DatesAre DEF Filtering
    <3> QED
      BY <2>1, <3>1 DEF Shield!Come
  <2> QED
    BY <2>1 DEF Shield!DeleteLink, Shield!Open, Shield!Report, Shield!Reload, Shield!vars
<1>3. /\ panel' = [pc |-> panel'.pc, day |-> panel'.day, days |-> panel'.days]
      /\ panel'.pc \in {"closed", "asked", "shown"} /\ (panel'.pc = "asked" => panel'.day \in Int /\ panel'.day <= Shield!Date(tick))
  <2>1. CASE UNCHANGED panel
    BY <1>0, <2>1 DEF ShieldTyped
  <2>2. CASE Shield!Open
    <3>1. panel' = [pc |-> "asked", day |-> Shield!Date(tick), days |-> NoDate]
      BY <2>2 DEF Shield!Open, Shield!Closed
    <3>2. Shield!Date(tick) \in Int
      BY <1>0, DatesAre
    <3> QED
      BY <3>1, <3>2
  <2>3. CASE Shield!Report
    <3>1. panel = [pc |-> panel.pc, day |-> panel.day, days |-> panel.days]
      BY <1>0 DEF ShieldTyped
    <3>2. panel' = Shield!Closed \/ \E days : panel' = [panel EXCEPT !.pc = "shown", !.days = days]
      BY <2>3 DEF Shield!Report
    <3>3. panel' = Shield!Closed \/ \E days : panel' = [pc |-> "shown", day |-> panel.day, days |-> days]
      BY <3>1, <3>2
    <3> QED
      BY <3>3 DEF Shield!Closed
  <2>4. CASE Shield!Reload
    BY <2>4 DEF Shield!Reload, Shield!Closed
  <2> QED
    BY <2>1, <2>2, <2>3, <2>4 DEF Shield!Come, Shield!DeleteLink, Shield!vars
<1>4. /\ clicks' \in [Click -> Filtering \union {Shield!NoClick}]
      /\ \A c \in Click : clicks'[c] # Shield!NoClick =>
           clicks'[c].date <= Shield!Date(tick) /\ Shield!Date(tick) <= clicks'[c].date + 1
  <2>1. CASE UNCHANGED clicks
    BY <1>0, <2>1 DEF ShieldTyped, AccountedInTime
  <2>2. CASE \E c \in Click, x \in Filtering : x.date = Shield!Date(tick) /\ clicks' = [clicks EXCEPT ![c] = x]
    <3>0. PICK c \in Click, x \in Filtering : x.date = Shield!Date(tick) /\ clicks' = [clicks EXCEPT ![c] = x]
      BY <2>2
    <3>1. Shield!Date(tick) \in Int
      BY <1>0, DatesAre
    <3>2. clicks' \in [Click -> Filtering \union {Shield!NoClick}]
      BY <1>0, <3>0 DEF ShieldTyped
    <3>3. \A d \in Click : clicks'[d] = IF d = c THEN x ELSE clicks[d]
      BY <1>0, <3>0 DEF ShieldTyped
    <3> QED
      BY <1>0, <3>0, <3>1, <3>2, <3>3 DEF AccountedInTime
  <2> QED
    BY <1>2, <2>1, <2>2
<1>5. ShieldTyped' /\ AccountedInTime'
  BY <1>0, <1>1, <1>3, <1>4 DEF ShieldTyped, AccountedInTime
<1>6. ASSUME NEW l \in Shield!Current' PROVE RowExact(l)'
  <2>1. RowExact(l) /\ rows'[l] = rows[l]
    BY <1>1, <1>6 DEF ShieldIInv
  <2> QED
    BY <1>0, <2>1 DEF RowExact, NotAhead, RingExact, TodayExact, Covered, ShownFor
<1> QED
  BY <1>5, <1>6 DEF ShieldIInv

LEMMA CountedIs ==
  ASSUME ShieldConstants, NEW dated \in Dated, NEW date \in Int, NEW n \in Int
  PROVE  LET anew == dated.date = NoDate \/ dated.date < date
         IN  /\ Shield!Counted(dated, date, n) \in Dated
             /\ Shield!Counted(dated, date, n).date = IF anew THEN date ELSE dated.date
             /\ Shield!Counted(dated, date, n).count =
                  IF anew THEN n ELSE IF dated.date = date THEN dated.count + n ELSE dated.count
BY DEF Shield!Counted, Dated, ShieldConstants

LEMMA ClickCounts ==
  ASSUME ShieldConstants, NEW row \in Counters, NEW click \in Filtering
  PROVE  LET after == Shield!AfterClick(row, click)
             s == Shield!Slot(click.date)
         IN  /\ after \in Counters
             /\ click.kind = "filtered" =>
                  /\ after.today = Shield!Counted(row.today, click.date, 0)
                  /\ after.ring = [row.ring EXCEPT ![s] = Shield!Counted(row.ring[s], click.date, 1)]
             /\ click.kind # "filtered" =>
                  after.today = Shield!Counted(row.today, click.date, 1) /\ after.ring = row.ring
<1> DEFINE s == Shield!Slot(click.date)
<1>1. click.date \in Int /\ s \in Shield!Slots
  <2>1. click.date \in Int
    BY DEF Filtering, Shield!Dates
  <2> QED
    BY <2>1, SlotsDiffer
<1>2. /\ Shield!Counted(row.today, click.date, 0) \in Dated /\ Shield!Counted(row.today, click.date, 1) \in Dated
      /\ Shield!Counted(row.ring[s], click.date, 1) \in Dated
  BY <1>1, CountedIs DEF Counters
<1> HIDE DEF s
<1>3. CASE click.kind = "filtered"
  <2>1. Shield!AfterClick(row, click) =
          [row EXCEPT !.lifetime = @ + 1, !.today = Shield!Counted(@, click.date, 0),
                      !.ring[s] = Shield!Counted(@, click.date, 1)]
    BY <1>3 DEF Shield!AfterClick, s
  <2>2. Shield!AfterClick(row, click) =
          [lifetime |-> row.lifetime + 1, today |-> Shield!Counted(row.today, click.date, 0),
           ring |-> [row.ring EXCEPT ![s] = Shield!Counted(row.ring[s], click.date, 1)]]
    BY <1>1, <2>1 DEF Counters
  <2>3. [row.ring EXCEPT ![s] = Shield!Counted(row.ring[s], click.date, 1)] \in [Shield!Slots -> Dated]
    BY <1>1, <1>2 DEF Counters
  <2>4. row.lifetime + 1 \in Int
    BY DEF Counters
  <2> HIDE DEF s
  <2>5. Shield!AfterClick(row, click) \in Counters
    BY <1>2, <2>2, <2>3, <2>4 DEF Counters
  <2> QED
    BY <1>3, <2>2, <2>5 DEF s
<1>4. CASE click.kind # "filtered"
  BY <1>2, <1>4 DEF Shield!AfterClick, Counters
<1> QED
  BY <1>3, <1>4

(* The counters of a link with a click that was counted.                    *)
LEMMA AccountKeepsRow ==
  ASSUME ShieldConstants, ShieldIInv, UNCHANGED <<tick, active>>, NEW click \in Filtering, NEW l \in Link,
         l \in Shield!Current, ~Shield!Refused(rows[l], click),
         click.date <= Shield!Date(tick), Shield!Date(tick) <= click.date + 1,
         rows'[l] = Shield!AfterClick(rows[l], click),
         \A k \in Shield!Kinds, d \in Shield!Dates :
           counted'[l][k][d] = IF k = click.kind /\ d = click.date THEN counted[l][k][d] + 1 ELSE counted[l][k][d]
  PROVE  RowExact(l)'
<1> DEFINE t == Shield!Date(tick)
           cd == click.date
           s == Shield!Slot(cd)
           today == rows[l].today
           slot == rows[l].ring[s]
<1>0. /\ RowExact(l) /\ ShieldTyped /\ rows[l] \in Counters /\ cd \in Shield!Dates /\ cd \in Int
      /\ click.kind \in {"filtered", "delivered"} /\ t \in Int /\ Shield!Dates \subseteq Int /\ Days \in Nat
      /\ NoDate \notin Int /\ Days >= 2
  BY DatesAre DEF ShieldIInv, Shield!Current, ShieldTyped, Filtering, Shield!Kinds, ShieldConstants
<1>1. /\ s \in Shield!Slots
      /\ \A d \in Int : /\ Shield!Slot(d) \in Shield!Slots
                        /\ Shield!Slot(d) = s /\ d - cd < Days /\ cd - d < Days => d = cd
  BY <1>0, SlotsDiffer
<1>2. today \in Dated /\ slot \in Dated /\ rows[l].ring \in [Shield!Slots -> Dated]
  BY <1>0, <1>1 DEF Counters
<1>3. /\ today.date \in Int \union {NoDate} /\ today.count \in Int
      /\ slot.date \in Int \union {NoDate} /\ slot.count \in Int
  BY <1>2 DEF Dated
<1>t. \A n \in Int :
        /\ Shield!Counted(today, cd, n).date = IF today.date = NoDate \/ today.date < cd THEN cd ELSE today.date
        /\ Shield!Counted(today, cd, n).count =
             IF today.date = NoDate \/ today.date < cd THEN n ELSE IF today.date = cd THEN today.count + n ELSE today.count
  BY <1>0, <1>2, CountedIs
<1>r. click.kind = "filtered" =>
        /\ Shield!Counted(slot, cd, 1).date = cd
        /\ Shield!Counted(slot, cd, 1).count = IF slot.date = cd THEN slot.count + 1 ELSE 1
  <2>1. click.kind = "filtered" => slot.date = NoDate \/ slot.date <= cd
    BY DEF Shield!Refused
  <2> QED
    BY <1>0, <1>2, <1>3, <2>1, CountedIs
<1>a. /\ click.kind = "filtered" =>
           /\ rows'[l].today = Shield!Counted(today, cd, 0)
           /\ rows'[l].ring = [rows[l].ring EXCEPT ![s] = Shield!Counted(slot, cd, 1)]
      /\ click.kind # "filtered" => rows'[l].today = Shield!Counted(today, cd, 1) /\ rows'[l].ring = rows[l].ring
  BY <1>0, ClickCounts
<1>b. /\ click.date <= t /\ t <= cd + 1
      /\ \A d \in Shield!Dates :
           /\ counted'[l]["filtered"][d] =
                IF click.kind = "filtered" /\ d = cd THEN counted[l]["filtered"][d] + 1 ELSE counted[l]["filtered"][d]
           /\ counted'[l]["delivered"][d] =
                IF click.kind = "delivered" /\ d = cd THEN counted[l]["delivered"][d] + 1 ELSE counted[l]["delivered"][d]
           /\ counted[l]["filtered"][d] \in Int /\ counted[l]["delivered"][d] \in Int
  BY <1>0 DEF Shield!Kinds, ShieldTyped
<1> HIDE DEF t, cd, s, today, slot
<1>4. NotAhead(l)'
  <2>1. ASSUME NEW z \in Shield!Slots, rows'[l].ring[z].date # NoDate PROVE rows'[l].ring[z].date <= t
    <3>1. rows[l].ring[z].date # NoDate => rows[l].ring[z].date <= t
      BY <1>0 DEF RowExact, NotAhead, t
    <3> QED
      BY <1>0, <1>1, <1>2, <1>a, <1>b, <1>r, <2>1, <3>1 DEF cd
  <2>2. rows'[l].today.date # NoDate => rows'[l].today.date \in Shield!Dates
    BY <1>0, <1>a, <1>t DEF RowExact, NotAhead, today, cd
  <2> QED
    BY <2>1, <2>2 DEF NotAhead, t
<1>5. TodayExact(l)'
  <2> SUFFICES ASSUME NEW d \in Shield!Dates
               PROVE  /\ rows'[l].today.date = d => rows'[l].today.count = counted'[l]["delivered"][d]
                      /\ rows'[l].today.date = NoDate \/ rows'[l].today.date < d => counted'[l]["delivered"][d] = 0
    BY DEF TodayExact
  <2>1. /\ today.date = d => today.count = counted[l]["delivered"][d]
        /\ today.date = NoDate \/ today.date < d => counted[l]["delivered"][d] = 0
        /\ today.date = NoDate \/ today.date < cd => counted[l]["delivered"][cd] = 0
    BY <1>0 DEF RowExact, TodayExact, today
  <2>2. d \in Int /\ counted[l]["delivered"][d] \in Int
    BY <1>0, <1>b
  <2>3. CASE click.kind = "filtered"
    BY <1>0, <1>3, <1>a, <1>b, <1>t, <2>1, <2>2, <2>3
  <2>4. CASE click.kind = "delivered"
    BY <1>0, <1>3, <1>a, <1>b, <1>t, <2>1, <2>2, <2>4
  <2> QED
    BY <1>0, <2>3, <2>4
<1>6. RingExact(l)'
  <2> SUFFICES ASSUME NEW d \in Shield!Dates, Covered(d)
               PROVE  ShownFor(l, d)' = counted'[l]["filtered"][d]
    BY DEF RingExact, Covered
  <2>1. ShownFor(l, d) = counted[l]["filtered"][d] /\ d \in Int /\ counted[l]["filtered"][d] \in Int
    BY <1>0, <1>b DEF RowExact, RingExact
  <2>2. t - Days < d /\ d <= t
    BY DEF Covered, t
  <2>3. Shield!Slot(d) \in Shield!Slots /\ (Shield!Slot(d) = s => d = cd)
    BY <1>0, <1>1, <1>b, <2>1, <2>2 DEF cd
  <2>4. CASE click.kind # "filtered"
    BY <1>0, <1>a, <1>b, <2>1, <2>4 DEF ShownFor
  <2>5. CASE click.kind = "filtered" /\ d # cd
    <3>1. rows'[l].ring[Shield!Slot(d)] = rows[l].ring[Shield!Slot(d)]
      BY <1>1, <1>2, <1>a, <2>3, <2>5
    <3> QED
      BY <1>b, <2>1, <2>5, <3>1 DEF ShownFor
  <2>6. CASE click.kind = "filtered" /\ d = cd
    <3>1. rows'[l].ring[s] = Shield!Counted(slot, cd, 1) /\ Shield!Slot(d) = s
      BY <1>1, <1>2, <1>a, <2>6 DEF s
    <3>2. ShownFor(l, d) = IF slot.date = cd THEN slot.count ELSE 0
      BY <2>6 DEF ShownFor, slot, s
    <3>3. ShownFor(l, d)' = IF slot.date = cd THEN slot.count + 1 ELSE 1
      BY <1>r, <2>6, <3>1 DEF ShownFor
    <3> QED
      BY <1>3, <1>b, <2>1, <2>6, <3>2, <3>3
  <2> QED
    BY <2>4, <2>5, <2>6
<1> QED
  BY <1>4, <1>5, <1>6 DEF RowExact

LEMMA AccountKeeps ==
  ASSUME ShieldConstants, ShieldIInv, NEW c \in Click, Shield!Account(c)
  PROVE  ShieldIInv'
<1> DEFINE click == clicks[c]
           l == click.link
<1>0. /\ ShieldTyped /\ click # Shield!NoClick /\ click \in Filtering /\ l \in Link
      /\ clicks' = [clicks EXCEPT ![c] = Shield!NoClick] /\ UNCHANGED <<tick, active, panel, came>>
      /\ click.date <= Shield!Date(tick) /\ Shield!Date(tick) <= click.date + 1
      /\ click.kind \in Shield!Kinds /\ click.date \in Shield!Dates
  BY DEF ShieldIInv, ShieldTyped, AccountedInTime, Shield!Account, Filtering
<1>1. /\ clicks' \in [Click -> Filtering \union {Shield!NoClick}]
      /\ \A d \in Click : clicks'[d] # Shield!NoClick =>
           clicks'[d].date <= Shield!Date(tick) /\ Shield!Date(tick) <= clicks'[d].date + 1
  BY <1>0 DEF ShieldIInv, ShieldTyped, AccountedInTime
<1>2. CASE UNCHANGED <<rows, counted>>
  <2>1. ShieldTyped' /\ AccountedInTime'
    BY <1>0, <1>1, <1>2 DEF ShieldIInv, ShieldTyped, AccountedInTime
  <2>2. Shield!Current' = Shield!Current
    BY <1>2 DEF Shield!Current
  <2>3. ASSUME NEW m \in Shield!Current PROVE RowExact(m)'
    <3>1. RowExact(m)
      BY DEF ShieldIInv
    <3> QED
      BY <1>0, <1>2, <3>1 DEF RowExact, NotAhead, RingExact, TodayExact, Covered, ShownFor
  <2> QED
    BY <2>1, <2>2, <2>3 DEF ShieldIInv
<1>3. CASE ~UNCHANGED <<rows, counted>>
  <2>1. /\ l \in Shield!Current /\ ~Shield!Refused(rows[l], click)
        /\ rows' = [rows EXCEPT ![l] = Shield!AfterClick(@, click)]
        /\ counted' = [counted EXCEPT ![l][click.kind][click.date] = @ + 1]
    BY <1>0, <1>3 DEF Shield!Account, Shield!Current
  <2>2. rows[l] \in Counters
    BY <1>0, <2>1 DEF ShieldTyped, Shield!Current
  <2>3. Shield!AfterClick(rows[l], click) \in Counters
    BY <1>0, <2>2, ClickCounts
  <2> HIDE DEF click, l
  <2>4. /\ rows' \in [Link -> Counters \union {NoDate}] /\ rows'[l] = Shield!AfterClick(rows[l], click)
        /\ \A m \in Link : m # l => rows'[m] = rows[m] /\ counted'[m] = counted[m]
    BY <1>0, <2>1, <2>3 DEF ShieldTyped
  <2>5. /\ counted' \in [Link -> [Shield!Kinds -> [Shield!Dates -> Int]]]
        /\ \A k \in Shield!Kinds, d \in Shield!Dates :
             counted'[l][k][d] = IF k = click.kind /\ d = click.date THEN counted[l][k][d] + 1 ELSE counted[l][k][d]
    <3>1. counted[l] \in [Shield!Kinds -> [Shield!Dates -> Int]]
      BY <1>0 DEF ShieldTyped
    <3>2. counted[l][click.kind] \in [Shield!Dates -> Int]
      BY <1>0, <3>1
    <3> DEFINE x == [counted[l][click.kind] EXCEPT ![click.date] = @ + 1]
    <3>3. x \in [Shield!Dates -> Int]
      BY <1>0, <3>2
    <3> DEFINE y == [counted[l] EXCEPT ![click.kind] = x]
    <3>4. counted' = [counted EXCEPT ![l] = y]
      BY <2>1
    <3>5. \A d \in Shield!Dates : x[d] = IF d = click.date THEN counted[l][click.kind][d] + 1 ELSE counted[l][click.kind][d]
      BY <3>2
    <3> HIDE DEF x
    <3>6. y \in [Shield!Kinds -> [Shield!Dates -> Int]]
          /\ \A k \in Shield!Kinds : y[k] = IF k = click.kind THEN x ELSE counted[l][k]
      BY <1>0, <3>1, <3>3
    <3> HIDE DEF y
    <3>7. counted' \in [Link -> [Shield!Kinds -> [Shield!Dates -> Int]]] /\ counted'[l] = y
      BY <1>0, <3>4, <3>6 DEF ShieldTyped
    <3> QED
      BY <3>5, <3>6, <3>7
  <2>6. ShieldTyped'
    BY <1>0, <1>1, <2>4, <2>5 DEF ShieldTyped
  <2>7. AccountedInTime'
    <3>1. ASSUME NEW m \in Link, NEW k \in Shield!Kinds, NEW d \in Shield!Dates, d > Shield!Date(tick)
          PROVE  counted'[m][k][d] = 0
      <4>1. counted[m][k][d] = 0
        BY <3>1 DEF ShieldIInv, AccountedInTime
      <4>2. d # click.date
        BY <1>0, <3>1, DatesAre DEF click
      <4> QED
        BY <2>4, <2>5, <4>1, <4>2
    <3> QED
      BY <1>0, <1>1, <3>1 DEF AccountedInTime
  <2>8. Shield!Current' \subseteq Shield!Current
    BY <2>1, <2>4 DEF Shield!Current
  <2>9. ASSUME NEW m \in Shield!Current PROVE RowExact(m)'
    <3>1. RowExact(m) /\ m \in Link
      BY DEF ShieldIInv, Shield!Current
    <3>2. CASE m # l
      BY <1>0, <2>4, <3>1, <3>2 DEF RowExact, NotAhead, RingExact, TodayExact, Covered, ShownFor
    <3>3. CASE m = l
      <4>1. /\ UNCHANGED <<tick, active>> /\ click \in Filtering /\ l \in Link
            /\ click.date <= Shield!Date(tick) /\ Shield!Date(tick) <= click.date + 1
        BY <1>0 DEF click, l
      <4> QED
        BY <2>1, <2>4, <2>5, <3>3, <4>1, AccountKeepsRow
    <3> QED
      BY <3>2, <3>3
  <2> QED
    BY <2>6, <2>7, <2>8, <2>9 DEF ShieldIInv
<1> QED
  BY <1>2, <1>3

(* Equal summands make equal sums.                                          *)
LEMMA DaysAddUp ==
  ASSUME NEW d \in Shield!Dates, \A l \in Shield!Current : ShownFor(l, d) = counted[l]["filtered"][d]
  PROVE  Shield!DailyTotal(d) = Shield!MapThenSumSet(LAMBDA l : counted[l]["filtered"][d], Shield!Current)
<1> DEFINE S == Shield!Current
           F(h) == [s \in SUBSET S |-> IF s = {} THEN 0 ELSE ShownFor(CHOOSE x \in s : TRUE, d) + h[s \ {CHOOSE x \in s : TRUE}]]
           G(h) == [s \in SUBSET S |-> IF s = {} THEN 0
                                       ELSE counted[CHOOSE x \in s : TRUE]["filtered"][d] + h[s \ {CHOOSE x \in s : TRUE}]]
<1>1. \A h : F(h) = G(h)
  <2>1. \A s \in SUBSET S : s # {} => (CHOOSE x \in s : TRUE) \in S
    OBVIOUS
  <2> QED
    BY <2>1
<1>2. (CHOOSE h : h = F(h)) = (CHOOSE h : h = G(h))
  <2> HIDE DEF F, G
  <2> QED
    BY <1>1
<1>3. Shield!DailyTotal(d) = (CHOOSE h : h = F(h))[S]
  BY DEF Shield!DailyTotal, Shield!MapThenSumSet, Shield!MapThenFoldSet, ShownFor
<1>4. Shield!MapThenSumSet(LAMBDA l : counted[l]["filtered"][d], S) = (CHOOSE h : h = G(h))[S]
  BY DEF Shield!MapThenSumSet, Shield!MapThenFoldSet
<1> QED
  BY <1>2, <1>3, <1>4

LEMMA ShieldStep == ASSUME ShieldConstants, ShieldIInv, [Shield!Next]_(Shield!vars) PROVE ShieldIInv'
BY TickKeeps, ActivateKeeps, CountedInTotalKeeps, AsideKeeps, AccountKeeps DEF Shield!Next

LEMMA ShieldInductive == ASSUME ShieldConstants PROVE Shield!Spec => []ShieldIInv
<1>1. Shield!Init => ShieldIInv
  BY ShieldInit
<1>2. ShieldIInv /\ [Shield!Next]_(Shield!vars) => ShieldIInv'
  BY ShieldStep
<1> QED
  BY <1>1, <1>2, PTL DEF Shield!Spec

LEMMA TodayIsExact == ASSUME ShieldIInv PROVE Shield!TodayIsOfItsDate
<1> SUFFICES ASSUME NEW l \in Shield!Current, rows[l].today.date # NoDate
             PROVE  rows[l].today.count = counted[l]["delivered"][rows[l].today.date]
  BY DEF Shield!TodayIsOfItsDate
<1>1. RowExact(l)
  BY DEF ShieldIInv
<1> QED
  BY <1>1 DEF RowExact, NotAhead, TodayExact

LEMMA ReportsExactDays ==
  ASSUME ShieldConstants, ShieldIInv, Shield!Report, panel'.pc = "shown"
  PROVE  Shield!ExactDays
<1> DEFINE t == Shield!Date(tick)
<1>0. ShieldTyped /\ panel.pc = "asked" /\ t \in Int /\ panel.day \in Int /\ panel.day <= t /\ Days \in Int
      /\ active \in Int \union {NoDate} /\ (active # NoDate => active >= 1)
  BY DatesAre DEF ShieldIInv, ShieldTyped, Shield!Report, ShieldConstants
<1>1. panel' = [panel EXCEPT !.pc = "shown",
                  !.days = [d \in (panel.day - Days + 1)..panel.day |-> Shield!ReportedDay(d, panel.day)]]
  BY DEF Shield!Report, Shield!Closed
<1>2. /\ panel'.day = panel.day
      /\ panel'.days = [d \in (panel.day - Days + 1)..panel.day |-> Shield!ReportedDay(d, panel.day)]
  BY <1>0, <1>1 DEF ShieldTyped
<1>3. ASSUME NEW d \in (t - Days + 1)..panel.day, panel'.days[d].state # "collecting"
      PROVE  /\ d \in Shield!Dates
             /\ panel'.days[d].count = Shield!MapThenSumSet(LAMBDA l : counted[l]["filtered"][d], Shield!Current)
  <2>1. panel'.days[d] = Shield!ReportedDay(d, panel.day) /\ d \in Int /\ d <= t /\ t - Days < d
    BY <1>0, <1>2
  <2>2. /\ active # NoDate /\ ~(active > Shield!DayStart(d))
        /\ Shield!ReportedDay(d, panel.day).count = Shield!DailyTotal(d)
    BY <1>3, <2>1 DEF Shield!ReportedDay, Shield!Collecting
  <2>3. active <= 2 * d /\ active >= 1 /\ active \in Int
    BY <1>0, <2>1, <2>2 DEF Shield!DayStart
  <2>4. d \in Shield!Dates
    BY <1>0, <2>1, <2>3, DatesAre
  <2>5. Covered(d)
    BY <2>1, <2>2, <2>3 DEF Covered, Shield!DayStart
  <2>6. \A l \in Shield!Current : ShownFor(l, d) = counted[l]["filtered"][d]
    BY <2>4, <2>5 DEF ShieldIInv, RowExact, RingExact
  <2> QED
    BY <2>1, <2>2, <2>4, <2>6, DaysAddUp
<1> QED
  BY <1>2, <1>3 DEF Shield!ExactDays

(* A day that the panel calls exact has all that was filtered on it for     *)
(* the links there are, and today's column is of its date, for any number   *)
(* of links and clicks, past midnights and reused slots.                    *)
THEOREM DaysAreExact ==
  ASSUME ShieldConstants
  PROVE  Shield!Spec => ShieldIsExact
<1>1. ShieldIInv' => Shield!TodayIsOfItsDate'
  <2>1. ShieldIInv => Shield!TodayIsOfItsDate
    BY TodayIsExact
  <2> QED
    BY <2>1, PTL
<1>2. ShieldIInv /\ [Shield!Next]_(Shield!vars) => Shield!ExactDays
  <2> SUFFICES ASSUME ShieldIInv, [Shield!Next]_(Shield!vars), panel.pc = "asked", panel'.pc = "shown"
               PROVE  Shield!ExactDays
    BY DEF Shield!ExactDays
  <2>1. Shield!Report
    BY DEF Shield!Next, Shield!Come, Shield!Account, Shield!CountedInTotal, Shield!DeleteLink, Shield!Activate,
           Shield!Open, Shield!Reload, Shield!Tick, Shield!Closed, Shield!vars
  <2> QED
    BY <2>1, ReportsExactDays
<1> QED
  BY <1>1, <1>2, ShieldStep, ShieldInductive, PTL DEF Shield!Spec, ShieldIsExact, Shield!ShieldIsExact

-----------------------------------------------------------------------------
(* The report of a domain.  What the publisher sealed stays sealed, and     *)
(* what was complete when the states were read is so when the counts are;   *)
(* two sums of the same buckets agree where their summands do.              *)
ReportConstants ==
  /\ Hours \in Nat /\ BucketsADay \in Nat \ {0} /\ Week \in Nat /\ Offset \in Int /\ Lag \in Nat
  /\ Tolerance \in Nat /\ Tolerance >= 2 /\ MaxBucket \in Nat
  /\ Absent \notin Int /\ Absent \notin {"complete", "incomplete"}

Marks == [delivered : Int \union {Absent}, diversion : Int \union {Absent}]
BucketRow == [status : {Absent, "complete", "incomplete"}, total : Int, delivered : Int, diverted : Int]
Spans == [start : Int, end : Int]

AReport(r) ==
  r = [pc |-> r.pc, range |-> r.range, marks |-> r.marks, window |-> r.window,
       rows |-> r.rows, states |-> r.states, history |-> r.history, shown |-> r.shown]

Reported ==
  /\ AReport(report)
  /\ report.pc \in {"idle", "window", "read", "shown", "failed"}
  /\ report.window \in Spans \union {Absent}
  /\ report.pc = "read" => report.window \in Spans
  /\ report.pc # "idle" => report.range \in Traffic!Ranges
  /\ report.pc = "idle" => report.window = Absent
  /\ report.pc = "window" => report.states = Absent /\ report.history = Absent

ReportTyped ==
  /\ bucket \in Nat /\ publisher \in [ran : BOOLEAN, missed : BOOLEAN] /\ marks \in Marks
  /\ buckets \in [Traffic!Bucket -> BucketRow] /\ unrecorded \subseteq Traffic!Bucket /\ Reported

(* A figure is recorded in full from its mark on, and a report has the      *)
(* marks of the time it was asked for.                                      *)
MarksKept ==
  /\ \A f \in {"delivered", "diversion"} :
       /\ marks[f] # Absent => marks[f] >= 1
       /\ report.pc # "idle" => report.marks[f] \in {Absent, marks[f]}
  /\ \A b \in unrecorded : b <= bucket /\ (marks.diversion # Absent => b < marks.diversion)

(* The bucket up to which the publisher has sealed what was due: it misses  *)
(* one slot at most, so that it is two behind at the end of the slot after. *)
Seen == bucket - (IF publisher.ran THEN 0 ELSE IF publisher.missed THEN 2 ELSE 1)

SealedInTime ==
  \A b \in Traffic!Bucket :
    marks.delivered # Absent /\ marks.delivered <= b /\ b + 1 + Lag <= Seen => buckets[b].status # Absent

(* What was complete when the states were read is complete.                 *)
StatesKept ==
  /\ \/ report.states \in {Absent, Unread}
     \/ \A b \in Traffic!Within(report.window) : report.states[b].status = "complete" => buckets[b].status = "complete"
  /\ report.history # Absent => report.states \notin {Absent, Unread}

ReportIInv == ReportTyped /\ MarksKept /\ SealedInTime /\ StatesKept /\ Traffic!EdgeIsSealed

LEMMA ReportInit == ASSUME ReportConstants, Traffic!Init PROVE ReportIInv
<1>1. ReportTyped
  <2>1. buckets \in [Traffic!Bucket -> BucketRow]
    BY DEF Traffic!Init, Traffic!NoBucket, BucketRow
  <2>2. Reported
    BY DEF Traffic!Init, Traffic!NoReport, Reported, AReport
  <2> QED
    BY <2>1, <2>2 DEF Traffic!Init, ReportTyped, Marks
<1>2. MarksKept /\ SealedInTime
  BY DEF Traffic!Init, Traffic!NoReport, MarksKept, SealedInTime
<1>3. StatesKept /\ Traffic!EdgeIsSealed
  BY DEF Traffic!Init, Traffic!NoReport, StatesKept, Traffic!EdgeIsSealed
<1> QED
  BY <1>1, <1>2, <1>3 DEF ReportIInv

(* A bucket that is sealed stays so, and a complete one complete.           *)
Lasting ==
  /\ buckets' \in [Traffic!Bucket -> BucketRow]
  /\ \A b \in Traffic!Bucket : /\ buckets[b].status # Absent => buckets'[b].status # Absent
                               /\ buckets[b].status = "complete" => buckets'[b].status = "complete"

LEMMA LastingKeeps ==
  ASSUME ReportTyped, StatesKept, Traffic!EdgeIsSealed, Lasting, UNCHANGED report
  PROVE  StatesKept' /\ Traffic!EdgeIsSealed'
<1>1. StatesKept'
  BY DEF StatesKept, Lasting, Traffic!Within
<1>2. Traffic!EdgeIsSealed'
  BY DEF Traffic!EdgeIsSealed, Lasting, Traffic!Within, Traffic!Covers
<1> QED
  BY <1>1, <1>2

LEMMA ActivateFigure ==
  ASSUME ReportConstants, ReportIInv, NEW figure \in DOMAIN marks, Traffic!Activate(figure)
  PROVE  ReportIInv'
<1>0. /\ ReportTyped /\ marks[figure] = Absent /\ marks' = [marks EXCEPT ![figure] = bucket + 1]
      /\ UNCHANGED <<bucket, publisher, buckets, unrecorded, report, upsets>> /\ bucket \in Nat /\ marks \in Marks
      /\ figure \in {"delivered", "diversion"}
  BY DEF ReportIInv, ReportTyped, Traffic!Activate, Marks
<1>1. /\ marks' \in Marks /\ marks'[figure] = bucket + 1
      /\ \A f \in {"delivered", "diversion"} : f # figure => marks'[f] = marks[f]
  BY <1>0 DEF Marks
<1>2. ReportTyped'
  BY <1>0, <1>1 DEF ReportTyped, Reported
<1>3. MarksKept'
  <2>1. \A b \in unrecorded : b <= bucket /\ b \in Int
    BY <1>0 DEF ReportIInv, MarksKept, ReportTyped, Traffic!Bucket
  <2> QED
    BY <1>0, <1>1, <2>1 DEF ReportIInv, MarksKept
<1>4. SealedInTime'
  <2> SUFFICES ASSUME NEW b \in Traffic!Bucket, marks'.delivered # Absent, marks'.delivered <= b, b + 1 + Lag <= Seen
               PROVE  buckets[b].status # Absent
    BY <1>0 DEF SealedInTime, Seen
  <2>1. b \in Int /\ Lag \in Nat
    BY DEF Traffic!Bucket, ReportConstants
  <2>2. CASE figure = "delivered"
    BY <1>0, <1>1, <2>1, <2>2 DEF Seen
  <2>3. CASE figure # "delivered"
    BY <1>1, <2>3 DEF ReportIInv, SealedInTime
  <2> QED
    BY <2>2, <2>3
<1>5. StatesKept' /\ Traffic!EdgeIsSealed'
  BY <1>0, LastingKeeps DEF ReportIInv, ReportTyped, Lasting
<1> QED
  BY <1>2, <1>3, <1>4, <1>5 DEF ReportIInv

LEMMA BookKeeps ==
  ASSUME ReportConstants, ReportIInv, Traffic!BookDiversion
  PROVE  ReportIInv'
<1>0. /\ ReportTyped /\ bucket \in Traffic!Bucket /\ UNCHANGED <<bucket, publisher, marks, report>>
      /\ \/ buckets' = [buckets EXCEPT ![bucket].diverted = @ + 1] /\ UNCHANGED unrecorded
         \/ /\ ~(marks.diversion # Absent /\ marks.diversion <= bucket)
            /\ unrecorded' = unrecorded \union {bucket} /\ UNCHANGED buckets
  BY DEF ReportIInv, Traffic!BookDiversion
<1>1. Lasting /\ \A b \in Traffic!Bucket : buckets'[b].status = buckets[b].status
  BY <1>0 DEF Lasting, ReportTyped, BucketRow
<1>2. ReportTyped'
  BY <1>0, <1>1 DEF ReportTyped, Reported, Lasting
<1>3. MarksKept'
  <2>1. bucket \in Nat /\ marks.diversion \in Int \union {Absent}
    BY <1>0 DEF ReportTyped, Marks
  <2> QED
    BY <1>0, <2>1 DEF ReportIInv, MarksKept
<1>4. SealedInTime'
  BY <1>0, <1>1 DEF ReportIInv, SealedInTime, Seen
<1>5. StatesKept' /\ Traffic!EdgeIsSealed'
  BY <1>0, <1>1, LastingKeeps DEF ReportIInv
<1> QED
  BY <1>2, <1>3, <1>4, <1>5 DEF ReportIInv

LEMMA SealedIs ==
  ASSUME ReportTyped, NEW b \in Traffic!Bucket, NEW status \in {"complete", "incomplete"}, NEW n \in Int
  PROVE  Traffic!Sealed(b, status, n) \in BucketRow /\ Traffic!Sealed(b, status, n).status = status
<1>1. buckets[b] \in BucketRow
  BY DEF ReportTyped
<1> DEFINE r == buckets[b]
<1>0. Traffic!Sealed(b, status, n) = [r EXCEPT !.status = status, !.total = n, !.delivered = n]
  BY DEF Traffic!Sealed
<1> HIDE DEF r
<1>2. r \in BucketRow
  BY <1>1 DEF r
<1>3. Traffic!Sealed(b, status, n) = [status |-> status, total |-> n, delivered |-> n, diverted |-> r.diverted]
  BY <1>0, <1>2 DEF BucketRow
<1> QED
  BY <1>2, <1>3 DEF BucketRow

LEMMA PublishKeeps ==
  ASSUME ReportConstants, ReportIInv, Traffic!Publish
  PROVE  ReportIInv'
<1>0. ReportTyped /\ UNCHANGED <<bucket, marks, unrecorded, report>> /\ publisher' = [ran |-> TRUE, missed |-> FALSE]
  BY DEF ReportIInv, Traffic!Publish
<1> DEFINE due == {b \in Traffic!Bucket : Traffic!Due(b) /\ buckets[b].status = Absent}
<1>1. PICK gaps : /\ gaps \subseteq due
                  /\ buckets' = [b \in Traffic!Bucket |->
                       IF b \in gaps THEN Traffic!Sealed(b, "incomplete", 1)
                       ELSE IF b \in due THEN Traffic!Sealed(b, "complete", 1) ELSE buckets[b]]
  <2> DEFINE sealing(gaps) == buckets' = [b \in Traffic!Bucket |->
               IF b \in gaps THEN Traffic!Sealed(b, "incomplete", 1)
               ELSE IF b \in due THEN Traffic!Sealed(b, "complete", 1) ELSE buckets[b]]
  <2>1. sealing({}) \/ \E gap \in due : sealing({gap})
    BY DEF Traffic!Publish
  <2> HIDE DEF sealing, due
  <2>2. \E gaps : gaps \subseteq due /\ sealing(gaps)
    <3>1. CASE sealing({})
      <4>1. {} \subseteq due
        OBVIOUS
      <4> QED
        BY <3>1, <4>1
    <3>2. CASE \E gap \in due : sealing({gap})
      <4>1. PICK gap \in due : sealing({gap})
        BY <3>2
      <4>2. {gap} \subseteq due
        BY <4>1
      <4> QED
        BY <4>1, <4>2
    <3> QED
      BY <2>1, <3>1, <3>2
  <2> QED
    BY <2>2 DEF sealing
<1>2. ASSUME NEW b \in Traffic!Bucket, NEW status \in {"complete", "incomplete"}
      PROVE  Traffic!Sealed(b, status, 1) \in BucketRow /\ Traffic!Sealed(b, status, 1).status = status
  BY <1>0, SealedIs
<1>3. ASSUME NEW b \in Traffic!Bucket
      PROVE  /\ buckets'[b] \in BucketRow
             /\ b \in due => buckets'[b].status \in {"complete", "incomplete"}
             /\ b \notin due => buckets'[b] = buckets[b]
  <2>1. buckets[b] \in BucketRow
    BY <1>0 DEF ReportTyped
  <2> HIDE DEF due
  <2> QED
    BY <1>1, <1>2, <2>1
<1>4. Lasting
  <2>1. buckets' \in [Traffic!Bucket -> BucketRow]
    BY <1>1, <1>3
  <2> QED
    BY <1>3, <2>1 DEF Lasting, ReportConstants
<1>5. ReportTyped'
  BY <1>0, <1>4 DEF ReportTyped, Reported, Lasting
<1>6. MarksKept'
  BY <1>0 DEF ReportIInv, MarksKept
<1>7. SealedInTime'
  <2> SUFFICES ASSUME NEW b \in Traffic!Bucket, marks.delivered # Absent, marks.delivered <= b, b + 1 + Lag <= bucket
               PROVE  buckets'[b].status # Absent
    BY <1>0 DEF SealedInTime, Seen, ReportTyped
  <2>1. Traffic!Due(b)
    BY DEF Traffic!Due, Traffic!Bucket, ReportTyped, ReportConstants, ReportIInv, Marks
  <2> QED
    BY <1>3, <2>1 DEF ReportConstants
<1>8. StatesKept' /\ Traffic!EdgeIsSealed'
  BY <1>0, <1>4, LastingKeeps DEF ReportIInv
<1> QED
  BY <1>5, <1>6, <1>7, <1>8 DEF ReportIInv

LEMMA RepairKeeps ==
  ASSUME ReportConstants, ReportIInv, NEW b \in Traffic!Bucket, Traffic!Repair(b)
  PROVE  ReportIInv'
<1> DEFINE x == Traffic!Sealed(b, "complete", buckets[b].total + 1)
<1>0. ReportTyped /\ UNCHANGED <<bucket, publisher, marks, unrecorded, report>> /\ buckets' = [buckets EXCEPT ![b] = x]
  BY DEF ReportIInv, Traffic!Repair
<1>1. x \in BucketRow /\ x.status = "complete"
  <2>1. buckets[b].total + 1 \in Int
    BY <1>0 DEF ReportTyped, BucketRow
  <2> QED
    BY <1>0, <2>1, SealedIs
<1> HIDE DEF x
<1>2. /\ buckets' \in [Traffic!Bucket -> BucketRow] /\ buckets'[b] = x
      /\ \A c \in Traffic!Bucket : c # b => buckets'[c] = buckets[c]
  BY <1>0, <1>1 DEF ReportTyped
<1>3. Lasting
  BY <1>1, <1>2 DEF Lasting, ReportConstants
<1>4. ReportTyped'
  BY <1>0, <1>3 DEF ReportTyped, Reported, Lasting
<1>5. MarksKept'
  BY <1>0 DEF ReportIInv, MarksKept
<1>6. SealedInTime'
  BY <1>0, <1>3 DEF ReportIInv, SealedInTime, Seen, Lasting
<1>7. StatesKept' /\ Traffic!EdgeIsSealed'
  BY <1>0, <1>3, LastingKeeps DEF ReportIInv
<1> QED
  BY <1>4, <1>5, <1>6, <1>7 DEF ReportIInv

LEMMA BucketEnds ==
  ASSUME ReportConstants, ReportIInv, Traffic!Tick
  PROVE  ReportIInv'
<1>0. /\ ReportTyped /\ bucket' = bucket + 1 /\ publisher' = [ran |-> FALSE, missed |-> ~publisher.ran]
      /\ UNCHANGED <<marks, buckets, unrecorded, report>> /\ bucket \in Nat
      /\ (publisher.ran \/ ~publisher.missed) /\ publisher \in [ran : BOOLEAN, missed : BOOLEAN]
  BY DEF ReportIInv, ReportTyped, Traffic!Tick
<1>1. ReportTyped'
  BY <1>0 DEF ReportTyped, Reported
<1>2. MarksKept'
  <2>1. \A b \in unrecorded : b <= bucket /\ b \in Int
    BY <1>0 DEF ReportIInv, MarksKept, ReportTyped, Traffic!Bucket
  <2> QED
    BY <1>0, <2>1 DEF ReportIInv, MarksKept
<1>3. Seen' = Seen
  <2>1. publisher'.ran = FALSE /\ publisher'.missed = ~publisher.ran
    BY <1>0
  <2>2. Seen' = bucket + 1 - (IF publisher'.missed THEN 2 ELSE 1)
    BY <1>0, <2>1 DEF Seen
  <2>3. CASE publisher.ran
    <3>1. Seen = bucket - 0 /\ Seen' = bucket + 1 - 1
      BY <2>1, <2>2, <2>3 DEF Seen
    <3> QED
      BY <1>0, <3>1
  <2>4. CASE ~publisher.ran
    <3>1. Seen = bucket - 1 /\ Seen' = bucket + 1 - 2
      BY <1>0, <2>1, <2>2, <2>4 DEF Seen
    <3> QED
      BY <1>0, <3>1
  <2> QED
    BY <2>3, <2>4
<1>4. SealedInTime'
  BY <1>0, <1>3 DEF ReportIInv, SealedInTime
<1>5. StatesKept' /\ Traffic!EdgeIsSealed'
  BY <1>0, LastingKeeps DEF ReportIInv, ReportTyped, Lasting
<1> QED
  BY <1>1, <1>2, <1>4, <1>5 DEF ReportIInv

LEMMA LoadKeeps ==
  ASSUME ReportConstants, ReportIInv, NEW range \in Traffic!Ranges, Traffic!LoadActivation(range)
  PROVE  ReportIInv'
<1>0. /\ ReportTyped /\ UNCHANGED <<bucket, publisher, marks, buckets, unrecorded>>
      /\ report' = [pc |-> "window", range |-> range, marks |-> marks, window |-> Absent,
                    rows |-> Absent, states |-> Absent, history |-> Absent, shown |-> Absent]
  BY DEF ReportIInv, Traffic!LoadActivation, Traffic!NoReport
<1>1. ReportTyped'
  BY <1>0 DEF ReportTyped, Reported, AReport
<1>2. MarksKept' /\ SealedInTime'
  BY <1>0 DEF ReportIInv, MarksKept, SealedInTime, Seen
<1>3. StatesKept' /\ Traffic!EdgeIsSealed'
  BY <1>0 DEF StatesKept, Traffic!EdgeIsSealed
<1> QED
  BY <1>1, <1>2, <1>3 DEF ReportIInv

LEMMA AnswerKeeps ==
  ASSUME ReportConstants, ReportIInv, Traffic!Answer
  PROVE  ReportIInv'
<1>0. /\ ReportTyped /\ UNCHANGED <<bucket, publisher, marks, buckets, unrecorded>>
      /\ report' = [pc |-> "idle", range |-> Absent, marks |-> Absent, window |-> Absent,
                    rows |-> Absent, states |-> Absent, history |-> Absent, shown |-> Absent]
  BY DEF ReportIInv, Traffic!Answer, Traffic!NoReport
<1>1. ReportTyped'
  BY <1>0 DEF ReportTyped, Reported, AReport
<1>2. MarksKept' /\ SealedInTime'
  BY <1>0 DEF ReportIInv, MarksKept, SealedInTime, Seen
<1>3. StatesKept' /\ Traffic!EdgeIsSealed'
  BY <1>0 DEF StatesKept, Traffic!EdgeIsSealed
<1> QED
  BY <1>1, <1>2, <1>3 DEF ReportIInv

LEMMA WindowsAre ==
  ASSUME ReportConstants, bucket \in Nat, NEW range \in Traffic!Ranges, NEW configured \in BOOLEAN
  PROVE  Traffic!Window(range, configured) \in Spans
<1>1. Traffic!Edge(configured) \in Int
  BY DEF Traffic!Edge, ReportConstants
<1>2. Traffic!Midnight \in Int
  <2>1. ((bucket + Offset) \div BucketsADay) \in Int
    BY DEF ReportConstants
  <2> QED
    BY <2>1 DEF Traffic!Midnight, ReportConstants
<1>3. Week * BucketsADay \in Int
  BY DEF ReportConstants
<1>4. ASSUME NEW first \in Int, NEW last \in Int
      PROVE  Traffic!Span(first, last) \in Spans
  BY DEF Traffic!Span, Spans
<1>5. /\ Traffic!Edge(configured) - Hours \in Int
      /\ Traffic!Midnight - BucketsADay \in Int /\ Traffic!Midnight - Week * BucketsADay \in Int
  BY <1>1, <1>2, <1>3 DEF ReportConstants
<1> QED
  BY <1>1, <1>2, <1>4, <1>5 DEF Traffic!Window, Traffic!Ranges

(* Before its end less the tolerance, the publisher has seen every bucket.  *)
LEMMA WindowKeeps ==
  ASSUME ReportConstants, ReportIInv, Traffic!ChooseWindow
  PROVE  ReportIInv'
<1> DEFINE w == Traffic!Window(report.range, Traffic!Configured)
<1>0. /\ ReportTyped /\ UNCHANGED <<bucket, publisher, marks, buckets, unrecorded>> /\ bucket \in Nat
      /\ report.pc = "window" /\ report.range \in Traffic!Ranges /\ report.states = Absent /\ report.history = Absent
  BY DEF ReportIInv, ReportTyped, Reported, Traffic!ChooseWindow
<1>1. report' = [pc |-> "read", range |-> report.range, marks |-> report.marks, window |-> w,
                 rows |-> report.rows, states |-> report.states, history |-> report.history, shown |-> report.shown]
  <2>1. AReport(report) /\ report' = [report EXCEPT !.pc = "read", !.window = w]
    BY <1>0 DEF Traffic!ChooseWindow, ReportTyped, Reported
  <2> HIDE DEF w
  <2> QED
    BY <2>1 DEF AReport
<1>2. w \in Spans
  BY <1>0, WindowsAre DEF Traffic!Configured
<1>3. Traffic!EdgeIsSealed'
  <2> SUFFICES ASSUME report.range = "6h", Applicable, Traffic!Covers(report.marks.delivered, w),
                      NEW b \in Traffic!Within(w)
               PROVE  buckets[b].status # Absent
    BY <1>0, <1>1 DEF Traffic!EdgeIsSealed, Traffic!Covers, Traffic!Within
  <2>1. w = [start |-> bucket - (Lag + Tolerance) - Hours, end |-> bucket - (Lag + Tolerance)]
    BY DEF Traffic!Window, Traffic!Span, Traffic!Edge, Traffic!Configured, Traffic!Covers
  <2>2. b \in Traffic!Bucket /\ b \in Int /\ w.start <= b /\ b < bucket - (Lag + Tolerance)
    BY <2>1 DEF Traffic!Within, Traffic!Bucket
  <2>3. marks.delivered # Absent /\ report.marks.delivered = marks.delivered /\ marks.delivered <= w.start
    BY <1>0 DEF Traffic!Covers, ReportIInv, MarksKept
  <2>4. marks.delivered \in Int /\ w.start \in Int
    BY <1>0, <1>2, <2>3 DEF ReportTyped, Marks, Spans
  <2>5. Seen \in Int /\ bucket - 2 <= Seen
    BY <1>0 DEF Seen
  <2>6. marks.delivered <= b /\ b + 1 + Lag <= Seen
    <3> HIDE DEF w
    <3> QED
      BY <1>0, <2>2, <2>3, <2>4, <2>5 DEF ReportConstants
  <2> QED
    BY <2>2, <2>3, <2>6 DEF ReportIInv, SealedInTime
<1> HIDE DEF w
<1>4. ReportTyped'
  BY <1>0, <1>1, <1>2 DEF ReportTyped, Reported, AReport
<1>5. MarksKept' /\ SealedInTime'
  BY <1>0, <1>1 DEF ReportIInv, MarksKept, SealedInTime, Seen
<1>6. StatesKept'
  BY <1>0, <1>1 DEF StatesKept
<1> QED
  BY <1>3, <1>4, <1>5, <1>6 DEF ReportIInv

(* What is shown when all that was asked for has been answered.             *)
LEMMA ReadShows ==
  ASSUME NEW r, AReport(r), r.pc = "read", Traffic!Read(r)
  PROVE  /\ AReport(report)' /\ report'.pc \in {"read", "shown", "failed"}
         /\ report'.range = r.range /\ report'.marks = r.marks /\ report'.window = r.window
         /\ report'.states = r.states /\ report'.history = r.history
         /\ report'.pc = "shown" =>
              /\ Traffic!Configured /\ Traffic!Covers(r.marks.delivered, r.window)
                   => r.states = Unread \/ r.history # Absent
              /\ report'.shown.delivered # Absent =>
                   /\ Applicable /\ Traffic!Evaluated(r) # Absent
                   /\ r.rows.delivered = Traffic!Evaluated(r) /\ report'.shown.delivered = r.rows.delivered
              /\ report'.shown.diverted # Absent => Traffic!Covers(r.marks.diversion, r.window)
<1> DEFINE total == IF Applicable THEN Traffic!Evaluated(r) ELSE Absent
           figures == [delivered |-> IF total = Absent THEN Absent ELSE r.rows.delivered,
                       diverted |-> IF Traffic!Covers(r.marks.diversion, r.window) THEN r.rows.diverted ELSE Absent]
           complete == r.rows # Absent /\ (Traffic!Configured /\ Traffic!Covers(r.marks.delivered, r.window)
                                             => r.states = Unread \/ r.history # Absent)
<1>1. CASE ~complete
  <2>1. report' = r
    BY <1>1 DEF Traffic!Read
  <2> QED
    BY <2>1 DEF AReport
<1>2. CASE complete /\ total # Absent /\ ~(r.rows.delivered = total)
  <2>1. report' = [r EXCEPT !.pc = "failed"]
    BY <1>2 DEF Traffic!Read, Traffic!Built, Traffic!Agrees
  <2> QED
    BY <2>1 DEF AReport
<1>3. CASE complete /\ ~(total # Absent /\ ~(r.rows.delivered = total))
  <2>1. report' = [r EXCEPT !.pc = "shown", !.shown = figures]
    BY <1>3 DEF Traffic!Read, Traffic!Built, Traffic!Agrees
  <2> HIDE DEF figures
  <2>2. /\ AReport(report)' /\ report'.pc = "shown" /\ report'.shown = figures
        /\ report'.range = r.range /\ report'.marks = r.marks /\ report'.window = r.window
        /\ report'.states = r.states /\ report'.history = r.history
    BY <2>1 DEF AReport
  <2>3. figures.delivered # Absent => total # Absent /\ figures.delivered = r.rows.delivered
    BY DEF figures
  <2>4. figures.diverted # Absent => Traffic!Covers(r.marks.diversion, r.window)
    BY DEF figures
  <2> QED
    BY <1>3, <2>2, <2>3, <2>4
<1> QED
  BY <1>1, <1>2, <1>3

(* A statement that was read keeps the invariant, whatever it read.         *)
LEMMA ReadKeeps ==
  ASSUME ReportConstants, ReportIInv, NEW r, AReport(r), report.pc = "read", r.pc = "read",
         r.range = report.range, r.marks = report.marks, r.window = report.window,
         \/ r.states \in {Absent, Unread}
         \/ \A b \in Traffic!Within(report.window) : r.states[b].status = "complete" => buckets[b].status = "complete",
         r.history # Absent => r.states \notin {Absent, Unread},
         Traffic!Read(r) \/ report' = [r EXCEPT !.pc = "failed"],
         UNCHANGED <<bucket, publisher, marks, buckets, unrecorded>>
  PROVE  ReportIInv'
<1>1. /\ AReport(report)' /\ report'.pc \in {"read", "shown", "failed"}
      /\ report'.range = r.range /\ report'.marks = r.marks /\ report'.window = r.window
      /\ report'.states = r.states /\ report'.history = r.history
  <2>1. CASE Traffic!Read(r)
    BY <2>1, ReadShows
  <2>2. CASE report' = [r EXCEPT !.pc = "failed"]
    BY <2>2 DEF AReport
  <2> QED
    BY <2>1, <2>2
<1>2. ReportTyped'
  BY <1>1 DEF ReportIInv, ReportTyped, Reported
<1>3. MarksKept' /\ SealedInTime'
  BY <1>1 DEF ReportIInv, MarksKept, SealedInTime, Seen
<1>4. StatesKept'
  BY <1>1 DEF ReportIInv, StatesKept, Traffic!Within
<1>5. Traffic!EdgeIsSealed'
  BY <1>1 DEF ReportIInv, Traffic!EdgeIsSealed, Traffic!Covers, Traffic!Within
<1> QED
  BY <1>2, <1>3, <1>4, <1>5 DEF ReportIInv

LEMMA RowsKeep ==
  ASSUME ReportConstants, ReportIInv, Traffic!ReadRows
  PROVE  ReportIInv'
<1> DEFINE x == [delivered |-> Traffic!Sum("delivered", report.window), diverted |-> Traffic!Sum("diverted", report.window)]
           r == [report EXCEPT !.rows = x]
<1>0. /\ AReport(report) /\ report.pc = "read" /\ UNCHANGED <<bucket, publisher, marks, buckets, unrecorded>>
      /\ Traffic!Read(r) \/ report' = [report EXCEPT !.pc = "failed"]
  BY DEF ReportIInv, ReportTyped, Reported, Traffic!ReadRows
<1>1. CASE report' = [report EXCEPT !.pc = "failed"]
  BY <1>0, <1>1, ReadKeeps DEF ReportIInv, StatesKept
<1>2. CASE Traffic!Read(r)
  <2>1. /\ AReport(r) /\ r.pc = "read" /\ r.range = report.range /\ r.marks = report.marks /\ r.window = report.window
        /\ r.states = report.states /\ r.history = report.history
    <3> HIDE DEF x
    <3> QED
      BY <1>0 DEF AReport
  <2> HIDE DEF r
  <2> QED
    BY <1>0, <1>2, <2>1, ReadKeeps DEF ReportIInv, StatesKept
<1> QED
  BY <1>0, <1>1, <1>2

LEMMA StatesKeep ==
  ASSUME ReportConstants, ReportIInv, Traffic!ReadStates
  PROVE  ReportIInv'
<1> DEFINE x == [b \in Traffic!Within(report.window) |-> [status |-> buckets[b].status, total |-> buckets[b].total]]
           r(states) == [report EXCEPT !.states = states]
<1>0. /\ AReport(report) /\ report.pc = "read" /\ report.states = Absent
      /\ UNCHANGED <<bucket, publisher, marks, buckets, unrecorded>>
      /\ Traffic!Read(r(x)) \/ Traffic!Read(r(Unread))
  BY DEF ReportIInv, ReportTyped, Reported, Traffic!ReadStates
<1>1. report.history = Absent
  BY <1>0 DEF ReportIInv, StatesKept
<1>2. PICK states \in {x, Unread} : Traffic!Read(r(states))
  BY <1>0
<1>3. \/ states = Unread
      \/ \A b \in Traffic!Within(report.window) : states[b].status = "complete" => buckets[b].status = "complete"
  BY <1>2
<1> HIDE DEF x
<1>4. /\ AReport(r(states)) /\ r(states).pc = "read" /\ r(states).range = report.range
      /\ r(states).marks = report.marks /\ r(states).window = report.window
      /\ r(states).states = states /\ r(states).history = Absent
  BY <1>0, <1>1 DEF AReport
<1> HIDE DEF r
<1> QED
  BY <1>0, <1>2, <1>3, <1>4, ReadKeeps

LEMMA HistoryKeeps ==
  ASSUME ReportConstants, ReportIInv, Traffic!ReadHistory
  PROVE  ReportIInv'
<1> DEFINE x == [b \in Traffic!Within(report.window) |-> buckets[b].delivered]
           r(history) == [report EXCEPT !.history = history]
<1>0. /\ AReport(report) /\ report.pc = "read" /\ report.states \notin {Absent, Unread}
      /\ UNCHANGED <<bucket, publisher, marks, buckets, unrecorded>>
      /\ Traffic!Read(r(x)) \/ Traffic!Read(r(Unread))
  BY DEF ReportIInv, ReportTyped, Reported, Traffic!ReadHistory
<1>2. PICK history : Traffic!Read(r(history))
  BY <1>0
<1>4. /\ AReport(r(history)) /\ r(history).pc = "read" /\ r(history).range = report.range
      /\ r(history).marks = report.marks /\ r(history).window = report.window
      /\ r(history).states = report.states
  BY <1>0 DEF AReport
<1> HIDE DEF r
<1> QED
  BY <1>0, <1>2, <1>4, ReadKeeps DEF ReportIInv, StatesKept

LEMMA ReportStep == ASSUME ReportConstants, ReportIInv, [Traffic!Next]_(Traffic!vars) PROVE ReportIInv'
<1>1. CASE Traffic!Next
  BY <1>1, ActivateFigure, BookKeeps, PublishKeeps, RepairKeeps, BucketEnds, LoadKeeps, WindowKeeps,
     RowsKeep, StatesKeep, HistoryKeeps, AnswerKeeps DEF Traffic!Next
<1>2. CASE UNCHANGED Traffic!vars
  BY <1>2 DEF Traffic!vars, ReportIInv, ReportTyped, Reported, AReport, MarksKept, SealedInTime, Seen, StatesKept,
              Traffic!EdgeIsSealed, Traffic!Covers, Traffic!Within, Traffic!Bucket
<1> QED
  BY <1>1, <1>2

(* Two sums over the same buckets of figures that agree are one.            *)
TotalOf(states, window) == Traffic!MapThenSumSet(LAMBDA b : states[b].total, Traffic!Within(window))

LEMMA FiguresAddUp ==
  ASSUME NEW window, NEW states, \A b \in Traffic!Within(window) : states[b].total = buckets[b].delivered
  PROVE  TotalOf(states, window) = Traffic!Sum("delivered", window)
<1> DEFINE S == Traffic!Within(window)
           F(h) == [s \in SUBSET S |-> IF s = {} THEN 0 ELSE states[CHOOSE x \in s : TRUE].total + h[s \ {CHOOSE x \in s : TRUE}]]
           G(h) == [s \in SUBSET S |-> IF s = {} THEN 0
                                       ELSE buckets[CHOOSE x \in s : TRUE]["delivered"] + h[s \ {CHOOSE x \in s : TRUE}]]
<1>1. \A h : F(h) = G(h)
  <2>1. \A s \in SUBSET S : s # {} => (CHOOSE x \in s : TRUE) \in S
    OBVIOUS
  <2>2. \A b \in S : states[b].total = buckets[b]["delivered"]
    OBVIOUS
  <2> HIDE DEF S
  <2> QED
    BY <2>1, <2>2
<1>2. (CHOOSE h : h = F(h)) = (CHOOSE h : h = G(h))
  <2> HIDE DEF F, G
  <2> QED
    BY <1>1
<1>3. TotalOf(states, window) = (CHOOSE h : h = F(h))[S]
  BY DEF TotalOf, Traffic!MapThenSumSet, Traffic!MapThenFoldSet
<1>4. Traffic!Sum("delivered", window) = (CHOOSE h : h = G(h))[S]
  BY DEF Traffic!Sum, Traffic!MapThenSumSet, Traffic!MapThenFoldSet
<1> QED
  BY <1>2, <1>3, <1>4

(* What the answer that completes a report can be shown with.               *)
LEMMA FiguresAre ==
  ASSUME ReportConstants, ReportIInv, report.pc = "read", NEW r, AReport(r), r.pc = "read",
         r.marks = report.marks, r.window = report.window, Traffic!Read(r), report'.pc = "shown"
  PROVE  /\ report'.window = report.window
         /\ report'.shown.delivered # Absent =>
              /\ report.window.start \in Nat /\ Traffic!Configured /\ Traffic!Covers(report.marks.delivered, report.window)
              /\ r.states # Unread /\ r.history \notin {Absent, Unread}
              /\ \A b \in Traffic!Within(report.window) : r.states[b].status = "complete" /\ r.states[b].total = r.history[b]
              /\ report'.shown.delivered = r.rows.delivered
              /\ r.rows.delivered = TotalOf(r.states, report.window)
         /\ report'.shown.diverted # Absent =>
              report.window.start \in Nat /\ Traffic!Within(report.window) \intersect unrecorded = {}
<1> DEFINE w == report.window
<1>0. /\ w \in Spans /\ w.start \in Int /\ marks \in Marks
      /\ \A f \in {"delivered", "diversion"} : /\ marks[f] # Absent => marks[f] >= 1 /\ marks[f] \in Int
                                               /\ report.marks[f] \in {Absent, marks[f]}
  BY DEF ReportIInv, ReportTyped, Reported, MarksKept, Marks, Spans
<1>1. ASSUME NEW f \in {"delivered", "diversion"}, Traffic!Covers(report.marks[f], w)
      PROVE  marks[f] # Absent /\ marks[f] \in Int /\ marks[f] <= w.start /\ w.start \in Nat
  <2>1. report.marks[f] = marks[f] /\ marks[f] # Absent /\ marks[f] <= w.start
    BY <1>0, <1>1 DEF Traffic!Covers
  <2> HIDE DEF w
  <2> QED
    BY <1>0, <2>1
<1>2. /\ report'.window = w
      /\ Traffic!Configured /\ Traffic!Covers(r.marks.delivered, w) => r.states = Unread \/ r.history # Absent
      /\ report'.shown.delivered # Absent =>
           /\ Applicable /\ Traffic!Evaluated(r) # Absent
           /\ r.rows.delivered = Traffic!Evaluated(r) /\ report'.shown.delivered = r.rows.delivered
      /\ report'.shown.diverted # Absent => Traffic!Covers(r.marks.diversion, w)
  BY ReadShows
<1>3. ASSUME report'.shown.delivered # Absent
      PROVE  /\ w.start \in Nat /\ Traffic!Configured /\ Traffic!Covers(report.marks.delivered, w)
             /\ r.states # Unread /\ r.history \notin {Absent, Unread}
             /\ \A b \in Traffic!Within(w) : r.states[b].status = "complete" /\ r.states[b].total = r.history[b]
             /\ report'.shown.delivered = r.rows.delivered
             /\ r.rows.delivered = TotalOf(r.states, w)
  <2>1. /\ Traffic!Covers(r.marks.delivered, w) /\ r.states # Unread /\ r.history # Unread
        /\ \A b \in Traffic!Within(w) : r.states[b].status = "complete" /\ r.states[b].total = r.history[b]
        /\ Traffic!Evaluated(r) = TotalOf(r.states, w)
    BY <1>2, <1>3 DEF Traffic!Evaluated, TotalOf
  <2>2. w.start \in Nat /\ report.marks.delivered # Absent
    BY <1>1, <2>1 DEF Traffic!Covers
  <2>3. Traffic!Configured
    BY <1>2, <1>3, <2>2 DEF Traffic!Configured
  <2> HIDE DEF w
  <2> QED
    BY <1>2, <1>3, <2>1, <2>2, <2>3
<1>4. ASSUME report'.shown.diverted # Absent
      PROVE  w.start \in Nat /\ Traffic!Within(w) \intersect unrecorded = {}
  <2>1. marks.diversion # Absent /\ marks.diversion \in Int /\ marks.diversion <= w.start /\ w.start \in Nat
    BY <1>1, <1>2, <1>4
  <2>2. \A b \in unrecorded : b \in Int /\ b < marks.diversion
    BY <2>1 DEF ReportIInv, ReportTyped, MarksKept, Traffic!Bucket
  <2>3. \A b \in Traffic!Within(w) : w.start <= b
    BY DEF Traffic!Within
  <2> HIDE DEF w
  <2> QED
    BY <2>1, <2>2, <2>3
<1> QED
  BY <1>2, <1>3, <1>4

LEMMA RowsShown ==
  ASSUME ReportConstants, ReportIInv, Traffic!ReadRows, report'.pc = "shown"
  PROVE  Traffic!ShownIsWhole
<1> DEFINE x == [delivered |-> Traffic!Sum("delivered", report.window), diverted |-> Traffic!Sum("diverted", report.window)]
           r == [report EXCEPT !.rows = x]
           w == report.window
<1>1. AReport(report) /\ report.pc = "read" /\ (Traffic!Read(r) \/ report' = [report EXCEPT !.pc = "failed"])
  BY DEF ReportIInv, ReportTyped, Reported, Traffic!ReadRows
<1>2. Traffic!Read(r)
  <2>1. ~(report' = [report EXCEPT !.pc = "failed"])
    BY <1>1 DEF AReport
  <2> QED
    BY <1>1, <2>1
<1>3. /\ AReport(r) /\ r.pc = "read" /\ r.marks = report.marks /\ r.window = w
      /\ r.states = report.states /\ r.history = report.history /\ r.rows = x
  <2> HIDE DEF x
  <2> QED
    BY <1>1 DEF AReport
<1>4. x.delivered = Traffic!Sum("delivered", w)
  OBVIOUS
<1> HIDE DEF x, r
<1>5. ASSUME report'.shown.delivered # Absent
      PROVE  \A b \in Traffic!Within(w) : buckets[b].status = "complete"
  <2>1. /\ report.history \notin {Absent, Unread}
        /\ \A b \in Traffic!Within(w) : report.states[b].status = "complete"
    BY <1>1, <1>2, <1>3, <1>5, FiguresAre
  <2> QED
    BY <2>1 DEF ReportIInv, StatesKept
<1> QED
  BY <1>1, <1>2, <1>3, <1>4, <1>5, FiguresAre DEF Traffic!ShownIsWhole

LEMMA StatesShown ==
  ASSUME ReportConstants, ReportIInv, Traffic!ReadStates, report'.pc = "shown"
  PROVE  Traffic!ShownIsWhole
<1> DEFINE x == [b \in Traffic!Within(report.window) |-> [status |-> buckets[b].status, total |-> buckets[b].total]]
           r(states) == [report EXCEPT !.states = states]
<1>1. AReport(report) /\ report.pc = "read" /\ report.states = Absent /\ (Traffic!Read(r(x)) \/ Traffic!Read(r(Unread)))
  BY DEF ReportIInv, ReportTyped, Reported, Traffic!ReadStates
<1>2. report.history = Absent
  BY <1>1 DEF ReportIInv, StatesKept
<1>3. PICK states : Traffic!Read(r(states))
  BY <1>1
<1>4. /\ AReport(r(states)) /\ r(states).pc = "read" /\ r(states).marks = report.marks
      /\ r(states).window = report.window /\ r(states).history = Absent
  BY <1>1, <1>2 DEF AReport
<1> HIDE DEF r
<1> QED
  BY <1>1, <1>3, <1>4, FiguresAre DEF Traffic!ShownIsWhole

LEMMA HistoryShown ==
  ASSUME ReportConstants, ReportIInv, Traffic!ReadHistory, report'.pc = "shown"
  PROVE  Traffic!ShownIsWhole
<1> DEFINE w == report.window
           x == [b \in Traffic!Within(w) |-> buckets[b].delivered]
           r(history) == [report EXCEPT !.history = history]
<1>1. /\ AReport(report) /\ report.pc = "read" /\ report.states \notin {Absent, Unread}
      /\ Traffic!Read(r(x)) \/ Traffic!Read(r(Unread))
  BY DEF ReportIInv, ReportTyped, Reported, Traffic!ReadHistory
<1>2. PICK history \in {x, Unread} : Traffic!Read(r(history))
  BY <1>1
<1>3. history = Unread \/ \A b \in Traffic!Within(w) : history[b] = buckets[b].delivered
  BY <1>2
<1> HIDE DEF x
<1>4. /\ AReport(r(history)) /\ r(history).pc = "read" /\ r(history).marks = report.marks
      /\ r(history).window = w /\ r(history).states = report.states /\ r(history).history = history
  BY <1>1 DEF AReport
<1> HIDE DEF r
<1>5. ASSUME report'.shown.delivered # Absent
      PROVE  /\ \A b \in Traffic!Within(w) : buckets[b].status = "complete"
             /\ report'.shown.delivered = Traffic!Sum("delivered", w)
  <2>1. /\ r(history).history # Unread
        /\ \A b \in Traffic!Within(w) : report.states[b].status = "complete" /\ report.states[b].total = history[b]
        /\ report'.shown.delivered = TotalOf(report.states, w)
    BY <1>1, <1>2, <1>4, <1>5, FiguresAre
  <2>2. \A b \in Traffic!Within(w) : report.states[b].total = buckets[b].delivered
    BY <1>3, <1>4, <2>1
  <2>3. \A b \in Traffic!Within(w) : buckets[b].status = "complete"
    BY <1>1, <1>4, <2>1 DEF ReportIInv, StatesKept
  <2> QED
    BY <2>1, <2>2, <2>3, FiguresAddUp
<1> QED
  BY <1>1, <1>2, <1>4, <1>5, FiguresAre DEF Traffic!ShownIsWhole

(* A count of delivered clicks on the report is the present one of sealed   *)
(* buckets, though the publisher seals and repairs between the statements   *)
(* it is read by, and the last six hours reach no bucket that waits to be   *)
(* sealed, for any length of the window, lag, timezone and number of        *)
(* buckets (admin-report-service.ts:55-118, report-window.ts,               *)
(* admin-report-policy.ts:60-203).                                          *)
THEOREM ReportsAreTruthful ==
  ASSUME ReportConstants
  PROVE  Traffic!Spec => ReportTruthful
<1>1. ReportIInv => Traffic!EdgeIsSealed
  BY DEF ReportIInv
<1>2. ReportIInv /\ [Traffic!Next]_(Traffic!vars) => [Traffic!ShownIsWhole]_(Traffic!vars)
  <2> SUFFICES ASSUME ReportIInv, [Traffic!Next]_(Traffic!vars), report'.pc = "shown", report.pc # "shown"
               PROVE  Traffic!ShownIsWhole
    BY DEF Traffic!ShownIsWhole
  <2>1. CASE UNCHANGED report
    BY <2>1
  <2>2. CASE ~UNCHANGED report
    <3>1. Traffic!ReadRows \/ Traffic!ReadStates \/ Traffic!ReadHistory
      <4>1. ASSUME NEW range \in Traffic!Ranges, Traffic!LoadActivation(range) PROVE FALSE
        BY <4>1 DEF Traffic!LoadActivation, Traffic!NoReport
      <4>2. ~Traffic!ChooseWindow
        <5> DEFINE w == Traffic!Window(report.range, Traffic!Configured)
        <5>1. AReport(report)
          BY DEF ReportIInv, ReportTyped, Reported
        <5>2. report' # [report EXCEPT !.pc = "read", !.window = w]
          <6> HIDE DEF w
          <6> QED
            BY <5>1 DEF AReport
        <5> QED
          BY <5>2 DEF Traffic!ChooseWindow
      <4>3. ~Traffic!Answer
        BY DEF Traffic!Answer, Traffic!NoReport
      <4> QED
        BY <2>2, <4>1, <4>2, <4>3 DEF Traffic!Next, Traffic!Activate, Traffic!BookDiversion, Traffic!Publish, Traffic!Tick,
                                Traffic!Repair, Traffic!vars
    <3> QED
      BY <3>1, RowsShown, StatesShown, HistoryShown
  <2> QED
    BY <2>1, <2>2
<1> QED
  BY <1>1, <1>2, ReportInit, ReportStep, PTL DEF Traffic!Spec, ReportTruthful, Traffic!ReportTruthful
=============================================================================
