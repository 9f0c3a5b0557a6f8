----------------------------- MODULE WebProcess -----------------------------
(* The life of a web process (server.ts, startup-recovery.ts): it is gated  *)
(* by the readiness probe (runtime-readiness.ts), serves, drains recovery   *)
(* work in passes, and is told to stop at any moment.                       *)
(*                                                                          *)
(* Time is counted in ticks; a timer that is due runs before time goes on.  *)
(* The process keeps nothing that outlives it, so one life is modelled.     *)
EXTENDS Integers

CONSTANTS
  Dependency,       \* what a probe asks; the database among them
  Database,
  Timeout,          \* ticks before a probe counts as failed
  CacheTtl,         \* ticks its answer stands
  DatabaseTimeout,  \* ticks of the database's own deadline
  GateTimeout,      \* ticks the listener waits for the first positive answer
  Retry             \* ticks between two questions of the gate

Caller == {"gate", "request"}

VARIABLES
  probe,        \* the probe under way and its bounded result
  cached,       \* the last bounded result, and the ticks it stands
  acquisition,  \* the database connection a probe asked the pool for
  asked,        \* per caller of check(), its answer
  main,         \* the top level of server.ts
  app,          \* the listener
  drainer,      \* the recovery drainer
  shutdown,     \* the signal handler
  resources,    \* the stores, clients and queues, and the probe's closed flag
  up, down      \* per dependency, whether it is in order and, if not, since when

vars == <<probe, cached, acquisition, asked, main, app, drainer, shutdown, resources, up, down>>
world == <<up, down>>
process == <<main, app, drainer, shutdown, resources>>
probing == <<probe, cached, acquisition>>

NoProbe == [running |-> FALSE, bounded |-> "none", left |-> 0, databaseLeft |-> 0,
            answers |-> [d \in Dependency |-> "none"]]

Uncached == [ready |-> FALSE, left |-> 0]

Init ==
  /\ probe = NoProbe /\ cached = Uncached /\ acquisition = "idle"
  /\ asked = [c \in Caller |-> "idle"]
  /\ main = [at |-> "preflight", left |-> GateTimeout, delay |-> 0]
  /\ app = "idle" /\ shutdown = "none" /\ resources = "open"
  /\ drainer = [stopping |-> FALSE, timer |-> FALSE, passing |-> FALSE]
  /\ up = [d \in Dependency |-> TRUE]
  /\ down = [d \in Dependency |-> 0]

-----------------------------------------------------------------------------
(* CachedRuntimeReadinessProbe                                              *)

Answer(ready) == IF ready THEN "ready" ELSE "refused"

(* A connection still being acquired for an earlier probe fails this one.   *)
Started ==
  [running |-> TRUE, bounded |-> "pending", left |-> Timeout, databaseLeft |-> DatabaseTimeout,
   answers |-> [d \in Dependency |->
                  IF d = Database /\ acquisition # "idle" THEN "bad" ELSE "pending"]]

(* check(): closed, then cached, then shared, then a probe of its own.      *)
Check(c) ==
  /\ asked[c] = "idle"
  /\ \/ /\ resources # "open"
        /\ asked' = [asked EXCEPT ![c] = "refused"]
        /\ UNCHANGED probing
     \/ /\ resources = "open" /\ cached.left > 0
        /\ asked' = [asked EXCEPT ![c] = Answer(cached.ready)]
        /\ UNCHANGED probing
     \/ /\ resources = "open" /\ cached.left = 0 /\ probe.running
        /\ asked' = [asked EXCEPT ![c] = IF probe.bounded = "pending" THEN "waiting" ELSE "refused"]
        /\ UNCHANGED probing
     \/ /\ resources = "open" /\ cached.left = 0 /\ ~probe.running
        /\ asked' = [asked EXCEPT ![c] = "waiting"]
        /\ probe' = Started
        /\ acquisition' = "pending"
        /\ UNCHANGED cached

(* The bounded promise resolves: every caller that shares it is answered.   *)
Resolve(ready) ==
  /\ asked' = [c \in Caller |-> IF asked[c] = "waiting" THEN Answer(ready) ELSE asked[c]]
  /\ cached' = IF resources = "open" THEN [ready |-> ready, left |-> CacheTtl] ELSE cached

TimedOutNever == FALSE

(* A timed-out probe stays the active one until its checks have settled.    *)
TimedOut == probe.bounded = "pending" /\ probe.left = 0

GiveUp ==
  /\ TimedOut
  /\ probe' = [probe EXCEPT !.bounded = "failed"]
  /\ Resolve(FALSE)
  /\ UNCHANGED <<acquisition, process, world>>

(* #runChecks waits for all of them.                                        *)
Settle ==
  /\ probe.running
  /\ \A d \in Dependency : probe.answers[d] \in {"ok", "bad"}
  /\ IF probe.bounded = "pending"
     THEN Resolve(\A d \in Dependency : probe.answers[d] = "ok")
     ELSE UNCHANGED <<asked, cached>>
  /\ probe' = NoProbe
  /\ UNCHANGED <<acquisition, process, world>>

Answers(d, answer) == probe' = [probe EXCEPT !.answers[d] = answer]

(* Redis, the directories, the image worker: a check may fail for its own   *)
(* reasons, and may hang.                                                   *)
Reply(d) ==
  /\ probe.answers[d] = IF d = Database THEN "querying" ELSE "pending"
  /\ \/ up[d] /\ Answers(d, "ok")
     \/ Answers(d, "bad")
  /\ UNCHANGED <<cached, acquisition, asked, process, world>>

(* acquireBefore: a connection that comes too late is destroyed.            *)
Acquire ==
  /\ acquisition = "pending"
  /\ acquisition' = "idle"
  /\ \/ probe.answers[Database] = "pending" /\ \E answer \in {"querying", "bad"} : Answers(Database, answer)
     \/ probe.answers[Database] # "pending" /\ UNCHANGED probe
  /\ UNCHANGED <<cached, asked, process, world>>

DatabaseGivesUp ==
  /\ probe.answers[Database] \in {"pending", "querying"} /\ probe.databaseLeft = 0
  /\ Answers(Database, "bad")
  /\ UNCHANGED <<cached, acquisition, asked, process, world>>

-----------------------------------------------------------------------------
(* RuntimeResources.close                                                   *)

BeginClose ==
  IF resources = "open"
  THEN resources' = "closing" /\ cached' = Uncached
  ELSE UNCHANGED <<resources, cached>>

CloseWaitsForChecks == probe.running

(* readiness.close() waits for the bounded result alone.                    *)
CloseWaits == probe.bounded = "pending"

Close ==
  /\ resources = "closing" /\ ~CloseWaits
  /\ resources' = "closed"
  /\ UNCHANGED <<probing, asked, main, app, drainer, shutdown, world>>

-----------------------------------------------------------------------------
(* The top level of server.ts                                               *)

Goto(place) == main' = [main EXCEPT !.at = place, !.delay = 0]

(* The catch block.                                                         *)
Fail ==
  /\ Goto("failed") /\ BeginClose
  /\ UNCHANGED <<probe, acquisition, app, drainer, shutdown, world>>

(* recoverBeforeListen: the read-only backlog probe, with its deadline.     *)
Preflight ==
  /\ main.at = "preflight"
  /\ \/ Goto("gate") /\ UNCHANGED <<cached, probe, acquisition, app, drainer, shutdown, resources, world>>
     \/ Fail
  /\ UNCHANGED asked

(* waitForInitialRuntimeReadiness: ask, and ask again after a delay until   *)
(* the deadline.                                                            *)
GateAsks ==
  /\ main.at = "gate" /\ main.delay = 0 /\ main.left > 0
  /\ Check("gate")
  /\ UNCHANGED <<process, world>>

GatePasses ==
  /\ asked["gate"] = "ready"
  /\ asked' = [asked EXCEPT !["gate"] = "idle"]
  /\ Goto("opening")
  /\ UNCHANGED <<probing, app, drainer, shutdown, resources, world>>

GateWaits ==
  /\ asked["gate"] = "refused" /\ main.left > 0
  /\ asked' = [asked EXCEPT !["gate"] = "idle"]
  /\ main' = [main EXCEPT !.delay = IF Retry < main.left THEN Retry ELSE main.left]
  /\ UNCHANGED <<probing, app, drainer, shutdown, resources, world>>

GateFails ==
  /\ main.at = "gate" /\ main.left = 0 /\ asked["gate"] \in {"idle", "refused"}
  /\ asked' = [asked EXCEPT !["gate"] = "idle"]
  /\ Fail

(* app.listen refuses an application that was closed meanwhile, or a port   *)
(* that is taken.                                                           *)
Listen ==
  /\ main.at = "opening"
  /\ \/ app = "idle" /\ app' = "listening" /\ Goto("opened")
        /\ UNCHANGED <<probing, drainer, shutdown, resources, world>>
     \/ Fail
  /\ UNCHANGED asked

(* After the listener: unless a signal came, the drainer (in the process    *)
(* that owns it) and "ready".                                               *)
Announce ==
  /\ main.at = "opened"
  /\ IF shutdown = "none"
     THEN Goto("serving") /\ \E owner \in BOOLEAN : drainer' = [drainer EXCEPT !.passing = owner]
     ELSE Goto("silent") /\ UNCHANGED drainer
  /\ UNCHANGED <<probing, asked, app, shutdown, resources, world>>

(* GET /health/ready, which stands for every request under way.             *)
Request ==
  /\ app = "listening"
  /\ Check("request")
  /\ UNCHANGED <<process, world>>

Respond ==
  /\ asked["request"] \in {"ready", "refused"}
  /\ asked' = [asked EXCEPT !["request"] = "idle"]
  /\ UNCHANGED <<probing, process, world>>

-----------------------------------------------------------------------------
(* RecoveryDrainer                                                          *)

(* #runPass and #schedule: batch, error or idle, another timer unless       *)
(* stopping.                                                                *)
PassEnds ==
  /\ drainer.passing
  /\ drainer' = [drainer EXCEPT !.passing = FALSE, !.timer = ~drainer.stopping]
  /\ UNCHANGED <<probing, asked, main, app, shutdown, resources, world>>

TimerFires ==
  /\ drainer.timer
  /\ drainer' = [drainer EXCEPT !.timer = FALSE, !.passing = ~drainer.stopping]
  /\ UNCHANGED <<probing, asked, main, app, shutdown, resources, world>>

-----------------------------------------------------------------------------
(* shutdown(signal)                                                         *)

Signal ==
  /\ shutdown = "none"
  /\ shutdown' = "settling"
  /\ app' = "closing"
  /\ drainer' = [drainer EXCEPT !.stopping = TRUE, !.timer = FALSE]
  /\ UNCHANGED <<probing, asked, main, resources, world>>

StopWaitsNot == FALSE

(* app.close() waits for the requests, drainer.stop() for the active pass.  *)
StopWaits == drainer.passing

Stopped ==
  /\ shutdown = "settling"
  /\ asked["request"] = "idle" /\ ~StopWaits
  /\ shutdown' = "closing" /\ app' = "closed"
  /\ BeginClose
  /\ UNCHANGED <<probe, acquisition, asked, main, drainer, world>>

End ==
  /\ shutdown = "closing" /\ resources = "closed"
  /\ shutdown' = "done"
  /\ UNCHANGED <<probing, asked, main, app, drainer, resources, world>>

-----------------------------------------------------------------------------
(* Outside                                                                  *)

(* A dependency fails or comes back.                                        *)
Turn(d) ==
  /\ up' = [up EXCEPT ![d] = ~up[d]]
  /\ down' = [down EXCEPT ![d] = 0]
  /\ UNCHANGED <<probing, asked, process>>

Less(n) == IF n = 0 THEN 0 ELSE n - 1

Prompt ==
  /\ ~TimedOut
  /\ probe.answers[Database] \in {"pending", "querying"} => probe.databaseLeft > 0
  /\ \A c \in Caller : asked[c] \notin {"ready", "refused"}
  /\ main.at = "gate" => asked["gate"] = "waiting" \/ (main.left > 0 /\ main.delay > 0)

(* Longer than this and no answer may rest on it.                           *)
Recent == Timeout + CacheTtl

Tick ==
  /\ Prompt
  /\ probe' = [probe EXCEPT !.left = Less(@), !.databaseLeft = Less(@)]
  /\ cached' = IF cached.left <= 1 THEN Uncached ELSE [cached EXCEPT !.left = @ - 1]
  /\ main' = [main EXCEPT !.left = IF main.at = "gate" THEN Less(@) ELSE @, !.delay = Less(@)]
  /\ down' = [d \in Dependency |-> IF up[d] \/ down[d] > Recent THEN down[d] ELSE down[d] + 1]
  /\ UNCHANGED <<acquisition, asked, app, drainer, shutdown, resources, up>>

Next ==
  \/ Preflight \/ GateAsks \/ GatePasses \/ GateWaits \/ GateFails \/ Listen \/ Announce
  \/ Request \/ Respond \/ GiveUp \/ Settle \/ Acquire \/ DatabaseGivesUp
  \/ \E d \in Dependency : Reply(d) \/ Turn(d)
  \/ PassEnds \/ TimerFires \/ Signal \/ Stopped \/ Close \/ End \/ Tick

(* Timers and promises that can settle do; a pass ends because the work of  *)
(* a job is waited for with a timeout.  Dependencies may hang for ever.     *)
Fairness ==
  /\ WF_vars(GiveUp) /\ WF_vars(Settle) /\ WF_vars(DatabaseGivesUp) /\ WF_vars(Respond)
  /\ WF_vars(PassEnds) /\ WF_vars(Stopped) /\ WF_vars(Close) /\ WF_vars(End) /\ WF_vars(Tick)
  /\ WF_vars(GatePasses \/ GateWaits \/ GateFails \/ GateAsks \/ Preflight \/ Listen \/ Announce)

Spec == Init /\ [][Next]_vars /\ Fairness

-----------------------------------------------------------------------------
(* A positive answer of check() (runtime-readiness.ts:59-88), to the gate   *)
(* or to a health request, rests on every dependency having been in order   *)
(* within the last timeout and cache period, however probes hang and are    *)
(* shared.                                                                  *)
ReadyIsRecent ==
  \A c \in Caller, d \in Dependency : asked[c] = "ready" => up[d] \/ down[d] <= Recent

(* Once the resources are closed no recovery pass runs or can start and no  *)
(* request is under way (server.ts:126-143): stop() waits for the pass, and *)
(* the paths that close without a signal come before anything was started.  *)
ClosedIsQuiet ==
  resources = "closed" =>
    ~drainer.passing /\ ~drainer.timer /\ asked["request"] = "idle" /\ app # "listening"

(* Both: the process answers for its dependencies as they lately were, and  *)
(* is at rest once it let go of them (runtime-readiness.ts, server.ts).     *)
WebInv == ReadyIsRecent /\ ClosedIsQuiet

(* A signal ends in closed resources even when a dependency never answers   *)
(* the probe (server.ts:122-151, runtime-readiness.ts:91-97).               *)
ShutdownSettles == (shutdown = "settling") ~> (shutdown = "done")
=============================================================================
