---------------------------- MODULE WorkerLease ----------------------------
(* The singleton lease of the image worker (worker-heartbeat.ts) as the    *)
(* worker process uses it (image-worker.ts, lease-loss.ts): an expiring    *)
(* Redis key that a process must own before it consumes the queue and that *)
(* it refreshes while it does.                                             *)
(*                                                                         *)
(* Time is a countdown: one Pass of the clock lowers what is left of the   *)
(* key and of each timer.  Redis takes the commands of one connection in   *)
(* the order sent, however late; a broken connection loses those it has    *)
(* not taken.                                                              *)
EXTENDS Integers, Sequences

CONSTANTS
  Process,          \* lives of worker processes, each with a token of its own
  Nobody,           \* no owner
  Ttl, Interval, CommandTimeout,
  Late              \* how long the event loop may hold a timer back

ASSUME LeaseTimes ==
  /\ {Ttl, Interval, CommandTimeout} \subseteq Nat \ {0} /\ Late \in Nat
  /\ Nobody \notin Process
  /\ CommandTimeout <= Interval /\ Interval < Ttl

(* What the default times (15 s, 5 s, 1 s) grant, and the bounds of the    *)
(* constructor alone do not: the second refresh to fail is late enough to  *)
(* be taken for the last one, and is noticed before the key can lapse.     *)
ASSUME LeaseMargin ==
  /\ 3 * Interval >= Ttl
  /\ 2 * (Interval + Late) + 2 * CommandTimeout + Late < Ttl

VARIABLES
  key,       \* the Redis key: its owner, and the time left to it
  pipe,      \* per process, commands sent that Redis has not taken yet
  worker     \* per process, its heartbeat and its queue consumer

vars == <<key, pipe, worker>>

Free == [owner |-> Nobody, left |-> 0]

Phase == {"down", "acquiring", "serving", "closing", "stopping", "exited"}

Down ==
  [phase |-> "down", op |-> "none", age |-> 0, reply |-> "none", readySent |-> FALSE,
   timer |-> 0, since |-> 0, busy |-> FALSE]

Init ==
  /\ key = Free
  /\ pipe = [p \in Process |-> <<>>]
  /\ worker = [p \in Process |-> Down]

Exited == [Down EXCEPT !.phase = "exited"]

Set(p, w) == worker' = [worker EXCEPT ![p] = w]

Send(p, command) == pipe' = [pipe EXCEPT ![p] = Append(@, command)]

(* The record after a command is sent: it is the active one.               *)
Sending(w, command) == [w EXCEPT !.op = command, !.age = 0, !.reply = "none"]

Settled(w) == [w EXCEPT !.op = "none", !.age = 0, !.reply = "none"]

RefreshWindowAtExpiry(w) == w.since >= Ttl

(* The time of the next decision, should the next refresh fail too, is not *)
(* safely before the end of the last lease this process knows of.          *)
RefreshWindowExhausted(w) == w.since + Interval + CommandTimeout >= Ttl

-----------------------------------------------------------------------------
(* Redis                                                                   *)

(* acquireRefreshScript and compareDeleteScript.                           *)
Publishes(p) == key.owner \in {Nobody, p}

AfterPublish(p) == IF Publishes(p) THEN [owner |-> p, left |-> Ttl] ELSE key

AfterDelete(p) == IF key.owner = p THEN Free ELSE key

(* A reply reaches its waiter unless that gave up: then it is dropped.  The *)
(* active command is always the last one sent.                             *)
Execute(p) ==
  LET command == Head(pipe[p])
      answered == Len(pipe[p]) = 1 /\ worker[p].op = command
      reply == IF command = "publish" /\ ~Publishes(p) THEN "conflict" ELSE "ok"
  IN /\ pipe[p] # <<>>
     /\ pipe' = [pipe EXCEPT ![p] = Tail(@)]
     /\ key' = IF command = "publish" THEN AfterPublish(p) ELSE AfterDelete(p)
     /\ IF answered THEN Set(p, [worker[p] EXCEPT !.reply = reply]) ELSE UNCHANGED worker

Disconnect(p) ==
  /\ pipe[p] # <<>>
  /\ pipe' = [pipe EXCEPT ![p] = <<>>]
  /\ UNCHANGED <<key, worker>>

-----------------------------------------------------------------------------
(* The process                                                             *)

(* startLeasedImageConsumer: the consumer is connected but paused until    *)
(* acquire() returns.                                                      *)
Start(p) ==
  /\ worker[p].phase = "down"
  /\ Set(p, Sending([Down EXCEPT !.phase = "acquiring"], "publish"))
  /\ Send(p, "publish")
  /\ UNCHANGED key

(* The lease counts from the time its answer is read, which the deadline   *)
(* bounds.  From acquire() start() refreshes at once, sets the timer, and  *)
(* the consumer runs.                                                      *)
Confirmed(p) ==
  LET w == [Settled(worker[p]) EXCEPT !.since = 0, !.readySent = worker[p].phase # "stopping"]
  IN /\ worker[p].op = "publish" /\ worker[p].reply = "ok" /\ worker[p].age <= CommandTimeout
     /\ UNCHANGED key
     /\ \/ /\ worker[p].phase = "acquiring"
           /\ Set(p, Sending([w EXCEPT !.phase = "serving", !.timer = Interval], "publish"))
           /\ Send(p, "publish")
        \/ /\ worker[p].phase # "acquiring"
           /\ Set(p, [w EXCEPT !.timer = IF worker[p].readySent THEN @ ELSE Interval])
           /\ UNCHANGED pipe

(* A conflict, an error or the deadline, whatever Redis did.  Before the   *)
(* first lease it fails the startup; later a lease that is lost, or may    *)
(* soon be, ends the process on the spot, and any other failure waits for  *)
(* the next refresh.                                                       *)
Refused(p) ==
  LET w == worker[p]
      lost == w.readySent /\ (w.reply = "conflict" \/ RefreshWindowExhausted(w))
  IN /\ w.op = "publish"
     /\ UNCHANGED <<key, pipe>>
     /\ \/ w.phase = "acquiring" /\ Set(p, [Settled(w) EXCEPT !.phase = "closing"])
        \/ w.phase \in {"serving", "closing"} /\ lost /\ Set(p, Exited)
        \/ w.phase \in {"serving", "closing"} /\ ~lost /\ Set(p, Settled(w))
        \/ w.phase = "stopping" /\ Set(p, Settled(w))

TimerKept(w) == w.readySent /\ w.phase # "exited"

(* stop() clears the timer.                                                *)
TimerLive(w) == w.readySent /\ w.phase \in {"serving", "closing"}

(* A refresh still active is not doubled.                                  *)
Refresh(p) ==
  LET w == [worker[p] EXCEPT !.timer = Interval]
  IN /\ TimerLive(worker[p]) /\ worker[p].timer <= 0
     /\ UNCHANGED key
     /\ IF w.op = "publish" THEN Set(p, w) /\ UNCHANGED pipe
                            ELSE Set(p, Sending(w, "publish")) /\ Send(p, "publish")

TakeJob(p) ==
  /\ worker[p].phase = "serving" /\ ~worker[p].busy
  /\ Set(p, [worker[p] EXCEPT !.busy = TRUE])
  /\ UNCHANGED <<key, pipe>>

FinishJob(p) ==
  /\ worker[p].busy
  /\ Set(p, [worker[p] EXCEPT !.busy = FALSE])
  /\ UNCHANGED <<key, pipe>>

(* A signal, or a failed run loop: worker.close() waits for the job at     *)
(* hand while the heartbeat goes on.                                       *)
Shutdown(p) ==
  /\ worker[p].phase \in {"acquiring", "serving"}
  /\ Set(p, [worker[p] EXCEPT !.phase = "closing"])
  /\ UNCHANGED <<key, pipe>>

Stop(p) ==
  /\ worker[p].phase = "closing" /\ ~worker[p].busy
  /\ Set(p, [worker[p] EXCEPT !.phase = "stopping"])
  /\ UNCHANGED <<key, pipe>>

(* stop() waits for the active refresh, deletes the key if it is its own,  *)
(* and waits for that up to the deadline.                                  *)
SendDelete(p) ==
  /\ worker[p].phase = "stopping" /\ worker[p].op = "none"
  /\ Set(p, Sending(worker[p], "delete"))
  /\ Send(p, "delete")
  /\ UNCHANGED key

Exit(p) ==
  /\ worker[p].op = "delete"
  /\ Set(p, Exited)
  /\ UNCHANGED <<key, pipe>>

Crash(p) ==
  /\ worker[p].phase \notin {"down", "exited"}
  /\ Set(p, Exited)
  /\ UNCHANGED <<key, pipe>>

(* The process manager starts a new process, whose token is new: nothing   *)
(* is left of the old one.  Before, another Process stands for it.         *)
Restart(p) ==
  /\ worker[p].phase = "exited" /\ pipe[p] = <<>> /\ key.owner # p
  /\ Set(p, Down)
  /\ UNCHANGED <<key, pipe>>

-----------------------------------------------------------------------------
(* Time passes unless a deadline or a timer has been held back for as long *)
(* as the event loop may hold it.                                          *)
PunctualTimer(w) == TimerLive(w) => w.timer > -Late

Punctual(w) ==
  /\ w.op # "none" => w.age < CommandTimeout + Late
  /\ TimerLive(w) => w.timer > -Late

Older(w) ==
  [w EXCEPT !.age = IF w.op = "none" THEN 0 ELSE @ + 1,
            !.timer = IF TimerLive(w) THEN @ - 1 ELSE @,
            !.since = IF TimerLive(w) /\ @ < Ttl THEN @ + 1 ELSE @]

Pass ==
  /\ \A p \in Process : Punctual(worker[p])
  /\ key' = IF key.left > 1 THEN [key EXCEPT !.left = @ - 1] ELSE Free
  /\ worker' = [p \in Process |-> Older(worker[p])]
  /\ UNCHANGED pipe

Step(p) ==
  \/ Execute(p) \/ Disconnect(p)
  \/ Start(p) \/ Confirmed(p) \/ Refused(p) \/ Refresh(p)
  \/ TakeJob(p) \/ FinishJob(p)
  \/ Shutdown(p) \/ Stop(p) \/ SendDelete(p) \/ Exit(p) \/ Crash(p) \/ Restart(p)

Next == Pass \/ \E p \in Process : Step(p)

Spec == Init /\ [][Next]_vars

-----------------------------------------------------------------------------
(* Properties                                                              *)

TypeOK ==
  /\ key \in [owner : Process \union {Nobody}, left : 0..Ttl]
  /\ pipe \in [Process -> Seq({"publish", "delete"})]
  /\ worker \in [Process -> [phase : Phase, op : {"none", "publish", "delete"},
                             age : 0..(CommandTimeout + Late),
                             reply : {"none", "ok", "conflict"}, readySent : BOOLEAN,
                             timer : (-Late)..Interval, since : 0..Ttl, busy : BOOLEAN]]

(* A process that may run a job of the queue.                              *)
Consuming(p) == worker[p].phase = "serving" \/ worker[p].busy

(* Whoever consumes the queue holds the lease, so never two processes run  *)
(* a job at once: the refresh window stops a worker before its key lapses  *)
(* (#refreshWindowExhausted, crashStopImageWorkerAfterLeaseLoss).          *)
ConsumerHoldsLease == \A p \in Process : Consuming(p) => key.owner = p

(* Once Redis takes the compare-and-delete of stop(), no refresh of that   *)
(* process is left to bring the key back (ImageWorkerHeartbeat: "a late    *)
(* command cannot recreate a stopped key").                                *)
DeleteIsLast == \A p \in Process : \A i \in DOMAIN pipe[p] : pipe[p][i] = "delete" => i = Len(pipe[p])

(* What every reachable state has: well-typed variables, a consumer that   *)
(* holds the lease, and no key left behind by a late refresh               *)
(* (worker-heartbeat.ts:48-188).                                           *)
LeaseInv == TypeOK /\ ConsumerHoldsLease /\ DeleteIsLast
=============================================================================
