-------------------------- MODULE WorkerLeaseProofs --------------------------
(***************************************************************************)
(* Whoever consumes the queue holds the lease, for any number of worker    *)
(* processes and any times that leave LeaseMargin.  The invariant is       *)
(* inductive only together with the arithmetic of the refresh window: what *)
(* is left of the key against the time since the last lease a process      *)
(* knows of, and that time against its timer, from which a second refresh  *)
(* that fails is late enough to be the last and early enough to be         *)
(* noticed before the key lapses.                                          *)
(***************************************************************************)
EXTENDS WorkerLease, TLAPS

Heartbeat == [phase : Phase, op : {"none", "publish", "delete"}, age : 0..(CommandTimeout + Late),
              reply : {"none", "ok", "conflict"}, readySent : BOOLEAN,
              timer : (-Late)..Interval, since : 0..Ttl, busy : BOOLEAN]

(* What the phases of a process mean: who consumes has a timer.            *)
PhaseOK(w) ==
  /\ w.phase = "serving" \/ w.busy => TimerLive(w)
  /\ w.phase = "acquiring" => ~w.readySent
  /\ w.op = "delete" => w.phase = "stopping"
  /\ w.phase \in {"down", "exited"} => w.op = "none"

(* The refresh window.  The next refresh is due Interval after the last    *)
(* one was sent, so it is sent either before Interval or, after one that   *)
(* failed, not before 2 * Interval - CommandTimeout, which makes it the    *)
(* last one.                                                               *)
WindowOK(w) ==
  /\ w.op = "publish" => w.timer + w.age >= Interval
  /\ w.since + w.timer >= Interval - CommandTimeout
  /\ w.since + w.timer <= Interval \/ w.since + w.timer >= 2 * Interval - CommandTimeout
  /\ \/ w.since + w.timer <= 2 * Interval + Late
     \/ w.op = "publish" /\ RefreshWindowExhausted(w)
  /\ w.op = "publish" => w.age <= w.since /\ w.since - w.age <= 2 * (Interval + Late)

(* A process that knows of a lease owns the key for as long as it believes *)
(* and one command less; one whose answer is on its way, since it asked.   *)
LeaseOK(p, w) ==
  /\ TimerLive(w) => WindowOK(w) /\ key.owner = p /\ key.left + w.since + CommandTimeout >= Ttl
  /\ w.op = "publish" /\ w.reply = "ok" => key.owner = p /\ key.left + w.age >= Ttl

(* A delete on its way is the last command of a process that is stopping.  *)
PipeOK(p, w) ==
  /\ \A i \in DOMAIN pipe[p] : pipe[p][i] = "delete" =>
       i = Len(pipe[p]) /\ (w.op = "delete" \/ w.phase = "exited")
  /\ w.phase = "down" => pipe[p] = <<>>

LeaseIInv ==
  /\ TypeOK
  /\ \A p \in Process : PhaseOK(worker[p]) /\ LeaseOK(p, worker[p]) /\ PipeOK(p, worker[p])

-----------------------------------------------------------------------------
LEMMA Names ==
  /\ "down" \in Phase /\ "acquiring" \in Phase /\ "serving" \in Phase
  /\ "closing" \in Phase /\ "stopping" \in Phase /\ "exited" \in Phase
BY DEF Phase

LEMMA Times ==
  /\ Ttl \in Nat /\ Interval \in Nat /\ CommandTimeout \in Nat /\ Late \in Nat
  /\ 0 < Ttl /\ 0 < Interval /\ 0 < CommandTimeout /\ CommandTimeout <= Interval
  /\ Nobody \notin Process
  /\ 3 * Interval >= Ttl
  /\ 2 * Interval + 3 * Late + 2 * CommandTimeout < Ttl
BY LeaseTimes, LeaseMargin

LEMMA Present ==
  ASSUME LeaseIInv
  PROVE  /\ worker \in [Process -> Heartbeat]
         /\ pipe \in [Process -> Seq({"publish", "delete"})]
         /\ key \in [owner : Process \union {Nobody}, left : 0..Ttl]
BY DEF LeaseIInv, TypeOK, Heartbeat

LEMMA Holds ==
  ASSUME LeaseIInv, NEW p \in Process
  PROVE  /\ worker[p] \in Heartbeat /\ pipe[p] \in Seq({"publish", "delete"})
         /\ PhaseOK(worker[p]) /\ LeaseOK(p, worker[p]) /\ PipeOK(p, worker[p])
BY Present DEF LeaseIInv

(* A step of one process, which keeps its hands off the key of another.    *)
LEMMA ProcessStep ==
  ASSUME LeaseIInv, NEW p \in Process, NEW w \in Heartbeat, NEW s \in Seq({"publish", "delete"}),
         worker' = [worker EXCEPT ![p] = w],
         pipe' = [pipe EXCEPT ![p] = s],
         key' \in [owner : Process \union {Nobody}, left : 0..Ttl],
         key' = key \/ key.owner \in {p, Nobody},
         PhaseOK(w), LeaseOK(p, w)', PipeOK(p, w)'
  PROVE  LeaseIInv'
<1>1. /\ worker' \in [Process -> Heartbeat] /\ worker'[p] = w
      /\ pipe' \in [Process -> Seq({"publish", "delete"})] /\ pipe'[p] = s
  BY Present
<1>2. TypeOK'
  BY <1>1 DEF TypeOK, Heartbeat
<1>3. ASSUME NEW q \in Process \ {p}
      PROVE  PhaseOK(worker[q])' /\ LeaseOK(q, worker[q])' /\ PipeOK(q, worker[q])'
  <2>1. worker'[q] = worker[q] /\ pipe'[q] = pipe[q]
    BY Present
  <2>2. PhaseOK(worker[q]) /\ LeaseOK(q, worker[q]) /\ PipeOK(q, worker[q])
    BY Holds
  <2>3. key.owner = q => key' = key
    BY Times
  <2> QED
    BY <2>1, <2>2, <2>3 DEF PhaseOK, LeaseOK, PipeOK
<1> QED
  BY <1>1, <1>2, <1>3 DEF LeaseIInv

(* The records a step makes of a heartbeat.                                *)
LEMMA SendingIs ==
  ASSUME NEW u \in Heartbeat, NEW command \in {"publish", "delete"}
  PROVE  /\ Sending(u, command) \in Heartbeat
         /\ Sending(u, command).op = command
         /\ Sending(u, command).age = 0 /\ Sending(u, command).reply = "none"
         /\ Sending(u, command).phase = u.phase /\ Sending(u, command).busy = u.busy
         /\ Sending(u, command).readySent = u.readySent
         /\ Sending(u, command).timer = u.timer /\ Sending(u, command).since = u.since
<1>1. 0 \in 0..(CommandTimeout + Late)
  BY Times
<1> QED
  BY <1>1 DEF Sending, Heartbeat

LEMMA SettledIs ==
  ASSUME NEW u \in Heartbeat
  PROVE  /\ Settled(u) \in Heartbeat
         /\ Settled(u).op = "none"
         /\ Settled(u).age = 0 /\ Settled(u).reply = "none"
         /\ Settled(u).phase = u.phase /\ Settled(u).busy = u.busy
         /\ Settled(u).readySent = u.readySent
         /\ Settled(u).timer = u.timer /\ Settled(u).since = u.since
<1>1. 0 \in 0..(CommandTimeout + Late)
  BY Times
<1> QED
  BY <1>1 DEF Settled, Heartbeat

(* A process that goes on to another phase.                                *)
LEMMA PhaseIs ==
  ASSUME NEW u \in Heartbeat, NEW phase \in Phase
  PROVE  \E v \in Heartbeat :
           /\ v = [u EXCEPT !.phase = phase]
           /\ v.phase = phase /\ v.op = u.op /\ v.age = u.age /\ v.reply = u.reply
           /\ v.readySent = u.readySent /\ v.timer = u.timer /\ v.since = u.since /\ v.busy = u.busy
<1>1. LET v == [u EXCEPT !.phase = phase]
      IN  /\ v \in Heartbeat /\ v.phase = phase /\ v.op = u.op /\ v.age = u.age /\ v.reply = u.reply
          /\ v.readySent = u.readySent /\ v.timer = u.timer /\ v.since = u.since /\ v.busy = u.busy
  BY DEF Heartbeat
<1> QED
  BY <1>1

LEMMA EndsIn ==
  /\ Down \in Heartbeat /\ PhaseOK(Down) /\ Down.phase = "down" /\ Down.op = "none"
  /\ Exited \in Heartbeat /\ PhaseOK(Exited) /\ Exited.phase = "exited" /\ Exited.op = "none"
<1>1. 0 \in 0..(CommandTimeout + Late) /\ 0 \in (-Late)..Interval /\ 0 \in 0..Ttl
  BY Times
<1> HIDE DEF Phase
<1>2. Down \in Heartbeat /\ Down.phase = "down" /\ Down.op = "none" /\ ~Down.busy
  BY <1>1, Names DEF Down, Heartbeat
<1>3. Exited \in Heartbeat /\ Exited.phase = "exited" /\ Exited.op = "none" /\ ~Exited.busy
  <2>1. PICK phase \in Phase, u \in Heartbeat : phase = "exited" /\ u = Down
    BY <1>2, Names
  <2>2. Exited = [u EXCEPT !.phase = phase]
    BY <2>1 DEF Exited
  <2> QED
    BY <1>2, <2>1, <2>2, PhaseIs
<1> QED
  BY <1>2, <1>3 DEF PhaseOK

-----------------------------------------------------------------------------
(* Steps that neither send nor execute: the record of one process *)

Kept == UNCHANGED <<key, pipe>>

LEMMA RecordStep ==
  ASSUME LeaseIInv, NEW p \in Process, NEW w \in Heartbeat,
         worker' = [worker EXCEPT ![p] = w], Kept,
         PhaseOK(w), LeaseOK(p, w), PipeOK(p, w)
  PROVE  LeaseIInv'
<1>1. pipe' = [pipe EXCEPT ![p] = pipe[p]] /\ key' = key /\ pipe' = pipe
  BY Present DEF Kept
<1>2. LeaseOK(p, w)' /\ PipeOK(p, w)'
  BY <1>1 DEF LeaseOK, PipeOK
<1> QED
  BY <1>1, <1>2, Present, Holds, ProcessStep

LEMMA ExitStep ==
  ASSUME LeaseIInv, NEW p \in Process, Set(p, Exited), Kept
  PROVE  LeaseIInv'
<1>1. LeaseOK(p, Exited)
  BY EndsIn DEF LeaseOK, TimerLive
<1>2. PipeOK(p, Exited)
  BY EndsIn, Holds DEF PipeOK
<1> QED
  BY <1>1, <1>2, EndsIn, RecordStep DEF Set

(* Whether it is at work on a job.                                         *)
LEMMA BusyIs ==
  ASSUME NEW u \in Heartbeat, NEW busy \in BOOLEAN
  PROVE  LET v == [u EXCEPT !.busy = busy]
         IN  /\ v \in Heartbeat /\ v.phase = u.phase /\ v.op = u.op /\ v.age = u.age /\ v.reply = u.reply
             /\ v.readySent = u.readySent /\ v.timer = u.timer /\ v.since = u.since /\ v.busy = busy
BY DEF Heartbeat

LEMMA TakeJobStep ==
  ASSUME LeaseIInv, NEW p \in Process, TakeJob(p)
  PROVE  LeaseIInv'
<1>1. PICK w \in Heartbeat :
        /\ worker' = [worker EXCEPT ![p] = w] /\ w.busy
        /\ w.phase = worker[p].phase /\ w.op = worker[p].op /\ w.age = worker[p].age /\ w.reply = worker[p].reply
        /\ w.readySent = worker[p].readySent /\ w.timer = worker[p].timer /\ w.since = worker[p].since
  BY Holds, BusyIs DEF TakeJob, Set
<1>2. PhaseOK(w) /\ LeaseOK(p, w) /\ PipeOK(p, w)
  BY <1>1, Holds DEF TakeJob, PhaseOK, LeaseOK, PipeOK, WindowOK, TimerLive, RefreshWindowExhausted
<1> QED
  BY <1>1, <1>2, RecordStep DEF TakeJob, Kept

LEMMA FinishJobStep ==
  ASSUME LeaseIInv, NEW p \in Process, FinishJob(p)
  PROVE  LeaseIInv'
<1>1. PICK w \in Heartbeat :
        /\ worker' = [worker EXCEPT ![p] = w] /\ ~w.busy
        /\ w.phase = worker[p].phase /\ w.op = worker[p].op /\ w.age = worker[p].age /\ w.reply = worker[p].reply
        /\ w.readySent = worker[p].readySent /\ w.timer = worker[p].timer /\ w.since = worker[p].since
  BY Holds, BusyIs DEF FinishJob, Set
<1>2. PhaseOK(w) /\ LeaseOK(p, w) /\ PipeOK(p, w)
  BY <1>1, Holds DEF FinishJob, PhaseOK, LeaseOK, PipeOK, WindowOK, TimerLive, RefreshWindowExhausted
<1> QED
  BY <1>1, <1>2, RecordStep DEF FinishJob, Kept

(* Whoever closes has a timer only if it had one before.                   *)
LEMMA ShutdownStep ==
  ASSUME LeaseIInv, NEW p \in Process, Shutdown(p)
  PROVE  LeaseIInv'
<1>1. PICK w \in Heartbeat :
        /\ worker' = [worker EXCEPT ![p] = w] /\ w.phase = "closing"
        /\ w.op = worker[p].op /\ w.age = worker[p].age /\ w.reply = worker[p].reply
        /\ w.readySent = worker[p].readySent /\ w.timer = worker[p].timer /\ w.since = worker[p].since
        /\ w.busy = worker[p].busy
  <2>1. PICK phase \in Phase, u \in Heartbeat : phase = "closing" /\ u = worker[p]
    BY Holds, Names
  <2>2. worker' = [worker EXCEPT ![p] = [u EXCEPT !.phase = phase]]
    BY <2>1 DEF Shutdown, Set
  <2>3. PICK v \in Heartbeat :
          /\ v = [u EXCEPT !.phase = phase]
          /\ v.phase = phase /\ v.op = u.op /\ v.age = u.age /\ v.reply = u.reply
          /\ v.readySent = u.readySent /\ v.timer = u.timer /\ v.since = u.since /\ v.busy = u.busy
    BY <2>1, PhaseIs
  <2> QED
    BY <2>1, <2>2, <2>3
<1>2. TimerLive(w) <=> TimerLive(worker[p])
  BY <1>1, Holds DEF Shutdown, PhaseOK, TimerLive
<1>3. PhaseOK(w) /\ LeaseOK(p, w) /\ PipeOK(p, w)
  BY <1>1, <1>2, Holds DEF Shutdown, PhaseOK, LeaseOK, PipeOK, WindowOK, RefreshWindowExhausted
<1> QED
  BY <1>1, <1>3, RecordStep DEF Shutdown, Kept

LEMMA StopStep ==
  ASSUME LeaseIInv, NEW p \in Process, Stop(p)
  PROVE  LeaseIInv'
<1>1. PICK w \in Heartbeat :
        /\ worker' = [worker EXCEPT ![p] = w] /\ w.phase = "stopping"
        /\ w.op = worker[p].op /\ w.age = worker[p].age /\ w.reply = worker[p].reply
        /\ w.busy = worker[p].busy
  <2>1. PICK phase \in Phase, u \in Heartbeat : phase = "stopping" /\ u = worker[p]
    BY Holds, Names
  <2>2. worker' = [worker EXCEPT ![p] = [u EXCEPT !.phase = phase]]
    BY <2>1 DEF Stop, Set
  <2>3. PICK v \in Heartbeat :
          /\ v = [u EXCEPT !.phase = phase]
          /\ v.phase = phase /\ v.op = u.op /\ v.age = u.age /\ v.reply = u.reply
          /\ v.readySent = u.readySent /\ v.timer = u.timer /\ v.since = u.since /\ v.busy = u.busy
    BY <2>1, PhaseIs
  <2> QED
    BY <2>1, <2>2, <2>3
<1>2. PhaseOK(w) /\ LeaseOK(p, w) /\ PipeOK(p, w)
  BY <1>1, Holds DEF Stop, PhaseOK, LeaseOK, PipeOK, TimerLive
<1> QED
  BY <1>1, <1>2, RecordStep DEF Stop, Kept

LEMMA RestartStep ==
  ASSUME LeaseIInv, NEW p \in Process, Restart(p)
  PROVE  LeaseIInv'
<1>1. LeaseOK(p, Down)
  BY EndsIn DEF LeaseOK, TimerLive
<1>2. PipeOK(p, Down)
  BY EndsIn DEF PipeOK, Restart
<1> QED
  BY <1>1, <1>2, EndsIn, RecordStep DEF Set, Restart, Kept

(* A refused refresh that is not the last one was sent early enough for    *)
(* another.                                                                *)
LEMMA RefusedStep ==
  ASSUME LeaseIInv, NEW p \in Process, Refused(p)
  PROVE  LeaseIInv'
<1>0. Kept
  BY DEF Refused, Kept
<1>1. CASE Set(p, Settled(worker[p])) /\ ~(TimerLive(worker[p]) /\ RefreshWindowExhausted(worker[p]))
  <2>1. PICK w \in Heartbeat : w = Settled(worker[p])
    BY Holds, SettledIs
  <2>2. /\ w.op = "none" /\ w.reply = "none" /\ w.phase = worker[p].phase /\ w.busy = worker[p].busy
        /\ w.readySent = worker[p].readySent /\ w.timer = worker[p].timer /\ w.since = worker[p].since
    BY <2>1, Holds, SettledIs
  <2>3. PhaseOK(w)
    BY <2>2, Holds DEF PhaseOK, TimerLive
  <2>4. LeaseOK(p, w)
    BY <1>1, <2>2, Holds DEF LeaseOK, WindowOK, TimerLive, RefreshWindowExhausted
  <2>5. PipeOK(p, w)
    BY <2>2, Holds DEF PipeOK, PhaseOK, Refused
  <2> QED
    BY <1>0, <1>1, <2>1, <2>3, <2>4, <2>5, RecordStep DEF Set
<1>2. CASE worker[p].phase = "acquiring"
  <2>1. PICK u \in Heartbeat : u = Settled(worker[p])
    BY Holds, SettledIs
  <2>2. u.op = "none" /\ ~u.readySent /\ ~u.busy
    BY <1>2, <2>1, Holds, SettledIs DEF PhaseOK, TimerLive, Heartbeat
  <2>7. PICK phase \in Phase : phase = "closing"
    BY Names
  <2>3. PICK w \in Heartbeat :
          w = [u EXCEPT !.phase = phase] /\ w.phase = phase /\ w.op = "none" /\ ~w.readySent /\ ~w.busy
    BY <2>2, PhaseIs
  <2>4. PhaseOK(w) /\ LeaseOK(p, w)
    BY <2>3, <2>7 DEF PhaseOK, LeaseOK, TimerLive
  <2>5. PipeOK(p, w)
    BY <1>2, <2>3, <2>7, Holds DEF PipeOK, PhaseOK, Refused
  <2>6. worker' = [worker EXCEPT ![p] = w]
    BY <1>2, <2>1, <2>3, <2>7 DEF Refused, Set
  <2> QED
    BY <1>0, <2>4, <2>5, <2>6, RecordStep
<1>3. CASE Set(p, Exited)
  BY <1>0, <1>3, ExitStep
<1> QED
  BY <1>1, <1>2, <1>3 DEF Refused, TimerLive

-----------------------------------------------------------------------------
(* Steps that send a command, and Redis, which takes it *)

LEMMA SendStep ==
  ASSUME LeaseIInv, NEW p \in Process, NEW w \in Heartbeat, NEW command \in {"publish", "delete"},
         Set(p, w), Send(p, command), UNCHANGED key,
         \A i \in DOMAIN pipe[p] : pipe[p][i] # "delete",
         w.op = command, w.phase # "down",
         PhaseOK(w), LeaseOK(p, w)
  PROVE  LeaseIInv'
<1>1. PICK s \in Seq({"publish", "delete"}) : s = Append(pipe[p], command)
  <2>1. pipe[p] \in Seq({"publish", "delete"})
    BY Holds
  <2>2. Append(pipe[p], command) \in Seq({"publish", "delete"})
    BY <2>1
  <2> QED
    BY <2>2
<1>2. pipe' = [pipe EXCEPT ![p] = s] /\ pipe'[p] = s
  BY <1>1, Present DEF Send
<1>3. PipeOK(p, w)'
  <2>1. ASSUME NEW i \in DOMAIN s, s[i] = "delete" PROVE i = Len(s) /\ w.op = "delete"
    BY <1>1, <2>1, Holds
  <2> QED
    BY <1>2, <2>1 DEF PipeOK
<1>4. LeaseOK(p, w)'
  BY DEF LeaseOK
<1> QED
  BY <1>2, <1>3, <1>4, Present, ProcessStep DEF Set

LEMMA NoDeleteBefore ==
  ASSUME LeaseIInv, NEW p \in Process, worker[p].op # "delete", worker[p].phase # "exited"
  PROVE  \A i \in DOMAIN pipe[p] : pipe[p][i] # "delete"
BY Holds DEF PipeOK

LEMMA StartStep ==
  ASSUME LeaseIInv, NEW p \in Process, Start(p)
  PROVE  LeaseIInv'
<1>1. PICK phase \in Phase, u \in Heartbeat : phase = "acquiring" /\ u = Down
  BY EndsIn, Names
<1>2. PICK v \in Heartbeat : v = [u EXCEPT !.phase = phase] /\ v.phase = phase /\ ~v.readySent /\ ~v.busy
  <2>1. ~u.readySent /\ ~u.busy
    BY <1>1 DEF Down
  <2> QED
    BY <2>1, PhaseIs
<1>3. PICK w \in Heartbeat : w = Sending(v, "publish")
  BY SendingIs
<1>4. w.op = "publish" /\ w.reply = "none" /\ w.phase = "acquiring" /\ ~w.readySent /\ ~w.busy
  <2>1. w.op = "publish" /\ w.reply = "none" /\ w.phase = v.phase /\ w.readySent = v.readySent /\ w.busy = v.busy
    BY <1>3, SendingIs
  <2> QED
    BY <1>1, <1>2, <2>1
<1>5. PhaseOK(w) /\ LeaseOK(p, w)
  BY <1>4 DEF PhaseOK, LeaseOK, TimerLive
<1>6. Set(p, w) /\ Send(p, "publish") /\ UNCHANGED key
  BY <1>1, <1>2, <1>3 DEF Start
<1>7. \A i \in DOMAIN pipe[p] : pipe[p][i] # "delete"
  BY Holds DEF Start, PipeOK
<1> QED
  BY <1>4, <1>5, <1>6, <1>7, SendStep

LEMMA SendDeleteStep ==
  ASSUME LeaseIInv, NEW p \in Process, SendDelete(p)
  PROVE  LeaseIInv'
<1>1. PICK w \in Heartbeat : w = Sending(worker[p], "delete")
  BY Holds, SendingIs
<1>2. w.op = "delete" /\ w.phase = "stopping" /\ ~w.busy
  BY <1>1, Holds, SendingIs DEF SendDelete, PhaseOK, TimerLive
<1>3. PhaseOK(w) /\ LeaseOK(p, w)
  BY <1>2 DEF PhaseOK, LeaseOK, TimerLive
<1>4. Set(p, w) /\ Send(p, "delete") /\ UNCHANGED key
  BY <1>1 DEF SendDelete
<1> QED
  BY <1>2, <1>3, <1>4, NoDeleteBefore, SendStep DEF SendDelete

(* A timer that fires: the refresh it sends is the first one, or the last. *)
LEMMA TimerIs ==
  ASSUME NEW u \in Heartbeat, NEW timer \in (-Late)..Interval
  PROVE  \E v \in Heartbeat :
           /\ v = [u EXCEPT !.timer = timer]
           /\ v.timer = timer /\ v.phase = u.phase /\ v.op = u.op /\ v.age = u.age /\ v.reply = u.reply
           /\ v.readySent = u.readySent /\ v.since = u.since /\ v.busy = u.busy
<1>1. LET v == [u EXCEPT !.timer = timer]
      IN  /\ v \in Heartbeat /\ v.timer = timer /\ v.phase = u.phase /\ v.op = u.op /\ v.age = u.age
          /\ v.reply = u.reply /\ v.readySent = u.readySent /\ v.since = u.since /\ v.busy = u.busy
  BY DEF Heartbeat
<1> QED
  BY <1>1

LEMMA RefreshStep ==
  ASSUME LeaseIInv, NEW p \in Process, Refresh(p)
  PROVE  LeaseIInv'
<1>1. PICK v \in Heartbeat :
        /\ v = [worker[p] EXCEPT !.timer = Interval] /\ v.timer = Interval
        /\ v.phase = worker[p].phase /\ v.op = worker[p].op /\ v.age = worker[p].age /\ v.reply = worker[p].reply
        /\ v.readySent = worker[p].readySent /\ v.since = worker[p].since /\ v.busy = worker[p].busy
  <2>1. Interval \in (-Late)..Interval
    BY Times
  <2>2. PICK u \in Heartbeat, timer \in (-Late)..Interval : u = worker[p] /\ timer = Interval
    BY <2>1, Holds
  <2>3. PICK w \in Heartbeat :
          /\ w = [u EXCEPT !.timer = timer]
          /\ w.timer = timer /\ w.phase = u.phase /\ w.op = u.op /\ w.age = u.age /\ w.reply = u.reply
          /\ w.readySent = u.readySent /\ w.since = u.since /\ w.busy = u.busy
    BY TimerIs
  <2> QED
    BY <2>2, <2>3
<1>2. /\ TimerLive(worker[p]) /\ TimerLive(v) /\ worker[p].timer <= 0 /\ worker[p].phase # "stopping"
      /\ worker[p].op \in {"none", "publish"} /\ UNCHANGED key
  <2>1. TimerLive(worker[p]) /\ worker[p].timer <= 0 /\ UNCHANGED key
    BY DEF Refresh
  <2> QED
    BY <1>1, <2>1, Holds DEF TimerLive, PhaseOK, Heartbeat
<1>3. /\ v.since \in 0..Ttl /\ v.age \in 0..(CommandTimeout + Late)
      /\ worker[p].timer \in (-Late)..Interval /\ v.since = worker[p].since /\ v.age = worker[p].age
  BY <1>1, Holds DEF Heartbeat
<1>4. WindowOK(worker[p])
  BY <1>2, Holds DEF LeaseOK
<1>5. CASE worker[p].op = "publish"
  <2>1. WindowOK(v)
    BY <1>1, <1>2, <1>3, <1>4, <1>5, Times DEF WindowOK, RefreshWindowExhausted
  <2>2. PhaseOK(v) /\ LeaseOK(p, v) /\ PipeOK(p, v)
    BY <1>1, <1>2, <2>1, Holds DEF PhaseOK, LeaseOK, PipeOK
  <2>3. Set(p, v) /\ Kept
    BY <1>1, <1>5 DEF Refresh, Kept
  <2> QED
    BY <2>2, <2>3, RecordStep DEF Set
<1>6. CASE worker[p].op = "none"
  <2>1. PICK w \in Heartbeat : w = Sending(v, "publish")
    BY SendingIs
  <2>2. /\ w.op = "publish" /\ w.age = 0 /\ w.reply = "none" /\ w.phase = v.phase /\ w.busy = v.busy
        /\ w.readySent = v.readySent /\ w.timer = v.timer /\ w.since = v.since
    BY <2>1, SendingIs
  <2>3. WindowOK(w)
    BY <1>1, <1>2, <1>3, <1>4, <1>6, <2>2, Times DEF WindowOK, RefreshWindowExhausted
  <2>4. TimerLive(w) /\ w.phase # "down"
    BY <1>2, <2>2 DEF TimerLive
  <2>5. PhaseOK(w) /\ LeaseOK(p, w)
    BY <1>1, <1>2, <2>2, <2>3, <2>4, Holds DEF PhaseOK, LeaseOK, TimerLive
  <2>6. Set(p, w) /\ Send(p, "publish") /\ UNCHANGED key
    BY <1>1, <1>6, <2>1 DEF Refresh
  <2>7. \A i \in DOMAIN pipe[p] : pipe[p][i] # "delete"
    BY <1>2, <1>6, NoDeleteBefore DEF TimerLive
  <2> QED
    BY <2>2, <2>4, <2>5, <2>6, <2>7, SendStep
<1> QED
  BY <1>2, <1>5, <1>6

(* A confirmed lease: the window begins anew.                              *)
LEMMA ConfirmedIs ==
  ASSUME NEW u \in Heartbeat, NEW ready \in BOOLEAN
  PROVE  \E v \in Heartbeat :
           /\ v = [Settled(u) EXCEPT !.since = 0, !.readySent = ready]
           /\ v.op = "none" /\ v.age = 0 /\ v.reply = "none" /\ v.phase = u.phase /\ v.busy = u.busy
           /\ v.readySent = ready /\ v.timer = u.timer /\ v.since = 0
<1>2. PICK x \in Heartbeat, n \in 0..Ttl : x = Settled(u) /\ n = 0
  BY SettledIs, Times
<1>3. /\ x.op = "none" /\ x.age = 0 /\ x.reply = "none" /\ x.phase = u.phase /\ x.busy = u.busy /\ x.timer = u.timer
  BY <1>2, SettledIs
<1>4. PICK v : v = [x EXCEPT !.since = n, !.readySent = ready]
  OBVIOUS
<1>5. v \in Heartbeat
  BY <1>4 DEF Heartbeat
<1>6. /\ v.op = x.op /\ v.age = x.age /\ v.reply = x.reply /\ v.phase = x.phase
      /\ v.busy = x.busy /\ v.readySent = ready /\ v.timer = x.timer /\ v.since = n
  BY <1>4 DEF Heartbeat
<1>7. v = [Settled(u) EXCEPT !.since = 0, !.readySent = ready] /\ v.since = 0
  BY <1>2, <1>4, <1>6
<1> QED
  BY <1>3, <1>5, <1>6, <1>7

LEMMA ConfirmedStep ==
  ASSUME LeaseIInv, NEW p \in Process, Confirmed(p)
  PROVE  LeaseIInv'
<1>1. /\ worker[p] \in Heartbeat /\ PhaseOK(worker[p]) /\ LeaseOK(p, worker[p])
      /\ worker[p].op = "publish" /\ worker[p].reply = "ok"
      /\ worker[p].age \in 0..(CommandTimeout + Late) /\ worker[p].age <= CommandTimeout
      /\ worker[p].timer \in (-Late)..Interval
  BY Holds DEF Confirmed, Heartbeat
<1>2. key.owner = p /\ key.left \in 0..Ttl /\ key.left + CommandTimeout >= Ttl
  <2>1. PICK k, w : k = key /\ w = worker[p]
    OBVIOUS
  <2>2. k.owner = p /\ k.left + w.age >= Ttl
    BY <1>1, <2>1 DEF LeaseOK
  <2>3. k.left \in 0..Ttl
    BY <2>1, Present
  <2>4. w.age \in 0..(CommandTimeout + Late) /\ w.age <= CommandTimeout
    BY <1>1, <2>1
  <2>5. k.left + CommandTimeout >= Ttl
    BY <2>2, <2>3, <2>4, Times
  <2> QED
    BY <2>1, <2>2, <2>3, <2>5
<1>3. PICK u \in Heartbeat, ready \in BOOLEAN : u = worker[p] /\ ready = (worker[p].phase # "stopping")
  BY <1>1
<1>4. PICK v \in Heartbeat :
        /\ v = [Settled(u) EXCEPT !.since = 0, !.readySent = ready]
        /\ v.op = "none" /\ v.age = 0 /\ v.reply = "none" /\ v.phase = u.phase /\ v.busy = u.busy
        /\ v.readySent = ready /\ v.timer = u.timer /\ v.since = 0
  BY ConfirmedIs
<1>5. Interval \in (-Late)..Interval /\ UNCHANGED key
  BY Times DEF Confirmed
<1>6. CASE worker[p].phase = "acquiring"
  <2>1. PICK phase \in Phase, timer \in (-Late)..Interval : phase = "serving" /\ timer = Interval
    BY <1>5, Names
  <2>2. PICK x \in Heartbeat :
          /\ x = [v EXCEPT !.phase = phase, !.timer = timer]
          /\ x.timer = timer /\ x.phase = phase /\ x.op = v.op /\ x.age = v.age /\ x.reply = v.reply
          /\ x.readySent = v.readySent /\ x.since = v.since /\ x.busy = v.busy
    <3>1. LET x == [v EXCEPT !.phase = phase, !.timer = timer]
          IN  /\ x \in Heartbeat /\ x.timer = timer /\ x.phase = phase /\ x.op = v.op /\ x.age = v.age
              /\ x.reply = v.reply /\ x.readySent = v.readySent /\ x.since = v.since /\ x.busy = v.busy
      BY DEF Heartbeat
    <3> QED
      BY <3>1
  <2>3. PICK w \in Heartbeat : w = Sending(x, "publish")
    BY SendingIs
  <2>4. /\ w.op = "publish" /\ w.age = 0 /\ w.reply = "none" /\ w.phase = x.phase /\ w.busy = x.busy
        /\ w.readySent = x.readySent /\ w.timer = x.timer /\ w.since = x.since
    BY <2>3, SendingIs
  <2>9. ready
    BY <1>3, <1>6
  <2>5. w.phase = "serving" /\ w.readySent /\ w.timer = Interval /\ w.since = 0
    BY <1>4, <2>1, <2>2, <2>4, <2>9
  <2>6. PhaseOK(w) /\ LeaseOK(p, w)
    BY <1>2, <2>4, <2>5, Times DEF PhaseOK, LeaseOK, WindowOK, TimerLive
  <2>7. Set(p, w) /\ Send(p, "publish")
    BY <1>3, <1>4, <1>6, <2>1, <2>2, <2>3 DEF Confirmed
  <2>8. \A i \in DOMAIN pipe[p] : pipe[p][i] # "delete"
    BY <1>1, <1>6, NoDeleteBefore
  <2> QED
    BY <1>5, <2>4, <2>5, <2>6, <2>7, <2>8, SendStep
<1>7. CASE worker[p].phase # "acquiring"
  <2>1. PICK timer \in (-Late)..Interval : timer = IF worker[p].readySent THEN worker[p].timer ELSE Interval
    BY <1>1, <1>5
  <2>2. PICK w \in Heartbeat :
          /\ w = [v EXCEPT !.timer = timer]
          /\ w.timer = timer /\ w.phase = v.phase /\ w.op = v.op /\ w.age = v.age /\ w.reply = v.reply
          /\ w.readySent = v.readySent /\ w.since = v.since /\ w.busy = v.busy
    BY TimerIs
  <2>3. TimerLive(w) => w.timer >= Interval - CommandTimeout /\ w.timer <= Interval
    <3>1. CASE worker[p].readySent
      <4>1. TimerLive(w) => TimerLive(worker[p])
        BY <1>3, <1>4, <2>2, <3>1 DEF TimerLive
      <4>2. TimerLive(worker[p]) => worker[p].timer + worker[p].age >= Interval
        BY <1>1 DEF LeaseOK, WindowOK
      <4>3. PICK t, g : t = w.timer /\ g = worker[p].age
        OBVIOUS
      <4>4. t \in (-Late)..Interval /\ t = worker[p].timer
        BY <2>1, <2>2, <3>1, <4>3
      <4>5. g \in 0..(CommandTimeout + Late) /\ g <= CommandTimeout
        BY <1>1, <4>3
      <4>6. t + g >= Interval => t >= Interval - CommandTimeout /\ t <= Interval
        BY <4>4, <4>5, Times
      <4> QED
        BY <4>1, <4>2, <4>3, <4>4, <4>6
    <3>2. CASE ~worker[p].readySent
      BY <2>1, <2>2, <3>2, Times
    <3> QED
      BY <3>1, <3>2
  <2>4. PhaseOK(w)
    <3>1. PhaseOK(u) /\ u.phase # "acquiring" /\ u.op = "publish"
      BY <1>1, <1>3, <1>7
    <3>2. /\ w.op = "none" /\ w.age = 0 /\ w.reply = "none" /\ w.phase = u.phase /\ w.busy = u.busy
          /\ w.readySent <=> u.phase # "stopping"
      BY <1>3, <1>4, <2>2
    <3> QED
      BY <3>1, <3>2 DEF PhaseOK, TimerLive
  <2>5. LeaseOK(p, w)
    <3>1. w.op = "none" /\ w.since = 0
      BY <1>4, <2>2
    <3>2. key.left + w.since + CommandTimeout >= Ttl
      BY <1>2, <3>1
    <3>3. ASSUME TimerLive(w) PROVE WindowOK(w)
      <4>1. PICK t : t = w.timer
        OBVIOUS
      <4>2. t >= Interval - CommandTimeout /\ t <= Interval /\ t \in (-Late)..Interval
        BY <2>2, <2>3, <3>3, <4>1
      <4>3. /\ 0 + t >= Interval - CommandTimeout /\ 0 + t <= Interval
            /\ 0 + t <= 2 * Interval + Late
        BY <4>2, Times
      <4> QED
        BY <3>1, <4>1, <4>3 DEF WindowOK
    <3> QED
      BY <1>2, <3>1, <3>2, <3>3 DEF LeaseOK
  <2>6. PipeOK(p, w)
    BY <1>1, <1>3, <1>4, <2>2, Holds DEF PipeOK, PhaseOK
  <2>7. worker' = [worker EXCEPT ![p] = w] /\ Kept
    <3>1. v.timer = worker[p].timer
      BY <1>3, <1>4
    <3>2. w = [v EXCEPT !.timer = IF worker[p].readySent THEN v.timer ELSE Interval]
      BY <2>1, <2>2, <3>1
    <3> QED
      BY <1>3, <1>4, <1>7, <3>2 DEF Confirmed, Set, Kept
  <2> QED
    BY <2>4, <2>5, <2>6, <2>7, RecordStep
<1> QED
  BY <1>6, <1>7

LEMMA ReplyIs ==
  ASSUME NEW u \in Heartbeat, NEW reply \in {"none", "ok", "conflict"}
  PROVE  \E v \in Heartbeat :
           /\ v = [u EXCEPT !.reply = reply]
           /\ v.reply = reply /\ v.phase = u.phase /\ v.op = u.op /\ v.age = u.age
           /\ v.readySent = u.readySent /\ v.timer = u.timer /\ v.since = u.since /\ v.busy = u.busy
<1>1. LET v == [u EXCEPT !.reply = reply]
      IN  /\ v \in Heartbeat /\ v.reply = reply /\ v.phase = u.phase /\ v.op = u.op /\ v.age = u.age
          /\ v.readySent = u.readySent /\ v.timer = u.timer /\ v.since = u.since /\ v.busy = u.busy
  BY DEF Heartbeat
<1> QED
  BY <1>1

(* Redis takes the oldest command.  A publish renews the key of its owner, *)
(* and a delete comes from a process that is past consuming.               *)
LEMMA ExecuteStep ==
  ASSUME LeaseIInv, NEW p \in Process, Execute(p)
  PROVE  LeaseIInv'
<1> DEFINE command == Head(pipe[p])
           answered == Len(pipe[p]) = 1 /\ worker[p].op = command
           reply == IF command = "publish" /\ ~Publishes(p) THEN "conflict" ELSE "ok"
<1>0. /\ pipe[p] # <<>> /\ pipe' = [pipe EXCEPT ![p] = Tail(pipe[p])]
      /\ key' = IF command = "publish" THEN AfterPublish(p) ELSE AfterDelete(p)
      /\ IF answered THEN Set(p, [worker[p] EXCEPT !.reply = reply]) ELSE UNCHANGED worker
  BY Present DEF Execute
<1>1. /\ worker[p] \in Heartbeat /\ pipe[p] \in Seq({"publish", "delete"}) /\ PhaseOK(worker[p])
      /\ LeaseOK(p, worker[p]) /\ PipeOK(p, worker[p])
  BY Holds
<1>2. PICK s \in Seq({"publish", "delete"}) : s = Tail(pipe[p])
  <2>1. Tail(pipe[p]) \in Seq({"publish", "delete"})
    BY <1>0, <1>1
  <2> QED
    BY <2>1
<1>3. PICK w \in Heartbeat :
        /\ worker' = [worker EXCEPT ![p] = w]
        /\ w.phase = worker[p].phase /\ w.op = worker[p].op /\ w.age = worker[p].age
        /\ w.readySent = worker[p].readySent /\ w.timer = worker[p].timer /\ w.since = worker[p].since
        /\ w.busy = worker[p].busy
        /\ w.reply = IF answered THEN reply ELSE worker[p].reply
  <2>1. CASE answered
    <3>1. PICK r \in {"none", "ok", "conflict"} : r = reply
      OBVIOUS
    <3> HIDE DEF reply, answered
    <3>2. PICK u \in Heartbeat : u = worker[p]
      BY <1>1
    <3>3. PICK v \in Heartbeat :
            /\ v = [u EXCEPT !.reply = r]
            /\ v.reply = r /\ v.phase = u.phase /\ v.op = u.op /\ v.age = u.age
            /\ v.readySent = u.readySent /\ v.timer = u.timer /\ v.since = u.since /\ v.busy = u.busy
      BY ReplyIs
    <3> QED
      BY <1>0, <2>1, <3>1, <3>2, <3>3 DEF Set
  <2>2. CASE ~answered
    <3> HIDE DEF answered
    <3> QED
      BY <1>0, <1>1, <2>2, Present
  <2> QED
    BY <2>1, <2>2
<1>4. /\ command \in {"publish", "delete"} /\ command = pipe[p][1] /\ 1 \in DOMAIN pipe[p]
      /\ \A i \in DOMAIN s : i + 1 \in DOMAIN pipe[p] /\ s[i] = pipe[p][i + 1] /\ (i + 1 = Len(pipe[p]) => i = Len(s))
  BY <1>0, <1>1, <1>2
<1>5. PhaseOK(w)
  BY <1>1, <1>3 DEF PhaseOK, TimerLive
<1>6. PipeOK(p, w)'
  <2>1. pipe'[p] = s
    BY <1>0, <1>2, Present
  <2>2. \A i \in DOMAIN s : s[i] = "delete" => i = Len(s) /\ (w.op = "delete" \/ w.phase = "exited")
    BY <1>1, <1>3, <1>4 DEF PipeOK
  <2>3. w.phase # "down"
    BY <1>0, <1>1, <1>3 DEF PipeOK
  <2> QED
    BY <2>1, <2>2, <2>3 DEF PipeOK
<1>7. CASE command = "publish"
  <2>1. key' = AfterPublish(p)
    BY <1>0, <1>7
  <2>2. key.owner \in {p, Nobody} => key'.owner = p /\ key'.left = Ttl
    BY <2>1 DEF AfterPublish, Publishes
  <2>3. key.owner \notin {p, Nobody} => key' = key /\ ~Publishes(p)
    BY <2>1 DEF AfterPublish, Publishes
  <2>4. key' \in [owner : Process \union {Nobody}, left : 0..Ttl]
    BY <2>1, Present, Times DEF AfterPublish
  <2>5. key.owner \in {p, Nobody} => LeaseOK(p, w)'
    <3>1. TimerLive(w) => WindowOK(w)
      BY <1>1, <1>3 DEF LeaseOK, WindowOK, TimerLive, RefreshWindowExhausted
    <3>2. w.since \in Nat /\ w.age \in Nat
      BY Times DEF Heartbeat
    <3> HIDE DEF command, answered, reply
    <3> QED
      BY <2>2, <3>1, <3>2, Times DEF LeaseOK
  <2>6. key.owner \notin {p, Nobody} => LeaseOK(p, w)'
    <3>1. key.owner \notin {p, Nobody} => ~TimerLive(w) /\ (w.op = "publish" => w.reply # "ok")
      BY <1>1, <1>3, <1>7, <2>3 DEF LeaseOK, TimerLive
    <3> HIDE DEF command, answered, reply
    <3> QED
      BY <3>1 DEF LeaseOK
  <2> HIDE DEF command, answered, reply
  <2> QED
    BY <1>0, <1>2, <1>3, <1>5, <1>6, <2>3, <2>4, <2>5, <2>6, ProcessStep
<1>8. CASE command = "delete"
  <2>1. key' = AfterDelete(p)
    BY <1>0, <1>8
  <2>2. key' \in [owner : Process \union {Nobody}, left : 0..Ttl]
    BY <2>1, Present, Times DEF AfterDelete, Free
  <2>3. key' = key \/ key.owner \in {p, Nobody}
    BY <2>1 DEF AfterDelete
  <2>4. w.op = "delete" \/ w.phase = "exited"
    BY <1>1, <1>3, <1>4, <1>8 DEF PipeOK
  <2> HIDE DEF command, answered, reply
  <2>5. ~TimerLive(w) /\ w.op # "publish"
    BY <1>5, <2>4 DEF PhaseOK, TimerLive
  <2>6. LeaseOK(p, w)'
    BY <2>5 DEF LeaseOK
  <2> QED
    BY <1>0, <1>2, <1>3, <1>5, <1>6, <2>2, <2>3, <2>6, ProcessStep
<1> QED
  BY <1>4, <1>7, <1>8

LEMMA DisconnectStep ==
  ASSUME LeaseIInv, NEW p \in Process, Disconnect(p)
  PROVE  LeaseIInv'
<1>1. PICK s \in Seq({"publish", "delete"}) : s = <<>>
  <2>1. <<>> \in Seq({"publish", "delete"})
    OBVIOUS
  <2> QED
    BY <2>1
<1>2. pipe' = [pipe EXCEPT ![p] = s] /\ pipe'[p] = <<>> /\ key' = key
  BY <1>1, Present DEF Disconnect
<1>3. worker' = [worker EXCEPT ![p] = worker[p]]
  BY Present DEF Disconnect
<1>4. LeaseOK(p, worker[p]) /\ PhaseOK(worker[p]) /\ worker[p] \in Heartbeat
  BY Holds
<1>5. PICK w \in Heartbeat : w = worker[p]
  BY <1>4
<1>6. LeaseOK(p, w)' /\ PipeOK(p, w)'
  BY <1>2, <1>4, <1>5 DEF LeaseOK, PipeOK
<1> QED
  BY <1>2, <1>3, <1>4, <1>5, <1>6, Present, ProcessStep

-----------------------------------------------------------------------------
(* Time *)

(* No process is so late that the key of a lease it counts on could lapse. *)
LEMMA OlderIs ==
  ASSUME NEW u \in Heartbeat, Punctual(u)
  PROVE  /\ Older(u) \in Heartbeat
         /\ Older(u).phase = u.phase /\ Older(u).op = u.op /\ Older(u).reply = u.reply
         /\ Older(u).readySent = u.readySent /\ Older(u).busy = u.busy
         /\ Older(u).age = (IF u.op = "none" THEN 0 ELSE u.age + 1)
         /\ Older(u).timer = (IF TimerLive(u) THEN u.timer - 1 ELSE u.timer)
         /\ Older(u).since = (IF TimerLive(u) /\ u.since < Ttl THEN u.since + 1 ELSE u.since)
<1>2. u.age \in 0..(CommandTimeout + Late) /\ u.timer \in (-Late)..Interval /\ u.since \in 0..Ttl
  BY DEF Heartbeat
<1>3. PICK age \in 0..(CommandTimeout + Late) : age = IF u.op = "none" THEN 0 ELSE u.age + 1
  BY <1>2, Times DEF Punctual
<1>4. PICK timer \in (-Late)..Interval : timer = IF TimerLive(u) THEN u.timer - 1 ELSE u.timer
  BY <1>2, Times DEF Punctual
<1>5. PICK since \in 0..Ttl : since = IF TimerLive(u) /\ u.since < Ttl THEN u.since + 1 ELSE u.since
  BY <1>2, Times
<1>6. Older(u) = [u EXCEPT !.age = age, !.timer = timer, !.since = since]
  BY <1>3, <1>4, <1>5 DEF Older
<1>7. PICK v \in Heartbeat :
        /\ v = [u EXCEPT !.age = age, !.timer = timer, !.since = since]
        /\ v.phase = u.phase /\ v.op = u.op /\ v.reply = u.reply /\ v.readySent = u.readySent /\ v.busy = u.busy
        /\ v.age = age /\ v.timer = timer /\ v.since = since
  <2>1. LET v == [u EXCEPT !.age = age, !.timer = timer, !.since = since]
        IN  /\ v \in Heartbeat /\ v.phase = u.phase /\ v.op = u.op /\ v.reply = u.reply
            /\ v.readySent = u.readySent /\ v.busy = u.busy
            /\ v.age = age /\ v.timer = timer /\ v.since = since
    BY DEF Heartbeat
  <2> QED
    BY <2>1
<1>8. v = Older(u)
  BY <1>6, <1>7
<1> QED
  BY <1>3, <1>4, <1>5, <1>7, <1>8

LEMMA StillOwned ==
  ASSUME LeaseIInv, NEW p \in Process, Punctual(worker[p])
  PROVE  /\ TimerLive(worker[p]) => key.left > 1 /\ worker[p].since < Ttl
         /\ worker[p].op = "publish" /\ worker[p].reply = "ok" => key.left > 1
<1>1. /\ worker[p].age \in 0..(CommandTimeout + Late) /\ worker[p].timer \in (-Late)..Interval
      /\ worker[p].since \in 0..Ttl /\ key.left \in 0..Ttl
      /\ worker[p].op \in {"none", "publish", "delete"}
  BY Holds, Present DEF Heartbeat
<1>2. TimerLive(worker[p]) => worker[p].op # "delete"
  BY Holds DEF PhaseOK, TimerLive
<1>3. TimerLive(worker[p]) => worker[p].since + CommandTimeout + 2 <= Ttl
  <2> SUFFICES ASSUME TimerLive(worker[p]) PROVE worker[p].since + CommandTimeout + 2 <= Ttl
    OBVIOUS
  <2>1. WindowOK(worker[p]) /\ worker[p].timer > -Late
    BY Holds DEF LeaseOK, Punctual
  <2>2. CASE worker[p].op = "none"
    <3>1. worker[p].since + worker[p].timer <= 2 * Interval + Late
      BY <2>1, <2>2 DEF WindowOK
    <3> QED
      BY <1>1, <2>1, <3>1, Times
  <2>3. CASE worker[p].op = "publish"
    <3>1. worker[p].since - worker[p].age <= 2 * (Interval + Late) /\ worker[p].age < CommandTimeout + Late
      BY <2>1, <2>3 DEF WindowOK, Punctual
    <3> QED
      BY <1>1, <3>1, Times
  <2> QED
    BY <1>1, <1>2, <2>2, <2>3
<1>4. TimerLive(worker[p]) => key.left + worker[p].since + CommandTimeout >= Ttl
  BY Holds DEF LeaseOK
<1>5. worker[p].op = "publish" /\ worker[p].reply = "ok" => key.left + worker[p].age >= Ttl
                                                            /\ worker[p].age < CommandTimeout + Late
  BY Holds DEF LeaseOK, Punctual
<1>6. TimerLive(worker[p]) => key.left > 1 /\ worker[p].since < Ttl
  BY <1>1, <1>3, <1>4, Times
<1>7. worker[p].op = "publish" /\ worker[p].reply = "ok" => key.left > 1
  BY <1>1, <1>5, Times
<1> QED
  BY <1>6, <1>7

LEMMA PassStep ==
  ASSUME LeaseIInv, Pass
  PROVE  LeaseIInv'
<1>1. key' \in [owner : Process \union {Nobody}, left : 0..Ttl]
      /\ (key.left > 1 => key'.owner = key.owner /\ key'.left = key.left - 1)
  <2>1. CASE key.left > 1
    <3>1. key' = [key EXCEPT !.left = key.left - 1]
      BY <2>1 DEF Pass
    <3>2. key.left - 1 \in 0..Ttl
      BY <2>1, Present, Times
    <3> QED
      BY <2>1, <3>1, <3>2, Present
  <2>2. CASE ~(key.left > 1)
    <3>1. key' = [owner |-> Nobody, left |-> 0] /\ 0 \in 0..Ttl
      BY <2>2, Times DEF Pass, Free
    <3> QED
      BY <2>2, <3>1
  <2> QED
    BY <2>1, <2>2
<1>2. ASSUME NEW p \in Process
      PROVE  worker'[p] \in Heartbeat /\ PhaseOK(worker[p])' /\ LeaseOK(p, worker[p])' /\ PipeOK(p, worker[p])'
  <2>1. PICK u \in Heartbeat : u = worker[p]
    BY Holds
  <2>2. Punctual(u) /\ PhaseOK(u) /\ LeaseOK(p, u) /\ PipeOK(p, u)
    BY <2>1, Holds DEF Pass
  <2>3. /\ TimerLive(u) => key.left > 1 /\ u.since < Ttl
        /\ u.op = "publish" /\ u.reply = "ok" => key.left > 1
    BY <2>1, <2>2, StillOwned
  <2>4. PICK w \in Heartbeat : w = Older(u) /\ worker'[p] = w
    BY <2>1, <2>2, OlderIs DEF Pass
  <2>5. /\ w.phase = u.phase /\ w.op = u.op /\ w.reply = u.reply
        /\ w.readySent = u.readySent /\ w.busy = u.busy
        /\ w.age = (IF u.op = "none" THEN 0 ELSE u.age + 1)
        /\ w.timer = (IF TimerLive(u) THEN u.timer - 1 ELSE u.timer)
        /\ w.since = (IF TimerLive(u) /\ u.since < Ttl THEN u.since + 1 ELSE u.since)
    BY <2>2, <2>4, OlderIs
  <2>6. /\ u.age \in Nat /\ u.timer \in Int /\ u.since \in Nat /\ key.left \in Nat
    BY Present, Times DEF Heartbeat
  <2>7. TimerLive(w) <=> TimerLive(u)
    BY <2>5 DEF TimerLive
  <2>8. PhaseOK(w)
    BY <2>2, <2>5, <2>7 DEF PhaseOK
  <2>9. TimerLive(u) => WindowOK(w)
    BY <2>2, <2>3, <2>5, <2>6, Times DEF LeaseOK, WindowOK, RefreshWindowExhausted
  <2>10. LeaseOK(p, w)'
    BY <1>1, <2>2, <2>3, <2>5, <2>6, <2>7, <2>9, Times DEF LeaseOK
  <2>11. PipeOK(p, w)'
    BY <2>2, <2>5 DEF PipeOK, Pass
  <2> QED
    BY <2>4, <2>8, <2>10, <2>11 DEF LeaseOK, PipeOK
<1>3. TypeOK'
  <2>1. worker' \in [Process -> Heartbeat] /\ pipe' = pipe
    BY <1>2 DEF Pass
  <2> QED
    BY <1>1, <2>1 DEF LeaseIInv, TypeOK, Heartbeat
<1> QED
  BY <1>2, <1>3 DEF LeaseIInv

-----------------------------------------------------------------------------
(* The invariant *)

LEMMA InitGood == Init => LeaseIInv
<1> SUFFICES ASSUME Init PROVE LeaseIInv
  OBVIOUS
<1>1. key \in [owner : Process \union {Nobody}, left : 0..Ttl]
  BY Times DEF Init, Free
<1>2. pipe \in [Process -> Seq({"publish", "delete"})] /\ worker \in [Process -> Heartbeat]
  BY EndsIn DEF Init
<1>3. TypeOK
  BY <1>1, <1>2 DEF TypeOK, Heartbeat
<1>4. ASSUME NEW p \in Process PROVE PhaseOK(worker[p]) /\ LeaseOK(p, worker[p]) /\ PipeOK(p, worker[p])
  <2>1. worker[p] = Down /\ pipe[p] = <<>>
    BY DEF Init
  <2> QED
    BY <2>1, EndsIn DEF LeaseOK, PipeOK, TimerLive
<1> QED
  BY <1>3, <1>4 DEF LeaseIInv

LEMMA StutterStep ==
  ASSUME LeaseIInv, UNCHANGED vars
  PROVE  LeaseIInv'
BY DEF vars, LeaseIInv, TypeOK, PhaseOK, LeaseOK, PipeOK, WindowOK, TimerLive

LEMMA InductiveInvariant == Spec => []LeaseIInv
<1>1. ASSUME LeaseIInv, NEW p \in Process, Exit(p) \/ Crash(p) PROVE LeaseIInv'
  BY <1>1, ExitStep DEF Exit, Crash, Kept
<1>2. LeaseIInv /\ [Next]_vars => LeaseIInv'
  BY <1>1, StutterStep, PassStep, ExecuteStep, DisconnectStep, StartStep, ConfirmedStep, RefusedStep, RefreshStep,
     TakeJobStep, FinishJobStep, ShutdownStep, StopStep, SendDeleteStep, RestartStep
  DEF Next, Step
<1> QED
  BY <1>2, InitGood, PTL DEF Spec

(* A process that consumes the queue holds the lease, and once the delete  *)
(* of a stopping process is on its way no refresh follows that could bring *)
(* the key back (worker-heartbeat.ts: #refreshWindowExhausted, stop).      *)
THEOREM LeaseSafe == Spec => []LeaseInv
<1>1. LeaseIInv => LeaseInv
  <2> SUFFICES ASSUME LeaseIInv PROVE TypeOK /\ ConsumerHoldsLease /\ DeleteIsLast
    BY DEF LeaseInv
  <2>1. ConsumerHoldsLease
    BY Holds DEF ConsumerHoldsLease, Consuming, PhaseOK, LeaseOK
  <2>2. DeleteIsLast
    BY Holds DEF DeleteIsLast, PipeOK
  <2> QED
    BY <2>1, <2>2 DEF LeaseIInv
<1> QED
  BY <1>1, InductiveInvariant, PTL

(* Two workers never consume the queue at once (image-worker.ts: the       *)
(* singleton lease that startLeasedImageConsumer waits for).               *)
OneConsumer == \A p, q \in Process : Consuming(p) /\ Consuming(q) => p = q

(* The singleton lease is exclusive (startLeasedImageConsumer).            *)
THEOREM OneConsumerAtATime == Spec => []OneConsumer
<1>1. LeaseInv => OneConsumer
  BY DEF LeaseInv, ConsumerHoldsLease, OneConsumer
<1> QED
  BY <1>1, LeaseSafe, PTL

=============================================================================
