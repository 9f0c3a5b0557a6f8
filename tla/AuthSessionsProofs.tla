------------------------- MODULE AuthSessionsProofs -------------------------
(***************************************************************************)
(* The safety of the sessions, for any number of requests, browsers,       *)
(* accounts and failures.  The invariants the runs check are not inductive *)
(* by themselves: a session that is about to be written was decided by an  *)
(* earlier access, and resets may have happened since.  AuthIInv says what *)
(* such a pending write is worth: its epoch is the present one, or its     *)
(* token is gone.                                                          *)
(***************************************************************************)
EXTENDS AuthSessions, TLAPS

(* Where a request stands.                                                 *)
Sharing == {"restore", "createToken"}
Ended == {"answer", "done"}
Hooked == {"unsent", "getSession", "checkEpoch", "dropStale", "remember", "restore",
           "setRestored", "forgetRestored", "handle"}
Registering == {"usernameExists", "createUser", "readBackUser"}
Establishing == {"establish", "setEstablished", "lockToken", "createToken", "setRemembered",
                 "dropEstablished", "undoToken", "dropKnownStale", "establishAgain", "setAgain"}
HoldsSession == {"lockToken", "createToken", "setRemembered", "dropEstablished", "undoToken"}
Revoking == {"logout", "lockReset", "reset", "resetUnknown", "refresh", "dropOld", "forgetReset"}

(* A session that names the request's own selector may be in the store.    *)
Offering == {"dropEstablished", "undoToken", "dropKnownStale", "establishAgain", "setAgain",
             "dropOld", "forgetReset", "resetUnknown"} \union Ended

Pcs == Hooked \union Registering \union Establishing \union Revoking \union Ended

Ids == Selector \X {"established", "restored", "remembered", "again", "refreshed"}
Validators == Selector \X {"new", "rotated"}
Remembers == Selector \X Validators
Outcomes == {"ok", "accountCreated", "unavailable", "unauthenticated", "taken", "refused", "incomplete"}

SessionSet == [id : Ids, user : Name, epoch : Nat, selector : Selector \union {None}]
TokenSet == [user : Name, validator : Validators, epoch : Nat]
CookieSet == [session : Ids \union {None}, remember : Remembers \union {None}]
ReplySet == [session : Ids \union {None, "keep"}, remember : Remembers \union {None, "keep"}]

RequestSet ==
  [pc : Pcs, browser : Browser, handler : Handlers, since : Nat, cookies : CookieSet,
   session : SessionSet \union {None}, established : SessionSet \union {None},
   user : Name \union {None}, epoch : Nat, todo : SUBSET {"session", "token"},
   outcome : Outcomes \union {None}, reply : ReplySet]

Typed ==
  /\ tokens \in [Selector -> TokenSet \union {None}]
  /\ sessions \subseteq SessionSet
  /\ jar \in [Browser -> CookieSet]
  /\ req \in [Request -> RequestSet]

(* The selector has reached a browser: its request is over.                *)
Given(s) == s = First \/ (s \in Request /\ req[s].pc = "done")

(* What a request knows, and what is left of it, under its program counter.*)
EpochsKnown(q) ==
  /\ q.since <= epoch /\ q.epoch <= epoch
  /\ q.session # None => q.since <= q.session.epoch
  /\ q.pc \in {"restore", "setRestored"} => q.since <= q.epoch
  /\ q.pc \in Sharing => q.epoch = epoch

PendingWrites(r, q) ==
  /\ q.pc = "setRestored" /\ tokens[q.cookies.remember[1]] # None => q.epoch = epoch
  /\ q.pc \in {"setRemembered", "refresh"} /\ tokens[r] # None => q.epoch = epoch

Knows(q) ==
  /\ q.pc \in {"checkEpoch", "dropStale"} \union HoldsSession => q.established \in SessionSet
  /\ q.pc \in {"restore", "setRestored", "forgetRestored"} => q.cookies.remember # None
  /\ q.pc \in {"setRestored"} \union Registering \union Establishing => q.user \in Name
  /\ q.pc \in Registering \union Establishing => q.handler \in {"login", "register"}
  /\ q.pc \in Revoking => q.handler \in {"logout", "reset"} /\ q.session # None

OwnAccount(r, q) ==
  q.handler = "register" =>
    /\ q.pc \in Establishing => users[q.user] = r
    /\ q.pc \notin Ended => q.outcome = None
    /\ q.outcome \in {"ok", "accountCreated"} => q.user \in Name /\ users[q.user] = r

SelectorsGiven(r, q) ==
  /\ q.cookies.remember # None => Given(q.cookies.remember[1])
  /\ q.reply.remember # None /\ q.reply.remember # "keep" =>
       q.reply.remember[1] = r \/ Given(q.reply.remember[1])

RequestOK(r, q) ==
  EpochsKnown(q) /\ PendingWrites(r, q) /\ Knows(q) /\ OwnAccount(r, q) /\ SelectorsGiven(r, q)

RequestsOK == \A r \in Request : RequestOK(r, req[r])

LocksExact ==
  /\ \A r \in Request : r \in locks.shared <=> req[r].pc \in Sharing
  /\ \A r \in Request : r \in locks.exclusive <=> req[r].pc = "reset"
  /\ \A r \in locks.exclusive : locks.shared = {} /\ locks.exclusive = {r}

SessionsOffered == \A s \in sessions : s.selector \in Request => req[s.selector].pc \in Offering

CookiesGiven == \A b \in Browser : jar[b].remember # None => Given(jar[b].remember[1])

AuthIInv ==
  /\ TypeOK /\ Typed
  /\ RequestsOK /\ LocksExact
  /\ TokensFollowReset /\ RememberedSessionAlive
  /\ SessionsOffered /\ CookiesGiven

-----------------------------------------------------------------------------
(* What a step of one request leaves of the others                         *)

(* The request's own record after a step that leaves accounts, tokens and  *)
(* the epoch alone or only ends tokens.                                    *)
Onward(r) ==
  /\ req' = [req EXCEPT ![r] = req'[r]]
  /\ req'[r] \in RequestSet
  /\ req[r].pc # "done"
  /\ req[r].pc \in Offering => req'[r].pc \in Offering

LEMMA GivenKept ==
  ASSUME AuthIInv, NEW r \in Request, Onward(r)
  PROVE  \A s : Given(s) => Given(s)'
BY DEF AuthIInv, Typed, Onward, Given

(* The pending writes of the others survive a reset, which ends their      *)
(* tokens, and a new token, which is under another selector.               *)
LEMMA OthersKept ==
  ASSUME AuthIInv, NEW r \in Request, Onward(r),
         epoch' \in Nat, epoch <= epoch',
         epoch' # epoch => req[r].pc = "reset",
         \A s \in Selector \ {r} : tokens'[s] # None => tokens[s] # None /\ epoch' = epoch,
         \A n \in Name : users[n] # None => users'[n] = users[n],
         NEW o \in Request \ {r}
  PROVE  RequestOK(o, req[o])'
<1>1. req'[o] = req[o] /\ RequestOK(o, req[o]) /\ req[o] \in RequestSet
  BY DEF AuthIInv, Typed, RequestsOK, Onward
<1>2. epoch \in Nat
  BY DEF AuthIInv, TypeOK
<1>3. EpochsKnown(req[o])'
  <2>1. req[o].pc \in Sharing => epoch' = epoch
    BY DEF AuthIInv, LocksExact
  <2> QED
    BY <1>1, <1>2, <2>1 DEF RequestOK, EpochsKnown, RequestSet, SessionSet
<1>4. PendingWrites(o, req[o])'
  <2>1. CASE req[o].pc = "setRestored" /\ tokens'[req[o].cookies.remember[1]] # None
    <3>1. req[o].cookies.remember # None /\ Given(req[o].cookies.remember[1])
      BY <1>1, <2>1 DEF RequestOK, Knows, SelectorsGiven
    <3>2. req[o].cookies.remember[1] \in Selector
      BY <1>1, <3>1 DEF RequestSet, CookieSet, Remembers
    <3>3. req[o].cookies.remember[1] # r
      BY <3>1, AuthConstants DEF Onward, Given
    <3> QED
      BY <1>1, <2>1, <3>2, <3>3 DEF RequestOK, PendingWrites
  <2>2. CASE req[o].pc \in {"setRemembered", "refresh"} /\ tokens'[o] # None
    BY <1>1, <2>2 DEF RequestOK, PendingWrites, Selector
  <2> QED
    BY <1>1, <2>1, <2>2 DEF PendingWrites
<1>5. Knows(req[o])'
  BY <1>1 DEF RequestOK, Knows
<1>6. OwnAccount(o, req[o])'
  <2>1. \A n \in Name : users[n] = o => users'[n] = o
    BY AuthConstants
  <2> QED
    BY <1>1, <2>1 DEF RequestOK, OwnAccount, Knows
<1>7. SelectorsGiven(o, req[o])'
  BY <1>1, GivenKept DEF RequestOK, SelectorsGiven
<1> QED
  BY <1>3, <1>4, <1>5, <1>6, <1>7 DEF RequestOK

(* Invariants about the whole, when accounts, tokens and the epoch stay or *)
(* tokens end.                                                             *)
LEMMA LocksKept ==
  ASSUME AuthIInv, NEW r \in Request, Onward(r), UNCHANGED locks,
         req[r].pc \in Sharing <=> req'[r].pc \in Sharing,
         req[r].pc = "reset" <=> req'[r].pc = "reset"
  PROVE  LocksExact'
BY DEF AuthIInv, Typed, Onward, LocksExact

LEMMA OfferedKept ==
  ASSUME AuthIInv, NEW r \in Request, Onward(r), sessions' \subseteq sessions
  PROVE  SessionsOffered'
BY DEF AuthIInv, Typed, Onward, SessionsOffered

LEMMA JarKept ==
  ASSUME AuthIInv, NEW r \in Request, Onward(r), UNCHANGED jar
  PROVE  CookiesGiven'
BY GivenKept DEF AuthIInv, CookiesGiven

(* A step of one request that writes nothing, or ends sessions and tokens. *)
(* What is required of a request depends on four variables only.           *)
LEMMA RequestsStay ==
  ASSUME AuthIInv, UNCHANGED <<epoch, req, tokens, users>>
  PROVE  RequestsOK'
<1> SUFFICES ASSUME NEW r \in Request PROVE RequestOK(r, req[r])'
  BY DEF RequestsOK
<1>1. RequestOK(r, req[r])
  BY DEF AuthIInv, RequestsOK
<1>2. EpochsKnown(req[r])'
  BY <1>1 DEF RequestOK, EpochsKnown
<1>3. PendingWrites(r, req[r])'
  BY <1>1 DEF RequestOK, PendingWrites
<1>4. Knows(req[r])'
  BY <1>1 DEF RequestOK, Knows
<1>5. OwnAccount(r, req[r])'
  BY <1>1 DEF RequestOK, OwnAccount
<1>6. SelectorsGiven(r, req[r])'
  BY <1>1 DEF RequestOK, SelectorsGiven, Given
<1> QED
  BY <1>2, <1>3, <1>4, <1>5, <1>6 DEF RequestOK

LEMMA RequestStep ==
  ASSUME AuthIInv, NEW r \in Request, Onward(r),
         RequestOK(r, req'[r]),
         req[r].pc \in Sharing <=> req'[r].pc \in Sharing,
         req[r].pc = "reset" <=> req'[r].pc = "reset",
         UNCHANGED <<epoch, locks, users, jar>>,
         sessions' \subseteq sessions,
         tokens' = tokens \/ \E s \in Selector : tokens' = [tokens EXCEPT ![s] = None],
         faults' \in 0..MaxFaults
  PROVE  AuthIInv'
<1>1. tokens' \in [Selector -> TokenSet \union {None}]
  BY DEF AuthIInv, Typed
<1>2. \A s \in Selector : tokens'[s] # None => tokens'[s] = tokens[s]
  BY DEF AuthIInv, Typed
<1>3. \A o \in Request \ {r} : RequestOK(o, req[o])'
  <2>1. epoch' \in Nat /\ epoch <= epoch'
    BY DEF AuthIInv, TypeOK
  <2>2. \A s \in Selector \ {r} : tokens'[s] # None => tokens[s] # None /\ epoch' = epoch
    BY <1>2
  <2> QED
    BY <2>1, <2>2, OthersKept
<1>4. RequestOK(r, req[r])'
  <2>1. \A s : Given(s) => Given(s)'
    BY GivenKept
  <2>2. PendingWrites(r, req[r])'
    <3>1. req'[r].pc = "setRestored" => req'[r].cookies.remember[1] \in Selector
      BY DEF RequestOK, Knows, Onward, RequestSet, CookieSet, Remembers
    <3> QED
      BY <1>2, <3>1 DEF RequestOK, PendingWrites, Selector
  <2>3. EpochsKnown(req[r])' /\ Knows(req[r])' /\ OwnAccount(r, req[r])'
    BY DEF RequestOK, EpochsKnown, Knows, OwnAccount
  <2>4. SelectorsGiven(r, req[r])'
    BY <2>1 DEF RequestOK, SelectorsGiven
  <2> QED
    BY <2>2, <2>3, <2>4 DEF RequestOK
<1>5. RequestsOK'
  BY <1>3, <1>4 DEF RequestsOK
<1>6. TypeOK'
  BY <1>2 DEF AuthIInv, TypeOK
<1>7. Typed'
  BY <1>1 DEF AuthIInv, Typed, Onward
<1>8. TokensFollowReset' /\ RememberedSessionAlive'
  <2>1. \A s \in sessions : s.selector \in Selector \union {None}
    BY DEF AuthIInv, TypeOK
  <2> QED
    BY <1>2, <2>1 DEF AuthIInv, TokensFollowReset, RememberedSessionAlive
<1> QED
  BY <1>5, <1>6, <1>7, <1>8, LocksKept, OfferedKept, JarKept DEF AuthIInv

(* A step of one request that writes a session: under the request's own    *)
(* id, and good for the token it names.                                    *)
LEMMA WriteStep ==
  ASSUME AuthIInv, NEW r \in Request, Onward(r),
         RequestOK(r, req'[r]),
         req[r].pc \notin Sharing \union {"reset"}, req'[r].pc \notin Sharing \union {"reset"},
         UNCHANGED <<epoch, locks, users, tokens, jar>>,
         faults' \in 0..MaxFaults,
         NEW s \in SessionSet, Put(s),
         s.epoch <= epoch,
         s.selector # None /\ tokens[s.selector] # None => s.epoch = epoch,
         s.selector = r => req'[r].pc \in Offering,
         s.selector # None => s.selector = r \/ Given(s.selector)
  PROVE  AuthIInv'
<1>1. \A o \in Request \ {r} : RequestOK(o, req[o])'
  <2>1. epoch' \in Nat /\ epoch <= epoch'
    BY DEF AuthIInv, TypeOK
  <2>2. \A t \in Selector \ {r} : tokens'[t] # None => tokens[t] # None /\ epoch' = epoch
    OBVIOUS
  <2> QED
    BY <2>1, <2>2, OthersKept
<1>2. RequestOK(r, req[r])'
  <2>1. \A t : Given(t) => Given(t)'
    BY GivenKept
  <2>2. PendingWrites(r, req[r])' /\ EpochsKnown(req[r])' /\ Knows(req[r])' /\ OwnAccount(r, req[r])'
    BY DEF RequestOK, PendingWrites, EpochsKnown, Knows, OwnAccount
  <2>3. SelectorsGiven(r, req[r])'
    BY <2>1 DEF RequestOK, SelectorsGiven
  <2> QED
    BY <2>2, <2>3 DEF RequestOK
<1>3. RequestsOK'
  BY <1>1, <1>2 DEF RequestsOK
<1>4. sessions' \subseteq SessionSet
  BY DEF AuthIInv, Typed, Put, Without
<1>5. TypeOK'
  <2>1. \A t \in sessions' : t.user \in Name /\ t.epoch <= epoch /\ t.selector \in Selector \union {None}
    BY DEF AuthIInv, TypeOK, Put, Without, SessionSet
  <2>2. \A t, u \in sessions' : t.id = u.id => t = u
    BY DEF AuthIInv, TypeOK, Put, Without
  <2> QED
    BY <2>1, <2>2 DEF AuthIInv, TypeOK
<1>6. Typed'
  BY <1>4 DEF AuthIInv, Typed, Onward
<1>7. TokensFollowReset' /\ RememberedSessionAlive'
  BY DEF AuthIInv, TokensFollowReset, RememberedSessionAlive, Put, Without
<1>8. SessionsOffered'
  <2>1. s.selector \in Request => req'[s.selector].pc \in Offering
    BY AuthConstants DEF AuthIInv, Typed, Onward, Given, Offering, Ended
  <2>2. \A t \in sessions : t.selector \in Request => req'[t.selector].pc \in Offering
    BY DEF AuthIInv, SessionsOffered, Typed, Onward
  <2> QED
    BY <2>1, <2>2 DEF SessionsOffered, Put, Without
<1> QED
  BY <1>3, <1>5, <1>6, <1>7, <1>8, LocksKept, JarKept DEF AuthIInv

(* A step of one request that takes a lock.                                *)
LEMMA LockStep ==
  ASSUME AuthIInv, NEW r \in Request, Onward(r),
         RequestOK(r, req'[r]),
         req[r].pc \notin Sharing \union {"reset"},
         \/ LockShared(r) /\ req'[r].pc \in Sharing
         \/ LockExclusive(r) /\ req'[r].pc = "reset",
         UNCHANGED <<epoch, users, tokens, sessions, jar>>,
         faults' \in 0..MaxFaults
  PROVE  AuthIInv'
<1>1. \A o \in Request \ {r} : RequestOK(o, req[o])'
  <2>1. epoch' \in Nat /\ epoch <= epoch'
    BY DEF AuthIInv, TypeOK
  <2>2. \A t \in Selector \ {r} : tokens'[t] # None => tokens[t] # None /\ epoch' = epoch
    OBVIOUS
  <2> QED
    BY <2>1, <2>2, OthersKept
<1>2. RequestOK(r, req[r])'
  <2>1. \A t : Given(t) => Given(t)'
    BY GivenKept
  <2>2. PendingWrites(r, req[r])' /\ EpochsKnown(req[r])' /\ Knows(req[r])' /\ OwnAccount(r, req[r])'
    BY DEF RequestOK, PendingWrites, EpochsKnown, Knows, OwnAccount
  <2>3. SelectorsGiven(r, req[r])'
    BY <2>1 DEF RequestOK, SelectorsGiven
  <2> QED
    BY <2>2, <2>3 DEF RequestOK
<1>3. RequestsOK'
  BY <1>1, <1>2 DEF RequestsOK
<1>4. TypeOK'
  BY DEF AuthIInv, TypeOK, LockShared, LockExclusive
<1>5. LocksExact'
  <2>1. CASE LockShared(r) /\ req'[r].pc \in Sharing
    BY <2>1 DEF AuthIInv, TypeOK, Typed, LocksExact, LockShared, SharedFree, Onward, Sharing
  <2>2. CASE LockExclusive(r) /\ req'[r].pc = "reset"
    BY <2>2 DEF AuthIInv, TypeOK, Typed, LocksExact, LockExclusive, ExclusiveFree, Onward, Sharing
  <2> QED
    BY <2>1, <2>2
<1>6. Typed' /\ TokensFollowReset' /\ RememberedSessionAlive'
  BY DEF AuthIInv, Typed, Onward, TokensFollowReset, RememberedSessionAlive
<1> QED
  BY <1>3, <1>4, <1>5, <1>6, OfferedKept, JarKept DEF AuthIInv

-----------------------------------------------------------------------------
(* One lemma per action: what the request becomes, and that it is good.    *)
(* The names of the places and the updates are expanded throughout.        *)
USE AuthConstants
    DEF Set, Go, Answer, Fault, NoFault, stores

LEMMA Names ==
  /\ {"unsent", "getSession", "checkEpoch", "dropStale", "remember", "restore", "setRestored",
      "forgetRestored", "handle", "usernameExists", "createUser", "readBackUser", "establish",
      "setEstablished", "lockToken", "createToken", "setRemembered", "dropEstablished", "undoToken",
      "dropKnownStale", "establishAgain", "setAgain", "logout", "lockReset", "reset",
      "resetUnknown", "refresh", "dropOld", "forgetReset", "answer", "done"} \subseteq Pcs
  /\ {"ok", "accountCreated", "unavailable", "unauthenticated", "taken", "refused", "incomplete"}
       \subseteq Outcomes
  /\ Untouched \in ReplySet /\ Cleared \in ReplySet
  /\ Unsent \in RequestSet
<1>1. Untouched \in ReplySet /\ Cleared \in ReplySet
  BY DEF Untouched, Cleared, ReplySet
<1>2. NoCookies \in CookieSet
  BY DEF NoCookies, CookieSet
<1>3. "unsent" \in Pcs /\ "plain" \in Handlers
  BY DEF Pcs, Hooked, Handlers
<1>4. Unsent \in RequestSet
  BY <1>1, <1>2, <1>3 DEF Unsent, RequestSet
<1> QED
  BY <1>1, <1>4 DEF Pcs, Hooked, Registering, Establishing, Revoking, Ended, Outcomes

LEMMA Present ==
  ASSUME AuthIInv, NEW r \in Request
  PROVE  /\ req \in [Request -> RequestSet] /\ req[r] \in RequestSet /\ RequestOK(r, req[r])
         /\ sessions \subseteq SessionSet /\ \A s \in sessions : s.epoch <= epoch
         /\ tokens \in [Selector -> TokenSet \union {None}]
         /\ epoch \in Nat /\ faults \in 0..MaxFaults
         /\ r \in Selector /\ First \in Selector
BY DEF AuthIInv, Typed, TypeOK, RequestsOK, Selector

LEMMA Counted ==
  ASSUME AuthIInv, Fault \/ NoFault
  PROVE  faults' \in 0..MaxFaults
BY DEF AuthIInv, TypeOK

Good(r) == Onward(r) /\ RequestOK(r, req'[r])
Unlocked(r) == Good(r) /\ req'[r].pc \notin Sharing \union {"reset"}

LEMMA Becomes ==
  ASSUME AuthIInv, NEW r \in Request, NEW q \in RequestSet, Set(r, q),
         req[r].pc # "done", req[r].pc \in Offering => q.pc \in Offering,
         RequestOK(r, q)
  PROVE  Good(r) /\ req'[r] = q
<1>1. req'[r] = q
  BY Present
<1> QED
  BY <1>1 DEF Onward, Good

USE DEF Sharing, Ended, Hooked, Registering, Establishing, HoldsSession, Revoking, Offering

LEMMA Went ==
  ASSUME AuthIInv, NEW r \in Request, NEW pc \in Pcs, Go(r, pc),
         req[r].pc # "done", req[r].pc \in Offering => pc \in Offering,
         RequestOK(r, [req[r] EXCEPT !.pc = pc])
  PROVE  Good(r) /\ req'[r] = [req[r] EXCEPT !.pc = pc]
<1>1. [req[r] EXCEPT !.pc = pc] \in RequestSet
  BY Present DEF RequestSet
<1>2. [req[r] EXCEPT !.pc = pc].pc = pc
  BY Present DEF RequestSet
<1> QED
  BY <1>1, <1>2, Becomes

LEMMA AnswersWell ==
  ASSUME AuthIInv, NEW r \in Request, NEW outcome \in Outcomes, NEW reply \in ReplySet,
         Answer(r, outcome, reply), req[r].pc # "done",
         reply.remember # None /\ reply.remember # "keep" => reply.remember[1] = r \/ Given(reply.remember[1]),
         req[r].handler = "register" /\ outcome \in {"ok", "accountCreated"} => req[r].pc \in Establishing
  PROVE  Good(r) /\ req'[r].pc = "answer"
<1> DEFINE next == [req[r] EXCEPT !.pc = "answer", !.outcome = outcome, !.reply = reply]
<1>1. next \in RequestSet
  BY Present, Names DEF RequestSet
<1>3. next.pc = "answer"
  BY Present, Names DEF RequestSet
<1>2. RequestOK(r, next)
  BY Present DEF RequestSet, RequestOK, EpochsKnown, PendingWrites, Knows, OwnAccount, SelectorsGiven
<1>4. Set(r, next)
  OBVIOUS
<1> QED
  BY <1>1, <1>2, <1>3, <1>4, Becomes

(* Steps that only advance the program counter, and ask for nothing new.   *)
Advances ==
  {<<"getSession", "remember">>, <<"dropStale", "remember">>, <<"checkEpoch", "dropStale">>, <<"remember", "handle">>,
   <<"setRestored", "forgetRestored">>, <<"usernameExists", "createUser">>,
   <<"createUser", "readBackUser">>, <<"setRemembered", "dropEstablished">>,
   <<"setRemembered", "undoToken">>, <<"undoToken", "dropKnownStale">>,
   <<"dropKnownStale", "establishAgain">>, <<"lockReset", "reset">>,
   <<"lockReset", "resetUnknown">>, <<"reset", "resetUnknown">>, <<"refresh", "dropOld">>, <<"refresh", "forgetReset">>,
   <<"forgetReset", "resetUnknown">>, <<"answer", "done">>}

LEMMA Advanced ==
  ASSUME AuthIInv, NEW r \in Request, NEW pc \in Pcs, Go(r, pc), <<req[r].pc, pc>> \in Advances
  PROVE  Good(r) /\ req'[r].pc = pc
<1>1. RequestOK(r, [req[r] EXCEPT !.pc = pc])
  <2>1. PICK u, q : u = req[r] /\ q = [u EXCEPT !.pc = pc]
    OBVIOUS
  <2>2. RequestOK(r, u) /\ u \in RequestSet /\ <<u.pc, pc>> \in Advances
    BY <2>1, Present
  <2>3. /\ q.pc = pc /\ q.handler = u.handler /\ q.since = u.since /\ q.epoch = u.epoch
        /\ q.session = u.session /\ q.cookies = u.cookies /\ q.user = u.user
        /\ q.established = u.established /\ q.outcome = u.outcome /\ q.reply = u.reply
    BY <2>1, <2>2 DEF RequestSet
  <2>4. EpochsKnown(q) /\ PendingWrites(r, q)
    BY <2>2, <2>3 DEF Advances, RequestOK, EpochsKnown, PendingWrites
  <2>5. Knows(q)
    BY <2>2, <2>3 DEF Advances, RequestOK, Knows
  <2>6. OwnAccount(r, q) /\ SelectorsGiven(r, q)
    BY <2>2, <2>3 DEF Advances, RequestOK, OwnAccount, SelectorsGiven
  <2> QED
    BY <2>1, <2>4, <2>5, <2>6 DEF RequestOK
<1>2. req[r].pc # "done" /\ (req[r].pc \in Offering => pc \in Offering)
  BY DEF Advances
<1>3. [req[r] EXCEPT !.pc = pc].pc = pc
  BY Present DEF RequestSet
<1> QED
  BY <1>1, <1>2, <1>3, Went

-----------------------------------------------------------------------------
(* The hook *)

LEMMA SendStep ==
  ASSUME AuthIInv, NEW r \in Request, NEW b \in Browser, NEW h \in Handlers, Send(r, b, h)
  PROVE  AuthIInv'
<1> DEFINE q == [Unsent EXCEPT !.pc = "getSession", !.browser = b, !.handler = h,
                               !.since = epoch, !.cookies = jar[b]]
<1>1. jar[b] \in CookieSet /\ (jar[b].remember # None => Given(jar[b].remember[1]))
  BY DEF AuthIInv, Typed, CookiesGiven
<1>2. q \in RequestSet /\ q.pc = "getSession"
  BY <1>1, Names, Present DEF RequestSet
<1>3. RequestOK(r, q)
  BY <1>1, Present DEF Unsent, Untouched, RequestOK, EpochsKnown, PendingWrites, Knows, OwnAccount,
     SelectorsGiven
<1>4. Good(r) /\ req'[r] = q
  BY <1>2, <1>3, Becomes DEF Send
<1> QED
  BY <1>2, <1>4, RequestStep, Present DEF Send, Good

(* A step outside the locks that writes nothing, or ends a session or a    *)
(* token.                                                                  *)
LEMMA UnlockedStep ==
  ASSUME AuthIInv, NEW r \in Request, Unlocked(r), req[r].pc \notin Sharing \union {"reset"},
         UNCHANGED <<epoch, locks, users, jar>>,
         sessions' \subseteq sessions,
         tokens' = tokens \/ \E s \in Selector : tokens' = [tokens EXCEPT ![s] = None],
         Fault \/ NoFault
  PROVE  AuthIInv'
BY RequestStep, Counted DEF Unlocked, Good

LEMMA UnavailableGood ==
  ASSUME AuthIInv, NEW r \in Request, Unavailable(r), req[r].pc # "done"
  PROVE  Unlocked(r)
BY AnswersWell, Names DEF Unavailable, Untouched, Unlocked

LEMMA GetSessionStep ==
  ASSUME AuthIInv, NEW r \in Request, GetSession(r)
  PROVE  AuthIInv'
<1>1. ASSUME Go(r, "remember") PROVE Unlocked(r)
  BY <1>1, Advanced, Names DEF Advances, GetSession, Unlocked
<1>2. ASSUME NEW s \in sessions, Set(r, [req[r] EXCEPT !.pc = "checkEpoch", !.established = s])
      PROVE  Unlocked(r)
  <2> DEFINE q == [req[r] EXCEPT !.pc = "checkEpoch", !.established = s]
  <2>0. s \in SessionSet
    BY Present
  <2>1. q \in RequestSet /\ q.pc = "checkEpoch"
    BY Names, Present DEF RequestSet
  <2>2. OwnAccount(r, q)
    <3>1. q.handler = req[r].handler /\ q.user = req[r].user /\ q.outcome = req[r].outcome
      BY Present DEF RequestSet
    <3>2. OwnAccount(r, req[r]) /\ req[r].pc = "getSession"
      BY Present DEF RequestOK, GetSession
    <3> HIDE DEF q
    <3> QED
      BY <2>1, <3>1, <3>2 DEF OwnAccount
  <2>a. req[r].pc = "getSession"
    BY DEF GetSession
  <2>3. EpochsKnown(q) /\ PendingWrites(r, q) /\ Knows(q) /\ SelectorsGiven(r, q)
    BY <2>a, <2>0, Present DEF RequestSet, RequestOK, EpochsKnown, PendingWrites, Knows, SelectorsGiven
  <2>4. RequestOK(r, q)
    BY <2>2, <2>3 DEF RequestOK
  <2> QED
    BY <1>2, <2>1, <2>4, Becomes DEF GetSession, Unlocked
<1>3. Unlocked(r)
  BY <1>1, <1>2, UnavailableGood DEF GetSession
<1> QED
  BY <1>3, UnlockedStep DEF GetSession

LEMMA CheckEpochStep ==
  ASSUME AuthIInv, NEW r \in Request, CheckEpoch(r)
  PROVE  AuthIInv'
<1>1. ASSUME Go(r, "dropStale") PROVE Unlocked(r)
  BY <1>1, Advanced, Names DEF Advances, CheckEpoch, Unlocked
<1>2. ASSUME EpochAccepted(req[r].established),
             Set(r, [req[r] EXCEPT !.pc = "handle", !.session = req[r].established])
      PROVE  Unlocked(r)
  <2> DEFINE q == [req[r] EXCEPT !.pc = "handle", !.session = req[r].established]
  <2>1. q \in RequestSet /\ q.pc = "handle"
    BY Names, Present DEF RequestSet
  <2>2. RequestOK(r, q)
    BY <1>2, Present DEF CheckEpoch, EpochAccepted, RequestSet, RequestOK, EpochsKnown, PendingWrites,
       Knows, OwnAccount, SelectorsGiven
  <2> QED
    BY <1>2, <2>1, <2>2, Becomes DEF CheckEpoch, Unlocked
<1>3. Unlocked(r)
  BY <1>1, <1>2, UnavailableGood DEF CheckEpoch
<1> QED
  BY <1>3, UnlockedStep DEF CheckEpoch

LEMMA DropStaleStep ==
  ASSUME AuthIInv, NEW r \in Request, DropStale(r)
  PROVE  AuthIInv'
<1>1. ASSUME Go(r, "remember") PROVE Unlocked(r)
  BY <1>1, Advanced, Names DEF Advances, DropStale, Unlocked
<1>2. Unlocked(r)
  BY <1>1, UnavailableGood DEF DropStale
<1> QED
  BY <1>2, UnlockedStep DEF DropStale, Without

LEMMA NotRememberedStep ==
  ASSUME AuthIInv, NEW r \in Request, NotRemembered(r)
  PROVE  AuthIInv'
<1>1. Unlocked(r)
  BY Advanced, Names DEF Advances, NotRemembered, Unlocked
<1> QED
  BY <1>1, UnlockedStep DEF NotRemembered

LEMMA LockRestoreStep ==
  ASSUME AuthIInv, NEW r \in Request, LockRestore(r)
  PROVE  AuthIInv'
<1>1. CASE LockShared(r) /\ Set(r, [req[r] EXCEPT !.pc = "restore", !.epoch = epoch]) /\ NoFault
  <2> DEFINE q == [req[r] EXCEPT !.pc = "restore", !.epoch = epoch]
  <2>1. q \in RequestSet /\ q.pc = "restore"
    BY Names, Present DEF RequestSet
  <2>2. RequestOK(r, q)
    BY <1>1, Present DEF LockRestore, RequestSet, RequestOK, EpochsKnown, PendingWrites, Knows,
       OwnAccount, SelectorsGiven
  <2>3. Good(r) /\ req'[r].pc = "restore"
    BY <1>1, <2>1, <2>2, Becomes DEF LockRestore
  <2> QED
    BY <1>1, <2>3, LockStep, Counted DEF LockRestore, Good
<1>2. CASE UNCHANGED locks /\ Unavailable(r) /\ Fault
  BY <1>2, UnavailableGood, UnlockedStep DEF LockRestore
<1> QED
  BY <1>1, <1>2 DEF LockRestore

(* A step that ends a transaction on the tokens.  A new token is of the    *)
(* present epoch, and no session names its selector yet.                   *)
LEMMA UnlockStep ==
  ASSUME AuthIInv, NEW r \in Request, Onward(r),
         RequestOK(r, req'[r]), PendingWrites(r, req[r])',
         req[r].pc \in Sharing, req'[r].pc \notin Sharing \union {"reset"},
         Unlock(r),
         UNCHANGED <<epoch, users, sessions, jar>>,
         tokens' \in [Selector -> TokenSet \union {None}],
         \A s \in Selector \ {r} : tokens'[s] # None => tokens[s] # None,
         \A s \in Selector : tokens'[s] # None => tokens'[s].epoch = epoch,
         Fault \/ NoFault
  PROVE  AuthIInv'
<1>1. \A o \in Request \ {r} : RequestOK(o, req[o])'
  <2>1. epoch' \in Nat /\ epoch <= epoch'
    BY DEF AuthIInv, TypeOK
  <2> QED
    BY <2>1, OthersKept
<1>2. RequestOK(r, req[r])'
  <2>1. \A t : Given(t) => Given(t)'
    BY GivenKept
  <2>2. EpochsKnown(req[r])' /\ Knows(req[r])' /\ OwnAccount(r, req[r])'
    BY DEF RequestOK, EpochsKnown, Knows, OwnAccount
  <2>3. SelectorsGiven(r, req[r])'
    BY <2>1 DEF RequestOK, SelectorsGiven
  <2> QED
    BY <2>2, <2>3 DEF RequestOK, PendingWrites
<1>3. RequestsOK'
  BY <1>1, <1>2 DEF RequestsOK
<1>4. TokensFollowReset'
  BY DEF TokensFollowReset
<1>5. RememberedSessionAlive'
  <2>1. ASSUME NEW s \in sessions, s.selector # None, tokens'[s.selector] # None
        PROVE  s.epoch = epoch
    <3>1. s.selector \in Selector
      BY <2>1 DEF AuthIInv, TypeOK
    <3>2. s.selector # r
      BY <2>1 DEF AuthIInv, SessionsOffered
    <3> QED
      BY <2>1, <3>1, <3>2 DEF AuthIInv, RememberedSessionAlive
  <2> QED
    BY <2>1 DEF RememberedSessionAlive
<1>6. TypeOK'
  <2>1. \A s \in Selector : tokens'[s] # None => tokens'[s].user \in Name
    BY DEF TokenSet
  <2>2. locks' \in [shared : SUBSET Request, exclusive : SUBSET Request]
    BY DEF AuthIInv, TypeOK, Unlock
  <2> QED
    BY <2>1, <2>2, Counted DEF AuthIInv, TypeOK
<1>7. LocksExact'
  <2>1. locks.exclusive = {} /\ locks.exclusive' = {}
    BY DEF AuthIInv, TypeOK, LocksExact, Unlock
  <2> QED
    BY <2>1 DEF AuthIInv, TypeOK, Typed, LocksExact, Unlock, Onward
<1>8. Typed'
  BY DEF AuthIInv, Typed, Onward
<1> QED
  BY <1>3, <1>4, <1>5, <1>6, <1>7, <1>8, OfferedKept, JarKept DEF AuthIInv

LEMMA RestoreStep ==
  ASSUME AuthIInv, NEW r \in Request, Restore(r)
  PROVE  AuthIInv'
<1> DEFINE selector == req[r].cookies.remember[1]
           token == tokens[selector]
           valid == token # None /\ token.validator = req[r].cookies.remember[2]
           new == Token(token.user, <<r, "rotated">>, req[r].epoch)
           after == [tokens EXCEPT ![selector] = IF valid THEN new ELSE None]
<1>0. req[r].pc = "restore"
  BY DEF Restore
<1>1. selector \in Selector /\ selector # r
  <2>1. Given(selector) /\ req[r].cookies.remember # None
    BY Present DEF Restore, RequestOK, Knows, SelectorsGiven
  <2> QED
    BY <2>1, Present DEF Restore, Given, RequestSet, CookieSet, Remembers
<1>2. req[r].epoch = epoch
  BY Present DEF Restore, RequestOK, EpochsKnown
<1>3. valid => token.user \in Name /\ new \in TokenSet /\ new.epoch = epoch
  <2>1. <<r, "rotated">> \in Validators
    BY Present DEF Validators
  <2>2. valid => token.user \in Name
    BY <1>1, Present DEF TokenSet
  <2> QED
    BY <1>2, <2>1, <2>2, Present DEF Token, TokenSet
<1>4. /\ tokens' \in [Selector -> TokenSet \union {None}]
      /\ \A s \in Selector \ {r} : tokens'[s] # None => tokens[s] # None
      /\ \A s \in Selector : tokens'[s] # None => tokens'[s].epoch = epoch
  <2>1. tokens' \in {tokens, after}
    BY DEF Restore
  <2>2. \A s \in Selector : tokens[s] # None => tokens[s].epoch = epoch
    BY DEF AuthIInv, TokensFollowReset
  <2>3. valid => tokens[selector] # None
    OBVIOUS
  <2> HIDE DEF valid, token, selector, new
  <2> QED
    BY <1>1, <1>3, <2>1, <2>2, <2>3, Present
<1>5. ASSUME valid, Set(r, [req[r] EXCEPT !.pc = "setRestored", !.user = token.user])
      PROVE  Unlocked(r) /\ PendingWrites(r, req[r])'
  <2> DEFINE q == [req[r] EXCEPT !.pc = "setRestored", !.user = token.user]
  <2>1. q \in RequestSet /\ q.pc = "setRestored" /\ q.epoch = epoch
    BY <1>2, <1>3, <1>5, Names, Present DEF RequestSet
  <2>2. ASSUME NEW u \in Name
        PROVE  RequestOK(r, [req[r] EXCEPT !.pc = "setRestored", !.user = u])
    BY <1>0, <1>2, Present DEF RequestSet, RequestOK, EpochsKnown, PendingWrites, Knows, OwnAccount,
       SelectorsGiven
  <2>3. Unlocked(r) /\ req'[r] = q
    BY <1>3, <1>5, <2>1, <2>2, Becomes DEF Restore, Unlocked
  <2> QED
    BY <2>1, <2>3 DEF PendingWrites, Restore
<1>6. ASSUME Set(r, [req[r] EXCEPT !.pc = "handle", !.reply = Cleared])
      PROVE  Unlocked(r) /\ PendingWrites(r, req[r])'
  <2> DEFINE q == [req[r] EXCEPT !.pc = "handle", !.reply = Cleared]
  <2>1. q \in RequestSet /\ q.pc = "handle"
    BY Names, Present DEF RequestSet
  <2>2. RequestOK(r, q)
    BY <1>0, Present DEF Cleared, RequestSet, RequestOK, EpochsKnown, PendingWrites, Knows, OwnAccount,
       SelectorsGiven
  <2>3. Unlocked(r) /\ req'[r] = q
    BY <1>6, <2>1, <2>2, Becomes DEF Restore, Unlocked
  <2> QED
    BY <2>1, <2>3 DEF PendingWrites
<1>7. ASSUME Unavailable(r)
      PROVE  Unlocked(r) /\ PendingWrites(r, req[r])'
  <2>1. Good(r) /\ req'[r].pc = "answer"
    BY <1>7, AnswersWell, Names DEF Unavailable, Untouched, Restore
  <2> QED
    BY <2>1 DEF PendingWrites, Unlocked
<1> QED
  BY <1>4, <1>5, <1>6, <1>7, UnlockStep DEF Unlocked, Good, Restore

(* Redis took the write or not: the request cannot always tell.            *)
LEMMA WritesWell ==
  ASSUME AuthIInv, NEW r \in Request, Unlocked(r), req[r].pc \notin Sharing \union {"reset"},
         UNCHANGED <<epoch, locks, users, tokens, jar>>,
         Fault \/ NoFault,
         NEW s \in SessionSet, Put(s) \/ UNCHANGED sessions,
         s.epoch <= epoch,
         s.selector # None /\ tokens[s.selector] # None => s.epoch = epoch,
         s.selector = r => req'[r].pc \in Offering,
         s.selector # None => s.selector = r \/ Given(s.selector)
  PROVE  AuthIInv'
<1>1. CASE UNCHANGED sessions
  BY <1>1, UnlockedStep
<1>2. CASE Put(s)
  BY <1>2, WriteStep, Counted DEF Unlocked, Good
<1> QED
  BY <1>1, <1>2

LEMMA SetRestoredStep ==
  ASSUME AuthIInv, NEW r \in Request, SetRestored(r)
  PROVE  AuthIInv'
<1> DEFINE s == Session(<<r, "restored">>, req[r].user, req[r].epoch, req[r].cookies.remember[1])
           reply == [session |-> s.id, remember |-> <<s.selector, <<r, "rotated">>>>]
           q == [req[r] EXCEPT !.pc = "handle", !.session = s, !.reply = reply]
<1>0. /\ req[r].pc = "setRestored" /\ req[r].cookies.remember # None
      /\ req[r].since <= req[r].epoch /\ req[r].epoch <= epoch /\ req[r].user \in Name
  BY Present DEF SetRestored, RequestOK, EpochsKnown, Knows
<1>1. req[r].cookies.remember[1] \in Selector /\ Given(req[r].cookies.remember[1])
  BY <1>0, Present DEF RequestOK, SelectorsGiven, RequestSet, CookieSet, Remembers
<1>2. s \in SessionSet /\ s.epoch = req[r].epoch /\ s.selector = req[r].cookies.remember[1]
  BY <1>0, <1>1, Present DEF Session, SessionSet, Ids, RequestSet
<1>3. reply \in ReplySet /\ reply.remember[1] = s.selector
  BY <1>1, <1>2, Present DEF ReplySet, SessionSet, Remembers, Validators
<1>4. ASSUME Set(r, q)
      PROVE  Unlocked(r)
  <2>1. q \in RequestSet /\ q.pc = "handle"
    <3>1. PICK u, known, answer : u = req[r] /\ known = s /\ answer = reply
      OBVIOUS
    <3>2. u \in RequestSet /\ known \in SessionSet /\ answer \in ReplySet /\ "handle" \in Pcs
      BY <1>2, <1>3, <3>1, Names, Present
    <3>3. /\ [u EXCEPT !.pc = "handle", !.session = known, !.reply = answer] \in RequestSet
          /\ [u EXCEPT !.pc = "handle", !.session = known, !.reply = answer].pc = "handle"
      BY <3>2 DEF RequestSet
    <3> QED
      BY <3>1, <3>3
  <2>2. ASSUME NEW session \in SessionSet, session.epoch = req[r].epoch,
               NEW answer \in ReplySet, Given(answer.remember[1])
        PROVE  RequestOK(r, [req[r] EXCEPT !.pc = "handle", !.session = session, !.reply = answer])
    BY <1>0, <2>2, Present DEF RequestSet, RequestOK, EpochsKnown, PendingWrites, Knows, OwnAccount,
       SelectorsGiven
  <2>3. RequestOK(r, q)
    BY <1>1, <1>2, <1>3, <2>2
  <2> QED
    BY <1>0, <1>4, <2>1, <2>3, Becomes DEF Unlocked
<1>5. ASSUME Go(r, "forgetRestored")
      PROVE  Unlocked(r)
  BY <1>0, <1>5, Advanced, Names DEF Advances, Unlocked
<1>6. tokens[s.selector] # None => s.epoch = epoch
  BY <1>0, <1>2, Present DEF RequestOK, PendingWrites
<1>7. Unlocked(r) /\ (Put(s) \/ UNCHANGED sessions)
  BY <1>4, <1>5 DEF SetRestored, Write
<1>8. s.selector # r
  BY <1>0, <1>1, <1>2 DEF Given
<1> QED
  BY <1>0, <1>1, <1>2, <1>6, <1>7, <1>8, WritesWell DEF SetRestored, Write

LEMMA ForgetRestoredStep ==
  ASSUME AuthIInv, NEW r \in Request, ForgetRestored(r)
  PROVE  AuthIInv'
<1>1. req[r].cookies.remember[1] \in Selector
  BY Present DEF ForgetRestored, RequestOK, Knows, RequestSet, CookieSet, Remembers
<1> QED
  BY <1>1, UnavailableGood, UnlockedStep DEF ForgetRestored, DropToken

LEMMA HandleStep ==
  ASSUME AuthIInv, NEW r \in Request, Handle(r)
  PROVE  AuthIInv'
<1>0. req[r].pc = "handle" /\ req[r].reply \in ReplySet
  BY Present DEF Handle, RequestSet
<1>1. ASSUME NEW outcome \in {"unauthenticated", "ok"}, Answer(r, outcome, req[r].reply),
             req[r].handler # "register"
      PROVE  Unlocked(r)
  BY <1>0, <1>1, AnswersWell, Names, Present DEF RequestOK, SelectorsGiven, Unlocked
<1>2. ASSUME NEW next \in {"logout", "lockReset"}, req[r].handler \in {"logout", "reset"},
             req[r].session # None,
             Set(r, [req[r] EXCEPT !.pc = next, !.todo = {"session", "token"}])
      PROVE  Unlocked(r)
  <2> DEFINE q == [req[r] EXCEPT !.pc = next, !.todo = {"session", "token"}]
  <2>1. q \in RequestSet /\ q.pc = next
    BY Names, Present DEF RequestSet
  <2>2. RequestOK(r, q)
    BY <1>0, <1>2, Present DEF RequestSet, RequestOK, EpochsKnown, PendingWrites, Knows, OwnAccount,
       SelectorsGiven
  <2> QED
    BY <1>0, <1>2, <2>1, <2>2, Becomes DEF Unlocked
<1>3. ASSUME NEW next \in {"establish", "usernameExists"}, NEW n \in Name,
             req[r].handler = (IF next = "establish" THEN "login" ELSE "register"),
             Set(r, [req[r] EXCEPT !.pc = next, !.user = n])
      PROVE  Unlocked(r)
  <2> DEFINE q == [req[r] EXCEPT !.pc = next, !.user = n]
  <2>1. q \in RequestSet /\ q.pc = next
    BY Names, Present DEF RequestSet
  <2>2. RequestOK(r, q)
    BY <1>0, <1>3, Present DEF RequestSet, RequestOK, EpochsKnown, PendingWrites, Knows, OwnAccount,
       SelectorsGiven
  <2> QED
    BY <1>0, <1>3, <2>1, <2>2, Becomes DEF Unlocked
<1>4. Unlocked(r)
  BY <1>1, <1>2, <1>3 DEF Handle
<1> QED
  BY <1>0, <1>4, UnlockedStep DEF Handle

-----------------------------------------------------------------------------
(* Login and registration *)

LEMMA OwnReply ==
  ASSUME AuthIInv, NEW r \in Request, NEW outcome \in Outcomes, Answer(r, outcome, req[r].reply),
         req[r].pc # "done",
         req[r].handler = "register" /\ outcome \in {"ok", "accountCreated"} => req[r].pc \in Establishing
  PROVE  Unlocked(r)
<1>1. req[r].reply \in ReplySet
  BY Present DEF RequestSet
<1> QED
  BY <1>1, AnswersWell, Present DEF RequestOK, SelectorsGiven, Unlocked

LEMMA FailedGood ==
  ASSUME AuthIInv, NEW r \in Request, req[r].pc \in Establishing, Failed(r)
  PROVE  Unlocked(r)
<1>1. CASE req[r].handler = "register"
  <2>1. Answer(r, "accountCreated", Cleared) /\ Cleared.remember = None
    BY <1>1 DEF Failed, Cleared
  <2> QED
    BY <2>1, AnswersWell, Names DEF Unlocked
<1>2. CASE req[r].handler # "register"
  BY <1>2, OwnReply, Names DEF Failed
<1> QED
  BY <1>1, <1>2

LEMMA SignedInGood ==
  ASSUME AuthIInv, NEW r \in Request, req[r].pc \in Establishing,
         NEW s \in SessionSet, NEW remember \in {None, <<r, <<r, "new">>>>},
         SignedIn(r, s, remember)
  PROVE  Unlocked(r)
<1> DEFINE reply == [session |-> s.id,
                     remember |-> IF remember = None THEN req[r].reply.remember ELSE remember]
<1>1. reply \in ReplySet
  BY Present DEF ReplySet, RequestSet, SessionSet, Remembers, Validators
<1>2. reply.remember # None /\ reply.remember # "keep" =>
        reply.remember[1] = r \/ Given(reply.remember[1])
  BY Present DEF RequestOK, SelectorsGiven
<1>3. Answer(r, "ok", reply)
  BY DEF SignedIn
<1> HIDE DEF reply
<1> QED
  BY <1>1, <1>2, <1>3, AnswersWell, Names DEF Unlocked

LEMMA UsernameExistsStep ==
  ASSUME AuthIInv, NEW r \in Request, UsernameExists(r)
  PROVE  AuthIInv'
<1>1. ASSUME Go(r, "createUser") PROVE Unlocked(r)
  BY <1>1, Advanced, Names DEF Advances, UsernameExists, Unlocked
<1>2. Unlocked(r)
  BY <1>1, OwnReply, Names DEF UsernameExists
<1> QED
  BY <1>2, UnlockedStep DEF UsernameExists

(* An account is created once, so it stays the account of its registration.*)
LEMMA UserStep ==
  ASSUME AuthIInv, NEW r \in Request, Onward(r), RequestOK(r, req[r])',
         req[r].pc \notin Sharing \union {"reset"}, req'[r].pc \notin Sharing \union {"reset"},
         UNCHANGED <<epoch, locks, tokens, sessions, jar>>,
         NEW n \in Name, users[n] = None, users' = [users EXCEPT ![n] = r],
         Fault \/ NoFault
  PROVE  AuthIInv'
<1>1. \A m \in Name : users[m] # None => users'[m] = users[m]
  BY DEF AuthIInv, TypeOK
<1>2. \A o \in Request \ {r} : RequestOK(o, req[o])'
  <2>1. epoch' \in Nat /\ epoch <= epoch'
    BY DEF AuthIInv, TypeOK
  <2> QED
    BY <1>1, <2>1, OthersKept
<1>3. RequestsOK'
  BY <1>2 DEF RequestsOK
<1>4. TypeOK'
  BY Counted DEF AuthIInv, TypeOK
<1>5. Typed' /\ TokensFollowReset' /\ RememberedSessionAlive'
  BY DEF AuthIInv, Typed, Onward, TokensFollowReset, RememberedSessionAlive
<1> QED
  BY <1>3, <1>4, <1>5, LocksKept, OfferedKept, JarKept DEF AuthIInv

LEMMA CreateUserStep ==
  ASSUME AuthIInv, NEW r \in Request, CreateUser(r)
  PROVE  AuthIInv'
<1>0. req[r].pc = "createUser" /\ req[r].user \in Name /\ users \in [Name -> Request \union {First, None}]
  BY Present DEF CreateUser, RequestOK, Knows, AuthIInv, TypeOK
<1>1. CASE UNCHANGED users
  <2>2. ASSUME Go(r, "readBackUser") PROVE Unlocked(r)
    BY <1>0, <2>2, Advanced, Names DEF Advances, Unlocked
  <2>3. ASSUME Go(r, "establish"), users[req[r].user] = None, users'[req[r].user] = r PROVE FALSE
    BY <1>1, <2>3
  <2>4. Unlocked(r)
    BY <1>0, <1>1, <2>2, <2>3, OwnReply, Names DEF CreateUser
  <2> QED
    BY <1>0, <1>1, <2>4, UnlockedStep DEF CreateUser
<1>2. CASE users[req[r].user] = None /\ users' = [users EXCEPT ![req[r].user] = r]
            /\ (Go(r, "establish") \/ Go(r, "readBackUser"))
  <2>1. PICK next \in {"establish", "readBackUser"} : Go(r, next)
    BY <1>2
  <2> DEFINE q == [req[r] EXCEPT !.pc = next]
  <2>2. q \in RequestSet /\ q.pc = next /\ req' = [req EXCEPT ![r] = q]
    BY <2>1, Names, Present DEF RequestSet
  <2>3. req'[r] = q
    BY <2>2, Present
  <2>4. Onward(r)
    BY <1>0, <2>2, <2>3 DEF Onward
  <2>5. users'[q.user] = r /\ q.user = req[r].user
    BY <1>0, <1>2, Present DEF RequestSet
  <2>6. \A s : Given(s) => Given(s)'
    BY <2>4, GivenKept
  <2>7. EpochsKnown(q) /\ PendingWrites(r, q) /\ Knows(q) /\ SelectorsGiven(r, q)
    BY <1>0, Present DEF RequestSet, RequestOK, EpochsKnown, PendingWrites, Knows, SelectorsGiven
  <2>8. q.handler = "register" => q.outcome = None
    BY <1>0, Present DEF RequestSet, RequestOK, OwnAccount
  <2>9. EpochsKnown(req[r])' /\ PendingWrites(r, req[r])' /\ Knows(req[r])'
    BY <2>3, <2>7 DEF EpochsKnown, PendingWrites, Knows, CreateUser
  <2>10. SelectorsGiven(r, req[r])'
    BY <2>3, <2>6, <2>7 DEF SelectorsGiven
  <2>11. OwnAccount(r, req[r])'
    <3> HIDE DEF q
    <3> QED
      BY <1>0, <2>2, <2>3, <2>5, <2>8 DEF OwnAccount
  <2>12. RequestOK(r, req[r])'
    BY <2>9, <2>10, <2>11 DEF RequestOK
  <2> QED
    BY <1>0, <1>2, <2>2, <2>3, <2>4, <2>12, UserStep DEF CreateUser
<1> QED
  BY <1>1, <1>2 DEF CreateUser

LEMMA ReadBackUserStep ==
  ASSUME AuthIInv, NEW r \in Request, ReadBackUser(r)
  PROVE  AuthIInv'
<1>0. req[r].pc = "readBackUser"
  BY DEF ReadBackUser
<1>1. ASSUME users[req[r].user] = r, Go(r, "establish") PROVE Unlocked(r)
  <2> DEFINE q == [req[r] EXCEPT !.pc = "establish"]
  <2>1. q.pc = "establish"
    BY Present DEF RequestSet
  <2>2. RequestOK(r, q)
    BY <1>0, <1>1, Present DEF RequestSet, RequestOK, EpochsKnown, PendingWrites, Knows, OwnAccount,
       SelectorsGiven
  <2> QED
    BY <1>0, <1>1, <2>1, <2>2, Went, Names DEF Unlocked
<1>2. Unlocked(r)
  BY <1>0, <1>1, OwnReply, Names DEF ReadBackUser, SameTuple
<1> QED
  BY <1>0, <1>2, UnlockedStep DEF ReadBackUser

(* The epoch is read before the session is written.                        *)
LEMMA ReadsEpoch ==
  ASSUME AuthIInv, NEW r \in Request,
         NEW next \in {"setEstablished", "createToken", "setAgain"},
         <<req[r].pc, next>> \in {<<"establish", "setEstablished">>, <<"lockToken", "createToken">>,
                                 <<"establishAgain", "setAgain">>},
         Set(r, [req[r] EXCEPT !.pc = next, !.epoch = epoch])
  PROVE  Good(r) /\ req'[r].pc = next
<1> DEFINE q == [req[r] EXCEPT !.pc = next, !.epoch = epoch]
<1>1. q \in RequestSet /\ q.pc = next
  <2>1. PICK u, n : u = req[r] /\ n = epoch
    OBVIOUS
  <2>2. u \in RequestSet /\ n \in Nat /\ next \in Pcs
    BY <2>1, Names, Present
  <2>3. /\ [u EXCEPT !.pc = next, !.epoch = n] \in RequestSet
        /\ [u EXCEPT !.pc = next, !.epoch = n].pc = next
    BY <2>2 DEF RequestSet
  <2> QED
    BY <2>1, <2>3
<1>2. RequestOK(r, q)
  BY Present DEF RequestSet, RequestOK, EpochsKnown, PendingWrites, Knows, OwnAccount, SelectorsGiven
<1>3. req[r].pc # "done" /\ (req[r].pc \in Offering => next \in Offering)
  OBVIOUS
<1> QED
  BY <1>1, <1>2, <1>3, Becomes

LEMMA EstablishStep ==
  ASSUME AuthIInv, NEW r \in Request, Establish(r)
  PROVE  AuthIInv'
<1>1. Unlocked(r)
  BY ReadsEpoch, FailedGood DEF Establish, Unlocked
<1> QED
  BY <1>1, UnlockedStep DEF Establish

LEMMA EstablishAgainStep ==
  ASSUME AuthIInv, NEW r \in Request, EstablishAgain(r)
  PROVE  AuthIInv'
<1>1. Unlocked(r)
  BY ReadsEpoch, FailedGood DEF EstablishAgain, Unlocked
<1> QED
  BY <1>1, UnlockedStep DEF EstablishAgain

LEMMA PasswordSession ==
  ASSUME AuthIInv, NEW r \in Request, req[r].pc \in Establishing,
         NEW kind \in {"established", "again"}
  PROVE  LET s == Session(<<r, kind>>, req[r].user, req[r].epoch, None)
         IN  s \in SessionSet /\ s.selector = None /\ s.epoch <= epoch
<1>1. <<r, kind>> \in Ids /\ req[r].user \in Name /\ req[r].epoch \in Nat /\ req[r].epoch <= epoch
  BY Present DEF Ids, RequestSet, RequestOK, Knows, EpochsKnown
<1> QED
  BY <1>1 DEF Session, SessionSet

LEMMA SetEstablishedStep ==
  ASSUME AuthIInv, NEW r \in Request, SetEstablished(r)
  PROVE  AuthIInv'
<1> DEFINE s == Session(<<r, "established">>, req[r].user, req[r].epoch, None)
<1>0. req[r].pc = "setEstablished"
  BY DEF SetEstablished
<1>1. s \in SessionSet /\ s.selector = None /\ s.epoch <= epoch
  BY <1>0, PasswordSession
<1>2. ASSUME Set(r, [req[r] EXCEPT !.pc = "lockToken", !.established = s])
      PROVE  Unlocked(r)
  <2> DEFINE q == [req[r] EXCEPT !.pc = "lockToken", !.established = s]
  <2>1. q \in RequestSet /\ q.pc = "lockToken"
    BY <1>1, Names, Present DEF RequestSet
  <2>2. ASSUME NEW t \in SessionSet
        PROVE  RequestOK(r, [req[r] EXCEPT !.pc = "lockToken", !.established = t])
    BY <1>0, Present DEF RequestSet, RequestOK, EpochsKnown, PendingWrites, Knows, OwnAccount,
       SelectorsGiven
  <2> QED
    BY <1>0, <1>1, <1>2, <2>1, <2>2, Becomes DEF Unlocked
<1>3. Unlocked(r) /\ (Put(s) \/ UNCHANGED sessions)
  BY <1>0, <1>2, FailedGood DEF SetEstablished, Write
<1> QED
  BY <1>0, <1>1, <1>3, WritesWell DEF SetEstablished, Write

LEMMA SetAgainStep ==
  ASSUME AuthIInv, NEW r \in Request, SetAgain(r)
  PROVE  AuthIInv'
<1> DEFINE s == Session(<<r, "again">>, req[r].user, req[r].epoch, None)
<1>0. req[r].pc = "setAgain"
  BY DEF SetAgain
<1>1. s \in SessionSet /\ s.selector = None /\ s.epoch <= epoch
  BY <1>0, PasswordSession
<1>2. SignedIn(r, s, None) \/ Failed(r)
  BY DEF SetAgain, Write
<1>3. Unlocked(r)
  BY <1>0, <1>1, <1>2, SignedInGood, FailedGood
<1>4. Put(s) \/ UNCHANGED sessions
  BY DEF SetAgain, Write
<1> QED
  BY <1>0, <1>1, <1>3, <1>4, WritesWell DEF SetAgain, Write

LEMMA LockTokenStep ==
  ASSUME AuthIInv, NEW r \in Request, LockToken(r)
  PROVE  AuthIInv'
<1>1. CASE LockShared(r) /\ Set(r, [req[r] EXCEPT !.pc = "createToken", !.epoch = epoch]) /\ NoFault
  <2>1. Good(r) /\ req'[r].pc = "createToken"
    BY <1>1, ReadsEpoch DEF LockToken
  <2> QED
    BY <1>1, <2>1, LockStep, Counted DEF LockToken, Good
<1>2. CASE UNCHANGED locks /\ SignedIn(r, req[r].established, None) /\ Fault
  <2>1. req[r].established \in SessionSet
    BY Present DEF LockToken, RequestOK, Knows
  <2>2. Unlocked(r)
    BY <1>2, <2>1, SignedInGood DEF LockToken
  <2> QED
    BY <1>2, <2>2, UnlockedStep DEF LockToken
<1> QED
  BY <1>1, <1>2 DEF LockToken

LEMMA CreateTokenStep ==
  ASSUME AuthIInv, NEW r \in Request, CreateToken(r)
  PROVE  AuthIInv'
<1> DEFINE new == Token(req[r].user, <<r, "new">>, req[r].epoch)
<1>0. /\ req[r].pc = "createToken" /\ req[r].epoch = epoch /\ req[r].user \in Name
      /\ req[r].established \in SessionSet
  BY Present DEF CreateToken, RequestOK, EpochsKnown, Knows
<1>1. new \in TokenSet /\ new.epoch = epoch
  BY <1>0, Present DEF Token, TokenSet, Validators
<1>2. /\ tokens' \in [Selector -> TokenSet \union {None}]
      /\ \A s \in Selector \ {r} : tokens'[s] # None => tokens[s] # None
      /\ \A s \in Selector : tokens'[s] # None => tokens'[s].epoch = epoch
  <2>1. tokens' \in {tokens, [tokens EXCEPT ![r] = new]}
    BY DEF CreateToken
  <2> HIDE DEF new
  <2> QED
    BY <1>1, <2>1, Present DEF AuthIInv, TokensFollowReset
<1>3. ASSUME Go(r, "setRemembered")
      PROVE  Unlocked(r) /\ PendingWrites(r, req[r])'
  <2> DEFINE q == [req[r] EXCEPT !.pc = "setRemembered"]
  <2>1. q.pc = "setRemembered" /\ q.epoch = epoch
    BY <1>0, Present DEF RequestSet
  <2>2. RequestOK(r, q)
    BY <1>0, Present DEF RequestSet, RequestOK, EpochsKnown, PendingWrites, Knows, OwnAccount, SelectorsGiven
  <2>3. Good(r) /\ req'[r] = q
    BY <1>0, <1>3, <2>2, Went, Names
  <2> QED
    BY <2>1, <2>3 DEF PendingWrites, Unlocked, CreateToken
<1>4. ASSUME SignedIn(r, req[r].established, None)
      PROVE  Unlocked(r) /\ PendingWrites(r, req[r])'
  <2>1. Unlocked(r)
    BY <1>0, <1>4, SignedInGood
  <2>2. req'[r].pc = "answer"
    BY <1>4, Present DEF SignedIn, RequestSet
  <2> QED
    BY <2>1, <2>2 DEF PendingWrites
<1> QED
  BY <1>0, <1>2, <1>3, <1>4, UnlockStep DEF Unlocked, Good, CreateToken

LEMMA RememberedSessionGood ==
  ASSUME AuthIInv, NEW r \in Request, req[r].pc \in {"setRemembered", "dropEstablished"}
  PROVE  /\ RememberedSession(r) \in SessionSet
         /\ RememberedSession(r).selector = r
         /\ RememberedSession(r).epoch = req[r].epoch
<1>1. /\ req[r].established \in SessionSet /\ req[r].user \in Name
      /\ req[r].epoch \in Nat /\ r \in Selector
  BY Present DEF RequestSet, RequestOK, Knows
<1>2. CASE SameEpoch(r)
  <2>1. RememberedSession(r) = [req[r].established EXCEPT !.selector = r]
    BY <1>2 DEF RememberedSession
  <2>2. req[r].epoch = req[r].established.epoch
    BY <1>2 DEF SameEpoch
  <2> QED
    BY <1>1, <2>1, <2>2 DEF SessionSet
<1>3. CASE ~SameEpoch(r)
  <2>1. RememberedSession(r) = Session(<<r, "remembered">>, req[r].user, req[r].epoch, r)
    BY <1>3 DEF RememberedSession
  <2>2. <<r, "remembered">> \in Ids
    BY <1>1 DEF Ids
  <2> QED
    BY <1>1, <2>1, <2>2 DEF SessionSet, Session
<1> QED
  BY <1>2, <1>3

LEMMA SetRememberedStep ==
  ASSUME AuthIInv, NEW r \in Request, SetRemembered(r)
  PROVE  AuthIInv'
<1> DEFINE s == RememberedSession(r)
<1>0. req[r].pc = "setRemembered"
  BY DEF SetRemembered
<1>1. s \in SessionSet /\ s.selector = r /\ s.epoch = req[r].epoch
  BY <1>0, RememberedSessionGood
<1>2. req[r].epoch <= epoch /\ (tokens[r] # None => req[r].epoch = epoch)
  BY <1>0, Present DEF RequestOK, EpochsKnown, PendingWrites
<1>3. SignedIn(r, s, <<r, <<r, "new">>>>) \/ Go(r, "dropEstablished") \/ Go(r, "undoToken")
  BY DEF SetRemembered, Write
<1>4. ASSUME SignedIn(r, s, <<r, <<r, "new">>>>)
      PROVE  Unlocked(r) /\ req'[r].pc \in Offering
  <2>1. Unlocked(r)
    BY <1>0, <1>1, <1>4, SignedInGood
  <2> QED
    BY <1>4, <2>1, Present DEF SignedIn, RequestSet
<1>5. ASSUME NEW next \in {"dropEstablished", "undoToken"}, Go(r, next)
      PROVE  Unlocked(r) /\ req'[r].pc \in Offering
  BY <1>0, <1>5, Advanced, Names DEF Advances, Unlocked
<1>6. Unlocked(r) /\ req'[r].pc \in Offering
  BY <1>3, <1>4, <1>5
<1>7. Put(s) \/ UNCHANGED sessions
  BY DEF SetRemembered, Write
<1> QED
  BY <1>0, <1>1, <1>2, <1>6, <1>7, WritesWell DEF SetRemembered, Write

LEMMA DropEstablishedStep ==
  ASSUME AuthIInv, NEW r \in Request, DropEstablished(r)
  PROVE  AuthIInv'
<1>1. Unlocked(r)
  <2>1. RememberedSession(r) \in SessionSet
    BY RememberedSessionGood DEF DropEstablished
  <2> QED
    BY <2>1, SignedInGood DEF DropEstablished
<1> QED
  BY <1>1, UnlockedStep DEF DropEstablished, Drop, Without

LEMMA UndoTokenStep ==
  ASSUME AuthIInv, NEW r \in Request, UndoToken(r)
  PROVE  AuthIInv'
<1>1. req[r].established \in SessionSet /\ r \in Selector
  BY Present DEF UndoToken, RequestOK, Knows
<1>2. ASSUME Go(r, "dropKnownStale") PROVE Unlocked(r)
  BY <1>2, Advanced, Names DEF Advances, UndoToken, Unlocked
<1>3. Unlocked(r)
  BY <1>1, <1>2, SignedInGood DEF UndoToken
<1> QED
  BY <1>1, <1>3, UnlockedStep DEF UndoToken, DropToken

LEMMA DropKnownStaleStep ==
  ASSUME AuthIInv, NEW r \in Request, DropKnownStale(r)
  PROVE  AuthIInv'
<1>1. Unlocked(r)
  BY Advanced, Names DEF Advances, DropKnownStale, Unlocked
<1> QED
  BY <1>1, UnlockedStep DEF DropKnownStale, Drop, Without

-----------------------------------------------------------------------------
(* Logout and reset *)

LEMMA RevokedGood ==
  ASSUME AuthIInv, NEW r \in Request, req[r].pc = "logout",
         NEW left \in SUBSET {"session", "token"}, NEW outcome \in {req[r].outcome, "incomplete"},
         Set(r, [req[r] EXCEPT !.todo = left, !.outcome = outcome])
  PROVE  Unlocked(r)
<1> DEFINE q == [req[r] EXCEPT !.todo = left, !.outcome = outcome]
<1>1. q \in RequestSet /\ q.pc = "logout"
  BY Names, Present DEF RequestSet
<1>2. RequestOK(r, q)
  BY Present DEF RequestSet, RequestOK, EpochsKnown, PendingWrites, Knows, OwnAccount, SelectorsGiven
<1> QED
  BY <1>1, <1>2, Becomes DEF Unlocked

LEMMA RevokeSessionStep ==
  ASSUME AuthIInv, NEW r \in Request, RevokeSession(r)
  PROVE  AuthIInv'
<1>1. req[r].pc = "logout" /\ req[r].todo \in SUBSET {"session", "token"}
  BY Present DEF RevokeSession, RequestSet
<1>2. \E outcome \in {req[r].outcome, "incomplete"} :
        Set(r, [req[r] EXCEPT !.todo = @ \ {"session"}, !.outcome = outcome])
  BY DEF RevokeSession
<1>3. Unlocked(r)
  BY <1>1, <1>2, RevokedGood
<1> QED
  BY <1>1, <1>3, UnlockedStep DEF RevokeSession, Drop, Without

LEMMA RevokeTokenStep ==
  ASSUME AuthIInv, NEW r \in Request, RevokeToken(r)
  PROVE  AuthIInv'
<1>1. req[r].pc = "logout" /\ req[r].todo \in SUBSET {"session", "token"}
  BY Present DEF RevokeToken, RequestSet
<1>2. \E outcome \in {req[r].outcome, "incomplete"} :
        Set(r, [req[r] EXCEPT !.todo = @ \ {"token"}, !.outcome = outcome])
  BY DEF RevokeToken
<1>3. Unlocked(r)
  BY <1>1, <1>2, RevokedGood
<1>4. req[r].session.selector = None \/ req[r].session.selector \in Selector
  BY <1>1, Present DEF RequestOK, Knows, RequestSet, SessionSet
<1> QED
  BY <1>1, <1>3, <1>4, UnlockedStep DEF RevokeToken, DropToken

LEMMA LoggedOutStep ==
  ASSUME AuthIInv, NEW r \in Request, LoggedOut(r)
  PROVE  AuthIInv'
<1>1. req[r].handler # "register"
  BY Present DEF LoggedOut, RequestOK, Knows
<1>2. (IF req[r].outcome = None THEN "ok" ELSE req[r].outcome) \in Outcomes
  BY Names, Present DEF RequestSet
<1>3. Cleared.remember = None
  BY DEF Cleared
<1>4. Unlocked(r)
  BY <1>1, <1>2, <1>3, AnswersWell, Names DEF LoggedOut, Unlocked
<1> QED
  BY <1>4, UnlockedStep DEF LoggedOut

LEMMA LockResetStep ==
  ASSUME AuthIInv, NEW r \in Request, LockReset(r)
  PROVE  AuthIInv'
<1>0. req[r].pc = "lockReset"
  BY DEF LockReset
<1>1. CASE Answer(r, "refused", req[r].reply) /\ UNCHANGED locks /\ NoFault
  <2>1. Unlocked(r)
    BY <1>0, <1>1, OwnReply, Names
  <2> QED
    BY <1>0, <1>1, <2>1, UnlockedStep DEF LockReset
<1>2. CASE LockExclusive(r) /\ Go(r, "reset") /\ NoFault
  <2>1. Good(r) /\ req'[r].pc = "reset"
    BY <1>0, <1>2, Advanced, Names DEF Advances
  <2> QED
    BY <1>0, <1>2, <2>1, LockStep, Counted DEF LockReset, Good
<1>3. CASE Go(r, "resetUnknown") /\ UNCHANGED locks /\ Fault
  <2>1. Unlocked(r)
    BY <1>0, <1>3, Advanced, Names DEF Advances, Unlocked
  <2> QED
    BY <1>0, <1>3, <2>1, UnlockedStep DEF LockReset
<1> QED
  BY <1>1, <1>2, <1>3 DEF LockReset

LEMMA ResetUnknownStep ==
  ASSUME AuthIInv, NEW r \in Request, ResetUnknown(r)
  PROVE  AuthIInv'
<1>1. Cleared.remember = None
  BY DEF Cleared
<1>2. Unlocked(r)
  BY <1>1, AnswersWell, Names DEF ResetUnknown, Unlocked
<1> QED
  BY <1>2, UnlockedStep DEF ResetUnknown, Drop, Without

LEMMA RefreshStep ==
  ASSUME AuthIInv, NEW r \in Request, Refresh(r)
  PROVE  AuthIInv'
<1> DEFINE s == Session(<<r, "refreshed">>, req[r].session.user, req[r].epoch, r)
<1>0. req[r].pc = "refresh" /\ r \in Selector
  BY Present DEF Refresh
<1>1. req[r].session \in SessionSet
  BY <1>0, Present DEF RequestOK, Knows, RequestSet
<1>2. s \in SessionSet /\ s.selector = r /\ s.epoch = req[r].epoch
  <2>1. <<r, "refreshed">> \in Ids /\ req[r].session.user \in Name /\ req[r].epoch \in Nat
    BY <1>0, <1>1, Present DEF Ids, SessionSet, RequestSet
  <2> QED
    BY <1>0, <2>1 DEF Session, SessionSet
<1>3. req[r].epoch <= epoch /\ (tokens[r] # None => req[r].epoch = epoch)
  BY <1>0, Present DEF RequestOK, EpochsKnown, PendingWrites
<1>4. ASSUME NEW next \in {"dropOld", "forgetReset"}, Go(r, next)
      PROVE  Unlocked(r) /\ req'[r].pc \in Offering
  BY <1>0, <1>4, Advanced, Names DEF Advances, Unlocked
<1>5. (Go(r, "dropOld") \/ Go(r, "forgetReset")) /\ (Put(s) \/ UNCHANGED sessions)
  BY DEF Refresh, Write
<1> QED
  BY <1>0, <1>2, <1>3, <1>4, <1>5, WritesWell DEF Refresh, Write

LEMMA DropOldStep ==
  ASSUME AuthIInv, NEW r \in Request, DropOld(r)
  PROVE  AuthIInv'
<1> DEFINE reply == [session |-> <<r, "refreshed">>, remember |-> <<r, <<r, "new">>>>]
<1>1. reply \in ReplySet /\ reply.remember[1] = r
  BY Present DEF ReplySet, Ids, Remembers, Validators
<1>2. req[r].pc = "dropOld" /\ req[r].handler # "register"
  BY Present DEF DropOld, RequestOK, Knows
<1>3. Unlocked(r)
  BY <1>1, <1>2, AnswersWell, Names DEF DropOld, Unlocked
<1> QED
  BY <1>2, <1>3, UnlockedStep DEF DropOld, Drop, Without

LEMMA ForgetResetStep ==
  ASSUME AuthIInv, NEW r \in Request, ForgetReset(r)
  PROVE  AuthIInv'
<1>1. Unlocked(r)
  BY Advanced, Names DEF Advances, ForgetReset, Unlocked
<1> QED
  BY <1>1, UnlockedStep, Present DEF ForgetReset, DropToken

(* The reset ends every token but its own new one, whose selector no       *)
(* session names yet; sessions that are waiting to be written lose theirs. *)
LEMMA ResetStep ==
  ASSUME AuthIInv, NEW r \in Request, Reset(r)
  PROVE  AuthIInv'
<1>0. /\ req[r].pc = "reset" /\ req[r].session \in SessionSet /\ r \in Selector /\ epoch \in Nat
      /\ locks.exclusive = {r} /\ locks.shared = {}
  BY Present DEF Reset, RequestOK, Knows, RequestSet, AuthIInv, LocksExact
<1>1. CASE UNCHANGED <<epoch, tokens>>
  <2>1. Go(r, "resetUnknown") /\ Fault
    BY <1>0, <1>1 DEF Reset
  <2>2. Good(r) /\ req'[r].pc = "resetUnknown"
    BY <1>0, <2>1, Advanced, Names DEF Advances
  <2>3. \A o \in Request \ {r} : RequestOK(o, req[o])'
    BY <1>0, <1>1, <2>2, OthersKept DEF Reset, Good
  <2>4. RequestOK(r, req[r])'
    <3>1. \A t : Given(t) => Given(t)'
      BY <2>2, GivenKept DEF Good
    <3>2. EpochsKnown(req[r])' /\ Knows(req[r])' /\ OwnAccount(r, req[r])' /\ PendingWrites(r, req[r])'
      BY <1>1, <2>2 DEF Reset, Good, RequestOK, EpochsKnown, Knows, OwnAccount, PendingWrites
    <3>3. SelectorsGiven(r, req[r])'
      BY <2>2, <3>1 DEF Good, RequestOK, SelectorsGiven
    <3> QED
      BY <3>2, <3>3 DEF RequestOK
  <2>5. RequestsOK'
    BY <2>3, <2>4 DEF RequestsOK
  <2>6. TypeOK' /\ Typed'
    BY <1>1, <2>1, <2>2, Counted DEF AuthIInv, TypeOK, Typed, Reset, Unlock, Good, Onward
  <2>7. LocksExact'
    BY <1>0, <2>2 DEF AuthIInv, TypeOK, Typed, LocksExact, Reset, Unlock, Good, Onward
  <2>8. TokensFollowReset' /\ RememberedSessionAlive'
    BY <1>1 DEF AuthIInv, TokensFollowReset, RememberedSessionAlive, Reset
  <2> QED
    BY <2>2, <2>5, <2>6, <2>7, <2>8, OfferedKept, JarKept DEF AuthIInv, Reset, Good
<1>2. CASE epoch' = epoch + 1 /\ tokens' = OnlyToken(r)
  <2>1. \E q \in {[req[r] EXCEPT !.pc = "refresh", !.epoch = epoch + 1], [req[r] EXCEPT !.pc = "resetUnknown"]} :
           Set(r, q)
    BY <1>2 DEF Reset
  <2>2. PICK q \in {[req[r] EXCEPT !.pc = "refresh", !.epoch = epoch + 1],
                    [req[r] EXCEPT !.pc = "resetUnknown"]} : Set(r, q)
    BY <2>1
  <2>3. /\ q \in RequestSet /\ q.pc \in {"refresh", "resetUnknown"}
        /\ q.pc = "refresh" => q.epoch = epoch + 1
    <3>1. epoch + 1 \in Nat /\ "refresh" \in Pcs /\ "resetUnknown" \in Pcs
      BY <1>0, Names
    <3>2. CASE q = [req[r] EXCEPT !.pc = "refresh", !.epoch = epoch + 1]
      <4>1. ASSUME NEW n \in Nat
            PROVE  /\ [req[r] EXCEPT !.pc = "refresh", !.epoch = n] \in RequestSet
                   /\ [req[r] EXCEPT !.pc = "refresh", !.epoch = n].pc = "refresh"
                   /\ [req[r] EXCEPT !.pc = "refresh", !.epoch = n].epoch = n
        <5>1. req[r] \in RequestSet
          BY Present
        <5> QED
          BY <3>1, <5>1 DEF RequestSet
      <4> QED
        BY <3>1, <3>2, <4>1
    <3>3. CASE q = [req[r] EXCEPT !.pc = "resetUnknown"]
      <4>1. req[r] \in RequestSet
        BY Present
      <4>2. ASSUME NEW u \in RequestSet, NEW pc \in Pcs
            PROVE  [u EXCEPT !.pc = pc] \in RequestSet /\ [u EXCEPT !.pc = pc].pc = pc
        BY DEF RequestSet
      <4> QED
        BY <3>1, <3>3, <4>1, <4>2
    <3> QED
      BY <2>2, <3>2, <3>3
  <2>4. Onward(r) /\ req'[r] = q
    BY <1>0, <2>2, <2>3, Present DEF Onward
  <2>5. \A s \in Selector : tokens'[s] = IF s = r THEN Token(req[r].session.user, <<r, "new">>, epoch + 1)
                                                 ELSE None
    BY <1>2 DEF OnlyToken
  <2>6. \A o \in Request \ {r} : RequestOK(o, req[o])'
    BY <1>0, <1>2, <2>4, <2>5, OthersKept DEF Reset
  <2>7. RequestOK(r, req[r])'
    <3>1. \A t : Given(t) => Given(t)'
      BY <2>4, GivenKept
    <3>2. EpochsKnown(req[r])' /\ PendingWrites(r, req[r])'
      <4>1. /\ q.since = req[r].since /\ q.session = req[r].session
            /\ q.epoch = req[r].epoch \/ q.epoch = epoch + 1
        BY <2>2, Present DEF RequestSet
      <4>2. /\ req[r].since \in Nat /\ req[r].epoch \in Nat /\ req[r].session.epoch \in Nat
            /\ req[r].since <= epoch /\ req[r].epoch <= epoch /\ req[r].since <= req[r].session.epoch
        BY <1>0, Present DEF RequestSet, SessionSet, RequestOK, EpochsKnown, Knows
      <4> QED
        BY <1>0, <1>2, <2>3, <2>4, <4>1, <4>2 DEF EpochsKnown, PendingWrites
    <3>3. Knows(req[r])' /\ OwnAccount(r, req[r])'
      <4>1. /\ q.handler = req[r].handler /\ q.session = req[r].session
            /\ req[r].handler \in {"logout", "reset"} /\ req[r].session # None
        BY <1>0, <2>2, Present DEF RequestSet, RequestOK, Knows
      <4> QED
        BY <2>3, <2>4, <4>1 DEF Knows, OwnAccount
    <3>4. SelectorsGiven(r, req[r])'
      <4>1. q.cookies = req[r].cookies /\ q.reply = req[r].reply
        BY <2>2, Present DEF RequestSet
      <4> QED
        BY <2>4, <3>1, <4>1, Present DEF RequestOK, SelectorsGiven
    <3> QED
      BY <3>2, <3>3, <3>4 DEF RequestOK
  <2>8. RequestsOK'
    BY <2>6, <2>7 DEF RequestsOK
  <2>9. Token(req[r].session.user, <<r, "new">>, epoch + 1) \in TokenSet
    <3>1. req[r].session.user \in Name /\ <<r, "new">> \in Validators /\ epoch + 1 \in Nat
      BY <1>0 DEF SessionSet, Validators
    <3> QED
      BY <3>1 DEF Token, TokenSet
  <2>10. Typed'
    <3>1. tokens' \in [Selector -> TokenSet \union {None}]
      BY <1>2, <2>9 DEF OnlyToken
    <3> QED
      BY <2>4, <3>1 DEF AuthIInv, Typed, Onward, Reset
  <2>11. TokensFollowReset'
    BY <1>2, <2>5 DEF TokensFollowReset, Token
  <2>12. RememberedSessionAlive'
    <3>1. ASSUME NEW s \in sessions, s.selector # None, tokens'[s.selector] # None
          PROVE  FALSE
      <4>1. s.selector = r
        BY <2>5, <3>1 DEF AuthIInv, TypeOK
      <4> QED
        BY <1>0, <3>1, <4>1 DEF AuthIInv, SessionsOffered
    <3> QED
      BY <3>1 DEF RememberedSessionAlive, Reset
  <2>13. TypeOK'
    <3>1. \A s \in Selector : tokens'[s] # None => tokens'[s].user \in Name /\ tokens'[s].epoch <= epoch'
      BY <1>0, <1>2, <2>5, <2>9 DEF Token, TokenSet
    <3>2. \A s \in sessions : s.epoch \in Nat /\ s.epoch <= epoch'
      BY <1>0, <1>2, Present DEF SessionSet
    <3>3. locks' \in [shared : SUBSET Request, exclusive : SUBSET Request]
      BY DEF AuthIInv, TypeOK, Reset, Unlock
    <3>4. faults' \in 0..MaxFaults
      BY Counted DEF Reset
    <3> QED
      BY <1>0, <1>2, <3>1, <3>2, <3>3, <3>4 DEF AuthIInv, TypeOK, Reset
  <2>14. LocksExact'
    BY <1>0, <2>3, <2>4 DEF AuthIInv, TypeOK, Typed, LocksExact, Reset, Unlock, Onward
  <2> QED
    BY <2>4, <2>8, <2>10, <2>11, <2>12, <2>13, <2>14, OfferedKept, JarKept DEF AuthIInv, Reset
<1> QED
  BY <1>1, <1>2 DEF Reset

-----------------------------------------------------------------------------
(* The browser, and time *)

LEMMA ReceiveStep ==
  ASSUME AuthIInv, NEW r \in Request, Receive(r)
  PROVE  AuthIInv'
<1>1. req[r].pc = "answer" /\ Good(r) /\ req'[r].pc = "done"
  BY Advanced, Names DEF Advances, Receive
<1>2. CASE UNCHANGED jar
  <2>1. Unlocked(r)
    BY <1>1 DEF Unlocked
  <2> QED
    BY <1>1, <1>2, <2>1, UnlockedStep DEF Receive
<1>3. CASE NoFault /\ jar' = [jar EXCEPT ![req[r].browser] =
                                [session |-> Merge(req[r].reply.session, @.session),
                                 remember |-> Merge(req[r].reply.remember, @.remember)]]
  <2> DEFINE b == req[r].browser
             cookies == [session |-> Merge(req[r].reply.session, jar[b].session),
                         remember |-> Merge(req[r].reply.remember, jar[b].remember)]
  <2>1. b \in Browser /\ req[r].reply \in ReplySet /\ jar[b] \in CookieSet
    BY Present DEF RequestSet, AuthIInv, Typed
  <2>2. cookies \in CookieSet
    BY <2>1 DEF CookieSet, ReplySet, Merge
  <2>3. jar' \in [Browser -> CookieSet] /\ jar' = [jar EXCEPT ![b] = cookies]
    BY <1>3, <2>2 DEF AuthIInv, Typed
  <2>4. \A t : Given(t) => Given(t)'
    BY <1>1, GivenKept DEF Good
  <2>5. Given(r)'
    BY <1>1 DEF Given
  <2>6. \A t : cookies.remember # None /\ t = cookies.remember[1] => Given(t)'
    <3>1. jar[b].remember # None => Given(jar[b].remember[1])
      BY <2>1 DEF AuthIInv, CookiesGiven
    <3>2. req[r].reply.remember # None /\ req[r].reply.remember # "keep" =>
            req[r].reply.remember[1] = r \/ Given(req[r].reply.remember[1])
      BY Present DEF RequestOK, SelectorsGiven
    <3> QED
      BY <2>4, <2>5, <3>1, <3>2 DEF Merge
  <2>7. CookiesGiven'
    <3> HIDE DEF cookies
    <3> QED
      BY <2>1, <2>3, <2>4, <2>6 DEF AuthIInv, Typed, CookiesGiven
  <2>8. \A o \in Request \ {r} : RequestOK(o, req[o])'
    <3>1. epoch' \in Nat /\ epoch <= epoch'
      BY Present DEF Receive
    <3> QED
      BY <1>1, <3>1, OthersKept DEF Receive, Good
  <2>9. RequestOK(r, req[r])'
    <3>1. EpochsKnown(req[r])' /\ Knows(req[r])' /\ OwnAccount(r, req[r])' /\ PendingWrites(r, req[r])'
      BY <1>1 DEF Receive, Good, RequestOK, EpochsKnown, Knows, OwnAccount, PendingWrites
    <3>2. SelectorsGiven(r, req[r])'
      BY <1>1, <2>4 DEF Good, RequestOK, SelectorsGiven
    <3> QED
      BY <3>1, <3>2 DEF RequestOK
  <2>10. RequestsOK'
    BY <2>8, <2>9 DEF RequestsOK
  <2>11. TypeOK' /\ TokensFollowReset' /\ RememberedSessionAlive'
    BY <1>3, Counted DEF AuthIInv, TypeOK, TokensFollowReset, RememberedSessionAlive, Receive
  <2>12. Typed'
    BY <1>1, <2>3 DEF AuthIInv, Typed, Receive, Good, Onward
  <2>13. LocksExact' /\ SessionsOffered'
    BY <1>1, LocksKept, OfferedKept DEF Receive, Good
  <2> QED
    BY <2>7, <2>10, <2>11, <2>12, <2>13 DEF AuthIInv
<1> QED
  BY <1>2, <1>3 DEF Receive

LEMMA ExpireStep ==
  ASSUME AuthIInv, NEW s \in sessions, Expire(s)
  PROVE  AuthIInv'
<1>1. TypeOK'
  BY Counted DEF Expire, AuthIInv, TypeOK
<1>2. Typed' /\ SessionsOffered' /\ RememberedSessionAlive' /\ TokensFollowReset'
  BY DEF Expire, AuthIInv, Typed, SessionsOffered, RememberedSessionAlive, TokensFollowReset
<1>3. RequestsOK'
  BY RequestsStay DEF Expire
<1>4. LocksExact' /\ CookiesGiven'
  BY DEF Expire, AuthIInv, Given, LocksExact, CookiesGiven
<1> QED
  BY <1>1, <1>2, <1>3, <1>4 DEF AuthIInv

LEMMA StutterStep ==
  ASSUME AuthIInv, UNCHANGED vars
  PROVE  AuthIInv'
<1>1. TypeOK' /\ Typed' /\ SessionsOffered' /\ RememberedSessionAlive' /\ TokensFollowReset'
  BY DEF vars, AuthIInv, TypeOK, Typed, SessionsOffered, RememberedSessionAlive, TokensFollowReset
<1>2. RequestsOK'
  BY RequestsStay DEF vars
<1>3. LocksExact' /\ CookiesGiven'
  BY DEF vars, AuthIInv, Given, LocksExact, CookiesGiven
<1> QED
  BY <1>1, <1>2, <1>3 DEF AuthIInv

-----------------------------------------------------------------------------
(* The invariant *)

LEMMA InitGood == Init => AuthIInv
<1> SUFFICES ASSUME Init PROVE AuthIInv
  OBVIOUS
<1>0. First \in Selector /\ Root \in Name
  BY DEF Selector
<1>1. <<First, "new">> \in Validators /\ <<First, "established">> \in Ids
  BY <1>0 DEF Validators, Ids
<1>2. tokens \in [Selector -> TokenSet \union {None}]
  BY <1>0, <1>1 DEF Init, Token, TokenSet
<1>3. sessions \subseteq SessionSet
  BY <1>0, <1>1 DEF Init, Session, SessionSet
<1>4. jar \in [Browser -> CookieSet] /\ CookiesGiven
  BY <1>0, <1>1 DEF Init, CookieSet, Remembers, NoCookies, CookiesGiven, Given
<1>5. Typed
  BY <1>2, <1>3, <1>4, Names DEF Typed, Init
<1>6. TypeOK
  BY <1>0 DEF Init, TypeOK, Token, Session
<1>7. RequestsOK
  <2> SUFFICES ASSUME NEW r \in Request PROVE RequestOK(r, req[r])
    BY DEF RequestsOK
  <2>1. PICK q : q = req[r]
    OBVIOUS
  <2>2. /\ epoch = 0 /\ q.pc = "unsent" /\ q.handler = "plain" /\ q.since = 0 /\ q.epoch = 0
        /\ q.session = None /\ q.cookies.remember = None /\ q.reply.remember = "keep"
    BY <2>1 DEF Init, Unsent, NoCookies, Untouched
  <2>3. EpochsKnown(q) /\ PendingWrites(r, q)
    BY <2>2 DEF EpochsKnown, PendingWrites
  <2>4. Knows(q)
    BY <2>2 DEF Knows
  <2>5. OwnAccount(r, q) /\ SelectorsGiven(r, q)
    BY <2>2 DEF OwnAccount, SelectorsGiven
  <2> QED
    BY <2>1, <2>3, <2>4, <2>5 DEF RequestOK
<1>8. LocksExact /\ SessionsOffered
  <2>1. \A r \in Request : req[r].pc = "unsent"
    BY DEF Init, Unsent
  <2>2. LocksExact
    BY <2>1 DEF Init, LocksExact
  <2>3. \A s \in sessions : s.selector = First
    BY DEF Init, Session
  <2> QED
    BY <2>2, <2>3 DEF SessionsOffered
<1>9. TokensFollowReset /\ RememberedSessionAlive
  BY DEF Init, TokensFollowReset, RememberedSessionAlive, Token, Session
<1> QED
  BY <1>4, <1>5, <1>6, <1>7, <1>8, <1>9 DEF AuthIInv

LEMMA ProgressStep ==
  ASSUME AuthIInv, NEW r \in Request, Progress(r)
  PROVE  AuthIInv'
<1>1. CASE Hook(r)
  BY <1>1, GetSessionStep, CheckEpochStep, DropStaleStep, NotRememberedStep, LockRestoreStep,
     RestoreStep, SetRestoredStep, ForgetRestoredStep DEF Hook
<1>2. CASE SignIn(r)
  BY <1>2, UsernameExistsStep, CreateUserStep, ReadBackUserStep, EstablishStep, SetEstablishedStep,
     LockTokenStep, CreateTokenStep, SetRememberedStep, DropEstablishedStep, UndoTokenStep,
     DropKnownStaleStep, EstablishAgainStep, SetAgainStep DEF SignIn
<1>3. CASE Revoke(r)
  BY <1>3, RevokeSessionStep, RevokeTokenStep, LoggedOutStep, LockResetStep, ResetStep,
     ResetUnknownStep, RefreshStep, DropOldStep, ForgetResetStep DEF Revoke
<1> QED
  BY <1>1, <1>2, <1>3, HandleStep, ReceiveStep DEF Progress

LEMMA InductiveInvariant == Spec => []AuthIInv
<1>1. AuthIInv /\ [Next]_vars => AuthIInv'
  BY ProgressStep, SendStep, ExpireStep, StutterStep DEF Next
<1> QED
  BY <1>1, InitGood, PTL DEF Spec

(* Every reachable state is well typed, lets no session in that is older   *)
(* than a reset its request follows, and gives registrations the accounts  *)
(* they report (auth/service.ts, auth/registration.ts).                    *)
THEOREM AuthSafe == Spec => []AuthInv
<1>1. AuthIInv => AuthInv
  <2>1. AuthIInv => ResetEndsOlder
    BY DEF AuthIInv, RequestsOK, RequestOK, EpochsKnown, Typed, RequestSet, SessionSet, ResetEndsOlder
  <2>2. AuthIInv => RegisteredIsMine
    BY DEF AuthIInv, RequestsOK, RequestOK, OwnAccount, RegisteredIsMine
  <2> QED
    BY <2>1, <2>2 DEF AuthIInv, AuthInv
<1> QED
  BY <1>1, InductiveInvariant, PTL

(* A global reset misses no remember token, whatever login was under way   *)
(* (lockAuthEpoch, createRememberToken, resetAllAuthCredentials).          *)
THEOREM ResetMissesNoToken == Spec => []TokensFollowReset
<1>1. AuthIInv => TokensFollowReset
  BY DEF AuthIInv
<1> QED
  BY <1>1, InductiveInvariant, PTL

(* A living token never points at a session that is refused as stale       *)
(* (#establishWithRemember, restoreRemember, resetAllSessions).            *)
THEOREM RememberedSessionsLive == Spec => []RememberedSessionAlive
<1>1. AuthIInv => RememberedSessionAlive
  BY DEF AuthIInv
<1> QED
  BY <1>1, InductiveInvariant, PTL

(* The lock on the epoch excludes: while a reset holds it no token is      *)
(* written, and one reset holds it at a time (lockAuthEpoch).              *)
ResetAlone ==
  \A r \in locks.exclusive : locks.shared = {} /\ locks.exclusive = {r}

(* The exclusive lock of a reset shuts everyone else out (lockAuthEpoch).   *)
THEOREM ResetsAlone == Spec => []ResetAlone
<1>1. AuthIInv => ResetAlone
  BY DEF AuthIInv, LocksExact, ResetAlone
<1> QED
  BY <1>1, InductiveInvariant, PTL
=============================================================================
