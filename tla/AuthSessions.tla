---------------------------- MODULE AuthSessions ----------------------------
(* Sessions, remember tokens and the authentication epoch: the requests of *)
(* auth/http.ts and auth/service.ts against two stores, sessions in Redis  *)
(* (redis-session-store.ts) and accounts, tokens and the epoch in MariaDB  *)
(* (mysql-store.ts).                                                       *)
(*                                                                         *)
(* A step is one access to a store.  An access may fail, counted by        *)
(* MaxFaults, with or without its effect; an answer may be lost.  Ids,     *)
(* selectors and validators are random, so here they are named after the   *)
(* request that draws them.                                                *)
EXTENDS Naturals

CONSTANTS
  Request, Browser, Name,
  First,            \* the login that happened before
  Admin,            \* its browser
  Root, None,
  MaxFaults

ASSUME AuthConstants ==
  /\ First \notin Request /\ Admin \in Browser /\ Root \in Name
  /\ None \notin Request \union {First, "ok", "accountCreated"}
  /\ MaxFaults \in Nat

VARIABLES
  epoch,     \* auth_epoch
  locks,     \* holders of the row lock on auth_epoch
  users,     \* who created each account
  tokens,    \* remember_tokens, by selector
  sessions,  \* the sessions in Redis
  jar,       \* the cookies of each browser
  req,       \* the requests
  faults

stores == <<epoch, locks, users, tokens, sessions>>
vars == <<epoch, locks, users, tokens, sessions, jar, req, faults>>

Selector == Request \union {First}
Handlers == {"plain", "login", "register", "logout", "reset"}

Session(id, user, at, selector) == [id |-> id, user |-> user, epoch |-> at, selector |-> selector]

(* A token remembers the epoch it was written under, which the code does   *)
(* not store.                                                              *)
Token(user, validator, at) == [user |-> user, validator |-> validator, epoch |-> at]

Untouched == [session |-> "keep", remember |-> "keep"]
Cleared == [session |-> None, remember |-> None]
NoCookies == [session |-> None, remember |-> None]

Unsent ==
  [pc |-> "unsent", browser |-> Admin, handler |-> "plain", since |-> 0, cookies |-> NoCookies,
   session |-> None, established |-> None, user |-> None, epoch |-> 0,
   todo |-> {}, outcome |-> None, reply |-> Untouched]

(* One browser is signed in as an administrator and remembered.            *)
Init ==
  /\ epoch = 0
  /\ locks = [shared |-> {}, exclusive |-> {}]
  /\ users = [n \in Name |-> IF n = Root THEN First ELSE None]
  /\ tokens = [s \in Selector |-> IF s = First THEN Token(Root, <<First, "new">>, 0) ELSE None]
  /\ sessions = {Session(<<First, "established">>, Root, 0, First)}
  /\ jar = [b \in Browser |-> IF b = Admin THEN [session |-> <<First, "established">>,
                                                 remember |-> <<First, <<First, "new">>>>]
                              ELSE NoCookies]
  /\ req = [r \in Request |-> Unsent]
  /\ faults = 0

Fault == faults < MaxFaults /\ faults' = faults + 1
NoFault == UNCHANGED faults

Set(r, q) == req' = [req EXCEPT ![r] = q]
Go(r, pc) == Set(r, [req[r] EXCEPT !.pc = pc])

(* The handler has decided: what is left is to send the answer.            *)
Answer(r, outcome, reply) ==
  Set(r, [req[r] EXCEPT !.pc = "answer", !.outcome = outcome, !.reply = reply])

Without(id) == {s \in sessions : s.id # id}
PutBeside(s) == sessions' = sessions \union {s}
Put(s) == sessions' = Without(s.id) \union {s}

(* A write to Redis, with what follows when it succeeds and when it fails. *)
Write(s, then, else) ==
  \/ Put(s) /\ then /\ NoFault
  \/ (Put(s) \/ UNCHANGED sessions) /\ else /\ Fault

Drop(id) ==
  \/ sessions' = Without(id) /\ NoFault
  \/ UNCHANGED sessions /\ Fault

DropToken(selector) ==
  \/ tokens' = [tokens EXCEPT ![selector] = None] /\ NoFault
  \/ UNCHANGED tokens /\ Fault

(* lockAuthEpoch: LOCK IN SHARE MODE, FOR UPDATE.                          *)
SharedAlways == TRUE
SharedFree == locks.exclusive = {}
ExclusiveFree == locks.exclusive = {} /\ locks.shared = {}

LockShared(r) == SharedFree /\ locks' = [locks EXCEPT !.shared = @ \union {r}]
LockExclusive(r) == ExclusiveFree /\ locks' = [locks EXCEPT !.exclusive = {r}]
UnlockForgotten(r) == UNCHANGED locks
Unlock(r) == locks' = [shared |-> locks.shared \ {r}, exclusive |-> locks.exclusive \ {r}]

-----------------------------------------------------------------------------
(* The authentication hook, which every request passes                     *)

Send(r, b, h) ==
  /\ req[r].pc = "unsent"
  /\ Set(r, [Unsent EXCEPT !.pc = "getSession", !.browser = b, !.handler = h,
                           !.since = epoch, !.cookies = jar[b]])
  /\ UNCHANGED <<stores, jar, faults>>

Unavailable(r) == Answer(r, "unavailable", Untouched)

GetSession(r) ==
  LET found == {s \in sessions : s.id = req[r].cookies.session}
  IN /\ req[r].pc = "getSession"
     /\ \/ found = {} /\ Go(r, "remember") /\ NoFault
        \/ \E s \in found : Set(r, [req[r] EXCEPT !.pc = "checkEpoch", !.established = s]) /\ NoFault
        \/ Unavailable(r) /\ Fault
     /\ UNCHANGED <<stores, jar>>

EpochUnchecked(s) == TRUE
EpochAccepted(s) == s.epoch = epoch

CheckEpoch(r) ==
  LET s == req[r].established
  IN /\ req[r].pc = "checkEpoch"
     /\ \/ EpochAccepted(s) /\ Set(r, [req[r] EXCEPT !.pc = "handle", !.session = s]) /\ NoFault
        \/ ~EpochAccepted(s) /\ Go(r, "dropStale") /\ NoFault
        \/ Unavailable(r) /\ Fault
     /\ UNCHANGED <<stores, jar>>

DropStale(r) ==
  /\ req[r].pc = "dropStale"
  /\ \/ sessions' = Without(req[r].established.id) /\ Go(r, "remember") /\ NoFault
     \/ UNCHANGED sessions /\ Unavailable(r) /\ Fault
  /\ UNCHANGED <<epoch, locks, users, tokens, jar>>

NotRemembered(r) ==
  /\ req[r].pc = "remember" /\ req[r].cookies.remember = None
  /\ Go(r, "handle")
  /\ UNCHANGED <<stores, jar, faults>>

LockRestore(r) ==
  /\ req[r].pc = "remember" /\ req[r].cookies.remember # None
  /\ \/ LockShared(r) /\ Set(r, [req[r] EXCEPT !.pc = "restore", !.epoch = epoch]) /\ NoFault
     \/ UNCHANGED locks /\ Unavailable(r) /\ Fault
  /\ UNCHANGED <<epoch, users, tokens, sessions, jar>>

(* restoreRememberToken: an unknown selector or a wrong validator ends the *)
(* token and clears both cookies; the right one is replaced.               *)
Restore(r) ==
  LET selector == req[r].cookies.remember[1]
      token == tokens[selector]
      valid == token # None /\ token.validator = req[r].cookies.remember[2]
      after == [tokens EXCEPT ![selector] =
                  IF valid THEN Token(token.user, <<r, "rotated">>, req[r].epoch) ELSE None]
  IN /\ req[r].pc = "restore" /\ Unlock(r)
     /\ \/ valid /\ tokens' = after /\ Set(r, [req[r] EXCEPT !.pc = "setRestored", !.user = token.user]) /\ NoFault
        \/ ~valid /\ tokens' = after /\ Set(r, [req[r] EXCEPT !.pc = "handle", !.reply = Cleared]) /\ NoFault
        \/ tokens' \in {tokens, after} /\ Unavailable(r) /\ Fault
     /\ UNCHANGED <<epoch, users, sessions, jar>>

SetRestored(r) ==
  LET q == req[r]
      s == Session(<<r, "restored">>, q.user, q.epoch, q.cookies.remember[1])
      reply == [session |-> s.id, remember |-> <<s.selector, <<r, "rotated">>>>]
  IN /\ q.pc = "setRestored"
     /\ Write(s, Set(r, [q EXCEPT !.pc = "handle", !.session = s, !.reply = reply]), Go(r, "forgetRestored"))
     /\ UNCHANGED <<epoch, locks, users, tokens, jar>>

(* The browser never learns the new validator: the token is removed.       *)
ForgetRestored(r) ==
  /\ req[r].pc = "forgetRestored"
  /\ DropToken(req[r].cookies.remember[1]) /\ Unavailable(r)
  /\ UNCHANGED <<epoch, locks, users, sessions, jar>>

(* What the route asks of the hook: an account for logout and reset.       *)
Handle(r) ==
  LET h == req[r].handler
      next == CASE h = "login" -> "establish" [] h = "register" -> "usernameExists"
                [] h = "logout" -> "logout" [] h = "reset" -> "lockReset" [] OTHER -> "answer"
  IN /\ req[r].pc = "handle"
     /\ \/ h \in {"logout", "reset"} /\ req[r].session = None /\ Answer(r, "unauthenticated", req[r].reply)
        \/ h = "plain" /\ Answer(r, IF req[r].session = None THEN "unauthenticated" ELSE "ok", req[r].reply)
        \/ h \in {"logout", "reset"} /\ req[r].session # None
           /\ Set(r, [req[r] EXCEPT !.pc = next, !.todo = {"session", "token"}])
        \/ h = "login" /\ Set(r, [req[r] EXCEPT !.pc = next, !.user = Root])
        \/ h = "register" /\ \E n \in Name : Set(r, [req[r] EXCEPT !.pc = next, !.user = n])
     /\ UNCHANGED <<stores, jar, faults>>

-----------------------------------------------------------------------------
(* login and registration: #establishWithRemember                          *)

(* A failure after the account is committed is not a failed registration.  *)
Failed(r) ==
  IF req[r].handler = "register" THEN Answer(r, "accountCreated", Cleared)
                                 ELSE Answer(r, "unavailable", req[r].reply)

SignedIn(r, s, remember) ==
  Answer(r, "ok", [session |-> s.id, remember |-> IF remember = None THEN req[r].reply.remember ELSE remember])

UsernameExists(r) ==
  /\ req[r].pc = "usernameExists"
  /\ \/ users[req[r].user] = None /\ Go(r, "createUser") /\ NoFault
     \/ users[req[r].user] # None /\ Answer(r, "taken", req[r].reply) /\ NoFault
     \/ Answer(r, "unavailable", req[r].reply) /\ Fault
  /\ UNCHANGED <<stores, jar>>

(* The unique key decides; a lost acknowledgement is read back.            *)
CreateUser(r) ==
  LET n == req[r].user
      created == users' = [users EXCEPT ![n] = r]
  IN /\ req[r].pc = "createUser"
     /\ \/ users[n] = None /\ created /\ Go(r, "establish") /\ NoFault
        \/ users[n] # None /\ UNCHANGED users /\ Answer(r, "unavailable", req[r].reply) /\ NoFault
        \/ Go(r, "readBackUser") /\ Fault /\ (UNCHANGED users \/ (users[n] = None /\ created))
     /\ UNCHANGED <<epoch, locks, tokens, sessions, jar>>

(* observeCommittedUserCreate: the row must have the salted hash and the   *)
(* time of this very request.                                              *)
SameName(r) == users[req[r].user] # None
SameTuple(r) == users[req[r].user] = r

ReadBackUser(r) ==
  /\ req[r].pc = "readBackUser"
  /\ \/ SameTuple(r) /\ Go(r, "establish") /\ NoFault
     \/ ~SameTuple(r) /\ Answer(r, "unavailable", req[r].reply) /\ NoFault
     \/ Answer(r, "unavailable", req[r].reply) /\ Fault
  /\ UNCHANGED <<stores, jar>>

Establish(r) ==
  /\ req[r].pc = "establish"
  /\ \/ Set(r, [req[r] EXCEPT !.pc = "setEstablished", !.epoch = epoch]) /\ NoFault
     \/ Failed(r) /\ Fault
  /\ UNCHANGED <<stores, jar>>

SetEstablished(r) ==
  LET s == Session(<<r, "established">>, req[r].user, req[r].epoch, None)
  IN /\ req[r].pc = "setEstablished"
     /\ Write(s, Set(r, [req[r] EXCEPT !.pc = "lockToken", !.established = s]), Failed(r))
     /\ UNCHANGED <<epoch, locks, users, tokens, jar>>

(* createRememberToken.  Without a token the password session stands.      *)
LockToken(r) ==
  /\ req[r].pc = "lockToken"
  /\ \/ LockShared(r) /\ Set(r, [req[r] EXCEPT !.pc = "createToken", !.epoch = epoch]) /\ NoFault
     \/ UNCHANGED locks /\ SignedIn(r, req[r].established, None) /\ Fault
  /\ UNCHANGED <<epoch, users, tokens, sessions, jar>>

CreateToken(r) ==
  LET after == [tokens EXCEPT ![r] = Token(req[r].user, <<r, "new">>, req[r].epoch)]
  IN /\ req[r].pc = "createToken" /\ Unlock(r)
     /\ \/ tokens' = after /\ Go(r, "setRemembered") /\ NoFault
        \/ tokens' \in {tokens, after} /\ SignedIn(r, req[r].established, None) /\ Fault
     /\ UNCHANGED <<epoch, users, sessions, jar>>

SameEpochAssumed(r) == TRUE
SameEpoch(r) == req[r].epoch = req[r].established.epoch

(* A reset between the session and its token: the session is made anew.    *)
RememberedSession(r) ==
  IF SameEpoch(r) THEN [req[r].established EXCEPT !.selector = r]
  ELSE Session(<<r, "remembered">>, req[r].user, req[r].epoch, r)

SetRemembered(r) ==
  LET s == RememberedSession(r)
      remembered == SignedIn(r, s, <<r, <<r, "new">>>>)
  IN /\ req[r].pc = "setRemembered"
     /\ Write(s, IF SameEpoch(r) THEN remembered ELSE Go(r, "dropEstablished"), Go(r, "undoToken"))
     /\ UNCHANGED <<epoch, locks, users, tokens, jar>>

DropEstablished(r) ==
  /\ req[r].pc = "dropEstablished"
  /\ Drop(req[r].established.id) /\ SignedIn(r, RememberedSession(r), <<r, <<r, "new">>>>)
  /\ UNCHANGED <<epoch, locks, users, tokens, jar>>

UndoToken(r) ==
  /\ req[r].pc = "undoToken"
  /\ DropToken(r)
  /\ IF SameEpoch(r) THEN SignedIn(r, req[r].established, None) ELSE Go(r, "dropKnownStale")
  /\ UNCHANGED <<epoch, locks, users, sessions, jar>>

DropKnownStale(r) ==
  /\ req[r].pc = "dropKnownStale"
  /\ Drop(req[r].established.id) /\ Go(r, "establishAgain")
  /\ UNCHANGED <<epoch, locks, users, tokens, jar>>

EstablishAgain(r) ==
  /\ req[r].pc = "establishAgain"
  /\ \/ Set(r, [req[r] EXCEPT !.pc = "setAgain", !.epoch = epoch]) /\ NoFault
     \/ Failed(r) /\ Fault
  /\ UNCHANGED <<stores, jar>>

SetAgain(r) ==
  LET s == Session(<<r, "again">>, req[r].user, req[r].epoch, None)
  IN /\ req[r].pc = "setAgain"
     /\ Write(s, SignedIn(r, s, None), Failed(r))
     /\ UNCHANGED <<epoch, locks, users, tokens, jar>>

-----------------------------------------------------------------------------
(* logout and resetAllSessions                                             *)

(* Both revocations are tried; the cookies are cleared whatever comes.     *)
RevokeSession(r) ==
  /\ req[r].pc = "logout" /\ "session" \in req[r].todo
  /\ Drop(req[r].session.id)
  /\ Set(r, [req[r] EXCEPT !.todo = @ \ {"session"}, !.outcome = IF faults' = faults THEN @ ELSE "incomplete"])
  /\ UNCHANGED <<epoch, locks, users, tokens, jar>>

RevokeToken(r) ==
  /\ req[r].pc = "logout" /\ "token" \in req[r].todo
  /\ IF req[r].session.selector = None THEN UNCHANGED tokens /\ NoFault
                                       ELSE DropToken(req[r].session.selector)
  /\ Set(r, [req[r] EXCEPT !.todo = @ \ {"token"}, !.outcome = IF faults' = faults THEN @ ELSE "incomplete"])
  /\ UNCHANGED <<epoch, locks, users, sessions, jar>>

LoggedOut(r) ==
  /\ req[r].pc = "logout" /\ req[r].todo = {}
  /\ Answer(r, IF req[r].outcome = None THEN "ok" ELSE req[r].outcome, Cleared)
  /\ UNCHANGED <<stores, jar, faults>>

LockReset(r) ==
  /\ req[r].pc = "lockReset"
  /\ \/ req[r].session.user # Root /\ UNCHANGED locks /\ Answer(r, "refused", req[r].reply) /\ NoFault
     \/ req[r].session.user = Root /\ LockExclusive(r) /\ Go(r, "reset") /\ NoFault
     \/ req[r].session.user = Root /\ UNCHANGED locks /\ Go(r, "resetUnknown") /\ Fault
  /\ UNCHANGED <<epoch, users, tokens, sessions, jar>>

OnlyToken(r) == [s \in Selector |-> IF s = r THEN Token(req[r].session.user, <<r, "new">>, epoch + 1) ELSE None]

(* resetAllAuthCredentials: the next epoch, and one token.                 *)
Reset(r) ==
  LET done == epoch' = epoch + 1 /\ tokens' = OnlyToken(r)
  IN /\ req[r].pc = "reset" /\ Unlock(r)
     /\ \/ done /\ Set(r, [req[r] EXCEPT !.pc = "refresh", !.epoch = epoch']) /\ NoFault
        \/ Go(r, "resetUnknown") /\ Fault /\ (done \/ UNCHANGED <<epoch, tokens>>)
     /\ UNCHANGED <<users, sessions, jar>>

(* GlobalSessionResetError clears both cookies.                            *)
ResetUnknown(r) ==
  /\ req[r].pc = "resetUnknown"
  /\ Drop(req[r].session.id) /\ Answer(r, "unavailable", Cleared)
  /\ UNCHANGED <<epoch, locks, users, tokens, jar>>

Refresh(r) ==
  LET s == Session(<<r, "refreshed">>, req[r].session.user, req[r].epoch, r)
  IN /\ req[r].pc = "refresh"
     /\ Write(s, Go(r, "dropOld"), Go(r, "forgetReset"))
     /\ UNCHANGED <<epoch, locks, users, tokens, jar>>

DropOld(r) ==
  /\ req[r].pc = "dropOld"
  /\ Drop(req[r].session.id)
  /\ Answer(r, "ok", [session |-> <<r, "refreshed">>, remember |-> <<r, <<r, "new">>>>])
  /\ UNCHANGED <<epoch, locks, users, tokens, jar>>

ForgetReset(r) ==
  /\ req[r].pc = "forgetReset"
  /\ DropToken(r) /\ Go(r, "resetUnknown")
  /\ UNCHANGED <<epoch, locks, users, sessions, jar>>

-----------------------------------------------------------------------------
Merge(new, old) == IF new = "keep" THEN old ELSE new

Receive(r) ==
  LET b == req[r].browser
      reply == req[r].reply
  IN /\ req[r].pc = "answer" /\ Go(r, "done")
     /\ \/ /\ jar' = [jar EXCEPT ![b] = [session |-> Merge(reply.session, @.session),
                                         remember |-> Merge(reply.remember, @.remember)]]
           /\ NoFault
        \/ UNCHANGED jar /\ Fault
     /\ UNCHANGED stores

(* A session outlives its time to live, or a browser its session cookie.   *)
Expire(s) ==
  /\ sessions' = sessions \ {s} /\ Fault
  /\ UNCHANGED <<epoch, locks, users, tokens, jar, req>>

Hook(r) ==
  \/ GetSession(r) \/ CheckEpoch(r) \/ DropStale(r) \/ NotRemembered(r)
  \/ LockRestore(r) \/ Restore(r) \/ SetRestored(r) \/ ForgetRestored(r)

SignIn(r) ==
  \/ UsernameExists(r) \/ CreateUser(r) \/ ReadBackUser(r)
  \/ Establish(r) \/ SetEstablished(r) \/ LockToken(r) \/ CreateToken(r) \/ SetRemembered(r)
  \/ DropEstablished(r) \/ UndoToken(r) \/ DropKnownStale(r) \/ EstablishAgain(r) \/ SetAgain(r)

Revoke(r) ==
  \/ RevokeSession(r) \/ RevokeToken(r) \/ LoggedOut(r)
  \/ LockReset(r) \/ Reset(r) \/ ResetUnknown(r) \/ Refresh(r) \/ DropOld(r) \/ ForgetReset(r)

Progress(r) == Hook(r) \/ Handle(r) \/ SignIn(r) \/ Revoke(r) \/ Receive(r)

Next ==
  \/ \E r \in Request : Progress(r) \/ \E b \in Browser, h \in Handlers : Send(r, b, h)
  \/ \E s \in sessions : Expire(s)

(* A request in the server runs on, and waits for a lock that is free.     *)
Fairness == \A r \in Request : WF_vars(Progress(r))

Spec == Init /\ [][Next]_vars /\ Fairness

-----------------------------------------------------------------------------
(* Properties                                                              *)

TypeOK ==
  /\ epoch \in Nat
  /\ locks \in [shared : SUBSET Request, exclusive : SUBSET Request]
  /\ users \in [Name -> Request \union {First, None}]
  /\ \A s \in Selector : tokens[s] # None => tokens[s].user \in Name /\ tokens[s].epoch <= epoch
  /\ \A s \in sessions : s.user \in Name /\ s.epoch <= epoch /\ s.selector \in Selector \union {None}
  /\ \A s, t \in sessions : s.id = t.id => s = t
  /\ faults \in 0..MaxFaults

(* No request sent after a global reset has committed is let in with a     *)
(* credential from before it (getSession, restoreRemember).                *)
ResetEndsOlder == \A r \in Request : req[r].session # None => req[r].session.epoch >= req[r].since

(* Every token was written under the present epoch: a reset misses none,   *)
(* not even one whose login checked its password before (lockAuthEpoch).   *)
TokensFollowReset == \A s \in Selector : tokens[s] # None => tokens[s].epoch = epoch

(* A session whose token is alive is alive itself: a token never points at *)
(* a stale session (#establishWithRemember).                               *)
RememberedSessionAlive ==
  \A s \in sessions : s.selector # None /\ tokens[s.selector] # None => s.epoch = epoch

(* A registration that ends in an account ends in its own account          *)
(* (observeCommittedUserCreate).                                           *)
RegisteredIsMine ==
  \A r \in Request : req[r].handler = "register" /\ req[r].outcome \in {"ok", "accountCreated"}
                       => users[req[r].user] = r

(* Every request is answered: no path leaves the lock on the epoch behind. *)
Answered == \A r \in Request : (req[r].pc = "getSession") ~> (req[r].pc = "done")

(* What every reachable state has: well-typed variables, no session older  *)
(* than the last reset that is still accepted, and accounts that belong to *)
(* the registrations that report them (auth/service.ts, registration.ts).  *)
AuthInv == TypeOK /\ ResetEndsOlder /\ RegisteredIsMine
=============================================================================
