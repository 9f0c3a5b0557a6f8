---------------------------- MODULE SettingsCache ----------------------------
(* The diversion settings of one domain: administrators save them             *)
(* (admin/service.ts, mysql-control-plane-store.ts) while visits read them    *)
(* through the cache (infrastructure/current-decision-provider.ts).           *)
(*                                                                            *)
(* A section is what one transaction saves; its value is the number of the    *)
(* save it stems from.  A step is one access to a store; it may fail, with or *)
(* without its effect, which MaxFaults counts.  Time is what is left of a     *)
(* cached entry, and what has passed since a row was read or saved.           *)
EXTENDS Integers, FiniteSets

CONSTANTS
  None,
  Admin,
  Visit,
  Ttl,          \* ticks a cached setting lives (settingsTtlSeconds)
  Delay,        \* ticks one command may take
  MaxSaves,
  MaxFaults

(* The keys of a section are read together, "enabled" before all others.      *)
Section == {"skim", "geo"}
Cached == [skim |-> {"enabled", "destination", "percent"}, geo |-> {"geo"}]
Key == Cached["skim"] \union Cached["geo"]
SectionOf(k) == IF k = "geo" THEN "geo" ELSE "skim"

Queries == {{"enabled"}, {"destination", "percent"}, {"geo"}}

VARIABLES
  stored,    \* per section, the save in force, and the time since
  cache,     \* per key, the save its value stems from, and what is left
  admin,     \* the request of each administrator
  reading,   \* per visit and key, how far the visit got with it
  settled,   \* the keys no save since was left unannounced
  saves, used

vars == <<stored, cache, admin, reading, settled, saves, used>>

Longest == Delay + Ttl + 1

Uncached == [value |-> None, left |-> 0]
NoRequest == [pc |-> "idle", section |-> None]
Unread == [pc |-> "idle", value |-> None, age |-> 0]

(* A new domain: nothing was saved, so nothing diverts.                       *)
Init ==
  /\ stored = [s \in Section |-> [value |-> 0, since |-> Longest]]
  /\ cache = [k \in Key |-> Uncached]
  /\ admin = [a \in Admin |-> NoRequest]
  /\ reading = [v \in Visit |-> [k \in Key |-> Unread]]
  /\ settled = Key
  /\ saves = 0 /\ used = 0

Fault == used < MaxFaults /\ used' = used + 1
NoFault == UNCHANGED used

-----------------------------------------------------------------------------
(* saveSkim and saveGeo                                                       *)

Submit(a, s) ==
  /\ admin[a].pc = "idle" /\ saves < MaxSaves
  /\ admin' = [admin EXCEPT ![a] = [pc |-> "save", section |-> s]]
  /\ UNCHANGED <<stored, cache, reading, settled, saves, used>>

(* The transaction; when its acknowledgement is lost it may have committed,   *)
(* and the request ends without announcing it.                                *)
Save(a) ==
  LET s == admin[a].section
      to(pc) == admin' = [admin EXCEPT ![a] = IF pc = "idle" THEN NoRequest ELSE [@ EXCEPT !.pc = pc]]
      committed ==
        /\ stored' = [stored EXCEPT ![s] = [value |-> saves + 1, since |-> 0]]
        /\ saves' = saves + 1
        /\ settled' = settled \ Cached[s]
  IN /\ admin[a].pc = "save" /\ saves < MaxSaves
     /\ \/ committed /\ to("announce") /\ NoFault
        \/ committed /\ to("idle") /\ Fault
        \/ to("idle") /\ Fault /\ UNCHANGED <<stored, saves, settled>>
     /\ UNCHANGED <<cache, reading>>

(* A value read before the save may be on its way to the cache.               *)
Underway(k) ==
  \E v \in Visit : reading[v][k].pc = "fill" /\ reading[v][k].value # stored[SectionOf(k)].value

DropAllButPercent(s) == Cached[s] \ {"percent"}

Dropped(s) == Cached[s]

(* #bestEffortDelete: one command for all keys of the section.                *)
Announce(a) ==
  LET s == admin[a].section
      dropped == cache' = [k \in Key |-> IF k \in Dropped(s) THEN Uncached ELSE cache[k]]
  IN /\ admin[a].pc = "announce"
     /\ admin' = [admin EXCEPT ![a] = NoRequest]
     /\ \/ dropped /\ settled' = settled \union {k \in Cached[s] : ~Underway(k)} /\ NoFault
        \/ (dropped \/ UNCHANGED cache) /\ UNCHANGED settled /\ Fault
     /\ UNCHANGED <<stored, reading, saves>>

-----------------------------------------------------------------------------
(* getBaseSettings, then getDiversionContext for a domain that diverts        *)

Read(v, k, x) == reading' = [reading EXCEPT ![v][k] = x]
Leave(v) == reading' = [reading EXCEPT ![v] = [k \in Key |-> Unread]]

Asked == [Unread EXCEPT !.pc = "get"]
Had == [Unread EXCEPT !.pc = "had"]

Arrive(v) ==
  /\ \A k \in Key : reading[v][k] = Unread
  /\ Read(v, "enabled", Asked)
  /\ UNCHANGED <<stored, cache, admin, settled, saves, used>>

Get(v, k) ==
  /\ reading[v][k].pc = "get"
  /\ \/ cache[k] # Uncached /\ Read(v, k, Had) /\ NoFault
     \/ cache[k] = Uncached /\ Read(v, k, [Unread EXCEPT !.pc = "miss"]) /\ NoFault
     \/ Read(v, k, [Unread EXCEPT !.pc = "miss"]) /\ Fault
  /\ UNCHANGED <<stored, cache, admin, settled, saves>>

(* One statement reads all that was missed.  Without the database the visit   *)
(* is sent to the author's link.                                              *)
Query(v, q) ==
  LET missed == {k \in q : reading[v][k].pc = "miss"}
      filling(k) == [pc |-> "fill", value |-> stored[SectionOf(k)].value, age |-> 0]
  IN /\ missed # {} /\ \A k \in q : reading[v][k].pc \in {"miss", "had"}
     /\ \/ /\ reading' = [reading EXCEPT ![v] = [k \in Key |-> IF k \in missed THEN filling(k) ELSE @[k]]]
           /\ NoFault
        \/ Leave(v) /\ Fault
     /\ UNCHANGED <<stored, cache, admin, settled, saves>>

Fill(v, k) ==
  LET value == reading[v][k].value
      filled == cache' = [cache EXCEPT ![k] = [value |-> value, left |-> Ttl]]
  IN /\ reading[v][k].pc = "fill"
     /\ Read(v, k, Had)
     /\ \/ filled /\ NoFault
        \/ (filled \/ UNCHANGED cache) /\ Fault
     /\ UNCHANGED <<stored, admin, settled, saves>>

(* Any save may have switched the diversion on or off, and a domain that is   *)
(* debugged reads on in any case.                                             *)
Proceed(v) ==
  /\ reading[v]["enabled"].pc = "had" /\ reading[v]["geo"] = Unread
  /\ \/ Leave(v)
     \/ reading' = [reading EXCEPT ![v] = [k \in Key |-> IF k = "enabled" THEN @[k] ELSE Asked]]
  /\ UNCHANGED <<stored, cache, admin, settled, saves, used>>

Decide(v) ==
  /\ \A k \in Key : reading[v][k].pc = "had"
  /\ Leave(v)
  /\ UNCHANGED <<stored, cache, admin, settled, saves, used>>

-----------------------------------------------------------------------------
Older(entry) == IF entry.left > 1 THEN [entry EXCEPT !.left = @ - 1] ELSE Uncached

Tick ==
  /\ \A v \in Visit, k \in Key : reading[v][k].pc = "fill" => reading[v][k].age < Delay
  /\ cache' = [k \in Key |-> IF cache[k] = Uncached THEN Uncached ELSE Older(cache[k])]
  /\ stored' = [s \in Section |->
       [stored[s] EXCEPT !.since = IF @ < Longest THEN @ + 1 ELSE @]]
  /\ reading' = [v \in Visit |-> [k \in Key |->
       IF reading[v][k].pc = "fill" THEN [reading[v][k] EXCEPT !.age = @ + 1] ELSE reading[v][k]]]
  /\ UNCHANGED <<admin, settled, saves, used>>

Next ==
  \/ \E a \in Admin : (\E s \in Section : Submit(a, s)) \/ Save(a) \/ Announce(a)
  \/ \E v \in Visit :
       \/ Arrive(v) \/ Proceed(v) \/ Decide(v)
       \/ \E k \in Key : Get(v, k) \/ Fill(v, k)
       \/ \E q \in Queries : Query(v, q)
  \/ Tick

Spec == Init /\ [][Next]_vars

-----------------------------------------------------------------------------
TypeOK ==
  /\ stored \in [Section -> [value : 0..MaxSaves, since : 0..Longest]]
  /\ cache \in [Key -> [value : (0..MaxSaves) \union {None}, left : 0..Ttl]]
  /\ admin \in [Admin -> [pc : {"idle", "save", "announce"}, section : Section \union {None}]]
  /\ reading \in [Visit -> [Key ->
       [pc : {"idle", "get", "miss", "fill", "had"}, value : (0..MaxSaves) \union {None}, age : 0..Delay]]]
  /\ settled \subseteq Key /\ saves \in 0..MaxSaves /\ used \in 0..MaxFaults

Outdated(k) == cache[k] # Uncached /\ cache[k].value # stored[SectionOf(k)].value

(* A setting replaced longer ago than a cached entry and the command that     *)
(* wrote it last decides no visit, whatever became of the announcement.       *)
SettlesInTime == \A k \in Key : Outdated(k) => stored[SectionOf(k)].since <= Delay + Ttl

(* Once a save is announced, with no older value on its way, visits go by it, *)
(* until the next save: no key of the section is forgotten.                   *)
AnnouncedIsRead == \A k \in settled : ~Outdated(k)

(* Both, over entries of the declared types (admin/service.ts:112-140,         *)
(* current-decision-provider.ts:174-249).                                     *)
SettingsInv == TypeOK /\ SettlesInTime /\ AnnouncedIsRead
=============================================================================
