--------------------------- MODULE MCAuthSessions ---------------------------
(* The sessions of two browsers, and beside them what the service shows of    *)
(* its traffic.  No part reads the variables of another: a behaviour moves    *)
(* one of them, so the state space is the sum of theirs.                      *)
EXTENDS AuthSessions, Views

historyVars == <<time, links, born, summaries, page, alive, events>>
reportVars == <<bucket, publisher, marks, buckets, unrecorded, report, upsets>>

VARIABLE part

MCInit ==
  /\ Init /\ History!Init /\ Traffic!Init
  /\ part \in {"sessions", "dashboard", "report"}
  /\ part # "dashboard" => links = {}

MCNext ==
  /\ UNCHANGED part
  /\ \/ part = "sessions" /\ Next /\ UNCHANGED <<historyVars, reportVars>>
     \/ part = "dashboard" /\ History!Next /\ UNCHANGED <<vars, reportVars>>
     \/ part = "report" /\ Traffic!Next /\ UNCHANGED <<vars, historyVars>>

MCSpec == MCInit /\ [][MCNext]_<<part, vars, historyVars, reportVars>> /\ Fairness
=============================================================================
