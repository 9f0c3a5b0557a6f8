-------------------------- MODULE MCImageJobLedger --------------------------
(* The ledger under any commands, the life of the web process whose drainer *)
(* issues them, the maintenance report and the shield panel.  None of them  *)
(* reads the variables of another: a behaviour is about one part and leaves *)
(* the others as they were.                                                 *)
EXTENDS ImageJobLedger, Operations, ShieldPanel

Image(path, references, age) ==
  [path |-> path, managed |-> TRUE, owned |-> path # 9, references |-> references, activity |-> 0, age |-> age]

(* Linked images, one of them of another owner; no orphan, one of its own,    *)
(* and one that is linked as well.                                            *)
MCSnapshot ==
  [targetId : {Target}, future : {FALSE}, cutoffAhead : {FALSE},
   linkedComplete : {TRUE}, orphanComplete : {FALSE}, counts : {Blank},
   linked : {{Image(1, 1, 2), Image(2, 1, 3), Image(9, 1, 3)}},
   orphan : {{}, {Image(1, 0, 2)}, {Image(4, 0, 2)}}]

(* Clocks may read any of these times, in any order. *)
MCTime == 0..3

webVars == <<probe, cached, acquisition, asked, main, app, drainer, shutdown, resources, up, down>>
maintenanceVars == <<run, file, lock, faults>>
shieldVars == <<tick, active, rows, clicks, counted, panel, came>>

VARIABLE part

MCInit ==
  /\ Init /\ Web!Init /\ Maintenance!Init /\ Shield!Init
  /\ part \in {"ledger", "web", "maintenance", "shield"}

MCNext ==
  /\ UNCHANGED part
  /\ \/ part = "ledger" /\ Next /\ UNCHANGED <<webVars, maintenanceVars, shieldVars>>
     \/ part = "web" /\ Web!Next /\ UNCHANGED <<vars, maintenanceVars, shieldVars>>
     \/ part = "maintenance" /\ Maintenance!Next /\ UNCHANGED <<vars, webVars, shieldVars>>
     \/ part = "shield" /\ Shield!Next /\ UNCHANGED <<vars, webVars, maintenanceVars>>

MCSpec == MCInit /\ [][MCNext]_<<part, vars, webVars, maintenanceVars, shieldVars>> /\ Web!Fairness
=============================================================================
