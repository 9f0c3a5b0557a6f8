------------------------ MODULE ProductionActivation ------------------------
(* The fail-closed start of production: receipts of evidence are captured,    *)
(* the readiness document is bound to a deployment, the generator issues an   *)
(* activation (tools/generate-production-activation.mjs), and each start of   *)
(* the web process or the image worker checks it again, with the files and    *)
(* the evidence found then (config/production-startup.ts).                    *)
(*                                                                            *)
(* Digests are what they identify: an artifact, a site (one target with its   *)
(* hosts and its runtime configuration), a topology (Node and PM2 binaries,   *)
(* roots and process knobs).  Formats, paths and permissions are left out.    *)
EXTENDS Naturals, FiniteSets

CONSTANTS
  Artifact, Site, Topology, None,
  MaxAge,          \* receiptPolicy.maxAgeHours
  MaxLifetime,     \* of an activation, for each stage
  Horizon,         \* bound: the clock stops
  MaxReceipts,     \* bound
  MaxChanges,      \* bound: what the operator does to files, bindings and stages
  MaxActivations   \* bound

VARIABLES
  now,
  machine,         \* the release files and the binaries installed
  env,             \* the rendered environment: stage, site, activation
  evidence,        \* receipts under evidence/readiness
  bindings,        \* the readiness document: what each stage is bound to
  issued,          \* activations under private/activation
  process,         \* a production process, if one runs
  changes          \* what the operator did so far

vars == <<now, machine, env, evidence, bindings, issued, process, changes>>

Stage == {"pilot", "release"}

(* The twelve gates, by what is asked of them: nine before a pilot, two more  *)
(* shown by a pilot before the release, two of the release itself.            *)
Gate == {"contract", "proof", "cutover"}

EvidenceStage(gate) == IF gate = "cutover" THEN "release" ELSE "pilot"

RequiredGates(stage) == IF stage = "pilot" THEN {"contract"} ELSE Gate

Checks(gate) == IF gate = "contract" THEN {"database", "runtime"} ELSE {"observed"}

Down == [stage |-> None, site |-> None, artifact |-> None, topology |-> None, activation |-> None]

Init ==
  /\ now = 0
  /\ machine = [artifact |-> CHOOSE a \in Artifact : TRUE, topology |-> CHOOSE t \in Topology : TRUE]
  /\ env = [stage |-> "pilot", site |-> CHOOSE s \in Site : TRUE, activation |-> None]
  /\ evidence = {} /\ issued = {}
  /\ bindings = [stage \in Stage |-> None]
  /\ process = Down /\ changes = 0

-----------------------------------------------------------------------------
(* Readiness, as a start reads it                                             *)

SubjectOf(receipt) == [site |-> receipt.site, artifact |-> receipt.artifact]

Fresh(receipt, asOf) ==
  /\ receipt.captured <= asOf /\ receipt.captured + MaxAge >= asOf
  /\ receipt.expires > asOf /\ receipt.expires <= receipt.captured + MaxAge

RelatesToPilot(receipt, document) ==
  receipt.gate = "cutover" =>
    document.bindings["pilot"] # None /\ receipt.related = document.bindings["pilot"].site

Matching(gate, document, asOf) ==
  {r \in document.receipts :
     /\ r.gate = gate /\ r.stage = EvidenceStage(gate)
     /\ SubjectOf(r) = document.bindings[r.stage]
     /\ RelatesToPilot(r, document)
     /\ Fresh(r, asOf)}

ObservedChecks(gate, document, asOf) == UNION {r.checks : r \in Matching(gate, document, asOf)}

(* validateReadinessBinding: one gate.                                        *)
Verified(gate, document, asOf) ==
  /\ document.bindings[EvidenceStage(gate)] # None
  /\ Checks(gate) \subseteq ObservedChecks(gate, document, asOf)

OneArtifact(stage, document) ==
  stage = "release" /\ document.bindings["pilot"] # None =>
    document.bindings["pilot"].artifact = document.bindings["release"].artifact

BindsExactly(stage, document, subject) ==
  document.bindings[stage] = subject /\ OneArtifact(stage, document)

ReadinessHolds(stage, document, subject, asOf) ==
  /\ BindsExactly(stage, document, subject)
  /\ \A gate \in RequiredGates(stage) : Verified(gate, document, asOf)

-----------------------------------------------------------------------------
(* assertProductionStartupAllowed                                             *)

(* The subject of the activation is this runtime, and its time has not run    *)
(* out.                                                                       *)
ForThisRuntime(activation) ==
  /\ activation.stage = env.stage /\ activation.site = env.site
  /\ activation.topology = machine.topology
  /\ activation.issued <= now /\ activation.expires > now
  /\ activation.expires - activation.issued \in 1..MaxLifetime[activation.stage]

FilesUnchecked(activation) == activation.document.receipts \subseteq evidence

(* Every file of the manifest, and every receipt the document names, is there *)
(* with its digest.                                                           *)
FilesIntact(activation) ==
  activation.artifact = machine.artifact /\ activation.document.receipts \subseteq evidence

EvidenceAsOfNow(activation) == now

(* Freshness authorizes the issuance, not each reboot.                        *)
EvidenceAsOf(activation) == activation.issued

StartupAllowed(activation) ==
  /\ ForThisRuntime(activation) /\ FilesIntact(activation)
  /\ ReadinessHolds(activation.stage, activation.document,
       [site |-> env.site, artifact |-> activation.artifact], EvidenceAsOf(activation))

-----------------------------------------------------------------------------
(* The generator                                                              *)

Document == [bindings |-> bindings, receipts |-> evidence]

(* verifyProductionReadiness: what the separate verifier still misses.        *)
Blockers(stage, document) ==
  {s \in {EvidenceStage(g) : g \in RequiredGates(stage)} : document.bindings[s] = None}
    \union {gate \in RequiredGates(stage) : ~Verified(gate, document, now)}
    \union (IF /\ stage = "release" /\ None \notin {document.bindings[s] : s \in Stage}
               /\ document.bindings["pilot"].artifact # document.bindings["release"].artifact
            THEN {"one artifact"} ELSE {})

Subject == [site |-> env.site, artifact |-> machine.artifact]

(* validateExactReadinessBinding, then the verifier.                          *)
Green == BindsExactly(env.stage, Document, Subject) /\ Blockers(env.stage, Document) = {}

Activation(lifetime) ==
  [stage |-> env.stage, site |-> env.site, artifact |-> machine.artifact, topology |-> machine.topology,
   issued |-> now, expires |-> now + lifetime, document |-> Document]

(* createProductionActivation ends with the start's own check.                *)
Issue ==
  /\ Green /\ Cardinality(issued) < MaxActivations
  /\ \E lifetime \in 1..MaxLifetime[env.stage] :
       /\ StartupAllowed(Activation(lifetime))
       /\ issued' = issued \union {Activation(lifetime)}
  /\ UNCHANGED <<now, machine, env, evidence, bindings, process, changes>>

-----------------------------------------------------------------------------
(* A process: config, then the activation, before anything else               *)

Running == [stage |-> env.stage, site |-> env.site, artifact |-> machine.artifact,
            topology |-> machine.topology, activation |-> env.activation]

(* PM2 starts or restarts it: it runs, or ends at once.                       *)
Start ==
  /\ process = Down
  /\ env.activation # None /\ StartupAllowed(env.activation)
  /\ process' = Running
  /\ UNCHANGED <<now, machine, env, evidence, bindings, issued, changes>>

(* A crash, a reboot or a stop.  Expiry alone never ends it.                  *)
End ==
  /\ process # Down
  /\ process' = Down
  /\ UNCHANGED <<now, machine, env, evidence, bindings, issued, changes>>

-----------------------------------------------------------------------------
(* The operator                                                               *)

(* An operator's step; the bound counts them.                                 *)
Operate == changes < MaxChanges /\ changes' = changes + 1

(* Checks of a gate that is still a blocker are run against what is installed *)
(* and bound.                                                                 *)
Capture ==
  /\ Cardinality(evidence) < MaxReceipts /\ bindings[env.stage] = Subject
  /\ \E gate \in Gate, pilot \in Site : \E checks \in SUBSET Checks(gate) :
       /\ EvidenceStage(gate) = env.stage /\ ~Verified(gate, Document, now)
       /\ checks # {} /\ (gate # "cutover" => pilot = env.site)
       /\ evidence' = evidence \union
            {[gate |-> gate, stage |-> env.stage, site |-> env.site, artifact |-> machine.artifact,
              related |-> pilot, checks |-> checks, captured |-> now, expires |-> now + MaxAge]}
  /\ UNCHANGED <<now, machine, env, bindings, issued, process, changes>>

(* A receipt must not be deleted while an activation needs it, but may be.    *)
Prune ==
  /\ Operate
  /\ \E a \in issued : \E r \in evidence \intersect a.document.receipts : evidence' = evidence \ {r}
  /\ UNCHANGED <<now, machine, env, bindings, issued, process>>

Bind ==
  /\ Operate
  /\ bindings[env.stage] # Subject /\ bindings' = [bindings EXCEPT ![env.stage] = Subject]
  /\ UNCHANGED <<now, machine, env, evidence, issued, process>>

Deploy ==
  /\ Operate
  /\ \E a \in Artifact, t \in Topology : machine' = [artifact |-> a, topology |-> t] /\ machine' # machine
  /\ UNCHANGED <<now, env, evidence, bindings, issued, process>>

(* The environment file of another stage or site.                             *)
Render ==
  /\ Operate
  /\ \E stage \in Stage, site \in Site :
       env' = [env EXCEPT !.stage = stage, !.site = site] /\ env' # env
  /\ UNCHANGED <<now, machine, evidence, bindings, issued, process>>

(* The printed activation is copied into the environment file, before a       *)
(* restart or, in a renewal, while a process runs.                            *)
Adopt ==
  /\ \E activation \in issued : env' = [env EXCEPT !.activation = activation]
  /\ UNCHANGED <<now, machine, evidence, bindings, issued, process, changes>>

Tick ==
  /\ now < Horizon /\ now' = now + 1
  /\ UNCHANGED <<machine, env, evidence, bindings, issued, process, changes>>

Next == Issue \/ Start \/ End \/ Capture \/ Prune \/ Bind \/ Deploy \/ Render \/ Adopt \/ Tick

Spec == Init /\ [][Next]_vars

-----------------------------------------------------------------------------
(* What a production process runs was itself shown fit when its activation    *)
(* was issued: every required check, on this very artifact, on this site or,  *)
(* for what a pilot has to show before a release, on one pilot site, which is *)
(* the one the cutover was rehearsed from (production-startup.ts:353-541,     *)
(* deploy/cloudways/README.md:181-183).                                       *)
ShownFit(receipt, pilot) ==
  /\ receipt.artifact = process.artifact
  /\ receipt.site = IF receipt.stage = process.stage THEN process.site ELSE pilot
  /\ receipt.gate = "cutover" => receipt.related = pilot
  /\ receipt.captured + MaxAge >= process.activation.issued

StartedOnEvidence ==
  process # Down =>
    \E pilot \in Site : \A gate \in RequiredGates(process.stage) : \A check \in Checks(gate) :
      \E r \in process.activation.document.receipts :
        /\ r.gate = gate /\ r.stage = EvidenceStage(gate) /\ check \in r.checks
        /\ ShownFit(r, pilot)

(* A process that ran comes back after a crash or a reboot until its          *)
(* activation expires, if nothing it is bound to changed: receipts that have  *)
(* gone stale since do not stop it (production-startup.ts:422-424).           *)
Unchanged ==
  /\ Running = process
  /\ process.activation.document.receipts \subseteq evidence
  /\ now < process.activation.expires

Resurrects == process # Down /\ Unchanged => StartupAllowed(env.activation)

(* What the verifier calls green, the start accepts: their two copies of the  *)
(* rules agree (verify-production-readiness.mjs:81-137).                      *)
GreenIsAccepted == Green => \A n \in 1..MaxLifetime[env.stage] : StartupAllowed(Activation(n))

ActivationHolds == Resurrects /\ GreenIsAccepted
=============================================================================
