----------------------------- MODULE Databases -----------------------------
(***************************************************************************)
(* DbaasService: create, delete, reset-password, get, plans, and what is   *)
(* attached to a cluster: VPCs, a public address, allowed hosts. A         *)
(* creation looks up the engine, then the plans of that engine, then       *)
(* perhaps a VPC. Deletion and reset read the cluster first, and only go   *)
(* on for the engines that the CLI supports; get reads it in three parts.  *)
(***************************************************************************)
EXTENDS Vpcs

CONSTANTS
    OldClusters,  \* the clusters at first: a function from ids to records
    NewClusters,  \* ids the API gives to new clusters
    Engines,      \* the engines: records [id, type, version]
    PlansOf,      \* PlansOf[e]: the plans of engine e, records [id, name]
    Supported     \* the types of engines that the CLI supports

\* The API gives no id twice.
ASSUME ClustersAssumption ==
    /\ NewClusters \cap DOMAIN OldClusters = {}
    /\ \A c \in DOMAIN OldClusters : {"engine", "password"} \subseteq DOMAIN OldClusters[c]

\* What is not given is no value of an option.
ASSUME OptionsAssumption == None \notin {"no", "auto-renew"}

VARIABLES clusters  \* the clusters of the API

ClustersInit == clusters = OldClusters

Cluster(engine, plan, nets, public, term, password) ==
    [engine |-> engine, plan |-> plan, vpcs |-> nets, public |-> public,
     term |-> term, hosts |-> {}, password |-> password]

-----------------------------------------------------------------------------
(* The password that a creation and a reset need: None if it cannot be     *)
(* read, or is not one.                                                    *)

HasPassword(p) == cmd[p].value # None

\* DBAAS_PASSWORD_READ_FAILED, INVALID_DBAAS_PASSWORD
PasswordUnusable(p) ==
    /\ Begins(p, "db-create") \/ Begins(p, "db-reset")
    /\ ~HasPassword(p)
    /\ Fail(p)

-----------------------------------------------------------------------------
(* create and plans.                                                       *)

\* normalizeDbaasCreateInput
IsClusterOrder(line) ==
    /\ IsBilling(line)
    /\ line.vpc = None => line.subnet = None /\ line.public = None

LooksUpPlans(line) ==
    \/ line.op \in {"db-types", "db-plans"}
    \/ line.op = "db-create" /\ IsClusterOrder(line) /\ line.value # None

ListEngines(p) ==
    /\ pc[p] = "ready" /\ LooksUpPlans(cmd[p])
    /\ Ask(p, "db-engines", Request("GET", "engines", None))

EnginesListed(p) == pc[p] = "db-engines" /\ Has(p, "ok")

TypesShown(p) ==
    /\ EnginesListed(p) /\ cmd[p].op = "db-types"
    /\ Succeed(p, {e \in Value(p) : /\ e.type \in Supported
                                   /\ cmd[p].type \in {None, e.type}})

\* A faulty variant: any version will do.
MatchingTypes(p) ==
    {e \in Value(p) : e.type = cmd[p].type /\ e.type \in Supported}

MatchingEngines(p) ==
    {e \in Value(p) : e.type = cmd[p].type /\ e.type \in Supported
                      /\ e.version = cmd[p].version}

\* DBAAS_VERSION_NOT_FOUND, also if there are several.
EngineUnclear(p) ==
    /\ EnginesListed(p) /\ cmd[p].op # "db-types"
    /\ Cardinality(MatchingEngines(p)) # 1 /\ Fail(p)

ListPlans(p) ==
    /\ EnginesListed(p) /\ cmd[p].op # "db-types"
    /\ Cardinality(MatchingEngines(p)) = 1
    /\ \E e \in MatchingEngines(p) :
         AskWith(p, "db-plans", Request("GET", "plans", e.id), e.id)

PlansListed(p) == pc[p] = "db-plans" /\ Has(p, "ok")

PlansShown(p) ==
    PlansListed(p) /\ cmd[p].op = "db-plans" /\ Succeed(p, Value(p))

MatchingPlans(p) == {t \in Value(p) : t.name = cmd[p].plan}

\* DBAAS_PLAN_NOT_FOUND, DBAAS_PLAN_AMBIGUOUS, DBAAS_PLAN_UNAVAILABLE
PlanUnclear(p) ==
    /\ PlansListed(p) /\ cmd[p].op = "db-create"
    /\ Cardinality(MatchingPlans(p)) # 1 /\ Fail(p)

PlanClear(p) ==
    /\ PlansListed(p) /\ cmd[p].op = "db-create"
    /\ Cardinality(MatchingPlans(p)) = 1

VpcEntry(id, subnet) == [vpc |-> id, subnet |-> subnet]

\* buildCreateRequest
Ordered(line, engine, plan, nets) ==
    Cluster(engine, plan, nets, line.public # "no",
            [committed |-> line.committed, renewal |-> Renewal(line)], line.value)

CreateCluster(p) ==
    /\ PlanClear(p) /\ cmd[p].vpc = None
    /\ \E t \in MatchingPlans(p) :
         Ask(p, "db-made",
             Request("POST", "clusters", Ordered(cmd[p], report[p], t.id, {})))

ReadVpcForCluster(p) ==
    /\ PlanClear(p) /\ cmd[p].vpc # None
    /\ \E t \in MatchingPlans(p) :
         GetVpc(p, cmd[p].vpc, "db-vpc", [engine |-> report[p], plan |-> t.id])

CreateInVpc(p) ==
    /\ pc[p] = "db-vpc" /\ Has(p, "ok")
    /\ Ask(p, "db-made",
           Request("POST", "clusters",
                   Ordered(cmd[p], report[p].engine, report[p].plan,
                           {VpcEntry(Value(p), cmd[p].subnet)})))

ClusterMade(p) ==
    pc[p] = "db-made" /\ Has(p, "ok") /\ Value(p) # None /\ Succeed(p, Value(p))

\* INVALID_DBAAS_CREATE_RESPONSE
ClusterUnnamed(p) ==
    pc[p] = "db-made" /\ Has(p, "ok") /\ Value(p) = None /\ Fail(p)

-----------------------------------------------------------------------------
(* delete and reset-password.                                              *)

Guarded == {"db-delete", "db-reset"}

ReadCluster(p) ==
    /\ pc[p] = "ready" /\ cmd[p].op \in Guarded
    /\ cmd[p].op = "db-reset" => HasPassword(p)
    /\ Ask(p, "db-read", Request("GET", "cluster", cmd[p].target))

ClusterRead(p) == pc[p] = "db-read" /\ Has(p, "ok")

IsSupported(details) == details.type \in Supported

\* A faulty variant: only a reset looks at the engine.
MayTouchUnlessReset(details, line) ==
    line.op = "db-reset" => details.type \in Supported /\ details.user # None

\* summarizeSupportedCluster; a reset needs the user.
MayTouch(details, line) ==
    /\ IsSupported(details)
    /\ line.op = "db-reset" => details.user # None

ClusterUnfit(p) == ClusterRead(p) /\ ~MayTouch(Value(p), cmd[p]) /\ Fail(p)

AsksAfterReading(line) == line.op = "db-delete" /\ ~line.force

AskToDelete(p) ==
    /\ ClusterRead(p) /\ MayTouch(Value(p), cmd[p]) /\ AsksAfterReading(cmd[p])
    /\ Goto(p, "db-confirm")
    /\ UNCHANGED <<transportVars, cmd, outcome, report, created, disturbed>>

DeletionDeclined(p) ==
    pc[p] = "db-confirm" /\ Exit(p, "cancelled") /\ UNCHANGED report

\* DBAAS_DELETE_CONFIRMATION_REQUIRED without a terminal.
DeletionRejected(p) == pc[p] = "db-confirm" /\ Fail(p)

ClusterChange(p, value) ==
    Request(IF cmd[p].op = "db-delete" THEN "DELETE" ELSE "PUT", "cluster",
            [id |-> cmd[p].target, op |-> cmd[p].op, value |-> value])

ChangeGuarded(p) ==
    /\ \/ /\ ClusterRead(p) /\ MayTouch(Value(p), cmd[p])
          /\ ~AsksAfterReading(cmd[p])
       \/ pc[p] = "db-confirm"
    /\ Ask(p, "change", ClusterChange(p, cmd[p].value))

-----------------------------------------------------------------------------
(* get: three requests at once, whose answers come in any order.           *)

Parts == {"cluster", "cluster-vpcs", "cluster-public"}

ReadPart(p, part, found) ==
    AskWith(p, "db-part", Request("GET", part, cmd[p].target), found)

BeginGet(p) ==
    Begins(p, "db-get") /\ \E part \in Parts : ReadPart(p, part, {})

PartRead(p) == pc[p] = "db-part" /\ Has(p, "ok")

\* What is known with the answer that has come.
Known(p) == report[p] \cup {<<call[p].request.path, Value(p)>>}

MissingParts(p) == Parts \ {k[1] : k \in Known(p)}

GetOn(p) ==
    PartRead(p) /\ \E part \in MissingParts(p) : ReadPart(p, part, Known(p))

GetDone(p) ==
    /\ PartRead(p) /\ MissingParts(p) = {}
    /\ \E k \in Known(p) :
         /\ k[1] = "cluster"
         /\ IF IsSupported(k[2]) THEN Succeed(p, Known(p)) ELSE Fail(p)

-----------------------------------------------------------------------------
(* VPCs, public addresses, allowed hosts.                                  *)

Direct == {"db-public-on", "db-public-off", "db-host-add", "db-host-remove"}

ChangeCluster(p) ==
    /\ cmd[p].op \in Direct
    /\ SendChange(p, cmd[p].op, ClusterChange(p, cmd[p].value))

ReadVpcToAttach(p) ==
    /\ pc[p] = "ready" /\ cmd[p].op \in {"db-vpc-attach", "db-vpc-detach"}
    /\ GetVpc(p, cmd[p].vpc, "db-vpc-read", report[p])

ChangeVpcs(p) ==
    /\ pc[p] = "db-vpc-read" /\ Has(p, "ok")
    /\ Ask(p, "change", ClusterChange(p, VpcEntry(Value(p), cmd[p].subnet)))

-----------------------------------------------------------------------------
(* The API (external).                                                     *)

ClusterAfter(cluster, change) ==
    CASE change.op = "db-vpc-attach" -> [cluster EXCEPT !.vpcs = @ \cup {change.value}]
      [] change.op = "db-vpc-detach" ->
             [cluster EXCEPT !.vpcs = {v \in @ : v.vpc # change.value.vpc}]
      [] change.op = "db-host-add" -> [cluster EXCEPT !.hosts = @ \cup {change.value}]
      [] change.op = "db-host-remove" -> [cluster EXCEPT !.hosts = @ \ {change.value}]
      [] change.op = "db-public-on" -> [cluster EXCEPT !.public = TRUE]
      [] change.op = "db-public-off" -> [cluster EXCEPT !.public = FALSE]
      [] change.op = "db-reset" -> [cluster EXCEPT !.password = change.value]

ApplyToCluster(p) ==
    /\ \E m \in wire[p] :
         /\ m.request.path = "cluster" /\ m.request.method = "PUT"
         /\ m.request.arg.id \in DOMAIN clusters
         /\ Take(p, m, None)
         /\ clusters' = [clusters EXCEPT ![m.request.arg.id] =
                            ClusterAfter(@, m.request.arg)]
         /\ disturbed' = IF m.request.arg.op = "db-host-remove"
                         THEN disturbed \cup Paging("hosts") ELSE disturbed
    /\ UNCHANGED <<progressVars, created>>

DropCluster(p) ==
    /\ \E m \in wire[p] :
         /\ m.request.path = "cluster" /\ m.request.method = "DELETE"
         /\ m.request.arg.id \in DOMAIN clusters
         /\ Take(p, m, None)
         /\ clusters' = [k \in DOMAIN clusters \ {m.request.arg.id} |-> clusters[k]]
    /\ disturbed' = disturbed \cup Paging("clusters")
    /\ UNCHANGED <<progressVars, created>>

\* The answer may lack the id.
MakeCluster(p) ==
    /\ \E m \in wire[p], id \in NewClusters :
         /\ m.request.path = "clusters"
         /\ \A q \in Proc : id \notin created[q]
         /\ Take(p, m, id) \/ Take(p, m, None)
         /\ clusters' = [k \in DOMAIN clusters \cup {id} |->
                           IF k = id THEN m.request.arg ELSE clusters[k]]
         /\ created' = [created EXCEPT ![p] = @ \cup {id}]
    /\ UNCHANGED <<progressVars, disturbed>>

TypeOf(cluster) == (CHOOSE e \in Engines : e.id = cluster.engine).type

\* The details need not hold the user.
AnswerCluster(p) ==
    /\ \E c \in DOMAIN clusters, user \in {"admin", None} :
         /\ Waits(p, "cluster") /\ call[p].request.arg = c
         /\ AnswerGet(p, "cluster", [type |-> TypeOf(clusters[c]), user |-> user])
    /\ UNCHANGED <<commandVars, clusters>>

\* What is known of a cluster besides its details.
AnswerPart(p) ==
    /\ \E c \in DOMAIN clusters :
         /\ \/ AnswerGet(p, "cluster-vpcs", clusters[c].vpcs)
            \/ AnswerGet(p, "cluster-public", clusters[c].public)
         /\ call[p].request.arg = c
    /\ UNCHANGED <<commandVars, clusters>>

AnswerEngines(p) ==
    AnswerGet(p, "engines", Engines) /\ UNCHANGED <<commandVars, clusters>>

\* At any moment some of the plans are available; others do not count.
AnswerPlansOf(p) ==
    /\ \E e \in DOMAIN PlansOf : \E available \in SUBSET PlansOf[e] :
         /\ Waits(p, "plans") /\ call[p].request.arg = e
         /\ AnswerGet(p, "plans", available)
    /\ UNCHANGED <<commandVars, clusters>>

-----------------------------------------------------------------------------
DatabaseStep(p) ==
    /\ \/ PasswordUnusable(p) \/ BeginGet(p) \/ GetOn(p) \/ GetDone(p)
       \/ ListEngines(p) \/ TypesShown(p) \/ EngineUnclear(p)
       \/ ListPlans(p) \/ PlansShown(p) \/ PlanUnclear(p) \/ CreateCluster(p)
       \/ ReadVpcForCluster(p) \/ CreateInVpc(p) \/ ClusterMade(p) \/ ClusterUnnamed(p)
       \/ ReadCluster(p) \/ ClusterUnfit(p) \/ AskToDelete(p)
       \/ DeletionDeclined(p) \/ DeletionRejected(p) \/ ChangeGuarded(p)
       \/ ChangeCluster(p) \/ ReadVpcToAttach(p) \/ ChangeVpcs(p)
       \/ Uncaught(p, {"db-engines", "db-plans", "db-vpc", "db-made",
                       "db-read", "db-part", "db-vpc-read"})
    /\ UNCHANGED clusters

DatabaseApi(p) ==
    \/ ApplyToCluster(p) \/ DropCluster(p) \/ MakeCluster(p)
    \/ AnswerCluster(p) \/ AnswerPart(p) \/ AnswerEngines(p) \/ AnswerPlansOf(p)
=============================================================================
