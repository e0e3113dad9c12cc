----------------------- MODULE ProvisioningProperties -----------------------
(***************************************************************************)
(* What the provisioning commands must keep true whatever is lost, late,   *)
(* refused or changed by another process.                                  *)
(***************************************************************************)
EXTENDS Provisioning

Succeeded(p, op) == outcome[p] = "ok" /\ cmd[p].op = op

Creations == {"volume-create", "ip-create", "group-create", "node-create",
              "node-save-image", "key-create", "vpc-create", "db-create",
              "project-create", "lb-create"}

TypeOK ==
    /\ \A p \in Proc :
         /\ outcome[p] \in Outcomes
         /\ (outcome[p] = "none") <=> (pc[p] # "end")
         /\ call[p].state \in {"none", "sent", "done"}
         /\ call[p].state = "sent" => call[p].attempt \in 1 .. 2
         /\ pc[p] \in {"list", "volume-verify"} =>
              call[p].request.arg.page \in 1 .. MaxPages
         /\ \A m \in wire[p] : m.request.method # "GET"
    /\ \A i, j \in DOMAIN volumes : volumes[i] = volumes[j] => i = j
    /\ inventory \subseteq ips
    /\ \A g, h \in groups : g.id = h.id => g = h

\* A command makes at most one resource, however often its requests time out,
\* meet an error or are answered late: only GETs are sent again.
AtMostOneEffect == \A p \in Proc : Cardinality(created[p]) <= 1

\* The id or address that a creation reports is the one that was made for it,
\* also when a group's id is looked up by name among groups of other
\* processes; unless that group was deleted or changed meanwhile.
ReportIsOwn ==
    \A p \in Proc, op \in Creations : Succeeded(p, op) =>
        \/ report[p] \in created[p]
        \/ op = "group-create" /\ p \in disturbed
        \/ op = "group-create" /\ created[p] \cap {g.id : g \in groups} = {}

\* A volume that was reported as deleted is gone, also when the request timed
\* out and the volume was searched for: unless the list lost another volume
\* during the search, or the volume was only made after the request was sent.
DeletionReportIsTrue ==
    \A p \in Proc : Succeeded(p, "volume-delete") =>
        cmd[p].target \notin Held \/ p \in disturbed

\* A list that succeeds names everything that was there from the beginning on
\* and still is, new items on any page notwithstanding; unless one was deleted
\* between two pages, or there are more load balancers than there may be pages.
\* So does a cluster that is read in parts, for each part that nobody changed.
PartsOf(all, id) ==
    UNION {{<<"cluster-vpcs", all[c].vpcs>>, <<"cluster-public", all[c].public>>} :
             c \in DOMAIN all \cap {id}}

AtFirst(line) ==
    CASE line.op = "volume-list" ->
             UNION {{s[i] : i \in DOMAIN s} : s \in InitialVolumes[cmd]}
      [] line.op = "vpc-list" -> DOMAIN OldVpcs
      [] line.op = "db-list" ->
             {c \in DOMAIN OldClusters :
                 TypeOf(OldClusters[c]) \in Supported
                   \cap (IF line.target = None THEN Supported ELSE {line.target})}
      [] line.op = "db-hosts" -> OldClusters[line.target].hosts
      [] line.op = "db-get" -> PartsOf(OldClusters, line.target)
      [] line.op = "lb-list" -> DOMAIN OldBalancers

Remaining(line) ==
    CASE line.op = "volume-list" -> Held
      [] line.op = "vpc-list" -> DOMAIN vpcs
      [] line.op = "db-list" -> DOMAIN clusters
      [] line.op = "db-hosts" ->
             UNION {clusters[c].hosts : c \in DOMAIN clusters \cap {line.target}}
      [] line.op = "db-get" -> PartsOf(clusters, line.target)
      [] line.op = "lb-list" ->
             {b \in DOMAIN balancers :
                PageCount(InOrder(DOMAIN balancers)) <= MaxPages}

ListIsComplete ==
    [][\A p \in Proc :
         outcome[p] # "ok" /\ outcome'[p] = "ok" /\ cmd[p].op \in DOMAIN Path \cup {"db-get"}
           /\ p \notin disturbed
         => AtFirst(cmd[p]) \cap Remaining(cmd[p]) \subseteq report'[p]]_vars

\* What an order buys is what was asked for, of what the plans that it has read
\* sell. A new volume has the size that was asked for, the speed of the only plan
\* of that size, which was available, and a committed term of that plan, with
\* what follows it, if and only if it was asked to.
VolumeAsOrdered(line, volume) ==
    \E offers \in VolumeCatalogs :
      LET sold == {o \in offers : o.plan.size = line.size} IN
      /\ volume.size = line.size /\ sold # {}
      /\ \A o \in sold : o.plan.available /\ o.plan.iops = volume.iops
      /\ volume.committed = line.committed
      /\ volume.committed # None =>
           \E o \in sold : volume.committed \in {t.id : t \in o.terms}
      /\ (line.billing = "committed") <=> (volume.renewal # None)

\* A new load balancer is on a plan with the name or the template that was given
\* and, if it was asked to, on a committed plan of that one and no other.
BalancerAsOrdered(line, order) ==
    /\ \E plans \in BalancerCatalogs : \E i \in DOMAIN plans :
         /\ line.plan \in {plans[i].name, plans[i].template}
         /\ order.plan = plans[i].name
         /\ order.committed # None =>
              \E j \in DOMAIN plans[i].committed :
                LET c == plans[i].committed[j] IN
                order.committed = c.id /\ (line.committed = c.id \/ line.committedName = c.name)
    /\ (order.committed # None) <=> Selects(line)
    /\ (order.committed # None) <=> (order.renewal # None)

\* Its address was reserved and free when it was ordered: the order is sent after
\* two more readings, and only who released or attached it meanwhile is to blame.
AddressAsOrdered(p, order) ==
    order.ip # None =>
      /\ order.type = "external"
      /\ p \in disturbed \/ (order.ip \in ips /\ ~Attached(order.ip))

PurchasesAreAsOrdered ==
    [][\A p \in Proc : created'[p] # created[p] =>
         \E m \in wire[p] \ wire'[p] :
           /\ cmd[p].op = "volume-create" => VolumeAsOrdered(cmd[p], m.request.arg)
           /\ cmd[p].op = "lb-create" =>
                /\ BalancerAsOrdered(cmd[p], m.request.arg.selection)
                /\ AddressAsOrdered(p, m.request.arg)]_vars

\* A group only changes as an update asks: its name and rules become those of the
\* command line, and so does its description; without --description that stays as
\* it is, unless another update came between the GET and the PUT.
GroupsChangeAsAsked ==
    \A g \in groups, h \in groups' : g.id = h.id /\ g # h =>
      \E p \in Proc :
        /\ cmd[p].op = "group-update" /\ cmd[p].target = g.id
        /\ wire'[p] # wire[p]
        /\ h = Group(g.id, Body(cmd[p], h.description))
        /\ \/ h.description = cmd[p].description
           \/ /\ cmd[p].description = None
              /\ h.description = g.description \/ p \in disturbed

\* No step changes a group in any other way: updates keep its description.
UpdateKeepsDescription == [][GroupsChangeAsAsked]_vars

\* A node only changes as a command that names it asks, and by nothing but what
\* was asked: though some requests name a node by its VM, whose number may be
\* the id of another node. The address that goes is the one that was given or,
\* for the current one, the one that the user was shown.
AsAsked(line, seen, node) ==
    CASE line.op = "ip-attach" -> [node EXCEPT !.ip = line.items]
      [] line.op = "ip-detach" ->
             [node EXCEPT !.ip = IF @ = line.items THEN None ELSE @]
      [] line.op = "node-ip-detach" ->
             [node EXCEPT !.ip = IF @ = seen.ip THEN None ELSE @]
      [] OTHER -> After(node, NodeChange(line.node, line))

NodeChangesFitLines ==
    \A n \in DOMAIN nodes \cap DOMAIN nodes' : nodes'[n] # nodes[n] =>
      \E p \in Proc :
        /\ wire'[p] # wire[p] /\ cmd[p].node = n
        /\ nodes'[n] = AsAsked(cmd[p], report[p], nodes[n])

\* No step changes a node in any other way.
NodesChangeAsAsked == [][NodeChangesFitLines]_vars

\* A node that has security groups keeps one, unless the details that the
\* detaching command read lacked the number of groups or said that there are
\* none, or somebody else detached some after that.
GroupsOf(n) == nodes[n].attached["groups"]

GroupsGoKnowingly ==
    \A n \in DOMAIN nodes \cap DOMAIN nodes' :
      GroupsOf(n) # {} /\ GroupsOf(n)' = {} =>
        \E p \in Proc :
          /\ wire'[p] # wire[p] /\ cmd[p].op = "node-detach" /\ cmd[p].node = n
          /\ report[p].count \in {None, 0} \/ p \in disturbed

\* No step takes the last group of a node unless its command could not know.
LastGroupStays == [][GroupsGoKnowingly]_vars

\* A new node has the disk that its plan needs, in a size that is sold, a
\* committed plan only if it was asked to, and all the SSH keys that were named.
DiskSizes == {75, 100, 125} \cup {50 * k : k \in 3 .. 48}

NodesAreAsOrdered ==
    \A n \in DOMAIN nodes' \ DOMAIN nodes :
      LET node == nodes'[n] IN
      /\ node.disk \in IF node.plan \in CustomSeries THEN DiskSizes ELSE {None}
      /\ \E p \in Proc :
           /\ created'[p] = {n}
           /\ node.plan = cmd[p].plan /\ node.disk = cmd[p].disk
           /\ (node.committed # None) <=> (cmd[p].billing = "committed")
           /\ node.attached["keys"] = cmd[p].items

\* No step makes a node that nobody has ordered so.
NewNodesAreAsOrdered == [][NodesAreAsOrdered]_vars

\* A new network has the block that was given, which is the range of addresses
\* with its prefix, and a committed plan, with what follows it, if it was asked to.
NewVpcsAreAsOrdered ==
    [][\A v \in DOMAIN vpcs' \ DOMAIN vpcs :
         LET net == vpcs'[v]
             size == BlockSize(net.block.prefix)
         IN
         /\ net.block # None =>
              {x \in 0 .. BlockSize(0) - 1 :
                 x \div size = net.block.address \div size} =
              net.block.address .. net.block.address + size - 1
         /\ (net.committed = None) <=> (net.renewal = None)
         /\ \E p \in Proc :
              /\ created'[p] = {v} /\ net.block = cmd[p].block
              /\ (cmd[p].billing = "committed") <=> (net.committed # None)]_vars

\* A new cluster runs the engine and version that were asked for, on a plan of
\* that engine with the name that was asked for, in the network that was named
\* and no other: three readings of the API after each other say which. Without
\* a network it has a public address.
ClustersAreAsOrdered ==
    \A c \in DOMAIN clusters' \ DOMAIN clusters :
      LET cluster == clusters'[c] IN
      \E p \in Proc, e \in Engines :
        /\ created'[p] = {c}
        /\ e.id = cluster.engine /\ e.type \in Supported
        /\ e.type = cmd[p].type /\ e.version = cmd[p].version
        /\ \E t \in PlansOf[e.id] : t.id = cluster.plan /\ t.name = cmd[p].plan
        /\ {v.vpc : v \in cluster.vpcs} = {cmd[p].vpc} \ {None}
        /\ cluster.vpcs = {} => cluster.public
        /\ cluster.password = cmd[p].value
        /\ (cmd[p].billing = "committed") <=> (cluster.term.renewal # None)

\* No step makes a cluster that nobody has ordered so.
NewClustersAreAsOrdered == [][ClustersAreAsOrdered]_vars

\* A cluster with an engine that the CLI does not support is never deleted by
\* it, and keeps its password, whatever comes between reading its details,
\* asking the user and sending the change.
ForeignClusters ==
    {c \in DOMAIN clusters : TypeOf(clusters[c]) \notin Supported}

ForeignClustersKept ==
    \A c \in ForeignClusters :
      c \in DOMAIN clusters' /\ clusters'[c].password = clusters[c].password

\* No step deletes such a cluster or changes its password.
ForeignClustersStay == [][ForeignClustersKept]_vars

\* Every command ends, though the API may never answer and an address may
\* never show in the inventory.
EveryCommandEnds == \A p \in Proc : Running(p) ~> pc[p] = "end"

-----------------------------------------------------------------------------
\* "treats delete timeouts as success when a follow-up list shows the volume
\* is gone": `volume delete` succeeds only if the volume is gone.
ReportedVolumeIsGone ==
    \A p \in Proc : Succeeded(p, "volume-delete") => cmd[p].target \notin Held
=============================================================================
