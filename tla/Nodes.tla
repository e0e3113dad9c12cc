------------------------------- MODULE Nodes -------------------------------
(***************************************************************************)
(* NodeService: create, delete, power, save-image, upgrade, and what is    *)
(* attached to a node and detached from it. Some requests name a node by   *)
(* its id, others by the id of its VM, which is another number that the    *)
(* command first reads from the details of the node.                       *)
(***************************************************************************)
EXTENDS SshKeys, FiniteSets, Integers

CONSTANTS
    OldNodes,  \* the nodes at first: a function from ids to what Node makes
    NewNodes,  \* ids the API gives to new nodes
    VmOf       \* VmOf[n]: the id of the VM of node n

\* The API gives no id twice. A node lists the security groups it is in.
ASSUME NodesAssumption ==
    /\ NewNodes \cap DOMAIN OldNodes = {}
    /\ \A n, k \in DOMAIN OldNodes \cup NewNodes : VmOf[n] = VmOf[k] => n = k
    /\ \A n \in DOMAIN OldNodes :
         /\ "attached" \in DOMAIN OldNodes[n]
         /\ "groups" \in DOMAIN OldNodes[n].attached
         /\ IsFiniteSet(OldNodes[n].attached["groups"])

\* A size is a number, and a command line is finite.
ASSUME NodeLinesAssumption ==
    \A line \in Workloads, p \in Proc :
      /\ line[p].op = "node-create" => line[p].disk \in Int \cup {None}
      /\ line[p].op \in {"node-attach", "node-detach"} => IsFiniteSet(line[p].items)

VARIABLES nodes \* the nodes of the API

NodesInit == nodes = OldNodes

Kinds == {"keys", "groups", "volumes", "vpcs"}

Node(plan, disk, committed, ip, attached) ==
    [plan |-> plan, disk |-> disk, committed |-> committed, ip |-> ip,
     attached |-> attached, power |-> "on"]

-----------------------------------------------------------------------------
(* What `node create` accepts, and what it sends.                          *)

\* A plan stands for its series, the part before the first hyphen.
CustomSeries == {"E1", "E1WC"}

\* A faulty variant: the smaller step is allowed at the default size, too.
IsDiskSizeAllowedLate(size) ==
    /\ 75 <= size /\ size <= 2400
    /\ IF size <= 200 THEN size % 25 = 0 ELSE size % 50 = 0

\* isCustomStorageDiskSizeAllowed
IsDiskSizeAllowed(size) ==
    /\ 75 <= size /\ size <= 2400
    /\ IF size < 150 THEN size % 25 = 0 ELSE size % 50 = 0

IsCreatable(line) ==
    /\ line.billing = "committed" <=> line.committed # None
    /\ line.disk # None <=> line.plan \in CustomSeries
    /\ line.disk # None => IsDiskSizeAllowed(line.disk)

NodeBody(line) ==
    Node(line.plan, line.disk, line.committed, None,
         [kind \in Kinds |-> IF kind = "keys" THEN line.items ELSE {}])

CreateNode(p) ==
    /\ Begins(p, "node-create") /\ IsCreatable(cmd[p]) /\ cmd[p].items = {}
    /\ Ask(p, "node-made", Request("POST", "nodes", NodeBody(cmd[p])))

NodeMade(p) ==
    pc[p] = "node-made" /\ Has(p, "ok") /\ Succeed(p, Value(p))

-----------------------------------------------------------------------------
(* SSH keys: all keys that are named must be saved.                        *)

NeedsKeys(line) ==
    \/ line.op = "node-create" /\ IsCreatable(line) /\ line.items # {}
    \/ line.op = "node-attach" /\ line.kind = "keys" /\ line.items # {}

ListKeys(p) ==
    /\ pc[p] = "ready" /\ NeedsKeys(cmd[p])
    /\ AskForKeys(p, "node-keys")

KeysListed(p) == pc[p] = "node-keys" /\ Has(p, "ok")

MissingKeys(p) == cmd[p].items \ Value(p)

\* SSH_KEY_NOT_FOUND
KeysMissing(p) == KeysListed(p) /\ MissingKeys(p) # {} /\ Fail(p)

CreateWithKeys(p) ==
    /\ KeysListed(p) /\ MissingKeys(p) = {} /\ cmd[p].op = "node-create"
    /\ Ask(p, "node-made", Request("POST", "nodes", NodeBody(cmd[p])))

-----------------------------------------------------------------------------
(* Requests that name the node by its id.                                  *)

NodeChange(id, line) ==
    [id |-> id, op |-> line.op, kind |-> line.kind, items |-> line.items]

ByNodeId(p) == Request("PUT", "node", NodeChange(cmd[p].node, cmd[p]))

AttachKeys(p) ==
    /\ KeysListed(p) /\ MissingKeys(p) = {} /\ cmd[p].op = "node-attach"
    /\ Ask(p, "change", ByNodeId(p))

PowerNode(p) == SendChange(p, "node-power", ByNodeId(p))

UpgradeNode(p) == SendChange(p, "node-upgrade", ByNodeId(p))

AttachVpc(p) ==
    SendChange(p, "node-attach", ByNodeId(p)) /\ cmd[p].kind = "vpcs"

DetachVpc(p) ==
    SendChange(p, "node-detach", ByNodeId(p)) /\ cmd[p].kind = "vpcs"

SaveImage(p) ==
    /\ Begins(p, "node-save-image")
    /\ Ask(p, "node-made", Request("PUT", "images", [node |-> cmd[p].node, name |-> cmd[p].items]))

DeleteNode(p) ==
    SendChange(p, "node-delete",
               Request("DELETE", "node", NodeChange(cmd[p].node, cmd[p])))

-----------------------------------------------------------------------------
(* Requests that name the node by its VM.                                  *)

NeedsVm(line) ==
    /\ line.op \in {"node-attach", "node-detach"}
    /\ line.kind \in {"groups", "volumes"} /\ line.items # {}

GetNode(p, label) == Ask(p, label, Request("GET", "node", cmd[p].node))

ReadNode(p) == pc[p] = "ready" /\ NeedsVm(cmd[p]) /\ GetNode(p, "node-read")

NodeRead(p) == pc[p] = "node-read" /\ Has(p, "ok")

\* A faulty variant: as many groups as the node has may go.
MayDetachAll(requested, count) ==
    count # None /\ count > 0 => requested <= count

\* assertCanDetachSecurityGroups; a node without groups has none to lose.
MayDetachGroups(requested, count) ==
    count # None /\ count > 0 => requested < count

DetachesGroups(line) == line.op = "node-detach" /\ line.kind = "groups"

Permits(details, line) ==
    /\ details.vm # None
    /\ DetachesGroups(line) =>
         MayDetachGroups(Cardinality(line.items), details.count)

\* LAST_SECURITY_GROUP_DETACH_BLOCKED, INVALID_NODE_DETAILS
NodeUnfit(p) ==
    NodeRead(p) /\ NeedsVm(cmd[p]) /\ ~Permits(Value(p), cmd[p]) /\ Fail(p)

\* A faulty variant: the node is named by its own id.
VmIdOfNode(p) == cmd[p].node

VmId(p) == Value(p).vm

ChangeVm(p, op, kind) ==
    /\ NodeRead(p) /\ cmd[p].op = op /\ cmd[p].kind = kind
    /\ Permits(Value(p), cmd[p])
    /\ AskWith(p, "change",
               Request("POST", "vm", NodeChange(VmId(p), cmd[p])), Value(p))

AttachGroups(p) == ChangeVm(p, "node-attach", "groups")

DetachGroups(p) == ChangeVm(p, "node-detach", "groups")

AttachVolume(p) == ChangeVm(p, "node-attach", "volumes")

DetachVolume(p) == ChangeVm(p, "node-detach", "volumes")

-----------------------------------------------------------------------------
(* get, list, catalog.                                                     *)

ShowNode(p) == Begins(p, "node-get") /\ GetNode(p, "node-show")

ListNodes(p) ==
    Begins(p, "node-list") /\ Ask(p, "node-show", Request("GET", "nodes", None))

NodeShown(p) == pc[p] = "node-show" /\ Has(p, "ok") /\ Succeed(p, Value(p))

-----------------------------------------------------------------------------
(* The API (external).                                                     *)

Named(request) ==
    {n \in DOMAIN nodes :
        request.arg.id = IF request.path = "vm" THEN VmOf[n] ELSE n}

After(node, change) ==
    CASE change.op = "node-attach" ->
             [node EXCEPT !.attached[change.kind] = @ \cup change.items]
      [] change.op = "node-detach" ->
             [node EXCEPT !.attached[change.kind] = @ \ change.items]
      [] change.op = "node-power" -> [node EXCEPT !.power = change.items]
      [] change.op = "node-upgrade" -> [node EXCEPT !.plan = change.items]

\* The commands that count on the groups that they have read.
Counting(n) ==
    {q \in Proc : /\ DetachesGroups(cmd[q]) /\ cmd[q].node = n
                  /\ NodeRead(q) \/ pc[q] \in {"change", "end"}}

ApplyToNode(p) ==
    /\ \E m \in wire[p] :
         /\ m.request.path \in {"node", "vm"} /\ m.request.method # "DELETE"
         /\ Take(p, m, None)
         /\ \E n \in Named(m.request) :
              /\ nodes' = [nodes EXCEPT ![n] = After(@, m.request.arg)]
              /\ disturbed' = IF DetachesGroups(m.request.arg)
                              THEN disturbed \cup (Counting(n) \ {p})
                              ELSE disturbed
    /\ UNCHANGED <<progressVars, created>>

MakeNode(p) ==
    /\ \E m \in wire[p], n \in NewNodes :
         /\ m.request.path = "nodes"
         /\ \A q \in Proc : n \notin created[q]
         /\ Take(p, m, n)
         /\ nodes' = [k \in DOMAIN nodes \cup {n} |->
                        IF k = n THEN m.request.arg ELSE nodes[k]]
         /\ created' = [created EXCEPT ![p] = @ \cup {n}]
    /\ UNCHANGED <<progressVars, disturbed>>

\* The details need not hold the VM, or the number of groups.
Details(n) ==
    LET whole == [vm |-> VmOf[n], ip |-> nodes[n].ip,
                  count |-> Cardinality(nodes[n].attached["groups"])]
    IN  {whole, [whole EXCEPT !.vm = None], [whole EXCEPT !.count = None]}

AnswerNode(p) ==
    /\ \E n \in DOMAIN nodes :
         /\ Waits(p, "node") /\ call[p].request.arg = n
         /\ \E details \in Details(n) : AnswerGet(p, "node", details)
    /\ UNCHANGED <<commandVars, nodes>>

AnswerNodes(p) ==
    /\ AnswerGet(p, "nodes", DOMAIN nodes)
    /\ UNCHANGED <<commandVars, nodes>>

-----------------------------------------------------------------------------
NodeStep(p) ==
    /\ \/ CreateNode(p) \/ NodeMade(p) \/ ListKeys(p) \/ KeysMissing(p)
       \/ CreateWithKeys(p) \/ AttachKeys(p) \/ PowerNode(p) \/ UpgradeNode(p)
       \/ AttachVpc(p) \/ DetachVpc(p) \/ SaveImage(p) \/ DeleteNode(p)
       \/ ReadNode(p) \/ NodeUnfit(p) \/ AttachGroups(p) \/ DetachGroups(p)
       \/ AttachVolume(p) \/ DetachVolume(p) \/ ShowNode(p) \/ ListNodes(p) \/ NodeShown(p)
       \/ Uncaught(p, {"node-made", "node-keys", "node-read", "node-show"})
    /\ UNCHANGED nodes

NodeApi(p) ==
    ApplyToNode(p) \/ MakeNode(p) \/ AnswerNode(p) \/ AnswerNodes(p)
=============================================================================
