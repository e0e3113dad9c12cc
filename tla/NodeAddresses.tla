--------------------------- MODULE NodeAddresses ---------------------------
(***************************************************************************)
(* The public address of a node: `node action public-ip detach` and        *)
(* `node delete --reserve-public-ip` of NodeService; attach-node,          *)
(* detach-node and reserve-node of ReservedIpService. All but the deletion *)
(* read the node first, for its VM or for its address.                     *)
(***************************************************************************)
EXTENDS Nodes, ReservedIps

\* Whether the address is one that is given, or the one that the node has.
TakesGiven == {"ip-attach", "ip-detach"}

TakesCurrent == {"node-ip-detach", "ip-reserve"}

ReadForAddress(p) ==
    /\ pc[p] = "ready" /\ cmd[p].op \in TakesGiven \cup TakesCurrent
    /\ GetNode(p, "node-read")

AddressNodeRead(p) == NodeRead(p) /\ cmd[p].op \in TakesGiven \cup TakesCurrent

HasAddress(details, line) ==
    /\ details.vm # None
    /\ line.op \in TakesCurrent => details.ip # None

\* INVALID_NODE_DETAILS, NODE_PUBLIC_IP_UNAVAILABLE
AddressUnavailable(p) ==
    AddressNodeRead(p) /\ ~HasAddress(Value(p), cmd[p]) /\ Fail(p)

\* Only the detachment of the current address is asked for, once it is known.
AsksForAddress(line) == line.op = "node-ip-detach" /\ ~line.force

AskForAddress(p) ==
    /\ AddressNodeRead(p) /\ HasAddress(Value(p), cmd[p]) /\ AsksForAddress(cmd[p])
    /\ Goto(p, "node-confirm")
    /\ report' = [report EXCEPT ![p] = Value(p)]
    /\ UNCHANGED <<transportVars, cmd, outcome, created, disturbed>>

AddressDeclined(p) ==
    pc[p] = "node-confirm" /\ Exit(p, "cancelled") /\ UNCHANGED report

\* CONFIRMATION_REQUIRED without a terminal.
AddressRejected(p) == pc[p] = "node-confirm" /\ Fail(p)

Address(p) == IF cmd[p].op \in TakesGiven THEN cmd[p].items ELSE Value(p).ip

ChangeAddress(p) ==
    /\ \/ /\ AddressNodeRead(p) /\ HasAddress(Value(p), cmd[p])
          /\ ~AsksForAddress(cmd[p])
       \/ pc[p] = "node-confirm"
    /\ AskWith(p, "change",
               Request("POST", "address",
                       [op |-> cmd[p].op, vm |-> VmId(p), ip |-> Address(p)]),
               Value(p))

-----------------------------------------------------------------------------
(* The API (external): it checks that the address belongs to the node.     *)

AddressAfter(node, change) ==
    CASE change.op = "ip-attach" -> [node EXCEPT !.ip = change.ip]
      [] change.op \in {"ip-detach", "node-ip-detach"} -> [node EXCEPT !.ip = None]
      [] change.op = "ip-reserve" -> node

ApplyToAddress(p) ==
    /\ \E m \in wire[p], n \in DOMAIN nodes :
         /\ m.request.path = "address" /\ m.request.arg.vm = VmOf[n]
         /\ IF m.request.arg.op = "ip-attach"
            THEN m.request.arg.ip \in ips /\ nodes[n].ip = None
            ELSE m.request.arg.ip = nodes[n].ip
         /\ Take(p, m, None)
         /\ nodes' = [nodes EXCEPT ![n] = AddressAfter(@, m.request.arg)]
         /\ ips' = IF m.request.arg.op = "ip-reserve"
                   THEN ips \cup {m.request.arg.ip} ELSE ips
         /\ disturbed' = IF m.request.arg.op = "ip-attach"
                         THEN disturbed \cup Planning(m.request.arg.ip)
                         ELSE disturbed
    /\ UNCHANGED <<progressVars, created, inventory>>

\* A node is deleted; its address is kept as a reserved one on demand.
DropNode(p) ==
    /\ \E m \in wire[p] :
         /\ m.request.path = "node" /\ m.request.method = "DELETE"
         /\ \E n \in Named(m.request) :
              /\ Take(p, m, None)
              /\ nodes' = [k \in DOMAIN nodes \ {n} |-> nodes[k]]
              /\ ips' = IF m.request.arg.items = "reserve" /\ nodes[n].ip # None
                        THEN ips \cup {nodes[n].ip} ELSE ips
    /\ UNCHANGED <<commandVars, inventory>>

-----------------------------------------------------------------------------
AddressStep(p) ==
    /\ \/ ReadForAddress(p) \/ AddressUnavailable(p) \/ AskForAddress(p)
       \/ AddressDeclined(p) \/ AddressRejected(p) \/ ChangeAddress(p)
    /\ UNCHANGED <<nodes, ipVars>>

AddressApi(p) == ApplyToAddress(p) \/ DropNode(p)
=============================================================================
