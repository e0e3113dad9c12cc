--------------------------- MODULE BalancerOrders ---------------------------
(***************************************************************************)
(* What the commands of LoadBalancerService look up elsewhere: `lb create` *)
(* finds its reserved address in the inventory, its plan and committed     *)
(* plan among those that are sold and its network, one after the other,    *)
(* before it sends the order; the reservation of a public address reads    *)
(* the balancer first. What a balancer serves is in LoadBalancer.          *)
(***************************************************************************)
EXTENDS Vpcs, NodeAddresses

CONSTANTS
    OldBalancers,     \* the balancers at first: from ids to what Balancer makes
    NewBalancers,     \* ids the API gives to new balancers
    BalancerCatalogs  \* the sequences of plans the API may answer with: records
                      \* [name, template, committed], with the committed plans
                      \* in order, records [id, name]

VARIABLES balancers   \* the load balancers of the API

BalancersInit == balancers = OldBalancers

Balancer(type, ip, selection, vpc) ==
    [type |-> type, ip |-> ip, selection |-> selection, vpc |-> vpc]

-----------------------------------------------------------------------------
(* The options, and the plan that they select.                             *)

Selects(line) == line.committed # None \/ line.committedName # None

\* assertCreateBillingOptionShape
IsSelector(line) ==
    /\ line.billing = "hourly" => ~Selects(line)
    /\ line.billing = "committed" => Selects(line)
    /\ line.committed = None \/ line.committedName = None

\* INTERNAL_LB_REQUIRES_VPC, INTERNAL_LB_NO_RESERVE_IP
IsBalancerOrder(line) ==
    /\ line.type = "internal" => line.vpc # None /\ line.reserve = None
    /\ IsSelector(line)

\* findBasePlan: by its name or by its template; the first one counts.
BasePlans(line, plans) ==
    SelectSeq(plans, LAMBDA b : line.plan \in {b.name, b.template})

CommittedPlans(line, plans) ==
    SelectSeq(BasePlans(line, plans)[1].committed,
              LAMBDA c : line.committed = c.id \/ line.committedName = c.name)

\* LOAD_BALANCER_PLAN_NOT_FOUND, LOAD_BALANCER_COMMITTED_PLAN_NOT_FOUND,
\* LOAD_BALANCER_POST_COMMIT_BEHAVIOR_REQUIRES_COMMITTED_PLAN otherwise.
IsSelectable(line, plans) ==
    /\ BasePlans(line, plans) # <<>>
    /\ IF Selects(line) THEN CommittedPlans(line, plans) # <<>>
       ELSE line.renewal = None

Selection(line, plans) ==
    [plan |-> BasePlans(line, plans)[1].name,
     committed |-> IF Selects(line) THEN CommittedPlans(line, plans)[1].id ELSE None,
     renewal |-> IF Selects(line) /\ line.renewal = None THEN "auto-renew"
                 ELSE line.renewal]

-----------------------------------------------------------------------------
(* create.                                                                 *)

\* A faulty variant: the status alone decides.
IsFreeByStatus(item) == item.status = "reserved"

\* isAvailableReservedIp
IsFree(item) == item.status = "reserved" /\ ~item.attached

OrderBalancer(p) == Begins(p, "lb-create") /\ IsBalancerOrder(cmd[p])

FindReserved(p) ==
    /\ OrderBalancer(p) /\ cmd[p].reserve # None
    /\ Ask(p, "lb-ip", Request("GET", "inventory-items", None))

InventoryRead(p) == pc[p] = "lb-ip" /\ Has(p, "ok")

ReservedFree(p) ==
    \E item \in Value(p) : item.ip = cmd[p].reserve /\ IsFree(item)

\* RESERVE_IP_NOT_FOUND, RESERVE_IP_NOT_AVAILABLE
ReservedUnfit(p) == InventoryRead(p) /\ ~ReservedFree(p) /\ Fail(p)

FindPlans(p) ==
    /\ \/ OrderBalancer(p) /\ cmd[p].reserve = None
       \/ InventoryRead(p) /\ ReservedFree(p)
    /\ Ask(p, "lb-plans", Request("GET", "balancer-plans", None))

PlansFound(p) == pc[p] = "lb-plans" /\ Has(p, "ok")

SelectionUnfit(p) ==
    PlansFound(p) /\ ~IsSelectable(cmd[p], Value(p)) /\ Fail(p)

FindVpc(p) ==
    /\ PlansFound(p) /\ IsSelectable(cmd[p], Value(p)) /\ cmd[p].vpc # None
    /\ GetVpc(p, cmd[p].vpc, "lb-vpc", Selection(cmd[p], Value(p)))

\* buildLoadBalancerCreateRequest
SendOrder(p, selection) ==
    Ask(p, "lb-made",
        Request("POST", "balancers",
                Balancer(cmd[p].type, cmd[p].reserve, selection, cmd[p].vpc)))

OrderPlain(p) ==
    /\ PlansFound(p) /\ IsSelectable(cmd[p], Value(p)) /\ cmd[p].vpc = None
    /\ SendOrder(p, Selection(cmd[p], Value(p)))

OrderInVpc(p) == pc[p] = "lb-vpc" /\ Has(p, "ok") /\ SendOrder(p, report[p])

BalancerMade(p) == pc[p] = "lb-made" /\ Has(p, "ok") /\ Succeed(p, Value(p))

-----------------------------------------------------------------------------
(* The reservation of a balancer's public address, and get and plans.      *)

ReadBalancer(p, op, label) ==
    Begins(p, op) /\ Ask(p, label, Request("GET", "balancer", cmd[p].target))

ReadToReserve(p) == ReadBalancer(p, "lb-reserve", "lb-read")

BalancerRead(p) == pc[p] = "lb-read" /\ Has(p, "ok")

\* isLoadBalancerPublicIpReserved
IsReserved(details) ==
    details.flag \/ (details.ip # None /\ details.context = details.ip)

\* LOAD_BALANCER_CONTEXT_MISSING, RESERVE_IP_REQUIRES_EXTERNAL_LB,
\* LOAD_BALANCER_PUBLIC_IP_ALREADY_RESERVED, LOAD_BALANCER_PUBLIC_IP_MISSING,
\* LOAD_BALANCER_VM_ID_MISSING otherwise.
IsReservable(details) ==
    /\ details.configured
    /\ details.type = "external" /\ ~IsReserved(details)
    /\ details.ip # None /\ details.vm # None

Unreservable(p) == BalancerRead(p) /\ ~IsReservable(Value(p)) /\ Fail(p)

ReserveAddress(p) ==
    /\ BalancerRead(p) /\ IsReservable(Value(p))
    /\ Ask(p, "change",
           Request("POST", "balancer-address",
                   [ip |-> Value(p).ip, vm |-> Value(p).vm]))

GetBalancer(p) == ReadBalancer(p, "lb-get", "lb-show")

ShowBalancerPlans(p) ==
    /\ Begins(p, "lb-plans")
    /\ Ask(p, "lb-show", Request("GET", "balancer-plans", None))

BalancerShown(p) == pc[p] = "lb-show" /\ Has(p, "ok") /\ Succeed(p, Value(p))

-----------------------------------------------------------------------------
(* The API (external).                                                     *)

Attached(ip) ==
    \/ \E n \in DOMAIN nodes : nodes[n].ip = ip
    \/ \E b \in DOMAIN balancers : balancers[b].ip = ip

\* That an address is attached shows in its status, in what it names, or both.
Items ==
    {s \in [inventory -> {"reserved", "attached"} \X BOOLEAN] :
       \A ip \in inventory : (s[ip] # <<"reserved", FALSE>>) <=> Attached(ip)}

AnswerItems(p) ==
    /\ Waits(p, "inventory-items")
    /\ \E s \in Items :
         AnswerGet(p, "inventory-items",
                   {[ip |-> ip, status |-> s[ip][1], attached |-> s[ip][2]] :
                       ip \in inventory})
    /\ UNCHANGED <<commandVars, balancers, ips>>

AnswerBalancerPlans(p) ==
    /\ \E plans \in BalancerCatalogs : AnswerGet(p, "balancer-plans", plans)
    /\ UNCHANGED <<commandVars, balancers, ips>>

\* The address, the VM, the flag or the whole configuration may be missing.
BalancerDetails(b) ==
    LET reserved == balancers[b].ip \in ips
        whole == [type |-> balancers[b].type, ip |-> balancers[b].ip, vm |-> b,
                  flag |-> reserved, configured |-> TRUE,
                  context |-> IF reserved THEN balancers[b].ip ELSE None]
    IN  {whole, [whole EXCEPT !.flag = FALSE], [whole EXCEPT !.context = None],
         [whole EXCEPT !.configured = FALSE, !.context = None],
         [whole EXCEPT !.vm = None], [whole EXCEPT !.ip = None]}

AnswerBalancer(p) ==
    /\ Waits(p, "balancer") /\ call[p].request.arg \in DOMAIN balancers
    /\ \E details \in BalancerDetails(call[p].request.arg) :
         AnswerGet(p, "balancer", details)
    /\ UNCHANGED <<commandVars, balancers, ips>>

\* Another balancer may have taken the address since it was looked up.
MakeBalancer(p) ==
    /\ \E m \in wire[p], id \in NewBalancers :
         /\ m.request.path = "balancers"
         /\ \A q \in Proc : id \notin created[q]
         /\ Take(p, m, id)
         /\ balancers' = [k \in DOMAIN balancers \cup {id} |->
                            IF k = id THEN m.request.arg ELSE balancers[k]]
         /\ created' = [created EXCEPT ![p] = @ \cup {id}]
         /\ disturbed' = disturbed \cup (Planning(m.request.arg.ip) \ {p})
    /\ UNCHANGED <<progressVars, ips>>

ReserveIp(p) ==
    /\ \E m \in wire[p] :
         /\ m.request.path = "balancer-address"
         /\ Take(p, m, None)
         /\ ips' = ips \cup {m.request.arg.ip}
    /\ UNCHANGED <<commandVars, balancers>>

-----------------------------------------------------------------------------
BalancerStep(p) ==
    /\ \/ FindReserved(p) \/ ReservedUnfit(p) \/ FindPlans(p) \/ SelectionUnfit(p)
       \/ FindVpc(p) \/ OrderPlain(p) \/ OrderInVpc(p) \/ BalancerMade(p)
       \/ ReadToReserve(p) \/ Unreservable(p) \/ ReserveAddress(p)
       \/ GetBalancer(p) \/ ShowBalancerPlans(p) \/ BalancerShown(p)
       \/ Uncaught(p, {"lb-ip", "lb-plans", "lb-vpc", "lb-made", "lb-read",
                       "lb-show"})
    /\ UNCHANGED balancers

BalancerApi(p) ==
    \/ AnswerItems(p) \/ AnswerBalancerPlans(p) \/ AnswerBalancer(p)
    \/ MakeBalancer(p) \/ ReserveIp(p)
=============================================================================
