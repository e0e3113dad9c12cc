---------------------------- MODULE ReservedIps ----------------------------
(***************************************************************************)
(* ReservedIpService: create, delete, get, list. An address that was       *)
(* allocated need not be in the inventory yet; create waits for it there.  *)
(***************************************************************************)
EXTENDS CliCommand

CONSTANTS
    OldIps,      \* addresses allocated at first
    NewIps,      \* addresses the API can allocate
    PollAttempts \* RESERVED_IP_POLL_ATTEMPTS

VARIABLES
    ips,      \* the allocated addresses
    inventory \* those that the inventory shows

ipVars == <<ips, inventory>>

IpsInit == ips = OldIps /\ inventory = OldIps

\* The commands that have found this address free, and count on it.
Planning(ip) ==
    {q \in Proc : /\ cmd[q].op = "lb-create" /\ cmd[q].reserve = ip
                  /\ \/ pc[q] = "lb-ip" /\ Has(q, "ok")
                     \/ pc[q] \in {"lb-plans", "lb-vpc", "lb-made", "end"}}

-----------------------------------------------------------------------------
\* The API (external): allocation, the inventory that follows it, release.
AllocateIp(p) ==
    /\ \E m \in wire[p], ip \in NewIps \ ips :
         /\ m.request.path = "ips" /\ m.request.method = "POST"
         /\ \A q \in Proc : ip \notin created[q]
         /\ Take(p, m, ip)
         /\ ips' = ips \cup {ip}
         /\ created' = [created EXCEPT ![p] = @ \cup {ip}]
    /\ UNCHANGED <<progressVars, disturbed, inventory>>

ShowIp ==
    /\ \E ip \in ips \ inventory : inventory' = inventory \cup {ip}
    /\ UNCHANGED <<transportVars, commandVars, ips>>

ReleaseIp(p) ==
    /\ \E m \in wire[p] :
         /\ m.request.path = "ips" /\ m.request.method = "DELETE"
         /\ m.request.arg \in ips
         /\ Take(p, m, None)
         /\ ips' = ips \ {m.request.arg}
         /\ inventory' = inventory \ {m.request.arg}
         /\ disturbed' = disturbed \cup Planning(m.request.arg)
    /\ UNCHANGED <<progressVars, created>>

AnswerInventory(p) ==
    AnswerGet(p, "inventory", inventory) /\ UNCHANGED <<commandVars, ipVars>>

-----------------------------------------------------------------------------
\* The argument of the request is the number of the poll.
Inventory(n) == Request("GET", "inventory", n)

CreateIp(p) ==
    Begins(p, "ip-create") /\ Ask(p, "ip-create", Request("POST", "ips", None))

IpCreated(p) ==
    /\ pc[p] = "ip-create" /\ Has(p, "ok")
    /\ AskWith(p, "ip-poll", Inventory(1), Value(p))

Polled(p) == pc[p] = "ip-poll" /\ Has(p, "ok")

IpShown(p) == Polled(p) /\ report[p] \in Value(p) /\ Succeed(p, report[p])

\* A faulty variant: the attempts are not counted.
PollForever(p) ==
    /\ Polled(p) /\ report[p] \notin Value(p)
    /\ Ask(p, "ip-poll", Inventory(1))

PollAgain(p) ==
    /\ Polled(p) /\ report[p] \notin Value(p)
    /\ call[p].request.arg < PollAttempts
    /\ Ask(p, "ip-poll", Inventory(call[p].request.arg + 1))

\* RESERVED_IP_INVENTORY_TIMEOUT
NeverShown(p) ==
    /\ Polled(p) /\ report[p] \notin Value(p)
    /\ call[p].request.arg >= PollAttempts
    /\ Fail(p)

DeleteIp(p) ==
    SendChange(p, "ip-delete", Request("DELETE", "ips", cmd[p].target))

GetIp(p) == Begins(p, "ip-get") /\ Ask(p, "ip-get", Inventory(1))

IpFound(p) ==
    /\ pc[p] = "ip-get" /\ Has(p, "ok") /\ cmd[p].target \in Value(p)
    /\ Succeed(p, cmd[p].target)

\* RESERVED_IP_NOT_FOUND
IpNotFound(p) ==
    pc[p] = "ip-get" /\ Has(p, "ok") /\ cmd[p].target \notin Value(p) /\ Fail(p)

ListIps(p) == Begins(p, "ip-list") /\ Ask(p, "ip-list", Inventory(1))

IpsListed(p) == pc[p] = "ip-list" /\ Has(p, "ok") /\ Succeed(p, Value(p))

-----------------------------------------------------------------------------
IpStep(p) ==
    /\ \/ CreateIp(p) \/ IpCreated(p) \/ IpShown(p) \/ PollAgain(p)
       \/ NeverShown(p) \/ DeleteIp(p) \/ GetIp(p) \/ IpFound(p)
       \/ IpNotFound(p) \/ ListIps(p) \/ IpsListed(p)
       \/ Uncaught(p, {"ip-create", "ip-poll", "ip-get", "ip-list"})
    /\ UNCHANGED ipVars

IpApi(p) == AllocateIp(p) \/ ReleaseIp(p) \/ AnswerInventory(p)
=============================================================================
