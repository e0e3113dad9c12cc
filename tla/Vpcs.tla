-------------------------------- MODULE Vpcs --------------------------------
(***************************************************************************)
(* VpcService: create, delete and the commands that only read. A custom    *)
(* network is given as a CIDR block, an address with the length of its     *)
(* prefix; the address must be the first one of the block.                 *)
(***************************************************************************)
EXTENDS PagedLists

CONSTANTS
    OldVpcs,     \* the networks at first: a function from ids to what Vpc makes
    NewVpcs,     \* ids the API gives to new networks
    AddressBits  \* bits of an address

VARIABLES vpcs   \* the networks of the API

VpcsInit == vpcs = OldVpcs

Vpc(block, committed, renewal) ==
    [block |-> block, committed |-> committed, renewal |-> renewal]

-----------------------------------------------------------------------------
BlockSize(prefix) == 2 ^ (AddressBits - prefix)

\* A faulty variant: host bits are ignored.
IsBlockPrefix(block) == block.prefix \in 0 .. AddressBits

\* normalizeCustomCidr
IsBlock(block) ==
    /\ block.prefix \in 0 .. AddressBits
    /\ (block.address \div BlockSize(block.prefix)) * BlockSize(block.prefix)
         = block.address

IsVpcOrder(line) ==
    /\ IsBilling(line)
    /\ line.source = "custom" <=> line.block # None
    /\ line.block # None => IsBlock(line.block)

CreateVpc(p) ==
    /\ Begins(p, "vpc-create") /\ IsVpcOrder(cmd[p])
    /\ Ask(p, "vpc-made",
           Request("POST", "vpcs",
                   Vpc(cmd[p].block, cmd[p].committed, Renewal(cmd[p]))))

VpcMade(p) == pc[p] = "vpc-made" /\ Has(p, "ok") /\ Succeed(p, Value(p))

DeleteVpc(p) ==
    SendChange(p, "vpc-delete", Request("DELETE", "vpc", cmd[p].target))

GetVpc(p, id, label, found) == AskWith(p, label, Request("GET", "vpc", id), found)

ShowVpc(p) ==
    Begins(p, "vpc-get") /\ GetVpc(p, cmd[p].target, "vpc-show", report[p])

ShowVpcPlans(p) ==
    Begins(p, "vpc-plans") /\ Ask(p, "vpc-show", Request("GET", "vpc-plans", None))

VpcShown(p) == pc[p] = "vpc-show" /\ Has(p, "ok") /\ Succeed(p, Value(p))

-----------------------------------------------------------------------------
(* The API (external). It finds a block for a network that has none.       *)

MakeVpc(p) ==
    /\ \E m \in wire[p], id \in NewVpcs :
         /\ m.request.path = "vpcs"
         /\ \A q \in Proc : id \notin created[q]
         /\ Take(p, m, id)
         /\ vpcs' = [k \in DOMAIN vpcs \cup {id} |->
                       IF k = id THEN m.request.arg ELSE vpcs[k]]
         /\ created' = [created EXCEPT ![p] = @ \cup {id}]
    /\ UNCHANGED <<progressVars, disturbed>>

DropVpc(p) ==
    /\ \E m \in wire[p] :
         /\ m.request.path = "vpc" /\ m.request.method = "DELETE"
         /\ m.request.arg \in DOMAIN vpcs
         /\ Take(p, m, None)
         /\ vpcs' = [k \in DOMAIN vpcs \ {m.request.arg} |-> vpcs[k]]
    /\ disturbed' = disturbed \cup Paging("vpcs")
    /\ UNCHANGED <<progressVars, created>>

\* The details of a network hold its id.
AnswerVpc(p) ==
    /\ Waits(p, "vpc") /\ call[p].request.arg \in DOMAIN vpcs
    /\ AnswerGet(p, "vpc", call[p].request.arg)
    /\ UNCHANGED <<commandVars, vpcs>>

AnswerVpcPlans(p) ==
    AnswerGet(p, "vpc-plans", None) /\ UNCHANGED <<commandVars, vpcs>>

-----------------------------------------------------------------------------
VpcStep(p) ==
    /\ \/ CreateVpc(p) \/ VpcMade(p) \/ DeleteVpc(p) \/ ShowVpc(p)
       \/ ShowVpcPlans(p) \/ VpcShown(p)
       \/ Uncaught(p, {"vpc-made", "vpc-show"})
    /\ UNCHANGED vpcs

VpcApi(p) == MakeVpc(p) \/ DropVpc(p) \/ AnswerVpc(p) \/ AnswerVpcPlans(p)
=============================================================================
