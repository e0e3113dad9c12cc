----------------------- MODULE LoadBalancerProperties -----------------------
(***************************************************************************)
(* What the lb commands must keep true of the balancer, alone, side by side*)
(* and with requests that are lost or applied late.                        *)
(***************************************************************************)
EXTENDS LoadBalancer

\* The balancer can serve: it has a group, a TCP balancer has one only, no two
\* groups have one name, and every group has a server.
Serves(balancer) ==
    /\ balancer.groups # {}
    /\ IsNlb(balancer) => Cardinality(balancer.groups) = 1
    /\ \A g \in balancer.groups : g.servers # <<>>
    /\ \A g, h \in balancer.groups : g.name = h.name => g = h

\* LAST_BACKEND_GROUP_NOT_DELETABLE, LAST_BACKEND_SERVER_NOT_DELETABLE and
\* NLB_SINGLE_BACKEND_GROUP are decided on what a GET returned; two processes
\* that each remove one of the last two servers still leave one, because each
\* PUT carries the whole state that its own check was made on.
KeepsServing == Live => Serves(lb)

\* "The CLI does not allow changing an ALB to TCP or a TCP NLB to an ALB
\* protocol", not even by a PUT that arrives after the balancer was changed.
FamilyNeverChanges ==
    [][Live /\ Live' => (IsNlb(lb) <=> IsNlb(lb)')]_vars

\* An internal balancer has a VPC and no reserved IP, and no IP is reserved
\* beside several VPCs, since detachVpc would make that internal. A type that
\* is not told counts as the one that the next command will take it for.
KeepsPrivate(balancer) ==
    /\ ExistingType(balancer) = "internal" =>
         balancer.vpcs # {} /\ ~balancer.reserved
    /\ balancer.reserved => \A v, w \in balancer.vpcs : v = w

\* So it is of the balancer, and of whatever the requests under way make of it.
StaysPrivate ==
    /\ Live => KeepsPrivate(lb)
    /\ \A p \in Client : request[p] # None =>
         /\ request[p].method = "POST" => KeepsPrivate(request[p].body)
         /\ request[p].method = "PUT" /\ Live =>
              \A b \in Applied(lb, request[p].body) : KeepsPrivate(b)

\* "VPC attachment switches the LB to internal and clears the reserved public
\* IP field", and detaching the last VPC switches it back: what is private stays
\* so, whatever order attachments, detachments and PUTs that repeat what they
\* have read arrive in. Only a balancer found otherwise can become an internal
\* one with a reserved IP: one whose lb_type is not told has both a VPC and an
\* IP, and the next PUT calls it internal and repeats lb_reserve_ip.
InternalIsPrivate == [][StaysPrivate => StaysPrivate']_vars

\* "HTTPS and BOTH require --ssl-certificate-id", also of an update that finds
\* the certificate in what it read. Most PUTs do not contain
\* ssl_certificate_id, so a PUT that restores HTTPS must not meet a balancer
\* whose certificate another PUT has cleared.
IsSecured(balancer) ==
    balancer.mode \in SslModes => KnownCertificate(balancer) # None

SecureModesHaveCertificate == Live => IsSecured(lb)

\* What is assumed of a balancer that was not made by `lb create`: it serves,
\* it has a certificate where it needs one, and finitely many groups. Its type,
\* VPCs and reserved IP may be anything.
ASSUME InitialAssumption ==
    \A b \in InitialBalancers \ {None} :
        Serves(b) /\ IsSecured(b) /\ IsFiniteSet(b.groups)

-----------------------------------------------------------------------------
\* Commands run one at a time change the groups, the servers and the routes
\* as the service promises, each command at once or not at all.
ServersIn(balancer) ==
    [n \in GroupName |-> IF n \in GroupNames(balancer)
                         THEN (CHOOSE g \in Named(balancer, n) : TRUE).servers
                         ELSE None]

Phase == IF Live THEN "live" ELSE IF lb = None THEN "none" ELSE "gone"

ServersByName == IF Live THEN ServersIn(lb) ELSE [n \in GroupName |-> None]

Routes == IF Live THEN lb.acl_map ELSE {}

Abstract == INSTANCE BalancerService WITH
    phase <- Phase, servers <- ServersByName, routes <- Routes

\* One shell implements the service: a PUT is one change of one group, server
\* or route, or nothing that the service speaks of.
ImplementsBalancerService == Abstract!Spec

-----------------------------------------------------------------------------
\* "deletes an ALB backend group and removes stale ACL references": no rule
\* routes to a group that is not there.
NoStaleAclReferences ==
    Live => \A r \in lb.acl_map : r.acl_backend \in GroupNames(lb)

\* "Server names must be unique within a backend group."
UniqueServerNames ==
    Live => \A g \in lb.groups : \A i, j \in DOMAIN g.servers :
                g.servers[i].backend_name = g.servers[j].backend_name => i = j
=============================================================================
