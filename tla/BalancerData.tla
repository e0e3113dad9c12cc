---------------------------- MODULE BalancerData ----------------------------
(***************************************************************************)
(* What the API keeps for one load balancer, and the pure functions of     *)
(* src/src/load-balancer (service.ts and mappers.ts) that compute the next *)
(* state of it from the state a command has read.                          *)
(*                                                                         *)
(* backends (HTTP, HTTPS, BOTH) and tcp_backend (TCP) are one set of       *)
(* groups, of which a balancer has one kind. Ports, algorithms, timeouts,  *)
(* billing and names of balancers are left out; addresses of servers are   *)
(* kept, because two servers may have one name.                            *)
(***************************************************************************)
EXTENDS Naturals, Sequences, FiniteSets, SequencesExt

CONSTANTS
    GroupName,   \* names of backend groups
    Server,      \* servers, records with the field backend_name
    Acl,         \* names of ACL rules
    Certificate, \* SSL certificate ids
    Vpc,         \* ids of VPC networks
    None,        \* an absent optional value
    Absent       \* a field that a PUT request does not contain

ASSUME BalancerAssumption ==
    /\ None \notin GroupName \cup Certificate \cup Vpc \cup Seq(Server)
    /\ Absent \notin Certificate \cup {None}

Mode == {"HTTP", "HTTPS", "BOTH", "TCP"}

SslModes == {"HTTPS", "BOTH"}

Group == [name : GroupName, servers : Seq(Server)]

AclMapRule == [acl_name : Acl, acl_backend : GroupName]

(***************************************************************************)
(* certificate is the field ssl_certificate_id; ssl_context holds another  *)
(* copy of it and redirect_to_https. reserved: lb_reserve_ip is not empty. *)
(* A GET may tell no lb_type, or one that the CLI does not know: unknown.  *)
(***************************************************************************)
Type == {"external", "internal"}

BalancerWith(certificates, types) ==
    [mode : Mode, groups : SUBSET Group,
     acl_list : SUBSET Acl, acl_map : SUBSET AclMapRule,
     certificate : certificates,
     ssl_context : [certificate : Certificate \cup {None}, redirect : BOOLEAN],
     type : types, vpcs : SUBSET Vpc, reserved : BOOLEAN]

Balancer == BalancerWith(Certificate \cup {None}, Type \cup {"unknown"})

Payload == BalancerWith(Certificate \cup {None, Absent}, Type)

(***************************************************************************)
(* The options of one command. An option that is not given is None; the    *)
(* empty sequence of servers stands for no --backend-group-server.         *)
(***************************************************************************)
Ops == {"create", "delete", "update", "group-add", "group-update",
        "group-remove", "server-add", "server-remove", "vpc-attach",
        "vpc-detach"}

Command ==
    [op : Ops, group : GroupName \cup {None}, name : GroupName \cup {None},
     servers : Seq(Server), server : {s.backend_name : s \in Server} \cup {None},
     mode : Mode \cup {None}, certificate : Certificate \cup {None},
     redirect : BOOLEAN, type : Type,
     vpc : Vpc \cup {None}, reserve : BOOLEAN]

-----------------------------------------------------------------------------
IsNlb(lb) == lb.mode = "TCP"

GroupNames(lb) == {g.name : g \in lb.groups}

Named(lb, name) == {g \in lb.groups : g.name = name}

Positions(servers, name) ==
    {i \in DOMAIN servers : servers[i].backend_name = name}

\* normalizeExistingLoadBalancerType: a type that is not told is guessed from
\* the VPCs, whether or not an IP is reserved.
ExistingType(lb) ==
    IF lb.type \in Type THEN lb.type
    ELSE IF lb.vpcs # {} THEN "internal" ELSE "external"

\* buildLoadBalancerPutPayload: what a PUT repeats of the balancer as it was
\* read; only `lb update` sends ssl_certificate_id.
Repeated(lb) == [lb EXCEPT !.certificate = Absent, !.type = ExistingType(lb)]

\* getContextSslCertificateId
KnownCertificate(lb) ==
    IF lb.certificate # None THEN lb.certificate ELSE lb.ssl_context.certificate

-----------------------------------------------------------------------------
\* createLoadBalancer: the options it refuses.
CreateRefused(c) ==
    \/ c.type = "internal" /\ (c.vpc = None \/ c.reserve)
    \/ c.mode \in SslModes /\ c.certificate = None
    \/ c.servers = <<>>

CreateRequest(c) ==
    [mode |-> c.mode,
     groups |-> {[name |-> c.group, servers |-> c.servers]},
     acl_list |-> {}, acl_map |-> {},
     certificate |-> IF c.mode \in SslModes THEN c.certificate ELSE None,
     ssl_context |-> [certificate |-> None, redirect |-> FALSE],
     type |-> c.type, vpcs |-> {c.vpc} \ {None}, reserved |-> c.reserve]

\* updateLoadBalancer
NextMode(lb, c) == IF c.mode = None THEN lb.mode ELSE c.mode

\* Faulty variants: the protocol family or the certificate is not checked.
UpdateRefusedForCertificate(lb, c) ==
    \/ c.certificate # None /\ IsNlb(lb)
    \/ NextMode(lb, c) \in SslModes /\ c.certificate = None
         /\ KnownCertificate(lb) = None
    \/ c.redirect /\ NextMode(lb, c) # "BOTH"

UpdateRefusedForFamily(lb, c) ==
    \/ IsNlb(lb) # (NextMode(lb, c) = "TCP")
    \/ c.certificate # None /\ IsNlb(lb)
    \/ c.redirect /\ NextMode(lb, c) # "BOTH"

UpdateRefused(lb, c) ==
    \/ IsNlb(lb) # (NextMode(lb, c) = "TCP")
    \/ c.certificate # None /\ IsNlb(lb)
    \/ NextMode(lb, c) \in SslModes /\ c.certificate = None
         /\ KnownCertificate(lb) = None
    \/ c.redirect /\ NextMode(lb, c) # "BOTH"

Updated(lb, c) ==
    LET certificate == IF c.certificate # None THEN c.certificate
                       ELSE KnownCertificate(lb)
    IN  [lb EXCEPT !.mode = NextMode(lb, c),
                   !.certificate = certificate, !.type = ExistingType(lb),
                   !.ssl_context = [certificate |-> certificate,
                                    redirect |-> c.redirect \/ @.redirect]]

\* createBackendGroup
GroupAddRefused(lb, c) ==
    \/ IsNlb(lb) /\ lb.groups # {}
    \/ ~IsNlb(lb) /\ c.group \in GroupNames(lb)
    \/ c.servers = <<>>

GroupAdded(lb, c) ==
    [Repeated(lb) EXCEPT
        !.groups = @ \cup {[name |-> c.group, servers |-> c.servers]}]

\* updateBackendGroup, buildBackendGroupUpdateMutation
GroupUpdateRefused(lb, c) ==
    \/ c.group \notin GroupNames(lb)
    \/ c.name \notin {None, c.group} /\ c.name \in GroupNames(lb)

\* A faulty variant: a name that is not given is written all the same.
GroupUpdatedBlindly(lb, c) ==
    [Repeated(lb) EXCEPT
        !.groups = {IF g.name = c.group THEN [g EXCEPT !.name = c.name] ELSE g :
                    g \in lb.groups}]

GroupUpdated(lb, c) ==
    LET name == IF c.name = None THEN c.group ELSE c.name
    IN  [Repeated(lb) EXCEPT
            !.groups = {IF g.name = c.group THEN [g EXCEPT !.name = name] ELSE g :
                        g \in lb.groups}]

\* deleteBackendGroup, buildBackendGroupDeleteMutation
GroupRemoveRefused(lb, c) ==
    \/ c.group \notin GroupNames(lb)
    \/ Cardinality(lb.groups) <= 1

\* filterAclForRemainingBackends
AclMapForRemaining(lb, groups) ==
    {r \in lb.acl_map : r.acl_backend \in {g.name : g \in groups}}

GroupRemoved(lb, c) ==
    LET groups == lb.groups \ Named(lb, c.group)
        map    == AclMapForRemaining(lb, groups)
    IN  IF IsNlb(lb) THEN [Repeated(lb) EXCEPT !.groups = groups]
        ELSE [Repeated(lb) EXCEPT
                !.groups = groups, !.acl_map = map,
                !.acl_list = @ \cap {r.acl_name : r \in map}]

\* addBackendServer, buildBackendServerAddMutation
ServerAddRefused(lb, c) ==
    \/ c.group \notin GroupNames(lb)
    \/ \E g \in Named(lb, c.group) :
         Positions(g.servers, c.servers[1].backend_name) # {}

\* A faulty variant: the new server replaces the ones that were there.
ServerReplaced(lb, c) ==
    [Repeated(lb) EXCEPT
        !.groups = {IF g.name = c.group THEN [g EXCEPT !.servers = c.servers]
                    ELSE g : g \in lb.groups}]

ServerAdded(lb, c) ==
    [Repeated(lb) EXCEPT
        !.groups = {IF g.name = c.group
                    THEN [g EXCEPT !.servers = Append(g.servers, c.servers[1])]
                    ELSE g : g \in lb.groups}]

\* A faulty variant: the last server may be removed.
ServerRemoveRefusedIfUnclear(lb, c) ==
    \/ c.group \notin GroupNames(lb)
    \/ \E g \in Named(lb, c.group) :
         Cardinality(Positions(g.servers, c.server)) # 1

\* deleteBackendServer, buildServerDeleteResult, removeServerByName
ServerRemoveRefused(lb, c) ==
    \/ c.group \notin GroupNames(lb)
    \/ \E g \in Named(lb, c.group) :
         \/ Len(g.servers) <= 1
         \/ Cardinality(Positions(g.servers, c.server)) # 1

WithoutServer(servers, name) ==
    RemoveAt(servers, CHOOSE i \in Positions(servers, name) : TRUE)

ServerRemoved(lb, c) ==
    [Repeated(lb) EXCEPT
        !.groups = {IF g.name = c.group
                    THEN [g EXCEPT !.servers = WithoutServer(g.servers, c.server)]
                    ELSE g : g \in lb.groups}]

\* attachVpc
VpcAttached(lb, c) ==
    [Repeated(lb) EXCEPT !.reserved = FALSE, !.type = "internal",
                         !.vpcs = {c.vpc}]

\* A faulty variant: the type stays as it was.
VpcDetachedKeepingType(lb, c) == [Repeated(lb) EXCEPT !.vpcs = @ \ {c.vpc}]

\* detachVpc
VpcDetached(lb, c) ==
    LET remaining == lb.vpcs \ {c.vpc}
    IN  [Repeated(lb) EXCEPT
            !.type = IF remaining = {} THEN "external" ELSE "internal",
            !.vpcs = remaining]

-----------------------------------------------------------------------------
\* Whether a command refuses to change the balancer it has read ...
Refused(lb, c) ==
    CASE c.op = "update"        -> UpdateRefused(lb, c)
      [] c.op = "group-add"     -> GroupAddRefused(lb, c)
      [] c.op = "group-update"  -> GroupUpdateRefused(lb, c)
      [] c.op = "group-remove"  -> GroupRemoveRefused(lb, c)
      [] c.op = "server-add"    -> ServerAddRefused(lb, c)
      [] c.op = "server-remove" -> ServerRemoveRefused(lb, c)
      [] c.op = "vpc-attach"    -> FALSE
      [] c.op = "vpc-detach"    -> c.vpc \notin lb.vpcs

\* ... and the PUT request it makes of it otherwise.
MutationPayload(lb, c) ==
    CASE c.op = "update"        -> Updated(lb, c)
      [] c.op = "group-add"     -> GroupAdded(lb, c)
      [] c.op = "group-update"  -> GroupUpdated(lb, c)
      [] c.op = "group-remove"  -> GroupRemoved(lb, c)
      [] c.op = "server-add"    -> ServerAdded(lb, c)
      [] c.op = "server-remove" -> ServerRemoved(lb, c)
      [] c.op = "vpc-attach"    -> VpcAttached(lb, c)
      [] c.op = "vpc-detach"    -> VpcDetached(lb, c)
=============================================================================
