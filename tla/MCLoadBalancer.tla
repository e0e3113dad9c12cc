--------------------------- MODULE MCLoadBalancer ---------------------------
(***************************************************************************)
(* Constants of the lb runs: two group names, three servers of which two   *)
(* have one name, one rule, one certificate, two VPCs. A balancer is made  *)
(* by `lb create`, or was made in the dashboard: with rules, or with a VPC *)
(* and a type that is not told, without a reserved IP and with one.        *)
(***************************************************************************)
EXTENDS LoadBalancerProperties, TLC

At(name, address) == [backend_name |-> name, address |-> address]

S1 == At("s1", 1)
S1Again == At("s1", 2)
S2 == At("s2", 1)

MCServer == {S1, S1Again, S2}

TwoGroups ==
    [mode |-> "HTTP",
     groups |-> {[name |-> "web", servers |-> <<S1, S2>>],
                 [name |-> "api", servers |-> <<S1>>]},
     acl_list |-> {"rule"},
     acl_map |-> {[acl_name |-> "rule", acl_backend |-> "api"]},
     certificate |-> None,
     ssl_context |-> [certificate |-> None, redirect |-> FALSE],
     type |-> "external", vpcs |-> {}, reserved |-> FALSE]

Untold(reserved) ==
    [TwoGroups EXCEPT !.type = "unknown", !.vpcs = {"v1"}, !.reserved = reserved]

MCInitialBalancers == {None, TwoGroups, Untold(FALSE), Untold(TRUE)}

Plain == [op |-> "delete", group |-> None, name |-> None, servers |-> <<>>,
          server |-> None, mode |-> None, certificate |-> None,
          redirect |-> FALSE, type |-> "external", vpc |-> None,
          reserve |-> FALSE]

OnGroup(op, group) == [Plain EXCEPT !.op = op, !.group = group]

CreateOf(mode, servers) ==
    [OnGroup("create", "web") EXCEPT !.mode = mode, !.servers = servers]

Creates ==
    {CreateOf("HTTP", <<S1>>),
     [CreateOf("HTTP", <<S1, S2>>) EXCEPT !.type = "internal", !.vpc = "v1"],
     [CreateOf("TCP", <<S1, S1Again>>) EXCEPT !.vpc = "v1", !.reserve = TRUE],
     [CreateOf("HTTP", <<S1>>) EXCEPT !.type = "internal"],
     [CreateOf("HTTPS", <<S1>>) EXCEPT !.certificate = "cert", !.reserve = TRUE]}

GroupCommands ==
    {[OnGroup("group-add", "api") EXCEPT !.servers = <<S1>>],
     [OnGroup("group-update", "web") EXCEPT !.name = "api"],
     [OnGroup("group-update", "api") EXCEPT !.name = "web"],
     OnGroup("group-update", "web"),
     OnGroup("group-remove", "web"), OnGroup("group-remove", "api"),
     [OnGroup("server-add", "web") EXCEPT !.servers = <<S2>>],
     [OnGroup("server-add", "web") EXCEPT !.servers = <<S1Again>>],
     [OnGroup("server-remove", "web") EXCEPT !.server = "s1"],
     [OnGroup("server-remove", "web") EXCEPT !.server = "s2"]}

UpdateOf(mode, certificate, redirect) ==
    [Plain EXCEPT !.op = "update", !.mode = mode,
                  !.certificate = certificate, !.redirect = redirect]

Updates ==
    {UpdateOf(None, None, FALSE), UpdateOf("HTTP", None, FALSE),
     UpdateOf("HTTPS", None, FALSE), UpdateOf("BOTH", "cert", TRUE),
     UpdateOf("TCP", None, FALSE), UpdateOf(None, "cert", FALSE)}

VpcCommands ==
    {[Plain EXCEPT !.op = op, !.vpc = v] :
        op \in {"vpc-attach", "vpc-detach"}, v \in {"v1", "v2"}}

MCCommands == {Plain} \cup Creates \cup GroupCommands \cup Updates \cup VpcCommands

\* For two processes at once: commands on groups and servers ...
MCGroupCommands ==
    {Plain, CreateOf("TCP", <<S1, S2>>), CreateOf("HTTP", <<S1>>)}
      \cup GroupCommands

\* ... and commands on the protocol, the certificate and the network, with one
\* command that changes none of these.
MCSettingsCommands ==
    {OnGroup("group-update", "web"),
     [CreateOf("TCP", <<S1>>) EXCEPT !.vpc = "v1", !.reserve = TRUE],
     [CreateOf("HTTP", <<S1>>) EXCEPT !.type = "internal", !.vpc = "v1"],
     [CreateOf("HTTP", <<S1>>) EXCEPT !.type = "internal"],
     [CreateOf("HTTPS", <<S1>>) EXCEPT !.certificate = "cert", !.reserve = TRUE]}
      \cup Updates \cup VpcCommands

\* Both menus at once are too much for TLC; each of them is checked in full.
MCTwoMenus == {MCGroupCommands, MCSettingsCommands}

MCAllCommands == {MCCommands}

Symmetry == Permutations(Client)
=============================================================================
