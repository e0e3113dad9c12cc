--------------------------- MODULE MCProvisioning ---------------------------
(***************************************************************************)
(* Constants of the provisioning runs: pages of one volume, a limit of     *)
(* three pages, two polls, two nodes whose VMs have each other's ids,      *)
(* addresses of three bits, and the pairs of commands that touch one kind  *)
(* of resource.                                                            *)
(***************************************************************************)
EXTENDS ProvisioningProperties, TLC

CONSTANTS p1, p2, v1, v2, v3, v4, v5, i0, i1, i2, i3, i4, g0, g1, g2, a, b, d0, d1,
          x1, x2, x3, x4, x5, s1, s2, s3, k1, k2, k3, w1, w2, m0, m1, m2, l1, l2, l3, l4, l5,
          n0, n1, n2, c0, c1, c2, c3, e1, e2, e3, e4, e5, t1, t2, t3, t4, r0, r1

Line(op, target) ==
    [op |-> op, target |-> target, name |-> a, description |-> None,
     rules |-> {s2}, force |-> FALSE]

Forced(op, target) == [Line(op, target) EXCEPT !.force = TRUE]

Described1(line) == [line EXCEPT !.description = d1]

Pair(first, second) == (p1 :> first) @@ (p2 :> second)

MCOldGroups == {Group(g0, [name |-> b, description |-> d0, rules |-> {s1}])}

DeletionPairs ==
    {Pair(Forced("volume-delete", v2), Forced("volume-delete", v1))}

VolumeOrder(op, size, billing, committed, renewal) ==
    [op |-> op, target |-> None, force |-> FALSE, size |-> size, available |-> TRUE,
     billing |-> billing, committed |-> committed, renewal |-> renewal]

SmallVolume == VolumeOrder("volume-create", 1, "hourly", None, None)

VolumeOrders ==
    {VolumeOrder("volume-create", 1, "committed", w1, None),
     VolumeOrder("volume-create", 1, "committed", w2, "hourly-billing"),
     VolumeOrder("volume-create", 2, "hourly", None, "auto-renew"),
     VolumeOrder("volume-create", 3, "hourly", None, None)}

VolumeListPairs ==
    {Pair(Line("volume-list", None), Forced("volume-delete", v1)),
     Pair(Line("volume-list", None), SmallVolume)}

VolumePairs ==
    DeletionPairs \cup VolumeListPairs \cup
    {Pair(Line("volume-delete", v2), SmallVolume),
     Pair(Forced("volume-delete", v4), SmallVolume),
     Pair(SmallVolume, SmallVolume),
     Pair(VolumeOrder("volume-plans", None, None, None, None),
          VolumeOrder("volume-plans", 1, None, None, None))}
    \cup {Pair(order, Line("volume-get", v1)) : order \in VolumeOrders}

Offer(size, iops, available, terms) ==
    [plan |-> [size |-> size, iops |-> iops, price |-> 1, available |-> available],
     terms |-> {[id |-> t, days |-> 30] : t \in terms}]

Lasting(offer, days) ==
    [offer EXCEPT !.terms = {[t EXCEPT !.days = days] : t \in @}]

\* One plan of size 1 with two terms; two plans; an unavailable one (each with a
\* speed of its own, which tells what was bought from which); a term with
\* two durations, and one with none.
MCVolumeCatalogs ==
    {{Offer(1, 10, TRUE, {w1}), Offer(1, 10, TRUE, {w2}), Offer(2, 20, TRUE, {})},
     {Offer(1, 30, TRUE, {w1}), Offer(1, 20, FALSE, {w1})},
     {Offer(1, 40, FALSE, {w1})},
     {Offer(1, 10, TRUE, {w1}), Lasting(Offer(1, 10, TRUE, {w1}), 90)},
     {Lasting(Offer(1, 10, TRUE, {w1}), None)}}

ListPairs ==
    {Pair(Line("lb-list", None), Line("ssl-list", None))}

\* An external balancer with an address of its own, an internal one, and one that
\* has no address yet.
Unsold == [plan |-> None, committed |-> None, renewal |-> None]

MCOldBalancers ==
    (l1 :> Balancer("external", i4, Unsold, None))
      @@ (l2 :> Balancer("internal", None, Unsold, n0))
      @@ (l3 :> Balancer("external", None, Unsold, None))

\* The name of one plan is the template of another.
Committed(id, name) == [id |-> id, name |-> name]

BasePlan(name, template, committed) ==
    [name |-> name, template |-> template, committed |-> committed]

MCBalancerCatalogs ==
    LET first  == BasePlan(a, b, <<Committed(w1, d1), Committed(w2, d1)>>)
        second == BasePlan(b, d0, <<Committed(w2, d0)>>)
    IN  {<<first, second>>, <<second, first>>, <<>>}

BalancerOrder(reserve, plan, billing, committed, committedName) ==
    [op |-> "lb-create", target |-> None, force |-> FALSE, type |-> "external",
     reserve |-> reserve, plan |-> plan, billing |-> billing,
     committed |-> committed, committedName |-> committedName,
     renewal |-> None, vpc |-> None]

Internal(order, vpc) == [order EXCEPT !.type = "internal", !.vpc = vpc]

\* New networks, clusters, balancers and hosts come first or last.
MCListingOrder == <<n1, n0, n2, c2, c0, c1, c3, l4, l1, l2, l3, l5, i0, i1, i2, i3>>

IpPairs ==
    {Pair(Line("ip-create", None), Line("ip-create", None)),
     Pair(Line("ip-create", None), Forced("ip-delete", i1)),
     Pair(Line("ip-get", i0), Line("ip-delete", i0)),
     Pair(Line("ip-list", None), Forced("ip-delete", i0))}

GroupPairs ==
    {Pair(Line("group-create", None), Described1(Line("group-create", None))),
     Pair(Line("group-create", None), Forced("group-delete", g1)),
     Pair(Line("group-create", None), Line("group-update", g0)),
     Pair([Line("group-create", None) EXCEPT !.name = b], Line("group-update", g1)),
     Pair(Line("group-update", g0), Described1(Line("group-update", g0))),
     Pair(Line("group-update", g0), Line("group-delete", g0)),
     Pair([Line("group-update", g0) EXCEPT !.rules = None],
          [Line("group-create", None) EXCEPT !.rules = None]),
     Pair(Line("group-get", g0), Described1(Line("group-update", g0))),
     Pair(Line("group-list", None), Line("group-create", None))}

\* Each of the first two nodes has a VM with the id of the other.
MCVmOf == (x1 :> x2) @@ (x2 :> x1) @@ (x3 :> x3) @@ (x4 :> x4)
            @@ (x5 :> x5)

AttachedTo(inGroups) ==
    [kind \in Kinds |-> CASE kind = "groups" -> inGroups
                          [] kind = "volumes" -> {v1}
                          [] OTHER -> {}]

MCOldNodes ==
    (x1 :> Node("C3", None, None, i3, AttachedTo({s1, s2}))) @@
    (x2 :> Node("C3", None, None, None, AttachedTo({s1}))) @@
    (x5 :> Node("C3", None, None, None, AttachedTo({})))

NodeLine(op, node, kind, items) ==
    [op |-> op, node |-> node, target |-> node, kind |-> kind, items |-> items,
     force |-> FALSE]

ForcedNode(op, node, kind, items) ==
    [NodeLine(op, node, kind, items) EXCEPT !.force = TRUE]

BalancerPairs ==
    {Pair(BalancerOrder(i0, a, None, None, None), NodeLine("ip-attach", x2, None, i0)),
     Pair(BalancerOrder(i0, a, None, None, None), BalancerOrder(i0, a, None, None, None)),
     Pair(BalancerOrder(i0, b, "committed", None, d1), Forced("ip-delete", i0)),
     Pair(Internal(BalancerOrder(None, b, None, w2, None), n0), Forced("vpc-delete", n0)),
     Pair([BalancerOrder(None, a, "hourly", None, None) EXCEPT !.renewal = "auto-renew"],
          Line("lb-list", None)),
     Pair(BalancerOrder(None, a, "hourly", None, None), Line("lb-list", None)),
     Pair(Internal(BalancerOrder(None, a, None, None, None), None), Line("lb-get", l1)),
     Pair(Line("lb-reserve", l1), Line("lb-reserve", l1)),
     Pair(Line("lb-reserve", l2), Line("lb-plans", None))}

Order(plan, disk, billing, committed, withKeys) ==
    [op |-> "node-create", node |-> None, target |-> None, kind |-> None,
     items |-> withKeys, force |-> FALSE, plan |-> plan, disk |-> disk,
     billing |-> billing, committed |-> committed]

AttachmentPairs ==
    {Pair(NodeLine("node-detach", x1, "groups", {s1}),
          NodeLine("node-detach", x1, "groups", {s2})),
     Pair(NodeLine("node-detach", x1, "groups", {s1, s2}),
          NodeLine("node-attach", x1, "groups", {s3})),
     Pair(NodeLine("node-detach", x2, "groups", {s1}),
          NodeLine("node-upgrade", x1, None, "E1")),
     Pair(NodeLine("node-detach", x5, "groups", {s1}),
          NodeLine("node-attach", x5, "groups", {s1})),
     Pair(NodeLine("node-attach", x2, "volumes", {v2}),
          NodeLine("node-detach", x1, "volumes", {v1})),
     Pair(NodeLine("node-attach", x1, "keys", {k1, k2}),
          NodeLine("node-attach", x1, "keys", {k1})),
     Pair(NodeLine("node-attach", x1, "vpcs", {w1}),
          NodeLine("node-detach", x1, "vpcs", {w1}))}

AddressPairs ==
    {Pair(NodeLine("node-ip-detach", x1, None, None),
          ForcedNode("node-ip-detach", x1, None, None)),
     Pair(NodeLine("node-ip-detach", x1, None, None),
          NodeLine("ip-detach", x1, None, i3)),
     Pair(NodeLine("ip-attach", x2, None, i0), Forced("ip-delete", i0)),
     Pair(NodeLine("ip-reserve", x1, None, None),
          ForcedNode("node-delete", x1, None, "reserve"))}

Orders ==
    {Order("C3", None, "hourly", None, {}), Order("C3", 100, "hourly", None, {}),
     Order("E1", None, "hourly", None, {}), Order("E1", 175, "hourly", None, {}),
     Order("E1WC", 75, "committed", w1, {k1}),
     Order("E1", 150, "committed", None, {k1}),
     Order("C3", None, "hourly", None, {k1, k2})}

LifePairs ==
    {Pair(order, NodeLine("node-save-image", x1, None, None)) : order \in Orders}
    \cup
    {Pair(NodeLine("node-delete", x2, None, None),
          NodeLine("node-power", x2, None, "off")),
     Pair(NodeLine("node-get", x1, None, None), NodeLine("node-list", None, None, None))}

\* Keys, images and projects.
KeyLine(op, key, readable) ==
    [op |-> op, target |-> key, force |-> FALSE, readable |-> readable]

MCOldImages == m0 :> a

MCOldProjects == r0 :> Project(a, FALSE)

ItemPairs ==
    {Pair(KeyLine("key-create", None, TRUE), KeyLine("key-get", k1, TRUE)),
     Pair(KeyLine("key-create", None, FALSE), KeyLine("key-list", None, TRUE)),
     Pair(KeyLine("key-get", k2, TRUE), KeyLine("key-list", None, TRUE)),
     Pair(KeyLine("key-delete", k1, TRUE), Order("C3", None, "hourly", None, {k1})),
     Pair(Line("image-rename", m0), Line("image-delete", m0)),
     Pair(Line("image-list", None), NodeLine("node-save-image", x1, None, b)),
     Pair(Line("project-create", None), Line("project-list", None)),
     Pair(Line("project-star", r0), Line("project-unstar", r0)),
     Pair(Line("project-star", r1), Line("project-create", None))}

Block(address, prefix) == [address |-> address, prefix |-> prefix]

MCOldVpcs == n0 :> Vpc(None, None, None)

VpcOrder(block, billing, committed, renewal) ==
    [op |-> "vpc-create", target |-> None, force |-> FALSE, billing |-> billing,
     committed |-> committed, renewal |-> renewal, block |-> block,
     source |-> IF block = None THEN "e2e" ELSE "custom"]

VpcOrders ==
    {VpcOrder(None, "hourly", None, None),
     VpcOrder(Block(4, 1), "committed", w1, None),
     VpcOrder(Block(2, 1), "hourly", None, None),
     VpcOrder(Block(0, 0), "committed", w1, "hourly-billing"),
     VpcOrder(Block(7, 3), "hourly", None, "auto-renew"),
     VpcOrder(None, "committed", None, None)}

VpcPairs ==
    {Pair(order, Line("vpc-get", n0)) : order \in VpcOrders}
    \cup {Pair(Line("vpc-delete", n0), VpcOrder(Block(4, 2), "hourly", None, None)),
           Pair(Line("vpc-list", None), VpcOrder(None, "hourly", None, None)),
           Pair(Line("vpc-list", None), Forced("vpc-delete", n0)),
           Pair(Line("vpc-plans", None), Line("vpc-list", None))}

\* Two engines of one type and version, and one that is not supported.
Engine(id, type, version) == [id |-> id, type |-> type, version |-> version]

MCEngines ==
    {Engine(e1, "mysql", "8"), Engine(e2, "postgres", "5"), Engine(e3, "redis", "8"),
     Engine(e4, "maria", "8"), Engine(e5, "maria", "8")}

Plan(id, name) == [id |-> id, name |-> name]

\* Two plans of engine e1 have one name.
MCPlansOf ==
    (e1 :> {Plan(t1, "S"), Plan(t2, "S"), Plan(t3, "M")}) @@ (e2 :> {Plan(t4, "S")})

MCOldClusters ==
    (c0 :> [Cluster(e1, t1, {VpcEntry(n0, s1)}, TRUE, None, "old")
              EXCEPT !.hosts = {i1, i2}])
      @@ (c1 :> Cluster(e3, t2, {}, TRUE, None, "old"))

ClusterOrder(type, version, vpc, public, billing) ==
    [op |-> "db-create", target |-> None, force |-> FALSE, type |-> type,
     version |-> version, plan |-> "S", value |-> "new", vpc |-> vpc, public |-> public,
     subnet |-> IF public = None THEN None ELSE s1, billing |-> billing,
     committed |-> IF billing = "committed" THEN w1 ELSE None, renewal |-> None]

ClusterOrders ==
    {ClusterOrder("mysql", "8", None, None, "hourly"),
     ClusterOrder("postgres", "5", None, "no", "hourly"),
     ClusterOrder("postgres", "5", n0, "no", "committed"),
     ClusterOrder("maria", "8", None, None, "hourly"),
     ClusterOrder("redis", "8", None, None, "hourly"),
     ClusterOrder("postgres", "8", None, None, "hourly")}

ClusterLine(op, cluster, vpc, value) ==
    [op |-> op, target |-> cluster, force |-> FALSE, vpc |-> vpc, subnet |-> None,
     value |-> value]

ForcedCluster(op, cluster) ==
    [ClusterLine(op, cluster, None, None) EXCEPT !.force = TRUE]

DatabasePairs ==
    {Pair(order, Forced("vpc-delete", n0)) : order \in ClusterOrders}
    \cup
    {Pair([ClusterOrder("mysql", "8", None, None, "hourly") EXCEPT !.op = "db-plans"],
          ClusterLine("db-reset", c1, None, "new")),
     Pair([ClusterOrder("mysql", "8", None, None, "hourly") EXCEPT !.op = "db-types"],
          Line("db-list", None)),
     Pair(Line("db-list", "mysql"), ClusterOrder("mysql", "8", None, None, "hourly")),
     Pair(Line("db-list", None), ForcedCluster("db-delete", c0)),
     Pair(Line("db-hosts", c0), ClusterLine("db-host-add", c0, None, i0)),
     Pair(Line("db-hosts", c0), ClusterLine("db-host-remove", c0, None, i1)),
     Pair([ClusterOrder("mysql", "8", None, None, "hourly") EXCEPT !.value = None],
          ClusterLine("db-reset", c0, None, None)),
     Pair(ClusterLine("db-get", c0, None, None),
          ClusterLine("db-public-off", c0, None, None)),
     Pair(ClusterLine("db-get", c0, None, None),
          ClusterLine("db-vpc-detach", c0, n0, None)),
     Pair(ClusterLine("db-get", c1, None, None), ClusterLine("db-delete", c1, None, None)),
     Pair(ClusterLine("db-delete", c0, None, None),
          ClusterLine("db-reset", c0, None, "new")),
     Pair(ClusterLine("db-vpc-attach", c0, n0, None),
          ClusterLine("db-vpc-detach", c0, n0, None)),
     Pair(ClusterLine("db-public-off", c0, None, None),
          ClusterLine("db-public-on", c0, None, None)),
     Pair(ClusterLine("db-host-add", c0, None, i0),
          ClusterLine("db-host-remove", c0, None, i0))}

MCWorkloads ==
    VolumePairs \cup ListPairs \cup BalancerPairs \cup IpPairs \cup GroupPairs
    \cup AttachmentPairs \cup AddressPairs \cup LifePairs \cup ItemPairs
    \cup VpcPairs \cup DatabasePairs

\* Volumes are there for the commands that work on them: as many as there may
\* be pages, or one less.
MCInitialVolumes ==
    [pair \in MCWorkloads |->
       CASE pair \in VolumeListPairs -> {<<v1, v2>>, <<v1, v2, v3>>}
         [] pair \in DeletionPairs -> {<<v1, v2, v3>>}
         [] pair \in VolumePairs -> {<<v1, v2>>}
         [] OTHER -> {<<>>}]
=============================================================================
