CONSTANTS
    None = None
    NoText = NoText
    p1 = p1
    p2 = p2
    v1 = v1
    v2 = v2
    v3 = v3
    v4 = v4
    v5 = v5
    i0 = i0
    i1 = i1
    i2 = i2
    i3 = i3
    i4 = i4
    g0 = g0
    g1 = g1
    g2 = g2
    a = a
    b = b
    d0 = d0
    d1 = d1
    x1 = x1
    x2 = x2
    x3 = x3
    x4 = x4
    x5 = x5
    s1 = s1
    s2 = s2
    s3 = s3
    k1 = k1
    k2 = k2
    k3 = k3
    w1 = w1
    w2 = w2
    m0 = m0
    m1 = m1
    m2 = m2
    l1 = l1
    l2 = l2
    l3 = l3
    l4 = l4
    l5 = l5
    n0 = n0
    n1 = n1
    n2 = n2
    c0 = c0
    c1 = c1
    c2 = c2
    c3 = c3
    e1 = e1
    e2 = e2
    e3 = e3
    e4 = e4
    e5 = e5
    t1 = t1
    t2 = t2
    t3 = t3
    t4 = t4
    r0 = r0
    r1 = r1
    Proc = {p1, p2}
    Workloads <- DeletionPairs
    NewVolumes = {v4, v5}
    VolumeCatalogs <- MCVolumeCatalogs
    PageSize = 1
    MaxPages = 3
    InitialVolumes <- MCInitialVolumes
    OldIps = {i0}
    NewIps = {i1, i2}
    PollAttempts = 2
    OldGroups <- MCOldGroups
    NewGroupIds = {g1, g2}
    OldNodes <- MCOldNodes
    NewNodes = {x3, x4}
    OldImages <- MCOldImages
    NewImages = {m1, m2}
    SavedKeys = {k1}
    NewKeys = {k3}
    VmOf <- MCVmOf
    OldVpcs <- MCOldVpcs
    NewVpcs = {n1, n2}
    AddressBits = 3
    OldClusters <- MCOldClusters
    NewClusters = {c2, c3}
    Engines <- MCEngines
    PlansOf <- MCPlansOf
    Supported = {"mysql", "maria", "postgres"}
    ListingOrder <- MCListingOrder
    OldBalancers <- MCOldBalancers
    NewBalancers = {l4, l5}
    BalancerCatalogs <- MCBalancerCatalogs
    Certificates = {a, b}
    OldProjects <- MCOldProjects
    NewProjects = {r1}

SPECIFICATION Spec

INVARIANT ReportedVolumeIsGone

CHECK_DEADLOCK FALSE
