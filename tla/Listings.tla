------------------------------ MODULE Listings ------------------------------
(***************************************************************************)
(* The list commands of VolumeService, VpcService, DbaasService and        *)
(* LoadBalancerService, which read all pages, and that of SslService. They *)
(* differ in what they do at their limit of pages: volumes and networks    *)
(* fail before they know whether there is another page, clusters and hosts *)
(* fail if there is one, and load balancers leave the rest out.            *)
(***************************************************************************)
EXTENDS Volumes, Databases, BalancerOrders

CONSTANTS
    ListingOrder, \* the order in which the API lists networks, clusters, hosts
                  \* and load balancers
    Certificates  \* the SSL certificates

Path ==
    [op \in {"volume-list", "vpc-list", "db-list", "db-hosts", "lb-list"} |->
       CASE op = "volume-list" -> "volumes"
         [] op = "vpc-list" -> "vpcs"
         [] op = "db-list" -> "clusters"
         [] op = "db-hosts" -> "hosts"
         [] op = "lb-list" -> "balancers"]

PageOfList(p, n) == PageRequest(Path[cmd[p].op], cmd[p].target, n)

BeginList(p) ==
    /\ pc[p] = "ready" /\ cmd[p].op \in DOMAIN Path
    /\ AskWith(p, "list", PageOfList(p, 1), {})

PageRead(p) == pc[p] = "list" /\ Has(p, "ok")

\* PAGINATION_LIMIT_EXCEEDED, DBAAS_LIST_PAGINATION_LIMIT and
\* DBAAS_WHITELIST_PAGINATION_LIMIT
TooManyPages(p) ==
    /\ AtLimit(p)
    /\ \/ cmd[p].op \in {"volume-list", "vpc-list"}
       \/ cmd[p].op \in {"db-list", "db-hosts"} /\ ~IsLastPage(p)

ListTooLong(p) == PageRead(p) /\ TooManyPages(p) /\ Fail(p)

ListOn(p) ==
    /\ PageRead(p) /\ ~AtLimit(p) /\ ~IsLastPage(p)
    /\ AskWith(p, "list", PageOfList(p, NextNumber(p)),
               report[p] \cup Value(p).items)

\* listDbaas drops the clusters of engines that the CLI does not support.
Shown(line, items) ==
    IF line.op = "db-list" THEN {c.id : c \in {d \in items : d.type \in Supported}}
    ELSE items

ListDone(p) ==
    /\ PageRead(p) /\ ~TooManyPages(p)
    /\ AtLimit(p) \/ IsLastPage(p)
    /\ Succeed(p, Shown(cmd[p], report[p] \cup Value(p).items))

\* listCertificates
ListCertificates(p) ==
    /\ Begins(p, "ssl-list")
    /\ Ask(p, "ssl-list", Request("GET", "certificates", None))

CertificatesListed(p) ==
    pc[p] = "ssl-list" /\ Has(p, "ok") /\ Succeed(p, Value(p))

-----------------------------------------------------------------------------
(* The API (external).                                                     *)

InOrder(items) == SelectSeq(ListingOrder, LAMBDA i : i \in items)

\* The clusters, of one type if one is given, with their types.
ClustersOf(type) ==
    LET ids == InOrder({c \in DOMAIN clusters :
                          type \in {None, TypeOf(clusters[c])}})
    IN  [i \in DOMAIN ids |-> [id |-> ids[i], type |-> TypeOf(clusters[ids[i]])]]

AnswerWhole(p, path, list) ==
    Waits(p, path) /\ AnswerPage(p, path, list, PageCount(list))

ListedOf(p) == call[p].request.arg.of

AnswerVolumes(p) == AnswerWhole(p, "volumes", volumes)

AnswerVpcs(p) == AnswerWhole(p, "vpcs", InOrder(DOMAIN vpcs))

AnswerClusters(p) == AnswerWhole(p, "clusters", ClustersOf(ListedOf(p)))

AnswerHosts(p) ==
    /\ Waits(p, "hosts") /\ ListedOf(p) \in DOMAIN clusters
    /\ AnswerWhole(p, "hosts", InOrder(clusters[ListedOf(p)].hosts))

AnswerBalancers(p) ==
    LET list == InOrder(DOMAIN balancers) IN
    \E total \in {PageCount(list), None} : AnswerPage(p, "balancers", list, total)

AnswerCertificates(p) == AnswerGet(p, "certificates", Certificates)

-----------------------------------------------------------------------------
ListStep(p) ==
    /\ \/ BeginList(p) \/ ListTooLong(p) \/ ListOn(p) \/ ListDone(p)
       \/ ListCertificates(p) \/ CertificatesListed(p)
       \/ Uncaught(p, {"list", "ssl-list"})
    /\ UNCHANGED <<volumes, vpcs, clusters, balancers>>

ListApi(p) ==
    /\ \/ AnswerVolumes(p) \/ AnswerVpcs(p) \/ AnswerClusters(p)
       \/ AnswerHosts(p) \/ AnswerBalancers(p) \/ AnswerCertificates(p)
    /\ UNCHANGED <<commandVars, volumes, vpcs, clusters, balancers>>
=============================================================================
