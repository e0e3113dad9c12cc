------------------------ MODULE ProvisioningReports ------------------------
(***************************************************************************)
(* What the provisioning commands report is true: a creation reports the   *)
(* resource that was made for it, and a volume that is reported as deleted *)
(* is gone. Both for any number of processes, any command lines, any order *)
(* of answers, losses and timeouts, and any number of pages.               *)
(***************************************************************************)
EXTENDS ProvisioningProofs

-----------------------------------------------------------------------------
(* Which request a command waits for, as its place in the code says.       *)

\* Before the first request, and at the end.
Quiet == {"idle", "confirm", "ready", "end"}

\* The commands that change a node that exists.
NodeOps ==
    {"node-attach", "node-detach", "node-power", "node-upgrade", "ip-attach",
     "ip-detach", "node-ip-detach", "ip-reserve"}

\* The places of the commands whose reports or changes are looked at.
OnCourse(line, label) ==
    /\ line.op = "volume-create" => label \in {"volume-plans", "volume-create"}
    /\ line.op = "ip-create" => label \in {"ip-create", "ip-poll"}
    /\ line.op = "group-create" => label \in {"group-create", "group-lookup"}
    /\ line.op = "node-create" => label \in {"node-keys", "node-made"}
    /\ line.op = "node-save-image" => label = "node-made"
    /\ line.op = "key-create" => label = "key-made"
    /\ line.op = "vpc-create" => label = "vpc-made"
    /\ line.op = "db-create" => label \in {"db-engines", "db-plans", "db-vpc", "db-made"}
    /\ line.op = "project-create" => label = "project-made"
    /\ line.op = "lb-create" => label \in {"lb-ip", "lb-plans", "lb-vpc", "lb-made"}
    /\ line.op = "volume-delete" => label \in {"volume-delete", "volume-verify"}
    /\ line.op \in NodeOps =>
         label \in {"node-keys", "node-read", "node-confirm", "change"}
    /\ label = "node-keys" => NeedsKeys(line)
    /\ label = "node-confirm" => line.op \in TakesGiven \cup TakesCurrent
    /\ label = "group-read" => line.op = "group-update" /\ line.description = None
    /\ label \in {"db-engines", "db-plans", "db-vpc"} => LooksUpPlans(line)
    /\ label = "db-vpc" => line.op = "db-create"
    /\ label \in {"db-read", "db-confirm"} => line.op \in Guarded
    /\ label = "db-vpc-read" => line.op \in {"db-vpc-attach", "db-vpc-detach"}

\* The places where a command waits for what it has asked the API to make.
MadeAt ==
    {"volume-create", "ip-create", "group-create", "node-made", "key-made", "vpc-made",
     "db-made", "project-made", "lb-made"}

\* The requests that make something.
Makes(r) ==
    \/ r.path \in {"nodes", "images", "vpcs", "clusters", "balancers"}
    \/ r.method = "POST" /\ r.path \in {"volumes", "ips", "groups", "keys", "projects"}

\* Only the answers for a group or a cluster may lack the id.
MayLackId(r) == r.path \in {"groups", "clusters"}

Expected(line, label, r) ==
    /\ label \in MadeAt => r.method # "GET" /\ Makes(r)
    /\ label \in {"group-create", "db-made"} \/ (label \in MadeAt => ~MayLackId(r))
    /\ label = "volume-delete" => r = Request("DELETE", "volumes", line.target)
    /\ label \in {"ip-poll", "group-lookup"} => r.method = "GET"
    /\ label = "group-lookup" => r.path = "groups"
    /\ label \in {"list", "volume-verify"} =>
         r.method = "GET" /\ r.arg.page \in 1 .. MaxPages
    /\ label = "volume-verify" => r.path = "volumes"
    /\ label = "change" => r.method # "GET"

\* What is under way changes something; for a new group it has the name of the
\* command line, which asks for nothing else.
Sound(line, r) ==
    /\ r.method # "GET"
    /\ line.op = "group-create" => r.method = "POST" /\ r.path = "groups"
    /\ r.method = "POST" /\ r.path = "groups" => r.arg.name = line.name

Steady(p) ==
    /\ outcome[p] \in Outcomes
    /\ outcome[p] = "none" <=> pc[p] # "end"
    /\ call[p].state \in {"none", "sent", "done"}
    /\ call[p].state = "sent" => call[p].attempt \in 1 .. 2
    /\ pc[p] \notin Quiet =>
         OnCourse(cmd[p], pc[p]) /\ Expected(cmd[p], pc[p], call[p].request)
    /\ \A m \in wire[p] : Sound(cmd[p], m.request)

SteadyInv ==
    /\ DOMAIN outcome = Proc /\ DOMAIN report = Proc
    /\ \A p \in Proc : Steady(p)

StepInv == OnceInv /\ SteadyInv

-----------------------------------------------------------------------------
(* Volumes: which there are, and where a search for one has come.          *)

VolumeIds ==
    NewVolumes
      \cup UNION {UNION {Range(s) : s \in InitialVolumes[w]} : w \in Workloads}

\* Each volume was there at first or was made for a command.
VolumesInv ==
    /\ volumes \in Seq(VolumeIds)
    /\ \A i, j \in DOMAIN volumes : volumes[i] = volumes[j] => i = j

PageAt(i) == (i - 1) \div PageSize + 1

\* The volume is gone, or on page n or a later one.
NotBefore(p, n) ==
    \A i \in DOMAIN volumes : volumes[i] = cmd[p].target => PageAt(i) >= n

Gone(p) == cmd[p].target \notin Held

\* Once its deletion was sent, a volume that is gone does not come back; pages
\* that were searched do not hold it, and the number of pages was read when it
\* counted the one that does.
Searched(p) ==
    /\ pc[p] = "volume-delete" /\ Has(p, "ok") => Gone(p)
    /\ pc[p] = "volume-verify" /\ call[p].state = "sent" =>
         NotBefore(p, call[p].request.arg.page)
    /\ PageSearched(p) /\ ~StillThere(p) =>
         NotBefore(p, NextNumber(p)) /\ (Gone(p) \/ Value(p).total >= NextNumber(p))
    /\ Succeeded(p, "volume-delete") => Gone(p)

SearchSound(p) ==
    /\ PageSearched(p) => Value(p).total \in Nat
    /\ cmd[p].op = "volume-delete" => p \in disturbed \/ Searched(p)

DeletionInv == \A p \in Proc : SearchSound(p)

-----------------------------------------------------------------------------
(* Creations: what was made for a command, and what it knows of it.        *)

GroupIds == {g.id : g \in groups}

\* The groups have ids of their own.
GroupsInv ==
    /\ IsFiniteSet(groups)
    /\ \A g, h \in groups : g.id = h.id => g = h
    /\ \A g \in groups :
         \/ \E h \in OldGroups : h.id = g.id
         \/ \E q \in Proc : g.id \in created[q]

\* The group that was made for p is gone, or changed, or in `known` by its name.
FindsOwn(p, known) ==
    \/ p \in disturbed \/ created[p] \cap GroupIds = {}
    \/ \E g \in known : g.id \in created[p] /\ g.name = cmd[p].name

Owned(p) ==
    /\ pc[p] \in MadeAt /\ Has(p, "ok") =>
         /\ created[p] # {}
         /\ \/ Value(p) \in created[p]
            \/ Value(p) = None /\ pc[p] \in {"group-create", "db-made"}
    /\ pc[p] = "ip-poll" => report[p] \in created[p]
    /\ cmd[p].op = "group-create" /\ pc[p] = "group-lookup" =>
         /\ created[p] # {}
         /\ Has(p, "ok") => IsFiniteSet(Value(p)) /\ FindsOwn(p, Value(p))
    /\ \A op \in Creations : Succeeded(p, op) =>
         /\ created[p] # {}
         /\ \/ report[p] \in created[p]
            \/ /\ op = "group-create"
               /\ p \in disturbed \/ created[p] \cap GroupIds = {}

\* A group has the name that its creation gave it, until it is changed.
NamedAsMade(p) ==
    cmd[p].op = "group-create" =>
      \/ p \in disturbed
      \/ \A g \in groups : g.id \in created[p] => g.name = cmd[p].name

OwnershipInv == \A p \in Proc : Owned(p) /\ NamedAsMade(p)

-----------------------------------------------------------------------------
(* The kinds of steps of a command.                                        *)

\* What is read before an order, as the command line and the readings before say.
Reads(p, label, r, found) ==
    /\ label = "group-read" => r = GroupRequest("GET", None)
    /\ label = "node-read" => r = Request("GET", "node", cmd[p].node)
    /\ label = "db-engines" => r = Request("GET", "engines", None)
    /\ label = "db-plans" =>
         EnginesListed(p) /\ \E e \in MatchingEngines(p) :
           found = e.id /\ r = Request("GET", "plans", e.id)
    /\ label = "db-vpc" =>
         /\ PlanClear(p) /\ cmd[p].vpc # None
         /\ \E t \in MatchingPlans(p) : found = [engine |-> report[p], plan |-> t.id]
         /\ r = Request("GET", "vpc", cmd[p].vpc)
    /\ label = "db-read" => r = Request("GET", "cluster", cmd[p].target)
    /\ label \notin {"node-confirm", "db-confirm"}

ReadFirst ==
    {"group-read", "node-read", "node-confirm", "db-engines", "db-plans", "db-vpc",
     "db-read", "db-confirm", "change"}

\* What is ordered, as the command line and the readings say.
ByReadNode(p) == NodeRead(p) /\ Permits(Value(p), cmd[p])

ByReadAddress(p) ==
    \/ AddressNodeRead(p) /\ HasAddress(Value(p), cmd[p])
    \/ pc[p] = "node-confirm"

ByReadCluster(p) ==
    (ClusterRead(p) /\ MayTouch(Value(p), cmd[p])) \/ pc[p] = "db-confirm"

OrdersNode(p, r, found) ==
    /\ r.path = "node" /\ r.method # "DELETE" =>
         /\ r.arg = NodeChange(cmd[p].node, cmd[p])
         /\ cmd[p].op \in {"node-attach", "node-detach", "node-power", "node-upgrade"}
         /\ ~DetachesGroups(cmd[p])
    /\ r.path = "vm" =>
         /\ ByReadNode(p) /\ found = Value(p)
         /\ r.arg = NodeChange(VmId(p), cmd[p])
         /\ cmd[p].op \in {"node-attach", "node-detach"}
    /\ r.path = "address" =>
         /\ ByReadAddress(p) /\ found = Value(p)
         /\ r.arg = [op |-> cmd[p].op, vm |-> VmId(p), ip |-> Address(p)]
    /\ r.path = "nodes" =>
         cmd[p].op = "node-create" /\ IsCreatable(cmd[p]) /\ r.arg = NodeBody(cmd[p])

OrdersCluster(p, r) ==
    /\ r.path = "clusters" =>
         \/ /\ PlanClear(p) /\ cmd[p].vpc = None
            /\ \E t \in MatchingPlans(p) :
                 r.arg = Ordered(cmd[p], report[p], t.id, {})
         \/ /\ pc[p] = "db-vpc" /\ Has(p, "ok")
            /\ r.arg = Ordered(cmd[p], report[p].engine, report[p].plan,
                               {VpcEntry(Value(p), cmd[p].subnet)})
    /\ r.path = "cluster" =>
         /\ r.arg.id = cmd[p].target /\ r.arg.op = cmd[p].op
         /\ r.method = "DELETE" <=> cmd[p].op = "db-delete"
         /\ cmd[p].op \in Guarded \cup Direct \cup {"db-vpc-attach", "db-vpc-detach"}
         /\ cmd[p].op \in Guarded => ByReadCluster(p)

Orders(p, r, found) ==
    /\ r.path = "group" /\ r.method = "PUT" =>
         /\ cmd[p].op = "group-update"
         /\ IF cmd[p].description # None
            THEN r.arg = Body(cmd[p], cmd[p].description)
            ELSE pc[p] = "group-read" /\ Has(p, "ok") /\ r.arg = Body(cmd[p], Value(p))
    /\ OrdersNode(p, r, found) /\ OrdersCluster(p, r)

OrderPaths == {"group", "node", "vm", "address", "nodes", "clusters", "cluster"}

\* A request is sent that fits the command line and the place it comes from.
Sends(p, label, r, found) ==
    /\ AskWith(p, label, r, found)
    /\ Reads(p, label, r, found)
    /\ r.method # "GET" => Orders(p, r, found)
    /\ label \notin Quiet
    /\ OnCourse(cmd[p], label) /\ Expected(cmd[p], label, r)
    /\ r.method = "GET" \/ Sound(cmd[p], r)
    /\ label = "ip-poll" =>
         \/ pc[p] = "ip-create" /\ Has(p, "ok") /\ found = Value(p)
         \/ pc[p] = "ip-poll" /\ found = report[p]
    /\ label = "group-lookup" => pc[p] = "group-create" /\ Has(p, "ok")
    /\ label = "volume-verify" =>
         \/ r.arg.page = 1
         \/ PageSearched(p) /\ ~StillThere(p) /\ r.arg.page = NextNumber(p)

\* The command ends without success.
Ends(p) ==
    /\ \E result \in {"cancelled", "error", "killed"} : Exit(p, result)
    /\ UNCHANGED report

\* It succeeds: a creation only where it knows, or looks for, what was made.
Succeeds(p, value) ==
    /\ Succeed(p, value) /\ Has(p, "ok")
    /\ cmd[p].op \in Creations =>
         /\ pc[p] \in MadeAt \cup {"ip-poll", "group-lookup"}
         /\ pc[p] \in MadeAt =>
              /\ Has(p, "ok") /\ value = Value(p)
              /\ pc[p] \in {"group-create", "db-made"} => value # None
         /\ pc[p] = "ip-poll" => value = report[p]
         /\ pc[p] = "group-lookup" =>
              /\ Has(p, "ok") /\ IsUnique(Matches(p))
              /\ \E g \in Matches(p) : value = g.id
    /\ cmd[p].op = "volume-delete" =>
         \/ pc[p] = "volume-delete" /\ Has(p, "ok")
         \/ PageSearched(p) /\ ~StillThere(p) /\ IsLastPage(p)

\* It goes on without a request.
Turns(p, label) ==
    /\ Goto(p, label) /\ pc[p] \in BeforeChange
    /\ \/ label \in {"confirm", "ready"}
       \/ label \in {"node-confirm", "db-confirm"} /\ OnCourse(cmd[p], label)
    /\ label = "node-confirm" => AddressNodeRead(p) /\ HasAddress(Value(p), cmd[p])
    /\ label = "db-confirm" => ClusterRead(p) /\ MayTouch(Value(p), cmd[p])
    /\ report' = report \/ \E found : report' = [report EXCEPT ![p] = found]
    /\ UNCHANGED <<transportVars, cmd, outcome, created, disturbed>>

Acts(p) ==
    \/ \E label, r, found : Sends(p, label, r, found)
    \/ Ends(p)
    \/ \E value : Succeeds(p, value)
    \/ \E label : Turns(p, label)

LEMMA NothingRead ==
    ASSUME NEW p, NEW label, NEW r, NEW found, label \notin ReadFirst
    PROVE  Reads(p, label, r, found)
BY DEF Reads, ReadFirst

LEMMA NothingOrdered ==
    ASSUME NEW p, NEW r, NEW found, r.path \notin OrderPaths
    PROVE  Orders(p, r, found)
BY DEF Orders, OrdersNode, OrdersCluster, OrderPaths

\* A GET from a place that nothing depends on.
Watched == MadeAt \cup {"volume-delete", "volume-verify", "list", "ip-poll",
                        "group-lookup"}

LEMMA ReadActs ==
    ASSUME NEW p \in Proc, NEW label, NEW path, NEW arg, NEW found,
           AskWith(p, label, Request("GET", path, arg), found),
           label \notin Quiet \cup Watched \cup ReadFirst, OnCourse(cmd[p], label)
    PROVE  Acts(p)
<1> DEFINE r == Request("GET", path, arg)
<1>1. Expected(cmd[p], label, r) /\ Reads(p, label, r, found)
  BY DEF Expected, Reads, ReadFirst, Watched, MadeAt
<1>2. r.method = "GET"
  BY DEF Request
<1>3. Sends(p, label, r, found)
  BY <1>1, <1>2 DEF Sends, Watched
<1> QED BY <1>3 DEF Acts

\* A reading that an order depends on.
LEMMA ReadFirstActs ==
    ASSUME NEW p \in Proc, NEW label \in ReadFirst \ {"change"}, NEW path, NEW arg,
           NEW found, AskWith(p, label, Request("GET", path, arg), found),
           OnCourse(cmd[p], label), Reads(p, label, Request("GET", path, arg), found)
    PROVE  Acts(p)
<1> DEFINE r == Request("GET", path, arg)
<1>1. r.method = "GET" /\ Expected(cmd[p], label, r) /\ label \notin Quiet
  BY DEF Request, Expected, ReadFirst, MadeAt, Quiet
<1>2. Sends(p, label, r, found)
  BY <1>1 DEF Sends, ReadFirst
<1> QED BY <1>2 DEF Acts

\* The request that changes one resource.
LEMMA OrderActs ==
    ASSUME NEW p \in Proc, NEW method, NEW path, NEW arg, NEW found,
           AskWith(p, "change", Request(method, path, arg), found),
           method # "GET", path # "groups", OnCourse(cmd[p], "change"),
           Orders(p, Request(method, path, arg), found)
    PROVE  Acts(p)
<1> DEFINE r == Request(method, path, arg)
<1>1. Expected(cmd[p], "change", r) /\ Reads(p, "change", r, found)
  BY DEF Expected, Reads, MadeAt, Request
<1>2. Sound(cmd[p], r)
  BY DEF Sound, Request, OnCourse
<1>3. Sends(p, "change", r, found)
  BY <1>1, <1>2 DEF Sends, Quiet
<1> QED BY <1>3 DEF Acts

\* One that concerns neither a group, nor a node, nor a cluster.
LEMMA ChangeActs ==
    ASSUME NEW p \in Proc, NEW method, NEW path, NEW arg, NEW found,
           AskWith(p, "change", Request(method, path, arg), found),
           method # "GET", path # "groups", OnCourse(cmd[p], "change"),
           path \notin OrderPaths
    PROVE  Acts(p)
<1>1. Orders(p, Request(method, path, arg), found)
  BY DEF Orders, OrdersNode, OrdersCluster, OrderPaths, Request
<1> QED BY <1>1, OrderActs

\* Something is asked to be made.
LEMMA MakingActs ==
    ASSUME NEW p \in Proc, NEW label \in MadeAt, NEW method, NEW path, NEW arg,
           NEW found, AskWith(p, label, Request(method, path, arg), found),
           OnCourse(cmd[p], label), method # "GET", Makes(Request(method, path, arg)),
           IF label = "group-create"
           THEN method = "POST" /\ path = "groups" /\ arg.name = cmd[p].name
           ELSE path # "groups" /\ (label # "db-made" => path # "clusters"),
           \/ path \notin {"nodes", "clusters"}
           \/ Orders(p, Request(method, path, arg), found)
    PROVE  Acts(p)
<1> DEFINE r == Request(method, path, arg)
<1>1. /\ Expected(cmd[p], label, r) /\ Reads(p, label, r, found)
      /\ Orders(p, r, found)
  BY DEF Expected, Reads, MadeAt, Makes, MayLackId, Request, Orders, OrdersNode,
     OrdersCluster
<1>2. Sound(cmd[p], r)
  BY DEF Sound, Request, OnCourse, MadeAt, Makes
<1>3. label \notin Quiet /\ label \notin {"ip-poll", "group-lookup", "volume-verify"}
  BY DEF MadeAt, Quiet
<1>4. Sends(p, label, r, found)
  BY <1>1, <1>2, <1>3 DEF Sends
<1> QED BY <1>4 DEF Acts

LEMMA FailureActs ==
    ASSUME NEW p \in Proc, Fail(p)
    PROVE  Acts(p)
BY DEF Fail, Ends, Acts

LEMMA UncaughtActs ==
    ASSUME NEW p \in Proc, NEW labels, Uncaught(p, labels)
    PROVE  Acts(p)
BY FailureActs DEF Uncaught

\* A command succeeds that neither creates anything nor deletes a volume.
LEMMA PlainSuccessActs ==
    ASSUME NEW p \in Proc, NEW value, Succeed(p, value), Has(p, "ok"),
           cmd[p].op \notin Creations \cup {"volume-delete"}
    PROVE  Acts(p)
BY DEF Succeeds, Acts

LEMMA MadeActs ==
    ASSUME NEW p \in Proc, Succeed(p, Value(p)), pc[p] \in MadeAt, Has(p, "ok"),
           pc[p] \in {"group-create", "db-made"} => Value(p) # None,
           cmd[p].op # "volume-delete"
    PROVE  Acts(p)
<1>1. pc[p] \notin {"ip-poll", "group-lookup"}
  BY DEF MadeAt
<1>2. Succeeds(p, Value(p))
  BY <1>1 DEF Succeeds
<1> QED BY <1>2 DEF Acts

\* A command is where its line may be.
LEMMA CourseOf ==
    ASSUME StepInv, NEW p \in Proc, pc[p] \notin Quiet
    PROVE  OnCourse(cmd[p], pc[p])
BY DEF StepInv, SteadyInv, Steady

-----------------------------------------------------------------------------
(* The steps of the commands are of these kinds.                           *)

LEMMA CommandActs ==
    ASSUME StepInv, NEW p \in Proc, CommandStep(p)
    PROVE  Acts(p)
<1>1. CASE Start(p)
  <2>1. Turns(p, IF cmd[p].op \in AsksFirst /\ ~cmd[p].force THEN "confirm" ELSE "ready")
    BY <1>1 DEF Start, Turns, BeforeChange
  <2> QED BY <2>1 DEF Acts
<1>2. CASE Confirm(p)
  <2>1. Turns(p, "ready")
    BY <1>2 DEF Confirm, Turns, BeforeChange
  <2> QED BY <2>1 DEF Acts
<1>3. CASE Decline(p)
  BY <1>3 DEF Decline, Acts, Ends
<1>4. CASE Reject(p)
  BY <1>4, FailureActs DEF Reject
<1>5. CASE ChangeDone(p)
  BY <1>5, CourseOf, PlainSuccessActs DEF ChangeDone, OnCourse, NodeOps, Creations,
     Quiet
<1>6. CASE Uncaught(p, {"change"})
  BY <1>6, UncaughtActs
<1> QED BY <1>1, <1>2, <1>3, <1>4, <1>5, <1>6 DEF CommandStep

LEMMA VolumeActs ==
    ASSUME StepInv, NEW p \in Proc, VolumeStep(p)
    PROVE  Acts(p)
<1>1. CASE ListVolumePlans(p) \/ CreateVolume(p) \/ GetVolume(p)
  BY <1>1, ReadActs DEF ListVolumePlans, CreateVolume, GetVolume, AskForPlans, Ask,
     Begins, OnCourse, NodeOps, Quiet, Watched, MadeAt, ReadFirst
<1>2. CASE CreatePlanned(p)
  BY <1>2, CourseOf, MakingActs DEF CreatePlanned, Ask, OnCourse, NodeOps, Quiet,
     MadeAt,
     Makes, Request
<1>3. CASE DeleteVolume(p)
  <2> DEFINE r == Request("DELETE", "volumes", cmd[p].target)
  <2>1. AskWith(p, "volume-delete", r, report[p]) /\ cmd[p].op = "volume-delete"
    BY <1>3 DEF DeleteVolume, Begins, Ask
  <2>2. Sends(p, "volume-delete", r, report[p])
    BY <2>1, NothingOrdered, NothingRead
       DEF Sends, OnCourse, NodeOps, Expected, Sound, Request, Quiet, MadeAt, ReadFirst, OrderPaths
  <2> QED BY <2>2 DEF Acts
<1>4. CASE Reconcile(p)
  <2>1. AskWith(p, "volume-verify", Page(1), report[p]) /\ pc[p] = "volume-delete"
    BY <1>4 DEF Reconcile, Ask
  <2>2. OnCourse(cmd[p], "volume-verify")
    BY <2>1, CourseOf DEF OnCourse, NodeOps, Quiet
  <2>3. Sends(p, "volume-verify", Page(1), report[p])
    BY <2>1, <2>2, PagesAssumption, NothingRead
       DEF Sends, Expected, Page, PageRequest, Request, Quiet, MadeAt, ReadFirst
  <2> QED BY <2>3 DEF Acts
<1>5. CASE SearchOn(p)
  <2>1. /\ AskWith(p, "volume-verify", Page(NextNumber(p)), report[p])
        /\ PageSearched(p) /\ ~StillThere(p) /\ ~AtLimit(p)
    BY <1>5 DEF SearchOn, Ask
  <2>2. pc[p] = "volume-verify"
    BY <2>1 DEF PageSearched
  <2>3. call[p].request.arg.page \in 1 .. MaxPages
    BY <2>2 DEF StepInv, SteadyInv, Steady, Expected, Quiet
  <2>4. NextNumber(p) \in 1 .. MaxPages
    BY <2>1, <2>3, PagesAssumption DEF AtLimit, NextNumber
  <2>5. OnCourse(cmd[p], "volume-verify")
    BY <2>2, CourseOf DEF Quiet
  <2>6. Sends(p, "volume-verify", Page(NextNumber(p)), report[p])
    BY <2>1, <2>4, <2>5, NothingRead
       DEF Sends, Expected, Page, PageRequest, Request, Quiet, MadeAt, ReadFirst
  <2> QED BY <2>6 DEF Acts
<1>6. CASE CreateUnplanned(p) \/ DeleteFails(p) \/ Unreconciled(p)
  BY <1>6, FailureActs DEF CreateUnplanned, DeleteFails, Unreconciled
<1>7. CASE VolumeCreated(p)
  BY <1>7, CourseOf, MadeActs DEF VolumeCreated, MadeAt, OnCourse, NodeOps, Quiet
<1>8. CASE ShowVolumePlans(p) \/ VolumeShown(p)
  BY <1>8, CourseOf, PlainSuccessActs, FailureActs
     DEF ShowVolumePlans, VolumeShown, OnCourse, NodeOps, Creations, Quiet
<1>9. CASE VolumeDeleted(p) \/ VolumeGone(p)
  <2>1. Succeed(p, cmd[p].target)
    BY <1>9 DEF VolumeDeleted, VolumeGone
  <2>2. \/ pc[p] = "volume-delete" /\ Has(p, "ok")
        \/ PageSearched(p) /\ ~StillThere(p) /\ IsLastPage(p)
    BY <1>9 DEF VolumeDeleted, VolumeGone
  <2>3. cmd[p].op \notin Creations
    BY <2>2, CourseOf DEF PageSearched, OnCourse, NodeOps, Creations, Quiet
  <2>4. Succeeds(p, cmd[p].target)
    BY <2>1, <2>2, <2>3 DEF Succeeds, PageSearched
  <2> QED BY <2>4 DEF Acts
<1>10. CASE Uncaught(p, {"volume-offers", "volume-plans", "volume-create",
                         "volume-show"})
  BY <1>10, UncaughtActs
<1> QED BY <1>1, <1>2, <1>3, <1>4, <1>5, <1>6, <1>7, <1>8, <1>9, <1>10
        DEF VolumeStep

LEMMA ListActs ==
    ASSUME StepInv, NEW p \in Proc, ListStep(p)
    PROVE  Acts(p)
<1>1. ASSUME NEW n \in 1 .. MaxPages, NEW found,
             AskWith(p, "list", PageOfList(p, n), found), OnCourse(cmd[p], "list")
      PROVE  Acts(p)
  <2>1. Sends(p, "list", PageOfList(p, n), found)
    BY <1>1, NothingRead
       DEF Sends, Expected, PageOfList, PageRequest, Request, Quiet, MadeAt, ReadFirst
  <2> QED BY <2>1 DEF Acts
<1>2. CASE BeginList(p)
  <2>1. OnCourse(cmd[p], "list")
    BY <1>2 DEF BeginList, Path, OnCourse, NodeOps
  <2> QED BY <1>1, <1>2, <2>1, PagesAssumption DEF BeginList
<1>3. pc[p] = "list" => OnCourse(cmd[p], "list")
  BY CourseOf DEF Quiet
<1>4. CASE ListOn(p)
  <2>1. call[p].request.arg.page \in 1 .. MaxPages /\ pc[p] = "list" /\ ~AtLimit(p)
    BY <1>4 DEF ListOn, PageRead, StepInv, SteadyInv, Steady, Expected, Quiet
  <2>2. NextNumber(p) \in 1 .. MaxPages
    BY <2>1, PagesAssumption DEF AtLimit, NextNumber
  <2> QED BY <1>1, <1>3, <1>4, <2>1, <2>2 DEF ListOn
<1>5. CASE ListCertificates(p)
  BY <1>5, ReadActs DEF ListCertificates, Ask, Begins, OnCourse, NodeOps, Quiet,
     Watched, MadeAt, ReadFirst
<1>6. CASE ListTooLong(p)
  BY <1>6, FailureActs DEF ListTooLong
<1>7. CASE ListDone(p) \/ CertificatesListed(p)
  BY <1>7, CourseOf, PlainSuccessActs
     DEF ListDone, PageRead, CertificatesListed, OnCourse, NodeOps, Creations, Quiet
<1>8. CASE Uncaught(p, {"list", "ssl-list"})
  BY <1>8, UncaughtActs
<1> QED BY <1>2, <1>4, <1>5, <1>6, <1>7, <1>8 DEF ListStep

LEMMA KeyActs ==
    ASSUME StepInv, NEW p \in Proc, KeyStep(p)
    PROVE  Acts(p)
<1>1. CASE CreateKey(p)
  BY <1>1, MakingActs DEF CreateKey, Begins, Ask, OnCourse, NodeOps, MadeAt, Makes,
     Request
<1>2. CASE DeleteKey(p)
  BY <1>2, ChangeActs DEF DeleteKey, SendChange, Begins, Ask, OnCourse, NodeOps,
     OrderPaths
<1>3. CASE ReadKeys(p)
  BY <1>3, ReadActs DEF ReadKeys, AskForKeys, Ask, OnCourse, NodeOps, Quiet, Watched,
     MadeAt, ReadFirst
<1>4. CASE KeyMade(p)
  BY <1>4, CourseOf, MadeActs DEF KeyMade, MadeAt, OnCourse, NodeOps, Quiet
<1>5. CASE KeysShown(p) \/ KeyShown(p)
  BY <1>5, PlainSuccessActs DEF KeysShown, KeyShown, KeysRead, Creations
<1>6. CASE KeyUnusable(p) \/ KeyUnknown(p)
  BY <1>6, FailureActs DEF KeyUnusable, KeyUnknown
<1>7. CASE Uncaught(p, {"key-made", "key-read"})
  BY <1>7, UncaughtActs
<1> QED BY <1>1, <1>2, <1>3, <1>4, <1>5, <1>6, <1>7 DEF KeyStep

LEMMA ImageActs ==
    ASSUME StepInv, NEW p \in Proc, ImageStep(p)
    PROVE  Acts(p)
<1>1. CASE DeleteImage(p) \/ RenameImage(p)
  BY <1>1, ChangeActs DEF DeleteImage, RenameImage, SendChange, Begins, Ask,
     OnCourse, NodeOps, Quiet, OrderPaths
<1>2. CASE ListImages(p)
  BY <1>2, ReadActs DEF ListImages, Begins, Ask, OnCourse, NodeOps, Quiet, Watched,
     MadeAt, ReadFirst
<1>3. CASE ImagesListed(p)
  BY <1>3, CourseOf, PlainSuccessActs DEF ImagesListed, OnCourse, NodeOps, Creations,
     Quiet
<1>4. CASE Uncaught(p, {"image-list"})
  BY <1>4, UncaughtActs
<1> QED BY <1>1, <1>2, <1>3, <1>4 DEF ImageStep

LEMMA ProjectActs ==
    ASSUME StepInv, NEW p \in Proc, ProjectStep(p)
    PROVE  Acts(p)
<1>1. CASE CreateProject(p)
  BY <1>1, MakingActs DEF CreateProject, Begins, Ask, OnCourse, NodeOps, MadeAt,
     Makes, Request
<1>2. CASE ReadProjects(p)
  BY <1>2, ReadActs DEF ReadProjects, Ask, OnCourse, NodeOps, Quiet, Watched, MadeAt,
     ReadFirst
<1>3. CASE StarProject(p)
  BY <1>3, CourseOf, ChangeActs DEF StarProject, ProjectsRead, Ask, OnCourse,
     NodeOps, Quiet, OrderPaths
<1>4. CASE ProjectMade(p)
  BY <1>4, CourseOf, MadeActs DEF ProjectMade, MadeAt, OnCourse, NodeOps, Quiet
<1>5. CASE ProjectsShown(p)
  BY <1>5, PlainSuccessActs DEF ProjectsShown, ProjectsRead, Creations
<1>6. CASE ProjectUnknown(p)
  BY <1>6, FailureActs DEF ProjectUnknown
<1>7. CASE Uncaught(p, {"project-made", "project-read"})
  BY <1>7, UncaughtActs
<1> QED BY <1>1, <1>2, <1>3, <1>4, <1>5, <1>6, <1>7 DEF ProjectStep

LEMMA IpActs ==
    ASSUME StepInv, NEW p \in Proc, IpStep(p)
    PROVE  Acts(p)
<1>1. CASE CreateIp(p)
  BY <1>1, MakingActs DEF CreateIp, Begins, Ask, OnCourse, NodeOps, MadeAt, Makes,
     Request
<1>2. ASSUME NEW n, NEW found, AskWith(p, "ip-poll", Inventory(n), found),
             OnCourse(cmd[p], "ip-poll"),
             \/ pc[p] = "ip-create" /\ Has(p, "ok") /\ found = Value(p)
             \/ pc[p] = "ip-poll" /\ found = report[p]
      PROVE  Acts(p)
  <2>1. Sends(p, "ip-poll", Inventory(n), found)
    BY <1>2, NothingRead
       DEF Sends, Expected, Inventory, Request, Quiet, MadeAt, ReadFirst
  <2> QED BY <2>1 DEF Acts
<1>3. pc[p] \in {"ip-create", "ip-poll"} => OnCourse(cmd[p], "ip-poll")
  BY CourseOf DEF OnCourse, NodeOps, Quiet
<1>4. CASE IpCreated(p) \/ PollAgain(p)
  BY <1>2, <1>3, <1>4 DEF IpCreated, PollAgain, Polled, Ask
<1>5. CASE DeleteIp(p)
  BY <1>5, ChangeActs DEF DeleteIp, SendChange, Begins, Ask, OnCourse, NodeOps,
     OrderPaths
<1>6. CASE GetIp(p) \/ ListIps(p)
  BY <1>6, ReadActs DEF GetIp, ListIps, Inventory, Begins, Ask, OnCourse, NodeOps,
     Quiet,
     Watched, MadeAt, ReadFirst
<1>7. CASE IpShown(p)
  <2>1. /\ Succeed(p, report[p]) /\ pc[p] = "ip-poll" /\ Has(p, "ok")
        /\ cmd[p].op # "volume-delete"
    BY <1>7, CourseOf DEF IpShown, Polled, OnCourse, NodeOps, Quiet
  <2>2. Succeeds(p, report[p])
    BY <2>1 DEF Succeeds, MadeAt
  <2> QED BY <2>2 DEF Acts
<1>8. CASE IpFound(p) \/ IpsListed(p)
  BY <1>8, CourseOf, PlainSuccessActs
     DEF IpFound, IpsListed, OnCourse, NodeOps, Creations, Quiet
<1>9. CASE NeverShown(p) \/ IpNotFound(p)
  BY <1>9, FailureActs DEF NeverShown, IpNotFound
<1>10. CASE Uncaught(p, {"ip-create", "ip-poll", "ip-get", "ip-list"})
  BY <1>10, UncaughtActs
<1> QED BY <1>1, <1>4, <1>5, <1>6, <1>7, <1>8, <1>9, <1>10 DEF IpStep

LEMMA GroupActs ==
    ASSUME StepInv, NEW p \in Proc, GroupStep(p)
    PROVE  Acts(p)
<1>1. CASE CreateGroup(p)
  BY <1>1, MakingActs DEF CreateGroup, Begins, Ask, OnCourse, NodeOps, MadeAt, Makes,
     Request,
     Body
<1>2. CASE GroupUnnamed(p)
  <2> DEFINE r == Request("GET", "groups", None)
  <2>1. AskWith(p, "group-lookup", r, report[p]) /\ pc[p] = "group-create" /\ Has(p, "ok")
    BY <1>2 DEF GroupUnnamed, Ask
  <2>2. OnCourse(cmd[p], "group-lookup")
    BY <2>1, CourseOf DEF OnCourse, NodeOps, Quiet
  <2>3. Sends(p, "group-lookup", r, report[p])
    BY <2>1, <2>2, NothingRead DEF Sends, Expected, Request, Quiet, MadeAt, ReadFirst
  <2> QED BY <2>3 DEF Acts
<1>3. CASE DeleteGroup(p) \/ UpdateGroup(p)
  BY <1>3, OrderActs DEF DeleteGroup, UpdateGroup, SendChange, GroupRequest, Begins,
     Ask,
     OnCourse, NodeOps, Orders, OrdersNode, OrdersCluster, Request
<1>4. CASE ReadForUpdate(p)
  BY <1>4, ReadFirstActs DEF ReadForUpdate, GroupRequest, Begins, Ask, OnCourse,
     NodeOps, ReadFirst, Reads
<1>5. CASE UpdateRead(p)
  <2> DEFINE body == Body(cmd[p], KeptDescription(p))
  <2>1. Ask(p, "change", GroupRequest("PUT", body)) /\ pc[p] = "group-read" /\ Has(p, "ok")
    BY <1>5 DEF UpdateRead
  <2>2. /\ OnCourse(cmd[p], "change")
        /\ cmd[p].op = "group-update" /\ cmd[p].description = None
    BY <2>1, CourseOf DEF OnCourse, NodeOps, Quiet
  <2>3. Orders(p, GroupRequest("PUT", body), report[p])
    BY <2>1, <2>2 DEF Orders, OrdersNode, OrdersCluster, GroupRequest, Request,
       KeptDescription
  <2> QED BY <2>1, <2>2, <2>3, OrderActs DEF GroupRequest, Ask
<1>6. CASE GetGroup(p) \/ ListGroups(p)
  BY <1>6, ReadActs DEF GetGroup, ListGroups, GroupRequest, Begins, Ask, OnCourse,
     NodeOps, Quiet, Watched, MadeAt, ReadFirst
<1>7. CASE GroupCreated(p)
  BY <1>7, CourseOf, MadeActs DEF GroupCreated, MadeAt, OnCourse, NodeOps, Quiet
<1>8. CASE GroupLookedUp(p)
  <2>1. PICK g \in Matches(p) : Succeed(p, g.id)
    BY <1>8 DEF GroupLookedUp
  <2>2. pc[p] = "group-lookup" /\ Has(p, "ok") /\ IsUnique(Matches(p))
    BY <1>8 DEF GroupLookedUp
  <2>3. cmd[p].op # "volume-delete"
    BY <2>2, CourseOf DEF OnCourse, NodeOps, Quiet
  <2>4. Succeeds(p, g.id)
    BY <2>1, <2>2, <2>3 DEF Succeeds, MadeAt
  <2> QED BY <2>4 DEF Acts
<1>9. CASE GroupShown(p)
  BY <1>9, CourseOf, PlainSuccessActs DEF GroupShown, OnCourse, NodeOps, Creations,
     Quiet
<1>10. CASE RulesUnusable(p) \/ GroupUnclear(p)
  BY <1>10, FailureActs DEF RulesUnusable, GroupUnclear
<1>11. CASE Uncaught(p, {"group-create", "group-lookup", "group-read", "group-get"})
  BY <1>11, UncaughtActs
<1> QED BY <1>1, <1>2, <1>3, <1>4, <1>5, <1>7, <1>8, <1>9, <1>10, <1>11, <1>6
        DEF GroupStep

LEMMA NodeActs ==
    ASSUME StepInv, NEW p \in Proc, NodeStep(p)
    PROVE  Acts(p)
<1>1. CASE CreateNode(p)
  BY <1>1, MakingActs DEF CreateNode, Begins, Ask, OnCourse, NodeOps, MadeAt, Makes,
     Request, Orders, OrdersNode, OrdersCluster
<1>2. CASE ListKeys(p)
  BY <1>2, ReadActs DEF ListKeys, NeedsKeys, AskForKeys, Ask, OnCourse, NodeOps,
     Quiet, Watched, MadeAt, ReadFirst
<1>3. CASE CreateWithKeys(p)
  <2>1. IsCreatable(cmd[p])
    BY <1>3, CourseOf DEF CreateWithKeys, KeysListed, OnCourse, NeedsKeys, Quiet
  <2> QED BY <1>3, <2>1, MakingActs DEF CreateWithKeys, Ask, OnCourse, NodeOps,
             MadeAt, Makes, Request, Orders, OrdersNode, OrdersCluster
<1>4. ASSUME Ask(p, "change", ByNodeId(p)), ~DetachesGroups(cmd[p]),
             cmd[p].op \in {"node-attach", "node-detach", "node-power", "node-upgrade"}
      PROVE  Acts(p)
  <2>1. OnCourse(cmd[p], "change")
    BY <1>4 DEF OnCourse
  <2> DEFINE r == Request("PUT", "node", NodeChange(cmd[p].node, cmd[p]))
  <2>2. Orders(p, r, report[p])
    BY <1>4 DEF Orders, OrdersNode, OrdersCluster, Request, NodeOps
  <2> QED BY <1>4, <2>1, <2>2, OrderActs DEF ByNodeId, Ask
<1>5. CASE AttachKeys(p) \/ PowerNode(p) \/ UpgradeNode(p) \/ AttachVpc(p) \/ DetachVpc(p)
  BY <1>4, <1>5 DEF AttachKeys, PowerNode, UpgradeNode, AttachVpc, DetachVpc,
     SendChange,
     Begins, DetachesGroups
<1>6. CASE DeleteNode(p)
  BY <1>6, OrderActs DEF DeleteNode, SendChange, Begins, Ask, OnCourse, NodeOps,
     Orders, OrdersNode, OrdersCluster, Request
<1>7. CASE ReadNode(p)
  BY <1>7, ReadFirstActs DEF ReadNode, NeedsVm, GetNode, Ask, OnCourse, NodeOps,
     ReadFirst, Reads
<1>8. CASE \/ AttachGroups(p) \/ DetachGroups(p) \/ AttachVolume(p)
           \/ DetachVolume(p)
  <2> DEFINE r == Request("POST", "vm", NodeChange(VmId(p), cmd[p]))
  <2>1. /\ cmd[p].op \in {"node-attach", "node-detach"} /\ ByReadNode(p)
        /\ AskWith(p, "change", r, Value(p))
    BY <1>8 DEF AttachGroups, DetachGroups, AttachVolume, DetachVolume, ChangeVm,
       ByReadNode
  <2>2. OnCourse(cmd[p], "change") /\ Orders(p, r, Value(p))
    BY <2>1 DEF OnCourse, NodeOps, Orders, OrdersNode, OrdersCluster, Request
  <2> QED BY <2>1, <2>2, OrderActs
<1>9. CASE ShowNode(p) \/ ListNodes(p)
  BY <1>9, ReadActs DEF ShowNode, ListNodes, GetNode, Begins, Ask, OnCourse, NodeOps,
     Quiet, Watched, MadeAt, ReadFirst
<1>10. CASE SaveImage(p)
  BY <1>10, MakingActs DEF SaveImage, Begins, Ask, OnCourse, NodeOps, MadeAt, Makes,
     Request
<1>11. CASE NodeMade(p)
  BY <1>11, CourseOf, MadeActs DEF NodeMade, MadeAt, OnCourse, NodeOps, Quiet
<1>12. CASE NodeShown(p)
  BY <1>12, CourseOf, PlainSuccessActs DEF NodeShown, OnCourse, NodeOps, Creations,
     Quiet
<1>13. CASE KeysMissing(p) \/ NodeUnfit(p)
  BY <1>13, FailureActs DEF KeysMissing, NodeUnfit
<1>14. CASE Uncaught(p, {"node-made", "node-keys", "node-read", "node-show"})
  BY <1>14, UncaughtActs
<1> QED BY <1>1, <1>2, <1>3, <1>5, <1>6, <1>7, <1>8, <1>11, <1>12, <1>13, <1>14, <1>9,
           <1>10
        DEF NodeStep

LEMMA AddressActs ==
    ASSUME StepInv, NEW p \in Proc, AddressStep(p)
    PROVE  Acts(p)
<1>1. CASE ReadForAddress(p)
  BY <1>1, ReadFirstActs DEF ReadForAddress, TakesGiven, TakesCurrent, GetNode, Ask,
     OnCourse, NodeOps, ReadFirst, Reads
<1>2. CASE AskForAddress(p)
  <2>1. AddressNodeRead(p) /\ HasAddress(Value(p), cmd[p])
    BY <1>2 DEF AskForAddress
  <2>2. OnCourse(cmd[p], "node-confirm") /\ pc[p] \in BeforeChange
    BY <2>1 DEF AddressNodeRead, NodeRead, BeforeChange, TakesGiven, TakesCurrent,
       OnCourse
  <2>3. Turns(p, "node-confirm")
    BY <1>2, <2>1, <2>2 DEF AskForAddress, Turns
  <2> QED BY <2>3 DEF Acts
<1>3. CASE ChangeAddress(p)
  <2> DEFINE r == Request("POST", "address",
                          [op |-> cmd[p].op, vm |-> VmId(p), ip |-> Address(p)])
  <2>1. OnCourse(cmd[p], "change")
    BY <1>3, CourseOf DEF ChangeAddress, AddressNodeRead, NodeRead, OnCourse, NodeOps,
       Quiet
  <2>2. ByReadAddress(p) /\ AskWith(p, "change", r, Value(p))
    BY <1>3 DEF ChangeAddress, ByReadAddress
  <2>3. Orders(p, r, Value(p))
    BY <2>2 DEF Orders, OrdersNode, OrdersCluster, Request
  <2> QED BY <2>1, <2>2, <2>3, OrderActs
<1>4. CASE AddressDeclined(p)
  BY <1>4 DEF AddressDeclined, Acts, Ends
<1>5. CASE AddressUnavailable(p) \/ AddressRejected(p)
  BY <1>5, FailureActs DEF AddressUnavailable, AddressRejected
<1> QED BY <1>1, <1>2, <1>3, <1>4, <1>5 DEF AddressStep

LEMMA VpcActs ==
    ASSUME StepInv, NEW p \in Proc, VpcStep(p)
    PROVE  Acts(p)
<1>1. CASE CreateVpc(p)
  BY <1>1, MakingActs DEF CreateVpc, Begins, Ask, OnCourse, NodeOps, MadeAt, Makes,
     Request
<1>2. CASE DeleteVpc(p)
  BY <1>2, ChangeActs DEF DeleteVpc, SendChange, Begins, Ask, OnCourse, NodeOps,
     Quiet, Watched,
     MadeAt, OrderPaths
<1>3. CASE ShowVpc(p) \/ ShowVpcPlans(p)
  BY <1>3, ReadActs DEF ShowVpc, ShowVpcPlans, GetVpc, Begins, Ask, OnCourse, NodeOps,
     Quiet,
     Watched, MadeAt, ReadFirst
<1>4. CASE VpcMade(p)
  BY <1>4, CourseOf, MadeActs DEF VpcMade, MadeAt, OnCourse, NodeOps, Quiet
<1>5. CASE VpcShown(p)
  BY <1>5, CourseOf, PlainSuccessActs DEF VpcShown, OnCourse, NodeOps, Creations, Quiet
<1>6. CASE Uncaught(p, {"vpc-made", "vpc-show"})
  BY <1>6, UncaughtActs
<1> QED BY <1>1, <1>2, <1>3, <1>4, <1>5, <1>6 DEF VpcStep

LEMMA ClusterOrderActs ==
    ASSUME StepInv, NEW p \in Proc,
           \/ ListEngines(p) \/ TypesShown(p) \/ EngineUnclear(p)
           \/ ListPlans(p) \/ PlansShown(p) \/ PlanUnclear(p) \/ CreateCluster(p)
           \/ ReadVpcForCluster(p) \/ CreateInVpc(p) \/ ClusterMade(p) \/ ClusterUnnamed(p)
    PROVE  Acts(p)
<1>1. CASE ListEngines(p)
  BY <1>1, ReadFirstActs DEF ListEngines, LooksUpPlans, Ask, OnCourse, NodeOps,
     ReadFirst, Reads
<1>2. CASE ListPlans(p)
  <2>1. PICK e \in MatchingEngines(p) :
          AskWith(p, "db-plans", Request("GET", "plans", e.id), e.id)
    BY <1>2 DEF ListPlans
  <2>2. EnginesListed(p) /\ OnCourse(cmd[p], "db-plans")
    BY <1>2, CourseOf DEF ListPlans, EnginesListed, OnCourse, NodeOps, Quiet
  <2> QED BY <2>1, <2>2, ReadFirstActs DEF ReadFirst, Reads
<1>3. CASE CreateCluster(p)
  <2>1. PICK t \in MatchingPlans(p) :
          Ask(p, "db-made",
              Request("POST", "clusters", Ordered(cmd[p], report[p], t.id, {})))
    BY <1>3 DEF CreateCluster
  <2>2. PlanClear(p) /\ cmd[p].vpc = None /\ cmd[p].op = "db-create"
    BY <1>3 DEF CreateCluster, PlanClear
  <2> DEFINE r == Request("POST", "clusters", Ordered(cmd[p], report[p], t.id, {}))
  <2>3. Orders(p, r, report[p])
    BY <2>2 DEF Orders, OrdersNode, OrdersCluster, Request
  <2> QED BY <2>1, <2>2, <2>3, MakingActs DEF Ask, OnCourse, NodeOps, MadeAt, Makes,
             Request
<1>4. CASE ReadVpcForCluster(p)
  <2>1. PICK t \in MatchingPlans(p) :
          GetVpc(p, cmd[p].vpc, "db-vpc", [engine |-> report[p], plan |-> t.id])
    BY <1>4 DEF ReadVpcForCluster
  <2>2. /\ PlanClear(p) /\ cmd[p].vpc # None /\ cmd[p].op = "db-create"
        /\ LooksUpPlans(cmd[p])
    BY <1>4, CourseOf DEF ReadVpcForCluster, PlanClear, PlansListed, OnCourse, Quiet
  <2> QED BY <2>1, <2>2, ReadFirstActs DEF GetVpc, OnCourse, NodeOps, ReadFirst, Reads
<1>5. CASE CreateInVpc(p)
  <2> DEFINE r == Request("POST", "clusters",
                     Ordered(cmd[p], report[p].engine, report[p].plan,
                             {VpcEntry(Value(p), cmd[p].subnet)}))
  <2>1. pc[p] = "db-vpc" /\ Has(p, "ok") /\ Ask(p, "db-made", r)
    BY <1>5 DEF CreateInVpc
  <2>2. OnCourse(cmd[p], "db-made")
    BY <2>1, CourseOf DEF OnCourse, NodeOps, Quiet
  <2>3. Orders(p, r, report[p])
    BY <2>1 DEF Orders, OrdersNode, OrdersCluster, Request
  <2> QED BY <2>1, <2>2, <2>3, MakingActs DEF Ask, MadeAt, Makes, Request
<1>6. CASE ClusterMade(p)
  BY <1>6, CourseOf, MadeActs DEF ClusterMade, MadeAt, OnCourse, NodeOps, Quiet
<1>7. CASE TypesShown(p) \/ PlansShown(p)
  BY <1>7, PlainSuccessActs DEF TypesShown, EnginesListed, PlansShown, PlansListed,
     Creations
<1>8. CASE EngineUnclear(p) \/ PlanUnclear(p) \/ ClusterUnnamed(p)
  BY <1>8, FailureActs DEF EngineUnclear, PlanUnclear, ClusterUnnamed
<1> QED BY <1>1, <1>2, <1>3, <1>4, <1>5, <1>6, <1>7, <1>8

LEMMA DatabaseActs ==
    ASSUME StepInv, NEW p \in Proc, DatabaseStep(p)
    PROVE  Acts(p)
<1>1. CASE ReadCluster(p)
  BY <1>1, ReadFirstActs DEF ReadCluster, Guarded, Ask, OnCourse, NodeOps, ReadFirst,
     Reads
<1>2. CASE AskToDelete(p)
  <2>1. ClusterRead(p) /\ MayTouch(Value(p), cmd[p]) /\ pc[p] \in BeforeChange
    BY <1>2 DEF AskToDelete, ClusterRead, BeforeChange
  <2>2. OnCourse(cmd[p], "db-confirm")
    BY <1>2 DEF AskToDelete, AsksAfterReading, OnCourse, NodeOps, Guarded
  <2>3. Turns(p, "db-confirm")
    BY <1>2, <2>1, <2>2 DEF AskToDelete, Turns
  <2> QED BY <2>3 DEF Acts
<1>3. ASSUME NEW value, Ask(p, "change", ClusterChange(p, value)),
             OnCourse(cmd[p], "change"),
             cmd[p].op \in Guarded \cup Direct \cup {"db-vpc-attach", "db-vpc-detach"},
             cmd[p].op \in Guarded => ByReadCluster(p)
      PROVE  Acts(p)
  <2> DEFINE method == IF cmd[p].op = "db-delete" THEN "DELETE" ELSE "PUT"
             r == Request(method, "cluster",
                    [id |-> cmd[p].target, op |-> cmd[p].op, value |-> value])
  <2>1. r.method = method /\ r.path = "cluster" /\ r.arg.id = cmd[p].target
        /\ r.arg.op = cmd[p].op
    BY DEF Request
  <2>2. Orders(p, r, report[p])
    BY <1>3, <2>1 DEF Orders, OrdersNode, OrdersCluster
  <2> QED BY <1>3, <2>2, OrderActs DEF ClusterChange, Ask
<1>4. CASE ChangeGuarded(p)
  <2>1. OnCourse(cmd[p], "change")
    BY <1>4, CourseOf DEF ChangeGuarded, ClusterRead, OnCourse, NodeOps, Quiet
  <2>2. ByReadCluster(p) /\ Ask(p, "change", ClusterChange(p, cmd[p].value))
    BY <1>4 DEF ChangeGuarded, ByReadCluster
  <2>3. cmd[p].op \in Guarded
    BY <2>2, CourseOf DEF ByReadCluster, ClusterRead, OnCourse, Quiet
  <2> QED BY <1>3, <2>1, <2>2, <2>3
<1>5. CASE ChangeCluster(p)
  BY <1>3, <1>5 DEF ChangeCluster, SendChange, Direct, Guarded, OnCourse, NodeOps
<1>6. CASE ReadVpcToAttach(p)
  BY <1>6, ReadActs DEF ReadVpcToAttach, GetVpc, OnCourse, NodeOps, Quiet, Watched,
     MadeAt, ReadFirst
<1>7. CASE ChangeVpcs(p)
  <2>1. OnCourse(cmd[p], "change")
    BY <1>7, CourseOf DEF ChangeVpcs, OnCourse, NodeOps, Quiet
  <2>2. cmd[p].op \in {"db-vpc-attach", "db-vpc-detach"}
    BY <1>7, CourseOf DEF ChangeVpcs, OnCourse, Quiet
  <2> QED BY <1>3, <1>7, <2>1, <2>2 DEF ChangeVpcs, Guarded
<1>8. CASE ClusterUnfit(p) \/ DeletionRejected(p) \/ PasswordUnusable(p)
  BY <1>8, FailureActs DEF ClusterUnfit, DeletionRejected, PasswordUnusable
<1>9. CASE DeletionDeclined(p)
  BY <1>9 DEF DeletionDeclined, Acts, Ends
<1>10. CASE BeginGet(p) \/ GetOn(p)
  <2>1. OnCourse(cmd[p], "db-part")
    BY <1>10, CourseOf DEF BeginGet, GetOn, PartRead, Begins, OnCourse, NodeOps, Quiet
  <2> QED BY <1>10, <2>1, ReadActs DEF BeginGet, GetOn, ReadPart, Quiet, Watched,
             MadeAt, ReadFirst
<1>11. CASE GetDone(p)
  <2>1. cmd[p].op \notin Creations \cup {"volume-delete"}
    BY <1>11, CourseOf DEF GetDone, PartRead, OnCourse, NodeOps, Creations, Quiet
  <2> QED BY <1>11, <2>1, PlainSuccessActs, FailureActs DEF GetDone, PartRead
<1>12. CASE Uncaught(p, {"db-engines", "db-plans", "db-vpc", "db-made",
                         "db-read", "db-part", "db-vpc-read"})
  BY <1>12, UncaughtActs
<1> QED BY <1>1, <1>2, <1>4, <1>5, <1>6, <1>7, <1>8, <1>9, <1>10, <1>11, <1>12,
           ClusterOrderActs
        DEF DatabaseStep

LEMMA BalancerActs ==
    ASSUME StepInv, NEW p \in Proc, BalancerStep(p)
    PROVE  Acts(p)
<1>1. CASE FindReserved(p) \/ FindPlans(p)
  <2>1. OnCourse(cmd[p], "lb-ip") /\ OnCourse(cmd[p], "lb-plans")
    BY <1>1, CourseOf DEF FindReserved, FindPlans, OrderBalancer, InventoryRead, Begins,
       OnCourse, NodeOps, Quiet
  <2> QED BY <1>1, <2>1, ReadActs DEF FindReserved, FindPlans, Ask, Quiet, Watched,
             MadeAt, ReadFirst
<1>2. CASE FindVpc(p)
  BY <1>2, CourseOf, ReadActs DEF FindVpc, PlansFound, GetVpc, OnCourse, NodeOps,
     Quiet, Watched,
     MadeAt, ReadFirst
<1>3. ASSUME NEW selection, SendOrder(p, selection), OnCourse(cmd[p], "lb-made")
      PROVE  Acts(p)
  BY <1>3, MakingActs DEF SendOrder, Ask, MadeAt, Makes, Request
<1>4. CASE OrderPlain(p) \/ OrderInVpc(p)
  <2>1. OnCourse(cmd[p], "lb-made")
    BY <1>4, CourseOf DEF OrderPlain, OrderInVpc, PlansFound, OnCourse, NodeOps, Quiet
  <2> QED BY <1>3, <1>4, <2>1 DEF OrderPlain, OrderInVpc
<1>5. CASE ReadToReserve(p) \/ GetBalancer(p) \/ ShowBalancerPlans(p)
  BY <1>5, ReadActs DEF ReadToReserve, GetBalancer, ShowBalancerPlans, ReadBalancer,
     Begins, Ask, OnCourse, NodeOps, Quiet, Watched, MadeAt, ReadFirst
<1>6. CASE ReserveAddress(p)
  BY <1>6, CourseOf, ChangeActs DEF ReserveAddress, BalancerRead, Ask, OnCourse,
     NodeOps, Quiet, OrderPaths
<1>7. CASE BalancerMade(p)
  BY <1>7, CourseOf, MadeActs DEF BalancerMade, MadeAt, OnCourse, NodeOps, Quiet
<1>8. CASE BalancerShown(p)
  BY <1>8, CourseOf, PlainSuccessActs DEF BalancerShown, OnCourse, NodeOps, Creations,
     Quiet
<1>9. CASE ReservedUnfit(p) \/ SelectionUnfit(p) \/ Unreservable(p)
  BY <1>9, FailureActs DEF ReservedUnfit, SelectionUnfit, Unreservable
<1>10. CASE Uncaught(p, {"lb-ip", "lb-plans", "lb-vpc", "lb-made", "lb-read",
                         "lb-show"})
  BY <1>10, UncaughtActs
<1> QED BY <1>1, <1>2, <1>4, <1>5, <1>6, <1>7, <1>8, <1>9, <1>10 DEF BalancerStep

\* Whatever a command does, it leaves what the API holds alone.
heldVars == <<volumes, groups, nodeVars, databaseVars, accountVars>>

LEMMA ProceedActs ==
    ASSUME StepInv, NEW p \in Proc, Proceed(p)
    PROVE  Acts(p) /\ UNCHANGED heldVars
<1>1. Acts(p)
  BY CommandActs, VolumeActs, ListActs, GroupActs, IpActs, NodeActs, AddressActs,
     VpcActs,
     DatabaseActs, KeyActs, ImageActs, ProjectActs, BalancerActs DEF Proceed
<1>2. UNCHANGED heldVars
  BY DEF Proceed, heldVars, nodeVars, databaseVars, accountVars, itemVars, VolumeStep,
     ListStep, GroupStep, IpStep, NodeStep, AddressStep, VpcStep, DatabaseStep, KeyStep,
     ImageStep, ProjectStep, BalancerStep, ipVars
<1> QED BY <1>1, <1>2

-----------------------------------------------------------------------------
(* The kinds of steps of the API and of the network.                       *)

\* What the answers that orders depend on say.
Tells(p, path, value) ==
    /\ path = "group" => \E g \in groups : g.id = cmd[p].target /\ value = g.description
    /\ path = "node" =>
         call[p].request.arg \in DOMAIN nodes /\ value \in Details(call[p].request.arg)
    /\ path = "engines" => value = Engines
    /\ path = "plans" => value \subseteq PlansOf[call[p].request.arg]
    /\ path = "vpc" => value = call[p].request.arg
    /\ path = "cluster" =>
         /\ call[p].request.arg \in DOMAIN clusters
         /\ value.type = TypeOf(clusters[call[p].request.arg])

\* The API answers a request that is not for volumes or groups.
AnswersOther(p) ==
    /\ \E path, value :
         /\ path \notin {"volumes", "groups"} /\ AnswerGet(p, path, value)
         /\ Tells(p, path, value)
    /\ UNCHANGED <<commandVars, volumes, groups>>

\* What is made is made for the one who asked, and he is told.
MadeFor(p, m, value) ==
    IF Makes(m.request)
    THEN \E id : /\ created' = [created EXCEPT ![p] = @ \cup {id}]
                 /\ \A q \in Proc : id \notin created[q]
                 /\ value = id \/ (value = None /\ MayLackId(m.request))
    ELSE UNCHANGED created

\* It applies a change that concerns neither volumes nor groups.
TakesOther(p) ==
    /\ \E m, value :
         /\ Take(p, m, value) /\ MadeFor(p, m, value)
         /\ m.request.path \notin {"volumes", "groups"}
    /\ disturbed \subseteq disturbed'
    /\ UNCHANGED <<progressVars, volumes, groups>>

LEMMA OtherAnswer ==
    ASSUME NEW p \in Proc, NEW path, NEW value, AnswerGet(p, path, value),
           path \notin {"volumes", "groups"}, Tells(p, path, value),
           UNCHANGED <<commandVars, volumes, groups>>
    PROVE  AnswersOther(p)
BY DEF AnswersOther

LEMMA OtherMaking ==
    ASSUME NEW p \in Proc, NEW m, NEW value, NEW id, Take(p, m, value),
           Makes(m.request), value = id \/ (value = None /\ MayLackId(m.request)),
           m.request.path \notin {"volumes", "groups"},
           \A q \in Proc : id \notin created[q],
           created' = [created EXCEPT ![p] = @ \cup {id}],
           disturbed \subseteq disturbed', UNCHANGED <<progressVars, volumes, groups>>
    PROVE  TakesOther(p)
<1>1. MadeFor(p, m, value)
  BY DEF MadeFor
<1> QED BY <1>1 DEF TakesOther

LEMMA OtherChange ==
    ASSUME NEW p \in Proc, NEW m, NEW value, Take(p, m, value), ~Makes(m.request),
           m.request.path \notin {"volumes", "groups"}, UNCHANGED created,
           disturbed \subseteq disturbed', UNCHANGED <<progressVars, volumes, groups>>
    PROVE  TakesOther(p)
<1>1. MadeFor(p, m, value)
  BY DEF MadeFor
<1> QED BY <1>1 DEF TakesOther

ApiKinds(p) ==
    \/ AnswerVolumes(p) /\ UNCHANGED <<commandVars, volumes, groups>>
    \/ AnswerGroups(p) /\ UNCHANGED volumes
    \/ (MakeVolume(p) \/ DropVolume(p)) /\ UNCHANGED groups
    \/ (MakeGroup(p) \/ ChangeGroup(p) \/ DropGroup(p)) /\ UNCHANGED volumes
    \/ AnswersOther(p)
    \/ TakesOther(p)

LEMMA VolumeApiKinds ==
    ASSUME NEW p \in Proc, VolumeApi(p), UNCHANGED groups
    PROVE  ApiKinds(p)
<1>1. CASE AnswerPlans(p) \/ AnswerVolume(p)
  BY <1>1, OtherAnswer DEF AnswerPlans, AnswerVolume, ApiKinds, Tells
<1> QED BY <1>1 DEF VolumeApi, ApiKinds

LEMMA ListApiKinds ==
    ASSUME NEW p \in Proc, ListApi(p), UNCHANGED groups
    PROVE  ApiKinds(p)
<1>1. UNCHANGED <<commandVars, volumes, groups>>
  BY DEF ListApi
<1>2. CASE AnswerVolumes(p)
  BY <1>1, <1>2 DEF ApiKinds
<1>3. CASE \/ AnswerVpcs(p) \/ AnswerClusters(p) \/ AnswerHosts(p)
           \/ AnswerBalancers(p) \/ AnswerCertificates(p)
  BY <1>1, <1>3, OtherAnswer DEF AnswerVpcs, AnswerClusters, AnswerHosts,
     AnswerBalancers, AnswerCertificates, AnswerWhole, AnswerPage, ApiKinds, Tells
<1> QED BY <1>2, <1>3 DEF ListApi

LEMMA IpApiKinds ==
    ASSUME NEW p \in Proc, IpApi(p), UNCHANGED <<volumes, groups>>
    PROVE  ApiKinds(p)
<1>1. CASE AllocateIp(p)
  BY <1>1, OtherMaking DEF AllocateIp, Makes, ApiKinds
<1>2. CASE ReleaseIp(p)
  BY <1>2, OtherChange DEF ReleaseIp, Makes, ApiKinds
<1>3. CASE AnswerInventory(p)
  BY <1>3, OtherAnswer DEF AnswerInventory, ApiKinds, Tells
<1> QED BY <1>1, <1>2, <1>3 DEF IpApi

LEMMA NodeApiKinds ==
    ASSUME NEW p \in Proc, NodeApi(p) \/ AddressApi(p), UNCHANGED <<volumes, groups>>
    PROVE  ApiKinds(p)
<1>1. CASE MakeNode(p)
  BY <1>1, OtherMaking DEF MakeNode, Makes, ApiKinds
<1>2. CASE ApplyToNode(p)
  BY <1>2, OtherChange DEF ApplyToNode, Makes, ApiKinds
<1>3. CASE AnswerNode(p) \/ AnswerNodes(p)
  BY <1>3, OtherAnswer DEF AnswerNode, AnswerNodes, ApiKinds, Tells
<1>4. CASE ApplyToAddress(p)
  BY <1>4, OtherChange DEF ApplyToAddress, Makes, ApiKinds
<1>5. CASE DropNode(p)
  BY <1>5, OtherChange DEF DropNode, Makes, ApiKinds, commandVars
<1> QED BY <1>1, <1>2, <1>3, <1>4, <1>5 DEF NodeApi, AddressApi

LEMMA VpcApiKinds ==
    ASSUME NEW p \in Proc, VpcApi(p), UNCHANGED <<volumes, groups>>
    PROVE  ApiKinds(p)
<1>1. CASE MakeVpc(p)
  BY <1>1, OtherMaking DEF MakeVpc, Makes, ApiKinds
<1>2. CASE DropVpc(p)
  BY <1>2, OtherChange DEF DropVpc, Makes, ApiKinds
<1>3. CASE AnswerVpc(p) \/ AnswerVpcPlans(p)
  BY <1>3, OtherAnswer DEF AnswerVpc, AnswerVpcPlans, ApiKinds, Tells
<1> QED BY <1>1, <1>2, <1>3 DEF VpcApi

LEMMA DatabaseApiKinds ==
    ASSUME NEW p \in Proc, DatabaseApi(p), UNCHANGED <<volumes, groups>>
    PROVE  ApiKinds(p)
<1>1. CASE MakeCluster(p)
  BY <1>1, OtherMaking DEF MakeCluster, Makes, MayLackId, ApiKinds
<1>2. CASE ApplyToCluster(p)
  BY <1>2, OtherChange DEF ApplyToCluster, Makes, ApiKinds
<1>3. CASE DropCluster(p)
  BY <1>3, OtherChange DEF DropCluster, Makes, ApiKinds
<1>4. CASE AnswerPart(p) \/ AnswerEngines(p)
  BY <1>4, OtherAnswer DEF AnswerPart, AnswerEngines, ApiKinds, Tells
<1>5. CASE AnswerCluster(p)
  <2>1. \E value : AnswerGet(p, "cluster", value) /\ Tells(p, "cluster", value)
    BY <1>5 DEF AnswerCluster, Tells
  <2> QED BY <1>5, <2>1, OtherAnswer DEF AnswerCluster, ApiKinds, Tells
<1>6. CASE AnswerPlansOf(p)
  <2>1. \E value : AnswerGet(p, "plans", value) /\ Tells(p, "plans", value)
    BY <1>6 DEF AnswerPlansOf, Tells
  <2> QED BY <1>6, <2>1, OtherAnswer DEF AnswerPlansOf, ApiKinds, Tells
<1> QED BY <1>1, <1>2, <1>3, <1>4, <1>5, <1>6 DEF DatabaseApi

LEMMA ItemApiKinds ==
    ASSUME NEW p \in Proc, KeyApi(p) \/ ImageApi(p) \/ ProjectApi(p),
           UNCHANGED <<volumes, groups>>
    PROVE  ApiKinds(p)
<1>1. CASE MakeKey(p) \/ MakeImage(p) \/ MakeProject(p)
  BY <1>1, OtherMaking DEF MakeKey, MakeImage, MakeProject, Makes, ApiKinds
<1>2. CASE DropKey(p)
  BY <1>2, OtherChange DEF DropKey, Makes, ApiKinds, commandVars
<1>3. CASE NameImage(p) \/ DropImage(p)
  BY <1>3, OtherChange DEF NameImage, DropImage, Makes, ApiKinds, commandVars
<1>4. CASE MarkProject(p)
  BY <1>4, OtherChange DEF MarkProject, Makes, ApiKinds, commandVars
<1>5. CASE AnswerKeys(p) \/ AnswerImages(p) \/ AnswerProjects(p)
  BY <1>5, OtherAnswer DEF AnswerKeys, AnswerImages, AnswerProjects, ApiKinds, Tells
<1> QED BY <1>1, <1>2, <1>3, <1>4, <1>5 DEF KeyApi, ImageApi, ProjectApi

LEMMA BalancerApiKinds ==
    ASSUME NEW p \in Proc, BalancerApi(p), UNCHANGED <<volumes, groups>>
    PROVE  ApiKinds(p)
<1>1. CASE MakeBalancer(p)
  BY <1>1, OtherMaking DEF MakeBalancer, Makes, ApiKinds
<1>2. CASE ReserveIp(p)
  BY <1>2, OtherChange DEF ReserveIp, Makes, ApiKinds, commandVars
<1>3. CASE AnswerBalancerPlans(p) \/ AnswerBalancer(p)
  BY <1>3, OtherAnswer DEF AnswerBalancerPlans, AnswerBalancer, ApiKinds, Tells
<1>4. CASE AnswerItems(p)
  <2>1. \E value : AnswerGet(p, "inventory-items", value)
    BY <1>4 DEF AnswerItems
  <2> QED BY <1>4, <2>1, OtherAnswer DEF AnswerItems, ApiKinds, Tells
<1> QED BY <1>1, <1>2, <1>3, <1>4 DEF BalancerApi

LEMMA EveryApiKind ==
    ASSUME NEW p \in Proc, ApiStep(p)
    PROVE  ApiKinds(p)
<1>1. CASE VolumeApi(p) /\ UNCHANGED <<groups, nodeVars, databaseVars>>
  BY <1>1, VolumeApiKinds
<1>2. CASE ListApi(p) /\ UNCHANGED <<groups, nodeVars>>
  BY <1>2, ListApiKinds
<1>3. CASE GroupApi(p) /\ UNCHANGED volumes
  BY <1>3 DEF GroupApi, ApiKinds, AnswersOther, AnswerGroup, Tells
<1>4. CASE ~GroupApi(p) /\ UNCHANGED <<volumes, groups>>
  BY <1>4, IpApiKinds, NodeApiKinds, VpcApiKinds, DatabaseApiKinds, ItemApiKinds,
     BalancerApiKinds, VolumeApiKinds, ListApiKinds DEF ApiStep
<1> QED BY <1>1, <1>2, <1>3, <1>4 DEF ApiStep

-----------------------------------------------------------------------------
(* Every step keeps what a command waits for in line with where it is.     *)

LEMMA Unmoved ==
    ASSUME NEW q, Steady(q), outcome'[q] = outcome[q], pc'[q] = pc[q],
           call'[q] = call[q], cmd'[q] = cmd[q], wire'[q] \subseteq wire[q]
    PROVE  Steady(q)'
BY DEF Steady

LEMMA SteadySends ==
    ASSUME StepInv, NEW p \in Proc, NEW label, NEW r, NEW found,
           Sends(p, label, r, found), pc[p] # "end"
    PROVE  SteadyInv'
<1>1. /\ call' = [call EXCEPT ![p] = Call("sent", r, 1, None)]
      /\ pc' = [pc EXCEPT ![p] = label]
      /\ report' = [report EXCEPT ![p] = found]
      /\ UNCHANGED <<cmd, outcome>>
      /\ wire' = OnWire(p, r, 1)
  BY DEF Sends, AskWith, Send, Goto
<1>2. /\ \A q \in Proc \ {p} : wire'[q] = wire[q]
      /\ \A m \in wire'[p] : m \in wire[p] \/ (m.request = r /\ r.method # "GET")
  BY <1>1 DEF OnWire, Message, StepInv, OnceInv, Domains
<1>3. ASSUME NEW q \in Proc \ {p} PROVE Steady(q)'
  BY <1>1, <1>2, Unmoved DEF StepInv, SteadyInv, OnceInv, Domains
<1>4. Steady(p)'
  <2>1. call'[p] = Call("sent", r, 1, None) /\ pc'[p] = label
    BY <1>1 DEF StepInv, OnceInv, Domains
  <2>2. /\ OnCourse(cmd[p], label) /\ Expected(cmd[p], label, r) /\ label \notin Quiet
        /\ \A m \in wire'[p] : Sound(cmd[p], m.request)
    BY <1>2 DEF Sends, StepInv, SteadyInv, Steady
  <2>3. outcome[p] \in Outcomes /\ outcome[p] = "none" /\ label # "end"
    BY <2>2 DEF StepInv, SteadyInv, Steady, Quiet
  <2> QED BY <1>1, <2>1, <2>2, <2>3 DEF Steady, Call
<1> QED BY <1>1, <1>3, <1>4 DEF StepInv, SteadyInv

LEMMA SteadyExit ==
    ASSUME StepInv, NEW p \in Proc, NEW result \in Outcomes \ {"none"},
           Exit(p, result), DOMAIN report' = Proc
    PROVE  SteadyInv'
<1>1. /\ call' = [call EXCEPT ![p] = NoCall]
      /\ pc' = [pc EXCEPT ![p] = "end"]
      /\ outcome' = [outcome EXCEPT ![p] = result]
      /\ UNCHANGED <<cmd, wire>>
  BY DEF Exit, Goto
<1>2. ASSUME NEW q \in Proc \ {p} PROVE Steady(q)'
  BY <1>1, Unmoved DEF StepInv, SteadyInv, OnceInv, Domains
<1>3. Steady(p)'
  BY <1>1 DEF Steady, StepInv, SteadyInv, OnceInv, Domains, NoCall, Call, Quiet
<1> QED BY <1>1, <1>2, <1>3 DEF StepInv, SteadyInv

LEMMA SteadyTurns ==
    ASSUME StepInv, NEW p \in Proc, NEW label, Turns(p, label), pc[p] # "end"
    PROVE  SteadyInv'
<1>1. /\ pc' = [pc EXCEPT ![p] = label] /\ DOMAIN report' = Proc
      /\ UNCHANGED <<call, wire, cmd, outcome>>
  BY DEF Turns, Goto, transportVars, StepInv, SteadyInv
<1>2. ASSUME NEW q \in Proc \ {p} PROVE Steady(q)'
  BY <1>1, Unmoved DEF StepInv, SteadyInv, OnceInv, Domains
<1>3. label # "end" /\ (label \notin Quiet => OnCourse(cmd[p], label))
  BY DEF Turns, Quiet
<1>4. label \notin Quiet => Expected(cmd[p], label, call[p].request)
  BY DEF Turns, Quiet, Expected, MadeAt
<1>5. Steady(p)'
  BY <1>1, <1>3, <1>4 DEF Steady, StepInv, SteadyInv, OnceInv, Domains
<1> QED BY <1>1, <1>2, <1>5 DEF StepInv, SteadyInv

\* A request is answered or given up.
LEMMA SteadyDone ==
    ASSUME StepInv, NEW p \in Proc, NEW status, NEW value, Finish(p, status, value),
           \A q \in Proc : wire'[q] \subseteq wire[q],
           UNCHANGED progressVars
    PROVE  SteadyInv'
<1>1. /\ call' = [call EXCEPT ![p] = Call("done", @.request, @.attempt,
                                          [status |-> status, value |-> value])]
      /\ UNCHANGED <<pc, cmd, outcome, report>>
  BY DEF Finish, progressVars
<1>2. ASSUME NEW q \in Proc \ {p} PROVE Steady(q)'
  BY <1>1, Unmoved DEF StepInv, SteadyInv, OnceInv, Domains
<1>3. call'[p].state = "done" /\ call'[p].request = call[p].request
  BY <1>1 DEF StepInv, OnceInv, Domains, Call
<1>4. Steady(p)'
  BY <1>1, <1>3 DEF Steady, StepInv, SteadyInv
<1> QED BY <1>1, <1>2, <1>4 DEF StepInv, SteadyInv

LEMMA SteadyQuiet ==
    ASSUME StepInv, UNCHANGED <<call, progressVars>>,
           \A q \in Proc : wire'[q] \subseteq wire[q]
    PROVE  SteadyInv'
<1>1. ASSUME NEW q \in Proc PROVE Steady(q)'
  BY Unmoved DEF progressVars, StepInv, SteadyInv
<1> QED BY <1>1 DEF progressVars, StepInv, SteadyInv

LEMMA SteadyTake ==
    ASSUME StepInv, NEW p \in Proc, NEW m, NEW value, Take(p, m, value),
           UNCHANGED progressVars
    PROVE  SteadyInv'
<1>1. \A q \in Proc : wire'[q] \subseteq wire[q]
  BY DEF Take, StepInv, OnceInv, Domains
<1> QED BY <1>1, SteadyDone, SteadyQuiet DEF Take

LEMMA SteadyAnswer ==
    ASSUME StepInv, NEW p \in Proc, NEW path, NEW value, AnswerGet(p, path, value),
           UNCHANGED commandVars
    PROVE  SteadyInv'
BY SteadyDone DEF AnswerGet, commandVars

LEMMA SteadyTransport ==
    ASSUME StepInv, NEW p \in Proc, TransportStep(p), UNCHANGED commandVars
    PROVE  SteadyInv'
<1>1. UNCHANGED progressVars
  BY DEF commandVars
<1>2. CASE Refused(p)
  <2>1. \A q \in Proc : wire'[q] \subseteq wire[q]
    BY <1>2 DEF Refused, StepInv, OnceInv, Domains
  <2> QED BY <1>1, <1>2, <2>1, SteadyDone DEF Refused
<1>3. ASSUME NEW status, AttemptFails(p, status) PROVE SteadyInv'
  <2>1. CASE Finish(p, status, None) /\ UNCHANGED wire
    BY <1>1, <2>1, SteadyDone
  <2>2. CASE call[p].attempt < MaxAttempts(call[p].request.method)
    <3>1. call[p].request.method = "GET" /\ call[p].attempt \in 1 .. 2
      BY <1>3, <2>2 DEF AttemptFails, MaxAttempts, StepInv, SteadyInv, Steady
    <3>2. call[p].attempt + 1 \in 1 .. 2
      BY <2>2, <3>1 DEF MaxAttempts
    <3>3. /\ call' = [call EXCEPT ![p] = Call("sent", @.request, @.attempt + 1, None)]
          /\ wire' = wire
      BY <1>3, <2>2, <3>1 DEF AttemptFails, OnWire
    <3>4. /\ call'[p].state = "sent" /\ call'[p].request = call[p].request
          /\ call'[p].attempt = call[p].attempt + 1
      BY <3>3 DEF StepInv, OnceInv, Domains, Call
    <3>5. ASSUME NEW q \in Proc \ {p} PROVE Steady(q)'
      BY <1>1, <3>3, Unmoved DEF progressVars, StepInv, SteadyInv, OnceInv, Domains
    <3>6. Steady(p)'
      BY <1>1, <3>2, <3>3, <3>4 DEF Steady, progressVars, StepInv, SteadyInv
    <3> QED BY <1>1, <3>5, <3>6 DEF progressVars, StepInv, SteadyInv
  <2> QED BY <1>3, <2>1, <2>2 DEF AttemptFails
<1> QED BY <1>2, <1>3 DEF TransportStep

LEMMA SteadyActs ==
    ASSUME StepInv, NEW p \in Proc, Acts(p), pc[p] # "end"
    PROVE  SteadyInv'
<1>1. ASSUME NEW label, NEW r, NEW found, Sends(p, label, r, found) PROVE SteadyInv'
  BY <1>1, SteadySends
<1>2. CASE Ends(p)
  <2>1. PICK result \in {"cancelled", "error", "killed"} : Exit(p, result)
    BY <1>2 DEF Ends
  <2>2. result \in Outcomes \ {"none"} /\ DOMAIN report' = Proc
    BY <1>2 DEF Ends, Outcomes, StepInv, SteadyInv
  <2> QED BY <2>1, <2>2, SteadyExit
<1>3. ASSUME NEW value, Succeeds(p, value) PROVE SteadyInv'
  <2>1. Exit(p, "ok") /\ report' = [report EXCEPT ![p] = value]
    BY <1>3 DEF Succeeds, Succeed
  <2>2. "ok" \in Outcomes \ {"none"} /\ DOMAIN report' = Proc
    BY <2>1 DEF Outcomes, StepInv, SteadyInv
  <2> QED BY <2>1, <2>2, SteadyExit
<1>4. ASSUME NEW label, Turns(p, label) PROVE SteadyInv'
  BY <1>4, SteadyTurns
<1> QED BY <1>1, <1>2, <1>3, <1>4 DEF Acts

LEMMA SteadyApi ==
    ASSUME StepInv, NEW p \in Proc, ApiKinds(p)
    PROVE  SteadyInv'
<1>1. CASE AnswerVolumes(p) /\ UNCHANGED <<commandVars, volumes, groups>>
  BY <1>1, SteadyAnswer DEF AnswerVolumes, AnswerWhole, AnswerPage
<1>2. CASE AnswerGroups(p)
  BY <1>2, SteadyAnswer DEF AnswerGroups
<1>3. CASE MakeVolume(p) \/ DropVolume(p)
  BY <1>3, SteadyTake DEF MakeVolume, DropVolume
<1>4. CASE MakeGroup(p) \/ ChangeGroup(p) \/ DropGroup(p)
  BY <1>4, SteadyTake DEF MakeGroup, ChangeGroup, DropGroup, commandVars
<1>5. CASE AnswersOther(p)
  BY <1>5, SteadyAnswer DEF AnswersOther
<1>6. CASE TakesOther(p)
  BY <1>6, SteadyTake DEF TakesOther
<1> QED BY <1>1, <1>2, <1>3, <1>4, <1>5, <1>6 DEF ApiKinds

\* The kinds of all steps.
LEMMA StepKinds ==
    ASSUME StepInv, [Next]_vars
    PROVE  \/ \E p \in Proc : Acts(p) /\ pc[p] # "end" /\ UNCHANGED heldVars
           \/ \E p \in Proc : TransportStep(p) /\ UNCHANGED <<commandVars, heldVars>>
           \/ \E p \in Proc : ApiKinds(p) /\ ApiStep(p)
           \/ \E p \in Proc : Lose(p) /\ UNCHANGED <<commandVars, heldVars>>
           \/ UNCHANGED <<transportVars, commandVars, volumes, groups, nodes, databaseVars>>
<1>1. ASSUME NEW p \in Proc, ProcessStep(p)
      PROVE  \/ Acts(p) /\ pc[p] # "end" /\ UNCHANGED heldVars
             \/ TransportStep(p) /\ UNCHANGED <<commandVars, heldVars>>
  BY <1>1, ProceedActs DEF ProcessStep, heldVars
<1>2. ASSUME NEW p \in Proc, ApiStep(p) PROVE ApiKinds(p)
  BY <1>2, EveryApiKind
<1>3. ASSUME NEW p \in Proc, Mishap(p)
      PROVE  \/ Acts(p) /\ pc[p] # "end" /\ UNCHANGED heldVars
             \/ Lose(p) /\ UNCHANGED <<commandVars, heldVars>>
  BY <1>3 DEF Mishap, Kill, Running, Acts, Ends, heldVars
<1>4. CASE ShowIp /\ UNCHANGED <<volumes, groups, nodes, databaseVars, accountVars>>
  BY <1>4 DEF ShowIp
<1>5. CASE UNCHANGED vars
  BY <1>5 DEF vars, nodeVars, databaseVars
<1> QED BY <1>1, <1>2, <1>3, <1>4, <1>5 DEF Next

LEMMA StepInit == Init => StepInv
<1> SUFFICES ASSUME Init PROVE StepInv
  OBVIOUS
<1>1. SteadyInv
  BY DEF Init, TransportInit, CommandInit, SteadyInv, Steady, NoCall, Call, Outcomes,
     Quiet
<1> QED BY <1>1, OnceInit DEF StepInv

LEMMA StepNext == StepInv /\ [Next]_vars => StepInv'
<1> SUFFICES ASSUME StepInv, [Next]_vars PROVE StepInv'
  OBVIOUS
<1>1. OnceInv'
  BY OnceNext DEF StepInv
<1>2. ASSUME NEW p \in Proc, Acts(p), pc[p] # "end" PROVE SteadyInv'
  BY <1>2, SteadyActs
<1>3. ASSUME NEW p \in Proc, TransportStep(p), UNCHANGED commandVars PROVE SteadyInv'
  BY <1>3, SteadyTransport
<1>4. ASSUME NEW p \in Proc, ApiKinds(p) PROVE SteadyInv'
  BY <1>4, SteadyApi
<1>5. ASSUME NEW p \in Proc, Lose(p), UNCHANGED commandVars PROVE SteadyInv'
  <2>1. \A q \in Proc : wire'[q] \subseteq wire[q]
    BY <1>5 DEF Lose, StepInv, OnceInv, Domains
  <2>2. UNCHANGED <<call, progressVars>>
    BY <1>5 DEF Lose, commandVars
  <2> QED BY <2>1, <2>2, SteadyQuiet
<1>6. ASSUME UNCHANGED <<transportVars, commandVars>> PROVE SteadyInv'
  <2>1. UNCHANGED <<call, progressVars>> /\ \A q \in Proc : wire'[q] \subseteq wire[q]
    BY <1>6 DEF transportVars, commandVars
  <2> QED BY <2>1, SteadyQuiet
<1>7. SteadyInv'
  BY <1>2, <1>3, <1>4, <1>5, <1>6, StepKinds
<1> QED BY <1>1, <1>7 DEF StepInv

-----------------------------------------------------------------------------
(* The lists of volumes, groups and addresses.                             *)

\* A list that loses the item at k: the items behind it come one place nearer.
LEMMA RemovedAt ==
    ASSUME NEW S, NEW s \in Seq(S), NEW k \in 1 .. Len(s)
    PROVE  LET t == RemoveAt(s, k) IN
           /\ t \in Seq(S) /\ Len(t) = Len(s) - 1
           /\ \A i \in 1 .. Len(t) : t[i] = s[IF i < k THEN i ELSE i + 1]
<1> DEFINE u == SubSeq(s, 1, k - 1)
           v == SubSeq(s, k + 1, Len(s))
<1>1. u \in Seq(S) /\ Len(u) = k - 1 /\ \A i \in 1 .. k - 1 : u[i] = s[i]
  OBVIOUS
<1>2. v \in Seq(S) /\ Len(v) = Len(s) - k /\ \A i \in 1 .. Len(s) - k : v[i] = s[k + i]
  OBVIOUS
<1>3. RemoveAt(s, k) = u \o v
  BY DEF RemoveAt
<1> HIDE DEF u, v
<1> QED BY <1>1, <1>2, <1>3

\* A new item comes first or last.
LEMMA AddedFirst ==
    ASSUME NEW S, NEW s \in Seq(S), NEW x \in S
    PROVE  LET t == <<x>> \o s IN
           /\ t \in Seq(S) /\ Len(t) = Len(s) + 1 /\ t[1] = x
           /\ \A i \in 2 .. Len(t) : t[i] = s[i - 1]
OBVIOUS

LEMMA VolumesAtFirst == Init => VolumesInv
<1> SUFFICES ASSUME Init PROVE VolumesInv
  OBVIOUS
<1>1. cmd \in Workloads /\ volumes \in InitialVolumes[cmd]
  BY DEF Init, CommandInit, VolumesInit
<1>2. IsVolumeList(volumes)
  BY <1>1, VolumesAssumption
<1>3. /\ volumes \in Seq(Range(volumes))
      /\ \A i, j \in DOMAIN volumes : volumes[i] = volumes[j] => i = j
  BY <1>2 DEF IsVolumeList
<1>4. Range(volumes) \subseteq VolumeIds
  BY <1>1 DEF VolumeIds
<1>5. volumes \in Seq(VolumeIds)
  BY <1>3, <1>4
<1> QED BY <1>3, <1>5 DEF VolumesInv

-----------------------------------------------------------------------------
(* Each volume is there once.                                              *)

LEMMA VolumesMade ==
    ASSUME VolumesInv, NEW p \in Proc, MakeVolume(p)
    PROVE  VolumesInv'
<1>1. PICK v \in NewVolumes \ Held : volumes' \in {<<v>> \o volumes, Append(volumes, v)}
  BY DEF MakeVolume
<1>2. volumes \in Seq(VolumeIds) /\ v \in VolumeIds /\ \A i \in DOMAIN volumes : volumes[i] # v
  BY DEF VolumesInv, VolumeIds, Held
<1>3. CASE volumes' = <<v>> \o volumes
  <2> DEFINE t == <<v>> \o volumes
  <2>1. /\ t \in Seq(VolumeIds) /\ Len(t) = Len(volumes) + 1 /\ t[1] = v
        /\ \A i \in 2 .. Len(t) : t[i] = volumes[i - 1]
    BY <1>2, AddedFirst
  <2> HIDE DEF t
  <2>2. ASSUME NEW i \in DOMAIN t, NEW j \in DOMAIN t, t[i] = t[j] PROVE i = j
    <3>1. i \in 1 .. Len(volumes) + 1 /\ j \in 1 .. Len(volumes) + 1
      BY <2>1
    <3>2. CASE i = 1 \/ j = 1
      BY <1>2, <2>1, <2>2, <3>1, <3>2
    <3>3. CASE i # 1 /\ j # 1
      <4>1. i - 1 \in DOMAIN volumes /\ j - 1 \in DOMAIN volumes
        BY <1>2, <3>1, <3>3
      <4>2. volumes[i - 1] = volumes[j - 1]
        BY <2>1, <2>2, <3>1, <3>3
      <4>3. i - 1 = j - 1
        BY <4>1, <4>2 DEF VolumesInv
      <4> QED BY <3>1, <4>3
    <3> QED BY <3>2, <3>3
  <2>3. volumes' = t
    BY <1>3 DEF t
  <2> QED BY <2>1, <2>2, <2>3 DEF VolumesInv
<1>4. CASE volumes' = Append(volumes, v)
  <2>1. volumes' \in Seq(VolumeIds)
    BY <1>2, <1>4
  <2>2. ASSUME NEW i \in DOMAIN volumes', NEW j \in DOMAIN volumes', volumes'[i] = volumes'[j]
        PROVE  i = j
    <3>1. i \in 1 .. Len(volumes) + 1 /\ j \in 1 .. Len(volumes) + 1
      BY <1>2, <1>4
    <3>2. \A k \in 1 .. Len(volumes) + 1 :
            volumes'[k] = IF k = Len(volumes) + 1 THEN v ELSE volumes[k]
      BY <1>2, <1>4
    <3> QED BY <1>2, <2>2, <3>1, <3>2 DEF VolumesInv
  <2> QED BY <2>1, <2>2 DEF VolumesInv
<1> QED BY <1>1, <1>3, <1>4

\* The volume at the place of the deletion is gone, and no other.
LEMMA VolumesDropped ==
    ASSUME VolumesInv, NEW k \in DOMAIN volumes, volumes' = RemoveAt(volumes, k)
    PROVE  VolumesInv' /\ Held' \subseteq Held \ {volumes[k]}
<1> DEFINE t == RemoveAt(volumes, k)
<1>1. volumes \in Seq(VolumeIds) /\ k \in 1 .. Len(volumes)
  BY DEF VolumesInv
<1>2. /\ t \in Seq(VolumeIds) /\ Len(t) = Len(volumes) - 1
      /\ \A i \in 1 .. Len(t) : t[i] = volumes[IF i < k THEN i ELSE i + 1]
  BY <1>1, RemovedAt
<1>3. volumes' = t
  OBVIOUS
<1> HIDE DEF t
<1>4. ASSUME NEW i \in DOMAIN t
      PROVE  \E n \in DOMAIN volumes :
               /\ n # k /\ t[i] = volumes[n] /\ i = IF n < k THEN n ELSE n - 1
  <2>1. (IF i < k THEN i ELSE i + 1) \in DOMAIN volumes
    BY <1>1, <1>2
  <2> QED BY <1>1, <1>2, <2>1
<1>5. ASSUME NEW i \in DOMAIN t, NEW j \in DOMAIN t, t[i] = t[j] PROVE i = j
  BY <1>4, <1>5 DEF VolumesInv
<1>6. Held' \subseteq Held \ {volumes[k]}
  BY <1>3, <1>4 DEF Held, VolumesInv
<1> QED BY <1>2, <1>3, <1>5, <1>6 DEF VolumesInv

LEMMA VolumesNext == VolumesInv /\ StepInv /\ [Next]_vars => VolumesInv'
<1> SUFFICES ASSUME VolumesInv, StepInv, [Next]_vars PROVE VolumesInv'
  OBVIOUS
<1>1. CASE UNCHANGED volumes
  BY <1>1 DEF VolumesInv
<1>2. ASSUME NEW p \in Proc, MakeVolume(p) PROVE VolumesInv'
  BY <1>2, VolumesMade
<1>3. ASSUME NEW p \in Proc, DropVolume(p) PROVE VolumesInv'
  BY <1>3, VolumesDropped DEF DropVolume
<1>4. ASSUME NEW p \in Proc, ApiKinds(p) PROVE VolumesInv'
  BY <1>1, <1>2, <1>3, <1>4 DEF ApiKinds, AnswersOther, TakesOther
<1> QED BY <1>1, <1>4, StepKinds DEF heldVars

-----------------------------------------------------------------------------
(* Pages.                                                                  *)

LEMMA QuotientBounds ==
    ASSUME NEW n \in Nat, NEW d \in Nat \ {0}
    PROVE  LET q == n \div d IN q \in Nat /\ d * q <= n /\ n < d * q + d
OBVIOUS

\* Products with a larger factor are larger.
LEMMA ProductGrows ==
    ASSUME NEW d \in Nat \ {0}, NEW a \in Nat, NEW b \in Nat, a < b
    PROVE  d * a + d <= d * b
<1>1. PICK k \in Nat : b = a + 1 + k
  <2>1. b - a - 1 \in Nat
    OBVIOUS
  <2> QED BY <2>1
<1>2. d * b = d * a + d + d * k
  BY <1>1
<1>3. d * k \in Nat /\ d * a \in Nat
  OBVIOUS
<1> QED BY <1>2, <1>3

\* A quotient grows with what is divided.
LEMMA QuotientGrows ==
    ASSUME NEW d \in Nat \ {0}, NEW m \in Nat, NEW n \in Nat, m <= n
    PROVE  m \div d <= n \div d
<1> DEFINE a == n \div d  b == m \div d
<1>1. /\ a \in Nat /\ d * a <= n /\ n < d * a + d
      /\ b \in Nat /\ d * b <= m /\ m < d * b + d
  BY QuotientBounds
<1>2. d * a \in Nat /\ d * b \in Nat
  BY <1>1
<1> HIDE DEF a, b
<1>3. ~(a < b)
  BY <1>1, <1>2, ProductGrows
<1> QED BY <1>1, <1>3 DEF a, b

\* It grows by one with every divisor.
LEMMA QuotientSteps ==
    ASSUME NEW d \in Nat \ {0}, NEW n \in Nat
    PROVE  (n + d) \div d = n \div d + 1
<1> DEFINE a == n \div d  b == (n + d) \div d
<1>1. /\ a \in Nat /\ d * a <= n /\ n < d * a + d
      /\ b \in Nat /\ d * b <= n + d /\ n + d < d * b + d
  BY QuotientBounds
<1>2. d * a \in Nat /\ d * b \in Nat /\ d * (a + 1) = d * a + d
  BY <1>1
<1> HIDE DEF a, b
<1>3. ~(b < a + 1)
  BY <1>1, <1>2, ProductGrows
<1>4. ~(a + 1 < b)
  BY <1>1, <1>2, ProductGrows
<1> QED BY <1>1, <1>3, <1>4 DEF a, b

\* Pages count from 1, and later items are on later pages.
LEMMA PagesGrow ==
    ASSUME NEW i \in Nat \ {0}, NEW j \in Nat \ {0}, i <= j
    PROVE  PageAt(i) \in Nat \ {0} /\ PageAt(i) <= PageAt(j)
<1>1. i - 1 \in Nat /\ j - 1 \in Nat /\ i - 1 <= j - 1
  OBVIOUS
<1>2. (i - 1) \div PageSize \in Nat /\ (j - 1) \div PageSize \in Nat
  BY <1>1, QuotientBounds, PagesAssumption
<1>3. (i - 1) \div PageSize <= (j - 1) \div PageSize
  BY <1>1, QuotientGrows, PagesAssumption
<1> QED BY <1>2, <1>3 DEF PageAt

\* Every item is on one of the pages that are counted.
LEMMA PagesCounted ==
    ASSUME NEW S, NEW s \in Seq(S)
    PROVE  PageCount(s) \in Nat /\ \A i \in DOMAIN s : PageAt(i) <= PageCount(s)
<1>1. CASE s = <<>>
  BY <1>1 DEF PageCount
<1>2. CASE s # <<>>
  <2>1. Len(s) \in Nat \ {0} /\ Len(s) - 1 \in Nat /\ DOMAIN s = 1 .. Len(s)
    BY <1>2
  <2>2. (Len(s) - 1 + PageSize) \div PageSize = (Len(s) - 1) \div PageSize + 1
    BY <2>1, QuotientSteps, PagesAssumption
  <2>3. Len(s) - 1 + PageSize = Len(s) + PageSize - 1
    BY <2>1, PagesAssumption
  <2>4. PageCount(s) = PageAt(Len(s))
    BY <1>2, <2>2, <2>3 DEF PageCount, PageAt
  <2> QED BY <2>1, <2>4, PagesGrow
<1> QED BY <1>1, <1>2

-----------------------------------------------------------------------------
(* The search for a volume whose deletion timed out.                       *)

\* Where the deletion of a volume has been sent.
Asked == {"volume-delete", "volume-verify", "end"}

\* What is true of the volume that q deletes, and of the pages it has searched,
\* stays true.
Follows(q) ==
    /\ pc[q] \in Asked => (Gone(q) => Gone(q)')
    /\ pc[q] = "volume-verify" => \A n \in Nat : NotBefore(q, n) => NotBefore(q, n)'

Spared(q) == q \in disturbed' \/ cmd[q].op # "volume-delete" \/ Follows(q)

LEMMA VerifiedPage ==
    ASSUME StepInv, NEW p \in Proc, pc[p] = "volume-verify"
    PROVE  /\ call[p].request.arg.page \in Nat \ {0} /\ NextNumber(p) \in Nat \ {0}
           /\ call[p].request.path = "volumes" /\ call[p].request.method = "GET"
<1>1. Expected(cmd[p], pc[p], call[p].request)
  BY DEF StepInv, SteadyInv, Steady, Quiet
<1> QED BY <1>1, PagesAssumption DEF Expected, NextNumber

LEMMA SearchStays ==
    ASSUME StepInv, NEW q \in Proc, SearchSound(q), Spared(q), disturbed \subseteq disturbed',
           pc'[q] = pc[q], cmd'[q] = cmd[q], outcome'[q] = outcome[q], call'[q] = call[q]
    PROVE  SearchSound(q)'
<1>1. /\ PageSearched(q)' <=> PageSearched(q)
      /\ Value(q)' = Value(q)
      /\ StillThere(q)' <=> StillThere(q)
      /\ NextNumber(q)' = NextNumber(q)
      /\ Has(q, "ok")' <=> Has(q, "ok")
      /\ Succeeded(q, "volume-delete")' <=> Succeeded(q, "volume-delete")
  BY DEF PageSearched, Value, StillThere, NextNumber, Has, Succeeded
<1>2. ASSUME cmd[q].op = "volume-delete", q \notin disturbed' PROVE Searched(q)'
  <2>1. Follows(q) /\ Searched(q)
    BY <1>2 DEF Spared, SearchSound
  <2>2. pc[q] = "volume-verify" =>
          call[q].request.arg.page \in Nat /\ NextNumber(q) \in Nat
    BY VerifiedPage
  <2>3. PageSearched(q) => pc[q] = "volume-verify"
    BY DEF PageSearched
  <2>4. Succeeded(q, "volume-delete") => pc[q] = "end"
    BY DEF Succeeded, StepInv, SteadyInv, Steady
  <2>5. /\ pc[q] = "volume-delete" /\ Has(q, "ok") => Gone(q)'
        /\ Succeeded(q, "volume-delete") => Gone(q)'
    BY <2>1, <2>4 DEF Searched, Follows, Asked
  <2>6. /\ pc[q] = "volume-verify" /\ call[q].state = "sent" =>
             NotBefore(q, call[q].request.arg.page)'
        /\ PageSearched(q) /\ ~StillThere(q) =>
             NotBefore(q, NextNumber(q))' /\ (Gone(q)' \/ Value(q).total >= NextNumber(q))
    BY <1>1, <2>1, <2>2, <2>3 DEF Searched, Follows, Asked
  <2> QED BY <1>1, <2>5, <2>6 DEF Searched
<1> QED BY <1>1, <1>2 DEF SearchSound

\* Nothing that a search depends on changes.
LEMMA SearchSame ==
    ASSUME NEW q \in Proc, UNCHANGED volumes, cmd'[q] = cmd[q]
    PROVE  Spared(q)
<1>1. Gone(q) => Gone(q)'
  BY DEF Gone, Held
<1>2. ASSUME NEW n, NotBefore(q, n) PROVE NotBefore(q, n)'
  BY <1>2 DEF NotBefore
<1> QED BY <1>1, <1>2 DEF Spared, Follows

\* A request that is not for the volume is answered, or one is given up.
LEMMA SearchAnswered ==
    ASSUME StepInv, NEW p \in Proc, SearchSound(p), Spared(p),
           disturbed \subseteq disturbed', UNCHANGED progressVars,
           NEW status, NEW value, Finish(p, status, value),
           status = "ok" => pc[p] \notin {"volume-delete", "volume-verify"}
    PROVE  SearchSound(p)'
<1>1. /\ call'[p].state = "done" /\ call'[p].reply.status = status
      /\ UNCHANGED <<pc, cmd, outcome>>
  BY DEF Finish, Call, progressVars, StepInv, OnceInv, Domains
<1>2. ~PageSearched(p)' /\ ~(pc[p] = "volume-delete" /\ Has(p, "ok")')
  BY <1>1 DEF PageSearched, Has
<1>3. ASSUME cmd[p].op = "volume-delete", p \notin disturbed' PROVE Searched(p)'
  <2>1. Follows(p) /\ Searched(p)
    BY <1>3 DEF Spared, SearchSound
  <2>2. outcome[p] = "ok" => pc[p] \in Asked
    BY DEF StepInv, SteadyInv, Steady, Asked
  <2>3. Succeeded(p, "volume-delete")' => Gone(p)'
    BY <1>1, <2>1, <2>2 DEF Succeeded, Searched, Follows
  <2> QED BY <1>1, <1>2, <2>3 DEF Searched
<1> QED BY <1>1, <1>2, <1>3 DEF SearchSound

\* The API takes a change that is no deletion of a volume.
LEMMA SearchTaken ==
    ASSUME StepInv, DeletionInv, NEW p \in Proc, NEW m, NEW value, Take(p, m, value),
           ~(m.request.method = "DELETE" /\ m.request.path = "volumes"),
           UNCHANGED progressVars, disturbed \subseteq disturbed',
           \A q \in Proc : Spared(q)
    PROVE  DeletionInv'
<1>1. ASSUME NEW q \in Proc, call'[q] = call[q] PROVE SearchSound(q)'
  BY <1>1, SearchStays DEF DeletionInv, progressVars
<1>2. ASSUME NEW q \in Proc, call'[q] # call[q] PROVE SearchSound(q)'
  <2>1. q = p /\ Finish(p, "ok", value) /\ m = Message(call[p].request, call[p].attempt)
    BY <1>2 DEF Take, Finish, StepInv, OnceInv, Domains
  <2>2. m.request = call[p].request /\ m.request.method # "GET"
    BY <2>1 DEF Message, Take, StepInv, SteadyInv, Steady, Sound
  <2>3. pc[p] \in {"volume-delete", "volume-verify"} => Expected(cmd[p], pc[p], call[p].request)
    BY DEF StepInv, SteadyInv, Steady, Quiet
  <2>4. pc[p] \notin {"volume-delete", "volume-verify"}
    BY <2>2, <2>3 DEF Expected, Request
  <2> QED BY <2>1, <2>4, SearchAnswered DEF DeletionInv
<1> QED BY <1>1, <1>2 DEF DeletionInv

LEMMA SearchMade ==
    ASSUME StepInv, VolumesInv, DeletionInv, NEW p \in Proc, MakeVolume(p)
    PROVE  DeletionInv'
<1>1. PICK m \in wire[p], v \in NewVolumes \ Held :
        /\ m.request.path = "volumes" /\ m.request.method = "POST"
        /\ Take(p, m, v)
        /\ volumes' \in {<<v>> \o volumes, Append(volumes, v)}
        /\ disturbed' = disturbed \cup Deleting(v)
  BY DEF MakeVolume
<1>2. UNCHANGED progressVars
  BY DEF MakeVolume
<1>3. ASSUME NEW i \in DOMAIN volumes', volumes'[i] # v
      PROVE  \E k \in DOMAIN volumes : k <= i /\ volumes[k] = volumes'[i]
  <2>1. volumes \in Seq(VolumeIds) /\ v \in VolumeIds
    BY DEF VolumesInv, VolumeIds
  <2>2. CASE volumes' = <<v>> \o volumes
    <3>1. /\ i \in 1 .. Len(volumes) + 1 /\ volumes'[1] = v
          /\ i \in 2 .. Len(volumes) + 1 => volumes'[i] = volumes[i - 1]
      BY <2>1, <2>2
    <3>2. i - 1 \in DOMAIN volumes /\ i - 1 <= i /\ volumes[i - 1] = volumes'[i]
      BY <1>3, <2>1, <3>1
    <3> QED BY <3>2
  <2>3. CASE volumes' = Append(volumes, v)
    BY <1>3, <2>1, <2>3
  <2> QED BY <1>1, <2>2, <2>3
<1>4. ASSUME NEW q \in Proc, q \notin disturbed', cmd[q].op = "volume-delete", pc[q] \in Asked
      PROVE  Follows(q)
  <2>1. cmd[q].target # v /\ UNCHANGED <<cmd, pc>>
    BY <1>1, <1>2, <1>4 DEF Deleting, Asked, progressVars
  <2>2. Gone(q) => Gone(q)'
    BY <1>3, <2>1 DEF Gone, Held
  <2>3. ASSUME NEW n \in Nat, NotBefore(q, n), NEW i \in DOMAIN volumes',
               volumes'[i] = cmd[q].target
        PROVE  PageAt(i) >= n
    <3>1. PICK k \in DOMAIN volumes : k <= i /\ volumes[k] = cmd[q].target
      BY <1>3, <2>1, <2>3
    <3>2. PageAt(k) >= n
      BY <2>3, <3>1 DEF NotBefore
    <3>3. k \in Nat \ {0} /\ i \in Nat \ {0}
      BY VolumesMade DEF VolumesInv
    <3> QED BY <3>1, <3>2, <3>3, PagesGrow
  <2> QED BY <2>1, <2>2, <2>3 DEF Follows, NotBefore
<1>5. ASSUME NEW q \in Proc PROVE Spared(q)
  BY <1>4 DEF Spared, Follows, Asked
<1> QED BY <1>1, <1>2, <1>5, SearchTaken

LEMMA SearchDropped ==
    ASSUME StepInv, VolumesInv, DeletionInv, NEW p \in Proc, DropVolume(p)
    PROVE  DeletionInv'
<1>1. PICK m \in wire[p], i \in DOMAIN volumes :
        /\ m.request.arg = volumes[i] /\ m.request.path = "volumes"
        /\ Take(p, m, None) /\ volumes' = RemoveAt(volumes, i)
  BY DEF DropVolume
<1>2. /\ UNCHANGED <<pc, cmd, outcome>>
      /\ disturbed' = disturbed \cup Paging("volumes")
  BY DEF DropVolume, progressVars
<1>3. Held' \subseteq Held \ {volumes[i]}
  BY <1>1, VolumesDropped
<1>4. ASSUME NEW q \in Proc, pc[q] = "volume-verify" PROVE q \in disturbed'
  BY <1>2, <1>4, VerifiedPage DEF Paging
<1>5. ASSUME NEW q \in Proc, call'[q] = call[q] PROVE SearchSound(q)'
  <2>1. Spared(q)
    BY <1>2, <1>3, <1>4 DEF Spared, Follows, Gone
  <2> QED BY <1>2, <1>5, <2>1, SearchStays DEF DeletionInv
<1>6. ASSUME NEW q \in Proc, call'[q] # call[q] PROVE SearchSound(q)'
  <2>1. q = p /\ Finish(p, "ok", None) /\ m = Message(call[p].request, call[p].attempt)
    BY <1>1, <1>6 DEF Take, Finish, StepInv, OnceInv, Domains
  <2>2. m.request = call[p].request /\ m.request.method # "GET"
    BY <2>1 DEF Message, Take, StepInv, SteadyInv, Steady, Sound
  <2>3. pc[p] # "volume-verify"
    BY <2>2, VerifiedPage
  <2>4. pc[p] = "volume-delete" => Gone(p)'
    <3>1. pc[p] = "volume-delete" => Expected(cmd[p], pc[p], call[p].request)
      BY DEF StepInv, SteadyInv, Steady, Quiet
    <3> QED BY <1>1, <1>2, <1>3, <2>2, <3>1 DEF Expected, Request, Gone
  <2>5. ASSUME cmd[p].op = "volume-delete", p \notin disturbed' PROVE Searched(p)'
    <3>1. Searched(p)
      BY <1>2, <2>5 DEF DeletionInv, SearchSound
    <3>2. Succeeded(p, "volume-delete")' => Gone(p)'
      BY <1>2, <1>3, <3>1 DEF Succeeded, Searched, Gone
    <3> QED BY <1>2, <2>3, <2>4, <3>2 DEF Searched, PageSearched
  <2> QED BY <1>2, <2>1, <2>3, <2>5 DEF SearchSound, PageSearched
<1> QED BY <1>5, <1>6 DEF DeletionInv

\* A page is read: it has not the volume, or the search ends.
LEMMA SearchRead ==
    ASSUME StepInv, VolumesInv, DeletionInv, NEW p \in Proc, AnswerVolumes(p),
           UNCHANGED <<commandVars, volumes>>
    PROVE  DeletionInv'
<1> DEFINE n == call[p].request.arg.page
           v == [items |-> ItemsOn(volumes, n), total |-> PageCount(volumes)]
<1>1. Finish(p, "ok", v) /\ call[p].state = "sent" /\ call[p].request.method = "GET"
  BY DEF AnswerVolumes, AnswerWhole, AnswerPage, AnswerGet, Waits
<1>2. UNCHANGED <<pc, cmd, outcome, disturbed>>
  BY DEF commandVars, progressVars
<1>3. ASSUME NEW q \in Proc, q # p PROVE SearchSound(q)'
  <2>1. call'[q] = call[q]
    BY <1>1, <1>3 DEF Finish, StepInv, OnceInv, Domains
  <2> QED BY <1>2, <2>1, SearchSame, SearchStays DEF DeletionInv
<1>4. /\ call'[p].request = call[p].request /\ call'[p].state = "done"
      /\ Value(p)' = v
  BY <1>1 DEF Finish, Call, Value, StepInv, OnceInv, Domains
<1>5. v.total = PageCount(volumes) /\ v.items = ItemsOn(volumes, n)
  OBVIOUS
<1>6. /\ PageCount(volumes) \in Nat
      /\ \A i \in DOMAIN volumes : PageAt(i) <= PageCount(volumes) /\ PageAt(i) \in Nat
  BY PagesCounted, PagesGrow DEF VolumesInv
<1> HIDE DEF v
<1>7. ASSUME cmd[p].op = "volume-delete", p \notin disturbed PROVE Searched(p)'
  <2>1. Searched(p)
    BY <1>7 DEF DeletionInv, SearchSound
  <2>2. pc[p] # "volume-delete"
    <3>1. pc[p] = "volume-delete" => Expected(cmd[p], pc[p], call[p].request)
      BY DEF StepInv, SteadyInv, Steady, Quiet
    <3> QED BY <1>1, <3>1 DEF Expected, Request
  <2>3. Succeeded(p, "volume-delete")' => Gone(p)'
    BY <1>2, <2>1 DEF Succeeded, Searched, Gone, Held, commandVars
  <2>4. ASSUME pc[p] = "volume-verify", cmd[p].target \notin v.items
        PROVE  NotBefore(p, n + 1) /\ (Gone(p) \/ v.total >= n + 1)
    <3>1. n \in Nat \ {0} /\ NotBefore(p, n)
      BY <1>1, <2>1, <2>4, VerifiedPage DEF Searched
    <3>2. ASSUME NEW i \in DOMAIN volumes, volumes[i] = cmd[p].target
          PROVE  PageAt(i) >= n + 1
      <4>1. PageAt(i) >= n /\ PageAt(i) \in Nat
        BY <1>6, <3>1, <3>2 DEF NotBefore
      <4>2. PageAt(i) # n
        BY <1>5, <2>4, <3>2 DEF ItemsOn, PageAt
      <4> QED BY <3>1, <4>1, <4>2
    <3>3. Gone(p) \/ v.total >= n + 1
      BY <1>5, <1>6, <3>1, <3>2 DEF Gone, Held
    <3> QED BY <3>2, <3>3 DEF NotBefore
  <2>5. PageSearched(p)' /\ ~StillThere(p)' =>
          NotBefore(p, NextNumber(p))' /\ (Gone(p)' \/ (Value(p).total >= NextNumber(p))')
    <3>1. NextNumber(p)' = n + 1 /\ (PageSearched(p)' => pc[p] = "volume-verify")
      BY <1>2, <1>4 DEF NextNumber, PageSearched
    <3>2. StillThere(p)' <=> cmd[p].target \in v.items
      BY <1>2, <1>4 DEF StillThere
    <3> QED BY <1>2, <1>4, <2>4, <3>1, <3>2 DEF NotBefore, Gone, Held, commandVars
  <2> QED BY <1>2, <1>4, <2>2, <2>3, <2>5 DEF Searched
<1>8. SearchSound(p)'
  BY <1>2, <1>4, <1>5, <1>6, <1>7 DEF SearchSound
<1> QED BY <1>3, <1>8 DEF DeletionInv

LEMMA SearchApi ==
    ASSUME StepInv, VolumesInv, DeletionInv, NEW p \in Proc, ApiKinds(p)
    PROVE  DeletionInv'
<1>1. ASSUME NEW m, NEW value, Take(p, m, value), m.request.path # "volumes",
             UNCHANGED <<progressVars, volumes>>, disturbed \subseteq disturbed'
      PROVE  DeletionInv'
  BY <1>1, SearchSame, SearchTaken DEF progressVars
<1>2. ASSUME NEW path, NEW value, AnswerGet(p, path, value), path # "volumes",
             UNCHANGED <<commandVars, volumes>>
      PROVE  DeletionInv'
  <2>1. /\ Finish(p, "ok", value) /\ call[p].request.path # "volumes"
        /\ UNCHANGED progressVars /\ disturbed' = disturbed
    BY <1>2 DEF AnswerGet, Waits, commandVars
  <2>2. pc[p] \notin {"volume-delete", "volume-verify"}
    <3>1. pc[p] \in {"volume-delete", "volume-verify"} =>
            Expected(cmd[p], pc[p], call[p].request)
      BY DEF StepInv, SteadyInv, Steady, Quiet
    <3> QED BY <2>1, <3>1 DEF Expected, Request
  <2>3. ASSUME NEW q \in Proc PROVE Spared(q)
    BY <1>2, <2>1, SearchSame DEF progressVars
  <2>4. SearchSound(p)'
    BY <2>1, <2>2, <2>3, SearchAnswered DEF DeletionInv
  <2>5. ASSUME NEW q \in Proc, q # p PROVE SearchSound(q)'
    <3>1. call'[q] = call[q]
      BY <2>1, <2>5 DEF Finish, StepInv, OnceInv, Domains
    <3> QED BY <2>1, <2>3, <3>1, SearchStays DEF DeletionInv, progressVars
  <2> QED BY <2>4, <2>5 DEF DeletionInv
<1>3. CASE AnswerVolumes(p) /\ UNCHANGED <<commandVars, volumes, groups>>
  BY <1>3, SearchRead
<1>4. CASE MakeVolume(p) \/ DropVolume(p)
  BY <1>4, SearchMade, SearchDropped
<1>5. CASE (MakeGroup(p) \/ ChangeGroup(p) \/ DropGroup(p)) /\ UNCHANGED volumes
  BY <1>1, <1>5 DEF MakeGroup, ChangeGroup, DropGroup, commandVars
<1>6. CASE TakesOther(p)
  BY <1>1, <1>6 DEF TakesOther
<1>7. CASE AnswerGroups(p) /\ UNCHANGED volumes
  BY <1>2, <1>7 DEF AnswerGroups
<1>8. CASE AnswersOther(p)
  BY <1>2, <1>8 DEF AnswersOther
<1> QED BY <1>3, <1>4, <1>5, <1>6, <1>7, <1>8 DEF ApiKinds

LEMMA SearchTransport ==
    ASSUME StepInv, DeletionInv, NEW p \in Proc, TransportStep(p),
           UNCHANGED <<commandVars, heldVars>>
    PROVE  DeletionInv'
<1>1. UNCHANGED <<pc, cmd, outcome, disturbed, volumes>>
  BY DEF commandVars, progressVars, heldVars
<1>2. ASSUME NEW q \in Proc PROVE Spared(q)
  BY <1>1, SearchSame
<1>3. ASSUME NEW q \in Proc, q # p PROVE SearchSound(q)'
  <2>1. call'[q] = call[q]
    BY <1>3 DEF TransportStep, AttemptFails, Refused, Finish, StepInv, OnceInv, Domains
  <2> QED BY <1>1, <1>2, <2>1, SearchStays DEF DeletionInv
<1>4. ASSUME NEW status \in {"timeout", "failed"}, Finish(p, status, None)
      PROVE  SearchSound(p)'
  <2>1. UNCHANGED progressVars
    BY DEF commandVars
  <2> QED BY <1>1, <1>2, <1>4, <2>1, SearchAnswered DEF DeletionInv
<1>5. ASSUME call' = [call EXCEPT ![p] = Call("sent", @.request, @.attempt + 1, None)],
             call[p].state = "sent"
      PROVE  SearchSound(p)'
  <2>1. call'[p].state = "sent" /\ call'[p].request = call[p].request
    BY <1>5 DEF Call, StepInv, OnceInv, Domains
  <2>2. ~Has(p, "ok")' /\ ~PageSearched(p)'
    BY <2>1 DEF Has, PageSearched
  <2> QED BY <1>1, <1>5, <2>1, <2>2 DEF DeletionInv, SearchSound, Searched, Succeeded,
          Gone, Held, NotBefore
<1>6. SearchSound(p)'
  BY <1>4, <1>5 DEF TransportStep, AttemptFails, Refused
<1> QED BY <1>3, <1>6 DEF DeletionInv

LEMMA SearchActs ==
    ASSUME StepInv, VolumesInv, DeletionInv, NEW p \in Proc, Acts(p), pc[p] # "end",
           UNCHANGED heldVars
    PROVE  DeletionInv'
<1>1. /\ \A q \in Proc \ {p} : call'[q] = call[q] /\ pc'[q] = pc[q] /\ outcome'[q] = outcome[q]
      /\ UNCHANGED <<cmd, disturbed, volumes>>
  BY DEF Acts, Sends, Ends, Succeeds, Turns, AskWith, Send, Goto, Exit, Succeed,
     transportVars, heldVars, StepInv, OnceInv, Domains, SteadyInv
<1>2. ASSUME NEW q \in Proc \ {p} PROVE SearchSound(q)'
  BY <1>1, SearchSame, SearchStays DEF DeletionInv
<1>3. outcome[p] = "none"
  BY DEF StepInv, SteadyInv, Steady
<1>4. ASSUME NEW label, NEW r, NEW found, Sends(p, label, r, found) PROVE SearchSound(p)'
  <2>1. /\ call'[p] = Call("sent", r, 1, None) /\ pc'[p] = label /\ outcome'[p] = "none"
    BY <1>3, <1>4 DEF Sends, AskWith, Send, Goto, StepInv, OnceInv, Domains
  <2>2. ~Has(p, "ok")' /\ ~PageSearched(p)' /\ ~Succeeded(p, "volume-delete")'
    BY <2>1 DEF Has, PageSearched, Call, Succeeded
  <2>3. ASSUME label = "volume-verify", cmd[p].op = "volume-delete", p \notin disturbed
        PROVE  NotBefore(p, r.arg.page)
    <3>1. CASE r.arg.page = 1
      <4>1. \A i \in DOMAIN volumes : PageAt(i) \in Nat \ {0}
        BY PagesGrow DEF VolumesInv
      <4> QED BY <3>1, <4>1 DEF NotBefore
    <3>2. CASE PageSearched(p) /\ ~StillThere(p) /\ r.arg.page = NextNumber(p)
      BY <2>3, <3>2 DEF DeletionInv, SearchSound, Searched
    <3> QED BY <1>4, <2>3, <3>1, <3>2 DEF Sends
  <2> QED BY <1>1, <2>1, <2>2, <2>3 DEF SearchSound, Searched, NotBefore, Call
<1>5. ASSUME Ends(p) PROVE SearchSound(p)'
  <2>1. PICK result \in {"cancelled", "error", "killed"} : Exit(p, result)
    BY <1>5 DEF Ends
  <2>2. pc'[p] = "end" /\ outcome'[p] = result
    BY <2>1 DEF Exit, Goto, StepInv, OnceInv, Domains, SteadyInv
  <2>3. ~PageSearched(p)' /\ ~Succeeded(p, "volume-delete")'
    BY <2>1, <2>2 DEF PageSearched, Succeeded
  <2> QED BY <2>2, <2>3 DEF SearchSound, Searched
<1>6. ASSUME NEW value, Succeeds(p, value) PROVE SearchSound(p)'
  <2>1. pc'[p] = "end"
    BY <1>6 DEF Succeeds, Succeed, Exit, Goto, StepInv, OnceInv, Domains
  <2>2. ASSUME cmd[p].op = "volume-delete", p \notin disturbed PROVE Gone(p)
    <3>1. Searched(p) /\ (PageSearched(p) => Value(p).total \in Nat)
      BY <2>2 DEF DeletionInv, SearchSound
    <3>2. CASE pc[p] = "volume-delete" /\ Has(p, "ok")
      BY <3>1, <3>2 DEF Searched
    <3>3. CASE PageSearched(p) /\ ~StillThere(p) /\ IsLastPage(p)
      <4>1. Value(p).total \in Nat /\ NextNumber(p) \in Nat /\ Value(p).total # None
        BY <3>1, <3>3, VerifiedPage, NoneAssumption DEF PageSearched
      <4>2. NextNumber(p) > Value(p).total
        BY <3>3, <4>1 DEF IsLastPage
      <4> QED BY <3>1, <3>3, <4>1, <4>2 DEF Searched
    <3> QED BY <1>6, <2>2, <3>2, <3>3 DEF Succeeds
  <2> QED BY <1>1, <2>1, <2>2 DEF SearchSound, Searched, PageSearched, Gone, Held
<1>7. ASSUME NEW label, Turns(p, label) PROVE SearchSound(p)'
  <2>1. pc'[p] = label /\ outcome'[p] = "none" /\ label \notin {"volume-delete", "volume-verify"}
    BY <1>3, <1>7 DEF Turns, Goto, StepInv, OnceInv, Domains
  <2> QED BY <2>1 DEF SearchSound, Searched, PageSearched, Succeeded
<1> QED BY <1>2, <1>4, <1>5, <1>6, <1>7 DEF Acts, DeletionInv

LEMMA DeletionInit == Init => DeletionInv
BY DEF Init, TransportInit, CommandInit, DeletionInv, SearchSound, Searched,
   PageSearched,
       Succeeded

LEMMA DeletionNext == StepInv /\ VolumesInv /\ DeletionInv /\ [Next]_vars => DeletionInv'
<1> SUFFICES ASSUME StepInv, VolumesInv, DeletionInv, [Next]_vars PROVE DeletionInv'
  OBVIOUS
<1>1. ASSUME UNCHANGED <<call, commandVars, volumes>> PROVE DeletionInv'
  <2>1. UNCHANGED <<call, pc, cmd, outcome, disturbed, volumes>>
    BY <1>1 DEF commandVars, progressVars
  <2> QED BY <2>1, SearchSame, SearchStays DEF DeletionInv
<1>2. ASSUME NEW p \in Proc, Lose(p), UNCHANGED <<commandVars, heldVars>> PROVE DeletionInv'
  BY <1>1, <1>2 DEF Lose, heldVars
<1>3. ASSUME UNCHANGED <<transportVars, commandVars, volumes, groups>> PROVE DeletionInv'
  BY <1>1, <1>3 DEF transportVars
<1> QED BY <1>2, <1>3, StepKinds, SearchActs, SearchTransport, SearchApi

\* A volume that a command reports as deleted is gone: whatever is lost or
\* late, on however many pages it is looked for after a timeout.
THEOREM DeletionsAreTrue == Spec => []DeletionReportIsTrue
<1>1. Init => StepInv /\ VolumesInv /\ DeletionInv
  BY StepInit, VolumesAtFirst, DeletionInit
<1>2. StepInv /\ VolumesInv /\ DeletionInv /\ [Next]_vars
        => (StepInv /\ VolumesInv /\ DeletionInv)'
  BY StepNext, VolumesNext, DeletionNext
<1>3. DeletionInv => DeletionReportIsTrue
  BY DEF DeletionInv, SearchSound, Searched, DeletionReportIsTrue, Succeeded, Gone
<1> QED BY <1>1, <1>2, <1>3, PTL DEF Spec

-----------------------------------------------------------------------------
(* The groups.                                                             *)

\* What was made stays made.
LEMMA CreatedGrows ==
    ASSUME StepInv, [Next]_vars, NEW q \in Proc
    PROVE  created[q] \subseteq created'[q]
<1>1. CASE UNCHANGED created
  BY <1>1
<1>2. ASSUME NEW p \in Proc, NEW id, created' = [created EXCEPT ![p] = @ \cup {id}]
      PROVE  created[q] \subseteq created'[q]
  BY <1>2 DEF StepInv, OnceInv, Domains
<1>3. ASSUME NEW p \in Proc, ApiKinds(p) PROVE created[q] \subseteq created'[q]
  BY <1>1, <1>2, <1>3 DEF ApiKinds, AnswerGroups, MakeVolume, DropVolume, MakeGroup,
     ChangeGroup, DropGroup, AnswersOther, TakesOther, MadeFor, commandVars
<1>4. ASSUME NEW p \in Proc, Acts(p) PROVE UNCHANGED created
  BY <1>4 DEF Acts, Sends, Ends, Succeeds, Turns, AskWith, Exit, Succeed
<1> QED BY <1>1, <1>3, <1>4, StepKinds DEF commandVars

\* A group is made with an id that no group has.
LEMMA GroupMade ==
    ASSUME StepInv, GroupsInv, NEW p \in Proc, MakeGroup(p)
    PROVE  \E m \in wire[p] : \E id :
             /\ m.request.path = "groups" /\ m.request.method = "POST"
             /\ Take(p, m, id) \/ Take(p, m, None)
             /\ groups' = groups \cup {Group(id, m.request.arg)}
             /\ id \notin GroupIds /\ \A q \in Proc : id \notin created[q]
             /\ created' = [created EXCEPT ![p] = @ \cup {id}]
<1>1. PICK m \in wire[p], id \in NewGroupIds :
        /\ m.request.path = "groups" /\ m.request.method = "POST"
        /\ \A q \in Proc : id \notin created[q]
        /\ Take(p, m, id) \/ Take(p, m, None)
        /\ groups' = groups \cup {Group(id, m.request.arg)}
        /\ created' = [created EXCEPT ![p] = @ \cup {id}]
  BY DEF MakeGroup
<1>2. id \notin GroupIds
  BY <1>1, GroupsAssumption DEF GroupIds, GroupsInv
<1> QED BY <1>1, <1>2

LEMMA GroupsAtFirst == Init => GroupsInv
BY GroupsAssumption DEF Init, GroupsInit, GroupsInv

LEMMA GroupsNext == StepInv /\ GroupsInv /\ [Next]_vars => GroupsInv'
<1> SUFFICES ASSUME StepInv, GroupsInv, [Next]_vars PROVE GroupsInv'
  OBVIOUS
<1>1. \A q \in Proc : created[q] \subseteq created'[q]
  BY CreatedGrows
<1>2. ASSUME groups' \subseteq groups PROVE GroupsInv'
  <2>1. IsFiniteSet(groups')
    BY <1>2, FS_Subset DEF GroupsInv
  <2> QED BY <1>1, <1>2, <2>1 DEF GroupsInv
<1>3. ASSUME NEW p \in Proc, MakeGroup(p) PROVE GroupsInv'
  <2> PICK m \in wire[p] : \E id :
          /\ groups' = groups \cup {Group(id, m.request.arg)}
          /\ id \notin GroupIds /\ created' = [created EXCEPT ![p] = @ \cup {id}]
    BY <1>3, GroupMade
  <2>1. PICK id :
          /\ groups' = groups \cup {Group(id, m.request.arg)}
          /\ id \notin GroupIds /\ created' = [created EXCEPT ![p] = @ \cup {id}]
    OBVIOUS
  <2>2. IsFiniteSet(groups')
    BY <2>1, FS_AddElement DEF GroupsInv
  <2>3. id \in created'[p] /\ Group(id, m.request.arg).id = id
    BY <2>1 DEF StepInv, OnceInv, Domains, Group
  <2>4. ASSUME NEW g \in groups', NEW h \in groups', g.id = h.id PROVE g = h
    BY <2>1, <2>3, <2>4 DEF GroupsInv, GroupIds
  <2>5. ASSUME NEW g \in groups'
        PROVE  \/ \E h \in OldGroups : h.id = g.id
               \/ \E q \in Proc : g.id \in created'[q]
    BY <1>1, <2>1, <2>3 DEF GroupsInv
  <2> QED BY <2>2, <2>4, <2>5 DEF GroupsInv
<1>4. ASSUME NEW p \in Proc, ChangeGroup(p) PROVE GroupsInv'
  <2>1. PICK m \in wire[p], g \in groups :
          groups' = OtherGroups(g.id) \cup {Group(g.id, m.request.arg)}
    BY <1>4 DEF ChangeGroup
  <2>2. Group(g.id, m.request.arg).id = g.id
    BY DEF Group
  <2>3. IsFiniteSet(groups')
    <3>1. IsFiniteSet(OtherGroups(g.id))
      BY FS_Subset DEF GroupsInv, OtherGroups
    <3> QED BY <2>1, <3>1, FS_AddElement
  <2> QED BY <1>1, <2>1, <2>2, <2>3 DEF GroupsInv, OtherGroups
<1>5. ASSUME NEW p \in Proc, DropGroup(p) PROVE groups' \subseteq groups
  BY <1>5 DEF DropGroup, OtherGroups
<1>6. ASSUME NEW p \in Proc, ApiKinds(p) PROVE GroupsInv'
  BY <1>2, <1>3, <1>4, <1>5, <1>6 DEF ApiKinds, AnswerGroups, AnswersOther, TakesOther
<1> QED BY <1>2, <1>6, StepKinds DEF heldVars

-----------------------------------------------------------------------------
(* A command learns of what was made for it, and of nothing else.          *)

\* No group comes to p by what the others do.
Apart(p) == created[p] \cap GroupIds' \subseteq GroupIds

LEMMA OwnedStays ==
    ASSUME NEW q \in Proc, Owned(q), Apart(q), disturbed \subseteq disturbed',
           pc'[q] = pc[q], cmd'[q] = cmd[q], outcome'[q] = outcome[q],
           report'[q] = report[q], created'[q] = created[q],
           call'[q] = call[q] \/ ~Has(q, "ok")'
    PROVE  Owned(q)'
<1>1. created[q] \cap GroupIds = {} => (created[q] \cap GroupIds = {})'
  BY DEF Apart
<1>2. Has(q, "ok")' => Has(q, "ok") /\ Value(q)' = Value(q)
  BY DEF Has, Value
<1>3. /\ (pc[q] \in MadeAt /\ Has(q, "ok"))' =>
           /\ created'[q] # {}
           /\ \/ (Value(q) \in created[q])'
              \/ (Value(q) = None)' /\ pc'[q] \in {"group-create", "db-made"}
      /\ pc'[q] = "ip-poll" => report'[q] \in created'[q]
  BY <1>2 DEF Owned
<1>4. ASSUME NEW known, FindsOwn(q, known) PROVE FindsOwn(q, known)'
  BY <1>1, <1>4 DEF FindsOwn
<1>5. cmd'[q].op = "group-create" /\ pc'[q] = "group-lookup" =>
        /\ created'[q] # {}
        /\ Has(q, "ok")' => IsFiniteSet(Value(q)') /\ FindsOwn(q, Value(q))'
  BY <1>2, <1>4 DEF Owned
<1>6. ASSUME NEW op \in Creations, Succeeded(q, op)'
      PROVE  /\ created'[q] # {}
             /\ \/ report'[q] \in created'[q]
                \/ /\ op = "group-create"
                   /\ q \in disturbed' \/ (created[q] \cap GroupIds = {})'
  <2>1. Succeeded(q, op)
    BY <1>6 DEF Succeeded
  <2> QED BY <1>1, <2>1 DEF Owned
<1> QED BY <1>3, <1>5, <1>6 DEF Owned

\* The API takes a change: if it makes something, then for the one who asked.
LEMMA OwnedTaken ==
    ASSUME StepInv, OwnershipInv, NEW p \in Proc, NEW m, NEW value,
           Take(p, m, value), MadeFor(p, m, value), UNCHANGED progressVars,
           disturbed \subseteq disturbed', NEW q \in Proc, Apart(q)
    PROVE  Owned(q)'
<1>1. UNCHANGED <<pc, cmd, outcome, report>>
  BY DEF progressVars
<1>2. CASE q # p
  <2>1. call'[q] = call[q] /\ created'[q] = created[q]
    BY <1>2 DEF Take, Finish, MadeFor, StepInv, OnceInv, Domains
  <2> QED BY <1>1, <2>1, OwnedStays DEF OwnershipInv
<1>3. m \in wire[p] /\ created[p] = {} /\ Sound(cmd[p], m.request)
  BY DEF Take, StepInv, OnceInv, ChangeSentOnce, SteadyInv, Steady
<1>4. ASSUME call'[p] # call[p]
      PROVE  /\ call'[p].state = "done" /\ Value(p)' = value /\ m.request = call[p].request
             /\ pc[p] # "group-lookup"
             /\ pc[p] \in MadeAt =>
                  /\ Makes(m.request)
                  /\ pc[p] \in {"group-create", "db-made"} \/ ~MayLackId(m.request)
  <2>1. /\ call' = [call EXCEPT ![p] = Call("done", @.request, @.attempt,
                                            [status |-> "ok", value |-> value])]
        /\ m.request = call[p].request
    BY <1>4 DEF Take, Finish, Message
  <2>2. pc[p] \in MadeAt \cup {"group-lookup"} => Expected(cmd[p], pc[p], call[p].request)
    BY DEF StepInv, SteadyInv, Steady, Quiet, MadeAt
  <2>3. call'[p].state = "done" /\ Value(p)' = value
    BY <2>1 DEF Call, Value, StepInv, OnceInv, Domains
  <2> QED BY <1>3, <2>1, <2>2, <2>3 DEF Expected, Sound
<1>5. /\ ~(pc[p] \in MadeAt /\ Has(p, "ok")) /\ pc[p] # "ip-poll"
      /\ ~(cmd[p].op = "group-create" /\ pc[p] = "group-lookup")
      /\ \A op \in Creations : ~Succeeded(p, op)
  BY <1>3 DEF OwnershipInv, Owned
<1>6. \A op \in Creations : ~Succeeded(p, op)'
  BY <1>1, <1>5 DEF Succeeded
<1>7. ASSUME pc[p] \in MadeAt, Has(p, "ok")'
      PROVE  /\ created'[p] # {}
             /\ \/ Value(p)' \in created'[p]
                \/ Value(p)' = None /\ pc[p] \in {"group-create", "db-made"}
  <2>1. call'[p] # call[p]
    BY <1>5, <1>7 DEF Has
  <2>2. PICK id : /\ created' = [created EXCEPT ![p] = @ \cup {id}]
                  /\ value = id \/ (value = None /\ MayLackId(m.request))
    BY <1>4, <1>7, <2>1 DEF MadeFor
  <2>3. id \in created'[p]
    BY <2>2 DEF StepInv, OnceInv, Domains
  <2> QED BY <1>4, <1>7, <2>1, <2>2, <2>3
<1>8. CASE q = p
  BY <1>1, <1>5, <1>6, <1>7, <1>8 DEF Owned
<1> QED BY <1>2, <1>8

\* A GET is answered that is not for groups.
LEMMA OwnedAnswered ==
    ASSUME StepInv, OwnershipInv, NEW p \in Proc, NEW path, NEW value,
           AnswerGet(p, path, value), path # "groups", UNCHANGED <<commandVars, groups>>
    PROVE  OwnershipInv'
<1>1. UNCHANGED <<pc, cmd, outcome, report, created, disturbed, groups>>
  BY DEF commandVars, progressVars
<1>2. ASSUME NEW q \in Proc PROVE Owned(q)'
  <2>1. Apart(q)
    BY <1>1 DEF Apart, GroupIds
  <2>2. CASE q # p
    <3>1. call'[q] = call[q]
      BY <2>2 DEF AnswerGet, Finish, StepInv, OnceInv, Domains
    <3> QED BY <1>1, <2>1, <3>1, OwnedStays DEF OwnershipInv
  <2>3. pc[p] \notin MadeAt /\ pc[p] # "group-lookup"
    <3>1. pc[p] \in MadeAt \cup {"group-lookup"} => Expected(cmd[p], pc[p], call[p].request)
      BY DEF StepInv, SteadyInv, Steady, Quiet, MadeAt
    <3>2. call[p].request.method = "GET" /\ call[p].request.path # "groups"
      BY DEF AnswerGet, Waits
    <3> QED BY <3>1, <3>2 DEF Expected
  <2>4. \A op \in Creations : Succeeded(p, op)' <=> Succeeded(p, op)
    BY <1>1 DEF Succeeded
  <2>5. GroupIds' = GroupIds
    BY <1>1 DEF GroupIds
  <2>6. CASE q = p
    BY <1>1, <2>3, <2>4, <2>5, <2>6 DEF OwnershipInv, Owned
  <2> QED BY <2>2, <2>6
<1> QED BY <1>1, <1>2 DEF OwnershipInv, NamedAsMade

\* The groups are read: the one that was made is among them by its name.
LEMMA OwnedLookedUp ==
    ASSUME StepInv, GroupsInv, OwnershipInv, NEW p \in Proc, AnswerGroups(p)
    PROVE  OwnershipInv'
<1>1. UNCHANGED <<pc, cmd, outcome, report, created, disturbed, groups>>
  BY DEF AnswerGroups, commandVars, progressVars
<1>2. GroupIds' = GroupIds /\ \A q \in Proc : Apart(q)
  BY <1>1 DEF GroupIds, Apart
<1>3. ASSUME NEW q \in Proc, q # p PROVE Owned(q)'
  <2>1. call'[q] = call[q]
    BY <1>3 DEF AnswerGroups, AnswerGet, Finish, StepInv, OnceInv, Domains
  <2> QED BY <1>1, <1>2, <2>1, OwnedStays DEF OwnershipInv
<1>4. Value(p)' = groups
  BY DEF AnswerGroups, AnswerGet, Finish, Call, Value, StepInv, OnceInv, Domains
<1>5. pc[p] \notin MadeAt
  <2>1. pc[p] \in MadeAt => Expected(cmd[p], pc[p], call[p].request)
    BY DEF StepInv, SteadyInv, Steady, Quiet, MadeAt
  <2> QED BY <2>1 DEF Expected, AnswerGroups, AnswerGet
<1>6. cmd[p].op = "group-create" => FindsOwn(p, groups)
  BY DEF OwnershipInv, NamedAsMade, FindsOwn, GroupIds
<1>7. \A op \in Creations : Succeeded(p, op)' <=> Succeeded(p, op)
  BY <1>1 DEF Succeeded
<1>8. Owned(p)'
  BY <1>1, <1>2, <1>4, <1>5, <1>6, <1>7 DEF OwnershipInv, Owned, FindsOwn, GroupsInv
<1> QED BY <1>1, <1>3, <1>8 DEF OwnershipInv, NamedAsMade

LEMMA OwnedGroupMade ==
    ASSUME StepInv, GroupsInv, OwnershipInv, NEW p \in Proc, MakeGroup(p)
    PROVE  OwnershipInv'
<1> PICK m \in wire[p] : \E id :
        /\ m.request.path = "groups" /\ m.request.method = "POST"
        /\ Take(p, m, id) \/ Take(p, m, None)
        /\ groups' = groups \cup {Group(id, m.request.arg)}
        /\ id \notin GroupIds /\ \A q \in Proc : id \notin created[q]
        /\ created' = [created EXCEPT ![p] = @ \cup {id}]
  BY GroupMade
<1>1. PICK id :
        /\ m.request.path = "groups" /\ m.request.method = "POST"
        /\ Take(p, m, id) \/ Take(p, m, None)
        /\ groups' = groups \cup {Group(id, m.request.arg)}
        /\ id \notin GroupIds /\ \A q \in Proc : id \notin created[q]
        /\ created' = [created EXCEPT ![p] = @ \cup {id}]
  OBVIOUS
<1>2. UNCHANGED <<pc, cmd, outcome, report, disturbed>> /\ UNCHANGED progressVars
  BY DEF MakeGroup, progressVars
<1>3. /\ Group(id, m.request.arg).id = id
      /\ Group(id, m.request.arg).name = m.request.arg.name
  BY DEF Group
<1>4. ASSUME NEW q \in Proc PROVE Owned(q)'
  <2>1. Apart(q)
    BY <1>1, <1>3 DEF Apart, GroupIds
  <2>2. PICK value \in {id, None} : Take(p, m, value)
    BY <1>1
  <2>3. MadeFor(p, m, value)
    BY <1>1, <2>2 DEF MadeFor, Makes, MayLackId
  <2> QED BY <1>2, <2>1, <2>2, <2>3, OwnedTaken
<1>5. ASSUME NEW q \in Proc PROVE NamedAsMade(q)'
  <2>1. CASE q = p
    <3>1. created'[p] = {id} /\ Sound(cmd[p], m.request)
      BY <1>1 DEF StepInv, OnceInv, Domains, ChangeSentOnce, SteadyInv, Steady
    <3> QED BY <1>1, <1>2, <1>3, <2>1, <3>1 DEF NamedAsMade, Sound, GroupIds
  <2>2. CASE q # p
    <3>1. created'[q] = created[q]
      BY <1>1, <2>2 DEF StepInv, OnceInv, Domains
    <3> QED BY <1>1, <1>2, <1>3, <3>1 DEF OwnershipInv, NamedAsMade
  <2> QED BY <2>1, <2>2
<1> QED BY <1>4, <1>5 DEF OwnershipInv

LEMMA OwnedGroupChanged ==
    ASSUME StepInv, OwnershipInv, NEW p \in Proc, ChangeGroup(p) \/ DropGroup(p)
    PROVE  OwnershipInv'
<1>1. PICK m \in wire[p] :
        /\ m.request.path = "group" /\ m.request.method \in {"PUT", "DELETE"}
        /\ Take(p, m, None)
        /\ \A g \in groups' : g \in groups \/ (g.id = cmd[p].target /\ g.id \in GroupIds)
        /\ \A q \in Proc : \/ cmd[p].target \in created[q] => q \in disturbed'
                           \/ groups' \subseteq groups
  BY DEF ChangeGroup, DropGroup, OtherGroups, Group, GroupIds
<1>2. /\ UNCHANGED <<pc, cmd, outcome, report, created>> /\ UNCHANGED progressVars
      /\ disturbed \subseteq disturbed'
  BY DEF ChangeGroup, DropGroup, commandVars, progressVars
<1>3. ASSUME NEW q \in Proc PROVE Owned(q)'
  <2>1. Apart(q)
    BY <1>1 DEF Apart, GroupIds
  <2>2. MadeFor(p, m, None)
    BY <1>1, <1>2 DEF MadeFor, Makes
  <2> QED BY <1>1, <1>2, <2>1, <2>2, OwnedTaken
<1>4. ASSUME NEW q \in Proc PROVE NamedAsMade(q)'
  BY <1>1, <1>2 DEF OwnershipInv, NamedAsMade
<1> QED BY <1>3, <1>4 DEF OwnershipInv

\* A change that is not of groups.
LEMMA OwnedOtherTaken ==
    ASSUME StepInv, OwnershipInv, NEW p \in Proc, NEW m, NEW value,
           Take(p, m, value), MadeFor(p, m, value), m.request.path # "groups",
           UNCHANGED <<progressVars, groups>>, disturbed \subseteq disturbed'
    PROVE  OwnershipInv'
<1>1. UNCHANGED <<pc, cmd, outcome, report, groups>> /\ UNCHANGED progressVars
  BY DEF progressVars
<1>2. ASSUME NEW q \in Proc PROVE Owned(q)'
  <2>1. Apart(q)
    BY <1>1 DEF Apart, GroupIds
  <2> QED BY <1>1, <2>1, OwnedTaken
<1>3. ASSUME NEW q \in Proc, cmd[q].op = "group-create" PROVE created'[q] = created[q]
  <2>1. Sound(cmd[p], m.request)
    BY DEF Take, StepInv, SteadyInv, Steady
  <2>2. q # p
    BY <1>3, <2>1 DEF Sound
  <2> QED BY <2>2 DEF MadeFor, StepInv, OnceInv, Domains
<1>4. ASSUME NEW q \in Proc PROVE NamedAsMade(q)'
  BY <1>1, <1>3 DEF OwnershipInv, NamedAsMade
<1> QED BY <1>2, <1>4 DEF OwnershipInv

LEMMA OwnedApi ==
    ASSUME StepInv, GroupsInv, OwnershipInv, NEW p \in Proc, ApiKinds(p)
    PROVE  OwnershipInv'
<1>1. CASE AnswerVolumes(p) /\ UNCHANGED <<commandVars, volumes, groups>>
  BY <1>1, OwnedAnswered DEF AnswerVolumes, AnswerWhole, AnswerPage
<1>2. CASE AnswerGroups(p)
  BY <1>2, OwnedLookedUp
<1>3. CASE MakeVolume(p) /\ UNCHANGED groups
  <2>1. PICK m \in wire[p], v \in NewVolumes :
          /\ m.request.path = "volumes" /\ m.request.method = "POST"
          /\ \A q \in Proc : v \notin created[q]
          /\ Take(p, m, v) /\ created' = [created EXCEPT ![p] = @ \cup {v}]
    BY <1>3 DEF MakeVolume
  <2>2. MadeFor(p, m, v) /\ UNCHANGED progressVars /\ disturbed \subseteq disturbed'
    BY <1>3, <2>1 DEF MadeFor, Makes, MakeVolume
  <2> QED BY <1>3, <2>1, <2>2, OwnedOtherTaken
<1>4. CASE DropVolume(p) /\ UNCHANGED groups
  <2>1. PICK m \in wire[p] :
          m.request.path = "volumes" /\ m.request.method = "DELETE" /\ Take(p, m, None)
    BY <1>4 DEF DropVolume
  <2>2. MadeFor(p, m, None) /\ UNCHANGED progressVars /\ disturbed \subseteq disturbed'
    BY <1>4, <2>1 DEF MadeFor, Makes, DropVolume
  <2> QED BY <1>4, <2>1, <2>2, OwnedOtherTaken
<1>5. CASE MakeGroup(p) \/ ChangeGroup(p) \/ DropGroup(p)
  BY <1>5, OwnedGroupMade, OwnedGroupChanged
<1>6. CASE AnswersOther(p)
  BY <1>6, OwnedAnswered DEF AnswersOther
<1>7. CASE TakesOther(p)
  BY <1>7, OwnedOtherTaken DEF TakesOther
<1> QED BY <1>1, <1>2, <1>3, <1>4, <1>5, <1>6, <1>7 DEF ApiKinds

LEMMA OwnedTransport ==
    ASSUME StepInv, OwnershipInv, NEW p \in Proc, TransportStep(p),
           UNCHANGED <<commandVars, heldVars>>
    PROVE  OwnershipInv'
<1>1. UNCHANGED <<pc, cmd, outcome, report, created, disturbed, groups>>
  BY DEF commandVars, progressVars, heldVars
<1>2. ASSUME NEW q \in Proc PROVE Owned(q)'
  <2>1. Apart(q)
    BY <1>1 DEF Apart, GroupIds
  <2>2. call'[q] = call[q] \/ ~Has(q, "ok")'
    BY DEF TransportStep, AttemptFails, Refused, Finish, Call, Has, StepInv, OnceInv,
       Domains
  <2> QED BY <1>1, <2>1, <2>2, OwnedStays DEF OwnershipInv
<1> QED BY <1>1, <1>2 DEF OwnershipInv, NamedAsMade

LEMMA OwnedActs ==
    ASSUME StepInv, OwnershipInv, NEW p \in Proc, Acts(p), pc[p] # "end",
           UNCHANGED heldVars
    PROVE  OwnershipInv'
<1>1. /\ \A q \in Proc \ {p} : /\ call'[q] = call[q] /\ pc'[q] = pc[q]
                               /\ outcome'[q] = outcome[q] /\ report'[q] = report[q]
      /\ UNCHANGED <<cmd, created, disturbed, groups>>
  BY DEF Acts, Sends, Ends, Succeeds, Turns, AskWith, Send, Goto, Exit, Succeed,
     transportVars, heldVars, StepInv, OnceInv, Domains, SteadyInv
<1>2. GroupIds' = GroupIds /\ \A q \in Proc : Apart(q)
  BY <1>1 DEF GroupIds, Apart
<1>3. ASSUME NEW q \in Proc \ {p} PROVE Owned(q)'
  BY <1>1, <1>2, OwnedStays DEF OwnershipInv
<1>4. outcome[p] = "none" /\ Owned(p)
  BY DEF StepInv, SteadyInv, Steady, OwnershipInv
<1>5. ASSUME NEW label, NEW r, NEW found, Sends(p, label, r, found) PROVE Owned(p)'
  <2>1. /\ call'[p] = Call("sent", r, 1, None) /\ pc'[p] = label /\ outcome'[p] = "none"
        /\ report'[p] = found
    BY <1>4, <1>5 DEF Sends, AskWith, Send, Goto, StepInv, OnceInv, Domains, SteadyInv
  <2>2. ~Has(p, "ok")' /\ \A op \in Creations : ~Succeeded(p, op)'
    BY <2>1 DEF Has, Call, Succeeded
  <2>3. label = "ip-poll" => found \in created[p]
    BY <1>4, <1>5 DEF Sends, Owned, MadeAt
  <2>4. label = "group-lookup" => created[p] # {}
    BY <1>4, <1>5 DEF Sends, Owned, MadeAt
  <2> QED BY <1>1, <2>1, <2>2, <2>3, <2>4 DEF Owned
<1>6. ASSUME Ends(p) PROVE Owned(p)'
  <2>1. PICK result \in {"cancelled", "error", "killed"} : Exit(p, result)
    BY <1>6 DEF Ends
  <2>2. pc'[p] = "end" /\ outcome'[p] = result
    BY <2>1 DEF Exit, Goto, StepInv, OnceInv, Domains, SteadyInv
  <2>3. \A op \in Creations : ~Succeeded(p, op)'
    BY <2>1, <2>2 DEF Succeeded
  <2> QED BY <2>2, <2>3 DEF Owned, MadeAt
<1>7. ASSUME NEW value, Succeeds(p, value) PROVE Owned(p)'
  <2>1. pc'[p] = "end" /\ report'[p] = value
    BY <1>7 DEF Succeeds, Succeed, Exit, Goto, StepInv, OnceInv, Domains, SteadyInv
  <2>2. ASSUME NEW op \in Creations, cmd[p].op = op
        PROVE  /\ created[p] # {}
               /\ \/ value \in created[p]
                  \/ /\ op = "group-create"
                     /\ p \in disturbed \/ created[p] \cap GroupIds = {}
    <3>1. CASE pc[p] \in MadeAt
      BY <1>4, <1>7, <2>2, <3>1 DEF Succeeds, Owned
    <3>2. CASE pc[p] = "ip-poll"
      BY <1>4, <1>7, <2>2, <3>2 DEF Succeeds, Owned
    <3>3. CASE pc[p] = "group-lookup"
      <4>1. op = "group-create"
        BY <2>2, <3>3, CourseOf DEF OnCourse, Quiet, Creations
      <4>2. /\ IsUnique(Matches(p)) /\ IsFiniteSet(Value(p)) /\ FindsOwn(p, Value(p))
            /\ created[p] # {} /\ \E g \in Matches(p) : value = g.id
        BY <1>4, <1>7, <2>2, <3>3, <4>1 DEF Succeeds, Owned, MadeAt
      <4>3. IsFiniteSet(Matches(p))
        BY <4>2, FS_Subset DEF Matches
      <4>4. \A g, h \in Matches(p) : g = h
        BY <4>2, <4>3, FS_CardinalityType, FS_Singleton DEF IsUnique
      <4> QED BY <4>1, <4>2, <4>4 DEF FindsOwn, Matches
    <3> QED BY <1>7, <2>2, <3>1, <3>2, <3>3 DEF Succeeds
  <2>3. ASSUME NEW op \in Creations, Succeeded(p, op)' PROVE cmd[p].op = op
    BY <1>1, <2>3 DEF Succeeded
  <2> QED BY <1>1, <1>2, <2>1, <2>2, <2>3 DEF Owned, MadeAt
<1>8. ASSUME NEW label, Turns(p, label) PROVE Owned(p)'
  <2>1. /\ pc'[p] = label /\ outcome'[p] = "none"
        /\ label \notin MadeAt \cup {"ip-poll", "group-lookup"}
    BY <1>4, <1>8 DEF Turns, Goto, MadeAt, StepInv, OnceInv, Domains
  <2>2. \A op \in Creations : ~Succeeded(p, op)'
    BY <2>1 DEF Succeeded
  <2> QED BY <2>1, <2>2 DEF Owned
<1>9. Owned(p)'
  BY <1>5, <1>6, <1>7, <1>8 DEF Acts
<1> QED BY <1>1, <1>3, <1>9 DEF OwnershipInv, NamedAsMade

LEMMA OwnershipInit == Init => OwnershipInv
BY DEF Init, TransportInit, CommandInit, OwnershipInv, Owned, NamedAsMade, Succeeded,
   MadeAt

LEMMA OwnershipNext == StepInv /\ GroupsInv /\ OwnershipInv /\ [Next]_vars => OwnershipInv'
<1> SUFFICES ASSUME StepInv, GroupsInv, OwnershipInv, [Next]_vars PROVE OwnershipInv'
  OBVIOUS
<1>1. ASSUME UNCHANGED <<call, commandVars, groups>> PROVE OwnershipInv'
  <2>1. UNCHANGED <<call, pc, cmd, outcome, report, created, disturbed, groups>>
    BY <1>1 DEF commandVars, progressVars
  <2>2. ASSUME NEW q \in Proc PROVE Owned(q)'
    <3>1. Apart(q)
      BY <2>1 DEF Apart, GroupIds
    <3> QED BY <2>1, <3>1, OwnedStays DEF OwnershipInv
  <2> QED BY <2>1, <2>2 DEF OwnershipInv, NamedAsMade
<1>2. ASSUME NEW p \in Proc, Lose(p), UNCHANGED <<commandVars, heldVars>> PROVE OwnershipInv'
  BY <1>1, <1>2 DEF Lose, heldVars
<1>3. ASSUME UNCHANGED <<transportVars, commandVars, volumes, groups>> PROVE OwnershipInv'
  BY <1>1, <1>3 DEF transportVars
<1> QED BY <1>2, <1>3, StepKinds, OwnedActs, OwnedTransport, OwnedApi

\* A creation reports what was made for it and not what another command has
\* made, also where the id of a group is looked up by the name of the group.
THEOREM ReportsAreOwn == Spec => []ReportIsOwn
<1>1. Init => StepInv /\ GroupsInv /\ OwnershipInv
  BY StepInit, GroupsAtFirst, OwnershipInit
<1>2. StepInv /\ GroupsInv /\ OwnershipInv /\ [Next]_vars
        => (StepInv /\ GroupsInv /\ OwnershipInv)'
  BY StepNext, GroupsNext, OwnershipNext
<1>3. OwnershipInv => ReportIsOwn
  BY DEF OwnershipInv, Owned, ReportIsOwn, GroupIds
<1> QED BY <1>1, <1>2, <1>3, PTL DEF Spec

-----------------------------------------------------------------------------
(* The reserved addresses, and the types.                                  *)

\* The inventory shows addresses that are reserved.
IpsInv == inventory \subseteq ips

LEMMA IpsNext == IpsInv /\ StepInv /\ [Next]_vars => IpsInv'
<1> SUFFICES ASSUME IpsInv, StepInv, [Next]_vars PROVE IpsInv'
  OBVIOUS
<1>1. CASE UNCHANGED ipVars
  BY <1>1 DEF IpsInv, ipVars
<1>2. ASSUME NEW p \in Proc, IpApi(p) PROVE IpsInv'
  BY <1>1, <1>2 DEF IpApi, AllocateIp, ReleaseIp, AnswerInventory, IpsInv
<1>3. ASSUME NEW p \in Proc, AddressApi(p) PROVE IpsInv'
  BY <1>3 DEF AddressApi, ApplyToAddress, DropNode, IpsInv
<1>4. ASSUME NEW p \in Proc, BalancerApi(p), UNCHANGED inventory PROVE IpsInv'
  BY <1>1, <1>4 DEF BalancerApi, MakeBalancer, ReserveIp, AnswerBalancerPlans,
     AnswerBalancer, AnswerItems, IpsInv, ipVars
<1>5. ASSUME NEW p \in Proc, ApiStep(p) PROVE IpsInv'
  BY <1>1, <1>2, <1>3, <1>4, <1>5 DEF ApiStep, nodeVars
<1>6. ASSUME NEW p \in Proc, ProcessStep(p) PROVE IpsInv'
  BY <1>1, <1>6, ProceedActs DEF ProcessStep, heldVars, nodeVars
<1>7. CASE ShowIp
  BY <1>7 DEF ShowIp, IpsInv
<1> QED BY <1>1, <1>5, <1>6, <1>7 DEF Next, Mishap, nodeVars, vars

\* Every value is of its type; what is under way never is a GET, and a page
\* that is asked for is within the limit. Volumes are listed once, addresses in
\* the inventory are reserved, and groups have ids of their own.
THEOREM TypeCorrect == Spec => []TypeOK
<1> DEFINE Inv == StepInv /\ VolumesInv /\ GroupsInv /\ IpsInv
<1>1. Init => Inv
  <2>1. Init => IpsInv
    BY DEF Init, IpsInit, IpsInv
  <2> QED BY <2>1, StepInit, VolumesAtFirst, GroupsAtFirst
<1>2. Inv /\ [Next]_vars => Inv'
  BY StepNext, VolumesNext, GroupsNext, IpsNext
<1>3. Inv => TypeOK
  <2> SUFFICES ASSUME Inv PROVE TypeOK
    OBVIOUS
  <2>1. ASSUME NEW p \in Proc
        PROVE  /\ outcome[p] \in Outcomes
               /\ (outcome[p] = "none") <=> (pc[p] # "end")
               /\ call[p].state \in {"none", "sent", "done"}
               /\ call[p].state = "sent" => call[p].attempt \in 1 .. 2
               /\ pc[p] \in {"list", "volume-verify"} =>
                    call[p].request.arg.page \in 1 .. MaxPages
               /\ \A m \in wire[p] : m.request.method # "GET"
    BY DEF StepInv, SteadyInv, Steady, Expected, Sound, Quiet
  <2> QED BY <2>1 DEF TypeOK, VolumesInv, GroupsInv, IpsInv
<1> HIDE DEF Inv
<1> QED BY <1>1, <1>2, <1>3, PTL DEF Spec
=============================================================================
