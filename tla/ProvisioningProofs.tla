------------------------- MODULE ProvisioningProofs -------------------------
(***************************************************************************)
(* A command makes at most one resource, for any number of processes, any  *)
(* command lines and any behaviour of the network and of the API.          *)
(***************************************************************************)
EXTENDS ProvisioningProperties, TLAPS, FiniteSetTheorems

-----------------------------------------------------------------------------
(* The inductive invariant: a process sends one changing request in its    *)
(* life. Until then nothing of it is under way and nothing was made for it;*)
(* while the request is under way nothing was made yet.                    *)

\* Where a command is before its changing request, if it has one.
BeforeChange ==
    {"idle", "confirm", "ready", "volume-plans", "group-read", "node-keys",
     "node-read", "node-confirm", "db-engines", "db-plans", "db-vpc", "db-read",
     "db-confirm", "db-vpc-read", "project-read", "lb-ip", "lb-plans", "lb-vpc",
     "lb-read"}

Domains ==
    /\ DOMAIN call = Proc /\ DOMAIN wire = Proc
    /\ DOMAIN pc = Proc /\ DOMAIN created = Proc

ChangeSentOnce(p) ==
    /\ call[p].state = "sent" /\ call[p].request.method # "GET" =>
         call[p].attempt = 1
    /\ pc[p] \in BeforeChange => wire[p] = {} /\ created[p] = {}
    /\ wire[p] # {} => created[p] = {}
    /\ \A m, n \in wire[p] : m = n
    /\ \A x, y \in created[p] : x = y

OnceInv == Domains /\ \A p \in Proc : ChangeSentOnce(p)

LEMMA OnceInit == Init => OnceInv
BY DEF Init, TransportInit, CommandInit, NoCall, Call, OnceInv, Domains,
       ChangeSentOnce

-----------------------------------------------------------------------------
(* The kinds of steps.                                                     *)

\* A GET is sent: nothing new is under way.
LEMMA OnceGet ==
    ASSUME OnceInv, NEW p \in Proc, NEW label, NEW path, NEW arg, NEW found,
           AskWith(p, label, Request("GET", path, arg), found),
           label \in BeforeChange => pc[p] \in BeforeChange
    PROVE  OnceInv'
<1> DEFINE r == Request("GET", path, arg)
<1>1. r.method = "GET"
  BY DEF Request
<1>2. /\ call' = [call EXCEPT ![p] = Call("sent", r, 1, None)]
      /\ wire' = wire /\ created' = created
      /\ pc' = [pc EXCEPT ![p] = label]
  BY <1>1 DEF AskWith, Send, OnWire, Goto
<1> HIDE DEF r
<1>3. Domains'
  BY <1>2 DEF OnceInv, Domains
<1>4. ASSUME NEW q \in Proc PROVE ChangeSentOnce(q)'
  BY <1>1, <1>2, <1>4 DEF OnceInv, Domains, ChangeSentOnce, Call
<1> QED BY <1>3, <1>4 DEF OnceInv

\* The changing request is sent.
LEMMA OnceChange ==
    ASSUME OnceInv, NEW p \in Proc, NEW label, NEW method, NEW path, NEW arg,
           NEW found, AskWith(p, label, Request(method, path, arg), found),
           method # "GET", pc[p] \in BeforeChange, label \notin BeforeChange
    PROVE  OnceInv'
<1> DEFINE r == Request(method, path, arg)
           m == Message(r, 1)
<1>1. r.method # "GET"
  BY DEF Request
<1>2. /\ call' = [call EXCEPT ![p] = Call("sent", r, 1, None)]
      /\ wire' = [wire EXCEPT ![p] = @ \cup {m}] /\ created' = created
      /\ pc' = [pc EXCEPT ![p] = label]
  BY <1>1 DEF AskWith, Send, OnWire, Goto
<1> HIDE DEF r, m
<1>3. Domains'
  BY <1>2 DEF OnceInv, Domains
<1>4. ASSUME NEW q \in Proc PROVE ChangeSentOnce(q)'
  BY <1>1, <1>2, <1>4 DEF OnceInv, Domains, ChangeSentOnce, Call
<1> QED BY <1>3, <1>4 DEF OnceInv

\* The command ends.
LEMMA OnceExit ==
    ASSUME OnceInv, NEW p \in Proc, NEW result, Exit(p, result)
    PROVE  OnceInv'
<1>1. /\ call' = [call EXCEPT ![p] = NoCall]
      /\ wire' = wire /\ created' = created
      /\ pc' = [pc EXCEPT ![p] = "end"]
  BY DEF Exit, Goto
<1>2. Domains'
  BY <1>1 DEF OnceInv, Domains
<1>3. ASSUME NEW q \in Proc PROVE ChangeSentOnce(q)'
  BY <1>1, <1>3 DEF OnceInv, Domains, ChangeSentOnce, NoCall, Call,
                       BeforeChange
<1> QED BY <1>2, <1>3 DEF OnceInv

\* The attempt ends with a result: whatever was under way may be gone now.
LEMMA OnceDone ==
    ASSUME OnceInv, NEW p \in Proc, NEW status, NEW value,
           Finish(p, status, value),
           wire' = wire \/ \E m : wire' = [wire EXCEPT ![p] = @ \ {m}],
           UNCHANGED <<pc, created>>
    PROVE  OnceInv'
<1> DEFINE new == Call("done", call[p].request, call[p].attempt,
                       [status |-> status, value |-> value])
<1>1. call' = [call EXCEPT ![p] = new]
  BY DEF Finish
<1>2. new.state = "done"
  BY DEF Call
<1> HIDE DEF new
<1>3. Domains'
  BY <1>1 DEF OnceInv, Domains
<1>4. ASSUME NEW q \in Proc PROVE ChangeSentOnce(q)'
  BY <1>1, <1>2, <1>4 DEF OnceInv, Domains, ChangeSentOnce
<1> QED BY <1>3, <1>4 DEF OnceInv

\* A timeout, an error, a second attempt, a refusal.
LEMMA OnceTransport ==
    ASSUME OnceInv, NEW p \in Proc, TransportStep(p), UNCHANGED commandVars
    PROVE  OnceInv'
<1>1. UNCHANGED <<pc, created>>
  BY DEF commandVars, progressVars
<1>2. CASE Refused(p)
  BY <1>1, <1>2, OnceDone DEF Refused
<1>3. ASSUME NEW status, AttemptFails(p, status) PROVE OnceInv'
  <2>1. CASE Finish(p, status, None) /\ UNCHANGED wire
    BY <1>1, <2>1, OnceDone
  <2>2. CASE call[p].attempt < MaxAttempts(call[p].request.method)
    <3>1. call[p].request.method = "GET"
      BY <1>3, <2>2 DEF AttemptFails, MaxAttempts, OnceInv, ChangeSentOnce
    <3>2. /\ call' = [call EXCEPT ![p] =
                         Call("sent", @.request, @.attempt + 1, None)]
          /\ wire' = wire
      BY <1>3, <2>2, <3>1 DEF AttemptFails, OnWire
    <3>3. Domains'
      BY <1>1, <3>2 DEF OnceInv, Domains
    <3>4. ASSUME NEW q \in Proc PROVE ChangeSentOnce(q)'
      BY <1>1, <3>1, <3>2, <3>4 DEF OnceInv, Domains, ChangeSentOnce, Call
    <3> QED BY <3>3, <3>4 DEF OnceInv
  <2> QED BY <1>3, <2>1, <2>2 DEF AttemptFails
<1> QED BY <1>2, <1>3 DEF TransportStep

\* The API answers a GET.
LEMMA OnceAnswer ==
    ASSUME OnceInv, NEW p \in Proc, NEW path, NEW value,
           AnswerGet(p, path, value), UNCHANGED commandVars
    PROVE  OnceInv'
BY OnceDone DEF AnswerGet, commandVars, progressVars

\* The API applies the changing request, and may make one resource.
LEMMA OnceTake ==
    ASSUME OnceInv, NEW p \in Proc, NEW m, NEW value, Take(p, m, value),
           \/ created' = created
           \/ \E x : created' = [created EXCEPT ![p] = @ \cup {x}],
           UNCHANGED pc
    PROVE  OnceInv'
<1>1. /\ m \in wire[p]
      /\ wire' = [wire EXCEPT ![p] = @ \ {m}]
      /\ wire[p] = {m} /\ created[p] = {} /\ pc[p] \notin BeforeChange
  BY DEF Take, OnceInv, ChangeSentOnce
<1>2. \/ call' = call
      \/ Finish(p, "ok", value)
  BY DEF Take
<1>3. /\ DOMAIN call' = Proc
      /\ \A q \in Proc : call'[q] = call[q] \/ call'[q].state = "done"
  BY <1>2 DEF Finish, Call, OnceInv, Domains
<1>4. Domains'
  BY <1>1, <1>3 DEF OnceInv, Domains
<1>5. \A q \in Proc : q # p => wire'[q] = wire[q] /\ created'[q] = created[q]
  BY <1>1 DEF OnceInv, Domains
<1>6. wire'[p] = {} /\ \A x, y \in created'[p] : x = y
  BY <1>1 DEF OnceInv, Domains
<1>7. ASSUME NEW q \in Proc PROVE ChangeSentOnce(q)'
  BY <1>1, <1>3, <1>5, <1>6, <1>7 DEF OnceInv, ChangeSentOnce
<1> QED BY <1>4, <1>7 DEF OnceInv

-----------------------------------------------------------------------------
(* The commands.                                                           *)

\* A prompt or the start: nothing is sent, and nothing was sent before.
LEMMA OnceGoto ==
    ASSUME OnceInv, NEW p \in Proc, NEW label, Goto(p, label),
           pc[p] \in BeforeChange, UNCHANGED <<transportVars, created>>
    PROVE  OnceInv'
<1>1. Domains'
  BY DEF OnceInv, Domains, Goto, transportVars
<1>2. ASSUME NEW q \in Proc PROVE ChangeSentOnce(q)'
  BY <1>2 DEF OnceInv, Domains, ChangeSentOnce, Goto, transportVars
<1> QED BY <1>1, <1>2 DEF OnceInv

LEMMA OnceUncaught ==
    ASSUME OnceInv, NEW p \in Proc, NEW labels, Uncaught(p, labels)
    PROVE  OnceInv'
BY OnceExit DEF Uncaught, Fail

LEMMA OnceCommand ==
    ASSUME OnceInv, NEW p \in Proc, CommandStep(p)
    PROVE  OnceInv'
<1>1. CASE Start(p)
  BY <1>1, OnceGoto DEF Start, BeforeChange
<1>2. CASE Confirm(p)
  BY <1>2, OnceGoto DEF Confirm, BeforeChange
<1>3. CASE Decline(p)
  BY <1>3, OnceExit DEF Decline
<1>4. CASE Reject(p)
  BY <1>4, OnceExit DEF Reject, Fail
<1>5. CASE ChangeDone(p)
  BY <1>5, OnceExit DEF ChangeDone, Succeed
<1>6. CASE Uncaught(p, {"change"})
  BY <1>6, OnceUncaught
<1> QED BY <1>1, <1>2, <1>3, <1>4, <1>5, <1>6 DEF CommandStep

\* A request that is sent when the command has the result of the last one.
LEMMA OnceNextGet ==
    ASSUME OnceInv, NEW p \in Proc, NEW label, NEW path, NEW arg,
           Ask(p, label, Request("GET", path, arg)),
           label \in BeforeChange => pc[p] \in BeforeChange
    PROVE  OnceInv'
BY OnceGet DEF Ask

LEMMA OnceNextChange ==
    ASSUME OnceInv, NEW p \in Proc, NEW label, NEW method, NEW path, NEW arg,
           Ask(p, label, Request(method, path, arg)),
           method # "GET", pc[p] \in BeforeChange, label \notin BeforeChange
    PROVE  OnceInv'
BY OnceChange DEF Ask

LEMMA OnceVolume ==
    ASSUME OnceInv, NEW p \in Proc, VolumeStep(p)
    PROVE  OnceInv'
<1>1. CASE ListVolumePlans(p) \/ CreateVolume(p) \/ GetVolume(p)
  BY <1>1, OnceNextGet DEF ListVolumePlans, CreateVolume, GetVolume, AskForPlans,
     Begins, BeforeChange
<1>2. CASE CreatePlanned(p)
  BY <1>2, OnceNextChange DEF CreatePlanned, BeforeChange
<1>3. CASE DeleteVolume(p)
  BY <1>3, OnceNextChange DEF DeleteVolume, Begins, BeforeChange
<1>4. CASE Reconcile(p)
  BY <1>4, OnceNextGet DEF Reconcile, Page, PageRequest, BeforeChange
<1>5. CASE SearchOn(p)
  BY <1>5, OnceNextGet DEF SearchOn, Page, PageRequest, BeforeChange
<1>6. CASE \/ ShowVolumePlans(p) \/ CreateUnplanned(p) \/ VolumeCreated(p)
           \/ VolumeShown(p) \/ VolumeDeleted(p) \/ DeleteFails(p)
           \/ VolumeGone(p) \/ Unreconciled(p)
  BY <1>6, OnceExit DEF ShowVolumePlans, CreateUnplanned, VolumeCreated,
     VolumeShown, VolumeDeleted, DeleteFails, VolumeGone, Unreconciled,
     Succeed, Fail
<1>7. CASE Uncaught(p, {"volume-offers", "volume-plans", "volume-create",
                        "volume-show"})
  BY <1>7, OnceUncaught
<1> QED BY <1>1, <1>2, <1>3, <1>4, <1>5, <1>6, <1>7 DEF VolumeStep

LEMMA OnceList ==
    ASSUME OnceInv, NEW p \in Proc, ListStep(p)
    PROVE  OnceInv'
<1>1. CASE BeginList(p) \/ ListOn(p)
  BY <1>1, OnceGet DEF BeginList, ListOn, PageOfList, PageRequest, BeforeChange
<1>2. CASE ListCertificates(p)
  BY <1>2, OnceNextGet DEF ListCertificates, BeforeChange
<1>3. CASE ListTooLong(p) \/ ListDone(p) \/ CertificatesListed(p)
  BY <1>3, OnceExit DEF ListTooLong, ListDone, CertificatesListed, Succeed, Fail
<1>4. CASE Uncaught(p, {"list", "ssl-list"})
  BY <1>4, OnceUncaught
<1> QED BY <1>1, <1>2, <1>3, <1>4 DEF ListStep

LEMMA OnceKey ==
    ASSUME OnceInv, NEW p \in Proc, KeyStep(p)
    PROVE  OnceInv'
<1>1. CASE CreateKey(p) \/ DeleteKey(p)
  BY <1>1, OnceNextChange DEF CreateKey, DeleteKey, SendChange, Begins,
     BeforeChange
<1>2. CASE ReadKeys(p)
  BY <1>2, OnceNextGet DEF ReadKeys, AskForKeys, BeforeChange
<1>3. CASE \/ KeyUnusable(p) \/ KeyMade(p) \/ KeysShown(p) \/ KeyShown(p)
           \/ KeyUnknown(p)
  BY <1>3, OnceExit DEF KeyUnusable, KeyMade, KeysShown, KeyShown, KeyUnknown, Succeed, Fail
<1>4. CASE Uncaught(p, {"key-made", "key-read"})
  BY <1>4, OnceUncaught
<1> QED BY <1>1, <1>2, <1>3, <1>4 DEF KeyStep

LEMMA OnceImage ==
    ASSUME OnceInv, NEW p \in Proc, ImageStep(p)
    PROVE  OnceInv'
<1>1. CASE DeleteImage(p) \/ RenameImage(p)
  BY <1>1, OnceNextChange DEF DeleteImage, RenameImage, SendChange, Begins,
     BeforeChange
<1>2. CASE ListImages(p)
  BY <1>2, OnceNextGet DEF ListImages, BeforeChange
<1>3. CASE ImagesListed(p)
  BY <1>3, OnceExit DEF ImagesListed, Succeed
<1>4. CASE Uncaught(p, {"image-list"})
  BY <1>4, OnceUncaught
<1> QED BY <1>1, <1>2, <1>3, <1>4 DEF ImageStep

LEMMA OnceProject ==
    ASSUME OnceInv, NEW p \in Proc, ProjectStep(p)
    PROVE  OnceInv'
<1>1. CASE CreateProject(p)
  BY <1>1, OnceNextChange DEF CreateProject, Begins, BeforeChange
<1>2. CASE ReadProjects(p)
  BY <1>2, OnceNextGet DEF ReadProjects, BeforeChange
<1>3. CASE StarProject(p)
  BY <1>3, OnceNextChange DEF StarProject, ProjectsRead, BeforeChange
<1>4. CASE ProjectMade(p) \/ ProjectsShown(p) \/ ProjectUnknown(p)
  BY <1>4, OnceExit DEF ProjectMade, ProjectsShown, ProjectUnknown, Succeed, Fail
<1>5. CASE Uncaught(p, {"project-made", "project-read"})
  BY <1>5, OnceUncaught
<1> QED BY <1>1, <1>2, <1>3, <1>4, <1>5 DEF ProjectStep

LEMMA OnceIp ==
    ASSUME OnceInv, NEW p \in Proc, IpStep(p)
    PROVE  OnceInv'
<1>1. CASE CreateIp(p)
  BY <1>1, OnceNextChange DEF CreateIp, Begins, BeforeChange
<1>2. CASE IpCreated(p)
  BY <1>2, OnceGet DEF IpCreated, Inventory, BeforeChange
<1>3. CASE PollAgain(p)
  BY <1>3, OnceNextGet DEF PollAgain, Inventory, BeforeChange
<1>4. CASE DeleteIp(p)
  BY <1>4, OnceNextChange DEF DeleteIp, SendChange, Begins, BeforeChange
<1>5. CASE GetIp(p) \/ ListIps(p)
  BY <1>5, OnceNextGet DEF GetIp, ListIps, Inventory, BeforeChange
<1>6. CASE \/ IpShown(p) \/ NeverShown(p) \/ IpFound(p) \/ IpNotFound(p)
           \/ IpsListed(p)
  BY <1>6, OnceExit DEF IpShown, NeverShown, IpFound, IpNotFound, IpsListed,
     Succeed, Fail
<1>7. CASE Uncaught(p, {"ip-create", "ip-poll", "ip-get", "ip-list"})
  BY <1>7, OnceUncaught
<1> QED BY <1>1, <1>2, <1>3, <1>4, <1>5, <1>6, <1>7 DEF IpStep

LEMMA OnceGroup ==
    ASSUME OnceInv, NEW p \in Proc, GroupStep(p)
    PROVE  OnceInv'
<1>1. CASE CreateGroup(p)
  BY <1>1, OnceNextChange DEF CreateGroup, Begins, BeforeChange
<1>2. CASE GroupUnnamed(p)
  BY <1>2, OnceNextGet DEF GroupUnnamed, BeforeChange
<1>3. CASE DeleteGroup(p) \/ UpdateGroup(p)
  BY <1>3, OnceNextChange DEF DeleteGroup, UpdateGroup, SendChange, GroupRequest,
     Begins, BeforeChange
<1>4. CASE ReadForUpdate(p)
  BY <1>4, OnceNextGet DEF ReadForUpdate, GroupRequest, Begins, BeforeChange
<1>5. CASE UpdateRead(p)
  BY <1>5, OnceNextChange DEF UpdateRead, GroupRequest, BeforeChange
<1>6. CASE GetGroup(p) \/ ListGroups(p)
  BY <1>6, OnceNextGet DEF GetGroup, ListGroups, GroupRequest, BeforeChange
<1>7. CASE \/ RulesUnusable(p) \/ GroupCreated(p) \/ GroupLookedUp(p)
           \/ GroupUnclear(p) \/ GroupShown(p)
  BY <1>7, OnceExit DEF RulesUnusable, GroupCreated, GroupLookedUp, GroupUnclear, GroupShown,
     Succeed, Fail
<1>8. CASE Uncaught(p, {"group-create", "group-lookup", "group-read",
                        "group-get"})
  BY <1>8, OnceUncaught
<1> QED BY <1>1, <1>2, <1>3, <1>4, <1>5, <1>6, <1>7, <1>8 DEF GroupStep

LEMMA OnceNode ==
    ASSUME OnceInv, NEW p \in Proc, NodeStep(p)
    PROVE  OnceInv'
<1>1. CASE CreateNode(p) \/ SaveImage(p)
  BY <1>1, OnceNextChange DEF CreateNode, SaveImage, Begins, BeforeChange
<1>2. CASE ListKeys(p)
  BY <1>2, OnceNextGet DEF ListKeys, AskForKeys, BeforeChange
<1>3. CASE CreateWithKeys(p)
  BY <1>3, OnceNextChange DEF CreateWithKeys, KeysListed, BeforeChange
<1>4. CASE AttachKeys(p)
  BY <1>4, OnceNextChange DEF AttachKeys, KeysListed, ByNodeId, BeforeChange
<1>5. CASE \/ PowerNode(p) \/ UpgradeNode(p) \/ AttachVpc(p) \/ DetachVpc(p)
           \/ DeleteNode(p)
  BY <1>5, OnceNextChange DEF PowerNode, UpgradeNode, AttachVpc, DetachVpc,
     DeleteNode, SendChange, ByNodeId, Begins, BeforeChange
<1>6. CASE ReadNode(p)
  BY <1>6, OnceNextGet DEF ReadNode, GetNode, BeforeChange
<1>7. CASE \/ AttachGroups(p) \/ DetachGroups(p) \/ AttachVolume(p)
           \/ DetachVolume(p)
  BY <1>7, OnceChange DEF AttachGroups, DetachGroups, AttachVolume,
     DetachVolume, ChangeVm, NodeRead, BeforeChange
<1>8. CASE ShowNode(p) \/ ListNodes(p)
  BY <1>8, OnceNextGet DEF ShowNode, ListNodes, GetNode, BeforeChange
<1>9. CASE NodeMade(p) \/ KeysMissing(p) \/ NodeUnfit(p) \/ NodeShown(p)
  BY <1>9, OnceExit DEF NodeMade, KeysMissing, NodeUnfit, NodeShown, Succeed,
     Fail
<1>10. CASE Uncaught(p, {"node-made", "node-keys", "node-read", "node-show"})
  BY <1>10, OnceUncaught
<1> QED BY <1>1, <1>2, <1>3, <1>4, <1>5, <1>6, <1>7, <1>8, <1>9, <1>10
        DEF NodeStep

LEMMA OnceAddress ==
    ASSUME OnceInv, NEW p \in Proc, AddressStep(p)
    PROVE  OnceInv'
<1>1. CASE ReadForAddress(p)
  BY <1>1, OnceNextGet DEF ReadForAddress, GetNode, BeforeChange
<1>2. CASE AskForAddress(p)
  BY <1>2, OnceGoto DEF AskForAddress, AddressNodeRead, NodeRead, BeforeChange
<1>3. CASE ChangeAddress(p)
  BY <1>3, OnceChange DEF ChangeAddress, AddressNodeRead, NodeRead, BeforeChange
<1>4. CASE AddressUnavailable(p) \/ AddressDeclined(p) \/ AddressRejected(p)
  BY <1>4, OnceExit DEF AddressUnavailable, AddressDeclined, AddressRejected,
     Fail
<1> QED BY <1>1, <1>2, <1>3, <1>4 DEF AddressStep

LEMMA OnceVpc ==
    ASSUME OnceInv, NEW p \in Proc, VpcStep(p)
    PROVE  OnceInv'
<1>1. CASE CreateVpc(p) \/ DeleteVpc(p)
  BY <1>1, OnceNextChange DEF CreateVpc, DeleteVpc, SendChange, Begins,
     BeforeChange
<1>2. CASE ShowVpc(p) \/ ShowVpcPlans(p)
  BY <1>2, OnceGet, OnceNextGet DEF ShowVpc, ShowVpcPlans, GetVpc, Begins,
     BeforeChange
<1>3. CASE VpcMade(p) \/ VpcShown(p)
  BY <1>3, OnceExit DEF VpcMade, VpcShown, Succeed
<1>4. CASE Uncaught(p, {"vpc-made", "vpc-show"})
  BY <1>4, OnceUncaught
<1> QED BY <1>1, <1>2, <1>3, <1>4 DEF VpcStep

LEMMA OnceClusterOrder ==
    ASSUME OnceInv, NEW p \in Proc,
           \/ ListEngines(p) \/ TypesShown(p) \/ EngineUnclear(p)
           \/ ListPlans(p) \/ PlansShown(p) \/ PlanUnclear(p) \/ CreateCluster(p)
           \/ ReadVpcForCluster(p) \/ CreateInVpc(p) \/ ClusterMade(p) \/ ClusterUnnamed(p)
    PROVE  OnceInv'
<1>1. CASE ListEngines(p)
  BY <1>1, OnceNextGet DEF ListEngines, BeforeChange
<1>2. CASE ListPlans(p)
  BY <1>2, OnceGet DEF ListPlans, EnginesListed, BeforeChange
<1>3. CASE CreateCluster(p)
  BY <1>3, OnceNextChange DEF CreateCluster, PlanClear, PlansListed, BeforeChange
<1>4. CASE ReadVpcForCluster(p)
  BY <1>4, OnceGet DEF ReadVpcForCluster, PlanClear, PlansListed, GetVpc,
     BeforeChange
<1>5. CASE CreateInVpc(p)
  BY <1>5, OnceNextChange DEF CreateInVpc, BeforeChange
<1>6. CASE \/ TypesShown(p) \/ EngineUnclear(p) \/ PlansShown(p) \/ PlanUnclear(p)
           \/ ClusterMade(p) \/ ClusterUnnamed(p)
  BY <1>6, OnceExit DEF TypesShown, EngineUnclear, PlansShown, PlanUnclear, ClusterMade,
     ClusterUnnamed, Succeed, Fail
<1> QED BY <1>1, <1>2, <1>3, <1>4, <1>5, <1>6

LEMMA OnceDatabase ==
    ASSUME OnceInv, NEW p \in Proc, DatabaseStep(p)
    PROVE  OnceInv'
<1>1. CASE ReadCluster(p)
  BY <1>1, OnceNextGet DEF ReadCluster, BeforeChange
<1>2. CASE AskToDelete(p)
  BY <1>2, OnceGoto DEF AskToDelete, ClusterRead, BeforeChange
<1>3. ASSUME NEW value, Ask(p, "change", ClusterChange(p, value)),
             pc[p] \in BeforeChange
      PROVE  OnceInv'
  BY <1>3, OnceNextChange DEF ClusterChange, BeforeChange
<1>4. CASE ChangeGuarded(p)
  BY <1>3, <1>4 DEF ChangeGuarded, ClusterRead, BeforeChange
<1>5. CASE ChangeCluster(p)
  BY <1>3, <1>5 DEF ChangeCluster, SendChange, Begins, BeforeChange
<1>6. CASE ReadVpcToAttach(p)
  BY <1>6, OnceGet DEF ReadVpcToAttach, GetVpc, BeforeChange
<1>7. CASE ChangeVpcs(p)
  BY <1>3, <1>7 DEF ChangeVpcs, BeforeChange
<1>8. CASE ClusterUnfit(p) \/ DeletionDeclined(p) \/ DeletionRejected(p)
  BY <1>8, OnceExit DEF ClusterUnfit, DeletionDeclined, DeletionRejected, Fail
<1>9. CASE Uncaught(p, {"db-engines", "db-plans", "db-vpc", "db-made",
                        "db-read", "db-part", "db-vpc-read"})
  BY <1>9, OnceUncaught
<1>10. CASE BeginGet(p) \/ GetOn(p)
  BY <1>10, OnceGet DEF BeginGet, GetOn, ReadPart, PartRead, Begins, BeforeChange
<1>11. CASE PasswordUnusable(p) \/ GetDone(p)
  BY <1>11, OnceExit DEF PasswordUnusable, GetDone, Succeed, Fail
<1> QED BY <1>1, <1>2, <1>4, <1>5, <1>6, <1>7, <1>8, <1>9, <1>10, <1>11,
           OnceClusterOrder
        DEF DatabaseStep

LEMMA OnceBalancer ==
    ASSUME OnceInv, NEW p \in Proc, BalancerStep(p)
    PROVE  OnceInv'
<1>1. CASE FindReserved(p) \/ FindPlans(p)
  BY <1>1, OnceNextGet DEF FindReserved, FindPlans, OrderBalancer, InventoryRead,
     Begins, BeforeChange
<1>2. CASE FindVpc(p)
  BY <1>2, OnceGet DEF FindVpc, GetVpc, PlansFound, BeforeChange
<1>3. CASE OrderPlain(p) \/ OrderInVpc(p)
  BY <1>3, OnceNextChange DEF OrderPlain, OrderInVpc, SendOrder, PlansFound,
     BeforeChange
<1>4. CASE ReadToReserve(p) \/ GetBalancer(p) \/ ShowBalancerPlans(p)
  BY <1>4, OnceNextGet DEF ReadToReserve, GetBalancer, ShowBalancerPlans,
     ReadBalancer, Begins, BeforeChange
<1>5. CASE ReserveAddress(p)
  BY <1>5, OnceNextChange DEF ReserveAddress, BalancerRead, BeforeChange
<1>6. CASE \/ ReservedUnfit(p) \/ SelectionUnfit(p) \/ BalancerMade(p)
           \/ Unreservable(p) \/ BalancerShown(p)
  BY <1>6, OnceExit DEF ReservedUnfit, SelectionUnfit, BalancerMade,
     Unreservable, BalancerShown, Succeed, Fail
<1>7. CASE Uncaught(p, {"lb-ip", "lb-plans", "lb-vpc", "lb-made", "lb-read",
                        "lb-show"})
  BY <1>7, OnceUncaught
<1> QED BY <1>1, <1>2, <1>3, <1>4, <1>5, <1>6, <1>7 DEF BalancerStep

-----------------------------------------------------------------------------
(* The API and the network.                                                *)

LEMMA OnceApi ==
    ASSUME OnceInv, NEW p \in Proc, ApiStep(p)
    PROVE  OnceInv'
<1>1. CASE VolumeApi(p)
  BY <1>1, OnceAnswer, OnceTake DEF VolumeApi, AnswerPlans, AnswerVolume,
     MakeVolume, DropVolume, progressVars
<1>2. CASE ListApi(p)
  BY <1>2, OnceAnswer DEF ListApi, AnswerVolumes, AnswerVpcs, AnswerClusters,
     AnswerHosts, AnswerBalancers, AnswerCertificates, AnswerWhole, AnswerPage
<1>3. CASE IpApi(p)
  BY <1>3, OnceAnswer, OnceTake DEF IpApi, AllocateIp, ReleaseIp,
     AnswerInventory, commandVars, progressVars
<1>4. CASE GroupApi(p)
  BY <1>4, OnceAnswer, OnceTake DEF GroupApi, MakeGroup, ChangeGroup,
     DropGroup, AnswerGroup, AnswerGroups, commandVars, progressVars
<1>5. CASE NodeApi(p)
  BY <1>5, OnceAnswer, OnceTake DEF NodeApi, ApplyToNode, MakeNode,
     AnswerNode, AnswerNodes, progressVars
<1>6. CASE AddressApi(p)
  BY <1>6, OnceTake DEF AddressApi, ApplyToAddress, DropNode, commandVars,
     progressVars
<1>7. CASE VpcApi(p)
  BY <1>7, OnceAnswer, OnceTake DEF VpcApi, MakeVpc, DropVpc, AnswerVpc,
     AnswerVpcPlans, progressVars
<1>8. CASE DatabaseApi(p)
  BY <1>8, OnceAnswer, OnceTake DEF DatabaseApi, ApplyToCluster, DropCluster,
     MakeCluster, AnswerCluster, AnswerPart, AnswerEngines, AnswerPlansOf, progressVars
<1>9. CASE KeyApi(p)
  BY <1>9, OnceAnswer, OnceTake DEF KeyApi, MakeKey, DropKey, AnswerKeys,
     commandVars, progressVars
<1>10. CASE ImageApi(p)
  BY <1>10, OnceAnswer, OnceTake DEF ImageApi, MakeImage, NameImage, DropImage,
     AnswerImages, commandVars, progressVars
<1>11. CASE ProjectApi(p)
  BY <1>11, OnceAnswer, OnceTake DEF ProjectApi, MakeProject, MarkProject,
     AnswerProjects, commandVars, progressVars
<1>12. CASE BalancerApi(p)
  BY <1>12, OnceAnswer, OnceTake DEF BalancerApi, AnswerItems,
     AnswerBalancerPlans, AnswerBalancer, MakeBalancer, ReserveIp, commandVars,
     progressVars
<1> QED BY <1>1, <1>2, <1>3, <1>4, <1>5, <1>6, <1>7, <1>8, <1>9, <1>10, <1>11,
           <1>12
        DEF ApiStep

LEMMA OnceMishap ==
    ASSUME OnceInv, NEW p \in Proc, Mishap(p)
    PROVE  OnceInv'
<1>1. CASE Kill(p)
  BY <1>1, OnceExit DEF Kill
<1>2. CASE Lose(p) /\ UNCHANGED commandVars
  BY <1>2 DEF Lose, commandVars, progressVars, OnceInv, Domains, ChangeSentOnce
<1> QED BY <1>1, <1>2 DEF Mishap

LEMMA OnceNext == OnceInv /\ [Next]_vars => OnceInv'
<1> SUFFICES ASSUME OnceInv, [Next]_vars PROVE OnceInv'
  OBVIOUS
<1>1. ASSUME NEW p \in Proc, ProcessStep(p) PROVE OnceInv'
  BY <1>1, OnceCommand, OnceVolume, OnceList, OnceIp, OnceGroup, OnceNode,
     OnceAddress, OnceVpc, OnceDatabase, OnceKey, OnceImage, OnceProject,
     OnceBalancer, OnceTransport
     DEF ProcessStep, Proceed
<1>2. ASSUME NEW p \in Proc, ApiStep(p) \/ Mishap(p) PROVE OnceInv'
  BY <1>2, OnceApi, OnceMishap
<1>3. CASE ShowIp
  BY <1>3 DEF ShowIp, transportVars, commandVars, progressVars, OnceInv,
     Domains, ChangeSentOnce
<1>4. CASE UNCHANGED vars
  BY <1>4 DEF vars, transportVars, commandVars, progressVars, OnceInv,
     Domains, ChangeSentOnce
<1> QED BY <1>1, <1>2, <1>3, <1>4 DEF Next

LEMMA OnceImplies == OnceInv => AtMostOneEffect
<1> SUFFICES ASSUME OnceInv, NEW p \in Proc PROVE Cardinality(created[p]) <= 1
  BY DEF AtMostOneEffect
<1>1. created[p] = {} \/ \E x : created[p] = {x}
  BY DEF OnceInv, ChangeSentOnce
<1>2. Cardinality(created[p]) \in {0, 1}
  BY <1>1, FS_EmptySet, FS_Singleton
<1> QED BY <1>2

\* A command makes at most one resource, however its requests are lost, time
\* out or are answered late: only GETs are sent twice, and each command sends
\* one request of another kind.
THEOREM AtMostOneCreation == Spec => []AtMostOneEffect
<1>1. Init => OnceInv
  BY OnceInit
<1>2. OnceInv /\ [Next]_vars => OnceInv'
  BY OnceNext
<1>3. OnceInv => AtMostOneEffect
  BY OnceImplies
<1> QED BY <1>1, <1>2, <1>3, PTL DEF Spec
=============================================================================
