------------------------------ MODULE Volumes ------------------------------
(***************************************************************************)
(* VolumeService: create, delete, get and plans. A creation looks up the   *)
(* plan that is sold in the requested size. A delete that timed out is     *)
(* decided by looking for the volume on every page of the list.            *)
(***************************************************************************)
EXTENDS PagedLists, SequencesExt

CONSTANTS
    NewVolumes,     \* ids the API gives to new volumes
    VolumeCatalogs, \* the sets of offers the API may answer with: records
                    \* [plan, terms], of a plan [size, iops, price, available]
                    \* and committed terms [id, days]
    InitialVolumes  \* InitialVolumes[w]: the volumes there may be before the
                    \* commands w, in the API's order

\* The API lists no volume twice, and gives no id twice.
IsVolumeList(s) ==
    /\ s \in Seq(Range(s)) /\ Range(s) \cap NewVolumes = {}
    /\ \A i, j \in DOMAIN s : s[i] = s[j] => i = j

ASSUME VolumesAssumption ==
    \A w \in Workloads : \A s \in InitialVolumes[w] : IsVolumeList(s)

VARIABLES volumes  \* the volumes of the API, in the order it lists them

VolumesInit == volumes \in InitialVolumes[cmd]

Held == {volumes[i] : i \in DOMAIN volumes}

-----------------------------------------------------------------------------
(* Plans. Offers of one plan that have different terms are one plan.       *)

TermsOf(offers, plan) ==
    {t \in UNION {o.terms : o \in {x \in offers : x.plan = plan}} : t.days # None}

\* summarizeVolumePlans fails with INVALID_API_RESPONSE otherwise.
IsCatalog(offers) ==
    \A o \in offers : \A s, t \in TermsOf(offers, o.plan) : s.id = t.id => s = t

OfSize(offers, size) ==
    {o.plan : o \in {x \in offers : size \in {None, x.plan.size}}}

AskForPlans(p, label) == Ask(p, label, Request("GET", "volume-plans", None))

ListVolumePlans(p) == Begins(p, "volume-plans") /\ AskForPlans(p, "volume-offers")

\* --available-only
Offered(line, plans) == {plan \in plans : line.available => plan.available}

\* With --size, VOLUME_PLAN_NOT_FOUND and UNAVAILABLE_VOLUME_PLAN if none is left.
ShowVolumePlans(p) ==
    /\ pc[p] = "volume-offers" /\ Has(p, "ok")
    /\ LET plans == Offered(cmd[p], OfSize(Value(p), cmd[p].size)) IN
       IF IsCatalog(Value(p)) /\ (cmd[p].size # None => plans # {})
       THEN Succeed(p, plans)
       ELSE Fail(p)

-----------------------------------------------------------------------------
(* create and get.                                                         *)

CreateVolume(p) ==
    /\ Begins(p, "volume-create") /\ IsBilling(cmd[p])
    /\ AskForPlans(p, "volume-plans")

Matching(p) == OfSize(Value(p), cmd[p].size)

\* The one plan of the size is available, and has the terms that were chosen.
MayBuy(p, plan) ==
    /\ IsCatalog(Value(p))
    /\ Matching(p) = {plan} /\ plan.available
    /\ cmd[p].committed # None =>
          \E t \in TermsOf(Value(p), plan) : t.id = cmd[p].committed

NewVolume(line, plan) ==
    [size |-> line.size, iops |-> plan.iops, committed |-> line.committed,
     renewal |-> Renewal(line)]

CreatePlanned(p) ==
    /\ pc[p] = "volume-plans" /\ Has(p, "ok")
    /\ \E plan \in Matching(p) :
         /\ MayBuy(p, plan)
         /\ Ask(p, "volume-create",
                Request("POST", "volumes", NewVolume(cmd[p], plan)))

\* VOLUME_PLAN_NOT_FOUND, AMBIGUOUS_VOLUME_PLAN, UNAVAILABLE_VOLUME_PLAN,
\* INVALID_COMMITTED_PLAN_ID
CreateUnplanned(p) ==
    /\ pc[p] = "volume-plans" /\ Has(p, "ok")
    /\ \A plan \in Matching(p) : ~MayBuy(p, plan)
    /\ Fail(p)

VolumeCreated(p) ==
    pc[p] = "volume-create" /\ Has(p, "ok") /\ Succeed(p, Value(p))

GetVolume(p) ==
    /\ Begins(p, "volume-get")
    /\ Ask(p, "volume-show", Request("GET", "volume", cmd[p].target))

VolumeShown(p) == pc[p] = "volume-show" /\ Has(p, "ok") /\ Succeed(p, Value(p))

-----------------------------------------------------------------------------
(* delete, with its confirmation in Start, Confirm, Decline and Reject.    *)

DeleteVolume(p) ==
    /\ Begins(p, "volume-delete")
    /\ Ask(p, "volume-delete", Request("DELETE", "volumes", cmd[p].target))

VolumeDeleted(p) ==
    pc[p] = "volume-delete" /\ Has(p, "ok") /\ Succeed(p, cmd[p].target)

Page(n) == PageRequest("volumes", None, n)

\* API_TIMEOUT: was it deleted all the same?
Reconcile(p) ==
    pc[p] = "volume-delete" /\ Has(p, "timeout") /\ Ask(p, "volume-verify", Page(1))

DeleteFails(p) == pc[p] = "volume-delete" /\ Has(p, "failed") /\ Fail(p)

PageSearched(p) == pc[p] = "volume-verify" /\ Has(p, "ok")

StillThere(p) == cmd[p].target \in Value(p).items

SearchOn(p) ==
    /\ PageSearched(p) /\ ~StillThere(p) /\ ~AtLimit(p) /\ ~IsLastPage(p)
    /\ Ask(p, "volume-verify", Page(NextNumber(p)))

\* A faulty variant: a search that fails counts as a search that found nothing.
VolumeGoneOrUnknown(p) ==
    /\ \/ PageSearched(p) /\ ~StillThere(p) /\ IsLastPage(p)
       \/ pc[p] = "volume-verify" /\ Has(p, "failed")
    /\ Succeed(p, cmd[p].target)

VolumeGone(p) ==
    /\ PageSearched(p) /\ ~StillThere(p) /\ ~AtLimit(p) /\ IsLastPage(p)
    /\ Succeed(p, cmd[p].target)

\* The volume is there, the limit is met, or a page cannot be read: the
\* timeout of the delete is the error.
Unreconciled(p) ==
    /\ pc[p] = "volume-verify"
    /\ \/ Has(p, "ok") /\ (StillThere(p) \/ AtLimit(p))
       \/ Has(p, "timeout") \/ Has(p, "failed")
    /\ Fail(p)

-----------------------------------------------------------------------------
(* The API (external).                                                     *)

AnswerPlans(p) ==
    /\ \E offers \in VolumeCatalogs : AnswerGet(p, "volume-plans", offers)
    /\ UNCHANGED <<commandVars, volumes>>

AnswerVolume(p) ==
    /\ Waits(p, "volume") /\ call[p].request.arg \in Held
    /\ AnswerGet(p, "volume", call[p].request.arg)
    /\ UNCHANGED <<commandVars, volumes>>

\* The deletions that were sent for this id before there was such a volume.
Deleting(v) ==
    {q \in Proc : /\ cmd[q].op = "volume-delete" /\ cmd[q].target = v
                  /\ pc[q] \in {"volume-delete", "volume-verify", "end"}}

\* A new volume is listed first or last.
MakeVolume(p) ==
    /\ \E m \in wire[p], v \in NewVolumes \ Held :
         /\ m.request.path = "volumes" /\ m.request.method = "POST"
         /\ \A q \in Proc : v \notin created[q]
         /\ Take(p, m, v)
         /\ volumes' \in {<<v>> \o volumes, Append(volumes, v)}
         /\ created' = [created EXCEPT ![p] = @ \cup {v}]
         /\ disturbed' = disturbed \cup Deleting(v)
    /\ UNCHANGED progressVars

\* Deleting a volume moves those after it, perhaps to the page before.
DropVolume(p) ==
    /\ \E m \in wire[p], i \in DOMAIN volumes :
         /\ m.request.path = "volumes" /\ m.request.method = "DELETE"
         /\ m.request.arg = volumes[i]
         /\ Take(p, m, None)
         /\ volumes' = RemoveAt(volumes, i)
    /\ disturbed' = disturbed \cup Paging("volumes")
    /\ UNCHANGED <<progressVars, created>>

-----------------------------------------------------------------------------
VolumeStep(p) ==
    /\ \/ ListVolumePlans(p) \/ ShowVolumePlans(p)
       \/ CreateVolume(p) \/ CreatePlanned(p) \/ CreateUnplanned(p)
       \/ VolumeCreated(p) \/ GetVolume(p) \/ VolumeShown(p)
       \/ DeleteVolume(p) \/ VolumeDeleted(p) \/ Reconcile(p)
       \/ DeleteFails(p) \/ SearchOn(p) \/ VolumeGone(p) \/ Unreconciled(p)
       \/ Uncaught(p, {"volume-offers", "volume-plans", "volume-create",
                       "volume-show"})
    /\ UNCHANGED volumes

VolumeApi(p) ==
    AnswerPlans(p) \/ AnswerVolume(p) \/ MakeVolume(p) \/ DropVolume(p)
=============================================================================
