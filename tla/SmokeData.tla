----------------------------- MODULE SmokeData -----------------------------
(***************************************************************************)
(* What the release smoke test and its cleanup work on: the resources in   *)
(* the cloud (external: only how the answers of the API depend on them),   *)
(* the manifest that records them, and the steps of both programs.         *)
(***************************************************************************)
EXTENDS Naturals, Sequences

IPs == {"addon", "preserved"}

Attachable == {"addon", "preserved", "volume", "vpc", "key", "group"}

\* "rules" is the temporary rules file on the local disk.
Resource == Attachable \cup {"node", "image", "rules"}

Request == [do : {"create", "attach", "detach", "delete", "unlink"}, of : Resource]

Do(what, resource) == [do |-> what, of |-> resource]

-----------------------------------------------------------------------------
(***************************************************************************)
(* The cloud. Volumes and VPCs take their time after they were created or  *)
(* detached: until then they are busy.                                     *)
(***************************************************************************)
Slow == {"volume", "vpc"}

Cloud == [exists : SUBSET Resource, attached : SUBSET Attachable, busy : SUBSET Slow]

\* "... not found": the resource, or the node it should be detached from.
Missing(q, cloud) ==
    /\ q.do # "create"
    /\ \/ q.of \notin cloud.exists
       \/ q.do \in {"attach", "detach"} /\ "node" \notin cloud.exists

InUse(r, cloud) == r \in cloud.attached \cup cloud.busy

Refuses(q, cloud) ==
    \/ q.do = "attach" /\ InUse(q.of, cloud)
    \/ q.do = "detach" /\ q.of \notin cloud.attached
    \/ q.do = "delete" /\ q.of # "key" /\ InUse(q.of, cloud)

Answer(q, cloud) ==
    IF Missing(q, cloud) THEN "gone" ELSE IF Refuses(q, cloud) THEN "refused" ELSE "ok"

\* An IP that is reserved off a node stays on it until the node is deleted.
After(q, cloud) ==
    CASE q.do = "create" ->
           [exists   |-> cloud.exists \cup {q.of},
            attached |-> cloud.attached \cup ({q.of} \cap {"preserved"}),
            busy     |-> cloud.busy \cup ({q.of} \cap Slow)]
      [] q.do = "attach" ->
           [cloud EXCEPT !.attached = @ \cup {q.of}]
      [] q.do = "detach" ->
           [cloud EXCEPT !.attached = @ \ {q.of}, !.busy = @ \cup ({q.of} \cap Slow)]
      [] q.do = "delete" /\ q.of = "node" ->
           [exists   |-> cloud.exists \ {"node"},
            attached |-> {},
            busy     |-> cloud.busy \cup (cloud.attached \cap Slow)]
      [] OTHER ->
           [cloud EXCEPT !.exists = @ \ {q.of}, !.attached = @ \ {q.of}]

Granted(q, cloud) == IF Answer(q, cloud) = "ok" THEN After(q, cloud) ELSE cloud

-----------------------------------------------------------------------------
(***************************************************************************)
(* The manifest. `ids` holds the resources whose id (or path) is recorded, *)
(* `deleted` and `attached` the flags and the *_attached_node_id fields.   *)
(* A manifest that is not whole does not parse.                            *)
(***************************************************************************)
Manifest ==
    [whole : BOOLEAN, ids : SUBSET Resource,
     deleted : SUBSET Resource, attached : SUBSET Attachable]

NewManifest ==
    [whole |-> TRUE, ids |-> {"rules"}, deleted |-> {}, attached |-> {}]

TornManifest == [NewManifest EXCEPT !.whole = FALSE, !.ids = {}]

\* The mutation that the program passes to updateSmokeManifest after q.
Recorded(q, m) ==
    CASE q.do = "create" -> [m EXCEPT !.ids = @ \cup {q.of}]
      [] q.do = "attach" -> [m EXCEPT !.attached = @ \cup {q.of}]
      [] q.do = "detach" -> [m EXCEPT !.attached = @ \ {q.of}]
      [] q.do = "unlink" -> [m EXCEPT !.ids = @ \ {q.of}]
      [] OTHER           ->
           [m EXCEPT !.deleted = @ \cup {q.of},
                     !.attached = IF q.of = "node" THEN {}
                                  ELSE @ \ ({q.of} \cap {"addon", "key"})]

\* save-image may answer without an image id; then there is nothing to delete.
ImageWithoutId(m) == [m EXCEPT !.deleted = @ \cup {"image"}]

-----------------------------------------------------------------------------
\* What the release smoke test does, in order; "create" of the preserved IP
\* is reserve-node and of the image save-image.
SmokeScript ==
    <<Do("create", "node"),
      Do("create", "group"), Do("attach", "group"), Do("detach", "group"),
      Do("create", "addon"), Do("attach", "addon"), Do("detach", "addon"),
      Do("delete", "addon"),
      Do("create", "volume"), Do("attach", "volume"), Do("detach", "volume"),
      Do("delete", "volume"),
      Do("create", "vpc"), Do("attach", "vpc"), Do("detach", "vpc"),
      Do("delete", "vpc"),
      Do("create", "key"), Do("attach", "key"), Do("create", "image"),
      Do("create", "preserved"), Do("delete", "node"), Do("delete", "preserved"),
      Do("delete", "key")>>

-----------------------------------------------------------------------------
(***************************************************************************)
(* The steps of the cleanup: what is asked for, how it is tried first and  *)
(* how when that failed. "cli" runs the CLI; "find" and "wait" read the    *)
(* resource before "act", the call of an API client.                       *)
(***************************************************************************)
CleanupStepOf(what, resource, first, fallback) ==
    [request |-> Do(what, resource), first |-> first, fallback |-> fallback]

\* Whether the IP is on a node is looked up in the list of all reserved IPs.
DetachAddon == CleanupStepOf("detach", "addon", "cli", "find")

\* The node is read for its vm_id.
DetachVolume == CleanupStepOf("detach", "volume", "cli", "find")

DetachVpc == CleanupStepOf("detach", "vpc", "cli", "act")

DeleteNode == CleanupStepOf("delete", "node", "cli", "act")

\* ensureReservedIpDetached comes first.
DeleteIp(ip) == CleanupStepOf("delete", ip, "cli", "find")

DeleteVolume == CleanupStepOf("delete", "volume", "cli", "wait")

DeleteVpc == CleanupStepOf("delete", "vpc", "cli", "wait")

\* A saved image has no CLI attempt, the rules file is not in the cloud.
DeleteImage == CleanupStepOf("delete", "image", "act", "act")

DeleteKey == CleanupStepOf("delete", "key", "cli", "act")

DeleteGroup == CleanupStepOf("delete", "group", "cli", "act")

UnlinkRules == CleanupStepOf("unlink", "rules", "act", "act")

\* A faulty variant: the node is deleted last.
NodeLast ==
    <<DetachAddon, DetachVolume, DetachVpc, DeleteIp("addon"), DeleteIp("preserved"),
      DeleteVolume, DeleteVpc, DeleteImage, DeleteKey, DeleteGroup, UnlinkRules,
      DeleteNode>>

\* The steps of runSmokeCleanup.
CleanupSteps ==
    <<DetachAddon, DetachVolume, DetachVpc, DeleteNode,
      DeleteIp("addon"), DeleteIp("preserved"), DeleteVolume, DeleteVpc,
      DeleteImage, DeleteKey, DeleteGroup, UnlinkRules>>

\* A step has nothing to do: the early return after loadManifest.
NothingToDo(q, m) ==
    CASE q.do = "detach" -> \/ q.of \notin m.ids \cap m.attached
                            \/ m.deleted \cap {"node", q.of} # {}
      [] q.do = "delete" -> q.of \notin m.ids \ m.deleted
      [] OTHER           -> q.of \notin m.ids
=============================================================================
