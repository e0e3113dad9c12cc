------------------------ MODULE ProvisioningChanges ------------------------
(***************************************************************************)
(* Nodes, security groups and clusters change, and are made, as a command  *)
(* asks and by nothing else, for any number of processes, any command      *)
(* lines, and any order of answers, losses and late changes.               *)
(***************************************************************************)
EXTENDS ProvisioningReports

-----------------------------------------------------------------------------
(* What a step means for one process.                                      *)

\* Nothing, but that what it had under way may be lost.
Same(p) ==
    /\ pc'[p] = pc[p] /\ call'[p] = call[p] /\ report'[p] = report[p]
    /\ wire'[p] \subseteq wire[p]

Sent(p) ==
    \E label, r, found :
      /\ Sends(p, label, r, found)
      /\ pc'[p] = label /\ report'[p] = found
      /\ call'[p] = Call("sent", r, 1, None)
      /\ wire'[p] = IF r.method = "GET" THEN wire[p] ELSE {Message(r, 1)}

Ended(p) ==
    /\ pc'[p] = "end" /\ call'[p] = NoCall /\ wire'[p] = wire[p]
    /\ report'[p] = report[p] \/ Has(p, "ok")

Turned(p) ==
    \E label :
      /\ Turns(p, label)
      /\ pc'[p] = label /\ call'[p] = call[p] /\ wire'[p] = {}

Answered(p) ==
    \E value :
      /\ call[p].state = "sent" /\ call[p].request.method = "GET"
      /\ call'[p] = Call("done", call[p].request, call[p].attempt,
                         [status |-> "ok", value |-> value])
      /\ Tells(p, call[p].request.path, value)
      /\ pc'[p] = pc[p] /\ report'[p] = report[p] /\ wire'[p] = wire[p]

\* A request was not answered, or not usefully; perhaps it is sent again.
Failed(p) ==
    /\ call[p].state = "sent" /\ call'[p].request = call[p].request /\ ~Has(p, "ok")'
    /\ pc'[p] = pc[p] /\ report'[p] = report[p] /\ wire'[p] \subseteq wire[p]

Taken(p) ==
    /\ wire[p] # {} /\ wire'[p] = {}
    /\ pc'[p] = pc[p] /\ report'[p] = report[p]

Moves(p) ==
    \/ Same(p) \/ Sent(p) \/ Ended(p) \/ Turned(p) \/ Answered(p) \/ Failed(p)
    \/ Taken(p)

LEMMA Grows ==
    ASSUME StepInv, [Next]_vars
    PROVE  /\ cmd' = cmd /\ disturbed \subseteq disturbed'
           /\ \A q \in Proc : created[q] \subseteq created'[q]
<1>1. \A q \in Proc : created[q] \subseteq created'[q]
  BY CreatedGrows
<1>2. ASSUME NEW p \in Proc, Acts(p) PROVE cmd' = cmd /\ disturbed' = disturbed
  BY <1>2 DEF Acts, Sends, AskWith, Ends, Succeeds, Succeed, Exit, Turns
<1>3. ASSUME NEW p \in Proc, ApiKinds(p) PROVE cmd' = cmd /\ disturbed \subseteq disturbed'
  BY <1>3 DEF ApiKinds, AnswerGroups, MakeVolume, DropVolume, MakeGroup, ChangeGroup,
     DropGroup, AnswersOther, TakesOther, commandVars, progressVars
<1> QED BY <1>1, <1>2, <1>3, StepKinds DEF commandVars, progressVars

\* One process acts.
LEMMA ActsMove ==
    ASSUME StepInv, StepInv', NEW p \in Proc, Acts(p), NEW q \in Proc
    PROVE  Moves(q)
<1>1. \A x \in Proc : x \in DOMAIN call /\ x \in DOMAIN pc /\ x \in DOMAIN wire
                      /\ x \in DOMAIN report
  BY DEF StepInv, OnceInv, Domains, SteadyInv
<1>2. ASSUME NEW label, NEW r, NEW found, Sends(p, label, r, found) PROVE Moves(q)
  <2>1. /\ call' = [call EXCEPT ![p] = Call("sent", r, 1, None)]
        /\ pc' = [pc EXCEPT ![p] = label]
        /\ report' = [report EXCEPT ![p] = found]
        /\ wire' = OnWire(p, r, 1)
    BY <1>2 DEF Sends, AskWith, Send, Goto
  <2>2. CASE q # p
    BY <1>1, <2>1, <2>2 DEF Moves, Same, OnWire
  <2>3. CASE q = p
    <3>1. wire'[p] = IF r.method = "GET" THEN wire[p] ELSE {Message(r, 1)}
      <4>1. CASE r.method = "GET"
        BY <2>1, <4>1 DEF OnWire
      <4>2. CASE r.method # "GET"
        <5>1. wire'[p] = wire[p] \cup {Message(r, 1)}
          BY <1>1, <2>1, <4>2 DEF OnWire
        <5>2. \A m, n \in wire'[p] : m = n
          BY DEF StepInv, OnceInv, ChangeSentOnce
        <5> QED BY <4>2, <5>1, <5>2
      <4> QED BY <4>1, <4>2
    <3> QED BY <1>1, <1>2, <2>1, <2>3, <3>1 DEF Moves, Sent
  <2> QED BY <2>2, <2>3
<1>3. ASSUME NEW result, Exit(p, result), report' = report \/ Has(p, "ok"),
             \A x \in Proc \ {p} : report'[x] = report[x]
      PROVE  Moves(q)
  BY <1>1, <1>3 DEF Exit, Goto, Moves, Same, Ended
<1>4. CASE Ends(p)
  BY <1>3, <1>4 DEF Ends
<1>5. ASSUME NEW value, Succeeds(p, value) PROVE Moves(q)
  <2>1. /\ Exit(p, "ok") /\ Has(p, "ok")
        /\ report' = [report EXCEPT ![p] = value]
    BY <1>5 DEF Succeeds, Succeed
  <2>2. \A x \in Proc \ {p} : report'[x] = report[x]
    BY <2>1
  <2> QED BY <1>3, <2>1, <2>2
<1>6. ASSUME NEW label, Turns(p, label) PROVE Moves(q)
  <2>1. pc' = [pc EXCEPT ![p] = label] /\ call' = call /\ wire' = wire
    BY <1>6 DEF Turns, Goto, transportVars
  <2>2. wire[p] = {}
    BY <1>6 DEF Turns, StepInv, OnceInv, ChangeSentOnce
  <2>3. CASE q = p
    BY <1>1, <1>6, <2>1, <2>2, <2>3 DEF Moves, Turned
  <2>4. CASE q # p
    <3>1. report'[q] = report[q]
      <4>1. CASE report' = report
        BY <4>1
      <4>2. ASSUME NEW found, report' = [report EXCEPT ![p] = found]
            PROVE  report'[q] = report[q]
        BY <1>1, <2>4, <4>2
      <4> QED BY <1>6, <4>1, <4>2 DEF Turns
    <3> QED BY <1>1, <2>1, <2>4, <3>1 DEF Moves, Same
  <2> QED BY <2>3, <2>4
<1> QED BY <1>2, <1>4, <1>5, <1>6 DEF Acts

LEMMA TransportMoves ==
    ASSUME StepInv, NEW p \in Proc, TransportStep(p), UNCHANGED commandVars,
           NEW q \in Proc
    PROVE  Moves(q)
<1>1. UNCHANGED <<pc, report>>
  BY DEF commandVars, progressVars
<1>2. DOMAIN call = Proc /\ DOMAIN wire = Proc
  BY DEF StepInv, OnceInv, Domains
<1>3. ASSUME NEW status \in {"timeout", "failed"}, Finish(p, status, None),
             wire'[q] \subseteq wire[q], call[p].state = "sent"
      PROVE  Moves(q)
  BY <1>1, <1>2, <1>3 DEF Finish, Moves, Same, Failed, Call, Has
<1>4. CASE Refused(p)
  BY <1>2, <1>3, <1>4 DEF Refused
<1>5. ASSUME NEW status \in {"timeout", "failed"}, AttemptFails(p, status) PROVE Moves(q)
  <2>1. CASE Finish(p, status, None) /\ UNCHANGED wire
    BY <1>3, <1>5, <2>1 DEF AttemptFails
  <2>2. CASE call[p].attempt < MaxAttempts(call[p].request.method)
    <3>1. call[p].request.method = "GET"
      BY <1>5, <2>2 DEF AttemptFails, MaxAttempts, StepInv, SteadyInv, Steady
    <3>2. /\ call' = [call EXCEPT ![p] = Call("sent", @.request, @.attempt + 1, None)]
          /\ wire' = wire
      BY <1>5, <2>2, <3>1 DEF AttemptFails, OnWire
    <3> QED BY <1>1, <1>2, <1>5, <3>2 DEF AttemptFails, Moves, Same, Failed, Call, Has
  <2> QED BY <1>5, <2>1, <2>2 DEF AttemptFails
<1> QED BY <1>4, <1>5 DEF TransportStep

\* The API takes a change, for which the process still waits or not.
LEMMA TakeMoves ==
    ASSUME StepInv, NEW p \in Proc, NEW m, NEW value, Take(p, m, value),
           UNCHANGED progressVars
    PROVE  Taken(p) /\ \A q \in Proc \ {p} : Same(q)
<1>1. m \in wire[p] /\ wire' = [wire EXCEPT ![p] = @ \ {m}]
  BY DEF Take
<1>2. wire[p] # {} /\ wire'[p] = {} /\ \A q \in Proc \ {p} : wire'[q] = wire[q]
  BY <1>1 DEF StepInv, OnceInv, Domains, ChangeSentOnce
<1>3. \A q \in Proc \ {p} : call'[q] = call[q]
  BY DEF Take, Finish, StepInv, OnceInv, Domains
<1> QED BY <1>2, <1>3 DEF Taken, Same, progressVars

LEMMA AnswerMoves ==
    ASSUME StepInv, NEW p \in Proc, NEW path, NEW value, AnswerGet(p, path, value),
           Tells(p, path, value), UNCHANGED commandVars, NEW q \in Proc
    PROVE  Moves(q)
<1>1. /\ call[p].state = "sent" /\ call[p].request.path = path
      /\ call[p].request.method = "GET" /\ wire' = wire
      /\ call' = [call EXCEPT ![p] = Call("done", @.request, @.attempt,
                                          [status |-> "ok", value |-> value])]
  BY DEF AnswerGet, Waits, Finish
<1>2. UNCHANGED <<pc, report>>
  BY DEF commandVars, progressVars
<1> QED BY <1>1, <1>2 DEF Moves, Same, Answered, StepInv, OnceInv, Domains

LEMMA ApiMoves ==
    ASSUME StepInv, NEW p \in Proc, ApiKinds(p), NEW q \in Proc
    PROVE  Moves(q)
<1>1. ASSUME NEW m, NEW value, Take(p, m, value), UNCHANGED progressVars
      PROVE  Moves(q)
  BY <1>1, TakeMoves DEF Moves
<1>2. CASE AnswerVolumes(p) /\ UNCHANGED <<commandVars, volumes, groups>>
  <2>1. PICK value : AnswerGet(p, "volumes", value)
    BY <1>2 DEF AnswerVolumes, AnswerWhole, AnswerPage
  <2>2. Tells(p, "volumes", value)
    BY DEF Tells
  <2> QED BY <1>2, <2>1, <2>2, AnswerMoves
<1>3. CASE AnswerGroups(p)
  <2>1. AnswerGet(p, "groups", groups) /\ Tells(p, "groups", groups)
    BY <1>3 DEF AnswerGroups, Tells
  <2> QED BY <1>3, <2>1, AnswerMoves DEF AnswerGroups
<1>4. CASE MakeVolume(p) \/ DropVolume(p)
  BY <1>1, <1>4 DEF MakeVolume, DropVolume
<1>5. CASE MakeGroup(p) \/ ChangeGroup(p) \/ DropGroup(p)
  BY <1>1, <1>5 DEF MakeGroup, ChangeGroup, DropGroup, commandVars
<1>6. CASE AnswersOther(p)
  BY <1>6, AnswerMoves DEF AnswersOther
<1>7. CASE TakesOther(p)
  BY <1>1, <1>7 DEF TakesOther
<1> QED BY <1>2, <1>3, <1>4, <1>5, <1>6, <1>7 DEF ApiKinds

-----------------------------------------------------------------------------
(* What a command has read, and what of it still holds.                    *)

\* The id was given at first or to something that was made: not to be given again.
Was(id, first) == id \in first \/ \E q \in Proc : id \in created[q]

NodesHeld ==
    \A n \in DOMAIN nodes :
      /\ Was(n, DOMAIN OldNodes) /\ n \in DOMAIN OldNodes \cup NewNodes
      /\ "attached" \in DOMAIN nodes[n] /\ "groups" \in DOMAIN nodes[n].attached
      /\ IsFiniteSet(GroupsOf(n))

ClustersHeld ==
    \A c \in DOMAIN clusters :
      Was(c, DOMAIN OldClusters) /\ {"engine", "password"} \subseteq DOMAIN clusters[c]

AccountHeld == cmd \in Workloads /\ GroupsInv /\ NodesHeld /\ ClustersHeld

\* The group has this description, unless another update came between.
DescriptionStands(p, text) ==
    /\ Was(cmd[p].target, {g.id : g \in OldGroups})
    /\ p \in disturbed
         \/ \A g \in groups : g.id = cmd[p].target => g.description = text

\* The node has as many groups, unless somebody else detached some.
CountStands(p, count) ==
    count \in Nat /\ ( p \in disturbed
         \/ \A n \in DOMAIN nodes \cap {cmd[p].node} : count <= Cardinality(GroupsOf(n)))

DetailsStand(p, details) ==
    /\ Was(cmd[p].node, DOMAIN OldNodes)
    /\ cmd[p].node \in DOMAIN OldNodes \cup NewNodes
    /\ details.vm \in {None, VmOf[cmd[p].node]}
    /\ DetachesGroups(cmd[p]) /\ details.count # None => CountStands(p, details.count)

\* The engine of a cluster never changes.
TypeStands(p, type) ==
    /\ Was(cmd[p].target, DOMAIN OldClusters)
    /\ \A c \in DOMAIN clusters \cap {cmd[p].target} : TypeOf(clusters[c]) = type

\* An engine, and a plan of that engine, as the command line says.
IsEngine(line, e) ==
    /\ e \in Engines /\ e.type \in Supported
    /\ e.type = line.type /\ e.version = line.version

IsPlan(line, engine, plan) ==
    \E e \in Engines :
      /\ IsEngine(line, e) /\ e.id = engine
      /\ \E t \in PlansOf[e.id] : t.id = plan /\ t.name = line.plan

\* What the answer says that an order will depend on.
Informed(p) ==
    /\ pc[p] = "group-read" =>
         /\ call[p].request.path = "group"
         /\ Has(p, "ok") => DescriptionStands(p, Value(p))
    /\ pc[p] \in {"node-read", "node-confirm"} =>
         /\ call[p].request = Request("GET", "node", cmd[p].node)
         /\ Has(p, "ok") => DetailsStand(p, Value(p))
    /\ pc[p] = "node-confirm" => Has(p, "ok") /\ HasAddress(Value(p), cmd[p])
    /\ pc[p] = "db-engines" =>
         /\ call[p].request.path = "engines"
         /\ Has(p, "ok") => Value(p) = Engines
    /\ pc[p] = "db-plans" =>
         \E e \in Engines :
           /\ IsEngine(cmd[p], e) /\ report[p] = e.id
           /\ call[p].request = Request("GET", "plans", e.id)
           /\ Has(p, "ok") => Value(p) \subseteq PlansOf[e.id]
    /\ pc[p] = "db-vpc" =>
         /\ IsPlan(cmd[p], report[p].engine, report[p].plan) /\ cmd[p].vpc # None
         /\ call[p].request = Request("GET", "vpc", cmd[p].vpc)
         /\ Has(p, "ok") => Value(p) = cmd[p].vpc
    /\ pc[p] \in {"db-read", "db-confirm"} =>
         /\ call[p].request = Request("GET", "cluster", cmd[p].target)
         /\ Has(p, "ok") => TypeStands(p, Value(p).type)
    /\ pc[p] = "db-confirm" => Has(p, "ok") /\ MayTouch(Value(p), cmd[p])

\* The command waits for its change, or has given up.
Unanswered(p) ==
    \/ pc[p] = "change" /\ ~Has(p, "ok")
    \/ pc[p] = "end" /\ call[p].state = "none"

\* An order that is under way is what the command line and the answers say.
GroupWarranted(p, r) ==
    r.path = "group" /\ r.method = "PUT" =>
      /\ cmd[p].op = "group-update"
      /\ r.arg = Body(cmd[p], r.arg.description)
      /\ \/ r.arg.description = cmd[p].description
         \/ cmd[p].description = None /\ DescriptionStands(p, r.arg.description)

NodeWarranted(p, r) ==
    /\ r.path = "node" /\ r.method # "DELETE" =>
         /\ r.arg = NodeChange(cmd[p].node, cmd[p])
         /\ cmd[p].op \in {"node-attach", "node-detach", "node-power", "node-upgrade"}
         /\ ~DetachesGroups(cmd[p])
    /\ r.path \in {"vm", "address"} =>
         cmd[p].op \in NodeOps /\ Unanswered(p) /\ DetailsStand(p, report[p])
    /\ r.path = "vm" =>
         /\ cmd[p].op \in {"node-attach", "node-detach"}
         /\ Permits(report[p], cmd[p]) /\ r.arg = NodeChange(report[p].vm, cmd[p])
    /\ r.path = "address" =>
         /\ cmd[p].op \in TakesGiven \cup TakesCurrent /\ HasAddress(report[p], cmd[p])
         /\ r.arg = [op |-> cmd[p].op, vm |-> report[p].vm,
                     ip |-> IF cmd[p].op \in TakesGiven THEN cmd[p].items
                            ELSE report[p].ip]
    /\ r.path = "nodes" =>
         cmd[p].op = "node-create" /\ IsCreatable(cmd[p]) /\ r.arg = NodeBody(cmd[p])

ClusterWarranted(p, r) ==
    /\ r.path = "clusters" =>
         /\ cmd[p].op = "db-create" /\ IsClusterOrder(cmd[p])
         /\ IsPlan(cmd[p], r.arg.engine, r.arg.plan)
         /\ r.arg = Ordered(cmd[p], r.arg.engine, r.arg.plan,
                            IF cmd[p].vpc = None THEN {}
                            ELSE {VpcEntry(cmd[p].vpc, cmd[p].subnet)})
    /\ r.path = "cluster" =>
         /\ r.arg.id = cmd[p].target /\ r.arg.op = cmd[p].op
         /\ r.method = "DELETE" <=> cmd[p].op = "db-delete"
         /\ cmd[p].op \in Guarded \cup Direct \cup {"db-vpc-attach", "db-vpc-detach"}
         /\ cmd[p].op \in Guarded => \E type \in Supported : TypeStands(p, type)

Warranted(p) ==
    \A m \in wire[p] :
      GroupWarranted(p, m.request) /\ NodeWarranted(p, m.request)
        /\ ClusterWarranted(p, m.request)

ChangeInv == AccountHeld /\ \A p \in Proc : Informed(p) /\ Warranted(p)

-----------------------------------------------------------------------------
(* What still holds after a step.                                          *)

TextStays(q) == \A text : DescriptionStands(q, text) => DescriptionStands(q, text)'

DetailsStay(q) == \A details : DetailsStand(q, details) => DetailsStand(q, details)'

TypeStays(q) == \A type : TypeStands(q, type) => TypeStands(q, type)'

\* Of what has been read, and is not taken for stale.
Still(q) ==
    /\ cmd[q].op = "group-update" /\ pc[q] # "idle" => TextStays(q)
    /\ ~DetachesGroups(cmd[q]) \/ NodeRead(q) \/ pc[q] \in {"change", "end"} =>
         DetailsStay(q)
    /\ TypeStays(q)

LEMMA WasGrows ==
    ASSUME StepInv, [Next]_vars, NEW id, NEW first, Was(id, first)
    PROVE  Was(id, first)'
BY Grows DEF Was

LEMMA TextKept ==
    ASSUME StepInv, [Next]_vars, NEW q \in Proc,
           \/ q \in disturbed'
           \/ Was(cmd[q].target, {g.id : g \in OldGroups}) =>
                \A g \in groups' : g.id = cmd[q].target => g \in groups
    PROVE  TextStays(q)
<1> SUFFICES ASSUME NEW text, DescriptionStands(q, text) PROVE DescriptionStands(q, text)'
  BY DEF TextStays
<1>1. cmd' = cmd /\ disturbed \subseteq disturbed'
  BY Grows
<1>2. Was(cmd[q].target, {g.id : g \in OldGroups})'
  BY <1>1, WasGrows DEF DescriptionStands
<1> QED BY <1>1, <1>2 DEF DescriptionStands

LEMMA DetailsKept ==
    ASSUME StepInv, [Next]_vars, NEW q \in Proc,
           \/ q \in disturbed' \/ ~DetachesGroups(cmd[q])
           \/ Was(cmd[q].node, DOMAIN OldNodes) =>
                \A n \in DOMAIN nodes' \cap {cmd[q].node} :
                  /\ n \in DOMAIN nodes
                  /\ Cardinality(GroupsOf(n)) <= Cardinality(GroupsOf(n))'
                  /\ Cardinality(GroupsOf(n)) \in Nat /\ Cardinality(GroupsOf(n))' \in Nat
    PROVE  DetailsStay(q)
<1> SUFFICES ASSUME NEW details, DetailsStand(q, details) PROVE DetailsStand(q, details)'
  BY DEF DetailsStay
<1>1. cmd' = cmd /\ disturbed \subseteq disturbed'
  BY Grows
<1>2. Was(cmd[q].node, DOMAIN OldNodes) /\ Was(cmd[q].node, DOMAIN OldNodes)'
  BY <1>1, WasGrows DEF DetailsStand
<1>3. ASSUME CountStands(q, details.count), DetachesGroups(cmd[q])
      PROVE  CountStands(q, details.count)'
  BY <1>1, <1>2, <1>3 DEF CountStands
<1> QED BY <1>1, <1>2, <1>3 DEF DetailsStand, DetachesGroups

LEMMA TypeByEngine ==
    ASSUME NEW c, NEW d, c.engine = d.engine
    PROVE  TypeOf(c) = TypeOf(d)
BY DEF TypeOf

LEMMA TypeKept ==
    ASSUME StepInv, [Next]_vars, NEW q \in Proc,
           Was(cmd[q].target, DOMAIN OldClusters) =>
             \A c \in DOMAIN clusters' \cap {cmd[q].target} :
               c \in DOMAIN clusters /\ clusters'[c].engine = clusters[c].engine
    PROVE  TypeStays(q)
<1> SUFFICES ASSUME NEW type, TypeStands(q, type) PROVE TypeStands(q, type)'
  BY DEF TypeStays
<1>1. cmd' = cmd
  BY Grows
<1>2. Was(cmd[q].target, DOMAIN OldClusters)'
  BY <1>1, WasGrows DEF TypeStands
<1>3. \A c \in DOMAIN clusters' \cap {cmd[q].target} : TypeOf(clusters'[c]) = type
  BY TypeByEngine DEF TypeStands
<1> QED BY <1>1, <1>2, <1>3 DEF TypeStands

LEMMA TextKeptAlone ==
    ASSUME StepInv, [Next]_vars, NEW q \in Proc, UNCHANGED groups
    PROVE  TextStays(q)
BY TextKept

LEMMA DetailsKeptAlone ==
    ASSUME StepInv, [Next]_vars, NodesHeld, NEW q \in Proc, UNCHANGED nodes
    PROVE  DetailsStay(q)
<1>1. \A n \in DOMAIN nodes : /\ GroupsOf(n)' = GroupsOf(n)
                              /\ Cardinality(GroupsOf(n)) \in Nat
  BY FS_CardinalityType DEF GroupsOf, NodesHeld
<1> QED BY <1>1, DetailsKept

LEMMA TypeKeptAlone ==
    ASSUME StepInv, [Next]_vars, NEW q \in Proc, UNCHANGED clusters
    PROVE  TypeStays(q)
BY TypeKept

-----------------------------------------------------------------------------
(* Changes of security groups.                                             *)

GroupChanges(p) == MakeGroup(p) \/ ChangeGroup(p) \/ DropGroup(p)

LEMMA TextStill ==
    ASSUME StepInv, [Next]_vars, NEW p \in Proc, GroupChanges(p), UNCHANGED <<nodes, clusters>>,
           NEW q \in Proc \ {p}, cmd[q].op = "group-update", pc[q] # "idle"
    PROVE  TextStays(q)
<1>1. CASE MakeGroup(p)
  <2>1. PICK m \in wire[p], id \in NewGroupIds :
          /\ groups' = groups \cup {Group(id, m.request.arg)}
          /\ \A x \in Proc : id \notin created[x]
    BY <1>1 DEF MakeGroup
  <2>2. ~Was(id, {g.id : g \in OldGroups})
    BY <2>1, GroupsAssumption DEF Was
  <2>3. Group(id, m.request.arg).id = id
    BY DEF Group
  <2> QED BY <2>1, <2>2, <2>3, TextKept
<1>2. CASE ChangeGroup(p)
  <2>1. q \in disturbed'
    BY <1>2 DEF ChangeGroup
  <2> QED BY <2>1, TextKept
<1>3. CASE DropGroup(p)
  <2>1. groups' \subseteq groups
    BY <1>3 DEF DropGroup, OtherGroups
  <2> QED BY <2>1, TextKept
<1> QED BY <1>1, <1>2, <1>3 DEF GroupChanges

LEMMA GroupsStill ==
    ASSUME StepInv, [Next]_vars, NodesHeld, NEW p \in Proc, GroupChanges(p),
           UNCHANGED <<nodes, clusters>>, NEW q \in Proc \ {p}
    PROVE  Still(q)
BY TextStill, DetailsKeptAlone, TypeKeptAlone DEF Still

-----------------------------------------------------------------------------
(* Changes of clusters.                                                    *)

ClusterChanges(p) == ApplyToCluster(p) \/ DropCluster(p) \/ MakeCluster(p)

\* What a change of a cluster may be.
LEMMA ClusterChanged ==
    ASSUME StepInv, ClustersHeld, NEW p \in Proc, Warranted(p), ApplyToCluster(p)
    PROVE  /\ cmd[p].target \in DOMAIN clusters
           /\ cmd[p].op \in Direct \cup {"db-vpc-attach", "db-vpc-detach", "db-reset"}
           /\ \E value :
                clusters' = [clusters EXCEPT ![cmd[p].target] =
                               ClusterAfter(@, [id |-> cmd[p].target, op |-> cmd[p].op,
                                                value |-> value])]
           /\ cmd[p].op \in Guarded => \E type \in Supported : TypeStands(p, type)
<1>1. PICK m \in wire[p] :
         /\ m.request.path = "cluster" /\ m.request.method = "PUT"
         /\ m.request.arg.id \in DOMAIN clusters
         /\ clusters' = [clusters EXCEPT ![m.request.arg.id] =
                            ClusterAfter(@, m.request.arg)]
  BY DEF ApplyToCluster
<1>2. ClusterWarranted(p, m.request)
  BY DEF Warranted
<1>3. /\ m.request.arg.id = cmd[p].target /\ m.request.arg.op = cmd[p].op
      /\ cmd[p].op \in Direct \cup {"db-vpc-attach", "db-vpc-detach", "db-reset"}
      /\ cmd[p].op \in Guarded => \E type \in Supported : TypeStands(p, type)
  BY <1>1, <1>2 DEF ClusterWarranted, Guarded
<1>4. \A c : ClusterAfter(c, m.request.arg)
               = ClusterAfter(c, [id |-> cmd[p].target, op |-> cmd[p].op,
                                  value |-> m.request.arg.value])
  BY <1>3 DEF ClusterAfter, Direct
<1> QED BY <1>1, <1>3, <1>4

LEMMA ClusterAfterChange ==
    ASSUME NEW c, "engine" \in DOMAIN c, "password" \in DOMAIN c, NEW change,
           change.op \in Direct \cup {"db-vpc-attach", "db-vpc-detach", "db-reset"}
    PROVE  /\ ClusterAfter(c, change).engine = c.engine
           /\ {"engine", "password"} \subseteq DOMAIN ClusterAfter(c, change)
           /\ change.op # "db-reset" => ClusterAfter(c, change).password = c.password
BY DEF ClusterAfter, Direct

LEMMA ClusterMadeNew ==
    ASSUME StepInv, StepInv', ClustersHeld, NEW p \in Proc, Warranted(p), MakeCluster(p)
    PROVE  \E id \in NewClusters :
             /\ id \notin DOMAIN clusters /\ ~Was(id, DOMAIN OldClusters)
             /\ created'[p] = {id}
             /\ \E m \in wire[p] :
                  /\ m.request.path = "clusters"
                  /\ clusters' = [k \in DOMAIN clusters \cup {id} |->
                                    IF k = id THEN m.request.arg ELSE clusters[k]]
<1>1. PICK m \in wire[p], id \in NewClusters :
         /\ m.request.path = "clusters"
         /\ \A q \in Proc : id \notin created[q]
         /\ clusters' = [k \in DOMAIN clusters \cup {id} |->
                           IF k = id THEN m.request.arg ELSE clusters[k]]
         /\ created' = [created EXCEPT ![p] = @ \cup {id}]
  BY DEF MakeCluster
<1>2. ~Was(id, DOMAIN OldClusters)
  BY <1>1, ClustersAssumption DEF Was
<1>3. created'[p] = {id}
  BY <1>1 DEF StepInv, OnceInv, Domains, ChangeSentOnce
<1> QED BY <1>1, <1>2, <1>3 DEF ClustersHeld

LEMMA ClustersStayHeld ==
    ASSUME StepInv, StepInv', [Next]_vars, ClustersHeld, NEW p \in Proc, Warranted(p),
           ClusterChanges(p)
    PROVE  ClustersHeld'
<1>1. \A c \in DOMAIN clusters : Was(c, DOMAIN OldClusters)'
  BY WasGrows DEF ClustersHeld
<1>2. CASE ApplyToCluster(p)
  <2>1. PICK value :
          clusters' = [clusters EXCEPT ![cmd[p].target] =
                         ClusterAfter(@, [id |-> cmd[p].target, op |-> cmd[p].op,
                                          value |-> value])]
    BY <1>2, ClusterChanged
  <2>2. cmd[p].op \in Direct \cup {"db-vpc-attach", "db-vpc-detach", "db-reset"}
    BY <1>2, ClusterChanged
  <2> QED BY <1>1, <2>1, <2>2, ClusterAfterChange DEF ClustersHeld
<1>3. CASE DropCluster(p)
  <2>1. PICK id : clusters' = [k \in DOMAIN clusters \ {id} |-> clusters[k]]
    BY <1>3 DEF DropCluster
  <2> QED BY <1>1, <2>1 DEF ClustersHeld
<1>4. CASE MakeCluster(p)
  <2>1. PICK id \in NewClusters :
          /\ created'[p] = {id}
          /\ \E m \in wire[p] :
               /\ m.request.path = "clusters"
               /\ clusters' = [k \in DOMAIN clusters \cup {id} |->
                                 IF k = id THEN m.request.arg ELSE clusters[k]]
    BY <1>4, ClusterMadeNew
  <2>2. PICK m \in wire[p] :
          /\ m.request.path = "clusters"
          /\ clusters' = [k \in DOMAIN clusters \cup {id} |->
                            IF k = id THEN m.request.arg ELSE clusters[k]]
    BY <2>1
  <2>3. {"engine", "password"} \subseteq DOMAIN m.request.arg
    <3>1. ClusterWarranted(p, m.request)
      BY DEF Warranted
    <3>2. \E engine, plan, nets : m.request.arg = Ordered(cmd[p], engine, plan, nets)
      BY <2>2, <3>1 DEF ClusterWarranted
    <3> QED BY <3>2 DEF Ordered, Cluster
  <2>4. Was(id, DOMAIN OldClusters)'
    BY <2>1 DEF Was
  <2> QED BY <1>1, <2>2, <2>3, <2>4 DEF ClustersHeld
<1> QED BY <1>2, <1>3, <1>4 DEF ClusterChanges

LEMMA TypesStill ==
    ASSUME StepInv, StepInv', [Next]_vars, ClustersHeld, NEW p \in Proc, Warranted(p),
           ClusterChanges(p), NEW q \in Proc
    PROVE  TypeStays(q)
<1>1. CASE ApplyToCluster(p)
  <2>1. PICK value :
          clusters' = [clusters EXCEPT ![cmd[p].target] =
                         ClusterAfter(@, [id |-> cmd[p].target, op |-> cmd[p].op,
                                          value |-> value])]
    BY <1>1, ClusterChanged
  <2>2. cmd[p].op \in Direct \cup {"db-vpc-attach", "db-vpc-detach", "db-reset"}
    BY <1>1, ClusterChanged
  <2>3. \A c \in DOMAIN clusters' :
          c \in DOMAIN clusters /\ clusters'[c].engine = clusters[c].engine
    BY <2>1, <2>2, ClusterAfterChange DEF ClustersHeld
  <2> QED BY <2>3, TypeKept
<1>2. CASE DropCluster(p)
  <2>1. PICK id : clusters' = [k \in DOMAIN clusters \ {id} |-> clusters[k]]
    BY <1>2 DEF DropCluster
  <2> QED BY <2>1, TypeKept
<1>3. CASE MakeCluster(p)
  <2>1. PICK id \in NewClusters :
          /\ ~Was(id, DOMAIN OldClusters)
          /\ \E m \in wire[p] :
               clusters' = [k \in DOMAIN clusters \cup {id} |->
                              IF k = id THEN m.request.arg ELSE clusters[k]]
    BY <1>3, ClusterMadeNew
  <2>2. \A c \in DOMAIN clusters' \ {id} :
          c \in DOMAIN clusters /\ clusters'[c] = clusters[c]
    BY <2>1
  <2> QED BY <2>1, <2>2, TypeKept
<1> QED BY <1>1, <1>2, <1>3 DEF ClusterChanges

LEMMA ClustersStill ==
    ASSUME StepInv, StepInv', [Next]_vars, NodesHeld, ClustersHeld, NEW p \in Proc,
           Warranted(p), ClusterChanges(p), UNCHANGED <<groups, nodes>>, NEW q \in Proc
    PROVE  Still(q)
BY TextKeptAlone, DetailsKeptAlone, TypesStill DEF Still

-----------------------------------------------------------------------------
(* Changes of nodes.                                                       *)

NodeChanges(p) == ApplyToNode(p) \/ MakeNode(p) \/ ApplyToAddress(p) \/ DropNode(p)

\* A VM stands for one node, which is the one that the command line names.
LEMMA OneNode ==
    ASSUME NodesHeld, NEW p \in Proc, DetailsStand(p, report[p]), report[p].vm # None,
           NEW n \in DOMAIN nodes, VmOf[n] = report[p].vm
    PROVE  n = cmd[p].node
BY NodesAssumption DEF DetailsStand, NodesHeld

NodeChangers == {"node-attach", "node-detach", "node-power", "node-upgrade"}

LEMMA AfterByLine ==
    ASSUME NEW line, line.op \in NodeChangers, NEW id, NEW n, NEW node
    PROVE  After(node, NodeChange(id, line)) = After(node, NodeChange(n, line))
BY DEF After, NodeChange, NodeChangers

\* What a change of a node may be.
LEMMA NodeChanged ==
    ASSUME NodesHeld, NEW p \in Proc, Warranted(p), ApplyToNode(p)
    PROVE  LET n == cmd[p].node IN
           /\ n \in DOMAIN nodes /\ wire[p] # {} /\ cmd[p].op \in NodeChangers
           /\ nodes' = [nodes EXCEPT ![n] = After(@, NodeChange(n, cmd[p]))]
           /\ DetachesGroups(cmd[p]) =>
                /\ disturbed' = disturbed \cup (Counting(n) \ {p})
                /\ Permits(report[p], cmd[p]) /\ DetailsStand(p, report[p])
<1>1. PICK m \in wire[p] :
         /\ m.request.path \in {"node", "vm"} /\ m.request.method # "DELETE"
         /\ \E n \in Named(m.request) :
              /\ nodes' = [nodes EXCEPT ![n] = After(@, m.request.arg)]
              /\ disturbed' = IF DetachesGroups(m.request.arg)
                              THEN disturbed \cup (Counting(n) \ {p})
                              ELSE disturbed
  BY DEF ApplyToNode
<1>2. PICK n \in Named(m.request) :
         /\ nodes' = [nodes EXCEPT ![n] = After(@, m.request.arg)]
         /\ disturbed' = IF DetachesGroups(m.request.arg)
                         THEN disturbed \cup (Counting(n) \ {p})
                         ELSE disturbed
  BY <1>1
<1>3. NodeWarranted(p, m.request)
  BY DEF Warranted
<1>4. CASE m.request.path = "node"
  <2>1. /\ m.request.arg = NodeChange(cmd[p].node, cmd[p])
        /\ cmd[p].op \in NodeChangers /\ ~DetachesGroups(cmd[p])
    BY <1>1, <1>3, <1>4 DEF NodeWarranted, NodeChangers
  <2>2. n \in DOMAIN nodes /\ n = cmd[p].node
    BY <1>4, <2>1 DEF Named, NodeChange
  <2> QED BY <1>2, <2>1, <2>2
<1>5. CASE m.request.path = "vm"
  <2>1. /\ m.request.arg = NodeChange(report[p].vm, cmd[p])
        /\ cmd[p].op \in NodeChangers
        /\ DetailsStand(p, report[p]) /\ Permits(report[p], cmd[p])
    BY <1>3, <1>5 DEF NodeWarranted, NodeChangers
  <2>2. n \in DOMAIN nodes /\ VmOf[n] = report[p].vm /\ report[p].vm # None
    BY <1>5, <2>1 DEF Named, NodeChange, Permits
  <2>3. n = cmd[p].node
    BY <2>1, <2>2, OneNode
  <2>4. \A node : After(node, m.request.arg) = After(node, NodeChange(n, cmd[p]))
    BY <2>1, AfterByLine
  <2>5. DetachesGroups(m.request.arg) <=> DetachesGroups(cmd[p])
    BY <2>1 DEF DetachesGroups, NodeChange
  <2> QED BY <1>2, <2>1, <2>2, <2>3, <2>4, <2>5
<1> QED BY <1>1, <1>4, <1>5

LEMMA AddressChanged ==
    ASSUME NodesHeld, NEW p \in Proc, Warranted(p), ApplyToAddress(p)
    PROVE  LET n == cmd[p].node
               ip == IF cmd[p].op \in TakesGiven THEN cmd[p].items ELSE report[p].ip
           IN
           /\ n \in DOMAIN nodes /\ cmd[p].op \in TakesGiven \cup TakesCurrent
           /\ cmd[p].op # "ip-attach" => ip = nodes[n].ip
           /\ nodes' = [nodes EXCEPT ![n] =
                          IF cmd[p].op = "ip-attach" THEN [@ EXCEPT !.ip = ip]
                          ELSE IF cmd[p].op = "ip-reserve" THEN @
                          ELSE [@ EXCEPT !.ip = None]]
<1>1. PICK m \in wire[p], n \in DOMAIN nodes :
         /\ m.request.path = "address" /\ m.request.arg.vm = VmOf[n]
         /\ IF m.request.arg.op = "ip-attach"
            THEN m.request.arg.ip \in ips /\ nodes[n].ip = None
            ELSE m.request.arg.ip = nodes[n].ip
         /\ nodes' = [nodes EXCEPT ![n] = AddressAfter(@, m.request.arg)]
  BY DEF ApplyToAddress
<1>2. NodeWarranted(p, m.request)
  BY DEF Warranted
<1>3. /\ cmd[p].op \in TakesGiven \cup TakesCurrent /\ HasAddress(report[p], cmd[p])
      /\ DetailsStand(p, report[p])
      /\ m.request.arg = [op |-> cmd[p].op, vm |-> report[p].vm,
                          ip |-> IF cmd[p].op \in TakesGiven THEN cmd[p].items
                                 ELSE report[p].ip]
  BY <1>1, <1>2 DEF NodeWarranted
<1>4. n = cmd[p].node
  BY <1>1, <1>3, OneNode DEF HasAddress
<1>5. AddressAfter(nodes[n], m.request.arg)
        = IF cmd[p].op = "ip-attach" THEN [nodes[n] EXCEPT !.ip = m.request.arg.ip]
          ELSE IF cmd[p].op = "ip-reserve" THEN nodes[n]
          ELSE [nodes[n] EXCEPT !.ip = None]
  BY <1>3 DEF AddressAfter, TakesGiven, TakesCurrent
<1> DEFINE ip == IF cmd[p].op \in TakesGiven THEN cmd[p].items ELSE report[p].ip
<1>6. m.request.arg.ip = ip /\ (cmd[p].op # "ip-attach" => ip = nodes[n].ip)
  BY <1>1, <1>3
<1>7. nodes' = [nodes EXCEPT ![n] =
                  IF cmd[p].op = "ip-attach" THEN [@ EXCEPT !.ip = ip]
                  ELSE IF cmd[p].op = "ip-reserve" THEN @
                  ELSE [@ EXCEPT !.ip = None]]
  BY <1>1, <1>5, <1>6
<1> QED BY <1>3, <1>4, <1>6, <1>7

LEMMA NodeMadeNew ==
    ASSUME StepInv, StepInv', NodesHeld, NEW p \in Proc, Warranted(p), MakeNode(p)
    PROVE  \E n \in NewNodes :
             /\ n \notin DOMAIN nodes /\ ~Was(n, DOMAIN OldNodes)
             /\ created'[p] = {n}
             /\ cmd[p].op = "node-create" /\ IsCreatable(cmd[p])
             /\ nodes' = [k \in DOMAIN nodes \cup {n} |->
                            IF k = n THEN NodeBody(cmd[p]) ELSE nodes[k]]
<1>1. PICK m \in wire[p], n \in NewNodes :
         /\ m.request.path = "nodes"
         /\ \A q \in Proc : n \notin created[q]
         /\ nodes' = [k \in DOMAIN nodes \cup {n} |->
                        IF k = n THEN m.request.arg ELSE nodes[k]]
         /\ created' = [created EXCEPT ![p] = @ \cup {n}]
  BY DEF MakeNode
<1>2. ~Was(n, DOMAIN OldNodes)
  BY <1>1, NodesAssumption DEF Was
<1>3. created'[p] = {n}
  BY <1>1 DEF StepInv, OnceInv, Domains, ChangeSentOnce
<1>4. /\ cmd[p].op = "node-create" /\ IsCreatable(cmd[p])
      /\ m.request.arg = NodeBody(cmd[p])
  BY <1>1 DEF Warranted, NodeWarranted
<1> QED BY <1>1, <1>2, <1>3, <1>4 DEF NodesHeld

\* Every node keeps its groups, but where the command attaches or detaches some.
LEMMA GroupsAfter ==
    ASSUME NEW node, "attached" \in DOMAIN node, "groups" \in DOMAIN node.attached,
           NEW line, line.op \in NodeChangers, NEW n
    PROVE  LET after == After(node, NodeChange(n, line)) IN
           /\ "attached" \in DOMAIN after /\ "groups" \in DOMAIN after.attached
           /\ after.attached["groups"] =
                IF line.kind = "groups" /\ line.op = "node-attach"
                THEN node.attached["groups"] \cup line.items
                ELSE IF DetachesGroups(line) THEN node.attached["groups"] \ line.items
                ELSE node.attached["groups"]
<1> DEFINE after == After(node, NodeChange(n, line))
<1>1. CASE line.op = "node-attach"
  <2>1. after = [node EXCEPT !.attached[line.kind] = @ \cup line.items]
    BY <1>1 DEF After, NodeChange
  <2> QED BY <1>1, <2>1 DEF DetachesGroups
<1>2. CASE line.op = "node-detach"
  <2>1. after = [node EXCEPT !.attached[line.kind] = @ \ line.items]
    BY <1>2 DEF After, NodeChange
  <2> QED BY <1>2, <2>1 DEF DetachesGroups
<1>3. CASE line.op = "node-power"
  BY <1>3 DEF After, NodeChange, DetachesGroups
<1>4. CASE line.op = "node-upgrade"
  BY <1>4 DEF After, NodeChange, DetachesGroups
<1> QED BY <1>1, <1>2, <1>3, <1>4 DEF NodeChangers

\* What becomes of the groups of the nodes.
LEMMA GroupsMoved ==
    ASSUME StepInv, StepInv', cmd \in Workloads, NodesHeld, NEW p \in Proc,
           Warranted(p), NodeChanges(p), NEW n \in DOMAIN nodes \cap DOMAIN nodes'
    PROVE  /\ "attached" \in DOMAIN nodes'[n] /\ "groups" \in DOMAIN nodes'[n].attached
           /\ IsFiniteSet(GroupsOf(n))'
           /\ \/ GroupsOf(n) \subseteq GroupsOf(n)'
              \/ /\ ApplyToNode(p) /\ n = cmd[p].node /\ DetachesGroups(cmd[p])
                 /\ GroupsOf(n)' = GroupsOf(n) \ cmd[p].items /\ IsFiniteSet(cmd[p].items)
<1>1. /\ "attached" \in DOMAIN nodes[n] /\ "groups" \in DOMAIN nodes[n].attached
      /\ IsFiniteSet(GroupsOf(n))
  BY DEF NodesHeld
<1>2. ASSUME nodes'[n] = nodes[n] \/ \E ip : nodes'[n] = [nodes[n] EXCEPT !.ip = ip]
      PROVE  /\ "attached" \in DOMAIN nodes'[n] /\ "groups" \in DOMAIN nodes'[n].attached
             /\ GroupsOf(n)' = GroupsOf(n)
  BY <1>1, <1>2 DEF GroupsOf
<1>3. CASE MakeNode(p)
  <2>1. nodes'[n] = nodes[n]
    BY <1>3, NodeMadeNew
  <2> QED BY <1>1, <1>2, <2>1
<1>4. CASE DropNode(p)
  <2>1. nodes'[n] = nodes[n]
    BY <1>4 DEF DropNode
  <2> QED BY <1>1, <1>2, <2>1
<1>5. CASE ApplyToAddress(p)
  <2> DEFINE ip == IF cmd[p].op \in TakesGiven THEN cmd[p].items ELSE report[p].ip
  <2>0. nodes' = [nodes EXCEPT ![cmd[p].node] =
                    IF cmd[p].op = "ip-attach" THEN [@ EXCEPT !.ip = ip]
                    ELSE IF cmd[p].op = "ip-reserve" THEN @
                    ELSE [@ EXCEPT !.ip = None]]
    BY <1>5, AddressChanged
  <2> HIDE DEF ip
  <2>1. nodes'[n] \in {nodes[n], [nodes[n] EXCEPT !.ip = ip], [nodes[n] EXCEPT !.ip = None]}
    BY <2>0
  <2> QED BY <1>1, <1>2, <2>1
<1>6. CASE ApplyToNode(p)
  <2>1. /\ cmd[p].op \in NodeChangers
        /\ nodes' = [nodes EXCEPT ![cmd[p].node] =
                       After(@, NodeChange(cmd[p].node, cmd[p]))]
    BY <1>6, NodeChanged
  <2>2. cmd[p].op \in {"node-attach", "node-detach"} => IsFiniteSet(cmd[p].items)
    BY NodeLinesAssumption
  <2>3. CASE n # cmd[p].node
    BY <1>1, <1>2, <2>1, <2>3
  <2>4. CASE n = cmd[p].node
    <3>1. nodes'[n] = After(nodes[n], NodeChange(n, cmd[p]))
      BY <2>1, <2>4
    <3>2. /\ "attached" \in DOMAIN nodes'[n] /\ "groups" \in DOMAIN nodes'[n].attached
          /\ GroupsOf(n)' =
               IF cmd[p].kind = "groups" /\ cmd[p].op = "node-attach"
               THEN GroupsOf(n) \cup cmd[p].items
               ELSE IF DetachesGroups(cmd[p]) THEN GroupsOf(n) \ cmd[p].items
               ELSE GroupsOf(n)
      <4> DEFINE after == After(nodes[n], NodeChange(n, cmd[p]))
      <4>1. /\ "attached" \in DOMAIN after /\ "groups" \in DOMAIN after.attached
            /\ after.attached["groups"] =
                 IF cmd[p].kind = "groups" /\ cmd[p].op = "node-attach"
                 THEN nodes[n].attached["groups"] \cup cmd[p].items
                 ELSE IF DetachesGroups(cmd[p])
                      THEN nodes[n].attached["groups"] \ cmd[p].items
                      ELSE nodes[n].attached["groups"]
        BY <1>1, <2>1, GroupsAfter
      <4> HIDE DEF after
      <4>2. nodes'[n] = after
        BY <3>1 DEF after
      <4> QED BY <4>1, <4>2 DEF GroupsOf
    <3>3. CASE DetachesGroups(cmd[p])
      <4>1. GroupsOf(n)' = GroupsOf(n) \ cmd[p].items
        BY <3>2, <3>3 DEF DetachesGroups
      <4> QED BY <1>1, <1>6, <2>2, <2>4, <3>2, <3>3, <4>1, FS_Subset DEF DetachesGroups
    <3>4. CASE ~DetachesGroups(cmd[p])
      <4>1. GroupsOf(n) \subseteq GroupsOf(n)'
        BY <3>2, <3>4
      <4>2. IsFiniteSet(GroupsOf(n))'
        BY <1>1, <2>2, <3>2, <3>4, FS_Union
      <4> QED BY <3>2, <4>1, <4>2
    <3> QED BY <3>3, <3>4
  <2> QED BY <2>3, <2>4
<1> QED BY <1>3, <1>4, <1>5, <1>6 DEF NodeChanges

LEMMA NewNode ==
    ASSUME NEW line
    PROVE  /\ "attached" \in DOMAIN NodeBody(line)
           /\ "groups" \in DOMAIN NodeBody(line).attached
           /\ NodeBody(line).attached["groups"] = {}
           /\ NodeBody(line).attached["keys"] = line.items
           /\ NodeBody(line).plan = line.plan /\ NodeBody(line).disk = line.disk
           /\ NodeBody(line).committed = line.committed
BY DEF NodeBody, Node, Kinds

\* Which nodes there are after a change.
LEMMA NodesThere ==
    ASSUME StepInv, StepInv', NodesHeld, NEW p \in Proc, Warranted(p), NodeChanges(p),
           NEW n \in DOMAIN nodes'
    PROVE  \/ n \in DOMAIN nodes
           \/ /\ MakeNode(p) /\ n \in NewNodes /\ nodes'[n] = NodeBody(cmd[p])
              /\ ~Was(n, DOMAIN OldNodes) /\ created'[p] = {n}
              /\ cmd[p].op = "node-create" /\ IsCreatable(cmd[p])
<1>1. CASE MakeNode(p)
  BY <1>1, NodeMadeNew
<1>2. CASE DropNode(p)
  BY <1>2 DEF DropNode
<1>3. CASE ApplyToAddress(p)
  BY <1>3, AddressChanged
<1>4. CASE ApplyToNode(p)
  BY <1>4, NodeChanged
<1> QED BY <1>1, <1>2, <1>3, <1>4 DEF NodeChanges

LEMMA NodesStayHeld ==
    ASSUME StepInv, StepInv', [Next]_vars, cmd \in Workloads, NodesHeld,
           NEW p \in Proc, Warranted(p), NodeChanges(p)
    PROVE  NodesHeld'
<1> SUFFICES ASSUME NEW n \in DOMAIN nodes'
             PROVE  /\ Was(n, DOMAIN OldNodes)' /\ n \in DOMAIN OldNodes \cup NewNodes
                    /\ "attached" \in DOMAIN nodes'[n]
                    /\ "groups" \in DOMAIN nodes'[n].attached
                    /\ IsFiniteSet(GroupsOf(n))'
  BY DEF NodesHeld
<1>1. CASE n \in DOMAIN nodes
  <2>1. Was(n, DOMAIN OldNodes)' /\ n \in DOMAIN OldNodes \cup NewNodes
    BY <1>1, WasGrows DEF NodesHeld
  <2> QED BY <1>1, <2>1, GroupsMoved
<1>2. CASE n \notin DOMAIN nodes
  <2>1. n \in NewNodes /\ nodes'[n] = NodeBody(cmd[p]) /\ created'[p] = {n}
    BY <1>2, NodesThere
  <2>2. GroupsOf(n)' = {}
    BY <2>1, NewNode DEF GroupsOf
  <2> QED BY <2>1, <2>2, NewNode, FS_EmptySet DEF Was
<1> QED BY <1>1, <1>2

LEMMA DetailsStill ==
    ASSUME StepInv, StepInv', [Next]_vars, cmd \in Workloads, NodesHeld,
           NEW p \in Proc, Warranted(p), NodeChanges(p), NEW q \in Proc \ {p},
           ~DetachesGroups(cmd[q]) \/ NodeRead(q) \/ pc[q] \in {"change", "end"}
    PROVE  DetailsStay(q)
<1>1. CASE q \in disturbed' \/ ~DetachesGroups(cmd[q])
  BY <1>1, DetailsKept
<1>2. CASE q \notin disturbed' /\ DetachesGroups(cmd[q])
  <2>1. ASSUME NEW n \in DOMAIN nodes' \cap {cmd[q].node}, Was(cmd[q].node, DOMAIN OldNodes)
        PROVE  /\ n \in DOMAIN nodes
               /\ Cardinality(GroupsOf(n)) <= Cardinality(GroupsOf(n))'
               /\ Cardinality(GroupsOf(n)) \in Nat /\ Cardinality(GroupsOf(n))' \in Nat
    <3>1. n \in DOMAIN nodes
      BY <2>1, NodesThere
    <3>2. GroupsOf(n) \subseteq GroupsOf(n)'
      <4>1. ASSUME ApplyToNode(p), n = cmd[p].node, DetachesGroups(cmd[p]) PROVE FALSE
        <5>1. disturbed' = disturbed \cup (Counting(n) \ {p})
          BY <4>1, NodeChanged
        <5>2. q \in Counting(n)
          BY <1>2, <2>1 DEF Counting
        <5> QED BY <1>2, <5>1, <5>2
      <4> QED BY <3>1, <4>1, GroupsMoved
    <3>3. IsFiniteSet(GroupsOf(n)) /\ IsFiniteSet(GroupsOf(n)')
      BY <3>1, GroupsMoved DEF NodesHeld
    <3> QED BY <3>1, <3>2, <3>3, FS_Subset, FS_CardinalityType
  <2> QED BY <2>1, DetailsKept
<1> QED BY <1>1, <1>2

LEMMA NodesStill ==
    ASSUME StepInv, StepInv', [Next]_vars, cmd \in Workloads, NodesHeld,
           NEW p \in Proc, Warranted(p), NodeChanges(p), UNCHANGED <<groups, clusters>>,
           NEW q \in Proc \ {p}
    PROVE  Still(q)
BY TextKeptAlone, DetailsStill, TypeKeptAlone DEF Still

-----------------------------------------------------------------------------
(* A step changes nothing, or one process has changed something.           *)

Changes(p) ==
    \/ GroupChanges(p) /\ UNCHANGED <<nodes, clusters>>
    \/ NodeChanges(p) /\ UNCHANGED <<groups, clusters>>
    \/ ClusterChanges(p) /\ UNCHANGED <<groups, nodes>>

Quietly == UNCHANGED <<groups, nodes, clusters>>

LEMMA ApiChanges ==
    ASSUME NEW p \in Proc, ApiStep(p)
    PROVE  Quietly \/ Changes(p)
<1>1. CASE GroupApi(p) /\ UNCHANGED <<volumes, nodeVars, databaseVars>>
  BY <1>1 DEF GroupApi, AnswerGroup, AnswerGroups, Changes, GroupChanges, Quietly,
     nodeVars, databaseVars
<1>2. CASE NodeApi(p) /\ UNCHANGED <<volumes, groups, ipVars, databaseVars>>
  BY <1>2 DEF NodeApi, AnswerNode, AnswerNodes, Changes, NodeChanges, Quietly,
     databaseVars
<1>3. CASE AddressApi(p) /\ UNCHANGED <<volumes, groups, databaseVars>>
  BY <1>3 DEF AddressApi, Changes, NodeChanges, databaseVars
<1>4. CASE DatabaseApi(p) /\ UNCHANGED <<volumes, groups, nodeVars, vpcs>>
  BY <1>4 DEF DatabaseApi, AnswerCluster, AnswerPart, AnswerEngines, AnswerPlansOf,
     Changes,
     ClusterChanges, Quietly, nodeVars
<1>5. CASE ListApi(p) /\ UNCHANGED <<groups, nodeVars>>
  BY <1>5 DEF ListApi, Quietly, nodeVars
<1>6. CASE \/ VolumeApi(p) /\ UNCHANGED <<groups, nodeVars, databaseVars>>
           \/ IpApi(p) /\ UNCHANGED <<volumes, groups, nodes, databaseVars>>
           \/ VpcApi(p) /\ UNCHANGED <<volumes, groups, nodeVars, clusters>>
           \/ UNCHANGED <<volumes, groups, nodeVars, databaseVars, balancers>>
           \/ BalancerApi(p) /\ UNCHANGED <<volumes, groups, nodes, inventory, databaseVars,
                                            itemVars, projects>>
  BY <1>6 DEF Quietly, nodeVars, databaseVars
<1> QED BY <1>1, <1>2, <1>3, <1>4, <1>5, <1>6 DEF ApiStep

LEMMA ChangesTake ==
    ASSUME NEW p \in Proc, Changes(p)
    PROVE  UNCHANGED progressVars /\ \E m, value : Take(p, m, value)
BY DEF Changes, GroupChanges, NodeChanges, ClusterChanges, MakeGroup, ChangeGroup,
   DropGroup,
   ApplyToNode, MakeNode, ApplyToAddress, DropNode, ApplyToCluster, DropCluster, MakeCluster,
   commandVars

LEMMA StepMoves ==
    ASSUME StepInv, StepInv', [Next]_vars
    PROVE  \/ Quietly /\ \A q \in Proc : Moves(q)
           \/ \E p \in Proc : Changes(p) /\ Taken(p) /\ \A q \in Proc \ {p} : Same(q)
<1>1. ASSUME NEW p \in Proc, Acts(p), UNCHANGED heldVars
      PROVE  Quietly /\ \A q \in Proc : Moves(q)
  BY <1>1, ActsMove DEF heldVars, Quietly, nodeVars, databaseVars
<1>2. ASSUME NEW p \in Proc, TransportStep(p), UNCHANGED <<commandVars, heldVars>>
      PROVE  Quietly /\ \A q \in Proc : Moves(q)
  BY <1>2, TransportMoves DEF heldVars, Quietly, nodeVars, databaseVars
<1>3. ASSUME NEW p \in Proc, ApiKinds(p), ApiStep(p)
      PROVE  \/ Quietly /\ \A q \in Proc : Moves(q)
             \/ Changes(p) /\ Taken(p) /\ \A q \in Proc \ {p} : Same(q)
  <2>1. CASE Quietly
    BY <1>3, <2>1, ApiMoves
  <2>2. CASE Changes(p)
    BY <2>2, ChangesTake, TakeMoves
  <2> QED BY <1>3, <2>1, <2>2, ApiChanges
<1>4. ASSUME NEW p \in Proc, Lose(p), UNCHANGED <<commandVars, heldVars>>
      PROVE  Quietly /\ \A q \in Proc : Moves(q)
  <2>1. \A q \in Proc : Same(q)
    BY <1>4 DEF Lose, Same, commandVars, progressVars, StepInv, OnceInv, Domains
  <2> QED BY <1>4, <2>1 DEF Moves, heldVars, Quietly, nodeVars, databaseVars
<1>5. ASSUME UNCHANGED <<transportVars, commandVars, volumes, groups, nodes, databaseVars>>
      PROVE  Quietly /\ \A q \in Proc : Moves(q)
  BY <1>5 DEF Moves, Same, Quietly, transportVars, commandVars, progressVars,
     databaseVars
<1> QED BY <1>1, <1>2, <1>3, <1>4, <1>5, StepKinds

-----------------------------------------------------------------------------
(* What a command has read stays true while it waits and asks.             *)

\* What the place of the command says of its command line.
LEMMA PlaceSays ==
    ASSUME StepInv, NEW q \in Proc, pc[q] \notin Quiet
    PROVE  OnCourse(cmd[q], pc[q]) /\ Expected(cmd[q], pc[q], call[q].request)
BY DEF StepInv, SteadyInv, Steady

LEMMA ReadingStill ==
    ASSUME StepInv, NEW q \in Proc, Still(q)
    PROVE  /\ pc[q] = "group-read" => TextStays(q)
           /\ NodeRead(q) => DetailsStay(q)
           /\ pc[q] = "node-confirm" => DetailsStay(q)
           /\ TypeStays(q)
<1>1. pc[q] = "group-read" => cmd[q].op = "group-update"
  BY PlaceSays DEF OnCourse, Quiet
<1>2. pc[q] = "node-confirm" => ~DetachesGroups(cmd[q])
  BY PlaceSays DEF OnCourse, Quiet, TakesGiven, TakesCurrent, DetachesGroups
<1> QED BY <1>1, <1>2 DEF Still

LEMMA InformedKept ==
    ASSUME StepInv, NEW q \in Proc, Still(q), Informed(q), cmd' = cmd,
           pc'[q] = pc[q], report'[q] = report[q],
           \/ call'[q] = call[q]
           \/ call[q].state = "sent" /\ call'[q].request = call[q].request /\ ~Has(q, "ok")'
    PROVE  Informed(q)'
<1>1. CASE call'[q] = call[q]
  <2>1. (Has(q, "ok")' <=> Has(q, "ok")) /\ Value(q)' = Value(q)
    BY <1>1 DEF Has, Value
  <2>2. pc[q] = "group-read" /\ Has(q, "ok") => DescriptionStands(q, Value(q))'
    BY <2>1, ReadingStill DEF Informed, TextStays
  <2>3. pc[q] \in {"node-read", "node-confirm"} /\ Has(q, "ok") => DetailsStand(q, Value(q))'
    BY <2>1, ReadingStill DEF Informed, DetailsStay, NodeRead
  <2>4. pc[q] \in {"db-read", "db-confirm"} /\ Has(q, "ok") => TypeStands(q, Value(q).type)'
    BY <2>1, ReadingStill DEF Informed, TypeStays
  <2> QED BY <1>1, <2>1, <2>2, <2>3, <2>4 DEF Informed
<1>2. CASE call[q].state = "sent" /\ call'[q].request = call[q].request /\ ~Has(q, "ok")'
  <2>1. ~Has(q, "ok")
    BY <1>2 DEF Has
  <2> QED BY <1>2, <2>1 DEF Informed
<1> QED BY <1>1, <1>2

LEMMA InformedAnswered ==
    ASSUME StepInv, AccountHeld, NEW q \in Proc, Informed(q), Answered(q), cmd' = cmd,
           TextStays(q), DetailsStay(q), TypeStays(q)
    PROVE  Informed(q)'
<1>1. PICK value :
        /\ call[q].state = "sent"
        /\ call'[q] = Call("done", call[q].request, call[q].attempt,
                           [status |-> "ok", value |-> value])
        /\ Tells(q, call[q].request.path, value)
        /\ pc'[q] = pc[q] /\ report'[q] = report[q]
  BY DEF Answered
<1>2. ~Has(q, "ok") /\ Value(q)' = value /\ call'[q].request = call[q].request
  BY <1>1 DEF Has, Value, Call
<1>3. ASSUME pc[q] = "group-read" PROVE DescriptionStands(q, value)'
  <2>1. PICK g \in groups : g.id = cmd[q].target /\ value = g.description
    BY <1>1, <1>3 DEF Informed, Tells
  <2>2. Was(g.id, {h.id : h \in OldGroups})
    BY DEF AccountHeld, GroupsInv, Was
  <2>3. DescriptionStands(q, value)
    BY <2>1, <2>2 DEF DescriptionStands, AccountHeld, GroupsInv
  <2> QED BY <2>3 DEF TextStays
<1>4. ASSUME pc[q] = "node-read" PROVE DetailsStand(q, value)'
  <2> DEFINE n == cmd[q].node
             whole == [vm |-> VmOf[n], ip |-> nodes[n].ip,
                       count |-> Cardinality(nodes[n].attached["groups"])]
  <2>1. n \in DOMAIN nodes /\ value \in Details(n)
    BY <1>1, <1>4 DEF Informed, Tells, Request
  <2>2. value \in {whole, [whole EXCEPT !.vm = None], [whole EXCEPT !.count = None]}
    BY <2>1 DEF Details
  <2>3. value.vm \in {None, VmOf[n]} /\ value.count \in {None, Cardinality(GroupsOf(n))}
    BY <2>2 DEF GroupsOf
  <2>4. /\ Was(n, DOMAIN OldNodes) /\ n \in DOMAIN OldNodes \cup NewNodes
        /\ Cardinality(GroupsOf(n)) \in Nat
    BY <2>1, FS_CardinalityType DEF AccountHeld, NodesHeld
  <2>5. DetailsStand(q, value)
    BY <2>3, <2>4 DEF DetailsStand, CountStands
  <2> QED BY <2>5 DEF DetailsStay
<1>5. ASSUME pc[q] = "db-read" PROVE TypeStands(q, value.type)'
  <2>1. cmd[q].target \in DOMAIN clusters /\ value.type = TypeOf(clusters[cmd[q].target])
    BY <1>1, <1>5 DEF Informed, Tells, Request
  <2>2. TypeStands(q, value.type)
    BY <2>1 DEF TypeStands, AccountHeld, ClustersHeld
  <2> QED BY <2>2 DEF TypeStays
<1>6. /\ pc[q] = "db-engines" => value = Engines
      /\ pc[q] = "db-vpc" => value = cmd[q].vpc
      /\ pc[q] \notin {"node-confirm", "db-confirm"}
  BY <1>1, <1>2 DEF Informed, Tells, Request
<1>7. ASSUME NEW e, call[q].request = Request("GET", "plans", e) PROVE value \subseteq PlansOf[e]
  BY <1>1, <1>7 DEF Tells, Request
<1> QED BY <1>1, <1>2, <1>3, <1>4, <1>5, <1>6, <1>7 DEF Informed

LEMMA InformedSent ==
    ASSUME StepInv, NEW q \in Proc, Informed(q), Sent(q), cmd' = cmd
    PROVE  Informed(q)'
<1>1. PICK label, r, found :
        /\ Reads(q, label, r, found)
        /\ pc'[q] = label /\ report'[q] = found
        /\ call'[q] = Call("sent", r, 1, None)
  BY DEF Sent, Sends
<1>2. ~Has(q, "ok")' /\ call'[q].request = r
  BY <1>1 DEF Has, Call
<1>3. ASSUME label = "db-plans"
      PROVE  \E e \in Engines : /\ IsEngine(cmd[q], e) /\ found = e.id
                                /\ r = Request("GET", "plans", e.id)
  <2>1. PICK e \in MatchingEngines(q) : found = e.id /\ r = Request("GET", "plans", e.id)
    BY <1>1, <1>3 DEF Reads
  <2>2. Value(q) = Engines
    BY <1>1, <1>3 DEF Reads, EnginesListed, Informed
  <2> QED BY <2>1, <2>2 DEF MatchingEngines, IsEngine
<1>4. ASSUME label = "db-vpc"
      PROVE  IsPlan(cmd[q], found.engine, found.plan) /\ cmd[q].vpc # None
  <2>1. PICK t \in MatchingPlans(q) : found = [engine |-> report[q], plan |-> t.id]
    BY <1>1, <1>4 DEF Reads
  <2>2. PICK e \in Engines : /\ IsEngine(cmd[q], e) /\ report[q] = e.id
                             /\ Value(q) \subseteq PlansOf[e.id]
    BY <1>1, <1>4 DEF Reads, PlanClear, PlansListed, Informed
  <2>3. t \in PlansOf[e.id] /\ t.name = cmd[q].plan
    BY <2>1, <2>2 DEF MatchingPlans
  <2> QED BY <1>1, <1>4, <2>1, <2>2, <2>3 DEF IsPlan, Reads
<1>5. /\ label = "group-read" => r.path = "group"
      /\ label = "node-read" => r = Request("GET", "node", cmd[q].node)
      /\ label = "db-engines" => r.path = "engines"
      /\ label = "db-vpc" => r = Request("GET", "vpc", cmd[q].vpc)
      /\ label = "db-read" => r = Request("GET", "cluster", cmd[q].target)
      /\ label \notin {"node-confirm", "db-confirm"}
  BY <1>1 DEF Reads, GroupRequest, Request
<1> QED BY <1>1, <1>2, <1>3, <1>4, <1>5 DEF Informed

LEMMA InformedTurned ==
    ASSUME StepInv, NEW q \in Proc, Still(q), Informed(q), Turned(q), cmd' = cmd
    PROVE  Informed(q)'
<1>1. PICK label : /\ Turns(q, label)
                   /\ pc'[q] = label /\ call'[q] = call[q]
  BY DEF Turned
<1>2. Has(q, "ok")' = Has(q, "ok") /\ Value(q)' = Value(q)
  BY <1>1 DEF Has, Value
<1>3. CASE label = "node-confirm"
  <2>1. NodeRead(q) /\ HasAddress(Value(q), cmd[q])
    BY <1>1, <1>3 DEF Turns, AddressNodeRead
  <2>2. DetailsStand(q, Value(q))' /\ Has(q, "ok")
    BY <1>2, <2>1, ReadingStill DEF Informed, NodeRead, DetailsStay
  <2> QED BY <1>1, <1>2, <1>3, <2>1, <2>2 DEF Informed, NodeRead
<1>4. CASE label = "db-confirm"
  <2>1. ClusterRead(q) /\ MayTouch(Value(q), cmd[q])
    BY <1>1, <1>4 DEF Turns
  <2>2. TypeStands(q, Value(q).type)' /\ Has(q, "ok")
    BY <1>2, <2>1, ReadingStill DEF Informed, ClusterRead, TypeStays
  <2> QED BY <1>1, <1>2, <1>4, <2>1, <2>2 DEF Informed, ClusterRead
<1>5. CASE label \in {"confirm", "ready"}
  BY <1>1, <1>5 DEF Informed
<1> QED BY <1>1, <1>3, <1>4, <1>5 DEF Turns

LEMMA InformedFollows ==
    ASSUME StepInv, [Next]_vars, AccountHeld, NEW q \in Proc, Informed(q), Moves(q),
           Still(q), Answered(q) => TextStays(q) /\ DetailsStay(q) /\ TypeStays(q)
    PROVE  Informed(q)'
<1>1. cmd' = cmd
  BY Grows
<1>2. CASE Same(q) \/ Failed(q)
  BY <1>1, <1>2, InformedKept DEF Same, Failed
<1>3. CASE Sent(q)
  BY <1>1, <1>3, InformedSent
<1>4. CASE Ended(q)
  BY <1>4 DEF Ended, Informed
<1>5. CASE Turned(q)
  BY <1>1, <1>5, InformedTurned
<1>6. CASE Answered(q)
  BY <1>1, <1>6, InformedAnswered
<1>7. CASE Taken(q)
  <2>1. pc'[q] \notin BeforeChange
    BY <1>7 DEF Taken, StepInv, OnceInv, ChangeSentOnce
  <2> QED BY <2>1 DEF Informed, BeforeChange
<1> QED BY <1>2, <1>3, <1>4, <1>5, <1>6, <1>7 DEF Moves

-----------------------------------------------------------------------------
(* What is under way stays what was asked for.                             *)

\* The request is not sent again: what is under way was sent before.
LEMMA SentBefore ==
    ASSUME StepInv', NEW q \in Proc, Sent(q), NEW m \in wire'[q]
    PROVE  \/ m \in wire[q] /\ cmd[q].op \notin NodeOps
           \/ \E label, r, found :
                /\ Sends(q, label, r, found) /\ r.method # "GET" /\ m.request = r
                /\ label \notin BeforeChange
                /\ pc'[q] = label /\ report'[q] = found
                /\ call'[q] = Call("sent", r, 1, None)
<1>1. PICK label, r, found :
        /\ Sends(q, label, r, found)
        /\ pc'[q] = label /\ report'[q] = found
        /\ call'[q] = Call("sent", r, 1, None)
        /\ wire'[q] = IF r.method = "GET" THEN wire[q] ELSE {Message(r, 1)}
  BY DEF Sent
<1>2. label \notin BeforeChange
  BY <1>1 DEF StepInv, OnceInv, ChangeSentOnce
<1>3. CASE r.method # "GET"
  BY <1>1, <1>2, <1>3 DEF Message
<1>4. CASE r.method = "GET"
  <2>1. OnCourse(cmd[q], label) /\ label # "change"
    BY <1>1, <1>4 DEF Sends, Expected
  <2> QED BY <1>1, <1>2, <1>4, <2>1 DEF OnCourse, BeforeChange
<1> QED BY <1>3, <1>4

\* A command that has sent its request only waits for the answer.
LEMMA StillUnanswered ==
    ASSUME StepInv, NEW q \in Proc, Unanswered(q), Moves(q), ~Sent(q), wire'[q] # {}
    PROVE  Unanswered(q)' /\ report'[q] = report[q]
<1>1. pc[q] \in {"change", "end"} /\ ~Has(q, "ok")
  BY DEF Unanswered, Has
<1>2. CASE Same(q)
  BY <1>2 DEF Same, Unanswered, Has
<1>3. CASE Ended(q)
  BY <1>1, <1>3 DEF Ended, Unanswered, NoCall, Call
<1>4. CASE Turned(q) \/ Taken(q)
  BY <1>4 DEF Turned, Taken
<1>5. CASE Answered(q)
  <2>1. call[q].state = "sent" /\ call[q].request.method = "GET"
    BY <1>5 DEF Answered
  <2>2. pc[q] = "change"
    BY <1>1, <2>1 DEF Unanswered
  <2> QED BY <2>1, <2>2, PlaceSays DEF Expected, Quiet
<1>6. CASE Failed(q)
  <2>1. pc[q] = "change"
    BY <1>1, <1>6 DEF Failed, Unanswered
  <2> QED BY <1>6, <2>1 DEF Failed, Unanswered
<1> QED BY <1>2, <1>3, <1>4, <1>5, <1>6 DEF Moves

LEMMA WarrantKept ==
    ASSUME StepInv, NEW q \in Proc, wire[q] # {}, Still(q), cmd' = cmd, NEW r,
           GroupWarranted(q, r), NodeWarranted(q, r), ClusterWarranted(q, r),
           r.path \in {"vm", "address"} => Unanswered(q)' /\ report'[q] = report[q]
    PROVE  GroupWarranted(q, r)' /\ NodeWarranted(q, r)' /\ ClusterWarranted(q, r)'
<1>1. pc[q] # "idle"
  BY DEF StepInv, OnceInv, ChangeSentOnce, BeforeChange
<1>2. GroupWarranted(q, r)'
  BY <1>1 DEF GroupWarranted, Still, TextStays
<1>3. NodeWarranted(q, r)'
  <2>1. ASSUME r.path \in {"vm", "address"} PROVE DetailsStand(q, report[q])'
    <3>1. DetailsStand(q, report[q]) /\ DetailsStay(q)
      BY <2>1 DEF NodeWarranted, Unanswered, Still
    <3>2. PICK details : details = report[q]
      OBVIOUS
    <3>3. DetailsStand(q, details)' /\ report'[q] = details
      BY <2>1, <3>1, <3>2 DEF DetailsStay
    <3> QED BY <3>3
  <2> QED BY <2>1 DEF NodeWarranted
<1>4. ClusterWarranted(q, r)'
  BY DEF ClusterWarranted, Still, TypeStays
<1> QED BY <1>2, <1>3, <1>4

\* What is sent is what was asked for, as far as anybody can know.
LEMMA GroupSent ==
    ASSUME StepInv, NEW q \in Proc, Informed(q), Still(q), cmd' = cmd, NEW r, NEW found,
           Orders(q, r, found)
    PROVE  GroupWarranted(q, r)'
<1> SUFFICES ASSUME r.path = "group", r.method = "PUT"
             PROVE  /\ cmd[q].op = "group-update"
                    /\ r.arg = Body(cmd[q], r.arg.description)
                    /\ \/ r.arg.description = cmd[q].description
                       \/ /\ cmd[q].description = None
                          /\ DescriptionStands(q, r.arg.description)'
  BY DEF GroupWarranted
<1>1. /\ cmd[q].op = "group-update"
      /\ IF cmd[q].description # None
         THEN r.arg = Body(cmd[q], cmd[q].description)
         ELSE pc[q] = "group-read" /\ Has(q, "ok") /\ r.arg = Body(cmd[q], Value(q))
  BY DEF Orders
<1>2. \A text : Body(cmd[q], text).description = text
  BY DEF Body
<1>3. CASE cmd[q].description # None
  BY <1>1, <1>2, <1>3
<1>4. CASE cmd[q].description = None
  <2>1. PICK text : text = Value(q)
    OBVIOUS
  <2>2. r.arg = Body(cmd[q], text) /\ r.arg.description = text
    BY <1>1, <1>2, <1>4, <2>1
  <2>3. DescriptionStands(q, text)'
    BY <1>1, <1>4, <2>1, ReadingStill DEF Informed, TextStays
  <2>4. DescriptionStands(q, r.arg.description)'
    BY <2>2, <2>3
  <2> QED BY <1>1, <1>4, <2>2, <2>4
<1> QED BY <1>3, <1>4

LEMMA NodeSent ==
    ASSUME StepInv, NEW q \in Proc, Informed(q), Still(q), cmd' = cmd, NEW label, NEW r,
           NEW found, Sends(q, label, r, found), r.method # "GET", label \notin BeforeChange,
           pc'[q] = label, report'[q] = found, call'[q] = Call("sent", r, 1, None)
    PROVE  NodeWarranted(q, r)'
<1>1. OrdersNode(q, r, found) /\ OnCourse(cmd[q], label)
  BY DEF Sends, Orders
<1>2. cmd[q].op \in NodeOps => Unanswered(q)'
  BY <1>1 DEF OnCourse, BeforeChange, Unanswered, Has, Call
<1>3. ASSUME NodeRead(q) \/ pc[q] = "node-confirm", found = Value(q)
      PROVE  DetailsStand(q, report[q])'
  <2>1. DetailsStand(q, found) /\ DetailsStay(q)
    BY <1>3, ReadingStill DEF Informed, NodeRead
  <2>2. DetailsStand(q, found)'
    BY <2>1 DEF DetailsStay
  <2> QED BY <2>2
<1>4. ASSUME r.path = "vm"
      PROVE  /\ cmd[q].op \in {"node-attach", "node-detach"} /\ Unanswered(q)'
             /\ Permits(found, cmd[q]) /\ r.arg = NodeChange(found.vm, cmd[q])
             /\ DetailsStand(q, report[q])'
  BY <1>1, <1>2, <1>3, <1>4 DEF OrdersNode, ByReadNode, VmId, NodeOps
<1>5. ASSUME r.path = "address"
      PROVE  /\ cmd[q].op \in TakesGiven \cup TakesCurrent /\ HasAddress(found, cmd[q])
             /\ cmd[q].op \in NodeOps /\ Unanswered(q)'
             /\ r.arg = [op |-> cmd[q].op, vm |-> found.vm,
                         ip |-> IF cmd[q].op \in TakesGiven THEN cmd[q].items
                                ELSE found.ip]
             /\ DetailsStand(q, report[q])'
  <2>1. /\ ByReadAddress(q) /\ found = Value(q)
        /\ r.arg = [op |-> cmd[q].op, vm |-> VmId(q), ip |-> Address(q)]
    BY <1>1, <1>5 DEF OrdersNode
  <2>2. cmd[q].op \in TakesGiven \cup TakesCurrent
    BY <2>1, PlaceSays DEF ByReadAddress, AddressNodeRead, OnCourse, Quiet
  <2>3. HasAddress(found, cmd[q]) /\ (NodeRead(q) \/ pc[q] = "node-confirm")
    BY <2>1 DEF ByReadAddress, AddressNodeRead, Informed
  <2> QED BY <1>2, <1>3, <2>1, <2>2, <2>3 DEF VmId, Address, TakesGiven, TakesCurrent,
             NodeOps
<1>6. /\ r.path = "node" /\ r.method # "DELETE" =>
           /\ r.arg = NodeChange(cmd[q].node, cmd[q])
           /\ cmd[q].op \in {"node-attach", "node-detach", "node-power", "node-upgrade"}
           /\ ~DetachesGroups(cmd[q])
      /\ r.path = "nodes" =>
           cmd[q].op = "node-create" /\ IsCreatable(cmd[q]) /\ r.arg = NodeBody(cmd[q])
  BY <1>1 DEF OrdersNode
<1> QED BY <1>4, <1>5, <1>6 DEF NodeWarranted, NodeOps

LEMMA ClusterSent ==
    ASSUME StepInv, NEW q \in Proc, Informed(q), Still(q), cmd' = cmd, NEW r, NEW found,
           Orders(q, r, found)
    PROVE  ClusterWarranted(q, r)'
<1>1. OrdersCluster(q, r)
  BY DEF Orders
<1>2. ASSUME r.path = "clusters"
      PROVE  /\ cmd[q].op = "db-create" /\ IsClusterOrder(cmd[q])
             /\ \E engine, plan :
                  /\ IsPlan(cmd[q], engine, plan)
                  /\ r.arg = Ordered(cmd[q], engine, plan,
                                     IF cmd[q].vpc = None THEN {}
                                     ELSE {VpcEntry(cmd[q].vpc, cmd[q].subnet)})
  <2>1. CASE PlanClear(q) /\ cmd[q].vpc = None
              /\ \E t \in MatchingPlans(q) : r.arg = Ordered(cmd[q], report[q], t.id, {})
    <3>1. PICK t \in MatchingPlans(q) : r.arg = Ordered(cmd[q], report[q], t.id, {})
      BY <2>1
    <3>2. pc[q] = "db-plans" /\ Has(q, "ok") /\ cmd[q].op = "db-create"
      BY <2>1 DEF PlanClear, PlansListed
    <3>3. IsClusterOrder(cmd[q])
      BY <3>2, PlaceSays DEF OnCourse, LooksUpPlans, Quiet
    <3>4. IsPlan(cmd[q], report[q], t.id)
      BY <3>2 DEF Informed, IsPlan, MatchingPlans
    <3> QED BY <2>1, <3>1, <3>2, <3>3, <3>4
  <2>2. CASE pc[q] = "db-vpc" /\ Has(q, "ok")
              /\ r.arg = Ordered(cmd[q], report[q].engine, report[q].plan,
                                 {VpcEntry(Value(q), cmd[q].subnet)})
    <3>1. cmd[q].op = "db-create" /\ IsClusterOrder(cmd[q])
      BY <2>2, PlaceSays DEF OnCourse, LooksUpPlans, Quiet
    <3>2. /\ IsPlan(cmd[q], report[q].engine, report[q].plan)
          /\ cmd[q].vpc # None /\ Value(q) = cmd[q].vpc
      BY <2>2 DEF Informed
    <3> QED BY <2>2, <3>1, <3>2
  <2> QED BY <1>1, <1>2, <2>1, <2>2 DEF OrdersCluster
<1>3. ASSUME r.path = "cluster", cmd[q].op \in Guarded
      PROVE  \E type \in Supported : TypeStands(q, type)'
  <2>1. /\ pc[q] \in {"db-read", "db-confirm"} /\ Has(q, "ok")
        /\ MayTouch(Value(q), cmd[q])
    BY <1>1, <1>3 DEF OrdersCluster, ByReadCluster, ClusterRead, Informed
  <2>2. PICK type \in Supported : type = Value(q).type
    BY <2>1 DEF MayTouch, IsSupported
  <2>3. TypeStands(q, type) /\ TypeStays(q)
    BY <2>1, <2>2, ReadingStill DEF Informed
  <2> QED BY <2>3 DEF TypeStays
<1>4. \A engine, plan, nets :
        /\ Ordered(cmd[q], engine, plan, nets).engine = engine
        /\ Ordered(cmd[q], engine, plan, nets).plan = plan
  BY DEF Ordered, Cluster
<1>5. ASSUME r.path = "clusters"
      PROVE  /\ IsPlan(cmd[q], r.arg.engine, r.arg.plan)
             /\ r.arg = Ordered(cmd[q], r.arg.engine, r.arg.plan,
                                IF cmd[q].vpc = None THEN {}
                                ELSE {VpcEntry(cmd[q].vpc, cmd[q].subnet)})
  <2> DEFINE nets == IF cmd[q].vpc = None THEN {}
                     ELSE {VpcEntry(cmd[q].vpc, cmd[q].subnet)}
  <2>1. PICK engine, plan :
          IsPlan(cmd[q], engine, plan) /\ r.arg = Ordered(cmd[q], engine, plan, nets)
    BY <1>2, <1>5
  <2>2. r.arg.engine = engine /\ r.arg.plan = plan
    BY <1>4, <2>1
  <2> QED BY <2>1, <2>2
<1> QED BY <1>1, <1>2, <1>3, <1>5 DEF ClusterWarranted, OrdersCluster

LEMMA WarrantedFollows ==
    ASSUME StepInv, StepInv', [Next]_vars, NEW q \in Proc, Informed(q), Warranted(q),
           Moves(q), Still(q)
    PROVE  Warranted(q)'
<1>1. cmd' = cmd
  BY Grows
<1> SUFFICES ASSUME NEW m \in wire'[q]
             PROVE  /\ GroupWarranted(q, m.request)' /\ NodeWarranted(q, m.request)'
                    /\ ClusterWarranted(q, m.request)'
  BY DEF Warranted
<1>2. ASSUME m \in wire[q],
             m.request.path \in {"vm", "address"} => Unanswered(q)' /\ report'[q] = report[q]
      PROVE  /\ GroupWarranted(q, m.request)' /\ NodeWarranted(q, m.request)'
             /\ ClusterWarranted(q, m.request)'
  BY <1>1, <1>2, WarrantKept DEF Warranted
<1>3. CASE Sent(q)
  <2>1. CASE m \in wire[q] /\ cmd[q].op \notin NodeOps
    <3>1. m.request.path \notin {"vm", "address"}
      BY <2>1 DEF Warranted, NodeWarranted
    <3> QED BY <1>2, <2>1, <3>1
  <2>2. ASSUME NEW label, NEW r, NEW found,
               Sends(q, label, r, found), r.method # "GET", m.request = r,
               label \notin BeforeChange,
               pc'[q] = label, report'[q] = found, call'[q] = Call("sent", r, 1, None)
        PROVE  /\ GroupWarranted(q, m.request)' /\ NodeWarranted(q, m.request)'
               /\ ClusterWarranted(q, m.request)'
    <3>1. Orders(q, r, found)
      BY <2>2 DEF Sends
    <3>2. GroupWarranted(q, r)'
      BY <1>1, <3>1, GroupSent
    <3>3. NodeWarranted(q, r)'
      BY <1>1, <2>2, NodeSent
    <3>4. ClusterWarranted(q, r)'
      BY <1>1, <3>1, ClusterSent
    <3> QED BY <2>2, <3>2, <3>3, <3>4
  <2> QED BY <1>3, <2>1, <2>2, SentBefore
<1>4. CASE ~Sent(q)
  <2>1. m \in wire[q]
    BY <1>4 DEF Moves, Same, Ended, Turned, Answered, Failed, Taken
  <2>2. m.request.path \in {"vm", "address"} => Unanswered(q)
    BY <2>1 DEF Warranted, NodeWarranted
  <2> QED BY <1>2, <1>4, <2>1, <2>2, StillUnanswered
<1> QED BY <1>3, <1>4

LEMMA ChangesHeld ==
    ASSUME StepInv, StepInv', [Next]_vars, ChangeInv, NEW p \in Proc, Changes(p)
    PROVE  AccountHeld'
<1>1. cmd' = cmd /\ GroupsInv'
  BY Grows, GroupsNext DEF ChangeInv, AccountHeld
<1>2. NodesHeld'
  <2>1. CASE NodeChanges(p)
    BY <2>1, NodesStayHeld DEF ChangeInv, AccountHeld
  <2>2. CASE UNCHANGED nodes
    BY <2>2, WasGrows DEF ChangeInv, AccountHeld, NodesHeld, GroupsOf
  <2> QED BY <2>1, <2>2 DEF Changes
<1>3. ClustersHeld'
  <2>1. CASE ClusterChanges(p)
    BY <2>1, ClustersStayHeld DEF ChangeInv, AccountHeld
  <2>2. CASE UNCHANGED clusters
    BY <2>2, WasGrows DEF ChangeInv, AccountHeld, ClustersHeld
  <2> QED BY <2>1, <2>2 DEF Changes
<1> QED BY <1>1, <1>2, <1>3 DEF ChangeInv, AccountHeld

LEMMA ChangeInit == Init => ChangeInv
<1> SUFFICES ASSUME Init PROVE ChangeInv
  OBVIOUS
<1>1. GroupsInv
  BY GroupsAtFirst
<1>2. NodesHeld
  BY NodesAssumption DEF Init, NodesInit, NodesHeld, Was, GroupsOf
<1>3. ClustersHeld
  BY ClustersAssumption DEF Init, ClustersInit, ClustersHeld, Was
<1>4. \A p \in Proc : Informed(p) /\ Warranted(p)
  BY DEF Init, TransportInit, CommandInit, Informed, Warranted
<1> QED BY <1>1, <1>2, <1>3, <1>4 DEF Init, CommandInit, ChangeInv, AccountHeld

LEMMA ChangeNext ==
    ASSUME StepInv, StepInv', [Next]_vars, ChangeInv
    PROVE  ChangeInv'
<1>1. ASSUME NEW q \in Proc, Moves(q), Still(q),
             Answered(q) => TextStays(q) /\ DetailsStay(q) /\ TypeStays(q)
      PROVE  Informed(q)' /\ Warranted(q)'
  BY <1>1, InformedFollows, WarrantedFollows DEF ChangeInv
<1>2. CASE Quietly /\ \A q \in Proc : Moves(q)
  <2>1. ASSUME NEW q \in Proc PROVE TextStays(q) /\ DetailsStay(q) /\ TypeStays(q)
    BY <1>2, TextKeptAlone, DetailsKeptAlone, TypeKeptAlone DEF Quietly, ChangeInv,
       AccountHeld
  <2>2. \A q \in Proc : Informed(q)' /\ Warranted(q)'
    BY <1>1, <1>2, <2>1 DEF Still
  <2>3. cmd' = cmd /\ GroupsInv'
    BY Grows, GroupsNext DEF ChangeInv, AccountHeld
  <2>4. NodesHeld'
    BY <1>2, WasGrows DEF Quietly, ChangeInv, AccountHeld, NodesHeld, GroupsOf
  <2>5. ClustersHeld'
    BY <1>2, WasGrows DEF Quietly, ChangeInv, AccountHeld, ClustersHeld
  <2> QED BY <2>2, <2>3, <2>4, <2>5 DEF ChangeInv, AccountHeld
<1>3. ASSUME NEW p \in Proc, Changes(p), Taken(p), \A q \in Proc \ {p} : Same(q)
      PROVE  ChangeInv'
  <2>1. AccountHeld'
    BY <1>3, ChangesHeld
  <2>2. ASSUME NEW q \in Proc \ {p} PROVE Informed(q)' /\ Warranted(q)'
    <3>1. Still(q)
      BY <1>3, GroupsStill, NodesStill, ClustersStill DEF Changes, ChangeInv,
         AccountHeld
    <3>2. Moves(q) /\ ~Answered(q)
      <4>1. ASSUME Answered(q) PROVE FALSE
        BY <1>3, <4>1 DEF Answered, Same, Call
      <4> QED BY <1>3, <4>1 DEF Moves
    <3> QED BY <1>1, <3>1, <3>2
  <2>3. Informed(p)' /\ Warranted(p)'
    <3>1. pc'[p] \notin BeforeChange /\ wire'[p] = {}
      BY <1>3 DEF Taken, StepInv, OnceInv, ChangeSentOnce
    <3> QED BY <3>1 DEF Informed, Warranted, BeforeChange
  <2> QED BY <2>1, <2>2, <2>3 DEF ChangeInv
<1> QED BY <1>2, <1>3, StepMoves

\* What a command has read still holds while it waits, asks and orders, unless
\* somebody else has changed it, and what is under way is what its command line
\* and that reading ask for.
THEOREM ReadingsStand == Spec => [](StepInv /\ ChangeInv)
<1>1. Init => StepInv /\ ChangeInv
  BY StepInit, ChangeInit
<1>2. StepInv /\ ChangeInv /\ [Next]_vars => (StepInv /\ ChangeInv)'
  BY StepNext, ChangeNext
<1> QED BY <1>1, <1>2, PTL DEF Spec

\* Only a request that is warranted changes anything.
LEMMA WhoChanges ==
    ASSUME StepInv, StepInv', ChangeInv, [Next]_vars, ~Quietly
    PROVE  \E p \in Proc : Changes(p) /\ Warranted(p) /\ wire'[p] # wire[p]
BY StepMoves DEF Taken, ChangeInv

-----------------------------------------------------------------------------
(* Security groups.                                                        *)

LEMMA GroupsFollow ==
    ASSUME StepInv, StepInv', ChangeInv, [Next]_vars
    PROVE  GroupsChangeAsAsked
<1> SUFFICES ASSUME NEW g \in groups, NEW h \in groups', g.id = h.id, g # h
             PROVE  \E p \in Proc :
                      /\ cmd[p].op = "group-update" /\ cmd[p].target = g.id
                      /\ wire'[p] # wire[p]
                      /\ h = Group(g.id, Body(cmd[p], h.description))
                      /\ \/ h.description = cmd[p].description
                         \/ /\ cmd[p].description = None
                            /\ h.description = g.description \/ p \in disturbed
  BY DEF GroupsChangeAsAsked
<1>1. GroupsInv /\ h \notin groups
  BY DEF ChangeInv, AccountHeld, GroupsInv
<1>2. PICK p \in Proc : GroupChanges(p) /\ Warranted(p) /\ wire'[p] # wire[p]
  BY <1>1, WhoChanges DEF Quietly, Changes
<1>3. CASE MakeGroup(p)
  <2>1. PICK id, body : groups' = groups \cup {Group(id, body)} /\ id \notin GroupIds
    BY <1>1, <1>3, GroupMade
  <2> QED BY <1>1, <2>1 DEF Group, GroupIds
<1>4. CASE DropGroup(p)
  BY <1>1, <1>4 DEF DropGroup, OtherGroups
<1>5. CASE ChangeGroup(p)
  <2>1. PICK m \in wire[p], k \in groups :
          /\ m.request.path = "group" /\ m.request.method = "PUT" /\ k.id = cmd[p].target
          /\ groups' = OtherGroups(k.id) \cup {Group(k.id, m.request.arg)}
    BY <1>5 DEF ChangeGroup
  <2>2. PICK text : text = m.request.arg.description
    OBVIOUS
  <2>3. /\ cmd[p].op = "group-update" /\ m.request.arg = Body(cmd[p], text)
        /\ \/ text = cmd[p].description
           \/ cmd[p].description = None /\ DescriptionStands(p, text)
    BY <1>2, <2>1, <2>2 DEF Warranted, GroupWarranted
  <2>4. h = Group(k.id, Body(cmd[p], text))
    BY <1>1, <2>1, <2>3 DEF OtherGroups
  <2>5. h.id = k.id /\ h.description = text
    BY <2>4 DEF Group, Body
  <2>6. g.id = cmd[p].target /\ (DescriptionStands(p, text) =>
                                   g.description = text \/ p \in disturbed)
    BY <2>1, <2>5 DEF DescriptionStands
  <2> QED BY <1>2, <2>1, <2>3, <2>4, <2>5, <2>6
<1> QED BY <1>2, <1>3, <1>4, <1>5 DEF GroupChanges

\* Every update of a group writes the name and the rules of its command line,
\* and the description that was given, or the one that the group still has;
\* nothing else changes a group: for any account and any number of processes.
THEOREM DescriptionsAreKept == Spec => UpdateKeepsDescription
<1>1. /\ StepInv /\ ChangeInv /\ (StepInv /\ ChangeInv)' /\ [Next]_vars
      => [GroupsChangeAsAsked]_vars
  BY GroupsFollow
<1> QED BY <1>1, ReadingsStand, PTL DEF Spec, UpdateKeepsDescription

-----------------------------------------------------------------------------
(* Nodes.                                                                  *)

LEMMA NodesFollow ==
    ASSUME StepInv, StepInv', ChangeInv, [Next]_vars
    PROVE  NodeChangesFitLines
<1> SUFFICES ASSUME NEW n \in DOMAIN nodes \cap DOMAIN nodes', nodes'[n] # nodes[n]
             PROVE  \E p \in Proc :
                      /\ wire'[p] # wire[p] /\ cmd[p].node = n
                      /\ nodes'[n] = AsAsked(cmd[p], report[p], nodes[n])
  BY DEF NodeChangesFitLines
<1>1. PICK p \in Proc : NodeChanges(p) /\ Warranted(p) /\ wire'[p] # wire[p]
  BY WhoChanges DEF Quietly, Changes
<1>2. NodesHeld
  BY DEF ChangeInv, AccountHeld
<1>3. ~MakeNode(p)
  BY <1>1, <1>2, NodeMadeNew
<1>4. ~DropNode(p)
  BY DEF DropNode
<1>5. CASE ApplyToNode(p)
  <2>1. /\ cmd[p].op \in NodeChangers
        /\ nodes' = [nodes EXCEPT ![cmd[p].node] =
                       After(@, NodeChange(cmd[p].node, cmd[p]))]
    BY <1>1, <1>2, <1>5, NodeChanged
  <2>2. n = cmd[p].node /\ nodes'[n] = After(nodes[n], NodeChange(n, cmd[p]))
    BY <2>1
  <2>3. AsAsked(cmd[p], report[p], nodes[n]) = After(nodes[n], NodeChange(cmd[p].node, cmd[p]))
    BY <2>1 DEF AsAsked, NodeChangers
  <2> QED BY <1>1, <2>2, <2>3
<1>6. CASE ApplyToAddress(p)
  <2> DEFINE ip == IF cmd[p].op \in TakesGiven THEN cmd[p].items ELSE report[p].ip
  <2>1. /\ cmd[p].op \in TakesGiven \cup TakesCurrent
        /\ cmd[p].op # "ip-attach" => ip = nodes[cmd[p].node].ip
        /\ nodes' = [nodes EXCEPT ![cmd[p].node] =
                       IF cmd[p].op = "ip-attach" THEN [@ EXCEPT !.ip = ip]
                       ELSE IF cmd[p].op = "ip-reserve" THEN @
                       ELSE [@ EXCEPT !.ip = None]]
    BY <1>1, <1>2, <1>6, AddressChanged
  <2>2. /\ n = cmd[p].node /\ cmd[p].op # "ip-reserve"
        /\ nodes'[n] = IF cmd[p].op = "ip-attach" THEN [nodes[n] EXCEPT !.ip = ip]
                       ELSE [nodes[n] EXCEPT !.ip = None]
    BY <2>1
  <2>3. nodes'[n] = AsAsked(cmd[p], report[p], nodes[n])
    <3>1. CASE cmd[p].op = "ip-attach"
      BY <2>2, <3>1 DEF AsAsked, TakesGiven
    <3>2. CASE cmd[p].op = "ip-detach"
      BY <2>1, <2>2, <3>2 DEF AsAsked, TakesGiven
    <3>3. CASE cmd[p].op = "node-ip-detach"
      BY <2>1, <2>2, <3>3 DEF AsAsked, TakesGiven
    <3> QED BY <2>1, <2>2, <3>1, <3>2, <3>3 DEF TakesGiven, TakesCurrent
  <2> QED BY <1>1, <2>2, <2>3
<1> QED BY <1>1, <1>3, <1>4, <1>5, <1>6 DEF NodeChanges

\* Every change of a node is the one that the command line of some process asks
\* of that very node, also where the request names it by its VM, and takes the
\* address that was shown: for any nodes whose VMs differ.
THEOREM NodesFitLines == Spec => NodesChangeAsAsked
<1>1. /\ StepInv /\ ChangeInv /\ (StepInv /\ ChangeInv)' /\ [Next]_vars
      => [NodeChangesFitLines]_vars
  BY NodesFollow
<1> QED BY <1>1, ReadingsStand, PTL DEF Spec, NodesChangeAsAsked

LEMMA GroupsLeft ==
    ASSUME StepInv, StepInv', ChangeInv, [Next]_vars
    PROVE  GroupsGoKnowingly
<1> SUFFICES ASSUME NEW n \in DOMAIN nodes \cap DOMAIN nodes',
                    GroupsOf(n) # {}, GroupsOf(n)' = {}
             PROVE  \E p \in Proc :
                      /\ wire'[p] # wire[p] /\ cmd[p].op = "node-detach" /\ cmd[p].node = n
                      /\ report[p].count \in {None, 0} \/ p \in disturbed
  BY DEF GroupsGoKnowingly
<1>1. PICK p \in Proc : NodeChanges(p) /\ Warranted(p) /\ wire'[p] # wire[p]
  <2>1. ~Quietly
    BY DEF Quietly, GroupsOf
  <2>2. UNCHANGED nodes => GroupsOf(n)' = GroupsOf(n)
    BY DEF GroupsOf
  <2> QED BY <2>1, <2>2, WhoChanges DEF Changes
<1>2. NodesHeld /\ cmd \in Workloads
  BY DEF ChangeInv, AccountHeld
<1>3. /\ ApplyToNode(p) /\ n = cmd[p].node /\ DetachesGroups(cmd[p])
      /\ GroupsOf(n)' = GroupsOf(n) \ cmd[p].items /\ IsFiniteSet(cmd[p].items)
  BY <1>1, <1>2, GroupsMoved
<1>4. Permits(report[p], cmd[p]) /\ DetailsStand(p, report[p])
  BY <1>1, <1>2, <1>3, NodeChanged
<1>5. ASSUME report[p].count \notin {None, 0}, p \notin disturbed PROVE FALSE
  <2>1. report[p].count \in Nat /\ report[p].count <= Cardinality(GroupsOf(n))
    BY <1>3, <1>4, <1>5 DEF DetailsStand, CountStands
  <2>2. Cardinality(cmd[p].items) < report[p].count
    BY <1>3, <1>4, <1>5, <2>1 DEF Permits, MayDetachGroups
  <2>3. GroupsOf(n) \subseteq cmd[p].items
    BY <1>3
  <2>4. /\ Cardinality(GroupsOf(n)) <= Cardinality(cmd[p].items)
        /\ Cardinality(GroupsOf(n)) \in Nat /\ Cardinality(cmd[p].items) \in Nat
    BY <1>3, <2>3, FS_Subset, FS_CardinalityType
  <2> QED BY <2>1, <2>2, <2>4
<1> QED BY <1>1, <1>3, <1>5 DEF DetachesGroups

\* A node with security groups only loses the last one by a command that was
\* not told how many there are, or whose number another detachment made stale.
THEOREM LastGroupIsKept == Spec => LastGroupStays
<1>1. /\ StepInv /\ ChangeInv /\ (StepInv /\ ChangeInv)' /\ [Next]_vars
      => [GroupsGoKnowingly]_vars
  BY GroupsLeft
<1> QED BY <1>1, ReadingsStand, PTL DEF Spec, LastGroupStays

\* The sizes that isCustomStorageDiskSizeAllowed lets pass are those on sale.
LEMMA DiskIsSold ==
    ASSUME NEW size \in Int, IsDiskSizeAllowed(size)
    PROVE  size \in DiskSizes
<1>1. 75 <= size /\ size <= 2400
  BY DEF IsDiskSizeAllowed
<1>2. CASE size < 150
  <2>1. size % 25 = 0
    BY <1>2 DEF IsDiskSizeAllowed
  <2>2. size \in {75, 100, 125}
    BY <1>1, <1>2, <2>1
  <2> QED BY <2>2 DEF DiskSizes
<1>3. CASE ~(size < 150)
  <2>1. size % 50 = 0
    BY <1>3 DEF IsDiskSizeAllowed
  <2>2. size = 50 * (size \div 50) /\ size \div 50 \in 3 .. 48
    BY <1>1, <1>3, <2>1
  <2> QED BY <2>2 DEF DiskSizes
<1> QED BY <1>2, <1>3

LEMMA NodesOrdered ==
    ASSUME StepInv, StepInv', ChangeInv, [Next]_vars
    PROVE  NodesAreAsOrdered
<1> SUFFICES ASSUME NEW n \in DOMAIN nodes' \ DOMAIN nodes
             PROVE  /\ nodes'[n].disk \in
                         IF nodes'[n].plan \in CustomSeries THEN DiskSizes ELSE {None}
                    /\ \E p \in Proc :
                         /\ created'[p] = {n}
                         /\ nodes'[n].plan = cmd[p].plan /\ nodes'[n].disk = cmd[p].disk
                         /\ (nodes'[n].committed # None) <=> (cmd[p].billing = "committed")
                         /\ nodes'[n].attached["keys"] = cmd[p].items
  BY DEF NodesAreAsOrdered
<1>1. PICK p \in Proc : NodeChanges(p) /\ Warranted(p)
  BY WhoChanges DEF Quietly, Changes
<1>2. NodesHeld /\ cmd \in Workloads
  BY DEF ChangeInv, AccountHeld
<1>3. /\ nodes'[n] = NodeBody(cmd[p]) /\ created'[p] = {n}
      /\ cmd[p].op = "node-create" /\ IsCreatable(cmd[p])
  BY <1>1, <1>2, NodesThere
<1>4. /\ nodes'[n].plan = cmd[p].plan /\ nodes'[n].disk = cmd[p].disk
      /\ nodes'[n].committed = cmd[p].committed
      /\ nodes'[n].attached["keys"] = cmd[p].items
  BY <1>3, NewNode
<1>5. cmd[p].disk \in IF cmd[p].plan \in CustomSeries THEN DiskSizes ELSE {None}
  <2>1. cmd[p].disk \in Int \cup {None}
    BY <1>2, <1>3, NodeLinesAssumption
  <2> QED BY <1>3, <2>1, DiskIsSold DEF IsCreatable
<1>6. (cmd[p].committed # None) <=> (cmd[p].billing = "committed")
  BY <1>3 DEF IsCreatable
<1> QED BY <1>3, <1>4, <1>5, <1>6

\* Every new node was ordered with that plan, disk, billing and keys, and its
\* disk is of a size that is sold for that plan: for any command lines.
THEOREM NodesAreOrdered == Spec => NewNodesAreAsOrdered
<1>1. /\ StepInv /\ ChangeInv /\ (StepInv /\ ChangeInv)' /\ [Next]_vars
      => [NodesAreAsOrdered]_vars
  BY NodesOrdered
<1> QED BY <1>1, ReadingsStand, PTL DEF Spec, NewNodesAreAsOrdered

-----------------------------------------------------------------------------
(* Clusters.                                                               *)

\* What an order is, besides its plan.
LEMMA OrderLines ==
    ASSUME NEW line, IsClusterOrder(line)
    PROVE  /\ line.vpc = None => line.public # "no"
           /\ (line.billing = "committed") <=> (Renewal(line) # None)
BY OptionsAssumption DEF IsClusterOrder, IsBilling, Renewal

LEMMA ClustersOrdered ==
    ASSUME StepInv, StepInv', ChangeInv, [Next]_vars
    PROVE  ClustersAreAsOrdered
<1> SUFFICES ASSUME NEW c \in DOMAIN clusters' \ DOMAIN clusters
             PROVE  \E p \in Proc, e \in Engines :
                      /\ created'[p] = {c}
                      /\ e.id = clusters'[c].engine /\ e.type \in Supported
                      /\ e.type = cmd[p].type /\ e.version = cmd[p].version
                      /\ \E t \in PlansOf[e.id] :
                           t.id = clusters'[c].plan /\ t.name = cmd[p].plan
                      /\ {v.vpc : v \in clusters'[c].vpcs} = {cmd[p].vpc} \ {None}
                      /\ clusters'[c].vpcs = {} => clusters'[c].public
                      /\ clusters'[c].password = cmd[p].value
                      /\ (cmd[p].billing = "committed")
                           <=> (clusters'[c].term.renewal # None)
  BY DEF ClustersAreAsOrdered
<1>1. PICK p \in Proc : ClusterChanges(p) /\ Warranted(p)
  BY WhoChanges DEF Quietly, Changes
<1>2. ClustersHeld
  BY DEF ChangeInv, AccountHeld
<1>3. MakeCluster(p)
  BY <1>1, <1>2, ClusterChanged DEF ClusterChanges, DropCluster
<1>4. created'[p] = {c} /\ \E m \in wire[p] :
                             m.request.path = "clusters" /\ clusters'[c] = m.request.arg
  <2>1. PICK id \in NewClusters :
          /\ created'[p] = {id}
          /\ \E m \in wire[p] :
               /\ m.request.path = "clusters"
               /\ clusters' = [k \in DOMAIN clusters \cup {id} |->
                                 IF k = id THEN m.request.arg ELSE clusters[k]]
    BY <1>1, <1>2, <1>3, ClusterMadeNew
  <2>2. c = id
    BY <2>1
  <2> QED BY <2>1, <2>2
<1>5. PICK m \in wire[p] : m.request.path = "clusters" /\ clusters'[c] = m.request.arg
  BY <1>4
<1>6. PICK engine, plan : engine = m.request.arg.engine /\ plan = m.request.arg.plan
  OBVIOUS
<1>7. /\ IsClusterOrder(cmd[p]) /\ IsPlan(cmd[p], engine, plan)
      /\ m.request.arg = Ordered(cmd[p], engine, plan,
                                 IF cmd[p].vpc = None THEN {}
                                 ELSE {VpcEntry(cmd[p].vpc, cmd[p].subnet)})
  BY <1>1, <1>5, <1>6 DEF Warranted, ClusterWarranted
<1>8. PICK e \in Engines :
        /\ IsEngine(cmd[p], e) /\ e.id = engine
        /\ \E t \in PlansOf[e.id] : t.id = plan /\ t.name = cmd[p].plan
  BY <1>7 DEF IsPlan
<1>9. /\ {v.vpc : v \in clusters'[c].vpcs} = {cmd[p].vpc} \ {None}
      /\ clusters'[c].vpcs = {} => clusters'[c].public
      /\ clusters'[c].password = cmd[p].value
      /\ (cmd[p].billing = "committed") <=> (clusters'[c].term.renewal # None)
  <2>1. PICK nets : nets = IF cmd[p].vpc = None THEN {}
                           ELSE {VpcEntry(cmd[p].vpc, cmd[p].subnet)}
    OBVIOUS
  <2>2. PICK order : order = Ordered(cmd[p], engine, plan, nets)
    OBVIOUS
  <2>3. /\ order.vpcs = nets /\ order.password = cmd[p].value
        /\ order.term.renewal = Renewal(cmd[p])
        /\ cmd[p].public # "no" => order.public = TRUE
    BY <2>2 DEF Ordered, Cluster
  <2>4. order = clusters'[c]
    BY <1>5, <1>7, <2>1, <2>2
  <2>5. VpcEntry(cmd[p].vpc, cmd[p].subnet).vpc = cmd[p].vpc
    BY DEF VpcEntry
  <2>6. {v.vpc : v \in nets} = {cmd[p].vpc} \ {None}
    <3>1. /\ nets = {} <=> cmd[p].vpc = None
          /\ \A v \in nets : v.vpc = cmd[p].vpc
      BY <2>1, <2>5
    <3> QED BY <3>1
  <2>7. nets = {} => order.public = TRUE
    <3>1. nets = {} => cmd[p].vpc = None
      BY <2>1
    <3> QED BY <1>7, <2>3, <3>1, OrderLines
  <2>8. (cmd[p].billing = "committed") <=> (order.term.renewal # None)
    BY <1>7, <2>3, OrderLines
  <2>9. order.vpcs = {} => order.public
    BY <2>3, <2>7
  <2> QED BY <2>3, <2>4, <2>6, <2>8, <2>9
<1> QED BY <1>4, <1>5, <1>6, <1>8, <1>9 DEF IsEngine

\* Every new cluster was ordered with that engine, version, plan, network,
\* password and billing: for any engines and plans that the API may list.
THEOREM ClustersAreOrdered == Spec => NewClustersAreAsOrdered
<1>1. /\ StepInv /\ ChangeInv /\ (StepInv /\ ChangeInv)' /\ [Next]_vars
      => [ClustersAreAsOrdered]_vars
  BY ClustersOrdered
<1> QED BY <1>1, ReadingsStand, PTL DEF Spec, NewClustersAreAsOrdered

LEMMA ForeignSpared ==
    ASSUME StepInv, StepInv', ChangeInv, [Next]_vars
    PROVE  ForeignClustersKept
<1> SUFFICES ASSUME NEW c \in DOMAIN clusters, TypeOf(clusters[c]) \notin Supported,
                    ~(c \in DOMAIN clusters' /\ clusters'[c].password = clusters[c].password)
             PROVE  FALSE
  BY DEF ForeignClustersKept, ForeignClusters
<1>1. PICK p \in Proc : ClusterChanges(p) /\ Warranted(p)
  BY WhoChanges DEF Quietly, Changes
<1>2. ClustersHeld
  BY DEF ChangeInv, AccountHeld
<1>3. ASSUME cmd[p].target = c, \E type \in Supported : TypeStands(p, type) PROVE FALSE
  BY <1>3 DEF TypeStands
<1>4. CASE ApplyToCluster(p)
  <2>1. PICK value :
          clusters' = [clusters EXCEPT ![cmd[p].target] =
                         ClusterAfter(@, [id |-> cmd[p].target, op |-> cmd[p].op,
                                          value |-> value])]
    BY <1>1, <1>2, <1>4, ClusterChanged
  <2>2. /\ cmd[p].op \in Direct \cup {"db-vpc-attach", "db-vpc-detach", "db-reset"}
        /\ cmd[p].op \in Guarded => \E type \in Supported : TypeStands(p, type)
    BY <1>1, <1>2, <1>4, ClusterChanged
  <2>3. cmd[p].target = c
    BY <2>1
  <2>4. cmd[p].op = "db-reset"
    BY <1>2, <2>1, <2>2, <2>3, ClusterAfterChange DEF ClustersHeld
  <2> QED BY <1>3, <2>2, <2>3, <2>4 DEF Guarded
<1>5. CASE DropCluster(p)
  <2>1. PICK m \in wire[p] :
          /\ m.request.path = "cluster" /\ m.request.method = "DELETE"
          /\ clusters' = [k \in DOMAIN clusters \ {m.request.arg.id} |-> clusters[k]]
    BY <1>5 DEF DropCluster
  <2>2. m.request.arg.id = c
    BY <2>1
  <2>3. cmd[p].target = c /\ cmd[p].op = "db-delete"
        /\ (cmd[p].op \in Guarded => \E type \in Supported : TypeStands(p, type))
    BY <1>1, <2>1, <2>2 DEF Warranted, ClusterWarranted
  <2> QED BY <1>3, <2>3 DEF Guarded
<1>6. CASE MakeCluster(p)
  BY <1>1, <1>2, <1>6, ClusterMadeNew
<1> QED BY <1>1, <1>4, <1>5, <1>6 DEF ClusterChanges

\* No command deletes a cluster with an engine that the CLI does not support, or
\* changes its password: for any clusters and any moment between the reading,
\* the confirmation and the request.
THEOREM ForeignClustersAreKept == Spec => ForeignClustersStay
<1>1. /\ StepInv /\ ChangeInv /\ (StepInv /\ ChangeInv)' /\ [Next]_vars
      => [ForeignClustersKept]_vars
  BY ForeignSpared
<1> QED BY <1>1, ReadingsStand, PTL DEF Spec, ForeignClustersStay
=============================================================================
