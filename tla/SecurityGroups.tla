--------------------------- MODULE SecurityGroups ---------------------------
(***************************************************************************)
(* SecurityGroupService: create, delete, get, list, update. The answer to  *)
(* a creation need not hold the id, which is then looked up by name; an    *)
(* update without --description sends the description that it has read.    *)
(* The rules come from a file, which both need; they replace the old ones. *)
(***************************************************************************)
EXTENDS CliCommand, FiniteSets

CONSTANTS
    OldGroups,   \* the groups at first: records of Group
    NewGroupIds, \* ids the API gives to new groups
    NoText       \* the empty description

\* The API gives no id twice.
ASSUME GroupsAssumption ==
    /\ IsFiniteSet(OldGroups) /\ NewGroupIds \cap {g.id : g \in OldGroups} = {}
    /\ \A g, h \in OldGroups : g.id = h.id => g = h

VARIABLES groups  \* the groups of the API

GroupsInit == groups = OldGroups

Group(id, body) ==
    [id |-> id, name |-> body.name, description |-> body.description,
     rules |-> body.rules]

OtherGroups(id) == {g \in groups : g.id # id}

-----------------------------------------------------------------------------
\* The API (external): names need not be unique, the answer may lack the id.
MakeGroup(p) ==
    /\ \E m \in wire[p], id \in NewGroupIds :
         /\ m.request.path = "groups" /\ m.request.method = "POST"
         /\ \A q \in Proc : id \notin created[q]
         /\ Take(p, m, id) \/ Take(p, m, None)
         /\ groups' = groups \cup {Group(id, m.request.arg)}
         /\ created' = [created EXCEPT ![p] = @ \cup {id}]
    /\ UNCHANGED <<progressVars, disturbed>>

\* Every other update that has begun may have read the group before; who has
\* made it does not find it by its name any more.
ChangeGroup(p) ==
    /\ \E m \in wire[p], g \in groups :
         /\ m.request.path = "group" /\ m.request.method = "PUT"
         /\ g.id = cmd[p].target
         /\ Take(p, m, None)
         /\ groups' = OtherGroups(g.id) \cup
                        {Group(g.id, m.request.arg)}
    /\ disturbed' = disturbed \cup
           {q \in Proc \ {p} : pc[q] # "idle" /\ cmd[q].op = "group-update"} \cup
           {q \in Proc : cmd[p].target \in created[q]}
    /\ UNCHANGED <<progressVars, created>>

DropGroup(p) ==
    /\ \E m \in wire[p], g \in groups :
         /\ m.request.path = "group" /\ m.request.method = "DELETE"
         /\ g.id = cmd[p].target
         /\ Take(p, m, None)
         /\ groups' = OtherGroups(g.id)
    /\ UNCHANGED commandVars

AnswerGroup(p) ==
    /\ \E g \in groups :
         g.id = cmd[p].target /\ AnswerGet(p, "group", g.description)
    /\ UNCHANGED <<commandVars, groups>>

AnswerGroups(p) ==
    AnswerGet(p, "groups", groups) /\ UNCHANGED <<commandVars, groups>>

-----------------------------------------------------------------------------
GroupRequest(method, arg) == Request(method, "group", arg)

\* The rules of the line are what its file holds: None if it cannot be read or
\* does not hold rules.
HasRules(p) == cmd[p].rules # None

\* RULES_FILE_READ_FAILED, INVALID_RULES_FILE, EMPTY_RULES_FILE
RulesUnusable(p) ==
    /\ \/ Begins(p, "group-create")
       \/ Begins(p, "group-update")
    /\ ~HasRules(p)
    /\ Fail(p)

Body(line, description) ==
    [name |-> line.name, description |-> description, rules |-> line.rules]

\* The description that is sent when the command line has none.
Described(p) == IF cmd[p].description = None THEN NoText ELSE cmd[p].description

CreateGroup(p) ==
    /\ Begins(p, "group-create") /\ HasRules(p)
    /\ Ask(p, "group-create",
           Request("POST", "groups", Body(cmd[p], Described(p))))

GroupCreated(p) ==
    /\ pc[p] = "group-create" /\ Has(p, "ok") /\ Value(p) # None
    /\ Succeed(p, Value(p))

GroupUnnamed(p) ==
    /\ pc[p] = "group-create" /\ Has(p, "ok") /\ Value(p) = None
    /\ Ask(p, "group-lookup", Request("GET", "groups", None))

Matches(p) == {g \in Value(p) : g.name = cmd[p].name}

\* A faulty variant: the first of several groups of that name will do.
IsClear(matches) == matches # {}

IsUnique(matches) == Cardinality(matches) = 1

GroupLookedUp(p) ==
    /\ pc[p] = "group-lookup" /\ Has(p, "ok") /\ IsUnique(Matches(p))
    /\ \E g \in Matches(p) : Succeed(p, g.id)

\* SECURITY_GROUP_ID_LOOKUP_FAILED
GroupUnclear(p) ==
    /\ pc[p] = "group-lookup" /\ Has(p, "ok") /\ ~IsUnique(Matches(p))
    /\ Fail(p)

DeleteGroup(p) == SendChange(p, "group-delete", GroupRequest("DELETE", None))

\* updateSecurityGroup with --description needs no reading.
UpdateGroup(p) ==
    /\ Begins(p, "group-update") /\ HasRules(p) /\ cmd[p].description # None
    /\ Ask(p, "change", GroupRequest("PUT", Body(cmd[p], cmd[p].description)))

ReadForUpdate(p) ==
    /\ Begins(p, "group-update") /\ HasRules(p) /\ cmd[p].description = None
    /\ Ask(p, "group-read", GroupRequest("GET", None))

\* A faulty variant: a description that is not given is emptied.
KeptDescriptionLost(p) == NoText

KeptDescription(p) == Value(p)

UpdateRead(p) ==
    /\ pc[p] = "group-read" /\ Has(p, "ok")
    /\ Ask(p, "change", GroupRequest("PUT", Body(cmd[p], KeptDescription(p))))

GetGroup(p) ==
    Begins(p, "group-get") /\ Ask(p, "group-get", GroupRequest("GET", None))

ListGroups(p) ==
    /\ Begins(p, "group-list")
    /\ Ask(p, "group-get", Request("GET", "groups", None))

GroupShown(p) == pc[p] = "group-get" /\ Has(p, "ok") /\ Succeed(p, Value(p))

-----------------------------------------------------------------------------
GroupStep(p) ==
    /\ \/ RulesUnusable(p) \/ CreateGroup(p) \/ GroupCreated(p) \/ GroupUnnamed(p)
       \/ GroupLookedUp(p) \/ GroupUnclear(p) \/ DeleteGroup(p)
       \/ UpdateGroup(p) \/ ReadForUpdate(p) \/ UpdateRead(p)
       \/ GetGroup(p) \/ ListGroups(p) \/ GroupShown(p)
       \/ Uncaught(p, {"group-create", "group-lookup", "group-read", "group-get"})
    /\ UNCHANGED groups

GroupApi(p) ==
    \/ MakeGroup(p) \/ ChangeGroup(p) \/ DropGroup(p)
    \/ AnswerGroup(p) \/ AnswerGroups(p)
=============================================================================
