---------------------------- MODULE LoadBalancer ----------------------------
(***************************************************************************)
(* The `lb` command family: LoadBalancerService in several processes that  *)
(* work on one load balancer of the API.                                   *)
(*                                                                         *)
(* Every change of an existing balancer is a GET, a decision on what the   *)
(* GET returned and a PUT of the whole next state: there is no version, no *)
(* lock and no retry. A request that was sent may be answered, may be lost,*)
(* or may outlive the process that sent it and be applied later.           *)
(***************************************************************************)
EXTENDS BalancerData

CONSTANTS
    Client,           \* shells in which the CLI is run, again and again
    Menus,            \* sets of commands, one of which a behaviour uses
    InitialBalancers, \* what the API may hold at first, None: no balancer
    Gone              \* the balancer was deleted

VARIABLES
    menu,    \* the commands that the shells use; it never changes
    lb,      \* what the API holds
    pc,      \* pc[p]: where the command of p is
    cmd,     \* cmd[p]: the command that p runs
    request  \* request[p]: the changing request of p that is under way

vars == <<menu, lb, pc, cmd, request>>

ASSUME CommandAssumption ==
    /\ Menus \subseteq SUBSET Command
    /\ \A commands \in Menus : \A c \in commands :
         /\ c.op = "create" => c.group # None /\ c.mode # None
         /\ c.op \in {"group-add", "group-update", "group-remove",
                      "server-add", "server-remove"} => c.group # None
         /\ c.op = "server-add" => c.servers # <<>>
         /\ c.op = "server-remove" => c.server # None
         /\ c.op \in {"vpc-attach", "vpc-detach"} => c.vpc # None
    /\ InitialBalancers \subseteq Balancer \cup {None}
    /\ Gone \notin Balancer \cup {None} /\ None \notin Balancer

Request ==
    [method : {"POST", "PUT"}, body : Payload] \cup [method : {"DELETE"}]

ASSUME RequestAssumption == None \notin Request

TypeOK ==
    /\ menu \in Menus
    /\ lb \in Balancer \cup {None, Gone}
    /\ pc \in [Client -> {"idle", "run", "wait", "answered"}]
    /\ cmd \in [Client -> menu \cup {None}]
    /\ \A p \in Client : pc[p] # "idle" => cmd[p] \in menu
    /\ request \in [Client -> Request \cup {None}]

Init ==
    /\ menu \in Menus
    /\ lb \in InitialBalancers
    /\ pc = [p \in Client |-> "idle"]
    /\ cmd = [p \in Client |-> None]
    /\ request = [p \in Client |-> None]

-----------------------------------------------------------------------------
Live == lb \notin {None, Gone}

Goto(p, label) == pc' = [pc EXCEPT ![p] = label]

\* The process of p ends.
End(p) ==
    /\ Goto(p, "idle")
    /\ cmd' = [cmd EXCEPT ![p] = None]
    /\ UNCHANGED <<lb, request>>

\* A command is started. One balancer is followed: `lb create` makes it, and
\* the other commands name it. A shell waits until the API is done with its
\* last request; a user who does not wait is another shell.
Start(p, c) ==
    /\ pc[p] = "idle" /\ request[p] = None
    /\ c.op = "create" <=> lb = None
    /\ cmd' = [cmd EXCEPT ![p] = c]
    /\ Goto(p, "run")
    /\ UNCHANGED <<lb, request>>

Send(p, message) ==
    /\ request' = [request EXCEPT ![p] = message]
    /\ Goto(p, "wait")
    /\ UNCHANGED <<lb, cmd>>

Create(p) ==
    /\ pc[p] = "run" /\ cmd[p].op = "create" /\ ~CreateRefused(cmd[p])
    /\ Send(p, [method |-> "POST", body |-> CreateRequest(cmd[p])])

\* deleteLoadBalancer does not read the balancer; --force or a confirmation.
Delete(p) ==
    /\ pc[p] = "run" /\ cmd[p].op = "delete"
    /\ Send(p, [method |-> "DELETE"])

(***************************************************************************)
(* resolveMutationState and applyMutation: the GET is answered and, with   *)
(* nothing in between that others could see, the PUT is sent.              *)
(***************************************************************************)
Mutate(p) ==
    /\ pc[p] = "run" /\ cmd[p].op \notin {"create", "delete"}
    /\ Live /\ ~Refused(lb, cmd[p])
    /\ Send(p, [method |-> "PUT", body |-> MutationPayload(lb, cmd[p])])

\* The command ends with a usage error, without changing anything.
Refuse(p) ==
    /\ pc[p] = "run"
    /\ \/ cmd[p].op = "create" /\ CreateRefused(cmd[p])
       \/ cmd[p].op \notin {"create", "delete"} /\ Live /\ Refused(lb, cmd[p])
    /\ End(p)

\* A GET fails or finds no balancer, or the user declines the prompt.
GiveUp(p) ==
    /\ pc[p] = "run"
    /\ End(p)

-----------------------------------------------------------------------------
(***************************************************************************)
(* The API. A field that a PUT does not contain keeps its value. Of a      *)
(* balancer whose type it did not tell, it may tell the type that the PUT  *)
(* names, or still none; a type once told is told from then on.            *)
(***************************************************************************)
Applied(balancer, body) ==
    {[body EXCEPT !.certificate = IF @ = Absent THEN balancer.certificate ELSE @,
                  !.type = t] :
        t \in {body.type} \cup ({balancer.type} \ Type)}

Apply(p) ==
    /\ request[p] # None
    /\ lb' \in CASE request[p].method = "POST" /\ lb = None -> {request[p].body}
                [] request[p].method = "PUT" /\ Live -> Applied(lb, request[p].body)
                [] request[p].method = "DELETE" /\ Live -> {Gone}
                [] OTHER -> {lb}
    /\ request' = [request EXCEPT ![p] = None]
    /\ pc' = [pc EXCEPT ![p] = IF @ = "wait" THEN "answered" ELSE @]
    /\ UNCHANGED cmd

Lose(p) ==
    /\ request[p] # None
    /\ request' = [request EXCEPT ![p] = None]
    /\ UNCHANGED <<lb, pc, cmd>>

\* The answer arrives, and the command ends.
Answer(p) ==
    /\ pc[p] = "answered"
    /\ End(p)

\* The transport gives up after its timeout, or the process is killed; the
\* request, if the API has not taken it yet, is still under way.
TimeOut(p) ==
    /\ pc[p] \in {"wait", "answered"}
    /\ End(p)

-----------------------------------------------------------------------------
Step(p) ==
    \/ \E c \in menu : Start(p, c)
    \/ Create(p) \/ Delete(p) \/ Mutate(p) \/ Refuse(p) \/ GiveUp(p)
    \/ Apply(p) \/ Lose(p) \/ Answer(p) \/ TimeOut(p)

Next == (\E p \in Client : Step(p)) /\ UNCHANGED menu

Spec == Init /\ [][Next]_vars
=============================================================================
