--------------------------- MODULE BalancerService ---------------------------
(***************************************************************************)
(* What `e2ectl lb` promises a user who runs one command at a time: backend*)
(* groups and their servers, which change one group or one server at a     *)
(* time, and the routing rules of the groups. There are no requests and no *)
(* readings here.                                                          *)
(***************************************************************************)
EXTENDS Naturals, Sequences, SequencesExt

CONSTANTS GroupName, Server, None

VARIABLES
    phase,   \* "none", "live" or "gone"
    servers, \* servers[n]: the servers of group n, None if there is no such group
    routes   \* the rules that route requests to groups

vars == <<phase, servers, routes>>

Groups == {n \in GroupName : servers[n] # None}

NoGroups == [n \in GroupName |-> None]

Init ==
    /\ phase \in {"none", "live"}
    /\ phase = "none" => servers = NoGroups /\ routes = {}

Create(n) ==
    /\ phase = "none" /\ phase' = "live"
    /\ servers'[n] \in Seq(Server) \ {<<>>}
    /\ servers' = [NoGroups EXCEPT ![n] = servers'[n]]
    /\ routes' = {}

Delete == phase = "live" /\ phase' = "gone" /\ servers' = NoGroups /\ routes' = {}

AddGroup(n) ==
    /\ n \notin Groups
    /\ servers'[n] \in Seq(Server) \ {<<>>}
    /\ servers' = [servers EXCEPT ![n] = servers'[n]]
    /\ UNCHANGED <<phase, routes>>

RenameGroup(n, m) ==
    /\ n \in Groups /\ m \notin Groups
    /\ servers' = [servers EXCEPT ![m] = servers[n], ![n] = None]
    /\ UNCHANGED <<phase, routes>>

\* The groups that stay keep their rules, and no other rule is left.
RemoveGroup(n) ==
    /\ n \in Groups /\ Groups # {n}
    /\ servers' = [servers EXCEPT ![n] = None]
    /\ routes' = {r \in routes : r.acl_backend \in Groups \ {n}}
    /\ UNCHANGED phase

AddServer(n, s) ==
    /\ n \in Groups
    /\ \A i \in DOMAIN servers[n] : servers[n][i].backend_name # s.backend_name
    /\ servers' = [servers EXCEPT ![n] = Append(@, s)]
    /\ UNCHANGED <<phase, routes>>

\* A server goes that no other one could be mistaken for.
RemoveServer(n, i) ==
    /\ n \in Groups /\ Len(servers[n]) > 1
    /\ \A j \in DOMAIN servers[n] \ {i} :
          servers[n][j].backend_name # servers[n][i].backend_name
    /\ servers' = [servers EXCEPT ![n] = RemoveAt(@, i)]
    /\ UNCHANGED <<phase, routes>>

Next ==
    \/ Delete
    \/ \E n \in GroupName :
         \/ Create(n) \/ AddGroup(n) \/ RemoveGroup(n)
         \/ \E m \in GroupName : RenameGroup(n, m)
         \/ \E s \in Server : AddServer(n, s)
         \/ n \in Groups /\ \E i \in DOMAIN servers[n] : RemoveServer(n, i)

Spec == Init /\ [][Next]_vars
=============================================================================
