----------------------- MODULE LoadBalancerRefinement -----------------------
(***************************************************************************)
(* Proof that the lb commands, run one at a time, implement                *)
(* BalancerService: a PUT of the whole balancer changes one group or one   *)
(* server of it, for any menus, groups, servers and balancers.             *)
(***************************************************************************)
EXTENDS LoadBalancerProofs

\* One shell only: its commands run one at a time.
Alone == \A p, q \in Client : p = q

-----------------------------------------------------------------------------
(***************************************************************************)
(* Groups as a function of their names.                                    *)
(***************************************************************************)
HasNamedGroups(b) ==
    /\ b.groups \subseteq Group
    /\ \A g, h \in b.groups : g.name = h.name => g = h

LEMMA BalancerNames ==
    ASSUME NEW b \in Balancer, IsSound(b)
    PROVE  HasNamedGroups(b)
BY DEF Balancer, BalancerWith, IsSound, Serves, HasNamedGroups

LEMMA ServersOfGroup ==
    ASSUME NEW b, HasNamedGroups(b), NEW g \in b.groups
    PROVE  /\ g.name \in GroupName /\ g.name \in GroupNames(b)
           /\ ServersIn(b)[g.name] = g.servers /\ g.servers \in Seq(Server)
<1>1. g.name \in GroupName /\ g.servers \in Seq(Server)
  BY DEF HasNamedGroups, Group
<1>2. Named(b, g.name) = {g}
  BY DEF HasNamedGroups, Named
<1>3. (CHOOSE h \in Named(b, g.name) : TRUE) = g
  BY <1>2
<1> QED BY <1>1, <1>3 DEF ServersIn, GroupNames

LEMMA ServersInType ==
    ASSUME NEW b, HasNamedGroups(b)
    PROVE  ServersIn(b) \in [GroupName -> Seq(Server) \cup {None}]
<1>1. ASSUME NEW n \in GroupNames(b)
      PROVE  (CHOOSE g \in Named(b, n) : TRUE).servers \in Seq(Server)
  <2>1. PICK g \in b.groups : g.name = n
    BY DEF GroupNames
  <2>2. Named(b, n) = {g}
    BY <2>1 DEF HasNamedGroups, Named
  <2> QED BY <2>2, ServersOfGroup
<1> QED BY <1>1 DEF ServersIn

LEMMA NoServersElsewhere ==
    ASSUME NEW b, HasNamedGroups(b), NEW n \in GroupName
    PROVE  ServersIn(b)[n] = None <=> n \notin GroupNames(b)
<1>1. ASSUME n \in GroupNames(b) PROVE ServersIn(b)[n] # None
  <2>1. PICK g \in b.groups : g.name = n
    BY <1>1 DEF GroupNames
  <2> QED BY <2>1, ServersOfGroup, BalancerAssumption
<1> QED BY <1>1 DEF ServersIn

\* Functions that give each group its servers, and nothing else, are the same.
LEMMA SameServers ==
    ASSUME NEW b, HasNamedGroups(b),
           NEW s \in [GroupName -> Seq(Server) \cup {None}],
           \A g \in b.groups : s[g.name] = g.servers,
           \A n \in GroupName : n \notin GroupNames(b) => s[n] = None
    PROVE  ServersIn(b) = s
<1>1. \A n \in GroupName : ServersIn(b)[n] = s[n]
  <2> SUFFICES ASSUME NEW n \in GroupName
               PROVE  ServersIn(b)[n] = s[n]
    OBVIOUS
  <2>1. CASE n \in GroupNames(b)
    <3>1. PICK g \in b.groups : g.name = n
      BY <2>1 DEF GroupNames
    <3> QED BY <3>1, ServersOfGroup
  <2> QED BY <2>1, NoServersElsewhere
<1> QED BY <1>1, ServersInType

-----------------------------------------------------------------------------
(***************************************************************************)
(* Each mutation in terms of names: d is the balancer after it.            *)
(***************************************************************************)
LEMMA GroupAddedNames ==
    ASSUME NEW b, HasNamedGroups(b), NEW c \in Command, c.group # None,
           IsSound(b), ~GroupAddRefused(b, c),
           NEW d, HasNamedGroups(d), d.groups = GroupAdded(b, c).groups
    PROVE  /\ c.group \in GroupName /\ ServersIn(b)[c.group] = None
           /\ c.servers \in Seq(Server) \ {<<>>}
           /\ ServersIn(d) = [ServersIn(b) EXCEPT ![c.group] = c.servers]
<1> DEFINE new == [name |-> c.group, servers |-> c.servers]
           s == [ServersIn(b) EXCEPT ![c.group] = c.servers]
<1>1. d.groups = b.groups \cup {new}
  BY DEF GroupAdded, Repeated
<1>2. c.group \in GroupName /\ c.servers \in Seq(Server) \ {<<>>}
  BY DEF Command, GroupAddRefused
<1>3. c.group \notin GroupNames(b)
  BY DEF GroupAddRefused, IsSound, Serves
<1>4. ServersIn(b)[c.group] = None
  BY <1>2, <1>3, NoServersElsewhere
<1>5. \A n \in GroupName : s[n] = IF n = c.group THEN c.servers ELSE ServersIn(b)[n]
  BY ServersInType
<1>6. s \in [GroupName -> Seq(Server) \cup {None}]
  BY <1>2, ServersInType
<1> HIDE DEF s
<1>7. \A g \in b.groups : g.name # c.group /\ s[g.name] = g.servers
  BY <1>3, <1>5, ServersOfGroup DEF GroupNames
<1>8. \A g \in d.groups : s[g.name] = g.servers
  BY <1>1, <1>2, <1>5, <1>7
<1>9. \A n \in GroupName : n \notin GroupNames(d) => s[n] = None
  <2>1. \A n : n \notin GroupNames(d) => n # c.group /\ n \notin GroupNames(b)
    BY <1>1 DEF GroupNames
  <2> QED BY <1>5, <2>1, NoServersElsewhere
<1>10. ServersIn(d) = s
  BY <1>6, <1>8, <1>9, SameServers
<1> QED BY <1>2, <1>4, <1>10 DEF s

LEMMA GroupUpdatedNames ==
    ASSUME NEW b, HasNamedGroups(b), NEW c \in Command, c.group # None,
           ~GroupUpdateRefused(b, c),
           NEW d, HasNamedGroups(d), d.groups = GroupUpdated(b, c).groups
    PROVE  \/ ServersIn(d) = ServersIn(b)
           \/ /\ c.group \in GroupName /\ ServersIn(b)[c.group] # None
              /\ c.name \in GroupName /\ ServersIn(b)[c.name] = None
              /\ ServersIn(d) = [ServersIn(b) EXCEPT
                                   ![c.name] = ServersIn(b)[c.group],
                                   ![c.group] = None]
<1> DEFINE name == IF c.name = None THEN c.group ELSE c.name
           f(g) == IF g.name = c.group THEN [g EXCEPT !.name = name] ELSE g
<1>1. d.groups = {f(g) : g \in b.groups}
  BY DEF GroupUpdated, Repeated
<1>2. c.group \in GroupName /\ name \in GroupName
  BY DEF Command
<1>3. \A g \in b.groups : /\ f(g).servers = g.servers
                          /\ f(g).name = IF g.name = c.group THEN name ELSE g.name
  BY DEF HasNamedGroups, Group
<1>4. CASE name = c.group
  <2>1. \A g \in b.groups : f(g) = g
    BY <1>4 DEF HasNamedGroups, Group
  <2>2. d.groups = b.groups
    BY <1>1, <2>1
  <2> QED BY <2>2 DEF ServersIn, GroupNames, Named
<1>5. CASE name # c.group
  <2>1. c.name = name /\ name \notin GroupNames(b) /\ c.group \in GroupNames(b)
    BY <1>5 DEF GroupUpdateRefused
  <2> DEFINE s == [ServersIn(b) EXCEPT ![name] = ServersIn(b)[c.group],
                                       ![c.group] = None]
  <2>2. \A n \in GroupName :
          s[n] = IF n = c.group THEN None
                 ELSE IF n = name THEN ServersIn(b)[c.group]
                 ELSE ServersIn(b)[n]
    BY <1>2, <1>5, ServersInType
  <2>3. s \in [GroupName -> Seq(Server) \cup {None}]
    BY <1>2, ServersInType
  <2> HIDE DEF s, f, name
  <2>4. \A g \in b.groups : s[f(g).name] = f(g).servers
    <3> SUFFICES ASSUME NEW g \in b.groups
                 PROVE  s[f(g).name] = f(g).servers
      OBVIOUS
    <3>1. g.name \in GroupName /\ ServersIn(b)[g.name] = g.servers /\ g.name # name
      BY <2>1, ServersOfGroup
    <3> QED BY <1>2, <1>3, <1>5, <2>2, <3>1
  <2>5. \A g \in d.groups : s[g.name] = g.servers
    BY <1>1, <2>4
  <2>6. \A n \in GroupName : n \notin GroupNames(d) => s[n] = None
    <3> SUFFICES ASSUME NEW n \in GroupName, n \notin GroupNames(d), n # c.group
                 PROVE  s[n] = None
      BY <2>2
    <3>1. PICK g \in b.groups : g.name = c.group
      BY <2>1 DEF GroupNames
    <3>2. f(g).name = name /\ f(g) \in d.groups
      BY <1>1, <1>3, <3>1
    <3>3. n # name
      BY <3>2 DEF GroupNames
    <3>4. n \notin GroupNames(b)
      <4> SUFFICES ASSUME NEW h \in b.groups, h.name = n
                   PROVE  FALSE
        BY DEF GroupNames
      <4> QED BY <1>1, <1>3 DEF GroupNames
    <3> QED BY <2>2, <3>3, <3>4, NoServersElsewhere
  <2>7. ServersIn(d) = s
    BY <2>3, <2>5, <2>6, SameServers
  <2> QED BY <1>2, <2>1, <2>7, NoServersElsewhere DEF s
<1> QED BY <1>4, <1>5

\* The rules that stay are those of the groups that stay; a TCP balancer, whose
\* rules would not be filtered, has only one group and never gets here.
LEMMA GroupRemovedNames ==
    ASSUME NEW b, HasNamedGroups(b), NEW c \in Command, c.group # None,
           IsSound(b), ~GroupRemoveRefused(b, c),
           NEW d, HasNamedGroups(d), IsSound(d),
           d.groups = GroupRemoved(b, c).groups,
           d.acl_map = GroupRemoved(b, c).acl_map, b \in Balancer
    PROVE  /\ c.group \in GroupName /\ ServersIn(b)[c.group] # None
           /\ GroupNames(b) # {c.group}
           /\ ServersIn(d) = [ServersIn(b) EXCEPT ![c.group] = None]
           /\ d.acl_map = {r \in b.acl_map :
                             r.acl_backend \in GroupNames(b) \ {c.group}}
<1> DEFINE s == [ServersIn(b) EXCEPT ![c.group] = None]
<1>1. d.groups = b.groups \ Named(b, c.group)
  BY DEF GroupRemoved, Repeated, Balancer, BalancerWith
<1>2. c.group \in GroupNames(b) /\ c.group \in GroupName
  BY DEF Command, GroupRemoveRefused
<1>3. ~IsNlb(b)
  BY FS_CardinalityType DEF GroupRemoveRefused, IsSound, Serves
<1>4. GroupNames(d) = GroupNames(b) \ {c.group}
  BY <1>1 DEF GroupNames, Named
<1>5. GroupNames(b) # {c.group}
  <2>1. PICK g \in d.groups : TRUE
    BY DEF IsSound, Serves
  <2> QED BY <1>4, <2>1 DEF GroupNames
<1>6. \A n \in GroupName : s[n] = IF n = c.group THEN None ELSE ServersIn(b)[n]
  BY ServersInType
<1>7. s \in [GroupName -> Seq(Server) \cup {None}]
  BY ServersInType
<1>8. d.acl_map = {r \in b.acl_map : r.acl_backend \in GroupNames(b) \ {c.group}}
  <2>1. d.acl_map = AclMapForRemaining(b, d.groups)
    BY <1>1, <1>3 DEF GroupRemoved, Repeated, Balancer, BalancerWith
  <2> QED BY <1>4, <2>1 DEF AclMapForRemaining, GroupNames
<1> HIDE DEF s
<1>9. \A g \in d.groups : g \in b.groups /\ g.name # c.group
  BY <1>1 DEF Named
<1>10. \A g \in d.groups : s[g.name] = g.servers
  BY <1>6, <1>9, ServersOfGroup
<1>11. \A n \in GroupName : n \notin GroupNames(d) => s[n] = None
  BY <1>4, <1>6, NoServersElsewhere
<1>12. ServersIn(d) = s
  BY <1>7, <1>10, <1>11, SameServers
<1> QED BY <1>2, <1>5, <1>8, <1>12, NoServersElsewhere DEF s

\* The groups of b after a mutation of the servers of one group: they are v.
WithServers(b, name, v) ==
    {IF g.name = name THEN [g EXCEPT !.servers = v] ELSE g : g \in b.groups}

LEMMA ServersChangedNames ==
    ASSUME NEW b, HasNamedGroups(b), NEW name \in GroupNames(b),
           NEW v \in Seq(Server), NEW d, HasNamedGroups(d),
           d.groups = WithServers(b, name, v)
    PROVE  /\ name \in GroupName /\ ServersIn(b)[name] # None
           /\ ServersIn(d) = [ServersIn(b) EXCEPT ![name] = v]
<1> DEFINE f(g) == IF g.name = name THEN [g EXCEPT !.servers = v] ELSE g
           s == [ServersIn(b) EXCEPT ![name] = v]
<1>1. PICK h \in b.groups : h.name = name
  BY DEF GroupNames
<1>2. name \in GroupName /\ ServersIn(b)[name] # None
  BY <1>1, ServersOfGroup, NoServersElsewhere
<1>3. d.groups = {f(g) : g \in b.groups}
  BY DEF WithServers
<1>4. \A g \in b.groups :
        /\ f(g).name = g.name
        /\ f(g).servers = IF g.name = name THEN v ELSE g.servers
  BY DEF HasNamedGroups, Group
<1>5. s \in [GroupName -> Seq(Server) \cup {None}]
  BY <1>2, ServersInType
<1>6. \A n \in GroupName : s[n] = IF n = name THEN v ELSE ServersIn(b)[n]
  BY ServersInType
<1> HIDE DEF s, f
<1>7. \A g \in b.groups : s[f(g).name] = f(g).servers
  BY <1>4, <1>6, ServersOfGroup
<1>8. \A g \in d.groups : s[g.name] = g.servers
  BY <1>3, <1>7
<1>9. \A n \in GroupName : n \notin GroupNames(d) => n \notin GroupNames(b)
  BY <1>3, <1>4 DEF GroupNames
<1>10. \A n \in GroupName : n \notin GroupNames(d) => s[n] = None
  BY <1>6, <1>9, NoServersElsewhere
<1>11. ServersIn(d) = s
  BY <1>5, <1>8, <1>10, SameServers
<1> QED BY <1>2, <1>11 DEF s

LEMMA ServerAddedNames ==
    ASSUME NEW b, HasNamedGroups(b), NEW c \in Command, c.group # None,
           c.servers # <<>>, ~ServerAddRefused(b, c),
           NEW d, HasNamedGroups(d), d.groups = ServerAdded(b, c).groups
    PROVE  /\ c.group \in GroupName /\ ServersIn(b)[c.group] # None
           /\ c.servers[1] \in Server
           /\ \A i \in DOMAIN ServersIn(b)[c.group] :
                ServersIn(b)[c.group][i].backend_name # c.servers[1].backend_name
           /\ ServersIn(d) = [ServersIn(b) EXCEPT ![c.group] = Append(@, c.servers[1])]
<1>1. c.servers[1] \in Server
  BY ElementOfSeq, EmptySeq, LenProperties DEF Command
<1>2. PICK h \in b.groups : h.name = c.group
  BY DEF ServerAddRefused, GroupNames
<1>3. /\ ServersIn(b)[c.group] = h.servers /\ h.servers \in Seq(Server)
      /\ c.group \in GroupNames(b)
  BY <1>2, ServersOfGroup
<1>4. PICK v : v = Append(h.servers, c.servers[1])
  OBVIOUS
<1>5. v \in Seq(Server)
  BY <1>1, <1>3, <1>4, AppendProperties
<1>6. \A g \in b.groups : g.name = c.group => g = h
  BY <1>2 DEF HasNamedGroups
<1>7. d.groups = WithServers(b, c.group, v)
  BY <1>4, <1>6 DEF WithServers, ServerAdded, Repeated
<1>8. /\ c.group \in GroupName /\ ServersIn(b)[c.group] # None
      /\ ServersIn(d) = [ServersIn(b) EXCEPT ![c.group] = v]
  BY <1>3, <1>5, <1>7, ServersChangedNames
<1>9. Positions(h.servers, c.servers[1].backend_name) = {}
  BY <1>2 DEF ServerAddRefused, Named
<1> QED BY <1>1, <1>3, <1>4, <1>8, <1>9 DEF Positions

LEMMA ServerRemovedNames ==
    ASSUME NEW b, HasNamedGroups(b), NEW c \in Command, c.group # None,
           ~ServerRemoveRefused(b, c),
           NEW d, HasNamedGroups(d), d.groups = ServerRemoved(b, c).groups
    PROVE  /\ c.group \in GroupName /\ ServersIn(b)[c.group] # None
           /\ Len(ServersIn(b)[c.group]) > 1
           /\ \E i \in DOMAIN ServersIn(b)[c.group] :
                /\ \A j \in DOMAIN ServersIn(b)[c.group] \ {i} :
                     ServersIn(b)[c.group][j].backend_name
                       # ServersIn(b)[c.group][i].backend_name
                /\ ServersIn(d) = [ServersIn(b) EXCEPT ![c.group] = RemoveAt(@, i)]
<1>1. PICK h \in b.groups : h.name = c.group
  BY DEF ServerRemoveRefused, GroupNames
<1>2. /\ ServersIn(b)[c.group] = h.servers /\ h.servers \in Seq(Server)
      /\ c.group \in GroupNames(b)
  BY <1>1, ServersOfGroup
<1>3. ~(Len(h.servers) <= 1) /\ Cardinality(Positions(h.servers, c.server)) = 1
  BY <1>1 DEF ServerRemoveRefused, Named
<1>4. PICK i : Positions(h.servers, c.server) = {i}
  <2>1. IsFiniteSet(1 .. Len(h.servers)) /\ DOMAIN h.servers = 1 .. Len(h.servers)
    BY <1>2, LenProperties, FS_Interval
  <2>2. IsFiniteSet(Positions(h.servers, c.server))
    BY <2>1, FS_Subset DEF Positions
  <2> QED BY <1>3, <2>2, FS_Singleton
<1>5. PICK v : v = WithoutServer(h.servers, c.server)
  OBVIOUS
<1>6. v = RemoveAt(h.servers, i)
  BY <1>4, <1>5 DEF WithoutServer
<1>7. v \in Seq(Server)
  BY <1>2, <1>3, <1>5, WithoutServerType
<1>8. \A g \in b.groups : g.name = c.group => g = h
  BY <1>1 DEF HasNamedGroups
<1>9. d.groups = WithServers(b, c.group, v)
  BY <1>5, <1>8 DEF WithServers, ServerRemoved, Repeated
<1>10. /\ c.group \in GroupName /\ ServersIn(b)[c.group] # None
       /\ ServersIn(d) = [ServersIn(b) EXCEPT ![c.group] = v]
  BY <1>2, <1>7, <1>9, ServersChangedNames
<1>11. /\ i \in DOMAIN h.servers
       /\ \A j \in DOMAIN h.servers \ {i} :
            h.servers[j].backend_name # h.servers[i].backend_name
  BY <1>4 DEF Positions
<1>12. Len(h.servers) > 1
  BY <1>2, <1>3, LenProperties
<1> QED BY <1>2, <1>6, <1>10, <1>11, <1>12

-----------------------------------------------------------------------------
(***************************************************************************)
(* With one shell, what is under way was made from the balancer as it is.  *)
(***************************************************************************)
AbstractStep == [Abstract!Next]_Abstract!vars

Fresh ==
    \A p \in Client :
      /\ UnderWay(p, "POST") =>
           \E c \in Command : /\ HasOptions(c) /\ c.op = "create" /\ ~CreateRefused(c)
                             /\ request[p].body = CreateRequest(c)
      /\ UnderWay(p, "PUT") =>
           /\ Live
           /\ \E c \in Command : /\ HasOptions(c) /\ Mutates(c) /\ ~Refused(lb, c)
                                /\ request[p].body = MutationPayload(lb, c)

LEMMA FreshStep ==
    ASSUME Alone, BalancerInv, Fresh, NEW p \in Client, Step(p)
    PROVE  Fresh'
<1>1. \A q \in Client : q = p
  BY DEF Alone
<1>2. Quiet(p) \/ SendsPost(p) \/ SendsDelete(p) \/ SendsPut(p) \/ Apply(p)
  BY StepShape
<1>3. ASSUME lb' = lb, request' = request
      PROVE  Fresh'
  BY <1>3 DEF Fresh, UnderWay, Live
<1>4. ASSUME request'[p] = None
      PROVE  Fresh'
  BY <1>1, <1>4 DEF Fresh, UnderWay
<1>5. ASSUME Quiet(p)
      PROVE  Fresh'
  BY <1>3, <1>4, <1>5 DEF Quiet, BalancerInv, TypeOK
<1>6. ASSUME SendsPost(p)
      PROVE  Fresh'
  <2>1. PICK c \in Command :
          /\ HasOptions(c) /\ c.op = "create" /\ ~CreateRefused(c)
          /\ request'[p] = [method |-> "POST", body |-> CreateRequest(c)]
    BY <1>6 DEF SendsPost, BalancerInv, TypeOK
  <2> QED BY <1>1, <2>1 DEF Fresh, UnderWay
<1>7. ASSUME SendsDelete(p)
      PROVE  Fresh'
  <2>1. request'[p] = [method |-> "DELETE"]
    BY <1>7 DEF SendsDelete, BalancerInv, TypeOK
  <2> QED BY <1>1, <2>1 DEF Fresh, UnderWay
<1>8. ASSUME SendsPut(p)
      PROVE  Fresh'
  <2>1. PICK c \in Command :
          /\ HasOptions(c) /\ Mutates(c) /\ ~Refused(lb, c)
          /\ request'[p] = [method |-> "PUT", body |-> MutationPayload(lb, c)]
    BY <1>8 DEF SendsPut, BalancerInv, TypeOK
  <2>2. lb' = lb /\ Live
    BY <1>8 DEF SendsPut
  <2> QED BY <1>1, <2>1, <2>2 DEF Fresh, UnderWay, Live
<1>9. ASSUME Apply(p)
      PROVE  Fresh'
  BY <1>4, <1>9 DEF Apply, BalancerInv, TypeOK
<1> QED BY <1>2, <1>5, <1>6, <1>7, <1>8, <1>9

-----------------------------------------------------------------------------
(***************************************************************************)
(* Each change of the balancer is one abstract step.                       *)
(***************************************************************************)
LEMMA NothingChanges ==
    ASSUME Live, Live', ServersIn(lb)' = ServersIn(lb), lb'.acl_map = lb.acl_map
    PROVE  AbstractStep
BY DEF AbstractStep, Abstract!vars, Phase, ServersByName, Routes, Live

LEMMA CreateStep ==
    ASSUME NEW c \in Command, HasOptions(c), c.op = "create", ~CreateRefused(c),
           lb = None, lb' = CreateRequest(c)
    PROVE  AbstractStep
<1>1. lb' \in Balancer /\ IsSound(lb)' /\ lb' # None /\ ~Live /\ Live'
  BY CreateRequestUsable, CommandAssumption DEF Live
<1>2. lb'.groups = {[name |-> c.group, servers |-> c.servers]} /\ lb'.acl_map = {}
  BY DEF CreateRequest
<1>3. c.group \in GroupName /\ c.servers \in Seq(Server) \ {<<>>}
  BY DEF Command, HasOptions, CreateRefused
<1> DEFINE none == [n \in GroupName |-> None]
           s == [none EXCEPT ![c.group] = c.servers]
<1>4. ServersIn(lb)' = s
  <2>1. s \in [GroupName -> Seq(Server) \cup {None}]
    BY <1>3
  <2>2. \A n \in GroupName : s[n] = IF n = c.group THEN c.servers ELSE None
    OBVIOUS
  <2> HIDE DEF s
  <2>3. \A g \in lb'.groups : s[g.name] = g.servers
    BY <1>2, <1>3, <2>2
  <2>4. \A n \in GroupName : n \notin GroupNames(lb') => s[n] = None
    BY <1>2, <2>2 DEF GroupNames
  <2>5. HasNamedGroups(lb')
    BY <1>1, BalancerNames
  <2>6. ServersIn(lb') = s
    BY <2>1, <2>3, <2>4, <2>5, SameServers
  <2> QED BY <2>6 DEF ServersIn, GroupNames, Named
<1>5. Phase = "none" /\ Phase' = "live" /\ Routes' = {}
  BY <1>1, <1>2 DEF Phase, Routes
<1>6. ServersByName' = s
  BY <1>1, <1>4 DEF ServersByName
<1>7. s[c.group] = c.servers
  BY <1>3
<1>8. Abstract!Create(c.group)
  BY <1>3, <1>5, <1>6, <1>7 DEF Abstract!Create, Abstract!NoGroups
<1> QED BY <1>3, <1>8 DEF AbstractStep, Abstract!Next

\* One lemma for the mutations that change a group; s and t are the servers
\* by name before and after.
LEMMA GroupStep ==
    ASSUME Live, Live', NEW c \in Command, HasOptions(c), ~Refused(lb, c),
           c.op \in {"group-add", "group-update", "group-remove"},
           lb \in Balancer, IsSound(lb), HasNamedGroups(lb), HasNamedGroups(lb'), IsSound(lb)',
           lb'.groups = MutationPayload(lb, c).groups,
           lb'.acl_map = MutationPayload(lb, c).acl_map
    PROVE  AbstractStep
<1> DEFINE n == c.group
           s == ServersIn(lb)
<1>1. /\ ServersByName = s /\ ServersByName' = s' /\ s' = ServersIn(lb')
      /\ Phase = "live" /\ Phase' = "live"
      /\ Routes = lb.acl_map /\ Routes' = lb'.acl_map
  BY DEF ServersByName, Phase, Routes, Live, ServersIn, GroupNames, Named
<1> HIDE DEF s
<1>2. CASE c.op = "group-add"
  <2>1. /\ n \in GroupName /\ ServersIn(lb)[n] = None
        /\ c.servers \in Seq(Server) \ {<<>>}
        /\ ServersIn(lb') = [ServersIn(lb) EXCEPT ![n] = c.servers]
    BY <1>2, GroupAddedNames DEF Refused, MutationPayload, HasOptions
  <2>2. lb'.acl_map = lb.acl_map
    BY <1>2 DEF MutationPayload, GroupAdded, Repeated, Balancer, BalancerWith
  <2>3. s'[n] = c.servers
    BY <1>1, <2>1, ServersInType DEF s
  <2>4. Abstract!AddGroup(n)
    BY <1>1, <2>1, <2>2, <2>3 DEF Abstract!AddGroup, Abstract!Groups, s
  <2> QED BY <2>1, <2>4 DEF AbstractStep, Abstract!Next
<1>3. CASE c.op = "group-update"
  <2>1. lb'.acl_map = lb.acl_map
    BY <1>3 DEF MutationPayload, GroupUpdated, Repeated, Balancer, BalancerWith
  <2>2. CASE ServersIn(lb') = ServersIn(lb)
    BY <1>1, <2>1, <2>2 DEF AbstractStep, Abstract!vars, s
  <2>3. CASE /\ n \in GroupName /\ ServersIn(lb)[n] # None
             /\ c.name \in GroupName /\ ServersIn(lb)[c.name] = None
             /\ ServersIn(lb') = [ServersIn(lb) EXCEPT
                                  ![c.name] = ServersIn(lb)[n], ![n] = None]
    <3>1. Abstract!RenameGroup(n, c.name)
      BY <1>1, <2>1, <2>3 DEF Abstract!RenameGroup, Abstract!Groups, s
    <3> QED BY <2>3, <3>1 DEF AbstractStep, Abstract!Next
  <2> QED BY <1>3, <2>2, <2>3, GroupUpdatedNames DEF Refused, MutationPayload, HasOptions
<1>4. CASE c.op = "group-remove"
  <2>1. /\ n \in GroupName /\ ServersIn(lb)[n] # None
        /\ GroupNames(lb) # {n}
        /\ ServersIn(lb') = [ServersIn(lb) EXCEPT ![n] = None]
        /\ lb'.acl_map = {r \in lb.acl_map :
                            r.acl_backend \in GroupNames(lb) \ {n}}
    BY <1>4, GroupRemovedNames DEF Refused, MutationPayload, HasOptions
  <2>2. Abstract!Groups = GroupNames(lb)
    <3>1. GroupNames(lb) \subseteq GroupName
      BY DEF GroupNames, HasNamedGroups, Group
    <3> QED BY <1>1, <3>1, NoServersElsewhere DEF Abstract!Groups, s
  <2>3. Abstract!RemoveGroup(n)
    BY <1>1, <2>1, <2>2, NoServersElsewhere DEF Abstract!RemoveGroup, s
  <2> QED BY <2>1, <2>3 DEF AbstractStep, Abstract!Next
<1> QED BY <1>2, <1>3, <1>4

LEMMA ServerStep ==
    ASSUME Live, Live', NEW c \in Command, HasOptions(c), ~Refused(lb, c),
           c.op \in {"server-add", "server-remove"},
           lb \in Balancer, HasNamedGroups(lb), HasNamedGroups(lb'),
           lb'.groups = MutationPayload(lb, c).groups,
           lb'.acl_map = MutationPayload(lb, c).acl_map
    PROVE  AbstractStep
<1> DEFINE n == c.group
           s == ServersIn(lb)
<1>1. /\ ServersByName = s /\ ServersByName' = s' /\ s' = ServersIn(lb')
      /\ Phase = "live" /\ Phase' = "live"
      /\ Routes = lb.acl_map /\ Routes' = lb'.acl_map
  BY DEF ServersByName, Phase, Routes, Live, ServersIn, GroupNames, Named
<1>2. lb'.acl_map = lb.acl_map
  BY DEF MutationPayload, ServerAdded, ServerRemoved, Repeated, Balancer, BalancerWith
<1> HIDE DEF s
<1>3. CASE c.op = "server-add"
  <2>1. /\ n \in GroupName /\ s[n] # None /\ c.servers[1] \in Server
        /\ \A i \in DOMAIN s[n] : s[n][i].backend_name # c.servers[1].backend_name
        /\ s' = [s EXCEPT ![n] = Append(@, c.servers[1])]
    BY <1>1, <1>3, ServerAddedNames DEF Refused, MutationPayload, HasOptions, s
  <2>2. Abstract!AddServer(n, c.servers[1])
    BY <1>1, <1>2, <2>1 DEF Abstract!AddServer, Abstract!Groups
  <2> QED BY <2>1, <2>2 DEF AbstractStep, Abstract!Next
<1>4. CASE c.op = "server-remove"
  <2>1. /\ n \in GroupName /\ s[n] # None /\ Len(s[n]) > 1
        /\ \E i \in DOMAIN ServersIn(lb)[n] :
             /\ \A j \in DOMAIN ServersIn(lb)[n] \ {i} :
                  ServersIn(lb)[n][j].backend_name # ServersIn(lb)[n][i].backend_name
             /\ ServersIn(lb') = [ServersIn(lb) EXCEPT ![n] = RemoveAt(@, i)]
    <3>1. ~ServerRemoveRefused(lb, c) /\ lb'.groups = ServerRemoved(lb, c).groups
          /\ c.group # None
      BY <1>4 DEF Refused, MutationPayload, HasOptions
    <3> QED BY <3>1, ServerRemovedNames DEF s
  <2>2. PICK i \in DOMAIN ServersIn(lb)[n] :
             /\ \A j \in DOMAIN ServersIn(lb)[n] \ {i} :
                  ServersIn(lb)[n][j].backend_name # ServersIn(lb)[n][i].backend_name
             /\ ServersIn(lb') = [ServersIn(lb) EXCEPT ![n] = RemoveAt(@, i)]
    BY <2>1
  <2>3. Abstract!RemoveServer(n, i)
    BY <1>1, <1>2, <2>1, <2>2
       DEF Abstract!RemoveServer, Abstract!Groups, RemoveAt, Abstract!RemoveAt, s
  <2>4. n \in Abstract!Groups /\ i \in DOMAIN ServersByName[n]
    BY <1>1, <2>1, <2>2 DEF s, Abstract!Groups
  <2> QED BY <2>1, <2>3, <2>4 DEF AbstractStep, Abstract!Next
<1> QED BY <1>3, <1>4

LEMMA SettingsStep ==
    ASSUME Live, Live', NEW c \in Command,
           c.op \in {"update", "vpc-attach", "vpc-detach"}, lb \in Balancer,
           lb'.groups = MutationPayload(lb, c).groups,
           lb'.acl_map = MutationPayload(lb, c).acl_map
    PROVE  AbstractStep
<1>1. lb'.groups = lb.groups /\ lb'.acl_map = lb.acl_map
  BY DEF MutationPayload, Updated, VpcAttached, VpcDetached, Repeated,
         Balancer, BalancerWith
<1> QED BY <1>1, NothingChanges DEF ServersIn, GroupNames, Named

LEMMA PutStep ==
    ASSUME BalancerInv, NEW c \in Command, HasOptions(c), Mutates(c), ~Refused(lb, c),
           Live, lb' \in Applied(lb, MutationPayload(lb, c))
    PROVE  AbstractStep
<1> DEFINE d == MutationPayload(lb, c)
<1>1. lb \in Balancer /\ IsSound(lb)
  BY DEF BalancerInv, Usable, TypeOK, Live
<1>2. d \in Payload /\ IsSound(d)
  BY <1>1, PayloadType, PayloadSound
<1> HIDE DEF d
<1>3. /\ lb' \in Balancer /\ lb'.groups = d.groups /\ lb'.acl_map = d.acl_map
      /\ SameNetwork(d, lb')
  BY <1>1, <1>2, AppliedType DEF d
<1>4. Live' /\ IsSound(lb)'
  BY <1>2, <1>3, CommandAssumption
     DEF Live, IsSound, Serves, IsNlb, SameNetwork
<1>5. HasNamedGroups(lb) /\ HasNamedGroups(lb')
  BY <1>1, <1>3, <1>4, BalancerNames
<1>6. c.op \in Ops \ {"create", "delete"}
  BY DEF Command, Mutates
<1> QED BY <1>1, <1>3, <1>4, <1>5, <1>6, GroupStep, ServerStep, SettingsStep
        DEF d, Ops

LEMMA DeleteStep ==
    ASSUME Live, lb' = Gone
    PROVE  AbstractStep
<1>1. ~Live' /\ lb' # None
  BY CommandAssumption DEF Live
<1>2. Abstract!Delete
  BY <1>1 DEF Abstract!Delete, Abstract!NoGroups, Phase, ServersByName, Routes
<1> QED BY <1>2 DEF AbstractStep, Abstract!Next

LEMMA SameBalancerStep ==
    ASSUME lb' = lb
    PROVE  AbstractStep
BY DEF AbstractStep, Abstract!vars, Phase, ServersByName, Routes, Live, ServersIn,
       GroupNames, Named

LEMMA StepRefines ==
    ASSUME Alone, BalancerInv, Fresh, NEW p \in Client, Step(p)
    PROVE  AbstractStep
<1>1. ASSUME Apply(p)
      PROVE  AbstractStep
  <2>1. CASE UnderWay(p, "POST") /\ lb = None /\ lb' = request[p].body
    BY <2>1, CreateStep DEF Fresh
  <2>2. CASE UnderWay(p, "PUT") /\ Live /\ lb' \in Applied(lb, request[p].body)
    <3>1. PICK c \in Command : /\ HasOptions(c) /\ Mutates(c) /\ ~Refused(lb, c)
                              /\ request[p].body = MutationPayload(lb, c)
      BY <2>2 DEF Fresh
    <3> QED BY <2>2, <3>1, PutStep
  <2> QED BY <1>1, <2>1, <2>2, ApplyCases, SameBalancerStep, DeleteStep
<1>2. ASSUME ~Apply(p)
      PROVE  lb' = lb
  BY <1>2, StepShape DEF Quiet, SendsPost, SendsDelete, SendsPut
<1> QED BY <1>1, <1>2, SameBalancerStep

\* One command at a time is atomic: with one shell, any menus and any balancers
\* at first, every behaviour of the commands is one of BalancerService, whose
\* steps change one group, one server or one group's rules, whatever is lost,
\* timed out or applied late.
THEOREM CommandsAreAtomic ==
    ASSUME Alone
    PROVE  Spec => ImplementsBalancerService
<1> DEFINE AloneInv == BalancerInv /\ Fresh
<1>1. Init => AloneInv /\ Abstract!Init
  <2> SUFFICES ASSUME Init
               PROVE  AloneInv /\ Abstract!Init
    OBVIOUS
  <2>1. Fresh
    BY DEF Init, Fresh, UnderWay
  <2>2. Abstract!Init
    BY CommandAssumption
       DEF Init, Abstract!Init, Abstract!NoGroups, Phase, ServersByName, Routes, Live
  <2> QED BY <2>1, <2>2, InitInv
<1>2. AloneInv /\ [Next]_vars => AloneInv' /\ AbstractStep
  <2> SUFFICES ASSUME AloneInv, [Next]_vars
               PROVE  AloneInv' /\ AbstractStep
    OBVIOUS
  <2>1. CASE UNCHANGED vars
    <3>1. Fresh'
      BY <2>1 DEF vars, Fresh, UnderWay, Live
    <3> QED BY <2>1, <3>1, InvStep, SameBalancerStep DEF vars
  <2>2. CASE Next
    <3>1. PICK p \in Client : Step(p)
      BY <2>2 DEF Next
    <3> QED BY <3>1, InvStep, FreshStep, StepRefines
  <2> QED BY <2>1, <2>2
<1> QED BY <1>1, <1>2, PTL DEF Spec, ImplementsBalancerService, Abstract!Spec, AbstractStep
=============================================================================
