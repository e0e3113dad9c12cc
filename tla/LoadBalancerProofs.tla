------------------------- MODULE LoadBalancerProofs -------------------------
(***************************************************************************)
(* Proofs about the lb commands for any number of shells, any menus and    *)
(* any balancers at first: what a PUT carries was computed from a balancer *)
(* that had the property, and keeps it whatever it is applied to.          *)
(***************************************************************************)
EXTENDS LoadBalancerProperties, SequenceTheorems, FiniteSetTheorems, TLAPS

-----------------------------------------------------------------------------
(***************************************************************************)
(* Types.                                                                  *)
(***************************************************************************)

\* The options that the operation of a command needs are given.
HasOptions(c) ==
    /\ c.op = "create" => c.group # None /\ c.mode # None
    /\ c.op \in {"group-add", "group-update", "group-remove",
                 "server-add", "server-remove"} => c.group # None
    /\ c.op = "server-add" => c.servers # <<>>
    /\ c.op = "server-remove" => c.server # None
    /\ c.op \in {"vpc-attach", "vpc-detach"} => c.vpc # None

Mutates(c) == c.op \notin {"create", "delete"}

LEMMA MenuCommands ==
    ASSUME NEW m \in Menus, NEW c \in m
    PROVE  c \in Command /\ HasOptions(c)
BY CommandAssumption DEF HasOptions

\* removeServerByName takes one server away.
LEMMA RemoveAtType ==
    ASSUME NEW S, NEW s \in Seq(S), NEW i \in DOMAIN s
    PROVE  /\ RemoveAt(s, i) \in Seq(S)
           /\ Len(RemoveAt(s, i)) = Len(s) - 1
<1> DEFINE before == SubSeq(s, 1, i - 1)
           after  == SubSeq(s, i + 1, Len(s))
<1>1. i \in 1 .. Len(s) /\ Len(s) \in Nat
  BY LenProperties
<1>2. before \in Seq(S) /\ Len(before) = i - 1
  BY <1>1, SubSeqProperties
<1>3. after \in Seq(S) /\ Len(after) = Len(s) - i
  BY <1>1, SubSeqProperties
<1> HIDE DEF before, after
<1>4. before \o after \in Seq(S) /\ Len(before \o after) = Len(s) - 1
  BY <1>1, <1>2, <1>3, ConcatProperties
<1> QED BY <1>4 DEF RemoveAt, before, after

LEMMA WithoutServerType ==
    ASSUME NEW s \in Seq(Server), NEW name,
           Cardinality(Positions(s, name)) = 1
    PROVE  /\ WithoutServer(s, name) \in Seq(Server)
           /\ Len(WithoutServer(s, name)) = Len(s) - 1
<1>1. Positions(s, name) # {}
  BY FS_EmptySet
<1>2. (CHOOSE i \in Positions(s, name) : TRUE) \in DOMAIN s
  BY <1>1 DEF Positions
<1> QED BY <1>2, RemoveAtType DEF WithoutServer

LEMMA ExistingTypeKnown ==
    ASSUME NEW b
    PROVE  ExistingType(b) \in Type
BY DEF ExistingType, Type

LEMMA RepeatedType ==
    ASSUME NEW b \in Balancer
    PROVE  Repeated(b) \in Payload
BY ExistingTypeKnown DEF Balancer, Payload, BalancerWith, Repeated

LEMMA UpdatedType ==
    ASSUME NEW b \in Balancer, NEW c \in Command
    PROVE  Updated(b, c) \in Payload
<1>1. NextMode(b, c) \in Mode
  BY DEF NextMode, Command, Balancer, BalancerWith
<1>2. KnownCertificate(b) \in Certificate \cup {None}
  BY DEF KnownCertificate, Balancer, BalancerWith
<1> QED BY <1>1, <1>2, ExistingTypeKnown
        DEF Updated, Command, Balancer, Payload, BalancerWith

LEMMA GroupAddedType ==
    ASSUME NEW b \in Balancer, NEW c \in Command, c.group # None
    PROVE  GroupAdded(b, c) \in Payload
<1>1. [name |-> c.group, servers |-> c.servers] \in Group
  BY DEF Command, Group
<1> QED BY <1>1, RepeatedType DEF GroupAdded, Payload, BalancerWith

LEMMA GroupUpdatedType ==
    ASSUME NEW b \in Balancer, NEW c \in Command, c.group # None
    PROVE  GroupUpdated(b, c) \in Payload
<1> DEFINE name == IF c.name = None THEN c.group ELSE c.name
<1>1. name \in GroupName
  BY DEF Command
<1>2. \A g \in b.groups :
        (IF g.name = c.group THEN [g EXCEPT !.name = name] ELSE g) \in Group
  BY <1>1 DEF Balancer, BalancerWith, Group
<1>3. b.groups \subseteq Group
  BY DEF Balancer, BalancerWith
<1> DEFINE groups == {IF g.name = c.group THEN [g EXCEPT !.name = name]
                      ELSE g : g \in b.groups}
<1>4. groups \in SUBSET Group
  BY <1>2, <1>3
<1>5. GroupUpdated(b, c) = [Repeated(b) EXCEPT !.groups = groups]
  BY DEF GroupUpdated
<1> HIDE DEF groups
<1> QED BY <1>4, <1>5, RepeatedType DEF Payload, BalancerWith

LEMMA GroupRemovedType ==
    ASSUME NEW b \in Balancer, NEW c \in Command
    PROVE  GroupRemoved(b, c) \in Payload
BY RepeatedType
   DEF GroupRemoved, AclMapForRemaining, Named, Balancer, Payload, BalancerWith

LEMMA ServerAddedType ==
    ASSUME NEW b \in Balancer, NEW c \in Command, c.servers # <<>>
    PROVE  ServerAdded(b, c) \in Payload
<1>1. c.servers[1] \in Server
  BY ElementOfSeq, EmptySeq, LenProperties DEF Command
<1>2. \A g \in b.groups :
        (IF g.name = c.group
         THEN [g EXCEPT !.servers = Append(g.servers, c.servers[1])]
         ELSE g) \in Group
  BY <1>1, AppendProperties DEF Balancer, BalancerWith, Group
<1>3. b.groups \subseteq Group
  BY DEF Balancer, BalancerWith
<1> DEFINE groups == {IF g.name = c.group THEN [g EXCEPT !.servers = Append(g.servers, c.servers[1])]
                      ELSE g : g \in b.groups}
<1>4. groups \in SUBSET Group
  BY <1>2, <1>3
<1>5. ServerAdded(b, c) = [Repeated(b) EXCEPT !.groups = groups]
  BY DEF ServerAdded
<1> HIDE DEF groups
<1> QED BY <1>4, <1>5, RepeatedType DEF Payload, BalancerWith

LEMMA ServerRemovedType ==
    ASSUME NEW b \in Balancer, NEW c \in Command, ~ServerRemoveRefused(b, c)
    PROVE  ServerRemoved(b, c) \in Payload
<1>1. \A g \in b.groups :
        (IF g.name = c.group
         THEN [g EXCEPT !.servers = WithoutServer(g.servers, c.server)]
         ELSE g) \in Group
  BY WithoutServerType
     DEF ServerRemoveRefused, Named, Balancer, BalancerWith, Group
<1>3. b.groups \subseteq Group
  BY DEF Balancer, BalancerWith
<1> DEFINE groups == {IF g.name = c.group THEN [g EXCEPT !.servers = WithoutServer(g.servers, c.server)]
                      ELSE g : g \in b.groups}
<1>4. groups \in SUBSET Group
  BY <1>1, <1>3
<1>5. ServerRemoved(b, c) = [Repeated(b) EXCEPT !.groups = groups]
  BY DEF ServerRemoved
<1> HIDE DEF groups
<1> QED BY <1>4, <1>5, RepeatedType DEF Payload, BalancerWith

LEMMA VpcAttachedType ==
    ASSUME NEW b \in Balancer, NEW c \in Command, c.vpc # None
    PROVE  VpcAttached(b, c) \in Payload
BY RepeatedType DEF VpcAttached, Command, Payload, BalancerWith, Type

LEMMA VpcDetachedType ==
    ASSUME NEW b \in Balancer, NEW c \in Command
    PROVE  VpcDetached(b, c) \in Payload
BY RepeatedType DEF VpcDetached, Balancer, Payload, BalancerWith, Type

LEMMA PayloadType ==
    ASSUME NEW b \in Balancer, NEW c \in Command, HasOptions(c), Mutates(c),
           ~Refused(b, c)
    PROVE  MutationPayload(b, c) \in Payload
<1>1. c.op \in Ops \ {"create", "delete"}
  BY DEF Command, Mutates
<1> QED BY <1>1, UpdatedType, GroupAddedType, GroupUpdatedType, GroupRemovedType,
           ServerAddedType, ServerRemovedType, VpcAttachedType, VpcDetachedType
        DEF MutationPayload, Refused, HasOptions, Ops

-----------------------------------------------------------------------------
(***************************************************************************)
(* What each mutation keeps of the balancer it was computed from.          *)
(***************************************************************************)

\* What a PUT, a POST and the balancer have in common.
IsSound(b) == Serves(b) /\ IsFiniteSet(b.groups)

LEMMA ImageOfGroups ==
    ASSUME NEW G, IsFiniteSet(G), NEW T, NEW f \in [G -> T],
           T = {f[g] : g \in G}
    PROVE  /\ IsFiniteSet(T)
           /\ G # {} => T # {}
           /\ Cardinality(G) = 1 => Cardinality(T) = 1
<1>1. f \in Surjection(G, T)
  BY DEF Surjection
<1>2. IsFiniteSet(T)
  BY <1>1, FS_Surjection
<1>3. ASSUME Cardinality(G) = 1
      PROVE  Cardinality(T) = 1
  <2>1. PICK x : G = {x}
    BY <1>3, FS_Singleton
  <2>2. T = {f[x]}
    BY <2>1
  <2> QED BY <2>2, FS_Singleton
<1> QED BY <1>2, <1>3

\* A mutation that replaces each group by one with a name of its own.
LEMMA MappedServes ==
    ASSUME NEW b, Serves(b), IsFiniteSet(b.groups),
           NEW T, NEW f \in [b.groups -> T], T = {f[g] : g \in b.groups},
           \A g \in b.groups : f[g].servers # <<>>,
           \A g, h \in b.groups : f[g].name = f[h].name => g = h,
           NEW d, d.groups = T, d.mode = b.mode
    PROVE  Serves(d) /\ IsFiniteSet(d.groups)
BY ImageOfGroups DEF Serves, IsNlb

LEMMA UpdatedSound ==
    ASSUME NEW b \in Balancer, NEW c \in Command, IsSound(b),
           ~UpdateRefused(b, c)
    PROVE  IsSound(Updated(b, c)) /\ IsNlb(Updated(b, c)) = IsNlb(b)
<1> DEFINE d == Updated(b, c)
<1>1. d.groups = b.groups /\ d.mode = NextMode(b, c)
  BY DEF Updated, Balancer, BalancerWith
<1>2. IsNlb(d) = IsNlb(b)
  BY <1>1 DEF UpdateRefused, IsNlb
<1> QED BY <1>1, <1>2 DEF IsSound, Serves

\* What the mutations of groups and servers do not touch.
SameNetwork(b, d) ==
    /\ d.mode = b.mode /\ d.vpcs = b.vpcs /\ d.reserved = b.reserved

LEMMA GroupAddedSound ==
    ASSUME NEW b \in Balancer, NEW c \in Command, IsSound(b),
           ~GroupAddRefused(b, c)
    PROVE  IsSound(GroupAdded(b, c)) /\ SameNetwork(b, GroupAdded(b, c))
<1> DEFINE d == GroupAdded(b, c)
           new == [name |-> c.group, servers |-> c.servers]
<1>1. SameNetwork(b, d) /\ d.groups = b.groups \cup {new}
  BY DEF GroupAdded, Repeated, Balancer, BalancerWith, SameNetwork
<1>2. IsFiniteSet(d.groups)
  BY <1>1, FS_AddElement DEF IsSound
<1>3. ~IsNlb(b) /\ c.servers # <<>> /\ \A g \in b.groups : g.name # c.group
  BY DEF GroupAddRefused, GroupNames, IsSound, Serves
<1>4. Serves(d)
  BY <1>1, <1>3 DEF IsSound, Serves, IsNlb, SameNetwork
<1> QED BY <1>1, <1>2, <1>4 DEF IsSound, SameNetwork

LEMMA GroupUpdatedSound ==
    ASSUME NEW b \in Balancer, NEW c \in Command, IsSound(b),
           ~GroupUpdateRefused(b, c)
    PROVE  IsSound(GroupUpdated(b, c)) /\ SameNetwork(b, GroupUpdated(b, c))
<1> DEFINE d == GroupUpdated(b, c)
           name == IF c.name = None THEN c.group ELSE c.name
           f == [g \in b.groups |->
                   IF g.name = c.group THEN [g EXCEPT !.name = name] ELSE g]
<1>1. SameNetwork(b, d) /\ d.groups = {f[g] : g \in b.groups}
  BY DEF GroupUpdated, Repeated, Balancer, BalancerWith, SameNetwork
<1>2. b.groups \subseteq Group
  BY DEF Balancer, BalancerWith
<1>3. \A g \in b.groups :
        /\ f[g].servers = g.servers
        /\ f[g].name = IF g.name = c.group THEN name ELSE g.name
  BY <1>2 DEF Group
<1>4. name = c.group \/ \A g \in b.groups : g.name # name
  BY DEF GroupUpdateRefused, GroupNames
<1>5. f \in [b.groups -> d.groups]
  BY <1>1
<1> HIDE DEF f, d, name
<1>6. \A g \in b.groups : f[g].servers # <<>>
  BY <1>3 DEF IsSound, Serves
<1>7. \A g, h \in b.groups : f[g].name = f[h].name => g = h
  BY <1>3, <1>4 DEF IsSound, Serves
<1>8. Serves(d) /\ IsFiniteSet(d.groups)
  BY <1>1, <1>5, <1>6, <1>7, MappedServes DEF IsSound, SameNetwork
<1> QED BY <1>1, <1>8 DEF IsSound, SameNetwork, d

LEMMA ServerAddedSound ==
    ASSUME NEW b \in Balancer, NEW c \in Command, IsSound(b),
           c.servers # <<>>
    PROVE  IsSound(ServerAdded(b, c)) /\ SameNetwork(b, ServerAdded(b, c))
<1> DEFINE d == ServerAdded(b, c)
           f == [g \in b.groups |->
                   IF g.name = c.group
                   THEN [g EXCEPT !.servers = Append(g.servers, c.servers[1])]
                   ELSE g]
<1>1. SameNetwork(b, d) /\ d.groups = {f[g] : g \in b.groups}
  BY DEF ServerAdded, Repeated, Balancer, BalancerWith, SameNetwork
<1>2. b.groups \subseteq Group
  BY DEF Balancer, BalancerWith
<1>3. c.servers[1] \in Server
  BY ElementOfSeq, EmptySeq, LenProperties DEF Command
<1>4. \A g \in b.groups : f[g].servers # <<>> /\ f[g].name = g.name
  <2> SUFFICES ASSUME NEW g \in b.groups
               PROVE  f[g].servers # <<>> /\ f[g].name = g.name
    OBVIOUS
  <2>1. g.servers \in Seq(Server) /\ g.servers # <<>>
    BY <1>2 DEF Group, IsSound, Serves
  <2>2. Append(g.servers, c.servers[1]) # <<>>
    BY <1>3, <2>1, AppendProperties
  <2>3. /\ f[g].name = g.name
        /\ f[g].servers = IF g.name = c.group THEN Append(g.servers, c.servers[1])
                          ELSE g.servers
    BY <1>2 DEF Group
  <2> QED BY <2>1, <2>2, <2>3
<1>5. f \in [b.groups -> d.groups]
  BY <1>1
<1> HIDE DEF f, d
<1>6. \A g, h \in b.groups : f[g].name = f[h].name => g = h
  BY <1>4 DEF IsSound, Serves
<1>7. \A g \in b.groups : f[g].servers # <<>>
  BY <1>4
<1>8. Serves(d) /\ IsFiniteSet(d.groups)
  BY <1>1, <1>5, <1>6, <1>7, MappedServes DEF IsSound, SameNetwork
<1> QED BY <1>1, <1>8 DEF IsSound, SameNetwork, d

LEMMA ServerRemovedSound ==
    ASSUME NEW b \in Balancer, NEW c \in Command, IsSound(b),
           ~ServerRemoveRefused(b, c)
    PROVE  IsSound(ServerRemoved(b, c)) /\ SameNetwork(b, ServerRemoved(b, c))
<1> DEFINE d == ServerRemoved(b, c)
           f == [g \in b.groups |->
                   IF g.name = c.group
                   THEN [g EXCEPT !.servers = WithoutServer(g.servers, c.server)]
                   ELSE g]
<1>1. SameNetwork(b, d) /\ d.groups = {f[g] : g \in b.groups}
  BY DEF ServerRemoved, Repeated, Balancer, BalancerWith, SameNetwork
<1>2. b.groups \subseteq Group
  BY DEF Balancer, BalancerWith
<1>3. \A g \in b.groups : g.name = c.group =>
        WithoutServer(g.servers, c.server) # <<>>
  <2> SUFFICES ASSUME NEW g \in b.groups, g.name = c.group
               PROVE  WithoutServer(g.servers, c.server) # <<>>
    OBVIOUS
  <2>1. /\ g.servers \in Seq(Server) /\ ~(Len(g.servers) <= 1)
        /\ Cardinality(Positions(g.servers, c.server)) = 1
    BY <1>2 DEF ServerRemoveRefused, Named, Group
  <2>2. Len(WithoutServer(g.servers, c.server)) = Len(g.servers) - 1
    BY <2>1, WithoutServerType
  <2>3. Len(g.servers) \in Nat /\ Len(<<>>) = 0
    BY <2>1, LenProperties
  <2> QED BY <2>1, <2>2, <2>3
<1>4. \A g \in b.groups : f[g].servers # <<>> /\ f[g].name = g.name
  <2> SUFFICES ASSUME NEW g \in b.groups
               PROVE  f[g].servers # <<>> /\ f[g].name = g.name
    OBVIOUS
  <2>1. /\ f[g].name = g.name
        /\ f[g].servers = IF g.name = c.group THEN WithoutServer(g.servers, c.server)
                          ELSE g.servers
    BY <1>2 DEF Group
  <2> QED BY <1>3, <2>1 DEF IsSound, Serves
<1>5. f \in [b.groups -> d.groups]
  BY <1>1
<1> HIDE DEF f, d
<1>6. \A g, h \in b.groups : f[g].name = f[h].name => g = h
  BY <1>4 DEF IsSound, Serves
<1>7. \A g \in b.groups : f[g].servers # <<>>
  BY <1>4
<1>8. Serves(d) /\ IsFiniteSet(d.groups)
  BY <1>1, <1>5, <1>6, <1>7, MappedServes DEF IsSound, SameNetwork
<1> QED BY <1>1, <1>8 DEF IsSound, SameNetwork, d

\* The last group stays: of more than one group, one has another name.
LEMMA GroupRemovedSound ==
    ASSUME NEW b \in Balancer, NEW c \in Command, IsSound(b),
           ~GroupRemoveRefused(b, c)
    PROVE  IsSound(GroupRemoved(b, c)) /\ SameNetwork(b, GroupRemoved(b, c))
<1> DEFINE d == GroupRemoved(b, c)
<1>1. SameNetwork(b, d) /\ d.groups = b.groups \ Named(b, c.group)
  BY DEF GroupRemoved, Repeated, Balancer, BalancerWith, SameNetwork
<1>2. PICK g \in b.groups : g.name = c.group
  BY DEF GroupRemoveRefused, GroupNames
<1>3. Named(b, c.group) = {g}
  BY <1>2 DEF Named, IsSound, Serves
<1>4. Cardinality(b.groups) \in Nat /\ ~(Cardinality(b.groups) <= 1)
  BY FS_CardinalityType DEF GroupRemoveRefused, IsSound
<1>5. ~IsNlb(b)
  BY <1>4 DEF IsSound, Serves
<1>6. d.groups # {}
  BY <1>1, <1>3, <1>4, FS_Singleton, FS_EmptySet
<1>7. IsFiniteSet(d.groups)
  BY <1>1, FS_Difference DEF IsSound
<1>8. Serves(d)
  BY <1>1, <1>5, <1>6 DEF IsSound, Serves, IsNlb, SameNetwork
<1> QED BY <1>1, <1>7, <1>8 DEF IsSound, SameNetwork

LEMMA VpcAttachedSound ==
    ASSUME NEW b \in Balancer, NEW c \in Command, IsSound(b)
    PROVE  IsSound(VpcAttached(b, c)) /\ IsNlb(VpcAttached(b, c)) = IsNlb(b)
<1> DEFINE d == VpcAttached(b, c)
<1>1. /\ d.groups = b.groups /\ d.mode = b.mode
      /\ ~d.reserved /\ d.vpcs = {c.vpc}
  BY DEF VpcAttached, Repeated, Balancer, BalancerWith
<1> QED BY <1>1 DEF IsSound, Serves, IsNlb

LEMMA VpcDetachedSound ==
    ASSUME NEW b \in Balancer, NEW c \in Command, IsSound(b),
           c.vpc \in b.vpcs
    PROVE  IsSound(VpcDetached(b, c)) /\ IsNlb(VpcDetached(b, c)) = IsNlb(b)
<1> DEFINE d == VpcDetached(b, c)
<1>1. /\ d.groups = b.groups /\ d.mode = b.mode /\ d.reserved = b.reserved
      /\ d.vpcs = b.vpcs \ {c.vpc}
      /\ d.type = IF d.vpcs = {} THEN "external" ELSE "internal"
  BY DEF VpcDetached, Repeated, Balancer, BalancerWith
<1> QED BY <1>1 DEF IsSound, Serves, IsNlb

LEMMA PayloadSound ==
    ASSUME NEW b \in Balancer, NEW c \in Command, HasOptions(c), Mutates(c),
           ~Refused(b, c), IsSound(b)
    PROVE  /\ IsSound(MutationPayload(b, c))
           /\ IsNlb(MutationPayload(b, c)) = IsNlb(b)
<1>1. c.op \in Ops \ {"create", "delete"}
  BY DEF Command, Mutates
<1>2. CASE c.op \in {"update", "vpc-attach", "vpc-detach"}
  BY <1>2, UpdatedSound, VpcAttachedSound, VpcDetachedSound
     DEF MutationPayload, Refused
<1>3. CASE c.op \in {"group-add", "group-update", "group-remove",
                     "server-add", "server-remove"}
  BY <1>3, GroupAddedSound, GroupUpdatedSound, GroupRemovedSound,
     ServerAddedSound, ServerRemovedSound
     DEF MutationPayload, Refused, HasOptions, SameNetwork, IsNlb
<1> QED BY <1>1, <1>2, <1>3 DEF Ops

\* The certificate in a PUT: one with a secure mode contains one if what it was
\* made from had one in its context, and it never clears the field unless the
\* field was clear.
LEMMA PayloadCertificate ==
    ASSUME NEW b \in Balancer, NEW c \in Command, Mutates(c), ~Refused(b, c)
    PROVE  LET d == MutationPayload(b, c)
           IN  /\ b.certificate # None => d.certificate # None
               /\ \/ d.mode \in SslModes => d.ssl_context.certificate # None
                  \/ d.mode = b.mode /\ d.ssl_context = b.ssl_context
<1> DEFINE d == MutationPayload(b, c)
<1>1. c.op \in Ops \ {"create", "delete"}
  BY DEF Command, Mutates
<1>2. CASE c.op = "update"
  <2>1. d = Updated(b, c) /\ ~UpdateRefused(b, c)
    BY <1>2 DEF MutationPayload, Refused
  <2> DEFINE certificate == IF c.certificate # None THEN c.certificate
                            ELSE KnownCertificate(b)
  <2>2. /\ d.certificate = certificate /\ d.ssl_context.certificate = certificate
        /\ d.mode = NextMode(b, c)
    BY <2>1 DEF Updated, Balancer, BalancerWith
  <2> HIDE DEF d
  <2> QED BY <2>1, <2>2 DEF UpdateRefused, KnownCertificate, d
<1>3. CASE c.op # "update"
  <2> DEFINE Kept(e) == /\ e.certificate = Absent /\ e.mode = b.mode
                        /\ e.ssl_context = b.ssl_context
  <2>1. Kept(GroupAdded(b, c)) /\ Kept(GroupUpdated(b, c))
    BY DEF GroupAdded, GroupUpdated, Repeated, Balancer, BalancerWith
  <2>2. Kept(ServerAdded(b, c)) /\ Kept(ServerRemoved(b, c))
    BY DEF ServerAdded, ServerRemoved, Repeated, Balancer, BalancerWith
  <2>3. Kept(VpcAttached(b, c)) /\ Kept(VpcDetached(b, c))
    BY DEF VpcAttached, VpcDetached, Repeated, Balancer, BalancerWith
  <2>4. Kept(GroupRemoved(b, c))
    BY DEF GroupRemoved, Repeated, Balancer, BalancerWith
  <2> HIDE DEF Kept
  <2>5. Kept(d)
    BY <1>1, <1>3, <2>1, <2>2, <2>3, <2>4 DEF MutationPayload, Ops
  <2>6. d.certificate = Absent /\ d.mode = b.mode /\ d.ssl_context = b.ssl_context
    BY <2>5 DEF Kept
  <2> QED BY <2>6, BalancerAssumption
<1> QED BY <1>2, <1>3

LEMMA CreateRequestUsable ==
    ASSUME NEW c \in Command, HasOptions(c), c.op = "create", ~CreateRefused(c)
    PROVE  LET b == CreateRequest(c)
           IN  /\ b \in Balancer /\ b \in Payload
               /\ IsSound(b) /\ IsSecured(b) /\ KeepsPrivate(b)
<1> DEFINE b == CreateRequest(c)
           g == [name |-> c.group, servers |-> c.servers]
<1>1. /\ b.mode = c.mode /\ b.groups = {g} /\ b.type = c.type
      /\ b.vpcs = {c.vpc} \ {None} /\ b.reserved = c.reserve
      /\ b.certificate = IF c.mode \in SslModes THEN c.certificate ELSE None
  BY DEF CreateRequest
<1>2. g \in Group
  BY DEF Command, Group, HasOptions
<1>3. b \in Balancer /\ b \in Payload
  BY <1>2 DEF CreateRequest, Command, HasOptions, Balancer, Payload, BalancerWith
<1>4. g.servers # <<>>
  BY DEF CreateRefused
<1> HIDE DEF b, g
<1>5. Serves(b) /\ IsFiniteSet(b.groups)
  <2>1. IsFiniteSet({g}) /\ Cardinality({g}) = 1
    BY FS_Singleton
  <2>2. \A h \in b.groups : h = g
    BY <1>1
  <2> QED BY <1>1, <1>4, <2>1, <2>2 DEF Serves
<1>6. IsSecured(b)
  BY <1>1 DEF IsSecured, CreateRefused, KnownCertificate
<1>7. KeepsPrivate(b)
  BY <1>1 DEF KeepsPrivate, ExistingType, CreateRefused, Command
<1> QED BY <1>3, <1>5, <1>6, <1>7 DEF IsSound, b

-----------------------------------------------------------------------------
(***************************************************************************)
(* The invariant of the whole system: what is under way may be applied at  *)
(* any time, to whatever the balancer is by then.                          *)
(***************************************************************************)
UnderWay(p, method) == request[p] # None /\ request[p].method = method

\* The certificate field is set, and nothing under way clears it. A PUT that
\* repeats a secure mode relies on this if its own context has no certificate.
Certified ==
    /\ lb.certificate # None
    /\ \A p \in Client : UnderWay(p, "PUT") => request[p].body.certificate # None

StaysSecured(b) ==
    b.mode \in SslModes => b.ssl_context.certificate # None \/ Certified

MayCreate(b) == b \in Balancer /\ IsSound(b) /\ IsSecured(b)

MayReplace(b) ==
    /\ lb # None /\ IsSound(b)
    /\ Live => IsNlb(b) = IsNlb(lb) /\ StaysSecured(b)

\* The balancer serves, and so it will after whatever is under way.
Usable ==
    /\ Live => IsSound(lb) /\ StaysSecured(lb)
    /\ \A p \in Client :
         /\ UnderWay(p, "POST") => MayCreate(request[p].body)
         /\ UnderWay(p, "PUT") => MayReplace(request[p].body)

BalancerInv == TypeOK /\ Usable

-----------------------------------------------------------------------------
(***************************************************************************)
(* Types again, of the steps.                                              *)
(***************************************************************************)
LEMMA InitInv ==
    ASSUME Init
    PROVE  BalancerInv
<1>1. TypeOK
  BY CommandAssumption DEF Init, TypeOK
<1>2. \A p \in Client : request[p] = None
  BY DEF Init
<1>3. Live => Serves(lb) /\ IsSecured(lb) /\ IsFiniteSet(lb.groups)
  BY InitialAssumption DEF Init, Live
<1>4. Live => StaysSecured(lb)
  BY <1>2, <1>3 DEF IsSecured, KnownCertificate, StaysSecured, Certified, UnderWay
<1> QED BY <1>1, <1>2, <1>3, <1>4 DEF BalancerInv, Usable, IsSound, UnderWay

\* The variables of shells after a shell has moved on.
LEMMA ShellType ==
    ASSUME TypeOK, NEW p \in Client, menu' = menu,
           NEW l \in {"idle", "run", "wait", "answered"}, Goto(p, l),
           \/ UNCHANGED cmd /\ (l # "idle" => pc[p] # "idle")
           \/ \E c \in menu : cmd' = [cmd EXCEPT ![p] = c]
           \/ cmd' = [cmd EXCEPT ![p] = None] /\ l = "idle"
    PROVE  /\ menu' \in Menus
           /\ pc' \in [Client -> {"idle", "run", "wait", "answered"}]
           /\ cmd' \in [Client -> menu' \cup {None}]
           /\ \A q \in Client : pc'[q] # "idle" => cmd'[q] \in menu'
<1>1. pc' \in [Client -> {"idle", "run", "wait", "answered"}]
  BY DEF TypeOK, Goto
<1>2. cmd' \in [Client -> menu' \cup {None}]
  BY DEF TypeOK
<1>3. ASSUME NEW q \in Client, pc'[q] # "idle"
      PROVE  cmd'[q] \in menu'
  BY <1>3 DEF TypeOK, Goto
<1> QED BY <1>1, <1>2, <1>3 DEF TypeOK

\* A command that runs is one of the menu, with its options.
LEMMA RunningCommand ==
    ASSUME TypeOK, NEW p \in Client, pc[p] # "idle"
    PROVE  cmd[p] \in menu /\ cmd[p] \in Command /\ HasOptions(cmd[p])
BY MenuCommands DEF TypeOK

LEMMA SendType ==
    ASSUME TypeOK, NEW p \in Client, menu' = menu, pc[p] = "run",
           NEW m \in Request, Send(p, m)
    PROVE  TypeOK'
<1>1. request' \in [Client -> Request \cup {None}]
  BY DEF TypeOK, Send
<1> QED BY <1>1, ShellType DEF TypeOK, Send

\* What the API makes of a PUT.
LEMMA AppliedType ==
    ASSUME NEW l \in Balancer, NEW b \in Payload, NEW a \in Applied(l, b)
    PROVE  /\ a \in Balancer
           /\ a.certificate = IF b.certificate = Absent THEN l.certificate
                              ELSE b.certificate
           /\ a.groups = b.groups /\ SameNetwork(b, a)
           /\ a.ssl_context = b.ssl_context /\ a.acl_map = b.acl_map
           /\ a.type \in {b.type} \cup ({l.type} \ Type)
<1>1. PICK t \in {b.type} \cup ({l.type} \ Type) :
        a = [b EXCEPT !.certificate = IF @ = Absent THEN l.certificate ELSE @,
                      !.type = t]
  BY DEF Applied
<1>2. t \in Type \cup {"unknown"}
  BY <1>1 DEF Payload, Balancer, BalancerWith
<1> QED BY <1>1, <1>2 DEF Payload, Balancer, BalancerWith, SameNetwork

LEMMA PutBody ==
    ASSUME TypeOK, NEW p \in Client, UnderWay(p, "PUT")
    PROVE  request[p].body \in Payload
BY DEF TypeOK, Request, UnderWay

\* The request that is taken changes the balancer in one of three ways.
LEMMA ApplyCases ==
    ASSUME NEW p \in Client, Apply(p)
    PROVE  \/ lb' = lb
           \/ UnderWay(p, "POST") /\ lb = None /\ lb' = request[p].body
           \/ UnderWay(p, "PUT") /\ Live /\ lb' \in Applied(lb, request[p].body)
           \/ Live /\ lb' = Gone
BY DEF Apply, UnderWay

LEMMA ApplyType ==
    ASSUME BalancerInv, NEW p \in Client, menu' = menu, Apply(p)
    PROVE  TypeOK'
<1>1. TypeOK
  BY DEF BalancerInv
<1>2. lb' \in Balancer \cup {None, Gone}
  BY <1>1, ApplyCases, AppliedType, PutBody, CommandAssumption
     DEF BalancerInv, Usable, TypeOK, MayCreate, Live
<1>3. request' \in [Client -> Request \cup {None}]
  BY <1>1 DEF TypeOK, Apply
<1>4. /\ menu' \in Menus /\ cmd' \in [Client -> menu' \cup {None}]
      /\ pc' \in [Client -> {"idle", "run", "wait", "answered"}]
      /\ \A q \in Client : pc'[q] # "idle" => cmd'[q] \in menu'
  BY <1>1 DEF TypeOK, Apply
<1> QED BY <1>2, <1>3, <1>4 DEF TypeOK

-----------------------------------------------------------------------------
(***************************************************************************)
(* What a step does to the balancer and to the requests.                   *)
(***************************************************************************)

\* Nothing is sent and nothing applied; a request may be lost.
Quiet(p) ==
    /\ lb' = lb
    /\ request' = request \/ request' = [request EXCEPT ![p] = None]

SendsPost(p) ==
    /\ lb' = lb
    /\ \E c \in Command :
         /\ HasOptions(c) /\ c.op = "create" /\ ~CreateRefused(c)
         /\ request' = [request EXCEPT
              ![p] = [method |-> "POST", body |-> CreateRequest(c)]]

SendsDelete(p) ==
    lb' = lb /\ request' = [request EXCEPT ![p] = [method |-> "DELETE"]]

SendsPut(p) ==
    /\ lb' = lb /\ Live
    /\ \E c \in Command :
         /\ HasOptions(c) /\ Mutates(c) /\ ~Refused(lb, c)
         /\ request' = [request EXCEPT
              ![p] = [method |-> "PUT", body |-> MutationPayload(lb, c)]]

LEMMA StepType ==
    ASSUME BalancerInv, NEW p \in Client, menu' = menu, Step(p)
    PROVE  TypeOK'
<1>1. TypeOK
  BY DEF BalancerInv
<1>2. ASSUME End(p) PROVE TypeOK'
  BY <1>1, <1>2, ShellType DEF End, TypeOK
<1>3. ASSUME NEW c \in menu, Start(p, c) PROVE TypeOK'
  BY <1>1, <1>3, ShellType DEF Start, TypeOK
<1>4. ASSUME Create(p) PROVE TypeOK'
  <2>1. CreateRequest(cmd[p]) \in Payload
    BY <1>1, <1>4, RunningCommand, CreateRequestUsable DEF Create
  <2>2. [method |-> "POST", body |-> CreateRequest(cmd[p])] \in Request
    BY <2>1 DEF Request
  <2> QED BY <1>1, <1>4, <2>2, SendType DEF Create
<1>5. ASSUME Delete(p) PROVE TypeOK'
  <2>1. [method |-> "DELETE"] \in Request
    BY DEF Request
  <2> QED BY <1>1, <1>5, <2>1, SendType DEF Delete
<1>6. ASSUME Mutate(p) PROVE TypeOK'
  <2>1. MutationPayload(lb, cmd[p]) \in Payload
    BY <1>1, <1>6, RunningCommand, PayloadType DEF Mutate, Mutates, Live, TypeOK
  <2>2. [method |-> "PUT", body |-> MutationPayload(lb, cmd[p])] \in Request
    BY <2>1 DEF Request
  <2> QED BY <1>1, <1>6, <2>2, SendType DEF Mutate
<1>7. ASSUME Lose(p) PROVE TypeOK'
  BY <1>1, <1>7 DEF Lose, TypeOK
<1> QED BY <1>2, <1>3, <1>4, <1>5, <1>6, <1>7, ApplyType
        DEF Step, Refuse, GiveUp, Answer, TimeOut

LEMMA StepShape ==
    ASSUME BalancerInv, NEW p \in Client, Step(p)
    PROVE  Quiet(p) \/ SendsPost(p) \/ SendsDelete(p) \/ SendsPut(p) \/ Apply(p)
<1>1. TypeOK
  BY DEF BalancerInv
<1>2. ASSUME Create(p) PROVE SendsPost(p)
  BY <1>1, <1>2, RunningCommand DEF Create, Send, SendsPost
<1>3. ASSUME Delete(p) PROVE SendsDelete(p)
  BY <1>3 DEF Delete, Send, SendsDelete
<1>4. ASSUME Mutate(p) PROVE SendsPut(p)
  BY <1>1, <1>4, RunningCommand DEF Mutate, Send, SendsPut, Mutates
<1> QED BY <1>2, <1>3, <1>4
        DEF Step, Start, End, Refuse, GiveUp, Lose, Answer, TimeOut, Quiet

-----------------------------------------------------------------------------
(* Each kind of step keeps the invariant.                                  *)

LEMMA QuietKeeps ==
    ASSUME BalancerInv, NEW p \in Client, Quiet(p)
    PROVE  Usable'
<1>1. \A q \in Client : request'[q] = request[q] \/ request'[q] = None
  BY DEF BalancerInv, TypeOK, Quiet
<1>2. Certified => Certified'
  BY <1>1 DEF Certified, UnderWay, Quiet
<1>3. \A q \in Client : /\ UnderWay(q, "POST")' => UnderWay(q, "POST")
                        /\ UnderWay(q, "PUT")' => UnderWay(q, "PUT")
                        /\ request'[q] # None => request'[q] = request[q]
  BY <1>1 DEF UnderWay
<1> QED BY <1>2, <1>3
        DEF Quiet, BalancerInv, Usable, StaysSecured, MayCreate, MayReplace, Live,
            UnderWay

LEMMA PostKeeps ==
    ASSUME BalancerInv, NEW p \in Client, SendsPost(p)
    PROVE  Usable'
<1>1. PICK b : /\ MayCreate(b)
               /\ request' = [request EXCEPT ![p] = [method |-> "POST", body |-> b]]
  BY CreateRequestUsable DEF SendsPost, MayCreate
<1>2. /\ request'[p] = [method |-> "POST", body |-> b]
      /\ \A q \in Client : q # p => request'[q] = request[q]
  BY <1>1 DEF BalancerInv, TypeOK
<1>3. \A q \in Client : UnderWay(q, "PUT")' =>
        UnderWay(q, "PUT") /\ request'[q] = request[q]
  BY <1>2 DEF UnderWay
<1>4. \A q \in Client : UnderWay(q, "POST")' => MayCreate(request'[q].body)
  BY <1>1, <1>2 DEF UnderWay, BalancerInv, Usable
<1>5. Certified => Certified'
  BY <1>3 DEF Certified, SendsPost
<1> QED BY <1>3, <1>4, <1>5
        DEF SendsPost, BalancerInv, Usable, StaysSecured, MayCreate, MayReplace, Live

LEMMA DeleteKeeps ==
    ASSUME BalancerInv, NEW p \in Client, SendsDelete(p)
    PROVE  Usable'
<1>1. /\ request'[p] = [method |-> "DELETE"]
      /\ \A q \in Client : q # p => request'[q] = request[q]
  BY DEF SendsDelete, BalancerInv, TypeOK
<1>2. \A q \in Client : \A method \in {"POST", "PUT"} : UnderWay(q, method)' =>
        UnderWay(q, method) /\ request'[q] = request[q]
  BY <1>1 DEF UnderWay
<1>3. Certified => Certified'
  BY <1>2 DEF Certified, SendsDelete
<1> QED BY <1>2, <1>3
        DEF SendsDelete, BalancerInv, Usable, StaysSecured, MayCreate, MayReplace, Live

LEMMA PutKeeps ==
    ASSUME BalancerInv, NEW p \in Client, SendsPut(p)
    PROVE  Usable'
<1> PICK c \in Command : \E b :
        /\ HasOptions(c) /\ Mutates(c) /\ ~Refused(lb, c)
        /\ b = MutationPayload(lb, c)
        /\ request' = [request EXCEPT ![p] = [method |-> "PUT", body |-> b]]
  BY DEF SendsPut
<1>1. PICK b :
        /\ HasOptions(c) /\ Mutates(c) /\ ~Refused(lb, c)
        /\ b = MutationPayload(lb, c)
        /\ request' = [request EXCEPT ![p] = [method |-> "PUT", body |-> b]]
  OBVIOUS
<1>2. /\ request'[p] = [method |-> "PUT", body |-> b]
      /\ \A q \in Client : q # p => request'[q] = request[q]
  BY <1>1 DEF BalancerInv, TypeOK
<1>3. lb \in Balancer /\ lb' = lb /\ Live /\ Live' /\ lb # None
  BY DEF SendsPut, BalancerInv, TypeOK, Live
<1>4. IsSound(b) /\ IsNlb(b) = IsNlb(lb)
  BY <1>1, <1>3, PayloadSound DEF BalancerInv, Usable
<1>5. /\ lb.certificate # None => b.certificate # None
      /\ \/ b.mode \in SslModes => b.ssl_context.certificate # None
         \/ b.mode = lb.mode /\ b.ssl_context = lb.ssl_context
  BY <1>1, <1>3, PayloadCertificate
<1>6. Certified => Certified'
  BY <1>2, <1>3, <1>5 DEF Certified, UnderWay
<1>7. StaysSecured(lb)' /\ StaysSecured(b)'
  BY <1>3, <1>5, <1>6 DEF StaysSecured, BalancerInv, Usable
<1>8. MayReplace(b)'
  BY <1>3, <1>4, <1>7 DEF MayReplace
<1>9. ASSUME NEW q \in Client, UnderWay(q, "PUT")'
      PROVE  MayReplace(request[q].body)'
  <2>1. CASE q = p
    BY <1>2, <1>8, <2>1
  <2>2. CASE q # p
    <3>1. request'[q] = request[q] /\ UnderWay(q, "PUT")
      BY <1>2, <1>9, <2>2 DEF UnderWay
    <3> QED BY <3>1, <1>3, <1>6 DEF BalancerInv, Usable, MayReplace, StaysSecured
  <2> QED BY <2>1, <2>2
<1>10. \A q \in Client : UnderWay(q, "POST")' => MayCreate(request'[q].body)
  BY <1>2 DEF UnderWay, BalancerInv, Usable
<1> QED BY <1>3, <1>4, <1>7, <1>9, <1>10 DEF Usable, BalancerInv, MayCreate

\* After a request is applied the others are as they were; a balancer that is
\* made meets no PUT, because every PUT was made from a balancer.
LEMMA ApplyKeeps ==
    ASSUME BalancerInv, NEW p \in Client, Apply(p)
    PROVE  /\ Usable'
           /\ Live /\ Live' => (IsNlb(lb) <=> IsNlb(lb)')
<1>1. request'[p] = None /\ \A q \in Client : q # p => request'[q] = request[q]
  BY DEF Apply, BalancerInv, TypeOK
<1>2. \A q \in Client : \A method \in {"POST", "PUT"} : UnderWay(q, method)' =>
        UnderWay(q, method) /\ request'[q] = request[q]
  BY <1>1 DEF UnderWay
<1>3. \A q \in Client : UnderWay(q, "POST")' => MayCreate(request'[q].body)
  BY <1>2 DEF BalancerInv, Usable
<1>4. CASE lb' = lb
  <2>1. Certified => Certified'
    BY <1>2, <1>4 DEF Certified
  <2> QED BY <1>2, <1>3, <1>4, <2>1
          DEF BalancerInv, Usable, StaysSecured, MayCreate, MayReplace, Live
<1>5. CASE UnderWay(p, "POST") /\ lb = None /\ lb' = request[p].body
  <2>1. MayCreate(lb') /\ ~Live
    BY <1>5 DEF BalancerInv, Usable, Live
  <2>2. \A q \in Client : ~UnderWay(q, "PUT")'
    BY <1>2, <1>5 DEF BalancerInv, Usable, MayReplace
  <2>3. StaysSecured(lb)'
    BY <2>1, <2>2 DEF MayCreate, IsSecured, KnownCertificate, StaysSecured, Certified
  <2> QED BY <1>3, <2>1, <2>2, <2>3 DEF Usable, MayCreate
<1>6. CASE UnderWay(p, "PUT") /\ Live /\ lb' \in Applied(lb, request[p].body)
  <2>1. PICK b : b = request[p].body
    OBVIOUS
  <2>2. b \in Payload /\ lb \in Balancer
    BY <1>6, <2>1, PutBody DEF BalancerInv, TypeOK, Live
  <2>3. /\ lb' \in Balancer /\ lb'.groups = b.groups /\ SameNetwork(b, lb')
        /\ lb'.ssl_context = b.ssl_context
        /\ lb'.certificate = IF b.certificate = Absent THEN lb.certificate
                             ELSE b.certificate
    BY <1>6, <2>1, <2>2, AppliedType
  <2>4. IsSound(b) /\ IsNlb(b) = IsNlb(lb) /\ StaysSecured(b)
    BY <1>6, <2>1 DEF BalancerInv, Usable, MayReplace
  <2>5. IsSound(lb)' /\ IsNlb(lb)' = IsNlb(b)
    BY <2>3, <2>4 DEF IsSound, Serves, IsNlb, SameNetwork
  <2>6. Certified => Certified'
    BY <1>2, <1>6, <2>1, <2>3 DEF Certified
  <2>7. StaysSecured(lb)'
    BY <2>3, <2>4, <2>6 DEF StaysSecured, SameNetwork
  <2>8. Live' /\ lb' # None
    BY <2>3, CommandAssumption DEF Live
  <2>9. ASSUME NEW q \in Client, UnderWay(q, "PUT")'
        PROVE  MayReplace(request[q].body)'
    <3>1. request'[q] = request[q] /\ UnderWay(q, "PUT")
      BY <1>2, <2>9
    <3> QED BY <1>6, <2>4, <2>5, <2>6, <2>8, <3>1
            DEF BalancerInv, Usable, MayReplace, StaysSecured
  <2> QED BY <1>3, <2>4, <2>5, <2>7, <2>9 DEF Usable, MayCreate
<1>7. CASE Live /\ lb' = Gone
  <2>1. ~Live' /\ lb' # None
    BY <1>7, CommandAssumption DEF Live
  <2>2. \A q \in Client : UnderWay(q, "PUT")' => MayReplace(request[q].body)'
    BY <1>2, <2>1 DEF BalancerInv, Usable, MayReplace
  <2> QED BY <1>3, <2>1, <2>2 DEF Usable, MayCreate
<1> QED BY <1>4, <1>5, <1>6, <1>7, ApplyCases

-----------------------------------------------------------------------------
(***************************************************************************)
(* Private balancers.                                                      *)
(***************************************************************************)

\* KeepsPrivate looks at the type, the VPCs and the reserved IP only.
LEMMA SamePrivacy ==
    ASSUME NEW b, NEW d, d.vpcs = b.vpcs, d.reserved = b.reserved,
           d.type = b.type \/ ExistingType(d) = ExistingType(b)
    PROVE  KeepsPrivate(d) <=> KeepsPrivate(b)
BY DEF KeepsPrivate, ExistingType

\* What is made of a private balancer is private, whichever type the API tells:
\* a PUT that repeats the type names the one that the next command would guess.
LEMMA PayloadPrivate ==
    ASSUME NEW b \in Balancer, NEW c \in Command, HasOptions(c), Mutates(c),
           ~Refused(b, c), KeepsPrivate(b),
           NEW t \in {MutationPayload(b, c).type} \cup ({b.type} \ Type),
           NEW d, d.type = t, d.vpcs = MutationPayload(b, c).vpcs,
           d.reserved = MutationPayload(b, c).reserved
    PROVE  KeepsPrivate(d)
<1> DEFINE e == MutationPayload(b, c)
<1>1. c.op \in Ops \ {"create", "delete"}
  BY DEF Command, Mutates
<1>2. CASE c.op \notin {"vpc-attach", "vpc-detach"}
  <2> DEFINE Repeats(x) == /\ x.type = ExistingType(b) /\ x.vpcs = b.vpcs
                           /\ x.reserved = b.reserved
  <2>1. Repeats(GroupAdded(b, c)) /\ Repeats(GroupUpdated(b, c))
    BY DEF GroupAdded, GroupUpdated, Repeated, Balancer, BalancerWith
  <2>2. Repeats(ServerAdded(b, c)) /\ Repeats(ServerRemoved(b, c))
    BY DEF ServerAdded, ServerRemoved, Repeated, Balancer, BalancerWith
  <2>3. Repeats(GroupRemoved(b, c)) /\ Repeats(Updated(b, c))
    BY DEF GroupRemoved, Updated, Repeated, Balancer, BalancerWith
  <2> HIDE DEF Repeats
  <2>4. Repeats(e)
    BY <1>1, <1>2, <2>1, <2>2, <2>3 DEF MutationPayload, Ops
  <2>5. e.type = ExistingType(b) /\ d.vpcs = b.vpcs /\ d.reserved = b.reserved
    BY <2>4 DEF Repeats
  <2> HIDE DEF e
  <2>6. d.type = ExistingType(b) \/ d.type = b.type
    BY <2>5 DEF e
  <2>7. ExistingType(d) = ExistingType(b)
    BY <2>5, <2>6, ExistingTypeKnown DEF ExistingType
  <2> QED BY <2>5, <2>7, SamePrivacy
<1>3. CASE c.op = "vpc-attach"
  <2>1. d.vpcs = {c.vpc} /\ ~d.reserved
    BY <1>3 DEF MutationPayload, VpcAttached, Repeated, Balancer, BalancerWith
  <2> QED BY <2>1 DEF KeepsPrivate
<1>4. CASE c.op = "vpc-detach"
  <2>1. /\ e.type = IF d.vpcs = {} THEN "external" ELSE "internal"
        /\ d.vpcs = b.vpcs \ {c.vpc} /\ d.reserved = b.reserved
        /\ c.vpc \in b.vpcs
    BY <1>4 DEF MutationPayload, Refused, VpcDetached, Repeated, Balancer, BalancerWith
  <2>2. b.reserved => d.vpcs = {}
    BY <2>1 DEF KeepsPrivate
  <2> HIDE DEF e
  <2>3. ExistingType(d) = IF d.vpcs = {} THEN "external" ELSE "internal"
    BY <2>1 DEF ExistingType, Type, e
  <2> QED BY <2>1, <2>2, <2>3 DEF KeepsPrivate
<1> QED BY <1>2, <1>3, <1>4

\* A step that sends a PUT, and one that the API takes.
LEMMA PutPrivate ==
    ASSUME BalancerInv, StaysPrivate, NEW p \in Client, SendsPut(p)
    PROVE  StaysPrivate'
<1>1. PICK c \in Command :
        /\ HasOptions(c) /\ Mutates(c) /\ ~Refused(lb, c)
        /\ request' = [request EXCEPT
             ![p] = [method |-> "PUT", body |-> MutationPayload(lb, c)]]
  BY DEF SendsPut
<1> DEFINE d == MutationPayload(lb, c)
<1>2. lb \in Balancer /\ lb' = lb /\ Live /\ Live'
  BY DEF SendsPut, BalancerInv, TypeOK, Live
<1>3. d \in Payload
  BY <1>1, <1>2, PayloadType
<1>4. /\ request'[p] = [method |-> "PUT", body |-> d]
      /\ \A q \in Client : q # p => request'[q] = request[q]
  BY <1>1 DEF BalancerInv, TypeOK
<1>5. \A b \in Applied(lb, d) : KeepsPrivate(b)
  <2> SUFFICES ASSUME NEW b \in Applied(lb, d)
               PROVE  KeepsPrivate(b)
    OBVIOUS
  <2>1. /\ b.vpcs = d.vpcs /\ b.reserved = d.reserved
        /\ b.type \in {d.type} \cup ({lb.type} \ Type)
    BY <1>2, <1>3, AppliedType DEF SameNetwork
  <2>2. KeepsPrivate(lb)
    BY <1>2 DEF StaysPrivate
  <2> QED BY <1>1, <1>2, <2>1, <2>2, PayloadPrivate
<1> HIDE DEF d
<1> QED BY <1>2, <1>4, <1>5 DEF StaysPrivate

LEMMA ApplyPrivate ==
    ASSUME BalancerInv, StaysPrivate, NEW p \in Client, Apply(p)
    PROVE  StaysPrivate'
<1>1. request'[p] = None /\ \A q \in Client : q # p => request'[q] = request[q]
  BY DEF Apply, BalancerInv, TypeOK
<1>2. \A q \in Client : request'[q] # None => request'[q] = request[q]
  BY <1>1
<1>3. CASE lb' = lb
  BY <1>2, <1>3 DEF StaysPrivate, Live
<1>4. CASE UnderWay(p, "POST") /\ lb = None /\ lb' = request[p].body
  <2>1. KeepsPrivate(lb')
    BY <1>4 DEF StaysPrivate, UnderWay
  <2>2. \A q \in Client : request'[q] # None => request'[q].method # "PUT"
    BY <1>2, <1>4 DEF BalancerInv, Usable, MayReplace, UnderWay
  <2> QED BY <1>2, <2>1, <2>2 DEF StaysPrivate
<1>5. CASE UnderWay(p, "PUT") /\ Live /\ lb' \in Applied(lb, request[p].body)
  <2>1. KeepsPrivate(lb')
    BY <1>5 DEF StaysPrivate, UnderWay
  <2>2. lb \in Balancer /\ request[p].body \in Payload
    BY <1>5, PutBody DEF BalancerInv, TypeOK, Live
  <2>3. lb' \in Balancer /\ (lb'.type \in Type \/ lb'.type = lb.type)
    <3>1. request[p].body.type \in Type
      BY <2>2 DEF Payload, BalancerWith
    <3> QED BY <1>5, <2>2, <3>1, AppliedType
  <2>4. ASSUME NEW q \in Client, request'[q] # None, request'[q].method = "PUT",
               NEW b \in Applied(lb', request'[q].body)
        PROVE  KeepsPrivate(b)
    <3>1. PICK d : d = request[q].body /\ request'[q].body = d
      BY <1>2, <2>4
    <3>2. UnderWay(q, "PUT") /\ d \in Payload
      BY <1>2, <2>4, <3>1, PutBody DEF UnderWay, BalancerInv
    <3>3. PICK a \in Applied(lb, d) : a.type = b.type
      <4> DEFINE a == [d EXCEPT
                         !.certificate = IF @ = Absent THEN lb.certificate ELSE @,
                         !.type = b.type]
      <4>1. b.type \in {d.type} \cup ({lb.type} \ Type)
        BY <2>3, <2>4, <3>1, <3>2, AppliedType
      <4>2. a \in Applied(lb, d)
        BY <4>1 DEF Applied
      <4>3. a.type = b.type
        BY <3>2 DEF Payload, BalancerWith
      <4> HIDE DEF a
      <4> QED BY <4>2, <4>3
    <3>4. a.vpcs = b.vpcs /\ a.reserved = b.reserved
      BY <2>2, <2>3, <2>4, <3>1, <3>2, <3>3, AppliedType DEF SameNetwork
    <3>5. KeepsPrivate(a)
      BY <1>5, <3>1, <3>2, <3>3 DEF StaysPrivate, UnderWay
    <3> QED BY <3>3, <3>4, <3>5, SamePrivacy
  <2> QED BY <1>2, <2>1, <2>4 DEF StaysPrivate
<1>6. CASE Live /\ lb' = Gone
  BY <1>2, <1>6 DEF StaysPrivate, Live
<1> QED BY <1>3, <1>4, <1>5, <1>6, ApplyCases

LEMMA PrivateStep ==
    ASSUME BalancerInv, [Next]_vars, StaysPrivate
    PROVE  StaysPrivate'
<1>1. ASSUME NEW p \in Client, Step(p)
      PROVE  StaysPrivate'
  <2>1. ASSUME Quiet(p) \/ SendsDelete(p) PROVE StaysPrivate'
    <3>1. /\ lb' = lb
          /\ \A q \in Client : \/ request'[q] = request[q] \/ request'[q] = None
                                \/ request'[q] = [method |-> "DELETE"]
      BY <2>1 DEF Quiet, SendsDelete, BalancerInv, TypeOK
    <3> QED BY <3>1 DEF StaysPrivate, Live
  <2>2. ASSUME SendsPost(p) PROVE StaysPrivate'
    <3>1. PICK b : /\ KeepsPrivate(b)
                   /\ request' = [request EXCEPT ![p] = [method |-> "POST", body |-> b]]
      BY <2>2, CreateRequestUsable DEF SendsPost
    <3>2. lb' = lb /\ \A q \in Client :
            request'[q] = request[q] \/ request'[q] = [method |-> "POST", body |-> b]
      BY <2>2, <3>1 DEF SendsPost, BalancerInv, TypeOK
    <3> QED BY <3>1, <3>2 DEF StaysPrivate, Live
  <2> QED BY <1>1, <2>1, <2>2, StepShape, PutPrivate, ApplyPrivate
<1>2. ASSUME UNCHANGED vars
      PROVE  StaysPrivate'
  BY <1>2 DEF vars, StaysPrivate, Live
<1> QED BY <1>1, <1>2 DEF Next

-----------------------------------------------------------------------------
(***************************************************************************)
(* The theorems.                                                           *)
(***************************************************************************)
LEMMA InvStep ==
    ASSUME BalancerInv, [Next]_vars
    PROVE  BalancerInv' /\ (Live /\ Live' => (IsNlb(lb) <=> IsNlb(lb)'))
<1>1. ASSUME NEW p \in Client, Step(p), menu' = menu
      PROVE  BalancerInv' /\ (Live /\ Live' => (IsNlb(lb) <=> IsNlb(lb)'))
  <2>1. TypeOK'
    BY <1>1, StepType
  <2>2. CASE Quiet(p) \/ SendsPost(p) \/ SendsDelete(p) \/ SendsPut(p)
    <3>1. lb' = lb
      BY <2>2 DEF Quiet, SendsPost, SendsDelete, SendsPut
    <3>2. Usable'
      BY <2>2, QuietKeeps, PostKeeps, DeleteKeeps, PutKeeps
    <3> QED BY <2>1, <3>1, <3>2 DEF BalancerInv, IsNlb
  <2>3. CASE Apply(p)
    BY <2>1, <2>3, ApplyKeeps DEF BalancerInv
  <2> QED BY <1>1, <2>2, <2>3, StepShape
<1>2. ASSUME UNCHANGED vars
      PROVE  BalancerInv' /\ (Live /\ Live' => (IsNlb(lb) <=> IsNlb(lb)'))
  BY <1>2
     DEF vars, BalancerInv, Usable, TypeOK, Live, StaysSecured, MayCreate,
         MayReplace, Certified, UnderWay, IsNlb
<1> QED BY <1>1, <1>2 DEF Next

\* The inductive invariant, for any number of shells and any menus: what is
\* under way was made from a balancer that serves and is safe to apply late.
THEOREM UsableAlways == Spec => []BalancerInv
<1>1. Init => BalancerInv
  BY InitInv
<1>2. BalancerInv /\ [Next]_vars => BalancerInv'
  BY InvStep
<1> QED BY <1>1, <1>2, PTL DEF Spec

\* Every state of the balancer is one that the API accepts, and every request
\* is one that the commands can build, however requests are reordered.
THEOREM TypeCorrect == Spec => []TypeOK
<1>1. BalancerInv => TypeOK
  BY DEF BalancerInv
<1> QED BY <1>1, UsableAlways, PTL

\* LAST_BACKEND_GROUP_NOT_DELETABLE, LAST_BACKEND_SERVER_NOT_DELETABLE and
\* NLB_SINGLE_BACKEND_GROUP hold of the balancer itself, not only of the
\* reading that a command decides on, whatever other shells do meanwhile.
THEOREM ServesAlways == Spec => []KeepsServing
<1>1. BalancerInv => KeepsServing
  BY DEF BalancerInv, Usable, IsSound, KeepsServing
<1> QED BY <1>1, UsableAlways, PTL

\* A balancer that is private stays private, and so does all that is under way:
\* in whatever order attachments and detachments of VPCs and PUTs that repeat
\* what they read arrive, none makes an internal balancer with a reserved IP.
THEOREM InternalStaysPrivate == Spec => InternalIsPrivate
<1>1. BalancerInv /\ [Next]_vars => [StaysPrivate => StaysPrivate']_vars
  BY PrivateStep
<1> QED BY <1>1, UsableAlways, PTL DEF Spec, InternalIsPrivate

\* HTTPS and BOTH keep a certificate, although most PUTs leave
\* ssl_certificate_id out and may be applied after it was changed.
THEOREM CertificateStays == Spec => []SecureModesHaveCertificate
<1>1. BalancerInv => SecureModesHaveCertificate
  <2> SUFFICES ASSUME BalancerInv, Live
               PROVE  IsSecured(lb)
    BY DEF SecureModesHaveCertificate
  <2> QED BY DEF BalancerInv, Usable, StaysSecured, Certified, IsSecured,
                 KnownCertificate
<1> QED BY <1>1, UsableAlways, PTL

\* No PUT makes a TCP balancer of another one, or the other way round, however
\* late it is applied.
THEOREM FamilyStays == Spec => FamilyNeverChanges
<1>1. BalancerInv /\ [Next]_vars => [Live /\ Live' => (IsNlb(lb) <=> IsNlb(lb)')]_vars
  BY InvStep
<1> QED BY <1>1, UsableAlways, PTL DEF Spec, FamilyNeverChanges
=============================================================================
