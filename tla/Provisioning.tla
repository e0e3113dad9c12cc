---------------------------- MODULE Provisioning ----------------------------
(***************************************************************************)
(* Processes that run volume, reserved-ip, security-group, node, ssh-key,  *)
(* image, vpc, dbaas, project commands and orders of load balancers side   *)
(* by side against one account, over a network that loses, delays and      *)
(* refuses requests.                                                       *)
(***************************************************************************)
EXTENDS Listings, SecurityGroups, Images, Projects

databaseVars == <<vpcs, clusters>>

nodeVars == <<nodes, ipVars>>

\* What nodes are given, and what is made of them.
itemVars == <<keys, images>>

accountVars == <<itemVars, projects, balancers>>

vars == <<transportVars, commandVars, volumes, groups, nodeVars, databaseVars,
          accountVars>>

Init ==
    /\ TransportInit /\ CommandInit
    /\ VolumesInit /\ IpsInit /\ GroupsInit /\ NodesInit
    /\ KeysInit /\ ImagesInit /\ VpcsInit /\ ClustersInit /\ ProjectsInit
    /\ BalancersInit

\* What a process does next, when it does not wait for an answer.
Proceed(p) ==
    \/ /\ \/ CommandStep(p) /\ UNCHANGED <<volumes, groups, nodeVars, databaseVars>>
          \/ VolumeStep(p) /\ UNCHANGED <<groups, nodeVars, databaseVars>>
          \/ ListStep(p) /\ UNCHANGED <<groups, nodeVars>>
          \/ GroupStep(p) /\ UNCHANGED <<volumes, nodeVars, databaseVars>>
          \/ IpStep(p) /\ UNCHANGED <<volumes, groups, nodes, databaseVars>>
          \/ NodeStep(p) /\ UNCHANGED <<volumes, groups, ipVars, databaseVars>>
          \/ AddressStep(p) /\ UNCHANGED <<volumes, groups, databaseVars>>
          \/ VpcStep(p) /\ UNCHANGED <<volumes, groups, nodeVars, clusters>>
          \/ DatabaseStep(p) /\ UNCHANGED <<volumes, groups, nodeVars, vpcs>>
       /\ UNCHANGED accountVars
    \/ /\ \/ KeyStep(p) /\ UNCHANGED <<images, projects>>
          \/ ImageStep(p) /\ UNCHANGED <<keys, projects>>
          \/ ProjectStep(p) /\ UNCHANGED itemVars
       /\ UNCHANGED <<volumes, groups, nodeVars, databaseVars, balancers>>
    \/ /\ BalancerStep(p)
       /\ UNCHANGED <<volumes, groups, nodeVars, databaseVars, itemVars,
                      projects>>

ProcessStep(p) ==
    \/ pc[p] # "end" /\ call[p].state # "sent" /\ Proceed(p)
    \/ /\ TransportStep(p)
       /\ UNCHANGED <<commandVars, volumes, groups, nodeVars, databaseVars,
                      accountVars>>

ApiStep(p) ==
    \/ /\ \/ VolumeApi(p) /\ UNCHANGED <<groups, nodeVars, databaseVars>>
          \/ ListApi(p) /\ UNCHANGED <<groups, nodeVars>>
          \/ GroupApi(p) /\ UNCHANGED <<volumes, nodeVars, databaseVars>>
          \/ IpApi(p) /\ UNCHANGED <<volumes, groups, nodes, databaseVars>>
          \/ NodeApi(p) /\ UNCHANGED <<volumes, groups, ipVars, databaseVars>>
          \/ AddressApi(p) /\ UNCHANGED <<volumes, groups, databaseVars>>
          \/ VpcApi(p) /\ UNCHANGED <<volumes, groups, nodeVars, clusters>>
          \/ DatabaseApi(p) /\ UNCHANGED <<volumes, groups, nodeVars, vpcs>>
       /\ UNCHANGED accountVars
    \/ /\ \/ KeyApi(p) /\ UNCHANGED <<images, projects>>
          \/ ImageApi(p) /\ UNCHANGED <<keys, projects>>
          \/ ProjectApi(p) /\ UNCHANGED itemVars
       /\ UNCHANGED <<volumes, groups, nodeVars, databaseVars, balancers>>
    \/ /\ BalancerApi(p)
       /\ UNCHANGED <<volumes, groups, nodes, inventory, databaseVars, itemVars,
                      projects>>

Mishap(p) ==
    /\ Kill(p) \/ (Lose(p) /\ UNCHANGED commandVars)
    /\ UNCHANGED <<volumes, groups, nodeVars, databaseVars, accountVars>>

Next ==
    \/ \E p \in Proc : ProcessStep(p) \/ ApiStep(p) \/ Mishap(p)
    \/ ShowIp /\ UNCHANGED <<volumes, groups, nodes, databaseVars, accountVars>>

Spec == Init /\ [][Next]_vars

\* A process that can take a step takes one: its prompt is answered, and the
\* timer of a request fires. The API need not answer anything.
FairSpec == Spec /\ \A p \in Proc : WF_vars(ProcessStep(p))
=============================================================================
