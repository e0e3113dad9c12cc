# Verification of e2ectl

`e2ectl` is the command-line client of the E2E Networks MyAccount API. This
directory holds TLA+ models of its commands, TLC configurations that check them
on small instances, and TLAPS proofs of what holds for every instance. Every
definition that models code is translated from the TypeScript source; the `map`
of `PROJECT.json` names the lines.

Contents: 1 the system, 2 hard behaviours, 3 modules, 4 the config part,
5 the load-balancer part, 6 the provisioning part, 7 the ticket part, 8 the
smoke part, 9 the runs, 10 the proofs, 11 disagreements found, 12 not modelled,
13 what is left.

## 1. The system

One invocation of the CLI is one process that runs one command: it parses its
arguments, may ask for confirmation, resolves credentials, sends requests one
after the other and prints a result or an error with an exit code. Processes
share two things: the config file of the user, and the account at the API. There
is no daemon, no lock and no transaction.

| Component | State | Operations | Correct when |
| --- | --- | --- | --- |
| config profiles (`src/src/config`) | `config.json`, a temporary file | import, list, remove, set-context, set-default | the file stays readable, secrets are validated pairs, the default is saved, nothing is overwritten unasked |
| credential resolution (`config/resolver.ts`) | none | flags, environment and profile combine | a saved key is never used with the saved token of another profile; a script that works goes on working |
| transport (`src/src/myaccount`) | one request and its attempts | get, post, put, delete, with timeout and retry | a change is sent once; the result is the answer or an error |
| load balancers (`src/src/load-balancer`) | a balancer at the API | create, reserve-ip, delete, update, backend group and server, VPC, get, list, plans | a PUT restores a whole balancer that serves and is consistent; what is ordered is what was asked for |
| volumes (`src/src/volume`) | volumes at the API, paged | create, delete, list, get, plans | what is reported about creation, deletion and the list is true |
| reserved IPs (`src/src/reserved-ip`) | addresses, an inventory that lags | create, delete, get, list, attach, detach, reserve-node | create reports the address it allocated |
| security groups (`src/src/security-group`) | groups at the API | create, update, delete, get, list | the id reported is that of the own group; update keeps the description |
| nodes (`src/src/node`) | nodes and their attachments | create, delete, power, attach and detach, save-image, upgrade | a node changes as asked and by nothing else; its last security group stays; a new node is as ordered |
| VPCs (`src/src/vpc`) | networks at the API | create, delete, get, plans, list | a new network is the block of addresses that was named |
| DBaaS (`src/src/dbaas`) | clusters and their attachments | create, delete, get, list, types, plans, reset-password, VPC, public IP, whitelist | a new cluster is as ordered; a cluster of another engine is left alone |
| support tickets (`src/src/support-ticket`) | tickets, replies, files | create, reply, close, reopen, get, list, timeline, get-replies | a ticket that was made is reported; each reply is shown once, in its place, with its own text |
| SSH keys, images, projects, SSL | remote resources | create, delete, get, list of keys; rename, delete, list of images; create, list, star, unstar of projects; list of certificates | nothing is made twice, a report is about the own resource |
| application shell (`src/src/app`) | none | prompts, exit codes, output | the exit code tells what happened |
| release smoke test and its cleanup (`src/tests/manual`, `src/scripts`) | a manifest file | create and record, clean up and record, wait, replay | what the manifest calls deleted is gone, a clean exit leaves nothing, also after kills |

Interactions: every resource command reads the config through
`resolveStoredCredentials` and talks to the API through `MyAccountApiTransport`.
Node commands call the VPC, volume, security-group and reserved-IP clients; DBaaS
commands call the VPC client;
reserved-IP commands call the node client; load-balancer commands call the
reserved-IP and VPC clients; `config import` calls the transport
to validate credentials. There are no callbacks from the API.

## 2. Hard behaviours

- **Read-modify-write without a version.** The config file, a load balancer and a
  security group are read, changed in memory and written back whole. Another
  process may write in between.
- **Late requests.** The transport gives up after ten seconds, a killed process at
  once; a POST, PUT or DELETE that was sent may still be applied, later than
  other commands' changes.
- **Answers that do not decide.** A delete that timed out may or may not have
  happened; a creation's answer may lack the id; a new address may not be in
  the inventory yet. The commands then search, by pages, by name or by polling,
  while others change what they search.
- **Crashes.** A process may be killed between any two system calls of the write.
- **Partial failure.** One of several requests or system calls of a command fails.
- **Concurrency inside a command.** `get-replies` loads the text of several replies
  at a time; the runners share an index and a result array.

- **Chains of readings.** An order is built from several GETs (engine, plans, network;
  address, plans, network) and sent when the first of them may no longer hold.

`PROJECT.json` lists each hazard at its line with the properties that cover it. One
has no property and will not get one without more knowledge of the API:
`redirect_to_https` survives an update from BOTH to HTTP.

## 3. Modules

| Module | What it holds |
| --- | --- |
| `ConfigData` | profiles, configs and the pure functions on them |
| `Credentials` | which key, token, project and location an API command works with; extends `ConfigData` |
| `ConfigStore` | the config commands of several processes, step by step, beside commands that only resolve their credentials; extends `Credentials` |
| `ProfileStore` | what the commands promise: each is one atomic step on the saved profiles |
| `ConfigProperties` | properties; the refinement mapping to `ProfileStore` |
| `ConfigStoreProofs` | nine theorems: all safety properties of the config part, and the refinement |
| `BalancerData` | balancers, payloads, the guards and mutations of the lb commands |
| `LoadBalancer` | lb commands of several shells, GET then PUT; extends `BalancerData` |
| `BalancerService` | what the lb commands promise, without requests or readings |
| `LoadBalancerProperties` | properties; the refinement mapping to `BalancerService` |
| `LoadBalancerProofs` | the inductive invariant and five properties, for any number of shells |
| `LoadBalancerRefinement` | one shell implements `BalancerService`; extends `LoadBalancerProofs` |
| `Transport` | the request a process waits for, its attempts, and changes on the wire |
| `CliCommand` | what resource commands share: start, confirmation, exit; extends `Transport` |
| `PagedLists` | a list that is read page by page: pages, last page, limit; extends `CliCommand` |
| `Volumes`, `ReservedIps`, `SecurityGroups`, `SshKeys`, `Images`, `Projects` | one service each with the API behind it |
| `Nodes` | nodes and what is attached to them; extends `SshKeys`, which it looks up |
| `Vpcs`, `Databases` | networks and database clusters; `Databases` extends `Vpcs`, whose networks it reads |
| `NodeAddresses` | the public addresses of nodes, which node and reserved-ip commands change; extends `Nodes` and `ReservedIps` |
| `BalancerOrders` | `lb create` from its first lookup to the new balancer, `reserve-ip`, `plans`, `get`; extends `NodeAddresses` and `Vpcs` |
| `Listings` | the lists of volumes, networks, clusters, hosts, balancers and certificates; extends the services that own them |
| `Provisioning` | composes the services over one transport |
| `ProvisioningProperties` | properties |
| `ProvisioningProofs` | at most one creation: the kinds of steps of a command, and one theorem |
| `ProvisioningReports` | what is reported is true; extends `ProvisioningProofs` |
| `ProvisioningChanges` | nodes, groups and clusters change as asked; extends `ProvisioningReports` |
| `SupportTickets` | the ticket commands of one process, and its runners; extends `Transport` |
| `ReplyMap` | what `get-replies` promises, without runners or requests |
| `SupportTicketProperties`, `SupportTicketProofs` | properties, the refinement mapping to `ReplyMap`; four theorems |
| `SmokeData` | the cloud as the smoke test sees it, the manifest, the steps of test and cleanup |
| `SmokeCleanup` | the smoke test, its cleanup and the replays of it |
| `SmokeProperties` | properties; its constants are two numbers, so that it needs no MC module |
| `SmokeProofs` | the inductive invariant and all safety properties of the smoke part |
| `MCConfigStore`, `MCLoadBalancer`, `MCProvisioning`, `MCSupportTickets` | constants of the runs |

Conventions. `pc[p]` names the `await` at which process p is, or the step after
it. `None` stands for `undefined` and `null`; `Bad` for a value that a validator
rejects, since all that matters of such a value is that it is rejected. A
definition whose comment begins "A faulty variant" is not part of the model: it
is what a likely mistake would make of the next definition, and `PROJECT.json`
names the property that notices it.

## 4. The config part

`file` is `config.json`: absent, insecure (wrong mode), corrupt, or a config.
`temp[p]` is the temporary file of p. `seen[p]` is the config p read, `next[p]`
what it will write. Each action is one file-system operation, one prompt or
one request: `ImportRead` to `ImportResolved` follow `importProfiles` from its
one reading to the config it builds from it; `CheckExists` and `Load` are the
two readings of the other commands; `OpenTemp`, `FillTemp`, `Rename`, `Abort`,
`Unlink` are `writeSecureConfigFile`; `Crash` may follow any step. Each system call
may fail: `ReadFails` a reading of the file, `WriteFails` a step of the write,
`RemoveFails` the `rm` in the `finally` block. Two of these come when `config.json` is
already replaced: the `rm` after the rename, and the reading with which an import makes
its report (`Reread`). The command then ends with an error although it has saved, and
`ExitCodeTellsTruth` says so: an error means that nothing was saved, unless it is an
import that could not read the file again or the error is that of the `rm`
(`outcome[p] = "not-removed"`).

Abstractions.
- The permission check and the reading are one step. Every file that the program
  writes is complete and has mode 0600 before it is renamed into place, so what
  `stat` saw holds for what `readFile` reads, whichever file that is.
- Creating the directory and the temporary file are one step, as are the `chmod`
  and the rename; each may fail (`WriteFails`). Temporary names are unique (pid
  and time with the flag `wx`), so each process has its own.
- `default_project_id` and `default_location` of a saved profile are a good value, none,
  or `Bad`: `readOptionalProfileField` takes any string from a file that was edited by
  hand (the empty one counts as none, as in `normalizeProfile`). Commands save none that
  is `Bad` of their own, and keep one that is there. Secrets of a hand-edited file are
  those of `InitialFiles`, whatever they are.
- Secrets are members of `Cred`; key and token of one member belong together, so a
  mixed pair can be seen. Import files are functions from aliases to secrets.
- Aliases have an order (`FirstOf`), since removal makes the first one the default.

`Credentials` is `resolver.ts` as operators: `MergedAuth` and `MergedContext` take
each field from the source that wins, `Resolution` is the first error in the order
of the code, or "ok". An API command (`op = "api"`) is one action, `Resolve`: it reads
the config once, and what it resolves is a function of that reading, of its flags
and of its environment. `OnlyValidatedSecrets` speaks of what it sends if its
environment holds neither secret. `ScriptsKeepWorking` takes every API command of
the run as a script that could be started before and after any step: what resolved
before must resolve after, unless the step removed its profile or chose another
default. It holds for what is well-formed only (`WellFormed`), on the command line, in the
environment and in the profile. An account command
lets a malformed half of a context pass (`resolver.ts:467`) and refuses it once a
profile supplies the other half. So `set-context --default-location`, or an import that sets
a location, does stop a script whose variable, or whose hand-edited profile, holds a
malformed project id and which got by without a location. `config_sequential` has such
a variable and such a file; without the condition TLC finds both at once. The label
that says where a value came from is left out.

What holds only for commands run one after the other (constant `Sequential`):
`ScriptsKeepWorking`, `DefaultIsSaved`, `NoSilentOverwrite` and the refinement of `ProfileStore`. Two
commands at once can undo each other's change, since each writes back what it
read; `set-default` beside `remove` can leave a default that names nothing; and
an import can replace an alias it never asked about (section 11).
`config_concurrent` states what holds even then; with its fair specification it also
checks that every command ends.

## 5. The load-balancer part

`LoadBalancer` is about a balancer that exists, or is created, and is then changed;
how `lb create` finds its address, its plan and its network is in `BalancerOrders`
(section 6). One balancer `lb` is followed, in shells (`Client`) that run command after
command. `Mutate` is the GET, the decision and the sending of the PUT: nothing
between them is visible to others, so the reading of the GET is the moment that
counts. `request[p]` is what was sent and not yet taken by the API: `Apply`
takes it, `Lose` drops it, and `TimeOut` ends the command while it is under way,
so that it may be applied after commands of other shells. A shell does not start
its next command while its own request is pending; a user who does is another
shell.

A payload contains the whole balancer, except that most PUTs have no
`ssl_certificate_id`. What the API does with a field that is not in a PUT is not
visible in the repository; the model assumes it keeps its value (`Applied`).

A GET need not tell `lb_type`, or may tell one that the CLI does not know
(`type = "unknown"`). `ExistingType` is `normalizeExistingLoadBalancerType`: the type is then
guessed from the VPCs. Every PUT names a type; whether the API tells it afterwards, of a
balancer of which it did not before, is left open (`Applied`). That it goes on telling
a type it has told, also of a balancer that `lb create` made, is assumed.

`InternalIsPrivate` says that an internal balancer with a VPC and no reserved IP stays one.
It is about steps, because the CLI may find a balancer that is not, or is about to be not,
and then it is the CLI that makes it so. If the type is not told and there are both a VPC and a
reserved IP, the next PUT, of whatever command, names it internal
(`mappers.ts:480`) and repeats `lb_reserve_ip` (`mappers.ts:685`). If an external balancer
with a reserved IP is in several VPCs, `detachVpc` (`service.ts:910`) makes it internal when
one of them remains and, unlike `attachVpc`, does not clear `lb_reserve_ip`. Both end in an
internal balancer that has a public address. `KeepsPrivate` names these two conditions;
a balancer that has neither never gets either by commands of the CLI (`attachVpc` clears the
address, a new balancer has one VPC at most and a type), however they interleave and however
late their PUTs arrive, and so never becomes an internal one with a reserved IP. `StaysPrivate`
adds what is under way, since a PUT made from an older reading may be applied to anything.
`MCLoadBalancer` starts with a balancer of the first kind, too, so that what happens
then is in the checked states. Nothing in the repository says whether the API makes such
balancers; `tests/unit/load-balancer/service.test.ts:1462-1506` has the fallback.

`InitialAssumption` says what is assumed of a balancer that the CLI did not make: it serves
and has a certificate if it needs one. Its type, VPCs and address may be anything.

Two shells can lose each other's updates; that is what reading, deciding and
writing back without a version gives. What the properties show is that the
result is always a balancer that one command wanted whole: `KeepsServing`,
`InternalIsPrivate`, `SecureModesHaveCertificate`, `FamilyNeverChanges`. With
one shell the commands implement `BalancerService`. In `lb_concurrent` a behaviour
takes its commands from one of two menus (`menu`): groups and servers, or protocol,
certificate and network. Both at once are too many states for TLC; creations and a
change of a group are in both, and one shell runs all commands in `lb_sequential`.

## 6. The provisioning part

`Transport` holds what `request` and `requestOnce` do: `call[p]` is the request p
waits for with its attempt number or its result; `wire[p]` the changes p asked
for that the API has not taken. `AttemptFails` ends an attempt by a timeout, a
network error or a retryable status and, for a GET, begins the second one;
`Refused` is any other failure. `Take` is the API applying a change, whether or
not the process still waits. `CliCommand` adds the life of a command; `Kill` may
end it anywhere. The services add their commands and the part of the API behind
them: the latter is external, modelled from how the code uses it.

- **Volumes.** The API sells what a member of `VolumeCatalogs` says, another one at
  each reading. `MayBuy` is the choice of the one plan of a size that is available,
  with a committed term of that plan; `CreatePlanned` orders it, `CreateUnplanned` is
  every refusal. A new volume is listed first or last, because the order is not
  visible in the repository. `Reconcile` to `Unreconciled` is `volumeStillExists` after
  a delete that timed out.
- **Paged lists.** `PagedLists` holds the pages, `Listings` the commands. A page is
  what the API holds when it answers: a deletion between two pages moves later items
  forward, past the reader. At the limit of pages the code does three things:
  the lists of volumes and networks fail after reading the last page they may read,
  before they know whether there is another one; those of clusters and allowed hosts
  fail if there is one; the list of load balancers ends without an error and leaves
  the rest out. `ListIsComplete` states completeness for each up to that. The number
  of pages may be missing from an answer about load balancers, as the code expects;
  for the others it is assumed to be there (`?? 1` would otherwise end the list after
  its first page).
- **Reserved IPs.** `ShowIp` puts an allocated address into the inventory at any
  time or never; `PollAgain` is one more of the `RESERVED_IP_POLL_ATTEMPTS`.
- **Security groups.** Names need not be unique; the answer to a creation has the
  id or not. `UpdateRead` sends the description that `ReadForUpdate` asked for; of a group
  without one that is the empty text, as in the code (`security-group/service.ts:375`),
  and the model has one value for both. Rules
  come from a file; one that cannot be used (`rules = None`) ends the command before
  its first request. `UpdateKeepsDescription` is about every change of a group.
- **Nodes.** Some requests name a node by its id (`ByNodeId`), others by the id of its
  VM (`ChangeVm`, `ChangeAddress`), which the command reads from the details first
  (`ReadNode`, `ReadForAddress`); the details may lack it, the address or the number
  of security groups. Each command is an action of its own (`PowerNode`,
  `UpgradeNode`, `AttachVpc` to `AttachVolume`). `Permits` is
  `assertCanDetachSecurityGroups`, which looks at
  the number it has read: `Counting` and `disturbed` say who has read a number that
  a later detachment made stale. `report[p]` keeps the details while the user is
  asked, so that `NodesChangeAsAsked` can speak of the address that was shown. VPCs,
  volumes, groups and keys that are attached are sets of names at the node. That the
  API detaches or reserves an address only from the node that has it is assumed
  (`ApplyToAddress`); `node action public-ip detach` and `reserved-ip detach-node`
  beside each other then cannot take an address that nobody named.
- **SSH keys, images, projects.** `get` of a key is a search in the list. A key file
  that cannot be read or is empty (`KeyUnusable`) ends the command. `node action
  save-image` makes images, the image commands rename and delete them. `star` and
  `unstar` read the projects first, because the request needs the name next to the id:
  `StarProject` sends the name that was found.
- **VPCs.** `IsVpcOrder` is the check of the options of `vpc create`. A block of
  addresses is its first address and the length of its prefix; `IsBlock` is
  `normalizeCustomCidr`, with addresses of `AddressBits` bits in place of 32.
  `NewVpcsAreAsOrdered` compares it with the set of addresses that have the prefix.
- **DBaaS.** A creation reads the engines, the plans of the one engine that matches,
  and the VPC if it was given one (`ListEngines` to `CreateInVpc`); `report[p]`
  keeps what the readings before found. `plans` and `types` are the first parts of the
  same path. Which plans are available may change at any moment (`AnswerPlansOf`).
  The answer to a creation has the id or not. A password that cannot be read or is
  not acceptable ends `create` and `reset-password` at once (`PasswordUnusable`). `Guarded`
  commands read the cluster first, and deletion asks the user after the reading and
  not before it
  (`AskToDelete`); the others send one change (`ChangeCluster`) or read a VPC
  before it (`ReadVpcToAttach`). `get` joins three GETs that run at the same time:
  here they are readings one after the other in any order (`BeginGet`, `GetOn`), which
  is the same, because a GET changes nothing and only the order of the answers, and
  what others change between them, can be noticed. That a detachment names the network
  and not the subnet is assumed (`ClusterAfter`).
- **Load balancers.** `FindReserved` to `OrderInVpc` are `lb create`: the address in the
  inventory, the plan by its name or its template, the committed plan by its id or its
  name, the network, then the order. `ReadToReserve` and `ReserveAddress` are
  `reserve-ip`. What a balancer serves is left to `LoadBalancer`, since no lookup
  depends on it. `PurchasesAreAsOrdered` states what is bought, of volumes and of
  balancers, and that the address was free unless somebody took it during the readings.

`Proceed` is what a process does when it does not wait for an answer; while it waits,
`TransportStep` is its only step.

The history variables `created[p]` (what the API made for p) and `disturbed`
(whose reading another change made stale) are never read by an action of the
model other than to choose fresh ids. Each change of the API says whom it disturbs:
who is between two pages of the list that it shortens (`Paging`), who has read the
number of groups that it lowers (`Counting`), the description that it replaces, or who
has found the address free that it takes (`Planning`). A property with `disturbed` holds
without it for whoever nobody came between.

`DeletionReportIsTrue` excuses one more case: a volume that was not there when the
request was sent and is made afterwards under that very id (`Deleting`). `ReportIsOwn`
excuses a group whose id was looked up by name when it was deleted or renamed
meanwhile: the API has no other group of that name, or one of somebody else.
`LastGroupStays` allows the last group to go if the details said 0 groups or none at
all: `assertCanDetachSecurityGroups` compares with the number it was told.

Constants are assumed to be what the API's own rules make them: no id is given twice,
each VM has one number, lists name nothing twice (`VolumesAssumption`,
`GroupsAssumption`, `NodesAssumption`, `ClustersAssumption`); a size on a command line
is a number and a command line is finite (`NodeLinesAssumption`); `None` is neither a
text nor a number, nor the value of an option (`NoneAssumption`, `OptionsAssumption`).
TLC evaluates them on the constants of the run.

The action properties about nodes, groups and clusters are written as a named action in
`[][...]_vars`, so that the proofs can speak of one step.

## 7. The ticket part

One process runs one command. `Proc` is `0 .. Limit`: 0 is the main line of the
command, 1 to `Limit` are the runners of `mapWithConcurrency`, which the main
line starts when the list of replies arrives (`RepliesListed`) and which it waits
for (`RepliesShown`). JavaScript runs a runner from one `await` to the next without
interruption, so `Resume(r)` is one action: it stores the result at the place of
the runner's reply and takes the next reply. `threads`, `results` and `nextIndex` are
the variables of those names; `current[r]` is the index that runner r took. A
reply that the list did not cut off is not asked for again; a request that fails or
has an empty text leaves the reply as it was listed, and the warning counts it.

`report` is what the process will print. `applied` is a history: the changes that
the API made, also those that arrive after the process gave up. `IsAccepted` and
`Body` are the rules of the three categories.

`ReplyMap` says what the user is promised: a list, then a result at each place in
any order, then the report. `ImplementsReplyMap` is the refinement; a runner that
writes to a shared place, that waits for its neighbour, or that takes a reply
twice would break it.

Left out: filters and the rendering of lists, the parsing of ids and the reading
of attachments, which are data or end the command before its first request
(`Reject`), and the rest of the texts.

## 8. The smoke part

`release-smoke.test.ts` creates real resources, records each in a manifest file and
deletes them again; `manual-smoke-cleanup.mjs` deletes what a manifest records.
`SmokeData` has both as sequences of steps (`SmokeScript`, `CleanupSteps`) over ten
resources that use one another; each step of the cleanup names how it is tried
first (the CLI) and what follows a failure (a reading, a wait, a direct call). The
cloud is external: it answers a deletion with "in use" while something is attached or
while a volume or network is still busy, for as long as it likes (`CloudSettles`).

`Truncate` and `Fill` are the two halves of `writeFile`; `Unanswered` is a request
without an answer, carried out, lost, or late; `Killed` may follow any step of either
program; where the program waits for a CLI process, that one may go on, and its request
may be late. The direct calls of the cleanup (detach, delete) end with their process; that
one of them is carried out after a kill is `Unanswered` followed by `Killed`. `Replay` starts the cleanup again, as often as one likes. `calm` says that
nothing has gone wrong since the cleanup started; it is there for
`CalmReplayLeavesNothing`, which says that one undisturbed replay is enough wherever
everything before stopped.

What the properties leave out, because the code does not give it:
- a reserved IP. Its step calls `ensureReservedIpDetached` within the same `try` block;
  a "not found" about the node sets the flag of the IP, which still exists. `FlagsAreTrue`
  therefore speaks of the other resources, and the two next properties except an IP that
  was flagged so.
- a resource that was created when the test was killed before recording it. Only what is
  recorded can be cleaned up.

`maintaining.md:196` also says that saved images are deleted by the CLI first;
`cleanupSavedImage` calls the API only, and so does `DeleteImage`.

## 9. The runs

| Run | Question | Bounds |
| --- | --- | --- |
| `config_sequential` | do commands run one by one act atomically, also when killed, and do scripts keep working? | 2 aliases, 3 credentials, 21 commands, 5 files of which one has a malformed value, 2 processes |
| `config_concurrent` | what holds for any order of steps, failures and crashes? does every command end? | 10 commands, 6 files, 2 processes side by side |
| `config_overwrite_race` | is nothing overwritten unasked when two processes run? No | 6 commands |
| `lb_concurrent` | do groups, servers, protocol, certificate and network stay well-formed with late PUTs? | 2 menus, 2 group names, 3 servers, 2 VPCs, 1 certificate, 2 shells, symmetric; no balancer, one with rules, two whose type is not told |
| `lb_sequential` | does one shell implement `BalancerService`? | all commands, 1 shell |
| `lb_stale_acl` | do rules only route to groups that exist? No | 1 shell |
| `lb_duplicate_server` | are server names unique in a group? No | 1 shell |
| `provisioning` | are reports true and lists complete, is nothing made twice, is what is made or bought as ordered, do groups, nodes and clusters change as asked, does every command end? | pairs of commands, pages of 1, at most 3 pages, 2 polls, 3 nodes, 2 clusters, 3 balancers, 5 engines, 5 and 3 catalogs of volumes and balancers, addresses of 3 bits |
| `volume_delete_shift` | is a volume that is reported as deleted gone? No | 2 deletions |
| `support_tickets` | are replies shown as promised, are reports true, does every command end? | 40 command lines, 3 runners, lists of 0, 1, 3 and 4 replies |
| `smoke_cleanup` | are the flags of the manifest true, does a clean exit mean that nothing is left, is one calm replay enough, does every cleanup end? | the whole test and cleanup, any kills and replays, 2 polls, 2 unanswered requests |
| `smoke_torn_manifest` | can a cleanup always be replayed? No | the same |

Why these bounds are enough to be worth something. The conflicts are between two
parties: one that has read and not yet written, and one that writes in between;
a third adds orders of the same conflicts. Two aliases are needed for "the other
profile stays" and for the choice of a new default; two groups and three servers,
two of one name, for every guard that counts groups or servers. With pages of one
volume each deletion moves every later volume to another page, and with three
pages a list reaches the limit, stays below it and shrinks while it is read. Two
polls give a first, a repeated and a last one. Three runners and lists that are
shorter, as long and longer give idle runners and runners that come back for more. The
VM of each of the first two nodes has the id of the other, so that a confusion of
the two numbers changes a node that nobody named; one node has two security groups
and the other one; a third node has none, so that a group that is attached there can be detached
again as the last one. A group is created beside an update that gives another group its
name, and a volume is made with an id that a deletion under way names. The orders of new
nodes take a size on each side of the step at
150 GB. Addresses of three bits have blocks of every
size from one address to all of them, and orders on and off a boundary. Two engines
of one type and version and two plans of one name make an order ambiguous; one
plan that is not available makes it unambiguous again; the name of one balancer plan
is the template of another. Each offer of volumes has a speed of its own, which tells
what was bought from which. In the smoke part two unanswered requests, with any number
of kills, let a late deletion meet a replay that itself goes wrong; with two polls a wait
succeeds at once, later or never. `MCProvisioning` pairs commands
that share something: the same kind of resource, the addresses of nodes and balancers,
the networks of clusters and balancers, the keys of nodes. Other pairs have no step
that the two could notice. Volumes exist in the pairs that work on volumes.

Symmetry is used in `lb_concurrent` alone: shells are interchangeable there, no
constant or property names one, and there is no liveness property, so exchanging
shells along a behaviour changes nothing.

Deadlock is checked in the lb runs. In the others the system stops when every
command has ended, which is what it should do; that no command is stuck before is
`EveryCommandEnds`, or `EveryCleanupEnds`.

Fairness. `EveryCommandEnds` assumes that a process that can take a step takes one
(`WF_vars(Step(p))` in the config part, `WF_vars(ProcessStep(p))` in the
provisioning part and, for the main line and each runner, in the ticket part,
`WF_vars(CleanupStep)` in the smoke part, where every CLI command has a timer of two minutes
and every wait one of ten): the operating system schedules it, its user answers a
prompt, and the timer that `requestOnce` sets for each attempt fires. Nothing is
assumed of the API, of the network, of `ShowIp` or of another process, and a
crash or kill is never forced. What the property then says is that no loop of
the code (retries, pages, polls, validation) is unbounded and that no command
waits for another.

## 10. The proofs

Every safety invariant that a run checks is also a theorem, for any number of processes
or shells, any command lines and any constants that meet the named assumptions. So
are all action properties but three, and all three refinements. Each proof has the same
shape: an inductive invariant, a lemma for each action (or kind of action) saying that
it keeps the invariant, and a last step that combines them.

**Config** (`ConfigStoreProofs`), under `DataAssumption` (values that are told apart,
`FirstOf` chooses a member) and `CommandAssumption` (the constants have their types; a
file that is not readable holds no config):

| Theorem | Argument |
| --- | --- |
| `TypeCorrect` | `TypeInv` is `TypeOK` and `CheckedContext`: a process past the check of `set-context` has accepted values; without it a rejected value could be written. `AddsNoneMalformed`, a part of `TypeOK`, is what the commands keep of it: they pass on a malformed value that an alias had in the file edited by hand, and add none (in `config_concurrent` no file has one, so that none may appear) |
| `ExitCodes`, `TempFilesRemoved`, `FileStaysReadable` | `WriteInv` ties `temp`, `published` and `outcome` to `pc`: only at `rename` is the temporary file full, so only a full file is renamed; whoever has published is past the rename, where only the `rm` and an import's last reading can still fail |
| `SecretsValidated` | `SecretsInv`: what a process has read is known, what it will write is known, and what is left to validate shrinks to nothing before it writes. Every known config stays one, since the known secrets do not depend on the file. `ResolveInv`: what a successful API command has read resolves, so that it sends no key with the token of another profile |
| `DefaultStaysSaved` | `DefaultInv`, for `Sequential`: the reading of the one running process is the file, so what it writes keeps the default. This is the property that concurrency breaks, and the invariant says why |
| `OverwritesAreConfirmed` | `SoleInv`, for `Sequential`: from its reading to its rename what a process has seen is what the file holds, what it will write is its command's outcome on that reading (`Prepared`), and an import past its prompt has consent or nothing to overwrite (`Consented`) |
| `CommandsAreAtomic` | the refinement of `ProfileStore`: `OnlyRenameChanges` says that the file changes by a rename alone, and `SoleInv` that it then becomes `Effect` or `WithImport` of what it was; one lemma per command says that this is a step of `ProfileStore` |
| `ScriptsResolve` | follows from the refinement: `ContextStays` says that no step of `ProfileStore` takes a context from a profile that stays or puts a malformed value into it, and `ResolvesAlike` that a request which uses nothing malformed needs no more than that |

The two with an initial default (`DefaultStaysSaved`, `CommandsAreAtomic`) assume that the
first file has a default that is saved.

**Load balancers** (`LoadBalancerProofs`), under `BalancerAssumption`, `CommandAssumption`
and `InitialAssumption`. `KeepsServing` is not inductive, since what is under way may be
applied to anything. `BalancerInv` therefore says of each request under way that it may
create or replace the balancer as it is now *and as it may become*: its payload is sound by
itself (`IsSound`), and of the same family, which never changes. The certificate is the
one place where a payload is not whole. `Certified` says that the field is set and that
nothing under way clears it; a payload with a secure mode has a certificate of its own or
relies on `Certified` (`StaysSecured`). `PayloadCertificate` is the
step that carries it: a payload made from a balancer whose field is set never clears the
field, because an update repeats the certificate it read and every other command sends no
certificate field at all. Once the field is set and nothing under way clears it, no later
command does either. `InternalStaysPrivate` is about steps and needs no part of the
invariant for it but that every PUT under way was made of a balancer that exists:
`PayloadPrivate` says that what a command makes of a private balancer is private, whether the
API will tell its type or not, and `ApplyPrivate` that what is still under way remains so
when another request is applied. `LoadBalancerRefinement` adds `Fresh` for one shell
(`Alone`): what is under way was made from the balancer as it is, so that each PUT is
one step of `BalancerService`.

**Provisioning.** `ProvisioningProofs` proves `AtMostOneCreation`. `OnceInv` says that
before its changing request a process has nothing under way and nothing made, that
at most one message is under way, that nothing was made while it is, and that a change
is in its first attempt; `AtMostOneEffect` alone is not inductive, for a second message
would break it later. `ProvisioningReports` classifies steps: `StepKinds` says that each
step is one of a few kinds (a request is sent, the command ends, a label is passed, the API
answers or takes a change), with what is known of the request or the answer, so that the
later proofs have one case per kind and not one per action. On it rest

- `DeletionsAreTrue`: `SearchSound` says that a volume whose deletion was sent, once gone,
  does not come back, and that while the search goes on it is gone or on the page that is
  asked for or a later one (`NotBefore`), unless the process is disturbed. The number of
  pages is read with each page, which is why it counts the page that has the volume;
- `ReportsAreOwn`: `Owned` says that at the end of a creation what was answered was made
  for it, `NamedAsMade` that the group made for it has the name it was asked for until
  someone changes or deletes it;
- `TypeCorrect`, whose parts `VolumesInv`, `GroupsInv` and `IpsInv` say that ids are not shared.

`ProvisioningChanges` proves the action properties about groups, nodes and clusters from
one invariant, `ReadingsStand`: `ChangeInv` has three parts. `AccountHeld`: every node,
group and cluster has an id that was there at first or that was given to some process, so
that what a command has named cannot be made a second time. `Informed(p)`: what p has read
at its place in the command still holds, unless p is disturbed - the description of the
group, the number of groups and the VM of the node, the engine of the cluster, the plan
of that engine. `Warranted(p)`: a change that is on the wire is the one that the
command line asks for, given that reading. The last part is needed because a process may have
ended, or been killed, when its change is applied; the middle one because the reading is
what the last part is about. `Still` says for each reading that no other step spoils
it without disturbing its reader.

**Tickets** (`SupportTicketProofs`), under `TicketAssumption`: at least one runner, lists
that are sequences, and that a blank component counts as none. `RepliesAsMapped` is the
refinement of `ReplyMap`. `PoolInv` says that a runner works on a reply of the list
that no other runner works on and that has no result yet, that what it waits for is the
text of that reply, that every reply below `nextIndex` has a result or a runner, and that
no answer to a GET comes from the wire. Each action then maps to a step of `ReplyMap`
or to a stutter; that all runners have ended means that every result is there.
`TicketsCarryTheirFields` follows from `ChangeInv`: what is sent is the body of some
accepted command line, and it stays that through the wire. `ExitsAreTrue` needs
`TruthInv`, which counts the changes that were applied by the place of the main line: none
before its request, at most one while it is under way, exactly one once it was answered.

**Smoke** (`SmokeProofs`), under `SmokeAssumption` (two numbers). `ManifestInv` relates
manifest, cloud and late requests (`Agrees`): what is marked is gone, nothing that is
recorded will be created by a late request, and whatever is in use has a node. A flag
alone would not be inductive: a late creation could bring the resource back. `IsHistory`
and `IsClean` say what test and cleanup have recorded or cleared by the step at which
they are; `calm` adds that nothing is late and nothing detached is busy, from which
`CalmReplayIsEnough` follows at the last step.

What trying to prove showed. Three properties were first stated too strongly for some
constants, where TLC had not looked: `ReportIsOwn` when a group is renamed to the searched
name, `DeletionReportIsTrue` for an id that is given after the request, `LastGroupStays`
for a node without groups. Each now names its exception, and the run has command lines
that meet it. Two CASE expressions of the smoke model had overlapping arms, of which TLC took
the first and the language may take any; they are disjoint now. The proof about private
balancers asked for the condition on reserved IPs and several VPCs that section 5 explains.

Only model-checked:

- `EveryCommandEnds` and `EveryCleanupEnds`: liveness under fairness and `ENABLED` are out
  of the provers' reach.
- `ListIsComplete`: the order of a list (`InOrder`) is a `SelectSeq`, whose elements for
  every list are known by induction over data only.
- `PurchasesAreAsOrdered`: the choice of a load balancer's plan is a `SelectSeq`, too. What it
  says of volumes and addresses is of the kind of `ChangeInv`.
- `NewVpcsAreAsOrdered`: that blocks of addresses are aligned rests on the laws of powers of
  two, which need induction.
- The five `violation` runs, by their nature.

## 11. Disagreements found

- `config_overwrite_race`: an import replaces an alias that another command saved
  after the import read the file, with neither `--force` nor a prompt that named
  it, though the CLI says that one of them is needed.
- `lb_stale_acl`: renaming a backend group leaves ACL rules that route to the old
  name, which the deletion of a group takes care to avoid.
- `lb_duplicate_server`: `lb create` accepts two servers of one name in a group,
  which the user guide says is rejected; neither can be removed by name later.
- `volume_delete_shift`: `volume delete` that timed out searches page by page; when
  another volume is deleted meanwhile, the volume can move to a page that was
  read before, and is reported as deleted although it exists.
  `DeletionReportIsTrue` shows that within the model there is only one other way to a false
  report: the volume was made under that id after the request was sent. It assumes that
  the API tells the number of pages: where `total_page_number` is missing the search ends
  after its first page (`volume/service.ts:343`, `:602`; section 6).
- `smoke_torn_manifest`: the manifest is rewritten in place; a test or a cleanup that
  is killed at that moment leaves a file that no cleanup can read, though the
  documentation calls it the recovery file that makes replays safe.

## 12. Not modelled

- Argument parsing by commander, help, rendering of tables and JSON, masking of
  secrets, error classes, the checks of the docs and the build scripts: pure text or
  data.
- `node catalog`: each of its commands selects and lays out what one GET returns.
- Data that is passed through: the rules inside a rules file, billing fields that no
  decision reads, prices, texts and filters of tickets, names and images of nodes, the
  filters of lists that the API applies.
- `redirect_to_https` beyond the field itself: what the API does with it outside BOTH is
  not visible in the repository.
- The API's own checks (quotas, states in which it refuses a change) appear as
  refusals that may always happen.

The map covers about a third of the lines of the implementation. Nearly all of the
rest is what the first point names: six `formatter.ts` files of 300 to 1,000 lines, the
option declarations of the `command.ts` files, and types.

## 13. What is left

Done: config and credentials, load balancers, transport, volumes, paged lists, security
groups, reserved IPs, nodes, SSH keys, images, projects, VPCs, DBaaS, support tickets,
smoke cleanup; the proofs of section 10. Three properties that are only model-checked could
be proved in part:

1. `PurchasesAreAsOrdered`: volumes and addresses by adding the plans and the inventory that
   were read to `Informed` and `Warranted`; load balancers by choosing the first plan
   without `SelectSeq`.
2. The parts of `NewVpcsAreAsOrdered` that are not about powers of two.
3. `ListIsComplete` for volumes, whose pages are cut from a sequence as it is (the position
   of a volume never falls while nothing is deleted).
