---------------------------- MODULE SmokeCleanup ----------------------------
(***************************************************************************)
(* The release smoke test and scripts/manual-smoke-cleanup.mjs. The test   *)
(* creates real resources and records each of them in the manifest; the    *)
(* cleanup, started by the test or by a maintainer after an interruption,  *)
(* deletes what the manifest records, through the CLI and, when that       *)
(* fails, through the API clients. Either program may be killed at any     *)
(* step, an answer may be lost, and a request whose CLI process was killed *)
(* may still be carried out later.                                         *)
(***************************************************************************)
EXTENDS SmokeData

CONSTANTS
    MaxPolls,  \* polls that fit before a deadline of ten minutes
    MaxFaults  \* requests that go unanswered, over a whole behaviour

ASSUME SmokeAssumption == MaxPolls \in Nat \ {0} /\ MaxFaults \in Nat

VARIABLES
    cloud,       \* the resources, as the API knows them
    late,        \* requests of killed CLI processes, still under way
    manifest,    \* the manifest file
    draft,       \* the manifest that is being written
    mode,        \* the program that runs: the smoke test, the cleanup or none
    at,          \* its current step
    phase,       \* what it does next in that step
    polls,       \* polls left until the deadline
    hadFailures, \* the cleanup has called fail()
    result,      \* how the last cleanup ended
    faults,      \* requests that have gone unanswered so far
    calm         \* nothing has gone wrong since the cleanup was started

environment == <<cloud, late, faults>>

process == <<mode, at, phase, polls, hadFailures, result>>

files == <<manifest, draft>>

vars == <<environment, files, process, calm>>

Phases == {"do", "load", "cli", "find", "detach", "wait", "act",
           "record", "write", "throw"}

TypeOK ==
    /\ cloud \in Cloud
    /\ late \in SUBSET Request
    /\ manifest \in Manifest
    /\ draft \in Manifest
    /\ mode \in {"smoke", "cleanup", "idle"}
    /\ at \in 1 .. Len(SmokeScript) + 1
    /\ phase \in Phases
    /\ polls \in 0 .. MaxPolls
    /\ hadFailures \in BOOLEAN
    /\ result \in {"none", "ok", "failed", "thrown", "killed"}
    /\ faults \in 0 .. MaxFaults
    /\ calm \in BOOLEAN

Init ==
    /\ cloud = [exists |-> {"rules"}, attached |-> {}, busy |-> {}]
    /\ late = {}
    /\ manifest = NewManifest
    /\ draft = NewManifest
    /\ mode = "smoke" /\ at = 1 /\ phase = "do"
    /\ polls = MaxPolls
    /\ hadFailures = FALSE
    /\ result = "none"
    /\ faults = 0
    /\ calm = TRUE

-----------------------------------------------------------------------------
Goto(label) == phase' = label /\ UNCHANGED <<mode, at>>

NextStep(label) == at' = at + 1 /\ phase' = label /\ UNCHANGED mode

Answered(q) ==
    /\ cloud' = Granted(q, cloud)
    /\ UNCHANGED <<late, faults, calm>>

\* No answer: the request was carried out, was not, or will be later.
Unanswered(q) ==
    /\ faults < MaxFaults
    /\ faults' = faults + 1
    /\ calm' = FALSE
    /\ \/ cloud' = Granted(q, cloud) /\ UNCHANGED late
       \/ late' \in {late, late \cup {q}} /\ UNCHANGED cloud

\* runSmokeCleanup begins; the process that runs it is a new one.
CleanupStarts ==
    /\ mode' = "cleanup" /\ at' = 1 /\ phase' = "load"
    /\ hadFailures' = FALSE
    /\ result' = "none"
    /\ calm' = (late = {})
    /\ UNCHANGED <<environment, files, polls>>

Ends(how) ==
    /\ mode' = "idle" /\ at' = 1 /\ phase' = "load"
    /\ polls' = MaxPolls /\ hadFailures' = FALSE
    /\ result' = how

(***************************************************************************)
(* updateSmokeManifest reads the manifest again, and writeFile truncates   *)
(* the file before it fills it.                                            *)
(***************************************************************************)
Truncate(changed) ==
    /\ draft' = changed
    /\ manifest' = TornManifest
    /\ Goto("write")
    /\ UNCHANGED <<environment, polls, hadFailures, result, calm>>

Fill(label) ==
    /\ manifest' = draft
    /\ draft' = NewManifest
    /\ NextStep(label)
    /\ polls' = MaxPolls
    /\ UNCHANGED <<environment, hadFailures, result, calm>>

-----------------------------------------------------------------------------
(***************************************************************************)
(* The smoke test: a command, then the manifest; any failure ends the test *)
(* and starts the cleanup in its `finally` block. It waits for a slow      *)
(* resource before it uses it; a wait that times out is a failure too.     *)
(***************************************************************************)
InSmoke(label) == mode = "smoke" /\ at <= Len(SmokeScript) /\ phase = label

SmokeCommand ==
    /\ InSmoke("do")
    /\ Answer(SmokeScript[at], cloud) = "ok"
    /\ Answered(SmokeScript[at])
    /\ Goto("record")
    /\ UNCHANGED <<files, polls, hadFailures, result>>

SmokeCommandFails ==
    /\ InSmoke("do")
    /\ Unanswered(SmokeScript[at])
    /\ Goto("throw")
    /\ UNCHANGED <<files, polls, hadFailures, result>>

SmokeRecords ==
    /\ InSmoke("record")
    /\ \/ Truncate(Recorded(SmokeScript[at], manifest))
       \/ /\ SmokeScript[at].of = "image"
          /\ Truncate(ImageWithoutId(manifest))

SmokeWrites == InSmoke("write") /\ Fill("do")

SmokeEnds ==
    /\ mode = "smoke" /\ phase \in {"do", "throw"}
    /\ CleanupStarts

-----------------------------------------------------------------------------
(***************************************************************************)
(* The cleanup, one step of CleanupSteps after the other.                  *)
(***************************************************************************)
In(label) == mode = "cleanup" /\ at <= Len(CleanupSteps) /\ phase = label

step == CleanupSteps[at].request

CleanupThrows ==
    /\ In("load") /\ ~manifest.whole
    /\ Ends("thrown")
    /\ UNCHANGED <<environment, files, calm>>

CleanupSkips ==
    /\ In("load") /\ manifest.whole /\ NothingToDo(step, manifest)
    /\ NextStep("load")
    /\ UNCHANGED <<environment, files, polls, hadFailures, result, calm>>

CleanupLoads ==
    /\ In("load") /\ manifest.whole /\ ~NothingToDo(step, manifest)
    /\ Goto(CleanupSteps[at].first)
    /\ UNCHANGED <<environment, files, polls, hadFailures, result, calm>>

\* A faulty variant: what the CLI fails at is taken for being gone.
TakesFailureForGone(answer) == answer \in {"ok", "gone", "refused"}

\* runCliCleanup and the direct calls: success and "not found" are the same.
Settled(answer) == answer \in {"ok", "gone"}

CleanupCli ==
    /\ In("cli")
    /\ LET answer == Answer(step, cloud)
       IN  Goto(IF Settled(answer) THEN "record" ELSE CleanupSteps[at].fallback)
    /\ Answered(step)
    /\ UNCHANGED <<files, polls, hadFailures, result>>

\* The CLI fails, or is killed after its two minutes.
CleanupCliFails ==
    /\ In("cli")
    /\ Unanswered(step)
    /\ Goto(CleanupSteps[at].fallback)
    /\ UNCHANGED <<files, polls, hadFailures, result>>

\* A faulty variant: the failure is only logged.
LogsFailure ==
    /\ NextStep("load")
    /\ polls' = MaxPolls
    /\ UNCHANGED <<files, result, hadFailures>>

\* fail(): the failure is counted and the next step follows.
FailsStep ==
    /\ NextStep("load")
    /\ polls' = MaxPolls
    /\ hadFailures' = TRUE
    /\ UNCHANGED <<files, result>>

(***************************************************************************)
(* findReservedIp: an IP that is on no node needs no detaching. Before the *)
(* volume is detached the node is read, for its vm_id.                     *)
(***************************************************************************)
CleanupFinds ==
    /\ In("find")
    /\ Goto(CASE step.of = "volume" ->
                   IF "node" \in cloud.exists THEN "act" ELSE "record"
              [] step.do = "detach" /\ step.of # "volume" ->
                   IF step.of \in cloud.attached THEN "act" ELSE "record"
              [] OTHER ->
                   IF step.of \in cloud.attached THEN "detach" ELSE "act")
    /\ UNCHANGED <<environment, files, polls, hadFailures, result, calm>>

\* ensureReservedIpDetached. A "not found" ends in the catch block of the
\* whole step, which takes it for one about the IP itself.
CleanupDetaches ==
    /\ In("detach")
    /\ LET q == Do("detach", step.of)
           answer == Answer(q, cloud)
       IN  /\ Answered(q)
           /\ \/ /\ Settled(answer)
                 /\ Goto(IF answer = "ok" THEN "act" ELSE "record")
                 /\ UNCHANGED <<files, polls, hadFailures, result>>
              \/ answer = "refused" /\ FailsStep

Ready(r) == ~InUse(r, cloud)

\* A faulty variant: the deadline is never looked at.
WaitsForEver ==
    /\ In("wait")
    /\ \/ step.of \notin cloud.exists /\ Goto("record")
       \/ step.of \in cloud.exists /\ Ready(step.of) /\ Goto("act")
       \/ step.of \in cloud.exists /\ ~Ready(step.of) /\ UNCHANGED <<mode, at, phase>>
    /\ polls' = MaxPolls
    /\ UNCHANGED <<environment, files, hadFailures, result, calm>>

\* waitForVolumeDeletionReady, waitForVpcDeletionReady.
CleanupWaits ==
    /\ In("wait")
    /\ \/ /\ step.of \notin cloud.exists
          /\ Goto("record") /\ UNCHANGED polls
       \/ /\ step.of \in cloud.exists /\ Ready(step.of)
          /\ Goto("act") /\ polls' = MaxPolls
       \/ /\ step.of \in cloud.exists /\ ~Ready(step.of) /\ polls > 0
          /\ polls' = polls - 1 /\ UNCHANGED <<mode, at, phase>>
    /\ UNCHANGED <<environment, files, hadFailures, result, calm>>

\* A read that fails only takes its time.
CleanupPollFails ==
    /\ In("wait") /\ polls > 0 /\ faults < MaxFaults
    /\ polls' = polls - 1
    /\ faults' = faults + 1
    /\ calm' = FALSE
    /\ UNCHANGED <<cloud, late, files, mode, at, phase, hadFailures, result>>

\* The deadline: the cloud was slower than ten minutes, or it never was ready.
CleanupTimesOut ==
    /\ In("wait") \/ (In("act") /\ step = Do("delete", "vpc"))
    /\ polls = 0 /\ ~Ready(step.of)
    /\ FailsStep
    /\ calm' = (calm /\ step.of \in cloud.attached)
    /\ UNCHANGED environment

\* A faulty variant: the deadline is checked only after one more request.
ActsPastDeadline ==
    /\ In("act")
    /\ LET answer == Answer(step, cloud)
       IN  /\ Answered(step)
           /\ \/ /\ Settled(answer) /\ Goto("record")
                 /\ UNCHANGED <<files, polls, hadFailures, result>>
              \/ /\ ~Settled(answer) /\ step = Do("delete", "vpc")
                 /\ polls' = polls - 1
                 /\ UNCHANGED <<mode, at, phase, files, hadFailures, result>>
              \/ ~Settled(answer) /\ step # Do("delete", "vpc") /\ FailsStep

\* The direct call; deleteVpcWithRetry asks again while the VPC is in use.
CleanupActs ==
    /\ In("act")
    /\ LET answer == Answer(step, cloud)
           again == step = Do("delete", "vpc")
       IN  /\ Answered(step)
           /\ \/ /\ Settled(answer) /\ Goto("record")
                 /\ UNCHANGED <<files, polls, hadFailures, result>>
              \/ /\ ~Settled(answer) /\ again /\ polls > 0
                 /\ polls' = polls - 1
                 /\ UNCHANGED <<mode, at, phase, files, hadFailures, result>>
              \/ ~Settled(answer) /\ ~again /\ FailsStep

CleanupActFails ==
    /\ In("act") \/ In("detach")
    /\ Unanswered(IF phase = "act" THEN step ELSE Do("detach", step.of))
    /\ FailsStep

\* findReservedIp or getNode fails.
CleanupFindFails ==
    /\ In("find") /\ faults < MaxFaults
    /\ faults' = faults + 1
    /\ calm' = FALSE
    /\ FailsStep
    /\ UNCHANGED <<cloud, late>>

CleanupRecords == In("record") /\ Truncate(Recorded(step, manifest))

CleanupWrites == In("write") /\ Fill("load")

CleanupEnds ==
    /\ mode = "cleanup" /\ at > Len(CleanupSteps)
    /\ Ends(IF hadFailures THEN "failed" ELSE "ok")
    /\ UNCHANGED <<environment, files, calm>>

-----------------------------------------------------------------------------
(***************************************************************************)
(* The environment.                                                        *)
(***************************************************************************)
\* A volume or VPC that was busy is so no longer.
CloudSettles ==
    /\ \E r \in cloud.busy : cloud' = [cloud EXCEPT !.busy = @ \ {r}]
    /\ UNCHANGED <<late, faults, files, process, calm>>

LateRequestArrives ==
    /\ \E q \in late : cloud' = Granted(q, cloud) /\ late' = late \ {q}
    /\ calm' = FALSE
    /\ UNCHANGED <<faults, files, process>>

\* The program is killed: by its user, by a timer, with the machine. The CLI
\* process it waits for may go on.
Killed ==
    /\ mode # "idle"
    /\ Ends("killed")
    /\ late' \in {late, late \cup (IF In("cli") THEN {step}
                                   ELSE IF InSmoke("do") THEN {SmokeScript[at]} ELSE {})}
    /\ draft' = NewManifest
    /\ UNCHANGED <<cloud, faults, manifest, calm>>

\* npm run test:manual:smoke:cleanup -- --manifest <path>
Replay == mode = "idle" /\ CleanupStarts

-----------------------------------------------------------------------------
SmokeStep ==
    SmokeCommand \/ SmokeCommandFails \/ SmokeRecords \/ SmokeWrites \/ SmokeEnds

CleanupStep ==
    \/ CleanupThrows \/ CleanupSkips \/ CleanupLoads \/ CleanupCli
    \/ CleanupCliFails \/ CleanupFinds \/ CleanupFindFails \/ CleanupDetaches
    \/ CleanupWaits \/ CleanupPollFails \/ CleanupTimesOut \/ CleanupActs
    \/ CleanupActFails \/ CleanupRecords \/ CleanupWrites \/ CleanupEnds

EnvironmentStep == CloudSettles \/ LateRequestArrives \/ Killed \/ Replay

Next == SmokeStep \/ CleanupStep \/ EnvironmentStep

Spec == Init /\ [][Next]_vars

\* Every request and every command of the cleanup has a timer of its own.
FairSpec == Spec /\ WF_vars(CleanupStep)
=============================================================================
