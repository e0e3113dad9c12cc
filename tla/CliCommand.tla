----------------------------- MODULE CliCommand -----------------------------
(***************************************************************************)
(* What the commands that work on remote resources have in common: a       *)
(* command line, perhaps a confirmation, credentials, requests one after   *)
(* the other, and an exit. A process runs one command.                     *)
(***************************************************************************)
EXTENDS Transport

CONSTANTS Workloads   \* who may run what: functions from Proc to command lines

VARIABLES
    pc,       \* pc[p]: where the command of p is
    cmd,      \* cmd[p]: its command line
    outcome,  \* outcome[p]: how it ended
    report,   \* report[p]: what it has found out, and reports if it succeeds
    created,  \* created[p]: the resources the API has made for p (history)
    disturbed \* processes whose reading a later change made stale (history)

progressVars == <<pc, cmd, outcome, report>>

commandVars == <<progressVars, created, disturbed>>

CommandInit ==
    /\ cmd \in Workloads
    /\ pc = [p \in Proc |-> "idle"]
    /\ outcome = [p \in Proc |-> "none"]
    /\ report = [p \in Proc |-> None]
    /\ created = [p \in Proc |-> {}]
    /\ disturbed = {}

Outcomes == {"none", "ok", "cancelled", "error", "killed"}

Running(p) == pc[p] \notin {"idle", "end"}

Goto(p, label) == pc' = [pc EXCEPT ![p] = label]

\* The commands that ask before they do anything, unless given --force.
AsksFirst ==
    {"volume-delete", "ip-delete", "group-delete", "node-delete", "node-upgrade",
     "vpc-delete", "db-public-off", "key-delete", "image-delete"}

\* A committed plan is given if and only if the order is for one; what follows
\* the commitment only with it.
IsBilling(line) ==
    /\ line.billing = "committed" <=> line.committed # None
    /\ line.renewal # None => line.billing = "committed"

Renewal(line) ==
    IF line.committed = None THEN None
    ELSE IF line.renewal = None THEN "auto-renew" ELSE line.renewal

\* A command is at its beginning, and may send its first request.
Begins(p, op) == pc[p] = "ready" /\ cmd[p].op = op

\* p sends a request, and goes on at `label` when it has the result.
AskWith(p, label, request, found) ==
    /\ Send(p, request)
    /\ Goto(p, label)
    /\ report' = [report EXCEPT ![p] = found]
    /\ UNCHANGED <<cmd, outcome, created, disturbed>>

Ask(p, label, request) == AskWith(p, label, request, report[p])

Exit(p, result) ==
    /\ Goto(p, "end")
    /\ outcome' = [outcome EXCEPT ![p] = result]
    /\ call' = [call EXCEPT ![p] = NoCall]
    /\ UNCHANGED <<wire, cmd, created, disturbed>>

Succeed(p, value) ==
    Exit(p, "ok") /\ report' = [report EXCEPT ![p] = value]

Fail(p) == Exit(p, "error") /\ UNCHANGED report

-----------------------------------------------------------------------------
Start(p) ==
    /\ pc[p] = "idle"
    /\ Goto(p, IF cmd[p].op \in AsksFirst /\ ~cmd[p].force
               THEN "confirm" ELSE "ready")
    /\ UNCHANGED <<transportVars, cmd, outcome, report, created, disturbed>>

Confirm(p) ==
    /\ pc[p] = "confirm"
    /\ Goto(p, "ready")
    /\ UNCHANGED <<transportVars, cmd, outcome, report, created, disturbed>>

Decline(p) ==
    /\ pc[p] = "confirm"
    /\ Exit(p, "cancelled") /\ UNCHANGED report

\* CONFIRMATION_REQUIRED without a terminal; resolveStoredCredentials throws.
Reject(p) == pc[p] \in {"confirm", "ready"} /\ Fail(p)

\* A rejected request that no handler catches ends the command.
Uncaught(p, labels) ==
    /\ pc[p] \in labels
    /\ Has(p, "timeout") \/ Has(p, "failed")
    /\ Fail(p)

\* Commands whose last request changes one resource.
SendChange(p, op, request) == Begins(p, op) /\ Ask(p, "change", request)

ChangeDone(p) ==
    /\ pc[p] = "change" /\ Has(p, "ok")
    /\ Succeed(p, cmd[p].target)

\* The process is killed; what it has sent is still under way.
Kill(p) == Running(p) /\ Exit(p, "killed") /\ UNCHANGED report

CommandStep(p) ==
    \/ Start(p) \/ Confirm(p) \/ Decline(p) \/ Reject(p)
    \/ ChangeDone(p) \/ Uncaught(p, {"change"})
=============================================================================
