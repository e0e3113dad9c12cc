---------------------------- MODULE ConfigStore ----------------------------
(***************************************************************************)
(* The `config` command family: ConfigService and ConfigStore running in   *)
(* several operating-system processes that share one config.json.          *)
(*                                                                         *)
(* A member of Proc is one invocation of the CLI. It runs one command from *)
(* Commands, reads the file, may wait for the user or for the MyAccount API*)
(* and then replaces the file: a temporary file is created, filled and     *)
(* renamed over config.json. There is no lock. Any step may be the last one*)
(* of the process (Crash). A command that calls the API ("api") is here as *)
(* far as its first step, which resolves the credentials it works with.    *)
(***************************************************************************)
EXTENDS Credentials

CONSTANTS
    Proc,         \* invocations of the CLI
    Commands,     \* the commands they may run
    InitialFiles, \* what config.json may be when the first one starts
    ValidCred,    \* the credentials that GET /iam/multi-crn/ accepts
    Sequential    \* TRUE: the user starts a command when the last has ended

VARIABLES
    file,      \* config.json
    temp,      \* temp[p]: the temporary file that p created
    pc,        \* pc[p]: the next step of p
    cmd,       \* cmd[p]: the command p runs
    seen,      \* seen[p]: the config that p read and works from
    next,      \* next[p]: the config that p is about to write
    todo,      \* todo[p]: the imported aliases p has not validated yet
    consent,   \* consent[p]: the user confirmed overwriting
    published, \* published[p]: p replaced config.json
    outcome    \* outcome[p]: how the process ended

vars == <<file, temp, pc, cmd, seen, next, todo, consent, published, outcome>>

(***************************************************************************)
(* A command line. For an import, `secrets` is what readImportedProfiles   *)
(* returns; the function that is None everywhere stands for every import   *)
(* file that it rejects. Only an API command has a `request` of interest.  *)
(***************************************************************************)
Ops == {"api", "import", "list", "remove", "set-context", "set-default"}

Command ==
    [op       : Ops,
     alias    : Alias,
     secrets  : [Alias -> Cred \cup {None}],
     pid      : ProjectId \cup {None, Bad},
     loc      : Location \cup {None, Bad},
     default  : Alias \cup {None},
     force    : BOOLEAN,
     canPrompt: BOOLEAN,
     request  : Request]

FileState == [state : {"absent", "ok", "insecure", "corrupt"}, cfg : Config]

ASSUME CommandAssumption ==
    /\ Commands \subseteq Command
    /\ InitialFiles \subseteq FileState
    /\ \A f \in InitialFiles : f.state # "ok" => f.cfg = EmptyConfig
    /\ ValidCred \subseteq Cred
    /\ Sequential \in BOOLEAN

Imported(c) == {a \in Alias : c.secrets[a] # None}

PCs == {"idle", "resolve", "import", "confirm", "validate", "defaults", "check",
        "load", "list", "open", "fill", "rename", "abort", "unlink", "reread", "end"}

\* "not-removed": the process ends with the error of rm on its temporary file.
Outcomes == {"none", "ok", "error", "not-removed", "crashed"}

Running(p) == pc[p] \notin {"idle", "end"}

BadProjectIds(config) ==
    {a \in Saved(config) : config.profiles[a].default_project_id = Bad}

BadLocations(config) ==
    {a \in Saved(config) : config.profiles[a].default_location = Bad}

\* What is malformed in config was malformed before any command ran.
AddsNoneMalformed(config) ==
    /\ BadProjectIds(config) \subseteq UNION {BadProjectIds(f.cfg) : f \in InitialFiles}
    /\ BadLocations(config) \subseteq UNION {BadLocations(f.cfg) : f \in InitialFiles}

\* Every variable has its type, and the commands, which check the context they
\* save, add no malformed project id or location to a file edited by hand.
TypeOK ==
    /\ file \in FileState
    /\ temp \in [Proc -> {"none", "partial", "full"}]
    /\ pc \in [Proc -> PCs]
    /\ cmd \in [Proc -> Command \cup {None}]
    /\ \A p \in Proc : pc[p] # "idle" => cmd[p] \in Command
    /\ seen \in [Proc -> Config]
    /\ next \in [Proc -> Config]
    /\ AddsNoneMalformed(file.cfg)
    /\ \A p \in Proc : AddsNoneMalformed(seen[p]) /\ AddsNoneMalformed(next[p])
    /\ todo \in [Proc -> SUBSET Alias]
    /\ consent \in [Proc -> BOOLEAN]
    /\ published \in [Proc -> BOOLEAN]
    /\ outcome \in [Proc -> Outcomes]

Init ==
    /\ file \in InitialFiles
    /\ temp = [p \in Proc |-> "none"]
    /\ pc = [p \in Proc |-> "idle"]
    /\ cmd = [p \in Proc |-> None]
    /\ seen = [p \in Proc |-> EmptyConfig]
    /\ next = [p \in Proc |-> EmptyConfig]
    /\ todo = [p \in Proc |-> {}]
    /\ consent = [p \in Proc |-> FALSE]
    /\ published = [p \in Proc |-> FALSE]
    /\ outcome = [p \in Proc |-> "none"]

-----------------------------------------------------------------------------
(***************************************************************************)
(* ConfigStore.read. The permission check, the read and the parse are one  *)
(* step: every later version of the file has mode 0600 and is renamed into *)
(* place whole, so what stat saw still holds when readFile runs.           *)
(***************************************************************************)
Readable == file.state \in {"absent", "ok"}

ReadConfig == IF file.state = "ok" THEN file.cfg ELSE EmptyConfig

Goto(p, label) == pc' = [pc EXCEPT ![p] = label]

Exit(p, result) ==
    /\ Goto(p, "end")
    /\ outcome' = [outcome EXCEPT ![p] = result]

\* The process reports an error and ends; nothing else changes.
Fail(p) ==
    /\ Exit(p, "error")
    /\ UNCHANGED <<file, temp, cmd, seen, next, todo, consent, published>>

\* The user, or a script, starts a command.
Start(p, c) ==
    /\ pc[p] = "idle"
    /\ Sequential => \A q \in Proc : ~Running(q)
    /\ cmd' = [cmd EXCEPT ![p] = c]
    /\ Goto(p, CASE c.op = "import" -> "import"
                 [] c.op = "list"   -> "list"
                 [] c.op = "api"    -> "resolve"
                 [] OTHER           -> "check")
    /\ UNCHANGED <<file, temp, seen, next, todo, consent, published, outcome>>

\* stat or readFile fails, though config.json is there and would be accepted.
ReadFails(p) ==
    /\ pc[p] \in {"resolve", "list", "import", "check", "load", "reread"}
    /\ Fail(p)

(***************************************************************************)
(* resolveStoredCredentials, resolveStoredAccountCredentials: one reading  *)
(* of the config. What the command then asks of the API is in other        *)
(* modules; whatever it resolves comes from this reading.                  *)
(***************************************************************************)
Resolve(p) ==
    /\ pc[p] = "resolve"
    /\ seen' = [seen EXCEPT ![p] = ReadConfig]
    /\ Exit(p, IF Readable /\ Resolution(ReadConfig, cmd[p].request) = "ok"
               THEN "ok" ELSE "error")
    /\ UNCHANGED <<file, temp, cmd, next, todo, consent, published>>

List(p) ==
    /\ pc[p] = "list"
    /\ Exit(p, IF Readable THEN "ok" ELSE "error")
    /\ seen' = [seen EXCEPT ![p] = ReadConfig]
    /\ UNCHANGED <<file, temp, cmd, next, todo, consent, published>>

-----------------------------------------------------------------------------
(***************************************************************************)
(* importProfiles: the import file and the saved config are read once, at  *)
(* the start. Everything the import decides later rests on that reading.   *)
(***************************************************************************)
\* A faulty variant: only the default alias counts as overwritten.
OverwrittenDefault(p, config) ==
    {a \in Imported(cmd[p]) : config.default = a}

OverwrittenAliases(p, config) ==
    {a \in Imported(cmd[p]) : config.profiles[a] # None}

\* confirmOverwriteIfNeeded, as far as it decides without the user.
ImportRead(p) ==
    /\ pc[p] = "import"
    /\ Readable /\ Imported(cmd[p]) # {}
    /\ LET clear == OverwrittenAliases(p, ReadConfig) = {} \/ cmd[p].force
       IN  /\ clear \/ cmd[p].canPrompt
           /\ Goto(p, IF clear THEN "validate" ELSE "confirm")
    /\ seen' = [seen EXCEPT ![p] = ReadConfig]
    /\ todo' = [todo EXCEPT ![p] = Imported(cmd[p])]
    /\ UNCHANGED <<file, temp, cmd, next, consent, published, outcome>>

\* Rejected import file, unreadable config, or IMPORT_OVERWRITE_REQUIRED.
ImportRefused(p) ==
    /\ pc[p] = "import"
    /\ \/ ~Readable
       \/ Imported(cmd[p]) = {}
       \/ /\ OverwrittenAliases(p, ReadConfig) # {}
          /\ ~cmd[p].force /\ ~cmd[p].canPrompt
    /\ Fail(p)

\* The user answers the overwrite prompt.
ImportConfirmed(p) ==
    /\ pc[p] = "confirm"
    /\ consent' = [consent EXCEPT ![p] = TRUE]
    /\ Goto(p, "validate")
    /\ UNCHANGED <<file, temp, cmd, seen, next, todo, published, outcome>>

ImportCancelled(p) == pc[p] = "confirm" /\ Fail(p)

(***************************************************************************)
(* The API is asked about one alias after the other, in no order that      *)
(* matters here. The request may also fail for reasons of its own.         *)
(***************************************************************************)
ValidateOne(p) ==
    /\ pc[p] = "validate"
    /\ \E a \in todo[p] :
         /\ cmd[p].secrets[a] \in ValidCred
         /\ todo' = [todo EXCEPT ![p] = @ \ {a}]
    /\ UNCHANGED <<file, temp, pc, cmd, seen, next, consent, published, outcome>>

ValidationFails(p) == pc[p] = "validate" /\ todo[p] # {} /\ Fail(p)

\* A faulty variant: the import goes on after the first validated alias.
ValidationOfOneSuffices(p) ==
    /\ pc[p] = "validate" /\ todo[p] # Imported(cmd[p])
    /\ Goto(p, "defaults")
    /\ UNCHANGED <<file, temp, cmd, seen, next, todo, consent, published, outcome>>

ValidationDone(p) ==
    /\ pc[p] = "validate" /\ todo[p] = {}
    /\ Goto(p, "defaults")
    /\ UNCHANGED <<file, temp, cmd, seen, next, todo, consent, published, outcome>>

\* normalizeOptionalString(flag) ?? prompt: the flag wins, Enter skips.
Answers(flag, values, canPrompt) ==
    IF flag # None THEN {flag}
    ELSE IF canPrompt THEN values \cup {None, Bad} ELSE {None}

(***************************************************************************)
(* resolveImportedDefaultAlias: --default wins; without it the user may    *)
(* choose an imported alias when no default is saved. Bad: an alias that   *)
(* is not part of the import.                                              *)
(***************************************************************************)
DefaultAnswers(p) ==
    IF cmd[p].default # None
    THEN IF cmd[p].default \in Imported(cmd[p]) THEN {cmd[p].default} ELSE {Bad}
    ELSE IF seen[p].default # None \/ ~cmd[p].canPrompt THEN {None}
    ELSE IF \E a \in Alias : Imported(cmd[p]) = {a} THEN Imported(cmd[p]) \cup {None}
    ELSE Imported(cmd[p]) \cup {None, Bad}

ImportResolved(p) ==
    /\ pc[p] = "defaults"
    /\ \E pid \in Answers(cmd[p].pid, ProjectId, cmd[p].canPrompt) \ {Bad},
          loc \in Answers(cmd[p].loc, Location, cmd[p].canPrompt) \ {Bad},
          alias \in DefaultAnswers(p) \ {Bad} :
         next' = [next EXCEPT ![p] =
                    WithImport(seen[p], cmd[p].secrets, pid, loc, alias)]
    /\ Goto(p, "open")
    /\ UNCHANGED <<file, temp, cmd, seen, todo, consent, published, outcome>>

\* A faulty variant: a rejected answer is asked for again.
ImportAsksAgain(p) ==
    /\ pc[p] = "defaults"
    /\ Goto(p, "defaults")
    /\ UNCHANGED <<file, temp, cmd, seen, next, todo, consent, published, outcome>>

\* INVALID_PROJECT_ID, INVALID_LOCATION or INVALID_IMPORT_DEFAULT_ALIAS.
ImportUnresolved(p) ==
    /\ pc[p] = "defaults"
    /\ \/ Bad \in Answers(cmd[p].pid, ProjectId, cmd[p].canPrompt)
       \/ Bad \in Answers(cmd[p].loc, Location, cmd[p].canPrompt)
       \/ Bad \in DefaultAnswers(p)
    /\ Fail(p)

-----------------------------------------------------------------------------
(***************************************************************************)
(* remove, set-context and set-default: assertProfileExists reads the file *)
(* and the store's own method reads it again.                              *)
(***************************************************************************)
\* A faulty variant: the values themselves are not checked.
ContextMissing(c) == c.pid = None /\ c.loc = None

ContextRejected(c) ==
    \/ c.pid = None /\ c.loc = None
    \/ c.pid = Bad \/ c.loc = Bad

CheckExists(p) ==
    /\ pc[p] = "check"
    /\ Readable /\ ReadConfig.profiles[cmd[p].alias] # None
    /\ cmd[p].op = "set-context" => ~ContextRejected(cmd[p])
    /\ Goto(p, "load")
    /\ UNCHANGED <<file, temp, cmd, seen, next, todo, consent, published, outcome>>

CheckFails(p) ==
    /\ pc[p] = "check"
    /\ \/ ~Readable
       \/ ReadConfig.profiles[cmd[p].alias] = None
       \/ cmd[p].op = "set-context" /\ ContextRejected(cmd[p])
    /\ Fail(p)

\* updateProfile spreads a profile that is gone and then trims undefined.
LoadThrows(p) ==
    \/ ~Readable
    \/ cmd[p].op = "set-context" /\ ReadConfig.profiles[cmd[p].alias] = None

Effect(c, config) ==
    CASE c.op = "remove"      -> WithoutProfile(config, c.alias)
      [] c.op = "set-default" -> WithDefault(config, c.alias)
      [] OTHER                -> WithContext(config, c.alias, c.pid, c.loc)

Load(p) ==
    /\ pc[p] = "load"
    /\ ~LoadThrows(p)
    /\ seen' = [seen EXCEPT ![p] = ReadConfig]
    /\ next' = [next EXCEPT ![p] = Effect(cmd[p], ReadConfig)]
    /\ Goto(p, "open")
    /\ UNCHANGED <<file, temp, cmd, todo, consent, published, outcome>>

LoadFails(p) == pc[p] = "load" /\ LoadThrows(p) /\ Fail(p)

-----------------------------------------------------------------------------
(***************************************************************************)
(* ConfigStore.write: the directory is made, the temporary file is created *)
(* (flag wx), filled, given mode 0600 and renamed. Each system call may    *)
(* fail; the finally block then removes the temporary file, and may fail.  *)
(***************************************************************************)
\* A faulty variant: the old file is truncated before the new one is complete.
OpenInPlace(p) ==
    /\ pc[p] = "open"
    /\ temp' = [temp EXCEPT ![p] = "partial"]
    /\ file' = [state |-> "corrupt", cfg |-> EmptyConfig]
    /\ Goto(p, "fill")
    /\ UNCHANGED <<cmd, seen, next, todo, consent, published, outcome>>

OpenTemp(p) ==
    /\ pc[p] = "open"
    /\ temp' = [temp EXCEPT ![p] = "partial"]
    /\ Goto(p, "fill")
    /\ UNCHANGED <<file, cmd, seen, next, todo, consent, published, outcome>>

FillTemp(p) ==
    /\ pc[p] = "fill"
    /\ temp' = [temp EXCEPT ![p] = "full"]
    /\ Goto(p, "rename")
    /\ UNCHANGED <<file, cmd, seen, next, todo, consent, published, outcome>>

\* What renaming p's temporary file over config.json makes of the latter.
Renamed(p) ==
    IF temp[p] = "full" THEN [state |-> "ok", cfg |-> next[p]]
    ELSE [state |-> "corrupt", cfg |-> EmptyConfig]

Rename(p) ==
    /\ pc[p] = "rename"
    /\ file' = Renamed(p)
    /\ temp' = [temp EXCEPT ![p] = "none"]
    /\ published' = [published EXCEPT ![p] = TRUE]
    /\ Goto(p, "unlink")
    /\ UNCHANGED <<cmd, seen, next, todo, consent, outcome>>

WriteFails(p) ==
    /\ pc[p] \in {"open", "fill", "rename"}
    /\ Goto(p, "abort")
    /\ UNCHANGED <<file, temp, cmd, seen, next, todo, consent, published, outcome>>

\* Faulty variants of Abort: the failure is swallowed, the file stays.
AbortWithSuccess(p) ==
    /\ pc[p] = "abort"
    /\ temp' = [temp EXCEPT ![p] = "none"]
    /\ Exit(p, "ok")
    /\ UNCHANGED <<file, cmd, seen, next, todo, consent, published>>

AbortLeavingTemp(p) == pc[p] = "abort" /\ Fail(p)

\* rm(tempPath, {force: true}) after a failure ...
Abort(p) ==
    /\ pc[p] = "abort"
    /\ temp' = [temp EXCEPT ![p] = "none"]
    /\ Exit(p, "error")
    /\ UNCHANGED <<file, cmd, seen, next, todo, consent, published>>

\* ... and after the rename, when there is nothing left to remove.
Unlink(p) ==
    /\ pc[p] = "unlink"
    /\ temp' = [temp EXCEPT ![p] = "none"]
    /\ IF cmd[p].op = "import"
       THEN Goto(p, "reread") /\ UNCHANGED outcome
       ELSE Exit(p, "ok")
    /\ UNCHANGED <<file, cmd, seen, next, todo, consent, published>>

\* rm itself fails. Thrown from the finally block, its error takes the place
\* of the first one, and of the result when config.json is already replaced.
RemoveFails(p) ==
    /\ pc[p] \in {"abort", "unlink"}
    /\ Exit(p, "not-removed")
    /\ UNCHANGED <<file, temp, cmd, seen, next, todo, consent, published>>

\* importProfiles reports what it reads back, not what it wrote: if reading
\* fails (here or in ReadFails), it ends with an error after it has saved.
Reread(p) ==
    /\ pc[p] = "reread"
    /\ seen' = [seen EXCEPT ![p] = ReadConfig]
    /\ Exit(p, IF Readable THEN "ok" ELSE "error")
    /\ UNCHANGED <<file, temp, cmd, next, todo, consent, published>>

\* The process is killed or the machine stops; its temporary file remains.
Crash(p) ==
    /\ Running(p)
    /\ Exit(p, "crashed")
    /\ UNCHANGED <<file, temp, cmd, seen, next, todo, consent, published>>

-----------------------------------------------------------------------------
ImportStep(p) ==
    \/ ImportRead(p) \/ ImportRefused(p) \/ ImportConfirmed(p)
    \/ ImportCancelled(p) \/ ValidateOne(p) \/ ValidationFails(p)
    \/ ValidationDone(p) \/ ImportResolved(p) \/ ImportUnresolved(p)

ProfileStep(p) ==
    \/ ReadFails(p) \/ Resolve(p) \/ List(p)
    \/ CheckExists(p) \/ CheckFails(p) \/ Load(p) \/ LoadFails(p)

WriteStep(p) ==
    \/ OpenTemp(p) \/ FillTemp(p) \/ Rename(p) \/ WriteFails(p)
    \/ Abort(p) \/ Unlink(p) \/ RemoveFails(p) \/ Reread(p)

Step(p) == ImportStep(p) \/ ProfileStep(p) \/ WriteStep(p)

Next ==
    \E p \in Proc :
        \/ \E c \in Commands : Start(p, c)
        \/ Step(p)
        \/ Crash(p)

Spec == Init /\ [][Next]_vars

\* A process that was started goes on, and a prompt is answered: see README.
FairSpec == Spec /\ \A p \in Proc : WF_vars(Step(p))
=============================================================================
