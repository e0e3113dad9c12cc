------------------------- MODULE ConfigStoreProofs -------------------------
(***************************************************************************)
(* What holds of the config commands for any number of processes, aliases, *)
(* credentials and command lines, with no lock between the processes.      *)
(***************************************************************************)
EXTENDS ConfigProperties, TLAPS

-----------------------------------------------------------------------------
(* The pure functions of ConfigData stay within Config.                    *)

LEMMA EmptyConfigType == EmptyConfig \in Config
BY DEF EmptyConfig, Config

LEMMA ReadConfigType ==
    ASSUME file \in FileState
    PROVE  ReadConfig \in Config
BY EmptyConfigType DEF ReadConfig, FileState

LEMMA WithoutProfileType ==
    ASSUME NEW config \in Config, NEW alias \in Alias
    PROVE  WithoutProfile(config, alias) \in Config
<1> DEFINE rest == Saved(config) \ {alias}
<1>1. FirstProfileAlias(rest) \in Alias \cup {None}
  <2>1. rest \in SUBSET Alias
    BY DEF Saved
  <2>2. CASE rest = {}
    BY <2>2 DEF FirstProfileAlias
  <2>3. CASE rest # {}
    <3>1. FirstOf(rest) \in rest
      BY <2>1, <2>3, DataAssumption DEF DataAssumption
    <3> QED BY <2>1, <2>3, <3>1 DEF FirstProfileAlias
  <2> QED BY <2>2, <2>3
<1>2. [config.profiles EXCEPT ![alias] = None] \in [Alias -> Profile \cup {None}]
  BY DEF Config
<1>3. config.default \in Alias \cup {None}
  BY DEF Config
<1> HIDE DEF rest
<1>4. (IF config.default = alias THEN FirstProfileAlias(rest) ELSE config.default)
        \in Alias \cup {None}
  BY <1>1, <1>3
<1> QED BY <1>2, <1>4 DEF WithoutProfile, Config, rest

LEMMA WithDefaultType ==
    ASSUME NEW config \in Config, NEW alias \in Alias
    PROVE  WithDefault(config, alias) \in Config
BY DEF WithDefault, Config

LEMMA WithContextType ==
    ASSUME NEW config \in Config, NEW alias \in Saved(config),
           NEW projectId \in ProjectId \cup {None},
           NEW location \in Location \cup {None}
    PROVE  WithContext(config, alias, projectId, location) \in Config
<1> DEFINE new == PatchedProfile(config.profiles[alias], projectId, location)
<1>1. config.profiles[alias] \in Profile /\ alias \in Alias
  BY DEF Saved, Config
<1>2. new \in Profile
  BY <1>1 DEF PatchedProfile, Profile, Override
<1> HIDE DEF new
<1>3. [config.profiles EXCEPT ![alias] = new] \in [Alias -> Profile \cup {None}]
  BY <1>2 DEF Config
<1> QED BY <1>1, <1>3 DEF WithContext, Config, new

LEMMA ImportedProfileType ==
    ASSUME NEW old \in Profile \cup {None}, NEW cred \in Cred,
           NEW projectId \in ProjectId \cup {None},
           NEW location \in Location \cup {None}
    PROVE  ImportedProfile(old, cred, projectId, location) \in Profile
BY DEF ImportedProfile, Profile, Override

LEMMA WithImportType ==
    ASSUME NEW config \in Config,
           NEW secrets \in [Alias -> Cred \cup {None}],
           NEW projectId \in ProjectId \cup {None},
           NEW location \in Location \cup {None},
           NEW alias \in Alias \cup {None}
    PROVE  WithImport(config, secrets, projectId, location, alias) \in Config
<1>1. ASSUME NEW a \in Alias, secrets[a] # None
      PROVE  ImportedProfile(config.profiles[a], secrets[a], projectId, location)
               \in Profile
  <2>1. config.profiles[a] \in Profile \cup {None} /\ secrets[a] \in Cred
    BY <1>1 DEF Config
  <2> QED BY <2>1, ImportedProfileType
<1>2. [a \in Alias |->
         IF secrets[a] = None THEN config.profiles[a]
         ELSE ImportedProfile(config.profiles[a], secrets[a], projectId, location)]
        \in [Alias -> Profile \cup {None}]
  BY <1>1 DEF Config
<1>3. Override(alias, config.default) \in Alias \cup {None}
  BY DEF Override, Config
<1> QED BY <1>2, <1>3 DEF WithImport, Config

-----------------------------------------------------------------------------
(* They pass malformed values on at most, and only those of the same alias. *)

LEMMA NoneMalformedIn ==
    ASSUME NEW old, NEW config, AddsNoneMalformed(old),
           BadProjectIds(config) \subseteq BadProjectIds(old),
           BadLocations(config) \subseteq BadLocations(old)
    PROVE  AddsNoneMalformed(config)
BY Zenon DEF AddsNoneMalformed

LEMMA EmptyConfigClean == AddsNoneMalformed(EmptyConfig)
<1>1. BadProjectIds(EmptyConfig) = {} /\ BadLocations(EmptyConfig) = {}
  BY DEF BadProjectIds, BadLocations, Saved, EmptyConfig
<1> QED BY <1>1 DEF AddsNoneMalformed

LEMMA ReadConfigClean ==
    ASSUME AddsNoneMalformed(file.cfg)
    PROVE  AddsNoneMalformed(ReadConfig)
BY EmptyConfigClean DEF ReadConfig

LEMMA WithoutProfileClean ==
    ASSUME NEW config \in Config, NEW alias \in Alias, AddsNoneMalformed(config)
    PROVE  AddsNoneMalformed(WithoutProfile(config, alias))
<1> DEFINE new == WithoutProfile(config, alias)
<1>1. \A a \in Saved(new) :
        a \in Saved(config) /\ new.profiles[a] = config.profiles[a]
  BY DEF WithoutProfile, Saved, Config
<1> HIDE DEF new
<1>2. /\ BadProjectIds(new) \subseteq BadProjectIds(config)
      /\ BadLocations(new) \subseteq BadLocations(config)
  BY <1>1 DEF BadProjectIds, BadLocations
<1> QED BY <1>2, NoneMalformedIn DEF new

LEMMA WithDefaultClean ==
    ASSUME NEW config \in Config, NEW alias \in Alias, AddsNoneMalformed(config)
    PROVE  AddsNoneMalformed(WithDefault(config, alias))
<1>1. WithDefault(config, alias).profiles = config.profiles
  BY DEF WithDefault, Config
<1>2. /\ BadProjectIds(WithDefault(config, alias)) = BadProjectIds(config)
      /\ BadLocations(WithDefault(config, alias)) = BadLocations(config)
  BY <1>1 DEF BadProjectIds, BadLocations, Saved
<1> QED BY <1>2, NoneMalformedIn

LEMMA WithContextClean ==
    ASSUME NEW config \in Config, NEW alias \in Saved(config),
           NEW projectId \in ProjectId \cup {None},
           NEW location \in Location \cup {None},
           AddsNoneMalformed(config)
    PROVE  AddsNoneMalformed(WithContext(config, alias, projectId, location))
<1> DEFINE new == WithContext(config, alias, projectId, location)
           old == config.profiles[alias]
           patched == PatchedProfile(old, projectId, location)
<1>1. old \in Profile /\ alias \in Alias
  BY DEF Saved, Config
<1>2. /\ patched.default_project_id = Bad => old.default_project_id = Bad
      /\ patched.default_location = Bad => old.default_location = Bad
  BY <1>1, DataAssumption DEF DataAssumption, PatchedProfile, Profile, Override
<1>3. /\ new.profiles[alias] = patched
      /\ \A a \in Alias \ {alias} : new.profiles[a] = config.profiles[a]
  BY <1>1 DEF WithContext, Config
<1> HIDE DEF new, old, patched
<1>4. ASSUME NEW a \in Saved(new)
      PROVE  /\ a \in Saved(config)
             /\ new.profiles[a].default_project_id = Bad
                  => config.profiles[a].default_project_id = Bad
             /\ new.profiles[a].default_location = Bad
                  => config.profiles[a].default_location = Bad
  <2>1. CASE a = alias
    BY <1>2, <1>3, <2>1 DEF old
  <2>2. CASE a # alias
    BY <1>3, <2>2 DEF Saved
  <2> QED BY <2>1, <2>2
<1>5. /\ BadProjectIds(new) \subseteq BadProjectIds(config)
      /\ BadLocations(new) \subseteq BadLocations(config)
  BY <1>4 DEF BadProjectIds, BadLocations
<1> QED BY <1>5, NoneMalformedIn DEF new

LEMMA WithImportClean ==
    ASSUME NEW config \in Config,
           NEW secrets \in [Alias -> Cred \cup {None}],
           NEW projectId \in ProjectId \cup {None},
           NEW location \in Location \cup {None},
           NEW alias \in Alias \cup {None},
           AddsNoneMalformed(config)
    PROVE  AddsNoneMalformed(WithImport(config, secrets, projectId, location, alias))
<1> DEFINE new == WithImport(config, secrets, projectId, location, alias)
<1>1. ASSUME NEW a \in Saved(new),
             \/ new.profiles[a].default_project_id = Bad
             \/ new.profiles[a].default_location = Bad
      PROVE  /\ a \in Saved(config)
             /\ new.profiles[a].default_project_id = Bad
                  => config.profiles[a].default_project_id = Bad
             /\ new.profiles[a].default_location = Bad
                  => config.profiles[a].default_location = Bad
  <2>1. a \in Alias
    BY DEF Saved
  <2>2. CASE secrets[a] = None
    BY <2>1, <2>2 DEF WithImport, Saved
  <2>3. CASE secrets[a] # None
    <3>1. new.profiles[a]
            = ImportedProfile(config.profiles[a], secrets[a], projectId, location)
      BY <2>1, <2>3 DEF WithImport
    <3> HIDE DEF new
    <3> QED BY <1>1, <2>1, <3>1, DataAssumption
            DEF DataAssumption, ImportedProfile, Override, Saved
  <2> QED BY <2>2, <2>3
<1> HIDE DEF new
<1>2. /\ BadProjectIds(new) \subseteq BadProjectIds(config)
      /\ BadLocations(new) \subseteq BadLocations(config)
  BY <1>1 DEF BadProjectIds, BadLocations
<1> QED BY <1>2, NoneMalformedIn DEF new

-----------------------------------------------------------------------------
(* Type correctness. It is inductive together with what `check` has seen   *)
(* of the command by the time `load` applies it.                           *)

CheckedContext ==
    \A p \in Proc :
        /\ pc[p] \in {"check", "load"} =>
              cmd[p].op \in {"remove", "set-context", "set-default"}
        /\ pc[p] = "load" /\ cmd[p].op = "set-context" =>
              ~ContextRejected(cmd[p])

TypeInv == TypeOK /\ CheckedContext

LEMMA EffectType ==
    ASSUME NEW p \in Proc, TypeInv, pc[p] = "load", ~LoadThrows(p)
    PROVE  /\ Effect(cmd[p], ReadConfig) \in Config
           /\ AddsNoneMalformed(Effect(cmd[p], ReadConfig))
<1>1. /\ cmd[p] \in Command /\ ReadConfig \in Config
      /\ AddsNoneMalformed(ReadConfig)
  BY ReadConfigType, ReadConfigClean DEF TypeInv, TypeOK
<1>2. cmd[p].alias \in Alias
  BY <1>1 DEF Command
<1>3. CASE cmd[p].op = "remove"
  BY <1>1, <1>2, <1>3, WithoutProfileType, WithoutProfileClean DEF Effect
<1>4. CASE cmd[p].op = "set-default"
  BY <1>1, <1>2, <1>4, WithDefaultType, WithDefaultClean DEF Effect
<1>5. CASE cmd[p].op = "set-context"
  <2>1. cmd[p].alias \in Saved(ReadConfig)
    BY <1>2, <1>5 DEF LoadThrows, Saved
  <2>2. cmd[p].pid \in ProjectId \cup {None} /\ cmd[p].loc \in Location \cup {None}
    BY <1>1, <1>5 DEF TypeInv, CheckedContext, ContextRejected, Command
  <2>3. Effect(cmd[p], ReadConfig)
          = WithContext(ReadConfig, cmd[p].alias, cmd[p].pid, cmd[p].loc)
    BY <1>5 DEF Effect
  <2> QED BY <1>1, <2>1, <2>2, <2>3, WithContextType, WithContextClean
<1> QED BY <1>3, <1>4, <1>5 DEF TypeInv, CheckedContext

LEMMA ImportResolvedType ==
    ASSUME NEW p \in Proc, TypeInv, ImportResolved(p)
    PROVE  /\ next' \in [Proc -> Config]
           /\ \A q \in Proc : AddsNoneMalformed(next'[q])
<1>1. cmd[p] \in Command /\ seen[p] \in Config /\ AddsNoneMalformed(seen[p])
  BY DEF TypeInv, TypeOK, ImportResolved
<1>2. /\ cmd[p].secrets \in [Alias -> Cred \cup {None}]
      /\ cmd[p].pid \in ProjectId \cup {None, Bad}
      /\ cmd[p].loc \in Location \cup {None, Bad}
      /\ cmd[p].default \in Alias \cup {None}
  BY <1>1 DEF Command
<1>3. Answers(cmd[p].pid, ProjectId, cmd[p].canPrompt) \ {Bad}
        \subseteq ProjectId \cup {None}
  BY <1>2 DEF Answers
<1>4. Answers(cmd[p].loc, Location, cmd[p].canPrompt) \ {Bad}
        \subseteq Location \cup {None}
  BY <1>2 DEF Answers
<1>5. DefaultAnswers(p) \ {Bad} \subseteq Alias \cup {None}
  BY <1>2 DEF DefaultAnswers, Imported
<1>6. PICK pid \in Answers(cmd[p].pid, ProjectId, cmd[p].canPrompt) \ {Bad},
           loc \in Answers(cmd[p].loc, Location, cmd[p].canPrompt) \ {Bad},
           alias \in DefaultAnswers(p) \ {Bad} :
         next' = [next EXCEPT ![p] =
                    WithImport(seen[p], cmd[p].secrets, pid, loc, alias)]
  BY DEF ImportResolved
<1>7. /\ WithImport(seen[p], cmd[p].secrets, pid, loc, alias) \in Config
      /\ AddsNoneMalformed(WithImport(seen[p], cmd[p].secrets, pid, loc, alias))
  BY <1>1, <1>2, <1>3, <1>4, <1>5, WithImportType, WithImportClean
<1> QED BY <1>6, <1>7 DEF TypeInv, TypeOK

LEMMA TypeInit == Init => TypeInv
<1> SUFFICES ASSUME Init
             PROVE  TypeInv
  OBVIOUS
<1>1. AddsNoneMalformed(file.cfg)
  BY DEF Init, AddsNoneMalformed
<1> QED BY <1>1, EmptyConfigType, EmptyConfigClean, CommandAssumption
        DEF Init, TypeInv, TypeOK, CheckedContext, CommandAssumption, PCs, Outcomes

LEMMA TypeStart ==
    ASSUME NEW p \in Proc, NEW c \in Commands, TypeInv, Start(p, c)
    PROVE  TypeInv'
<1>1. c \in Command /\ c.op \in Ops
  BY CommandAssumption DEF CommandAssumption, Command
<1>2. TypeOK'
  BY <1>1 DEF TypeInv, TypeOK, Start, Goto, PCs
<1>3. CheckedContext'
  BY <1>1 DEF TypeInv, TypeOK, CheckedContext, Start, Goto, Ops, ContextRejected
<1> QED BY <1>2, <1>3 DEF TypeInv

LEMMA TypeImportStep ==
    ASSUME NEW p \in Proc, TypeInv, ImportStep(p)
    PROVE  TypeInv'
<1> USE DEF TypeInv, TypeOK, CheckedContext, Goto, Exit, Fail, PCs, Outcomes,
            ContextRejected
<1>1. CASE ImportRead(p)
  <2>1. /\ ReadConfig \in Config /\ AddsNoneMalformed(ReadConfig)
        /\ Imported(cmd[p]) \subseteq Alias
    BY ReadConfigType, ReadConfigClean DEF Imported
  <2> QED BY <1>1, <2>1 DEF ImportRead
<1>2. CASE ImportRefused(p)
  BY <1>2 DEF ImportRefused
<1>3. CASE ImportConfirmed(p)
  BY <1>3 DEF ImportConfirmed
<1>4. CASE ImportCancelled(p)
  BY <1>4 DEF ImportCancelled
<1>5. CASE ValidateOne(p)
  BY <1>5 DEF ValidateOne
<1>6. CASE ValidationFails(p)
  BY <1>6 DEF ValidationFails
<1>7. CASE ValidationDone(p)
  BY <1>7 DEF ValidationDone
<1>8. CASE ImportResolved(p)
  <2>1. next' \in [Proc -> Config] /\ \A q \in Proc : AddsNoneMalformed(next'[q])
    BY <1>8, ImportResolvedType
  <2> QED BY <1>8, <2>1 DEF ImportResolved
<1>9. CASE ImportUnresolved(p)
  BY <1>9 DEF ImportUnresolved
<1> QED BY <1>1, <1>2, <1>3, <1>4, <1>5, <1>6, <1>7, <1>8, <1>9 DEF ImportStep

LEMMA TypeProfileStep ==
    ASSUME NEW p \in Proc, TypeInv, ProfileStep(p)
    PROVE  TypeInv'
<1> USE DEF TypeInv, TypeOK, CheckedContext, Goto, Exit, Fail, PCs, Outcomes,
            ContextRejected
<1>1. CASE List(p)
  BY <1>1, ReadConfigType, ReadConfigClean DEF List
<1>2. CASE CheckExists(p)
  BY <1>2 DEF CheckExists
<1>3. CASE CheckFails(p)
  BY <1>3 DEF CheckFails
<1>4. CASE Load(p)
  <2>1. /\ Effect(cmd[p], ReadConfig) \in Config
        /\ AddsNoneMalformed(Effect(cmd[p], ReadConfig))
    BY <1>4, EffectType DEF Load
  <2> QED BY <1>4, <2>1, ReadConfigType, ReadConfigClean DEF Load
<1>5. CASE LoadFails(p)
  BY <1>5 DEF LoadFails
<1>6. CASE Resolve(p)
  BY <1>6, ReadConfigType, ReadConfigClean DEF Resolve
<1>7. CASE ReadFails(p)
  BY <1>7 DEF ReadFails
<1> QED BY <1>1, <1>2, <1>3, <1>4, <1>5, <1>6, <1>7 DEF ProfileStep

LEMMA TypeWriteStep ==
    ASSUME NEW p \in Proc, TypeInv, WriteStep(p)
    PROVE  TypeInv'
<1> USE DEF TypeInv, TypeOK, CheckedContext, Goto, Exit, PCs, Outcomes,
            ContextRejected
<1>1. CASE OpenTemp(p)
  BY <1>1 DEF OpenTemp
<1>2. CASE FillTemp(p)
  BY <1>2 DEF FillTemp
<1>3. CASE Rename(p)
  <2>1. Renamed(p) \in FileState /\ AddsNoneMalformed(Renamed(p).cfg)
    BY EmptyConfigType, EmptyConfigClean DEF Renamed, FileState
  <2> QED BY <1>3, <2>1 DEF Rename
<1>4. CASE WriteFails(p)
  BY <1>4 DEF WriteFails
<1>5. CASE Abort(p)
  BY <1>5 DEF Abort
<1>6. CASE Unlink(p)
  BY <1>6 DEF Unlink
<1>7. CASE Reread(p)
  BY <1>7, ReadConfigType, ReadConfigClean DEF Reread
<1>8. CASE RemoveFails(p)
  BY <1>8 DEF RemoveFails
<1> QED BY <1>1, <1>2, <1>3, <1>4, <1>5, <1>6, <1>7, <1>8 DEF WriteStep

LEMMA TypeNext == TypeInv /\ [Next]_vars => TypeInv'
<1> SUFFICES ASSUME TypeInv, [Next]_vars
             PROVE  TypeInv'
  OBVIOUS
<1>1. CASE UNCHANGED vars
  BY <1>1 DEF vars, TypeInv, TypeOK, CheckedContext
<1>2. ASSUME NEW p \in Proc, NEW c \in Commands, Start(p, c)
      PROVE  TypeInv'
  BY <1>2, TypeStart
<1>3. ASSUME NEW p \in Proc, Step(p)
      PROVE  TypeInv'
  BY <1>3, TypeImportStep, TypeProfileStep, TypeWriteStep DEF Step
<1>4. ASSUME NEW p \in Proc, Crash(p)
      PROVE  TypeInv'
  BY <1>4 DEF Crash, Running, Exit, Goto, TypeInv, TypeOK, CheckedContext,
                 ContextRejected, PCs, Outcomes
<1> QED BY <1>1, <1>2, <1>3, <1>4 DEF Next

\* Every variable stays within its type, whatever runs beside what: a config
\* that any command writes is a Config, and no command saves a rejected value
\* that the file did not hold for the same alias before.
THEOREM TypeCorrect == Spec => []TypeOK
<1>1. TypeInv => TypeOK
  BY DEF TypeInv
<1> QED BY TypeInit, TypeNext, <1>1, PTL DEF Spec

-----------------------------------------------------------------------------
(***************************************************************************)
(* The writing protocol. Where a process stands tells how far its temporary*)
(* file and its result have come: WriteInv relates pc, temp, published and *)
(* outcome of each process, and the file to what any process published.    *)
(***************************************************************************)
Writing == {"fill", "rename", "abort"}

WriteInv ==
    /\ \A p \in Proc :
         /\ pc[p] = "rename" => temp[p] = "full"
         /\ temp[p] # "none" => \/ pc[p] \in Writing
                                \/ outcome[p] \in {"crashed", "not-removed"}
         /\ outcome[p] # "none" => pc[p] = "end"
         /\ pc[p] \in {"unlink", "reread"} => published[p]
         /\ published[p] =>
              \/ pc[p] \in {"unlink", "reread"}
              \/ pc[p] = "end" /\ outcome[p] \in {"ok", "not-removed", "crashed"}
              \/ pc[p] = "end" /\ outcome[p] = "error" /\ cmd[p].op = "import"
         /\ pc[p] = "reread" => cmd[p].op = "import"
         /\ pc[p] = "list" => cmd[p].op = "list"
         /\ pc[p] = "resolve" => cmd[p].op = "api"
         /\ outcome[p] = "ok" /\ cmd[p].op \notin {"api", "list"} => published[p]
    /\ (\E p \in Proc : published[p]) => Readable

LEMMA WriteInit == Init => WriteInv
BY DEF Init, WriteInv

LEMMA WriteStart ==
    ASSUME NEW p \in Proc, NEW c \in Commands, TypeOK, WriteInv, Start(p, c)
    PROVE  WriteInv'
BY DEF TypeOK, WriteInv, Start, Goto, Readable, Writing

LEMMA WriteImportStep ==
    ASSUME NEW p \in Proc, TypeOK, WriteInv, ImportStep(p)
    PROVE  WriteInv'
<1> USE DEF TypeOK, WriteInv, Goto, Exit, Fail, Readable, Writing
<1>1. CASE ImportRead(p)
  BY <1>1 DEF ImportRead
<1>2. CASE ImportRefused(p)
  BY <1>2 DEF ImportRefused
<1>3. CASE ImportConfirmed(p)
  BY <1>3 DEF ImportConfirmed
<1>4. CASE ImportCancelled(p)
  BY <1>4 DEF ImportCancelled
<1>5. CASE ValidateOne(p)
  BY <1>5 DEF ValidateOne
<1>6. CASE ValidationFails(p)
  BY <1>6 DEF ValidationFails
<1>7. CASE ValidationDone(p)
  BY <1>7 DEF ValidationDone
<1>8. CASE ImportResolved(p)
  BY <1>8 DEF ImportResolved
<1>9. CASE ImportUnresolved(p)
  BY <1>9 DEF ImportUnresolved
<1> QED BY <1>1, <1>2, <1>3, <1>4, <1>5, <1>6, <1>7, <1>8, <1>9 DEF ImportStep

LEMMA WriteProfileStep ==
    ASSUME NEW p \in Proc, TypeOK, WriteInv, ProfileStep(p)
    PROVE  WriteInv'
<1> USE DEF TypeOK, WriteInv, Goto, Exit, Fail, Readable, Writing
<1>1. CASE List(p)
  BY <1>1 DEF List
<1>2. CASE CheckExists(p)
  BY <1>2 DEF CheckExists
<1>3. CASE CheckFails(p)
  BY <1>3 DEF CheckFails
<1>4. CASE Load(p)
  BY <1>4 DEF Load
<1>5. CASE LoadFails(p)
  BY <1>5 DEF LoadFails
<1>6. CASE Resolve(p)
  BY <1>6 DEF Resolve
<1>7. CASE ReadFails(p)
  BY <1>7 DEF ReadFails
<1> QED BY <1>1, <1>2, <1>3, <1>4, <1>5, <1>6, <1>7 DEF ProfileStep

LEMMA WriteWriteStep ==
    ASSUME NEW p \in Proc, TypeOK, WriteInv, WriteStep(p)
    PROVE  WriteInv'
<1> USE DEF TypeOK, WriteInv, Goto, Exit, Readable, Writing
<1>1. CASE OpenTemp(p)
  BY <1>1 DEF OpenTemp
<1>2. CASE FillTemp(p)
  BY <1>2 DEF FillTemp
<1>3. CASE Rename(p)
  <2>1. file' = [state |-> "ok", cfg |-> next[p]]
    BY <1>3 DEF Rename, Renamed
  <2>2. Readable'
    BY <2>1
  <2> QED BY <1>3, <2>2 DEF Rename
<1>4. CASE WriteFails(p)
  BY <1>4 DEF WriteFails
<1>5. CASE Abort(p)
  BY <1>5 DEF Abort
<1>6. CASE Unlink(p)
  BY <1>6 DEF Unlink
<1>7. CASE Reread(p)
  BY <1>7 DEF Reread
<1>8. CASE RemoveFails(p)
  BY <1>8 DEF RemoveFails
<1> QED BY <1>1, <1>2, <1>3, <1>4, <1>5, <1>6, <1>7, <1>8 DEF WriteStep

LEMMA WriteNext == TypeOK /\ WriteInv /\ [Next]_vars => WriteInv'
<1> SUFFICES ASSUME TypeOK, WriteInv, [Next]_vars
             PROVE  WriteInv'
  OBVIOUS
<1>1. CASE UNCHANGED vars
  BY <1>1 DEF vars, WriteInv, Readable
<1>2. ASSUME NEW p \in Proc, NEW c \in Commands, Start(p, c)
      PROVE  WriteInv'
  BY <1>2, WriteStart
<1>3. ASSUME NEW p \in Proc, Step(p)
      PROVE  WriteInv'
  BY <1>3, WriteImportStep, WriteProfileStep, WriteWriteStep DEF Step
<1>4. ASSUME NEW p \in Proc, Crash(p)
      PROVE  WriteInv'
  BY <1>4 DEF Crash, Running, Exit, Goto, TypeOK, WriteInv, Readable, Writing
<1> QED BY <1>1, <1>2, <1>3, <1>4 DEF Next

LEMMA WriteInvariant == Spec => []WriteInv
<1> QED BY WriteInit, WriteNext, TypeCorrect, PTL DEF Spec

\* A successful command has replaced the file; one that failed has not, unless
\* it is an import that could not read again what it had saved, or rm failed.
THEOREM ExitCodes == Spec => []ExitCodeTellsTruth
<1>1. WriteInv => ExitCodeTellsTruth
  BY DEF WriteInv, ExitCodeTellsTruth
<1> QED BY <1>1, WriteInvariant, PTL

\* Only a process that was killed, or says that it could not remove it, leaves
\* a temporary file with secrets behind.
THEOREM TempFilesRemoved == Spec => []NoStrayTempFiles
<1>1. WriteInv => NoStrayTempFiles
  BY DEF WriteInv, NoStrayTempFiles, Writing
<1> QED BY <1>1, WriteInvariant, PTL

\* No step of any process makes config.json unreadable.
THEOREM FileStaysReadable == Spec => StaysReadable
<1>1. TypeOK /\ WriteInv /\ [Next]_vars => (Readable => Readable')
  <2> SUFFICES ASSUME TypeOK, WriteInv, [Next]_vars, Readable
               PROVE  Readable'
    OBVIOUS
  <2>1. CASE UNCHANGED vars
    BY <2>1 DEF vars, Readable
  <2>2. ASSUME NEW p \in Proc, Rename(p)
        PROVE  Readable'
    BY <2>2 DEF Rename, Renamed, WriteInv, Readable
  <2>3. ASSUME NEW p \in Proc, Step(p), ~Rename(p)
        PROVE  file' = file
    BY <2>3 DEF Step, ImportStep, ProfileStep, WriteStep, Fail,
         ImportRead, ImportRefused, ImportConfirmed, ImportCancelled, ValidateOne,
         ValidationFails, ValidationDone, ImportResolved, ImportUnresolved,
         ReadFails, Resolve, List, CheckExists, CheckFails, Load, LoadFails,
         OpenTemp, FillTemp, WriteFails, Abort, Unlink, RemoveFails, Reread
  <2> QED BY <2>1, <2>2, <2>3 DEF Next, Start, Crash, Readable
<1> QED BY <1>1, TypeCorrect, WriteInvariant, PTL DEF Spec, StaysReadable

-----------------------------------------------------------------------------
(***************************************************************************)
(* Only validated secrets. A process carries configs from the file to the  *)
(* file (seen, next), so what is known of the file must be known of them;  *)
(* an import adds secrets only when it has validated all of its aliases.   *)
(***************************************************************************)
SecretsInv ==
    /\ HasKnownSecrets(file.cfg)
    /\ \A p \in Proc :
         /\ HasKnownSecrets(seen[p]) /\ HasKnownSecrets(next[p])
         /\ pc[p] \in {"confirm", "validate"} =>
              \A a \in Imported(cmd[p]) \ todo[p] : cmd[p].secrets[a] \in ValidCred
         /\ pc[p] = "defaults" =>
              \A a \in Imported(cmd[p]) : cmd[p].secrets[a] \in ValidCred

LEMMA KnownEmptyConfig == HasKnownSecrets(EmptyConfig)
BY DEF HasKnownSecrets, EmptyConfig, Saved

LEMMA KnownReadConfig ==
    ASSUME HasKnownSecrets(file.cfg)
    PROVE  HasKnownSecrets(ReadConfig)
BY KnownEmptyConfig DEF ReadConfig

LEMMA KnownEffect ==
    ASSUME NEW config \in Config, HasKnownSecrets(config), NEW c \in Command,
           c.op \in {"remove", "set-default"} \/ config.profiles[c.alias] # None
    PROVE  HasKnownSecrets(Effect(c, config))
<1>1. config.profiles \in [Alias -> Profile \cup {None}] /\ c.alias \in Alias
  BY DEF Config, Command
<1>2. HasKnownSecrets(WithoutProfile(config, c.alias))
  BY <1>1 DEF WithoutProfile, HasKnownSecrets, Saved
<1>3. HasKnownSecrets(WithDefault(config, c.alias))
  BY <1>1 DEF WithDefault, HasKnownSecrets, Saved, Config
<1>4. ASSUME config.profiles[c.alias] # None
      PROVE  HasKnownSecrets(WithContext(config, c.alias, c.pid, c.loc))
  <2> DEFINE old == config.profiles[c.alias]
             new == PatchedProfile(old, c.pid, c.loc)
  <2>1. SameSecrets(new, old)
    <3>1. old \in Profile
      BY <1>1, <1>4
    <3> QED BY <3>1 DEF SameSecrets, PatchedProfile, Profile
  <2>2. KnownSecrets(old)
    BY <1>1, <1>4 DEF HasKnownSecrets, Saved
  <2>3. KnownSecrets(new)
    BY <2>1, <2>2 DEF KnownSecrets, SameSecrets
  <2> HIDE DEF new
  <2>4. WithContext(config, c.alias, c.pid, c.loc).profiles
          = [config.profiles EXCEPT ![c.alias] = new]
    BY DEF WithContext, Config, new
  <2> QED BY <1>1, <2>3, <2>4 DEF HasKnownSecrets, Saved
<1> QED BY <1>2, <1>3, <1>4 DEF Effect

LEMMA KnownImport ==
    ASSUME NEW config \in Config, HasKnownSecrets(config),
           NEW secrets \in [Alias -> Cred \cup {None}],
           \A a \in Alias : secrets[a] # None => secrets[a] \in ValidCred,
           NEW projectId, NEW location, NEW alias
    PROVE  HasKnownSecrets(WithImport(config, secrets, projectId, location, alias))
<1> DEFINE new == WithImport(config, secrets, projectId, location, alias)
<1>1. SUFFICES ASSUME NEW a \in Alias, new.profiles[a] # None
               PROVE  KnownSecrets(new.profiles[a])
  BY DEF HasKnownSecrets, Saved
<1>2. CASE secrets[a] = None
  <2>1. new.profiles[a] = config.profiles[a]
    BY <1>2 DEF WithImport
  <2> QED BY <1>1, <2>1 DEF HasKnownSecrets, Saved
<1>3. CASE secrets[a] # None
  <2>1. /\ new.profiles[a].api_key = secrets[a]
        /\ new.profiles[a].auth_token = secrets[a]
    BY <1>3 DEF WithImport, ImportedProfile
  <2> QED BY <1>3, <2>1 DEF KnownSecrets
<1> QED BY <1>2, <1>3

LEMMA SecretsInit == Init => SecretsInv
<1> SUFFICES ASSUME Init PROVE SecretsInv
  OBVIOUS
<1>1. HasKnownSecrets(file.cfg)
  BY DEF Init, HasKnownSecrets, KnownSecrets, SameSecrets
<1> QED BY <1>1, KnownEmptyConfig DEF Init, SecretsInv

LEMMA SecretsStart ==
    ASSUME NEW p \in Proc, NEW c \in Commands, TypeOK, SecretsInv, Start(p, c)
    PROVE  SecretsInv'
<1>1. pc'[p] \notin {"confirm", "validate", "defaults"}
  BY DEF TypeOK, Start, Goto
<1> QED BY <1>1 DEF TypeOK, SecretsInv, Start, Goto, HasKnownSecrets, KnownSecrets,
                 Imported

\* What the steps below share: the file is the old one, and the configs that
\* the process carries are either the old ones or known to be good.
LEMMA SecretsFrame ==
    ASSUME NEW p \in Proc, TypeOK, SecretsInv,
           HasKnownSecrets(file.cfg)', cmd' = cmd,
           HasKnownSecrets(seen'[p]), HasKnownSecrets(next'[p]),
           \A q \in Proc \ {p} : /\ pc'[q] = pc[q] /\ seen'[q] = seen[q]
                                 /\ next'[q] = next[q] /\ todo'[q] = todo[q],
           pc'[p] \in {"confirm", "validate"} =>
              \A a \in Imported(cmd[p]) \ todo'[p] : cmd[p].secrets[a] \in ValidCred,
           pc'[p] = "defaults" =>
              \A a \in Imported(cmd[p]) : cmd[p].secrets[a] \in ValidCred
    PROVE  SecretsInv'
BY DEF SecretsInv, HasKnownSecrets, KnownSecrets, Imported

LEMMA SecretsFail ==
    ASSUME NEW p \in Proc, TypeOK, SecretsInv, Fail(p)
    PROVE  SecretsInv'
<1>1. HasKnownSecrets(file.cfg)'
  BY DEF Fail, SecretsInv, HasKnownSecrets
<1>2. pc'[p] = "end" /\ \A q \in Proc \ {p} : pc'[q] = pc[q]
  BY DEF Fail, Exit, Goto, TypeOK
<1> QED BY <1>1, <1>2, SecretsFrame DEF Fail, SecretsInv

LEMMA SecretsImportStep ==
    ASSUME NEW p \in Proc, TypeInv, SecretsInv, ImportStep(p)
    PROVE  SecretsInv'
<1> USE DEF TypeInv, TypeOK, SecretsInv, Goto, Exit
<1>f. file' = file /\ HasKnownSecrets(file.cfg)' /\ cmd' = cmd
  BY DEF ImportStep, ImportRead, ImportRefused, ImportConfirmed, ImportCancelled,
         ValidateOne, ValidationFails, ValidationDone, ImportResolved,
         ImportUnresolved, Fail, HasKnownSecrets
<1>1. CASE ImportRead(p)
  <2>1. HasKnownSecrets(ReadConfig)
    BY KnownReadConfig
  <2> QED BY <1>1, <1>f, <2>1, SecretsFrame DEF ImportRead
<1>2. CASE ImportConfirmed(p)
  BY <1>2, <1>f, SecretsFrame DEF ImportConfirmed
<1>3. CASE ValidateOne(p)
  BY <1>3, <1>f, SecretsFrame DEF ValidateOne
<1>4. CASE ValidationDone(p)
  BY <1>4, <1>f, SecretsFrame DEF ValidationDone
<1>5. CASE ImportResolved(p)
  <2>1. PICK pid, loc, alias :
           next' = [next EXCEPT ![p] =
                      WithImport(seen[p], cmd[p].secrets, pid, loc, alias)]
    BY <1>5 DEF ImportResolved
  <2>2. /\ cmd[p].secrets \in [Alias -> Cred \cup {None}]
        /\ \A a \in Alias : cmd[p].secrets[a] # None => cmd[p].secrets[a] \in ValidCred
    <3>1. cmd[p] \in Command
      BY <1>5 DEF ImportResolved
    <3> QED BY <1>5, <3>1 DEF ImportResolved, Imported, Command
  <2>3. HasKnownSecrets(WithImport(seen[p], cmd[p].secrets, pid, loc, alias))
    BY <2>2, KnownImport
  <2> QED BY <1>5, <1>f, <2>1, <2>3, SecretsFrame DEF ImportResolved
<1>6. CASE Fail(p)
  BY <1>6, SecretsFail
<1> QED BY <1>1, <1>2, <1>3, <1>4, <1>5, <1>6
        DEF ImportStep, ImportRefused, ImportCancelled, ValidationFails,
            ImportUnresolved

LEMMA SecretsProfileStep ==
    ASSUME NEW p \in Proc, TypeInv, SecretsInv, ProfileStep(p)
    PROVE  SecretsInv'
<1> USE DEF TypeInv, TypeOK, SecretsInv, Goto, Exit
<1>f. file' = file /\ HasKnownSecrets(file.cfg)' /\ cmd' = cmd
  BY DEF ProfileStep, ReadFails, Resolve, List, CheckExists, CheckFails, Load,
         LoadFails, Fail, HasKnownSecrets
<1>1. CASE List(p)
  BY <1>1, <1>f, KnownReadConfig, SecretsFrame DEF List
<1>2. CASE CheckExists(p)
  BY <1>2, <1>f, SecretsFrame DEF CheckExists
<1>3. CASE Load(p)
  <2>1. cmd[p] \in Command /\ ReadConfig \in Config
    BY <1>3, ReadConfigType DEF Load
  <2>2. \/ cmd[p].op \in {"remove", "set-default"}
        \/ ReadConfig.profiles[cmd[p].alias] # None
    BY <1>3 DEF Load, LoadThrows, CheckedContext
  <2>3. HasKnownSecrets(Effect(cmd[p], ReadConfig))
    BY <2>1, <2>2, KnownReadConfig, KnownEffect
  <2> QED BY <1>3, <1>f, <2>3, KnownReadConfig, SecretsFrame DEF Load
<1>4. CASE Fail(p)
  BY <1>4, SecretsFail
<1>5. CASE Resolve(p)
  BY <1>5, <1>f, KnownReadConfig, SecretsFrame DEF Resolve
<1> QED BY <1>1, <1>2, <1>3, <1>4, <1>5 DEF ProfileStep, ReadFails, CheckFails, LoadFails

LEMMA SecretsWriteStep ==
    ASSUME NEW p \in Proc, TypeInv, SecretsInv, WriteStep(p)
    PROVE  SecretsInv'
<1> USE DEF TypeInv, TypeOK, SecretsInv, Goto, Exit
<1>1. CASE Rename(p)
  <2>1. HasKnownSecrets(Renamed(p).cfg)
    BY KnownEmptyConfig DEF Renamed
  <2>2. HasKnownSecrets(file.cfg)'
    BY <1>1, <2>1 DEF Rename, HasKnownSecrets
  <2> QED BY <1>1, <2>2, SecretsFrame DEF Rename
<1>2. CASE Reread(p)
  <2>1. HasKnownSecrets(file.cfg)'
    BY <1>2 DEF Reread, HasKnownSecrets
  <2> QED BY <1>2, <2>1, KnownReadConfig, SecretsFrame DEF Reread
<1>3. CASE \/ OpenTemp(p) \/ FillTemp(p) \/ WriteFails(p)
           \/ Abort(p) \/ Unlink(p) \/ RemoveFails(p)
  <2>1. HasKnownSecrets(file.cfg)'
    BY <1>3 DEF OpenTemp, FillTemp, WriteFails, Abort, Unlink, RemoveFails,
                HasKnownSecrets
  <2> QED BY <1>3, <2>1, SecretsFrame
          DEF OpenTemp, FillTemp, WriteFails, Abort, Unlink, RemoveFails
<1> QED BY <1>1, <1>2, <1>3 DEF WriteStep

LEMMA SecretsNext == TypeInv /\ SecretsInv /\ [Next]_vars => SecretsInv'
<1> SUFFICES ASSUME TypeInv, SecretsInv, [Next]_vars
             PROVE  SecretsInv'
  OBVIOUS
<1>1. CASE UNCHANGED vars
  BY <1>1 DEF vars, SecretsInv, HasKnownSecrets, Imported
<1>2. ASSUME NEW p \in Proc, NEW c \in Commands, Start(p, c)
      PROVE  SecretsInv'
  BY <1>2, SecretsStart DEF TypeInv
<1>3. ASSUME NEW p \in Proc, Step(p)
      PROVE  SecretsInv'
  BY <1>3, SecretsImportStep, SecretsProfileStep, SecretsWriteStep DEF Step
<1>4. ASSUME NEW p \in Proc, Crash(p)
      PROVE  SecretsInv'
  <2>1. HasKnownSecrets(file.cfg)'
    BY <1>4 DEF Crash, SecretsInv, HasKnownSecrets
  <2> QED BY <1>4, <2>1, SecretsFrame
          DEF Crash, Exit, Goto, TypeInv, TypeOK, SecretsInv
<1> QED BY <1>1, <1>2, <1>3, <1>4 DEF Next

\* An API command only resolves and ends; if it succeeded, what it read
\* resolves.
ResolveInv ==
    \A p \in Proc :
        /\ outcome[p] # "none" => pc[p] = "end"
        /\ pc[p] = "resolve" => cmd[p].op = "api"
        /\ pc[p] # "idle" /\ cmd[p].op = "api" =>
              /\ pc[p] \in {"resolve", "end"}
              /\ outcome[p] = "ok" => Resolution(seen[p], cmd[p].request) = "ok"

LEMMA ResolveInit == Init => ResolveInv
BY DEF Init, ResolveInv

\* A step of any command that is not an API command leaves the others alone.
LEMMA ResolveFrame ==
    ASSUME NEW p \in Proc, TypeOK, ResolveInv,
           pc[p] \notin {"idle", "resolve", "end"},
           pc'[p] \notin {"idle", "resolve"}, cmd' = cmd,
           outcome'[p] # "none" => pc'[p] = "end",
           \A q \in Proc \ {p} :
               pc'[q] = pc[q] /\ seen'[q] = seen[q] /\ outcome'[q] = outcome[q]
    PROVE  ResolveInv'
<1>1. cmd[p].op # "api"
  BY DEF ResolveInv
<1> QED BY <1>1 DEF ResolveInv

LEMMA ResolveNext == TypeOK /\ ResolveInv /\ [Next]_vars => ResolveInv'
<1> SUFFICES ASSUME TypeOK, ResolveInv, [Next]_vars
             PROVE  ResolveInv'
  OBVIOUS
<1>1. CASE UNCHANGED vars
  BY <1>1 DEF vars, ResolveInv
<1>2. ASSUME NEW p \in Proc, NEW c \in Commands, Start(p, c)
      PROVE  ResolveInv'
  <2>1. cmd' = [cmd EXCEPT ![p] = c] /\ pc[p] = "idle"
    BY <1>2 DEF Start
  <2>2. outcome' = outcome /\ seen' = seen /\ outcome[p] = "none"
    BY <1>2 DEF Start, ResolveInv
  <2>3. \A q \in Proc \ {p} : pc'[q] = pc[q] /\ cmd'[q] = cmd[q]
    BY <1>2 DEF Start, Goto, TypeOK
  <2>4. (pc'[p] = "resolve") <=> (cmd'[p].op = "api")
    BY <1>2 DEF Start, Goto, TypeOK
  <2> QED BY <2>2, <2>3, <2>4 DEF ResolveInv
<1>3. ASSUME NEW p \in Proc, ImportStep(p)
      PROVE  ResolveInv'
  BY <1>3, ResolveFrame
     DEF ImportStep, ImportRead, ImportRefused, ImportConfirmed, ImportCancelled,
         ValidateOne, ValidationFails, ValidationDone, ImportResolved,
         ImportUnresolved, Fail, Exit, Goto, TypeOK, ResolveInv
<1>4. ASSUME NEW p \in Proc, ProfileStep(p), ~Resolve(p), ~ReadFails(p)
      PROVE  ResolveInv'
  BY <1>4, ResolveFrame
     DEF ProfileStep, List, CheckExists, CheckFails, Load, LoadFails, Fail, Exit,
         Goto, TypeOK, ResolveInv
<1>5. ASSUME NEW p \in Proc, Resolve(p)
      PROVE  ResolveInv'
  <2>1. pc' = [pc EXCEPT ![p] = "end"] /\ seen' = [seen EXCEPT ![p] = ReadConfig]
    BY <1>5 DEF Resolve, Exit, Goto
  <2>2. outcome'[p] = "ok" => Resolution(ReadConfig, cmd[p].request) = "ok"
    BY <1>5 DEF Resolve, Exit, TypeOK
  <2>3. \A q \in Proc \ {p} : outcome'[q] = outcome[q]
    BY <1>5 DEF Resolve, Exit, TypeOK
  <2>4. cmd' = cmd
    BY <1>5 DEF Resolve
  <2> QED BY <2>1, <2>2, <2>3, <2>4 DEF ResolveInv, TypeOK
<1>6. ASSUME NEW p \in Proc, WriteStep(p)
      PROVE  ResolveInv'
  BY <1>6, ResolveFrame
     DEF WriteStep, OpenTemp, FillTemp, Rename, WriteFails, Abort, Unlink,
         RemoveFails, Reread, Exit, Goto, TypeOK, ResolveInv
<1>8. ASSUME NEW p \in Proc, ReadFails(p)
      PROVE  ResolveInv'
  <2>1. pc' = [pc EXCEPT ![p] = "end"] /\ outcome' = [outcome EXCEPT ![p] = "error"]
    BY <1>8 DEF ReadFails, Fail, Exit, Goto
  <2>2. cmd' = cmd /\ seen' = seen
    BY <1>8 DEF ReadFails, Fail
  <2> QED BY <2>1, <2>2 DEF ResolveInv, TypeOK
<1>7. ASSUME NEW p \in Proc, Crash(p)
      PROVE  ResolveInv'
  <2>1. pc' = [pc EXCEPT ![p] = "end"] /\ outcome' = [outcome EXCEPT ![p] = "crashed"]
    BY <1>7 DEF Crash, Exit, Goto
  <2>2. cmd' = cmd /\ seen' = seen
    BY <1>7 DEF Crash
  <2> QED BY <2>1, <2>2 DEF ResolveInv, TypeOK
<1> QED BY <1>1, <1>2, <1>3, <1>4, <1>5, <1>6, <1>7, <1>8 DEF Next, Step

\* Without auth variables, what resolves from a config is one of its profiles.
LEMMA ResolvedSecretsKnown ==
    ASSUME NEW config \in Config, HasKnownSecrets(config), NEW r \in Request,
           \A f \in AuthFields : r.env[f] = None, Resolution(config, r) = "ok"
    PROVE  KnownSecrets(MergedAuth(config, r))
<1> DEFINE profile == UsedProfile(config, r)
<1>1. \A f \in AuthFields : MergedAuth(config, r)[f] = FromProfile(profile)[f]
  BY DEF MergedAuth, Override
<1>2. ~Incomplete(MergedAuth(config, r))
  BY DEF Resolution, MissingAuth
<1>3. profile # None
  <2> SUFFICES ASSUME profile = None PROVE FALSE
    OBVIOUS
  <2>1. MergedAuth(config, r)["api_key"] = None
    BY <1>1 DEF FromProfile, AuthFields
  <2>2. DOMAIN MergedAuth(config, r) = AuthFields
    BY DEF MergedAuth
  <2> QED BY <1>2, <2>1, <2>2 DEF Incomplete, AuthFields
<1>4. PICK a \in Alias : profile = config.profiles[a]
  <2>1. UsedAlias(config, r) \in Alias \cup {None}
    BY DEF UsedAlias, Request, Config
  <2> QED BY <1>3, <2>1 DEF UsedProfile
<1>5. KnownSecrets(profile)
  BY <1>3, <1>4 DEF HasKnownSecrets, Saved
<1>6. SameSecrets(MergedAuth(config, r), profile)
  <2>1. profile # None => /\ FromProfile(profile)["api_key"] = profile.api_key
                          /\ FromProfile(profile)["auth_token"] = profile.auth_token
    BY DEF FromProfile
  <2>2. /\ MergedAuth(config, r)["api_key"] = MergedAuth(config, r).api_key
        /\ MergedAuth(config, r)["auth_token"] = MergedAuth(config, r).auth_token
    OBVIOUS
  <2> QED BY <1>1, <1>3, <2>1, <2>2 DEF SameSecrets, AuthFields
<1> QED BY <1>5, <1>6 DEF KnownSecrets, SameSecrets

\* A key and a token that are saved were saved before or were accepted by the
\* API as a pair, however the commands of several processes interleave, and an
\* API command that takes both from the file sends such a pair.
THEOREM SecretsValidated == Spec => []OnlyValidatedSecrets
<1>1. Init => TypeInv /\ SecretsInv /\ ResolveInv
  BY TypeInit, SecretsInit, ResolveInit
<1>2. TypeInv /\ SecretsInv /\ ResolveInv /\ [Next]_vars
        => (TypeInv /\ SecretsInv /\ ResolveInv)'
  BY TypeNext, SecretsNext, ResolveNext DEF TypeInv
<1>3. TypeInv /\ SecretsInv /\ ResolveInv => OnlyValidatedSecrets
  <2> SUFFICES ASSUME TypeInv, SecretsInv, ResolveInv
               PROVE  OnlyValidatedSecrets
    OBVIOUS
  <2>1. ASSUME NEW p \in Proc, UsesSavedSecrets(p)
        PROVE  KnownSecrets(MergedAuth(seen[p], cmd[p].request))
    <3>1. cmd[p] \in Command /\ seen[p] \in Config
      BY <2>1 DEF UsesSavedSecrets, TypeInv, TypeOK
    <3>2. cmd[p].request \in Request
      BY <3>1 DEF Command
    <3>3. pc[p] = "end" /\ Resolution(seen[p], cmd[p].request) = "ok"
      BY <2>1 DEF UsesSavedSecrets, ResolveInv
    <3> QED BY <2>1, <3>1, <3>2, <3>3, ResolvedSecretsKnown
            DEF SecretsInv, UsesSavedSecrets
  <2> QED BY <2>1 DEF SecretsInv, OnlyValidatedSecrets
<1> QED BY <1>1, <1>2, <1>3, PTL DEF Spec

-----------------------------------------------------------------------------
(***************************************************************************)
(* The default alias, when commands run one at a time. The file then stays *)
(* as the running process has read it, so what `check` saw still holds in  *)
(* `load`, and every config on its way to the file has a saved default.    *)
(***************************************************************************)
DefaultInv ==
    /\ HasSavedDefault(file.cfg)
    /\ \A p, q \in Proc : Running(p) /\ Running(q) => p = q
    /\ \A p \in Proc :
         /\ HasSavedDefault(seen[p]) /\ HasSavedDefault(next[p])
         /\ pc[p] = "load" => cmd[p].alias \in Saved(ReadConfig)

LEMMA DefaultEmptyConfig == HasSavedDefault(EmptyConfig)
BY DEF HasSavedDefault, EmptyConfig

LEMMA DefaultReadConfig ==
    ASSUME HasSavedDefault(file.cfg)
    PROVE  HasSavedDefault(ReadConfig)
BY DefaultEmptyConfig DEF ReadConfig

LEMMA DefaultEffect ==
    ASSUME NEW config \in Config, HasSavedDefault(config),
           NEW c \in Command, c.alias \in Saved(config),
           c.op \in {"remove", "set-default"} \/ ~ContextRejected(c)
    PROVE  HasSavedDefault(Effect(c, config))
<1>1. config.profiles \in [Alias -> Profile \cup {None}] /\ c.alias \in Alias
  BY DEF Config, Command
<1>2. HasSavedDefault(WithoutProfile(config, c.alias))
  <2> DEFINE rest == Saved(config) \ {c.alias}
  <2>1. Saved(WithoutProfile(config, c.alias)) = rest
    BY <1>1 DEF WithoutProfile, Saved
  <2>2. FirstProfileAlias(rest) \in rest \cup {None}
    <3>1. rest \in SUBSET Alias
      BY DEF Saved
    <3>2. rest # {} => FirstOf(rest) \in rest
      BY <3>1, DataAssumption DEF DataAssumption
    <3> HIDE DEF rest
    <3> QED BY <3>2 DEF FirstProfileAlias
  <2>3. config.default # c.alias => config.default \in rest \cup {None}
    BY DEF HasSavedDefault
  <2>4. WithoutProfile(config, c.alias).default
          = IF config.default = c.alias THEN FirstProfileAlias(rest)
            ELSE config.default
    BY DEF WithoutProfile
  <2> HIDE DEF rest
  <2> QED BY <2>1, <2>2, <2>3, <2>4 DEF HasSavedDefault
<1>3. HasSavedDefault(WithDefault(config, c.alias))
  BY <1>1 DEF WithDefault, HasSavedDefault, Saved, Config
<1>4. ASSUME ~ContextRejected(c)
      PROVE  HasSavedDefault(WithContext(config, c.alias, c.pid, c.loc))
  <2> DEFINE new == PatchedProfile(config.profiles[c.alias], c.pid, c.loc)
  <2>1. new \in Profile
    <3>1. config.profiles[c.alias] \in Profile
      BY <1>1 DEF Saved
    <3>2. c.pid \in ProjectId \cup {None} /\ c.loc \in Location \cup {None}
      BY <1>4 DEF ContextRejected, Command
    <3> QED BY <3>1, <3>2 DEF PatchedProfile, Profile, Override
  <2>2. new # None
    BY <2>1, ProfileAssumption DEF ProfileAssumption
  <2>3. WithContext(config, c.alias, c.pid, c.loc)
          = [config EXCEPT !.profiles = [config.profiles EXCEPT ![c.alias] = new]]
    BY <1>1 DEF WithContext, Config
  <2> HIDE DEF new
  <2>4. /\ WithContext(config, c.alias, c.pid, c.loc).default = config.default
        /\ WithContext(config, c.alias, c.pid, c.loc).profiles
             = [config.profiles EXCEPT ![c.alias] = new]
    BY <2>3 DEF Config
  <2>5. Saved(config) \subseteq Saved(WithContext(config, c.alias, c.pid, c.loc))
    BY <1>1, <2>2, <2>4 DEF Saved
  <2> QED BY <2>4, <2>5 DEF HasSavedDefault
<1> QED BY <1>2, <1>3, <1>4 DEF Effect

LEMMA DefaultImport ==
    ASSUME NEW config \in Config, HasSavedDefault(config),
           NEW secrets \in [Alias -> Cred \cup {None}],
           NEW projectId \in ProjectId \cup {None},
           NEW location \in Location \cup {None},
           NEW alias \in {a \in Alias : secrets[a] # None} \cup {None}
    PROVE  HasSavedDefault(WithImport(config, secrets, projectId, location, alias))
<1> DEFINE new == WithImport(config, secrets, projectId, location, alias)
<1>1. ASSUME NEW a \in Alias, secrets[a] # None
      PROVE  a \in Saved(new)
  <2>1. ImportedProfile(config.profiles[a], secrets[a], projectId, location) \in Profile
    <3>1. config.profiles[a] \in Profile \cup {None} /\ secrets[a] \in Cred
      BY <1>1 DEF Config
    <3> QED BY <3>1, ImportedProfileType
  <2>2. new.profiles[a]
          = ImportedProfile(config.profiles[a], secrets[a], projectId, location)
    BY <1>1 DEF WithImport
  <2> QED BY <2>1, <2>2, ProfileAssumption DEF ProfileAssumption, Saved
<1>2. ASSUME NEW a \in Saved(config), secrets[a] = None
      PROVE  a \in Saved(new)
  BY <1>2 DEF WithImport, Saved
<1>3. new.default = IF alias = None THEN config.default ELSE alias
  BY DEF WithImport, Override
<1>4. Saved(config) \subseteq Alias
  BY DEF Saved
<1>5. SUFFICES HasSavedDefault(new)
  OBVIOUS
<1> HIDE DEF new
<1> QED BY <1>1, <1>2, <1>3, <1>4 DEF HasSavedDefault

LEMMA DefaultInit ==
    ASSUME \A f \in InitialFiles : HasSavedDefault(f.cfg)
    PROVE  Init => DefaultInv
BY DefaultEmptyConfig DEF Init, DefaultInv, Running

\* What a step of the one running process has to establish.
LEMMA DefaultFrame ==
    ASSUME NEW p \in Proc, TypeOK, DefaultInv, Running(p), cmd' = cmd,
           \/ file' = file
           \/ HasSavedDefault(file'.cfg) /\ pc'[p] # "load",
           HasSavedDefault(seen'[p]), HasSavedDefault(next'[p]),
           pc'[p] = "load" => cmd[p].alias \in Saved(ReadConfig),
           \A q \in Proc \ {p} :
               pc'[q] = pc[q] /\ seen'[q] = seen[q] /\ next'[q] = next[q]
    PROVE  DefaultInv'
<1>1. HasSavedDefault(file.cfg)'
  BY DEF DefaultInv, HasSavedDefault, Saved
<1>2. \A q \in Proc \ {p} : ~Running(q) /\ ~Running(q)' /\ pc'[q] # "load"
  BY DEF DefaultInv, Running
<1>3. \A q, r \in Proc : Running(q)' /\ Running(r)' => q = r
  BY <1>2
<1>4. \A q \in Proc : HasSavedDefault(seen[q])' /\ HasSavedDefault(next[q])'
  BY DEF DefaultInv, HasSavedDefault, Saved
<1>5. \A q \in Proc : pc'[q] = "load" => cmd'[q].alias \in Saved(ReadConfig)'
  BY <1>2 DEF ReadConfig, Saved
<1> QED BY <1>1, <1>3, <1>4, <1>5 DEF DefaultInv

LEMMA DefaultFail ==
    ASSUME NEW p \in Proc, TypeOK, DefaultInv, Running(p), Fail(p)
    PROVE  DefaultInv'
<1>1. pc'[p] = "end" /\ \A q \in Proc \ {p} : pc'[q] = pc[q]
  BY DEF Fail, Exit, Goto, TypeOK
<1> QED BY <1>1, DefaultFrame DEF Fail, DefaultInv

LEMMA DefaultImportStep ==
    ASSUME NEW p \in Proc, TypeInv, DefaultInv, ImportStep(p)
    PROVE  DefaultInv'
<1>f. Running(p)
  BY DEF Running, ImportStep, ImportRead, ImportRefused, ImportConfirmed,
         ImportCancelled, ValidateOne, ValidationFails, ValidationDone,
         ImportResolved, ImportUnresolved
<1> USE DEF TypeInv, TypeOK, DefaultInv, Goto
<1>1. CASE ImportRead(p)
  <2>1. HasSavedDefault(ReadConfig)
    BY DefaultReadConfig
  <2> QED BY <1>1, <1>f, <2>1, DefaultFrame DEF ImportRead
<1>2. CASE ImportConfirmed(p)
  BY <1>2, <1>f, DefaultFrame DEF ImportConfirmed
<1>3. CASE ValidateOne(p)
  BY <1>3, <1>f, DefaultFrame DEF ValidateOne
<1>4. CASE ValidationDone(p)
  BY <1>4, <1>f, DefaultFrame DEF ValidationDone
<1>5. CASE ImportResolved(p)
  <2>1. cmd[p] \in Command /\ seen[p] \in Config
    BY <1>5 DEF ImportResolved
  <2>2. /\ cmd[p].secrets \in [Alias -> Cred \cup {None}]
        /\ cmd[p].pid \in ProjectId \cup {None, Bad}
        /\ cmd[p].loc \in Location \cup {None, Bad}
    BY <2>1 DEF Command
  <2>3. PICK pid \in Answers(cmd[p].pid, ProjectId, cmd[p].canPrompt) \ {Bad},
             loc \in Answers(cmd[p].loc, Location, cmd[p].canPrompt) \ {Bad},
             alias \in DefaultAnswers(p) \ {Bad} :
           next' = [next EXCEPT ![p] =
                      WithImport(seen[p], cmd[p].secrets, pid, loc, alias)]
    BY <1>5 DEF ImportResolved
  <2>4. pid \in ProjectId \cup {None} /\ loc \in Location \cup {None}
    BY <2>2 DEF Answers
  <2>5. alias \in {a \in Alias : cmd[p].secrets[a] # None} \cup {None}
    BY DEF DefaultAnswers, Imported
  <2>6. HasSavedDefault(WithImport(seen[p], cmd[p].secrets, pid, loc, alias))
    BY <2>1, <2>2, <2>4, <2>5, DefaultImport
  <2> QED BY <1>5, <1>f, <2>3, <2>6, DefaultFrame DEF ImportResolved
<1>6. CASE Fail(p)
  BY <1>6, <1>f, DefaultFail
<1> QED BY <1>1, <1>2, <1>3, <1>4, <1>5, <1>6
        DEF ImportStep, ImportRefused, ImportCancelled, ValidationFails,
            ImportUnresolved

LEMMA DefaultProfileStep ==
    ASSUME NEW p \in Proc, TypeInv, DefaultInv, ProfileStep(p)
    PROVE  DefaultInv'
<1>f. Running(p)
  BY DEF Running, ProfileStep, ReadFails, Resolve, List, CheckExists, CheckFails, Load,
         LoadFails
<1> USE DEF TypeInv, TypeOK, DefaultInv, Goto, Exit
<1>1. CASE List(p)
  BY <1>1, <1>f, DefaultReadConfig, DefaultFrame DEF List
<1>2. CASE CheckExists(p)
  <2>1. cmd[p].alias \in Alias
    BY <1>2 DEF CheckExists, Command
  <2>2. cmd[p].alias \in Saved(ReadConfig)
    BY <1>2, <2>1 DEF CheckExists, Saved
  <2> QED BY <1>2, <1>f, <2>2, DefaultFrame DEF CheckExists
<1>3. CASE Load(p)
  <2>1. cmd[p] \in Command /\ ReadConfig \in Config
    BY <1>3, ReadConfigType DEF Load
  <2>2. cmd[p].op \in {"remove", "set-default"} \/ ~ContextRejected(cmd[p])
    BY <1>3 DEF Load, CheckedContext
  <2>3. HasSavedDefault(ReadConfig)
    BY DefaultReadConfig
  <2>4. HasSavedDefault(Effect(cmd[p], ReadConfig))
    BY <1>3, <2>1, <2>2, <2>3, DefaultEffect DEF Load
  <2> QED BY <1>3, <1>f, <2>3, <2>4, DefaultFrame DEF Load
<1>4. CASE Fail(p)
  BY <1>4, <1>f, DefaultFail
<1>5. CASE Resolve(p)
  BY <1>5, <1>f, DefaultReadConfig, DefaultFrame DEF Resolve
<1> QED BY <1>1, <1>2, <1>3, <1>4, <1>5 DEF ProfileStep, ReadFails, CheckFails, LoadFails

LEMMA DefaultWriteStep ==
    ASSUME NEW p \in Proc, TypeInv, DefaultInv, WriteStep(p)
    PROVE  DefaultInv'
<1>f. Running(p)
  BY DEF Running, WriteStep, OpenTemp, FillTemp, Rename, WriteFails, Abort, Unlink,
         RemoveFails, Reread
<1> USE DEF TypeInv, TypeOK, DefaultInv, Goto, Exit
<1>1. CASE Rename(p)
  <2>1. HasSavedDefault(Renamed(p).cfg)
    BY DefaultEmptyConfig DEF Renamed
  <2> QED BY <1>1, <1>f, <2>1, DefaultFrame DEF Rename
<1>2. CASE Reread(p)
  BY <1>2, <1>f, DefaultReadConfig, DefaultFrame DEF Reread
<1>3. CASE \/ OpenTemp(p) \/ FillTemp(p) \/ WriteFails(p)
           \/ Abort(p) \/ Unlink(p) \/ RemoveFails(p)
  BY <1>3, <1>f, DefaultFrame
     DEF OpenTemp, FillTemp, WriteFails, Abort, Unlink, RemoveFails
<1> QED BY <1>1, <1>2, <1>3 DEF WriteStep

LEMMA DefaultNext ==
    ASSUME Sequential
    PROVE  TypeInv /\ DefaultInv /\ [Next]_vars => DefaultInv'
<1> SUFFICES ASSUME TypeInv, DefaultInv, [Next]_vars
             PROVE  DefaultInv'
  OBVIOUS
<1>1. CASE UNCHANGED vars
  BY <1>1 DEF vars, DefaultInv, HasSavedDefault, Saved, Running, ReadConfig
<1>2. ASSUME NEW p \in Proc, NEW c \in Commands, Start(p, c)
      PROVE  DefaultInv'
  <2>1. pc'[p] # "load" /\ \A q \in Proc \ {p} : pc'[q] = pc[q] /\ cmd'[q] = cmd[q]
    BY <1>2 DEF Start, Goto, TypeInv, TypeOK
  <2>2. \A q \in Proc : ~Running(q)
    BY <1>2 DEF Start
  <2>3. \A q, r \in Proc : Running(q)' /\ Running(r)' => q = r
    BY <2>1, <2>2 DEF Running
  <2> QED BY <1>2, <2>1, <2>2, <2>3
          DEF DefaultInv, Start, HasSavedDefault, Saved, Running, ReadConfig
<1>3. ASSUME NEW p \in Proc, Step(p)
      PROVE  DefaultInv'
  BY <1>3, DefaultImportStep, DefaultProfileStep, DefaultWriteStep DEF Step
<1>4. ASSUME NEW p \in Proc, Crash(p)
      PROVE  DefaultInv'
  BY <1>4, DefaultFrame DEF Crash, Exit, Goto, TypeInv, TypeOK, DefaultInv
<1> QED BY <1>1, <1>2, <1>3, <1>4 DEF Next

LEMMA SavedDefaultResolves ==
    ASSUME NEW config \in Config, HasSavedDefault(config), NEW r \in Request
    PROVE  Resolution(config, r) # "INVALID_DEFAULT_PROFILE"
<1>1. ~StaleDefault(config)
  BY DEF HasSavedDefault, StaleDefault, Saved
<1> QED BY <1>1 DEF Resolution, InvalidDefaultProfile

\* With one command at a time, each possibly killed, the default alias always
\* names a saved profile if it did so in the first config.json, and so no API
\* command ends in INVALID_DEFAULT_PROFILE.
THEOREM DefaultStaysSaved ==
    ASSUME Sequential, \A f \in InitialFiles : HasSavedDefault(f.cfg)
    PROVE  Spec => []DefaultIsSaved
<1>1. Init => TypeInv /\ DefaultInv
  BY TypeInit, DefaultInit
<1>2. TypeInv /\ DefaultInv /\ [Next]_vars => (TypeInv /\ DefaultInv)'
  BY TypeNext, DefaultNext
<1>3. TypeInv /\ DefaultInv => DefaultIsSaved
  <2> SUFFICES ASSUME TypeInv, DefaultInv PROVE DefaultIsSaved
    OBVIOUS
  <2>1. ASSUME NEW p \in Proc, cmd[p] # None
        PROVE  Resolution(seen[p], cmd[p].request) # "INVALID_DEFAULT_PROFILE"
    <3>1. cmd[p] \in Command /\ seen[p] \in Config
      BY <2>1 DEF TypeInv, TypeOK
    <3>2. cmd[p].request \in Request
      BY <3>1 DEF Command
    <3> QED BY <3>1, <3>2, SavedDefaultResolves DEF DefaultInv
  <2> QED BY <2>1 DEF DefaultInv, DefaultIsSaved
<1> QED BY <1>1, <1>2, <1>3, PTL DEF Spec
-----------------------------------------------------------------------------
(***************************************************************************)
(* One command at a time. What a process has read is then still what the   *)
(* file holds when it writes, and what it writes is what its command makes *)
(* of that reading: the file changes by whole commands.                    *)
(***************************************************************************)
Imports == {"import", "confirm", "validate", "defaults"}

Writes == {"open", "fill", "rename"}

\* The answers that ImportResolved may have used.
IsImport(p, config) ==
    /\ Imported(cmd[p]) # {}
    /\ \E pid \in ProjectId \cup {None}, loc \in Location \cup {None},
          alias \in Imported(cmd[p]) \cup {None} :
         config = WithImport(seen[p], cmd[p].secrets, pid, loc, alias)

IsEffect(p, config) ==
    /\ cmd[p].op \in {"remove", "set-context", "set-default"}
    /\ cmd[p].alias \in Saved(seen[p])
    /\ cmd[p].op = "set-context" => ~ContextRejected(cmd[p])
    /\ config = Effect(cmd[p], seen[p])

Prepared(p) == IF cmd[p].op = "import" THEN IsImport(p, next[p]) ELSE IsEffect(p, next[p])

\* --force, a prompt that was answered, or nothing to overwrite.
Consented(p) ==
    cmd[p].force \/ consent[p] \/ OverwrittenAliases(p, seen[p]) = {}

\* What holds of a process by the place at which it is.
Standing(p) ==
    /\ pc[p] \in Imports => cmd[p].op = "import"
    /\ pc[p] \in Imports \ {"import"} => seen[p] = ReadConfig /\ Imported(cmd[p]) # {}
    /\ pc[p] \in {"validate", "defaults"} => Consented(p)
    /\ pc[p] = "load" => cmd[p].alias \in Saved(ReadConfig)
    /\ pc[p] \in Writes =>
          /\ seen[p] = ReadConfig /\ Prepared(p)
          /\ cmd[p].op = "import" => Consented(p)

SoleInv ==
    /\ file.state # "ok" => file.cfg = EmptyConfig
    /\ \A p, q \in Proc : Running(p) /\ Running(q) => p = q
    /\ \A p \in Proc : Standing(p)

LEMMA SoleInit == Init => SoleInv
BY CommandAssumption
   DEF Init, SoleInv, Standing, Running, CommandAssumption, Imports, Writes

\* A step of the one running process that leaves the file alone: the others
\* are not running, so that nothing is said of them.
LEMMA SoleFrame ==
    ASSUME NEW p \in Proc, SoleInv, Running(p), file' = file,
           \A q \in Proc \ {p} : pc'[q] = pc[q],
           Standing(p)'
    PROVE  SoleInv'
<1>1. \A q \in Proc \ {p} : pc'[q] \in {"idle", "end"}
  BY DEF SoleInv, Running
<1>2. \A q \in Proc \ {p} : Standing(q)'
  BY <1>1 DEF Standing, Imports, Writes
<1> QED BY <1>1, <1>2 DEF SoleInv, Running

LEMMA SoleExit ==
    ASSUME NEW p \in Proc, NEW result, TypeOK, SoleInv, Running(p),
           Exit(p, result), file' = file
    PROVE  SoleInv'
<1>1. pc'[p] = "end" /\ \A q \in Proc \ {p} : pc'[q] = pc[q]
  BY DEF Exit, Goto, TypeOK
<1>2. Standing(p)'
  BY <1>1 DEF Standing, Imports, Writes
<1> QED BY <1>1, <1>2, SoleFrame

LEMMA SoleImportStep ==
    ASSUME NEW p \in Proc, TypeOK, SoleInv, ImportStep(p)
    PROVE  SoleInv'
<1>f. Running(p)
  BY DEF Running, ImportStep, ImportRead, ImportRefused, ImportConfirmed,
         ImportCancelled, ValidateOne, ValidationFails, ValidationDone,
         ImportResolved, ImportUnresolved
<1>t. cmd[p] \in Command
  BY <1>f DEF TypeOK, Running
<1> USE DEF TypeOK, SoleInv, Goto, Imports, Writes
<1>1. CASE ImportRead(p)
  <2>1. Standing(p)'
    <3>1. pc'[p] \in {"validate", "confirm"} /\ seen'[p] = ReadConfig'
      BY <1>1 DEF ImportRead, ReadConfig
    <3>2. Imported(cmd'[p]) # {} /\ cmd'[p].op = "import"
      BY <1>1 DEF ImportRead, Standing
    <3>3. pc'[p] = "validate" => Consented(p)'
      BY <1>1 DEF ImportRead, Consented, OverwrittenAliases, Imported, ReadConfig
    <3> QED BY <3>1, <3>2, <3>3 DEF Standing, Imported
  <2> QED BY <1>1, <1>f, <2>1, SoleFrame DEF ImportRead
<1>2. CASE ImportConfirmed(p)
  <2>1. Standing(p)'
    BY <1>2 DEF ImportConfirmed, Standing, Consented, Imported, ReadConfig
  <2> QED BY <1>2, <1>f, <2>1, SoleFrame DEF ImportConfirmed
<1>3. CASE ValidateOne(p)
  <2>1. Standing(p)'
    BY <1>3 DEF ValidateOne, Standing, Consented, Imported, OverwrittenAliases, ReadConfig
  <2> QED BY <1>3, <1>f, <2>1, SoleFrame DEF ValidateOne
<1>4. CASE ValidationDone(p)
  <2>1. Standing(p)'
    BY <1>4 DEF ValidationDone, Standing, Consented, Imported, OverwrittenAliases,
                ReadConfig
  <2> QED BY <1>4, <1>f, <2>1, SoleFrame DEF ValidationDone
<1>5. CASE ImportResolved(p)
  <2>1. PICK pid \in Answers(cmd[p].pid, ProjectId, cmd[p].canPrompt) \ {Bad},
             loc \in Answers(cmd[p].loc, Location, cmd[p].canPrompt) \ {Bad},
             alias \in DefaultAnswers(p) \ {Bad} :
           next' = [next EXCEPT ![p] =
                      WithImport(seen[p], cmd[p].secrets, pid, loc, alias)]
    BY <1>5 DEF ImportResolved
  <2>2. /\ pid \in ProjectId \cup {None}
        /\ loc \in Location \cup {None}
        /\ alias \in Imported(cmd[p]) \cup {None}
    BY <1>t DEF Answers, DefaultAnswers, Command
  <2>3. /\ next'[p] = WithImport(seen'[p], cmd'[p].secrets, pid, loc, alias)
        /\ alias \in Imported(cmd'[p]) \cup {None}
        /\ cmd'[p] = cmd[p] /\ seen'[p] = seen[p] /\ consent' = consent
        /\ pc'[p] = "open" /\ pc[p] = "defaults"
    BY <1>5, <2>1, <2>2 DEF ImportResolved
  <2>4. /\ cmd[p].op = "import" /\ Imported(cmd[p]) # {} /\ Consented(p)
        /\ seen[p] = ReadConfig
    BY <2>3 DEF Standing
  <2>5. IsImport(p, next[p])'
    BY <2>2, <2>3, <2>4 DEF IsImport
  <2>6. Consented(p)'
    BY <2>3, <2>4 DEF Consented, OverwrittenAliases
  <2>7. ReadConfig' = ReadConfig
    BY <1>5 DEF ImportResolved, ReadConfig
  <2>8. Standing(p)'
    BY <2>3, <2>4, <2>5, <2>6, <2>7 DEF Standing, Prepared
  <2> QED BY <1>5, <1>f, <2>8, SoleFrame DEF ImportResolved
<1>6. CASE Fail(p)
  BY <1>6, <1>f, SoleExit DEF Fail
<1> QED BY <1>1, <1>2, <1>3, <1>4, <1>5, <1>6
        DEF ImportStep, ImportRefused, ImportCancelled, ValidationFails,
            ImportUnresolved

LEMMA SoleProfileStep ==
    ASSUME NEW p \in Proc, TypeInv, SoleInv, ProfileStep(p)
    PROVE  SoleInv'
<1>f. Running(p)
  BY DEF Running, ProfileStep, ReadFails, Resolve, List, CheckExists, CheckFails, Load,
         LoadFails
<1>t. TypeOK /\ cmd[p] \in Command
  BY <1>f DEF TypeInv, TypeOK, Running
<1>1. CASE CheckExists(p)
  <2>1. cmd[p].alias \in Saved(ReadConfig)
    BY <1>1, <1>t DEF CheckExists, Saved, Command
  <2>2. pc'[p] = "load" /\ cmd'[p] = cmd[p] /\ ReadConfig' = ReadConfig
    BY <1>1, <1>t DEF CheckExists, Goto, TypeOK, ReadConfig
  <2>3. cmd'[p].alias \in Saved(ReadConfig)'
    BY <2>1, <2>2 DEF Saved
  <2>4. Standing(p)'
    BY <2>2, <2>3 DEF Standing, Imports, Writes
  <2> QED BY <1>1, <1>f, <1>t, <2>4, SoleFrame DEF CheckExists, Goto, TypeOK
<1>2. CASE Load(p)
  <2>1. /\ pc'[p] = "open" /\ cmd'[p] = cmd[p] /\ ReadConfig' = ReadConfig
        /\ seen'[p] = ReadConfig /\ next'[p] = Effect(cmd[p], ReadConfig)
    BY <1>2, <1>t DEF Load, Goto, TypeOK, ReadConfig
  <2>2. /\ cmd[p].op \in {"remove", "set-context", "set-default"}
        /\ cmd[p].op = "set-context" => ~ContextRejected(cmd[p])
    BY <1>2 DEF Load, TypeInv, CheckedContext
  <2>3. cmd[p].alias \in Saved(ReadConfig)
    BY <1>2 DEF Load, SoleInv, Standing
  <2>4. IsEffect(p, next[p])'
    BY <2>1, <2>2, <2>3 DEF IsEffect, Saved, Effect, ContextRejected
  <2>5. Standing(p)'
    BY <2>1, <2>2, <2>4 DEF Standing, Prepared, Imports, Writes
  <2> QED BY <1>2, <1>f, <1>t, <2>5, SoleFrame DEF Load, Goto, TypeOK
<1>3. CASE Fail(p) \/ List(p) \/ Resolve(p)
  BY <1>3, <1>f, <1>t, SoleExit DEF Fail, List, Resolve
<1> QED BY <1>1, <1>2, <1>3 DEF ProfileStep, ReadFails, CheckFails, LoadFails

LEMMA SoleWriteStep ==
    ASSUME NEW p \in Proc, TypeOK, SoleInv, WriteStep(p)
    PROVE  SoleInv'
<1>f. Running(p)
  BY DEF Running, WriteStep, OpenTemp, FillTemp, Rename, WriteFails, Abort, Unlink,
         RemoveFails, Reread
<1>1. CASE OpenTemp(p) \/ FillTemp(p)
  <2>1. /\ pc[p] \in Writes /\ pc'[p] \in Writes
        /\ UNCHANGED <<file, cmd, seen, next, consent>>
        /\ \A q \in Proc \ {p} : pc'[q] = pc[q]
    BY <1>1 DEF OpenTemp, FillTemp, Goto, TypeOK, Writes
  <2>2. Standing(p)'
    BY <2>1 DEF SoleInv, Standing, Prepared, IsImport, IsEffect, Consented, Imported,
         OverwrittenAliases, Effect, ContextRejected, ReadConfig, Saved, Imports, Writes
  <2> QED BY <1>f, <2>1, <2>2, SoleFrame
<1>2. CASE WriteFails(p)
  <2>1. pc'[p] = "abort" /\ \A q \in Proc \ {p} : pc'[q] = pc[q]
    BY <1>2 DEF WriteFails, Goto, TypeOK
  <2>2. Standing(p)'
    BY <2>1 DEF Standing, Imports, Writes
  <2> QED BY <1>2, <1>f, <2>1, <2>2, SoleFrame DEF WriteFails
<1>3. CASE Rename(p)
  <2>1. \A q \in Proc : pc'[q] \in {"idle", "end", "unlink"} /\ (pc'[q] = "unlink" => q = p)
    BY <1>3, <1>f DEF Rename, Goto, TypeOK, SoleInv, Running
  <2>2. \A q \in Proc : Standing(q)'
    BY <2>1 DEF Standing, Imports, Writes
  <2>3. (file.state # "ok" => file.cfg = EmptyConfig)'
    BY <1>3 DEF Rename, Renamed, EmptyConfig
  <2> QED BY <2>1, <2>2, <2>3 DEF SoleInv, Running
<1>4. CASE Unlink(p)
  <2>1. pc'[p] \in {"reread", "end"} /\ \A q \in Proc \ {p} : pc'[q] = pc[q]
    BY <1>4 DEF Unlink, Exit, Goto, TypeOK
  <2>2. Standing(p)'
    BY <2>1 DEF Standing, Imports, Writes
  <2> QED BY <1>4, <1>f, <2>1, <2>2, SoleFrame DEF Unlink
<1>5. CASE Abort(p) \/ RemoveFails(p) \/ Reread(p)
  BY <1>5, <1>f, SoleExit DEF Abort, RemoveFails, Reread
<1> QED BY <1>1, <1>2, <1>3, <1>4, <1>5 DEF WriteStep

LEMMA SoleNext ==
    ASSUME Sequential
    PROVE  TypeInv /\ SoleInv /\ [Next]_vars => SoleInv'
<1> SUFFICES ASSUME TypeInv, SoleInv, [Next]_vars
             PROVE  SoleInv'
  OBVIOUS
<1>t. TypeOK
  BY DEF TypeInv
<1>1. CASE UNCHANGED vars
  BY <1>1 DEF vars, SoleInv, Standing, Running, Prepared, IsImport, IsEffect, Consented,
              Imported, OverwrittenAliases, Effect, ContextRejected, ReadConfig, Saved,
              Imports, Writes
<1>2. ASSUME NEW p \in Proc, NEW c \in Commands, Start(p, c)
      PROVE  SoleInv'
  <2>1. /\ pc'[p] \in {"import", "list", "resolve", "check"} /\ file' = file
        /\ pc'[p] = "import" => cmd'[p].op = "import"
        /\ \A q \in Proc \ {p} : pc'[q] = pc[q]
    BY <1>2, <1>t DEF Start, Goto, TypeOK
  <2>2. \A q \in Proc \ {p} : pc'[q] \in {"idle", "end"}
    BY <1>2, <2>1 DEF Start, Running
  <2>3. \A q \in Proc : Standing(q)'
    BY <2>1, <2>2 DEF Standing, Imports, Writes
  <2> QED BY <2>1, <2>2, <2>3 DEF SoleInv, Running
<1>3. ASSUME NEW p \in Proc, Step(p)
      PROVE  SoleInv'
  BY <1>3, <1>t, SoleImportStep, SoleProfileStep, SoleWriteStep DEF Step
<1>4. ASSUME NEW p \in Proc, Crash(p)
      PROVE  SoleInv'
  BY <1>4, <1>t, SoleExit DEF Crash
<1> QED BY <1>1, <1>2, <1>3, <1>4 DEF Next

LEMMA SoleInvariant ==
    ASSUME Sequential
    PROVE  Spec => [](TypeInv /\ SoleInv /\ WriteInv)
<1>1. Init => TypeInv /\ SoleInv
  BY TypeInit, SoleInit
<1>2. TypeInv /\ SoleInv /\ [Next]_vars => (TypeInv /\ SoleInv)'
  BY TypeNext, SoleNext
<1> QED BY <1>1, <1>2, WriteInvariant, PTL DEF Spec

\* Only a rename changes what a command reads, and what it puts there is what
\* the command of its process makes of the config that was there before.
LEMMA OnlyRenameChanges ==
    ASSUME TypeOK, SoleInv, WriteInv, [Next]_vars
    PROVE  \/ file' = file /\ published' = published
           \/ \E p \in Proc :
                /\ pc[p] = "rename" /\ cmd[p] \in Command
                /\ seen[p] = ReadConfig /\ ReadConfig' = next[p] /\ Prepared(p)
                /\ \A q \in Proc \ {p} : published'[q] = published[q]
<1>1. CASE UNCHANGED vars
  BY <1>1 DEF vars
<1>2. ASSUME NEW p \in Proc, Rename(p)
      PROVE  /\ pc[p] = "rename" /\ cmd[p] \in Command
             /\ seen[p] = ReadConfig /\ ReadConfig' = next[p] /\ Prepared(p)
             /\ \A q \in Proc \ {p} : published'[q] = published[q]
  BY <1>2 DEF Rename, Renamed, TypeOK, SoleInv, Standing, Writes, WriteInv, ReadConfig
<1>3. ASSUME NEW p \in Proc, Step(p), ~Rename(p)
      PROVE  file' = file /\ published' = published
  BY <1>3 DEF Step, ImportStep, ProfileStep, WriteStep, Fail,
       ImportRead, ImportRefused, ImportConfirmed, ImportCancelled, ValidateOne,
       ValidationFails, ValidationDone, ImportResolved, ImportUnresolved,
       ReadFails, Resolve, List, CheckExists, CheckFails, Load, LoadFails,
       OpenTemp, FillTemp, WriteFails, Abort, Unlink, RemoveFails, Reread
<1> QED BY <1>1, <1>2, <1>3 DEF Next, Start, Crash

\* With one command at a time, an import replaces the secrets of a saved alias
\* only with --force or after a prompt that named that alias.
THEOREM OverwritesAreConfirmed ==
    ASSUME Sequential
    PROVE  Spec => NoSilentOverwrite
<1>1. TypeInv /\ SoleInv /\ WriteInv /\ [Next]_vars
        => [\A p \in Proc : ConsentedOverwrite(p)]_vars
  <2> SUFFICES ASSUME TypeInv, SoleInv, WriteInv, [Next]_vars, NEW p \in Proc,
                      published'[p] # published[p], cmd[p].op = "import",
                      NEW a \in Saved(file.cfg) \cap Imported(cmd[p])
               PROVE  cmd[p].force \/ (consent[p] /\ seen[p].profiles[a] # None)
    BY DEF ConsentedOverwrite
  <2>1. pc[p] = "rename" /\ seen[p] = ReadConfig
    BY OnlyRenameChanges DEF TypeInv
  <2>2. Consented(p)
    BY <2>1 DEF SoleInv, Standing, Writes
  <2>3. seen[p].profiles[a] # None
    BY <2>1 DEF SoleInv, ReadConfig, Saved
  <2> QED BY <2>2, <2>3 DEF Consented, OverwrittenAliases
<1> QED BY <1>1, SoleInvariant, PTL DEF Spec, NoSilentOverwrite

-----------------------------------------------------------------------------
(***************************************************************************)
(* What each command makes of a config is what ProfileStore promises.      *)
(***************************************************************************)
LEMMA RemovePromised ==
    ASSUME NEW alias \in Alias, ReadConfig \in Config, alias \in Saved(ReadConfig),
           ReadConfig' = WithoutProfile(ReadConfig, alias)
    PROVE  Abstract!Remove(alias)
<1> DEFINE old == ReadConfig
           new == WithoutProfile(old, alias)
           rest == Saved(old) \ {alias}
<1>1. old.profiles \in [Alias -> Profile \cup {None}]
  BY DEF Config
<1>2. new.profiles = [old.profiles EXCEPT ![alias] = None]
  BY DEF WithoutProfile
<1>3. Saved(new) = rest
  BY <1>1, <1>2 DEF Saved
<1>4. \A b \in rest : new.profiles[b] = old.profiles[b]
  BY <1>1, <1>2 DEF Saved
<1>5. new.default = IF old.default = alias THEN FirstProfileAlias(rest) ELSE old.default
  BY DEF WithoutProfile
<1>6. rest # {} => FirstOf(rest) \in rest
  <2>1. rest \in SUBSET Alias
    BY DEF Saved
  <2> QED BY <2>1, DataAssumption DEF DataAssumption
<1>7. Abstract!Saved = Saved(old) /\ Abstract!SavedNext = Saved(new)
  BY DEF Abstract!Saved, Abstract!SavedNext, Saved
<1>8. ReadConfig'.profiles = new.profiles /\ ReadConfig'.default = new.default
  OBVIOUS
<1> HIDE DEF old, new, rest
<1>9. /\ alias \in Saved(old) /\ Saved(new) = Saved(old) \ {alias}
      /\ \A b \in Saved(new) : new.profiles[b] = old.profiles[b]
  BY <1>3, <1>4 DEF old, rest
<1>10. /\ old.default # alias => new.default = old.default
       /\ old.default = alias /\ Saved(new) # {} => new.default \in Saved(new)
       /\ old.default = alias /\ Saved(new) = {} => new.default = None
  BY <1>3, <1>5, <1>6 DEF FirstProfileAlias
<1> QED BY <1>7, <1>8, <1>9, <1>10 DEF Abstract!Remove, old

LEMMA SetDefaultPromised ==
    ASSUME NEW alias \in Alias, ReadConfig \in Config, alias \in Saved(ReadConfig),
           ReadConfig' = WithDefault(ReadConfig, alias)
    PROVE  Abstract!SetDefault(alias)
<1>1. /\ ReadConfig'.profiles = ReadConfig.profiles
      /\ ReadConfig'.default = alias
  BY DEF WithDefault, Config
<1> QED BY <1>1 DEF Abstract!SetDefault, Abstract!Saved, Saved

LEMMA SetContextPromised ==
    ASSUME NEW alias \in Alias, ReadConfig \in Config, alias \in Saved(ReadConfig),
           NEW pid \in ProjectId \cup {None}, NEW loc \in Location \cup {None},
           ReadConfig' = WithContext(ReadConfig, alias, pid, loc)
    PROVE  Abstract!SetContext(alias)
<1> DEFINE old == ReadConfig.profiles[alias]
           new == PatchedProfile(old, pid, loc)
<1>1. old \in Profile /\ old # None
  BY DEF Saved, Config
<1>2. new \in Profile
  BY <1>1 DEF PatchedProfile, Profile, Override
<1>3. /\ new.api_key = old.api_key /\ new.auth_token = old.auth_token
      /\ new.default_project_id = Override(pid, old.default_project_id)
      /\ new.default_location = Override(loc, old.default_location)
  BY <1>1 DEF PatchedProfile, Profile
<1>4. new # None
  BY <1>2, ProfileAssumption DEF ProfileAssumption
<1>5. /\ ReadConfig'.profiles = [ReadConfig.profiles EXCEPT ![alias] = new]
      /\ ReadConfig'.default = ReadConfig.default
  BY DEF WithContext, Config
<1> HIDE DEF new
<1>6. /\ ReadConfig'.profiles[alias] = new
      /\ \A b \in Alias \ {alias} : ReadConfig'.profiles[b] = ReadConfig.profiles[b]
  BY <1>5 DEF Config
<1>7. Abstract!SavedNext = Abstract!Saved
  BY <1>1, <1>4, <1>6 DEF Abstract!SavedNext, Abstract!Saved
<1>8. Abstract!SameSecrets(old, new) /\ Abstract!KeepsContext(old, new)
  BY <1>3, DataAssumption
     DEF DataAssumption, Abstract!SameSecrets, Abstract!KeepsContext, Override
<1>9. alias \in Abstract!Saved
  BY <1>1 DEF Abstract!Saved
<1> QED BY <1>5, <1>6, <1>7, <1>8, <1>9 DEF Abstract!SetContext

LEMMA ImportPromised ==
    ASSUME NEW secrets \in [Alias -> Cred \cup {None}], NEW S \in SUBSET Alias,
           S = {a \in Alias : secrets[a] # None}, S # {},
           NEW pid \in ProjectId \cup {None}, NEW loc \in Location \cup {None},
           NEW alias \in S \cup {None}, ReadConfig \in Config,
           ReadConfig' = WithImport(ReadConfig, secrets, pid, loc, alias)
    PROVE  Abstract!Import(S)
<1> DEFINE Imp(a) == ImportedProfile(ReadConfig.profiles[a], secrets[a], pid, loc)
<1>1. \A a \in S : ReadConfig'.profiles[a] = Imp(a)
  BY DEF WithImport
<1>2. \A a \in Alias \ S : ReadConfig'.profiles[a] = ReadConfig.profiles[a]
  BY DEF WithImport
<1>3. ReadConfig'.default = Override(alias, ReadConfig.default)
  BY DEF WithImport
<1>4. ASSUME NEW a \in S
      PROVE  Imp(a) # None
  <2>1. ReadConfig.profiles[a] \in Profile \cup {None} /\ secrets[a] \in Cred
    BY DEF Config
  <2>2. Imp(a) \in Profile
    BY <2>1, ImportedProfileType
  <2> HIDE DEF Imp
  <2> QED BY <2>2, ProfileAssumption DEF ProfileAssumption
<1>5. ASSUME NEW a \in S
      PROVE  /\ Imp(a).default_project_id
                  = Override(pid, IF ReadConfig.profiles[a] = None THEN None
                                  ELSE ReadConfig.profiles[a].default_project_id)
             /\ Imp(a).default_location
                  = Override(loc, IF ReadConfig.profiles[a] = None THEN None
                                  ELSE ReadConfig.profiles[a].default_location)
  BY DEF ImportedProfile
<1> HIDE DEF Imp
<1>6. Abstract!SavedNext = Abstract!Saved \cup S
  BY <1>1, <1>2, <1>4 DEF Abstract!SavedNext, Abstract!Saved
<1>7. ReadConfig'.default \in S \cup {ReadConfig.default}
  BY <1>3 DEF Override
<1>8. ASSUME NEW a \in S \cap Abstract!Saved
      PROVE  /\ Abstract!KeepsContext(ReadConfig.profiles[a], ReadConfig'.profiles[a])
             /\ ReadConfig'.profiles[a].default_project_id
                  # ReadConfig.profiles[a].default_project_id
                => \A b \in S : ReadConfig'.profiles[b].default_project_id
                                  = ReadConfig'.profiles[a].default_project_id
             /\ ReadConfig'.profiles[a].default_location
                  # ReadConfig.profiles[a].default_location
                => \A b \in S : ReadConfig'.profiles[b].default_location
                                  = ReadConfig'.profiles[a].default_location
  BY <1>1, <1>5, DataAssumption
     DEF DataAssumption, Abstract!KeepsContext, Abstract!Saved, Override
<1>9. ASSUME NEW a \in S \ Abstract!Saved
      PROVE  /\ ReadConfig'.profiles[a].default_project_id # Bad
             /\ ReadConfig'.profiles[a].default_location # Bad
  <2>1. ReadConfig.profiles[a] = None
    BY DEF Abstract!Saved
  <2> QED BY <1>1, <1>5, <2>1, DataAssumption DEF DataAssumption, Override
<1> QED BY <1>2, <1>6, <1>7, <1>8, <1>9 DEF Abstract!Import

\* Each step is a whole command of ProfileStore, or changes no profile.
LEMMA StepPromised ==
    ASSUME TypeInv, SoleInv, WriteInv, [Next]_vars
    PROVE  Abstract!Next \/ ReadConfig' = ReadConfig
<1>1. CASE file' = file
  BY <1>1 DEF ReadConfig
<1>2. ASSUME NEW p \in Proc, cmd[p] \in Command, seen[p] = ReadConfig,
             ReadConfig' = next[p], Prepared(p)
      PROVE  Abstract!Next
  <2>1. ReadConfig \in Config /\ cmd[p].alias \in Alias
    BY <1>2, ReadConfigType DEF TypeInv, TypeOK, Command
  <2>2. CASE cmd[p].op = "import"
    <3>1. PICK pid \in ProjectId \cup {None}, loc \in Location \cup {None},
               alias \in Imported(cmd[p]) \cup {None} :
             ReadConfig' = WithImport(ReadConfig, cmd[p].secrets, pid, loc, alias)
      BY <1>2, <2>2 DEF Prepared, IsImport
    <3>2. /\ cmd[p].secrets \in [Alias -> Cred \cup {None}]
          /\ Imported(cmd[p]) \in SUBSET Alias /\ Imported(cmd[p]) # {}
      BY <1>2, <2>2 DEF Prepared, IsImport, Imported, Command
    <3>3. Abstract!Import(Imported(cmd[p]))
      BY <2>1, <3>1, <3>2, ImportPromised DEF Imported
    <3> QED BY <3>2, <3>3 DEF Abstract!Next
  <2>3. CASE cmd[p].op # "import"
    <3>1. /\ cmd[p].op \in {"remove", "set-context", "set-default"}
          /\ cmd[p].alias \in Saved(ReadConfig)
          /\ cmd[p].op = "set-context" => ~ContextRejected(cmd[p])
          /\ ReadConfig' = Effect(cmd[p], ReadConfig)
      BY <1>2, <2>3 DEF Prepared, IsEffect
    <3>2. CASE cmd[p].op = "remove"
      BY <2>1, <3>1, <3>2, RemovePromised DEF Effect, Abstract!Next
    <3>3. CASE cmd[p].op = "set-default"
      BY <2>1, <3>1, <3>3, SetDefaultPromised DEF Effect, Abstract!Next
    <3>4. CASE cmd[p].op = "set-context"
      <4>1. cmd[p].pid \in ProjectId \cup {None} /\ cmd[p].loc \in Location \cup {None}
        BY <1>2, <3>1, <3>4 DEF ContextRejected, Command
      <4>2. ReadConfig' = WithContext(ReadConfig, cmd[p].alias, cmd[p].pid, cmd[p].loc)
        BY <3>1, <3>4 DEF Effect
      <4> QED BY <2>1, <3>1, <4>1, <4>2, SetContextPromised DEF Abstract!Next
    <3> QED BY <3>1, <3>2, <3>3, <3>4
  <2> QED BY <2>2, <2>3
<1> QED BY <1>1, <1>2, OnlyRenameChanges DEF TypeInv

\* With one command at a time, each possibly killed at any step, the saved
\* profiles and their default change by the whole commands of ProfileStore.
THEOREM CommandsAreAtomic ==
    ASSUME Sequential, \A f \in InitialFiles : HasSavedDefault(f.cfg)
    PROVE  Spec => ImplementsProfileStore
<1>1. Init => Abstract!Init
  <2> SUFFICES ASSUME Init PROVE Abstract!Init
    OBVIOUS
  <2>1. ReadConfig \in Config
    BY TypeInit, ReadConfigType DEF TypeInv, TypeOK
  <2>2. HasSavedDefault(ReadConfig)
    BY DefaultReadConfig DEF Init
  <2> QED BY <2>1, <2>2 DEF Abstract!Init, Abstract!Saved, HasSavedDefault, Saved, Config
<1>2. TypeInv /\ SoleInv /\ WriteInv /\ [Next]_vars
        => [Abstract!Next]_<<ReadConfig.profiles, ReadConfig.default>>
  BY StepPromised
<1> QED BY <1>1, <1>2, SoleInvariant, PTL
        DEF Spec, ImplementsProfileStore, Abstract!Spec

-----------------------------------------------------------------------------
(***************************************************************************)
(* Scripts. Whatever a whole command of ProfileStore does, a profile that  *)
(* stays keeps its context, so what a well-formed API command took from it *)
(* is still there.                                                         *)
(***************************************************************************)
LEMMA ContextStays ==
    ASSUME ReadConfig \in Config, ReadConfig' \in Config, Abstract!Next,
           NEW a \in Saved(ReadConfig), a \in Saved(ReadConfig')
    PROVE  Abstract!KeepsContext(ReadConfig.profiles[a], ReadConfig'.profiles[a])
<1>1. /\ a \in Alias /\ a \in Abstract!Saved /\ a \in Abstract!SavedNext
      /\ ReadConfig.profiles[a] # None
  BY DEF Saved, Abstract!Saved, Abstract!SavedNext
<1>2. ASSUME ReadConfig'.profiles[a] = ReadConfig.profiles[a]
      PROVE  Abstract!KeepsContext(ReadConfig.profiles[a], ReadConfig'.profiles[a])
  BY <1>2 DEF Abstract!KeepsContext
<1>3. ASSUME NEW S \in SUBSET Alias, Abstract!Import(S)
      PROVE  Abstract!KeepsContext(ReadConfig.profiles[a], ReadConfig'.profiles[a])
  BY <1>1, <1>2, <1>3 DEF Abstract!Import
<1>4. ASSUME NEW b \in Alias, Abstract!Remove(b)
      PROVE  Abstract!KeepsContext(ReadConfig.profiles[a], ReadConfig'.profiles[a])
  BY <1>1, <1>2, <1>4 DEF Abstract!Remove
<1>5. ASSUME NEW b \in Alias, Abstract!SetContext(b)
      PROVE  Abstract!KeepsContext(ReadConfig.profiles[a], ReadConfig'.profiles[a])
  BY <1>1, <1>2, <1>5 DEF Abstract!SetContext
<1>6. ASSUME NEW b \in Alias, Abstract!SetDefault(b)
      PROVE  Abstract!KeepsContext(ReadConfig.profiles[a], ReadConfig'.profiles[a])
  BY <1>2, <1>6 DEF Abstract!SetDefault
<1> QED BY <1>3, <1>4, <1>5, <1>6 DEF Abstract!Next

\* A request that uses nothing malformed and resolves with a profile resolves
\* with any profile that has as much context, and as well formed.
LEMMA ResolvesAlike ==
    ASSUME NEW old \in Config, NEW new \in Config, NEW r \in Request,
           WellFormed(old, r), Resolution(old, r) = "ok",
           NEW a \in Saved(old), a \in Saved(new),
           UsedAlias(old, r) = a, UsedAlias(new, r) = a,
           Abstract!KeepsContext(old.profiles[a], new.profiles[a])
    PROVE  Resolution(new, r) = "ok"
<1> DEFINE P == old.profiles[a]
           Q == new.profiles[a]
<1>1. a \in Alias /\ a # None /\ P \in Profile /\ Q \in Profile /\ P # None /\ Q # None
  BY DataAssumption DEF DataAssumption, Saved, Config
<1>2. UsedProfile(old, r) = P /\ UsedProfile(new, r) = Q
  BY <1>1 DEF UsedProfile
<1>3. ~ProfileNotFound(new, r)
  BY <1>1 DEF ProfileNotFound, UsedAlias
<1>4. ~MissingAuth(new, r)
  <2>1. \A f \in AuthFields : FromProfile(Q)[f] \in Cred
    BY <1>1 DEF FromProfile, AuthFields, Profile
  <2>2. \A f \in AuthFields : MergedAuth(new, r)[f] # None
    BY <1>2, <2>1, DataAssumption DEF DataAssumption, MergedAuth, Override
  <2>3. DOMAIN MergedAuth(new, r) = AuthFields
    BY DEF MergedAuth
  <2> QED BY <2>2, <2>3 DEF MissingAuth, Incomplete
<1>5. ASSUME NEW f \in ContextFields
      PROVE  FromProfile(Q)[f] \in {None, Bad} => FromProfile(Q)[f] = FromProfile(P)[f]
  <2>1. CASE f = "project_id"
    BY <1>1, <2>1 DEF FromProfile, Abstract!KeepsContext
  <2>2. CASE f = "location"
    BY <1>1, <2>2 DEF FromProfile, Abstract!KeepsContext
  <2> QED BY <2>1, <2>2 DEF ContextFields
<1>6. \A c \in {old, new} : DOMAIN MergedContext(c, r) = ContextFields
  BY DEF MergedContext
<1>7. ASSUME NEW f \in ContextFields
      PROVE  /\ MergedContext(new, r)[f] # Bad
             /\ MergedContext(old, r)[f] # None => MergedContext(new, r)[f] # None
  <2>1. MergedContext(old, r)[f] # Bad
    BY DEF WellFormed
  <2>2. /\ MergedContext(new, r)[f]
              = Override(r.flags[f], Override(r.env[f], FromProfile(Q)[f]))
        /\ MergedContext(old, r)[f]
              = Override(r.flags[f], Override(r.env[f], FromProfile(P)[f]))
    BY <1>2 DEF MergedContext
  <2> QED BY <1>5, <2>1, <2>2, DataAssumption DEF Override, DataAssumption
<1>8. ~MissingContext(new, r)
  <2>1. ~MissingContext(old, r)
    BY DEF Resolution
  <2> QED BY <1>6, <1>7, <2>1 DEF MissingContext, Incomplete
<1>9. ~ContextRefused(new, r)
  BY <1>7 DEF ContextRefused
<1>10. ~InvalidDefaultProfile(new, r)
  BY <1>4, <1>8 DEF InvalidDefaultProfile
<1> QED BY <1>3, <1>4, <1>8, <1>9, <1>10 DEF Resolution

\* With one command at a time, a script whose credentials resolve, and that
\* uses no malformed flag, variable or saved value, goes on resolving them,
\* whatever command runs in between, unless that command removes its profile
\* or chooses another default for it. Other profiles may hold malformed values.
THEOREM ScriptsResolve ==
    ASSUME Sequential
    PROVE  Spec => ScriptsKeepWorking
<1> DEFINE Works(c) ==
             /\ c.op = "api" /\ WellFormed(ReadConfig, c.request)
             /\ StopsResolving(c.request)
             => \/ UsedAlias(ReadConfig, c.request) \notin Saved(ReadConfig')
                \/ c.request.alias = None /\ ReadConfig'.default # ReadConfig.default
<1>1. TypeInv /\ SoleInv /\ WriteInv /\ [Next]_vars /\ TypeInv'
        => [\A c \in Commands : Works(c)]_vars
  <2> SUFFICES ASSUME TypeInv, SoleInv, WriteInv, [Next]_vars, TypeInv',
                      NEW c \in Commands, c.op = "api", WellFormed(ReadConfig, c.request),
                      StopsResolving(c.request),
                      UsedAlias(ReadConfig, c.request) \in Saved(ReadConfig'),
                      \/ c.request.alias # None
                      \/ ReadConfig'.default = ReadConfig.default
               PROVE  FALSE
    OBVIOUS
  <2> DEFINE r == c.request
             a == UsedAlias(ReadConfig, r)
  <2>1. r \in Request
    BY CommandAssumption DEF CommandAssumption, Command
  <2>2. ReadConfig \in Config /\ ReadConfig' \in Config
    BY ReadConfigType, EmptyConfigType
       DEF TypeInv, TypeOK, ReadConfig, FileState
  <2>3. ReadConfig' # ReadConfig
    BY DEF StopsResolving
  <2>4. Abstract!Next
    BY <2>3, StepPromised
  <2>5. a \in Saved(ReadConfig)
    <3>1. a \in Alias /\ a # None
      BY DataAssumption DEF Saved, DataAssumption
    <3>2. ~ProfileNotFound(ReadConfig, r)
      BY DEF StopsResolving, Resolution
    <3>3. ReadConfig.profiles[a] # None
      BY <3>1, <3>2 DEF UsedAlias, ProfileNotFound, StaleDefault
    <3> QED BY <3>1, <3>3 DEF Saved
  <2>6. UsedAlias(ReadConfig', r) = a
    <3>1. a # None /\ ReadConfig'.profiles[a] # None
      BY <2>5, DataAssumption DEF Saved, DataAssumption
    <3>2. CASE r.alias # None
      BY <3>2 DEF UsedAlias
    <3>3. CASE r.alias = None
      <4>1. a = ReadConfig.default /\ ReadConfig'.default = ReadConfig.default
        BY <3>1, <3>3 DEF UsedAlias
      <4>2. ~StaleDefault(ReadConfig')
        BY <3>1, <4>1 DEF StaleDefault
      <4>3. UsedAlias(ReadConfig', r) = ReadConfig'.default
        BY <3>3, <4>2 DEF UsedAlias
      <4> QED BY <4>1, <4>3
    <3> QED BY <3>2, <3>3
  <2>7. Abstract!KeepsContext(ReadConfig.profiles[a], ReadConfig'.profiles[a])
    BY <2>2, <2>4, <2>5, ContextStays
  <2>8. Resolution(ReadConfig, r) = "ok"
    BY DEF StopsResolving
  <2>9. Resolution(ReadConfig', r) = "ok"
    BY <2>1, <2>2, <2>5, <2>6, <2>7, <2>8, ResolvesAlike
  <2> QED BY <2>9 DEF StopsResolving
<1> QED BY <1>1, SoleInvariant, PTL DEF Spec, ScriptsKeepWorking
=============================================================================
