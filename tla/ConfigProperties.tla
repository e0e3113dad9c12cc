-------------------------- MODULE ConfigProperties --------------------------
(***************************************************************************)
(* What the config commands must keep true, alone and side by side.        *)
(***************************************************************************)
EXTENDS ConfigStore

-----------------------------------------------------------------------------
\* No step of any command makes an acceptable config.json one that `read`
\* rejects: neither killing a process between two system calls of
\* writeSecureConfigFile nor another process beside it can do so.
StaysReadable == [][Readable => Readable']_vars

SameSecrets(p, q) == p.api_key = q.api_key /\ p.auth_token = q.auth_token

\* A profile with secrets that the API accepted, or that was saved before.
KnownSecrets(profile) ==
    \/ profile.api_key = profile.auth_token /\ profile.api_key \in ValidCred
    \/ \E f \in InitialFiles : \E a \in Saved(f.cfg) :
           SameSecrets(profile, f.cfg.profiles[a])

HasKnownSecrets(config) ==
    \A a \in Saved(config) : KnownSecrets(config.profiles[a])

\* A resolved API command whose environment holds neither secret.
UsesSavedSecrets(p) ==
    /\ cmd[p] # None /\ cmd[p].op = "api" /\ outcome[p] = "ok"
    /\ \A f \in AuthFields : cmd[p].request.env[f] = None

\* A key and a token are saved together, and only after the API accepted
\* them (importProfiles validates every alias before it writes any), however
\* the readings and writings of several processes interleave; and no command
\* sends the API a key with the token of another profile.
OnlyValidatedSecrets ==
    /\ HasKnownSecrets(file.cfg)
    /\ \A p \in Proc :
         UsesSavedSecrets(p) => KnownSecrets(MergedAuth(seen[p], cmd[p].request))

\* What the exit code tells of the file. A command that changes profiles and
\* succeeded has replaced it. One that failed has not, with two exceptions the
\* code makes: an import that saved and then could not read the file again,
\* and any command whose error is the one of removing its temporary file
\* ("not-removed"), which says nothing of the file.
ExitCodeTellsTruth ==
    \A p \in Proc :
        /\ outcome[p] = "error" /\ published[p] => cmd[p].op = "import"
        /\ outcome[p] = "ok" /\ cmd[p].op \notin {"api", "list"} => published[p]

\* A temporary file, which holds the secrets too, is left behind only by a
\* process that was killed while it was writing or could not remove it, and
\* then says so (the `finally` of writeSecureConfigFile removes it on every
\* other path).
NoStrayTempFiles ==
    \A p \in Proc :
        temp[p] # "none" => \/ pc[p] \in {"fill", "rename", "abort"}
                            \/ outcome[p] \in {"crashed", "not-removed"}

-----------------------------------------------------------------------------
HasSavedDefault(config) == config.default \in Saved(config) \cup {None}

\* The saved default names a saved profile, and no API command ends in
\* INVALID_DEFAULT_PROFILE. It needs one command at a time: see the README
\* for what two commands can do.
DefaultIsSaved ==
    /\ HasSavedDefault(file.cfg)
    /\ \A p \in Proc :
         cmd[p] # None /\ cmd[p].op = "api" =>
            Resolution(seen[p], cmd[p].request) # "INVALID_DEFAULT_PROFILE"

\* "Re-run with --force or use an interactive terminal to confirm
\* overwriting": an import replaces the secrets of an alias that is saved
\* when it writes only with --force, or after a prompt that named that alias.
ConsentedOverwrite(p) ==
    file' # file /\ published'[p] # published[p] /\ cmd[p].op = "import" =>
        \A a \in Saved(file.cfg) \cap Imported(cmd[p]) :
            \/ cmd[p].force
            \/ consent[p] /\ seen[p].profiles[a] # None

NoSilentOverwrite == [][\A p \in Proc : ConsentedOverwrite(p)]_vars

\* Commands run one at a time, killed at any step, act on the saved profiles
\* as the atomic commands of ProfileStore do.
Abstract == INSTANCE ProfileStore WITH
                profiles <- ReadConfig.profiles,
                default  <- ReadConfig.default

ImplementsProfileStore == Abstract!Spec

\* What was resolved from one version of the config and no longer is.
StopsResolving(r) ==
    Resolution(ReadConfig, r) = "ok" /\ Resolution(ReadConfig', r) # "ok"

\* Nothing malformed among the flags, variables and saved values it uses.
WellFormed(config, r) == \A f \in ContextFields : MergedContext(config, r)[f] # Bad

\* A script that works goes on working: an API command that resolves its
\* credentials from config.json resolves them after any other command too,
\* unless that command removed the profile or made another one the default.
\* (A malformed value, of the environment or of a file edited by hand, is
\* another matter: buildOptionalResolvedContext lets half a context pass, and
\* refuses it once `set-context` or an import supplies the other half.)
ScriptsKeepWorking ==
    [][\A c \in Commands :
         /\ c.op = "api" /\ WellFormed(ReadConfig, c.request)
         /\ StopsResolving(c.request)
         =>
            \/ UsedAlias(ReadConfig, c.request) \notin Saved(ReadConfig')
            \/ c.request.alias = None /\ ReadConfig'.default # ReadConfig.default]_vars

-----------------------------------------------------------------------------
\* No command waits for another one: each of them ends, since nothing is
\* locked and every retry is bounded.
EveryCommandEnds ==
    \A p \in Proc : Running(p) ~> pc[p] = "end"
=============================================================================
