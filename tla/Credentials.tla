---------------------------- MODULE Credentials ----------------------------
(***************************************************************************)
(* config/resolver.ts: which key, token, project and location a command    *)
(* that calls the MyAccount API works with, from one reading of the saved  *)
(* profiles, the environment and its own flags. Commands of the `account`  *)
(* scope (projects) do without a project context, all others need one.     *)
(***************************************************************************)
EXTENDS ConfigData

Scopes == {"account", "project"}

AuthFields == {"api_key", "auth_token"}

ContextFields == {"project_id", "location"}

\* Blank variables count as absent (isNonEmptyString).
Environment == [api_key    : Cred \cup {None},
                auth_token : Cred \cup {None},
                project_id : ProjectId \cup {None, Bad},
                location   : Location \cup {None, Bad}]

Flags == [project_id : ProjectId \cup {None, Bad}, location : Location \cup {None, Bad}]

\* What one command line and its environment say about credentials.
Request == [alias : Alias \cup {None}, scope : Scopes, env : Environment, flags : Flags]

(***************************************************************************)
(* resolveCredentialSet: --alias if it is given, else the saved default    *)
(* unless no profile has that alias (a stale default).                     *)
(***************************************************************************)
StaleDefault(config) ==
    config.default # None /\ config.profiles[config.default] = None

UsedAlias(config, r) ==
    IF r.alias # None THEN r.alias
    ELSE IF StaleDefault(config) THEN None ELSE config.default

UsedProfile(config, r) ==
    LET alias == UsedAlias(config, r)
    IN  IF alias = None THEN None ELSE config.profiles[alias]

\* readContextFromProfile, and the two secrets under the same names.
FromProfile(profile) ==
    [api_key    |-> IF profile = None THEN None ELSE profile.api_key,
     auth_token |-> IF profile = None THEN None ELSE profile.auth_token,
     project_id |-> IF profile = None THEN None ELSE profile.default_project_id,
     location   |-> IF profile = None THEN None ELSE profile.default_location]

(***************************************************************************)
(* buildResolvedCredentials merges field by field: a variable replaces one *)
(* saved secret and leaves the other; a flag wins over a variable.         *)
(***************************************************************************)
MergedAuth(config, r) ==
    [f \in AuthFields |-> Override(r.env[f], FromProfile(UsedProfile(config, r))[f])]

MergedContext(config, r) ==
    [f \in ContextFields |->
        Override(r.flags[f],
            Override(r.env[f], FromProfile(UsedProfile(config, r))[f]))]

Incomplete(values) == \E f \in DOMAIN values : values[f] = None

\* What an account command has of a context is checked only if it is whole.
ContextRefused(config, r) ==
    LET context == MergedContext(config, r)
    IN  /\ \E f \in ContextFields : context[f] = Bad
        /\ r.scope = "project" \/ ~Incomplete(context)

ProfileNotFound(config, r) ==
    r.alias # None /\ config.profiles[r.alias] = None

MissingAuth(config, r) == Incomplete(MergedAuth(config, r))

MissingContext(config, r) ==
    r.scope = "project" /\ Incomplete(MergedContext(config, r))

\* A stale default is no error if the environment and the flags say it all.
InvalidDefaultProfile(config, r) ==
    /\ r.alias = None /\ StaleDefault(config)
    /\ MissingAuth(config, r) \/ MissingContext(config, r)

\* The errors, in the order in which the code meets them.
Resolution(config, r) ==
    IF ProfileNotFound(config, r) THEN "PROFILE_NOT_FOUND"
    ELSE IF InvalidDefaultProfile(config, r) THEN "INVALID_DEFAULT_PROFILE"
    ELSE IF MissingAuth(config, r) THEN "MISSING_AUTH_CREDENTIALS"
    ELSE IF MissingContext(config, r) THEN "MISSING_REQUEST_CONTEXT"
    ELSE IF ContextRefused(config, r) THEN "INVALID_CONTEXT"
    ELSE "ok"
=============================================================================
