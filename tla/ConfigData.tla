----------------------------- MODULE ConfigData -----------------------------
(***************************************************************************)
(* The contents of ~/.e2e/config.json and the pure functions src/src/config*)
(* computes on them: saved profiles keyed by alias, and one default alias. *)
(* Strings are abstracted to members of small sets; None stands for an     *)
(* absent optional field, Bad for a flag, prompt or saved value that the   *)
(* validation functions reject.                                            *)
(***************************************************************************)

CONSTANTS
    Alias,       \* profile aliases
    Cred,        \* identities of credential pairs (api key + auth token)
    ProjectId,   \* numeric project ids
    Location,    \* the members of VALID_LOCATIONS
    None,        \* an absent optional value
    Bad,         \* a value that validateOptionalContextDefaults rejects
    FirstOf(_)   \* the first of a set of aliases in code-unit order

ASSUME DataAssumption ==
    /\ None \notin Alias /\ None \notin Cred
    /\ None \notin ProjectId /\ None \notin Location
    /\ Bad # None /\ Bad \notin ProjectId /\ Bad \notin Location
    /\ \A S \in SUBSET Alias : S # {} => FirstOf(S) \in S

(***************************************************************************)
(* A profile holds the two secrets and the optional request context. Every *)
(* command validates the context it saves, but `read` does not look at it: *)
(* readOptionalProfileField takes any string, and a file that was edited   *)
(* by hand may hold a project id or location that is malformed (Bad).      *)
(***************************************************************************)
Profile == [api_key : Cred, auth_token : Cred,
            default_project_id : ProjectId \cup {None, Bad},
            default_location : Location \cup {None, Bad}]

Config == [profiles : [Alias -> Profile \cup {None}],
           default : Alias \cup {None}]

ASSUME ProfileAssumption == None \notin Profile

EmptyConfig == [profiles |-> [a \in Alias |-> None], default |-> None]

Saved(config) == {a \in Alias : config.profiles[a] # None}

(***************************************************************************)
(* ConfigStore.removeProfile: removing the default alias promotes the first*)
(* remaining alias, any other removal leaves the default alone.            *)
(***************************************************************************)
FirstProfileAlias(aliases) == IF aliases = {} THEN None ELSE FirstOf(aliases)

\* A faulty variant: the default survives the removal of its profile.
WithoutProfileKeepingDefault(config, alias) ==
    [config EXCEPT !.profiles[alias] = None]

WithoutProfile(config, alias) ==
    [profiles |-> [config.profiles EXCEPT ![alias] = None],
     default  |-> IF config.default = alias
                  THEN FirstProfileAlias(Saved(config) \ {alias})
                  ELSE config.default]

\* ConfigStore.setDefault: it does not look at the profiles.
WithDefault(config, alias) == [config EXCEPT !.default = alias]

\* An optional value given on the command line or, failing that, the old one.
Override(new, old) == IF new = None THEN old ELSE new

\* A faulty variant: what the patch does not name is cleared.
ReplacedContext(profile, projectId, location) ==
    [profile EXCEPT !.default_project_id = projectId, !.default_location = location]

\* ConfigStore.updateProfile, on an alias that is still saved.
PatchedProfile(profile, projectId, location) ==
    [profile EXCEPT !.default_project_id = Override(projectId, @),
                    !.default_location   = Override(location, @)]

WithContext(config, alias, projectId, location) ==
    [config EXCEPT !.profiles[alias] = PatchedProfile(@, projectId, location)]

(***************************************************************************)
(* The config an import writes: imported secrets on top of the context the *)
(* alias already had (preserveExistingProfileContext), the shared defaults *)
(* on top of that (applyImportedDefaults), every other profile as it was.  *)
(***************************************************************************)
\* A faulty variant: the context the alias had is forgotten.
ImportedProfileWithoutContext(old, cred, projectId, location) ==
    [api_key |-> cred, auth_token |-> cred,
     default_project_id |-> projectId, default_location |-> location]

ImportedProfile(old, cred, projectId, location) ==
    [api_key            |-> cred,
     auth_token         |-> cred,
     default_project_id |-> Override(projectId,
                              IF old = None THEN None ELSE old.default_project_id),
     default_location   |-> Override(location,
                              IF old = None THEN None ELSE old.default_location)]

WithImport(config, secrets, projectId, location, alias) ==
    [profiles |-> [a \in Alias |->
                     IF secrets[a] = None THEN config.profiles[a]
                     ELSE ImportedProfile(config.profiles[a], secrets[a],
                                          projectId, location)],
     default  |-> Override(alias, config.default)]
=============================================================================
