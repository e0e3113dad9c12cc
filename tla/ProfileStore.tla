---------------------------- MODULE ProfileStore ----------------------------
(***************************************************************************)
(* What `e2ectl config` promises a user who runs one command at a time: a  *)
(* set of saved profiles and a default alias that change only by whole     *)
(* commands. There are no processes, files or readings here; each action   *)
(* says what may differ between the profiles before and after one command. *)
(***************************************************************************)
CONSTANTS Alias, Profile, None, Bad

VARIABLES profiles, default

Saved == {a \in Alias : profiles[a] # None}

SavedNext == {a \in Alias : profiles'[a] # None}

Init ==
    /\ profiles \in [Alias -> Profile \cup {None}]
    /\ default \in Saved \cup {None}

SameSecrets(p, q) == p.api_key = q.api_key /\ p.auth_token = q.auth_token

\* No field of the context is lost or spoilt: it is kept, or a value is set
\* that is well formed.
KeepsContext(old, new) ==
    /\ new.default_project_id \in {None, Bad}
          => new.default_project_id = old.default_project_id
    /\ new.default_location \in {None, Bad}
          => new.default_location = old.default_location

(***************************************************************************)
(* The aliases in S get new secrets. A context one of them had is kept or  *)
(* replaced by a value that all of S get; the default stays as it was or   *)
(* becomes one of S.                                                       *)
(***************************************************************************)
Import(S) ==
    /\ S # {}
    /\ SavedNext = Saved \cup S
    /\ \A a \in Alias \ S : profiles'[a] = profiles[a]
    /\ \A a \in S \cap Saved :
         /\ KeepsContext(profiles[a], profiles'[a])
         /\ profiles'[a].default_project_id # profiles[a].default_project_id
              => \A b \in S : profiles'[b].default_project_id
                                = profiles'[a].default_project_id
         /\ profiles'[a].default_location # profiles[a].default_location
              => \A b \in S : profiles'[b].default_location
                                = profiles'[a].default_location
    /\ \A a \in S \ Saved :
         profiles'[a].default_project_id # Bad /\ profiles'[a].default_location # Bad
    /\ default' \in S \cup {default}

\* One profile goes. Its alias is no longer the default; another one becomes
\* the default if there is one.
Remove(a) ==
    /\ a \in Saved
    /\ SavedNext = Saved \ {a}
    /\ \A b \in SavedNext : profiles'[b] = profiles[b]
    /\ default # a => default' = default
    /\ default = a /\ SavedNext # {} => default' \in SavedNext
    /\ default = a /\ SavedNext = {} => default' = None

\* The context of one profile changes, and nothing else.
SetContext(a) ==
    /\ a \in Saved
    /\ SavedNext = Saved
    /\ \A b \in Alias \ {a} : profiles'[b] = profiles[b]
    /\ SameSecrets(profiles[a], profiles'[a])
    /\ KeepsContext(profiles[a], profiles'[a])
    /\ default' = default

SetDefault(a) ==
    /\ a \in Saved
    /\ profiles' = profiles
    /\ default' = a

Next ==
    \/ \E S \in SUBSET Alias : Import(S)
    \/ \E a \in Alias : Remove(a) \/ SetContext(a) \/ SetDefault(a)

Spec == Init /\ [][Next]_<<profiles, default>>

\* The saved default is always the alias of a saved profile.
DefaultIsSaved == default \in Saved \cup {None}
=============================================================================
