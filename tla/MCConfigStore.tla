--------------------------- MODULE MCConfigStore ---------------------------
(***************************************************************************)
(* Constants of the config runs. Two aliases (1 before 2 in code-unit      *)
(* order), one credential pair saved before, one new one that the API      *)
(* accepts and one that it rejects.                                        *)
(***************************************************************************)
EXTENDS ConfigProperties, Integers

MCAlias == {1, 2}

MCFirstOf(S) == CHOOSE a \in S : \A b \in S : a <= b

MCCred == {"old", "new", "revoked"}

MCValidCred == {"new"}

Saves(projectId, location) ==
    [api_key |-> "old", auth_token |-> "old",
     default_project_id |-> projectId, default_location |-> location]

File(state, profiles, default) ==
    [state |-> state, cfg |-> [profiles |-> profiles, default |-> default]]

NoFile(state) == [state |-> state, cfg |-> EmptyConfig]

OneProfile == File("ok", <<Saves("p1", None), None>>, 1)

TwoProfiles == File("ok", <<Saves("p1", "Delhi"), Saves(None, None)>>, 1)

NoDefault == File("ok", <<None, Saves(None, "Delhi")>>, None)

\* Edited by hand: the default profile has half a context, and a bad one.
MalformedDefault == File("ok", <<Saves("p1", None), Saves(Bad, None)>>, 2)

MCInitialFiles ==
    {NoFile("absent"), NoFile("insecure"), NoFile("corrupt"),
     OneProfile, TwoProfiles, NoDefault}

MCGoodFiles == {NoFile("absent"), OneProfile, TwoProfiles, NoDefault, MalformedDefault}

Nothing == [api_key |-> None, auth_token |-> None, project_id |-> None, location |-> None]

NoFlags == [project_id |-> None, location |-> None]

PlainRequest == [alias |-> None, scope |-> "project", env |-> Nothing, flags |-> NoFlags]

Plain == [op |-> "list", alias |-> 1, secrets |-> <<None, None>>,
          pid |-> None, loc |-> None, default |-> None,
          force |-> FALSE, canPrompt |-> FALSE, request |-> PlainRequest]

Api(r) == [Plain EXCEPT !.op = "api", !.request = r]

\* With and without --alias, with and without variables and flags; the last
\* but one mixes a variable with a saved token, the last one is malformed.
ApiCommands ==
    {Api(PlainRequest),
     Api([PlainRequest EXCEPT !.scope = "account"]),
     Api([PlainRequest EXCEPT !.alias = 2, !.flags.project_id = "p1"]),
     Api([PlainRequest EXCEPT !.flags = [project_id |-> "p2", location |-> "Delhi"]]),
     Api([PlainRequest EXCEPT !.scope = "account", !.env.api_key = "new",
                              !.env.project_id = Bad]),
     Api([PlainRequest EXCEPT !.env = [api_key |-> "old", auth_token |-> "new",
                                       project_id |-> Bad, location |-> "Delhi"]])}

ImportOf(secrets) == [Plain EXCEPT !.op = "import", !.secrets = secrets]

On(op, alias) == [Plain EXCEPT !.op = op, !.alias = alias]

ProfileCommands ==
    {Plain} \cup {On(op, a) : op \in {"remove", "set-default"}, a \in MCAlias}
      \cup {[On("set-context", 1) EXCEPT !.pid = "p2"],
            [On("set-context", 2) EXCEPT !.loc = "Delhi"],
            [On("set-context", 2) EXCEPT !.loc = Bad]}

ImportCommands ==
    {ImportOf(<<None, None>>),
     ImportOf(<<"new", None>>),
     ImportOf(<<"new", "revoked">>),
     [ImportOf(<<None, "new">>) EXCEPT !.force = TRUE, !.default = 2],
     [ImportOf(<<None, "new">>) EXCEPT !.force = TRUE, !.default = 1],
     [ImportOf(<<"new", "new">>) EXCEPT !.force = TRUE, !.pid = "p2"],
     [ImportOf(<<"new", "new">>) EXCEPT !.canPrompt = TRUE]}

MCCommands == ProfileCommands \cup ImportCommands \cup ApiCommands

\* For two processes at once: what writes, and two API commands.
MCRacingCommands ==
    {On("remove", 1), On("set-default", 2),
     [On("set-context", 1) EXCEPT !.pid = "p2"], [On("set-context", 2) EXCEPT !.loc = Bad],
     ImportOf(<<"new", None>>), ImportOf(<<"new", "revoked">>),
     [ImportOf(<<None, "new">>) EXCEPT !.force = TRUE, !.default = 1],
     [ImportOf(<<"new", "new">>) EXCEPT !.canPrompt = TRUE],
     Api(PlainRequest),
     Api([PlainRequest EXCEPT !.scope = "account", !.env.api_key = "new"])}

\* One command of each kind, for the overwrite run.
MCFewCommands ==
    {On("remove", 1), On("set-default", 2), [On("set-context", 1) EXCEPT !.pid = "p2"],
     ImportOf(<<"new", None>>),
     [ImportOf(<<None, "new">>) EXCEPT !.force = TRUE, !.default = 1],
     [ImportOf(<<"new", "new">>) EXCEPT !.canPrompt = TRUE]}
=============================================================================
