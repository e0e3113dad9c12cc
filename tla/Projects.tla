------------------------------ MODULE Projects ------------------------------
(***************************************************************************)
(* ProjectService: create, list, star and unstar. A star needs the name of *)
(* the project, which the command finds in the list of projects first.     *)
(***************************************************************************)
EXTENDS CliCommand

CONSTANTS
    OldProjects, \* the projects at first: a function from ids to what Project makes
    NewProjects  \* ids the API gives to new projects

VARIABLES projects \* the projects of the API

ProjectsInit == projects = OldProjects

Project(name, starred) == [name |-> name, starred |-> starred]

-----------------------------------------------------------------------------
CreateProject(p) ==
    /\ Begins(p, "project-create")
    /\ Ask(p, "project-made", Request("POST", "projects", cmd[p].name))

ProjectMade(p) == pc[p] = "project-made" /\ Has(p, "ok") /\ Succeed(p, Value(p))

ReadProjects(p) ==
    /\ pc[p] = "ready" /\ cmd[p].op \in {"project-list", "project-star", "project-unstar"}
    /\ Ask(p, "project-read", Request("GET", "projects", None))

ProjectsRead(p) == pc[p] = "project-read" /\ Has(p, "ok")

ProjectsShown(p) ==
    ProjectsRead(p) /\ cmd[p].op = "project-list" /\ Succeed(p, Value(p))

\* PROJECT_NOT_FOUND
ProjectUnknown(p) ==
    /\ ProjectsRead(p) /\ cmd[p].op # "project-list"
    /\ cmd[p].target \notin DOMAIN Value(p) /\ Fail(p)

StarProject(p) ==
    /\ ProjectsRead(p) /\ cmd[p].op # "project-list"
    /\ cmd[p].target \in DOMAIN Value(p)
    /\ Ask(p, "change",
           Request("PUT", "projects",
                   [id |-> cmd[p].target, name |-> Value(p)[cmd[p].target].name,
                    starred |-> cmd[p].op = "project-star"]))

-----------------------------------------------------------------------------
(* The API (external).                                                     *)

MakeProject(p) ==
    /\ \E m \in wire[p], r \in NewProjects :
         /\ m.request.path = "projects" /\ m.request.method = "POST"
         /\ \A q \in Proc : r \notin created[q]
         /\ Take(p, m, r)
         /\ projects' = [k \in DOMAIN projects \cup {r} |->
                           IF k = r THEN Project(m.request.arg, FALSE)
                           ELSE projects[k]]
         /\ created' = [created EXCEPT ![p] = @ \cup {r}]
    /\ UNCHANGED <<progressVars, disturbed>>

MarkProject(p) ==
    /\ \E m \in wire[p] :
         /\ m.request.path = "projects" /\ m.request.method = "PUT"
         /\ m.request.arg.id \in DOMAIN projects
         /\ Take(p, m, None)
         /\ projects' = [projects EXCEPT ![m.request.arg.id].starred =
                            m.request.arg.starred]
    /\ UNCHANGED commandVars

AnswerProjects(p) ==
    AnswerGet(p, "projects", projects) /\ UNCHANGED <<commandVars, projects>>

-----------------------------------------------------------------------------
ProjectStep(p) ==
    /\ \/ CreateProject(p) \/ ProjectMade(p) \/ ReadProjects(p)
       \/ ProjectsShown(p) \/ ProjectUnknown(p) \/ StarProject(p)
       \/ Uncaught(p, {"project-made", "project-read"})
    /\ UNCHANGED projects

ProjectApi(p) == MakeProject(p) \/ MarkProject(p) \/ AnswerProjects(p)
=============================================================================
