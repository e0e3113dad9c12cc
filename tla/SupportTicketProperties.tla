---------------------- MODULE SupportTicketProperties ----------------------
(***************************************************************************)
(* What the support-ticket commands must keep true.                        *)
(***************************************************************************)
EXTENDS SupportTickets

TypeOK ==
    /\ pc \in {"ready", "create", "detail", "comment", "read", "replies",
               "loading", "end"}
    /\ outcome \in {"none", "ok", "error", "killed"}
    /\ (outcome = "none") <=> (pc # "end")
    /\ nextIndex \in 1 .. Len(threads) + 1
    /\ DOMAIN results = DOMAIN threads
    /\ \A r \in Runner :
         /\ current[r] \in 0 .. nextIndex - 1
         /\ call[r].state # "none" => current[r] # 0 /\ threads[current[r]].cut

\* However the replies are spread over the runners, and whatever becomes of
\* their requests, `get-replies` shows what ReplyMap promises: each reply once,
\* at its place, with its own text, and none cut without being counted.
PhaseOfReplies ==
    IF pc = "loading" THEN "loading"
    ELSE IF pc = "end" /\ cmd.op = "get-replies"
         THEN (IF outcome = "ok" THEN "shown" ELSE "failed")
         ELSE "listing"

CutReplies == IF PhaseOfReplies = "shown" THEN report ELSE {}

Map == INSTANCE ReplyMap WITH phase <- PhaseOfReplies, cut <- CutReplies

ImplementsReplyMap == Map!Spec

Changes == {"create", "reply", "close", "reopen"}

\* A command that changes something succeeds only if the API made exactly this
\* one change, and a ticket that the command knows to be made is reported with
\* its id even if its details cannot be read.
ExitTellsTruth ==
    cmd.op \in Changes =>
        /\ outcome = "ok" => Len(applied) = 1
        /\ outcome = "ok" /\ cmd.op = "create" => report.ticket = 1
        /\ outcome = "error" => report = None

\* Whatever is typed, the tickets of a category carry the fields that belong to
\* it: only Cloud tickets name resources, Billing and Cloud tickets have a
\* component and a priority, Sales tickets neither.
TicketsAreWellFormed ==
    \A i \in DOMAIN applied : applied[i].path = "tickets" =>
        LET ticket == applied[i].arg IN
        /\ ticket.resources => ticket.category = "Cloud"
        /\ ticket.category \in {"Billing", "Cloud"} =>
             ticket.component \notin {None, Empty} /\ ticket.priority # None
        /\ ticket.category = "Sales" =>
             ticket.component = Empty /\ ticket.priority = None

\* Every command ends, with as many runners as there are, although the API may
\* never answer any of their requests.
EveryCommandEnds == <>(pc = "end")
=============================================================================
