-------------------------- MODULE MCSupportTickets --------------------------
(***************************************************************************)
(* Constants of the ticket runs: three runners for lists of up to four     *)
(* replies, and the command lines of `create` that differ for the service. *)
(***************************************************************************)
EXTENDS SupportTicketProperties

MCProc == 0 .. Limit

Line(op) ==
    [op |-> op, target |-> "t", category |-> None, component |-> None,
     priority |-> None, resources |-> FALSE]

Creations ==
    {[Line("create") EXCEPT !.category = category, !.component = component,
                            !.priority = priority, !.resources = resources] :
        category \in {"Billing", "Cloud", "Network", "Sales"},
        component \in {None, "component"}, priority \in {None, "High"},
        resources \in BOOLEAN}

MCCommandLines ==
    Creations \cup {Line(op) : op \in {"reply", "close", "reopen", "get", "list",
                                       "timeline", "departments", "get-replies"}}

Reply(id, isCut) == [id |-> id, cut |-> isCut]

MCReplyLists ==
    {<<>>, <<Reply("a", TRUE)>>,
     <<Reply("a", TRUE), Reply("b", FALSE), Reply("c", TRUE)>>,
     <<Reply("a", FALSE), Reply("b", TRUE), Reply("c", TRUE), Reply("d", TRUE)>>}
=============================================================================
