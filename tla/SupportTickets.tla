--------------------------- MODULE SupportTickets ---------------------------
(***************************************************************************)
(* SupportTicketService, one command of it. Most commands send one request *)
(* after the other from the main line of the process. `get-replies` reads  *)
(* the list of replies and then loads the text of those that the list cuts *)
(* off, several at a time: mapWithConcurrency starts runners that take the *)
(* next reply whenever they have finished one. A runner runs from one      *)
(* `await` to the next without interruption.                               *)
(***************************************************************************)
EXTENDS Transport, Sequences

CONSTANTS
    Limit,        \* THREAD_EXPANSION_CONCURRENCY
    CommandLines, \* what the process may be asked to do
    ReplyLists    \* the lists of replies that the API may return

\* The empty text.
Empty == "empty"

Main == 0

Runner == 1 .. Limit

Item(id, of, whole, complete) ==
    [id |-> id, of |-> of, whole |-> whole, complete |-> complete]

ReplyIds == UNION {{list[i].id : i \in DOMAIN list} : list \in ReplyLists}

\* What get-replies may show for a reply: its id, whose text, and how much.
Items == [id : ReplyIds, of : ReplyIds, whole : BOOLEAN, complete : BOOLEAN]

\* A blank component counts as none (normalizeOptionalString).
TicketAssumption ==
    /\ None \notin Items
    /\ \A line \in CommandLines : line.component # Empty
    /\ Limit \in Nat \ {0}
    /\ Proc = 0 .. Limit
    /\ \A list \in ReplyLists :
         /\ Len(list) \in Nat /\ DOMAIN list = 1 .. Len(list)
         /\ \A i \in DOMAIN list : list[i].cut \in BOOLEAN

ASSUME TicketAssumption

VARIABLES
    pc,        \* where the main line of the command is
    cmd,       \* the command line
    outcome,   \* how the command ended
    report,    \* what it has found out, and reports if it succeeds
    threads,   \* the replies in the order of the list
    nextIndex, \* the first reply that no runner has taken
    current,   \* current[r]: the reply that runner r works on, 0 for none
    results,   \* results[i]: what is shown for the i-th reply
    applied    \* the changes that the API has made (history)

workVars == <<threads, nextIndex, current, results>>

vars == <<transportVars, pc, cmd, outcome, report, workVars, applied>>

Missing == None

Init ==
    /\ TransportInit
    /\ cmd \in CommandLines /\ pc = "ready"
    /\ outcome = "none" /\ report = None
    /\ threads = <<>> /\ results = <<>> /\ nextIndex = 1
    /\ current = [r \in Runner |-> 0]
    /\ applied = <<>>

Ask(label, request) ==
    /\ Send(Main, request)
    /\ pc' = label
    /\ UNCHANGED <<cmd, outcome, workVars, applied>>

\* The runners, if there are any, end with the process.
End(result) ==
    /\ pc' = "end" /\ outcome' = result
    /\ call' = [p \in Proc |-> NoCall]
    /\ UNCHANGED <<wire, cmd, workVars, applied>>

Succeed(value) == End("ok") /\ report' = value

Fail == End("error") /\ UNCHANGED report

Begins(ops) == pc = "ready" /\ cmd.op \in ops

\* Faulty input, a file that cannot be read or attached, no credentials.
Reject == pc = "ready" /\ Fail

Uncaught ==
    /\ pc \in {"create", "comment", "read", "replies"}
    /\ Has(Main, "timeout") \/ Has(Main, "failed")
    /\ Fail

Kill == pc # "end" /\ End("killed") /\ UNCHANGED report

-----------------------------------------------------------------------------
\* createTicket: what each category requires, and what is sent for it.
NeedsTriage(category) == category \in {"Billing", "Cloud"}

\* A faulty variant: the options are taken as they were typed.
BodyAsTyped(line) ==
    [category |-> line.category, component |-> line.component,
     priority |-> line.priority, resources |-> line.resources]

IsAccepted(line) ==
    /\ NeedsTriage(line.category) =>
         line.component # None /\ line.priority # None
    /\ line.resources => line.category = "Cloud"

Body(line) ==
    [category |-> line.category,
     component |-> IF line.category = "Sales" THEN Empty ELSE line.component,
     priority |-> IF line.category = "Sales" THEN None ELSE line.priority,
     resources |-> line.category = "Cloud" /\ line.resources]

CreateTicket ==
    /\ Begins({"create"}) /\ IsAccepted(cmd)
    /\ Ask("create", Request("POST", "tickets", Body(cmd)))
    /\ UNCHANGED report

\* The ticket is there; its details are read for the report.
TicketCreated ==
    /\ pc = "create" /\ Has(Main, "ok")
    /\ Ask("detail", Request("GET", "ticket", Value(Main)))
    /\ report' = [ticket |-> Value(Main), detailed |-> FALSE]

\* A faulty variant: the details are awaited outside of the `try`.
DetailReadOrThrown ==
    /\ pc = "detail" /\ call[Main].state = "done"
    /\ IF Has(Main, "ok") THEN Succeed([report EXCEPT !.detailed = TRUE])
       ELSE Fail

DetailRead ==
    /\ pc = "detail" /\ call[Main].state = "done"
    /\ Succeed([report EXCEPT !.detailed = Has(Main, "ok")])

\* reply, close, reopen: one request that posts a comment.
Comment ==
    /\ Begins({"reply", "close", "reopen"})
    /\ Ask("comment", Request("POST", cmd.op, cmd.target))
    /\ UNCHANGED report

\* get, list, timeline, departments: one request that reads.
Read ==
    /\ Begins({"get", "list", "timeline", "departments"})
    /\ Ask("read", Request("GET", cmd.op, cmd.target))
    /\ UNCHANGED report

RequestDone ==
    /\ pc \in {"comment", "read"} /\ Has(Main, "ok")
    /\ Succeed(cmd.target)

-----------------------------------------------------------------------------
\* getReplies and mapWithConcurrency.
ListReplies ==
    /\ Begins({"get-replies"})
    /\ Ask("replies", Request("GET", "replies", cmd.target))
    /\ UNCHANGED report

\* A faulty variant: the text of every reply is asked for.
WorkOnAll(thread) ==
    Call("sent", Request("GET", "thread", thread.id), 1, None)

\* What `worker` does first: it asks for the text of a reply that was cut.
WorkOn(thread) ==
    IF thread.cut THEN Call("sent", Request("GET", "thread", thread.id), 1, None)
    ELSE NoCall

AtWork(list, n) == {r \in Runner : r <= n /\ r <= Len(list)}

\* The first replies go to the runners in the order in which they start.
RepliesListed ==
    /\ pc = "replies" /\ Has(Main, "ok")
    /\ pc' = "loading"
    /\ threads' = Value(Main)
    /\ results' = [i \in DOMAIN threads' |-> Missing]
    /\ LET busy == AtWork(threads', Limit) IN
         /\ current' = [r \in Runner |-> IF r \in busy THEN r ELSE 0]
         /\ nextIndex' = IF Len(threads') < Limit THEN Len(threads') + 1
                         ELSE Limit + 1
         /\ call' = [p \in Proc |->
                       IF p \in busy THEN WorkOn(threads'[p]) ELSE NoCall]
    /\ UNCHANGED <<wire, cmd, outcome, report, applied>>

\* What runner r shows for its reply: the text that was loaded, or the one of
\* the list if nothing was cut, or nothing was loaded, or it was empty.
Shown(r) ==
    LET thread == threads[current[r]] IN
    IF Has(r, "ok") /\ Value(r).text
    THEN Item(thread.id, Value(r).of, TRUE, TRUE)
    ELSE Item(thread.id, thread.id, ~thread.cut, ~thread.cut)

\* A faulty variant: the result goes where the next reply is.
PlaceShared(r) == nextIndex - 1

Place(r) == current[r]

\* A faulty variant: a runner goes on only after a request that succeeded.
IsReadyIfOk(r) == current[r] # 0 /\ (call[r] = NoCall \/ Has(r, "ok"))

IsReady(r) == current[r] # 0 /\ call[r].state # "sent"

\* Runner r stores its result and takes the next reply, or ends.
Resume(r) ==
    /\ pc = "loading" /\ IsReady(r)
    /\ results' = [results EXCEPT ![Place(r)] = Shown(r)]
    /\ IF nextIndex <= Len(threads)
       THEN /\ current' = [current EXCEPT ![r] = nextIndex]
            /\ nextIndex' = nextIndex + 1
            /\ call' = [call EXCEPT ![r] = WorkOn(threads[nextIndex])]
       ELSE /\ current' = [current EXCEPT ![r] = 0]
            /\ call' = [call EXCEPT ![r] = NoCall]
            /\ UNCHANGED nextIndex
    /\ UNCHANGED <<wire, pc, cmd, outcome, report, threads, applied>>

\* Promise.all: every runner has ended. The warning counts what is incomplete.
RepliesShown ==
    /\ pc = "loading" /\ \A r \in Runner : current[r] = 0
    /\ Succeed({i \in DOMAIN threads : ~results[i].complete})

-----------------------------------------------------------------------------
\* The API (external).
Unchanged == UNCHANGED <<pc, cmd, outcome, report, workVars, applied>>

AnswerReplies ==
    \E list \in ReplyLists : AnswerGet(Main, "replies", list) /\ Unchanged

\* The text of a reply, which may be empty.
AnswerThread(r) ==
    /\ \E text \in BOOLEAN :
         AnswerGet(r, "thread", [of |-> call[r].request.arg, text |-> text])
    /\ Unchanged

AnswerRead ==
    /\ \E path \in {"ticket", "get", "list", "timeline", "departments"} :
         AnswerGet(Main, path, None)
    /\ Unchanged

\* A ticket is made or a comment posted, perhaps after the process gave up.
Apply ==
    /\ \E m \in wire[Main] :
         /\ Take(Main, m, Len(applied) + 1)
         /\ applied' = Append(applied, m.request)
    /\ UNCHANGED <<pc, cmd, outcome, report, workVars>>

-----------------------------------------------------------------------------
MainStep ==
    \/ CreateTicket \/ TicketCreated \/ DetailRead \/ Comment \/ Read
    \/ RequestDone \/ ListReplies \/ RepliesListed \/ RepliesShown
    \/ Reject \/ Uncaught

ProcessStep(p) ==
    \/ p = Main /\ MainStep
    \/ p \in Runner /\ Resume(p)
    \/ TransportStep(p) /\ Unchanged

ApiStep ==
    \/ AnswerReplies \/ AnswerRead \/ Apply
    \/ \E r \in Runner : AnswerThread(r)
    \/ Lose(Main) /\ Unchanged

Next == (\E p \in Proc : ProcessStep(p)) \/ ApiStep \/ Kill

Spec == Init /\ [][Next]_vars

\* Callbacks are run and timers fire; the API need not answer.
FairSpec == Spec /\ \A p \in Proc : WF_vars(ProcessStep(p))
=============================================================================
