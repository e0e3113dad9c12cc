------------------------ MODULE SupportTicketProofs ------------------------
(***************************************************************************)
(* The worker pool of `get-replies` implements ReplyMap, for any number of *)
(* runners and any lists of replies; every ticket is well formed, whatever *)
(* is typed; and the exit code agrees with what the API did.               *)
(***************************************************************************)
EXTENDS SupportTicketProperties, SequenceTheorems, TLAPS

-----------------------------------------------------------------------------
(* The inductive invariant of the pool.                                    *)

\* The state of a command fits its kind, and nothing is shown before the list
\* of replies was read.
ControlInv ==
    /\ DOMAIN call = Proc
    /\ pc \in {"ready", "create", "detail", "comment", "read", "replies",
               "loading", "end"}
    /\ pc \in {"replies", "loading"} => cmd.op = "get-replies"
    /\ pc \in {"create", "detail", "comment", "read"} => cmd.op # "get-replies"
    /\ pc \notin {"loading", "end"} => threads = <<>> /\ results = <<>>

\* The main line waits for the list, which is one that the API may return.
ListInv ==
    pc = "replies" =>
        /\ call[Main].state \in {"sent", "done"}
        /\ call[Main].request = Request("GET", "replies", cmd.target)
        /\ Has(Main, "ok") => Value(Main) \in ReplyLists

\* A runner works on a reply that nobody else works on and that has no result;
\* what it waits for, or got, is the text of this reply.
RunnerInv(r) ==
    /\ current[r] \in 0 .. nextIndex - 1
    /\ current[r] = 0 => nextIndex = Len(threads) + 1
    /\ current[r] # 0 =>
         /\ results[current[r]] = Missing
         /\ \A s \in Runner : current[s] = current[r] => s = r
         /\ call[r].state # "none" =>
              call[r].request.arg = threads[current[r]].id
         /\ Has(r, "ok") => Value(r).of = threads[current[r]].id

\* The result of a reply is one it may have, and a reply without a result is
\* still to be taken, or a runner works on it.
ResultInv(i) ==
    /\ results[i] # Missing =>
         results[i] \in Items /\ results[i].complete = results[i].whole
    /\ i >= nextIndex => results[i] = Missing
    /\ i < nextIndex /\ results[i] = Missing => \E r \in Runner : current[r] = i

LoadInv ==
    /\ threads \in ReplyLists
    /\ DOMAIN results = DOMAIN threads
    /\ nextIndex \in 1 .. Len(threads) + 1
    /\ DOMAIN current = Runner
    /\ \A r \in Runner : RunnerInv(r)
    /\ \A i \in DOMAIN threads : ResultInv(i)

\* Only changes are on the wire: no answer to a GET comes from there.
WireInv ==
    /\ DOMAIN wire = Proc
    /\ \A p \in Proc : \A m \in wire[p] : m.request.method # "GET"

PoolInv ==
    /\ ControlInv /\ ListInv /\ WireInv
    /\ DOMAIN current = Runner
    /\ pc = "loading" => LoadInv

LEMMA PoolInit == Init => PoolInv
<1> SUFFICES ASSUME Init PROVE PoolInv
  OBVIOUS
<1>1. ControlInv
  BY DEF Init, TransportInit, ControlInv
<1>2. WireInv
  BY DEF Init, TransportInit, WireInv
<1> QED BY <1>1, <1>2 DEF Init, PoolInv, ListInv

-----------------------------------------------------------------------------
(* Steps of the transport and of the API.                                  *)

\* The main line is no runner.
LEMMA Threads ==
    /\ Limit \in Nat \ {0} /\ Main \in Proc /\ Main \notin Runner
    /\ Proc = Runner \cup {Main} /\ 1 \in Runner
BY TicketAssumption DEF TicketAssumption, Main, Runner

LEMMA WireKept ==
    ASSUME WireInv, NEW p \in Proc, NEW request, NEW attempt,
           wire' = OnWire(p, request, attempt) \/ wire' = wire
    PROVE  WireInv'
BY DEF WireInv, OnWire, Message

LEMMA WireLess ==
    ASSUME WireInv, NEW p \in Proc, NEW S, wire' = [wire EXCEPT ![p] = @ \ S]
    PROVE  WireInv'
BY DEF WireInv

\* A request is sent again or comes to its end, and nothing else happens.
LEMMA CallKept ==
    ASSUME PoolInv, UNCHANGED <<pc, cmd, workVars>>, WireInv',
           NEW p \in Proc, call[p].state = "sent",
           NEW c, call' = [call EXCEPT ![p] = c],
           c.state \in {"sent", "done"}, c.request = call[p].request,
           c.state = "done" /\ c.reply.status = "ok" =>
              /\ p = Main /\ pc = "replies" => c.reply.value \in ReplyLists
              /\ p \in Runner /\ pc = "loading" =>
                   c.reply.value.of = c.request.arg
    PROVE  PoolInv'
<1>1. ControlInv'
  BY DEF PoolInv, ControlInv, workVars
<1>2. ListInv'
  BY Threads DEF PoolInv, ControlInv, ListInv, Has, Value
<1>3. DOMAIN current' = Runner
  BY DEF PoolInv, workVars
<1>4. ASSUME pc' = "loading" PROVE LoadInv'
  <2>1. LoadInv /\ pc = "loading" /\ UNCHANGED <<threads, results, nextIndex, current>>
    BY <1>4 DEF PoolInv, workVars
  <2>2. ASSUME NEW r \in Runner PROVE RunnerInv(r)'
    <3>1. RunnerInv(r)
      BY <2>1 DEF LoadInv
    <3>2. CASE r # p
      <4>1. call'[r] = call[r]
        BY <3>2, Threads DEF PoolInv, ControlInv
      <4> QED BY <2>1, <3>1, <4>1 DEF RunnerInv, Has, Value, Missing
    <3>3. CASE r = p
      <4>1. call'[r] = c
        BY <3>3 DEF PoolInv, ControlInv
      <4>2. current[r] # 0 => c.request.arg = threads[current[r]].id
        BY <3>1, <3>3 DEF RunnerInv
      <4> QED BY <2>1, <3>1, <3>3, <4>1, <4>2 DEF RunnerInv, Has, Value, Missing
    <3> QED BY <3>2, <3>3
  <2>3. ASSUME NEW i \in DOMAIN threads PROVE ResultInv(i)'
    BY <2>1, <2>3 DEF LoadInv, ResultInv, Missing
  <2> QED BY <2>1, <2>2, <2>3 DEF LoadInv
<1> QED BY <1>1, <1>2, <1>3, <1>4 DEF PoolInv

LEMMA FrameKept ==
    ASSUME PoolInv, UNCHANGED <<pc, cmd, workVars, call>>, WireInv'
    PROVE  PoolInv'
<1> USE DEF workVars
<1>1. ControlInv' /\ ListInv' /\ DOMAIN current' = Runner
  BY DEF PoolInv, ControlInv, ListInv, Has, Value
<1>2. ASSUME pc' = "loading" PROVE LoadInv'
  BY <1>2 DEF PoolInv, LoadInv, RunnerInv, ResultInv, Has, Value, Missing
<1> QED BY <1>1, <1>2 DEF PoolInv

LEMMA TransportKeeps ==
    ASSUME PoolInv, NEW p \in Proc, TransportStep(p), Unchanged
    PROVE  PoolInv'
<1>1. UNCHANGED <<pc, cmd, workVars>> /\ WireInv
  BY DEF Unchanged, PoolInv
<1>2. ASSUME NEW status \in {"timeout", "failed"}, AttemptFails(p, status)
      PROVE  PoolInv'
  <2>1. CASE call[p].attempt < MaxAttempts(call[p].request.method)
    <3> DEFINE c == Call("sent", call[p].request, call[p].attempt + 1, None)
    <3>1. call[p].state = "sent" /\ call' = [call EXCEPT ![p] = c]
      BY <1>2, <2>1 DEF AttemptFails
    <3>2. WireInv'
      BY <1>1, <1>2, <2>1, WireKept DEF AttemptFails
    <3>3. c.state = "sent" /\ c.request = call[p].request
      BY DEF Call
    <3> HIDE DEF c
    <3> QED BY <1>1, <3>1, <3>2, <3>3, CallKept
  <2>2. CASE ~(call[p].attempt < MaxAttempts(call[p].request.method))
    <3> DEFINE c == Call("done", call[p].request, call[p].attempt,
                         [status |-> status, value |-> None])
    <3>1. call[p].state = "sent" /\ call' = [call EXCEPT ![p] = c] /\ wire' = wire
      BY <1>2, <2>2 DEF AttemptFails, Finish
    <3>2. WireInv'
      BY <1>1, <3>1, WireKept
    <3>3. c.state = "done" /\ c.request = call[p].request /\ c.reply.status # "ok"
      BY <1>2 DEF Call
    <3> HIDE DEF c
    <3> QED BY <1>1, <3>1, <3>2, <3>3, CallKept
  <2> QED BY <2>1, <2>2
<1>3. ASSUME Refused(p) PROVE PoolInv'
  <2> DEFINE c == Call("done", call[p].request, call[p].attempt,
                       [status |-> "failed", value |-> None])
  <2>1. call[p].state = "sent" /\ call' = [call EXCEPT ![p] = c]
    BY <1>3 DEF Refused, Finish
  <2>2. WireInv'
    BY <1>1, <1>3, WireLess DEF Refused
  <2>3. c.state = "done" /\ c.request = call[p].request /\ c.reply.status # "ok"
    BY DEF Call
  <2> HIDE DEF c
  <2> QED BY <1>1, <2>1, <2>2, <2>3, CallKept
<1> QED BY <1>2, <1>3 DEF TransportStep

LEMMA AnswerKeeps ==
    ASSUME PoolInv, Unchanged, NEW p \in Proc, NEW path, NEW value,
           AnswerGet(p, path, value),
           p = Main /\ pc = "replies" => value \in ReplyLists,
           p \in Runner /\ pc = "loading" => value.of = call[p].request.arg
    PROVE  PoolInv'
<1> DEFINE c == Call("done", call[p].request, call[p].attempt,
                     [status |-> "ok", value |-> value])
<1>1. call[p].state = "sent" /\ call' = [call EXCEPT ![p] = c] /\ wire' = wire
  BY DEF AnswerGet, Waits, Finish
<1>2. UNCHANGED <<pc, cmd, workVars>> /\ WireInv'
  BY <1>1, WireKept DEF Unchanged, PoolInv
<1>3. c.state = "done" /\ c.request = call[p].request /\ c.reply.value = value
  BY DEF Call
<1> HIDE DEF c
<1> QED BY <1>1, <1>2, <1>3, CallKept

LEMMA ApiKeeps == ASSUME PoolInv, ApiStep PROVE PoolInv'
<1>1. ASSUME AnswerReplies PROVE PoolInv'
  BY <1>1, Threads, AnswerKeeps DEF AnswerReplies
<1>2. ASSUME AnswerRead PROVE PoolInv'
  <2>1. PICK path \in {"ticket", "get", "list", "timeline", "departments"} :
          AnswerGet(Main, path, None) /\ Unchanged
    BY <1>2 DEF AnswerRead
  <2>2. pc # "replies"
    BY <2>1 DEF AnswerGet, Waits, PoolInv, ListInv, Request
  <2> QED BY <2>1, <2>2, Threads, AnswerKeeps
<1>3. ASSUME NEW r \in Runner, AnswerThread(r) PROVE PoolInv'
  <2>1. PICK text \in BOOLEAN :
          AnswerGet(r, "thread", [of |-> call[r].request.arg, text |-> text])
    BY <1>3 DEF AnswerThread
  <2>2. Unchanged /\ r \in Proc /\ r # Main
    BY <1>3, Threads DEF AnswerThread
  <2> QED BY <2>1, <2>2, AnswerKeeps
<1>4. ASSUME Apply PROVE PoolInv'
  <2>1. PICK m \in wire[Main] : Take(Main, m, Len(applied) + 1)
    BY <1>4 DEF Apply
  <2>2. UNCHANGED <<pc, cmd, workVars>> /\ WireInv'
    BY <1>4, <2>1, Threads, WireLess DEF Apply, Take, PoolInv
  <2>3. CASE UNCHANGED call
    BY <2>2, <2>3, FrameKept
  <2>4. CASE /\ call[Main].state = "sent"
             /\ m = Message(call[Main].request, call[Main].attempt)
             /\ Finish(Main, "ok", Len(applied) + 1)
    <3> DEFINE c == Call("done", call[Main].request, call[Main].attempt,
                         [status |-> "ok", value |-> Len(applied) + 1])
    <3>1. call' = [call EXCEPT ![Main] = c]
      BY <2>4 DEF Finish
    <3>2. pc # "replies"
      BY <2>1, <2>4, Threads DEF PoolInv, WireInv, ListInv, Request, Message
    <3>3. c.state = "done" /\ c.request = call[Main].request
      BY DEF Call
    <3> HIDE DEF c
    <3> QED BY <2>2, <2>4, <3>1, <3>2, <3>3, Threads, CallKept
  <2> QED BY <2>1, <2>3, <2>4 DEF Take
<1>5. ASSUME Lose(Main), Unchanged PROVE PoolInv'
  <2>1. WireInv'
    BY <1>5, Threads DEF Lose, PoolInv, WireInv
  <2> QED BY <1>5, <2>1, FrameKept DEF Lose, Unchanged
<1> QED BY <1>1, <1>2, <1>3, <1>4, <1>5 DEF ApiStep

-----------------------------------------------------------------------------
(* Steps of the main line and of the runners.                              *)

LEMMA EndKeeps == ASSUME PoolInv, NEW result, End(result) PROVE PoolInv'
<1>1. WireInv' /\ ControlInv' /\ pc' = "end" /\ DOMAIN current' = Runner
  BY DEF End, PoolInv, WireInv, ControlInv, workVars
<1> QED BY <1>1 DEF PoolInv, ListInv

LEMMA AskKeeps ==
    ASSUME PoolInv, NEW label, NEW request, Ask(label, request),
           pc \notin {"loading", "end"},
           \/ label \in {"create", "detail", "comment", "read"} /\ cmd.op # "get-replies"
           \/ /\ label = "replies" /\ cmd.op = "get-replies"
              /\ request = Request("GET", "replies", cmd.target)
    PROVE  PoolInv'
<1> DEFINE c == Call("sent", request, 1, None)
<1>1. /\ call' = [call EXCEPT ![Main] = c] /\ wire' = OnWire(Main, request, 1)
      /\ pc' = label /\ UNCHANGED <<cmd, workVars>>
  BY DEF Ask, Send
<1>2. WireInv'
  BY <1>1, Threads, WireKept DEF PoolInv
<1>3. c.state = "sent" /\ c.request = request
  BY DEF Call
<1> HIDE DEF c
<1>4. ControlInv' /\ DOMAIN current' = Runner
  BY <1>1, Threads DEF PoolInv, ControlInv, workVars
<1>5. ListInv'
  BY <1>1, <1>3, Threads DEF PoolInv, ControlInv, ListInv, Has
<1> QED BY <1>1, <1>2, <1>4, <1>5 DEF PoolInv

LEMMA ListFacts ==
    ASSUME NEW list \in ReplyLists
    PROVE  /\ Len(list) \in Nat /\ DOMAIN list = 1 .. Len(list)
           /\ \A i \in DOMAIN list :
                list[i].id \in ReplyIds /\ list[i].cut \in BOOLEAN
BY TicketAssumption DEF TicketAssumption, ReplyIds

LEMMA WorkOnFacts ==
    ASSUME NEW thread
    PROVE  /\ WorkOn(thread).state \in {"none", "sent"}
           /\ WorkOn(thread).state # "none" => WorkOn(thread).request.arg = thread.id
BY DEF WorkOn, NoCall, Call, Request

LEMMA ListedKeeps == ASSUME PoolInv, RepliesListed PROVE PoolInv'
<1> DEFINE busy == AtWork(threads', Limit)
<1>1. threads' \in ReplyLists
  BY DEF RepliesListed, PoolInv, ListInv
<1>2. /\ pc' = "loading" /\ results' = [i \in DOMAIN threads' |-> Missing]
      /\ current' = [r \in Runner |-> IF r \in busy THEN r ELSE 0]
      /\ nextIndex' = IF Len(threads') < Limit THEN Len(threads') + 1
                      ELSE Limit + 1
      /\ call' = [p \in Proc |-> IF p \in busy THEN WorkOn(threads'[p]) ELSE NoCall]
      /\ UNCHANGED <<wire, cmd>> /\ cmd.op = "get-replies"
  BY DEF RepliesListed, PoolInv, ControlInv
<1>3. Len(threads') \in Nat /\ DOMAIN threads' = 1 .. Len(threads')
  BY <1>1, ListFacts
<1>4. busy = {r \in Runner : r <= Len(threads')}
  BY <1>3, Threads DEF AtWork, Runner
<1> HIDE DEF busy
<1>5. ControlInv' /\ ListInv' /\ DOMAIN current' = Runner
  BY <1>2 DEF ControlInv, ListInv
<1>6. WireInv'
  BY <1>2 DEF PoolInv, WireInv
<1>7. nextIndex' \in 1 .. Len(threads') + 1
  BY <1>2, <1>3, Threads
<1>8. ASSUME NEW r \in Runner PROVE RunnerInv(r)'
  <2>1. r \in Nat /\ r # 0 /\ r <= Limit /\ r \in Proc
    BY Threads DEF Runner
  <2>2. CASE r \in busy
    <3>1. current'[r] = r /\ r \in 1 .. Len(threads') /\ r < nextIndex'
      BY <1>2, <1>3, <1>4, <2>1, <2>2, Threads
    <3>2. results'[r] = Missing
      BY <1>2, <1>3, <3>1
    <3>3. \A s \in Runner : current'[s] = r => s = r
      BY <1>2, <2>1
    <3>4. call'[r] = WorkOn(threads'[r])
      BY <1>2, <2>1, <2>2
    <3> QED BY <1>2, <2>1, <3>1, <3>2, <3>3, <3>4, <1>7, <1>3, WorkOnFacts
            DEF RunnerInv, Has, Missing
  <2>3. CASE r \notin busy
    <3>1. current'[r] = 0 /\ nextIndex' = Len(threads') + 1
      BY <1>2, <1>3, <1>4, <2>1, <2>3, Threads
    <3> QED BY <1>3, <3>1 DEF RunnerInv
  <2> QED BY <2>2, <2>3
<1>9. ASSUME NEW i \in DOMAIN threads' PROVE ResultInv(i)'
  <2>1. results'[i] = Missing
    BY <1>2
  <2>2. ASSUME i < nextIndex' PROVE \E r \in Runner : current'[r] = i
    <3>1. i \in Runner /\ i \in busy
      BY <1>2, <1>3, <1>4, <2>2, Threads DEF Runner
    <3> QED BY <1>2, <3>1
  <2> QED BY <2>1, <2>2 DEF ResultInv, Missing
<1> QED BY <1>1, <1>2, <1>5, <1>6, <1>7, <1>8, <1>9 DEF PoolInv, LoadInv

\* What a runner stores is a result that its reply may have.
LEMMA ShownFits ==
    ASSUME PoolInv, pc = "loading", NEW r \in Runner, current[r] # 0
    PROVE  /\ current[r] \in DOMAIN threads
           /\ Shown(r) \in Map!MayShow(threads[current[r]])
           /\ Shown(r) \in Items /\ Shown(r).complete = Shown(r).whole
           /\ Shown(r) # Missing
<1> DEFINE t == threads[current[r]]
<1>1. threads \in ReplyLists /\ RunnerInv(r) /\ nextIndex \in 1 .. Len(threads) + 1
  BY DEF PoolInv, LoadInv
<1>2. current[r] \in DOMAIN threads
  BY <1>1, ListFacts DEF RunnerInv
<1>3. t.id \in ReplyIds /\ t.cut \in BOOLEAN
  BY <1>1, <1>2, ListFacts
<1>4. Has(r, "ok") => Value(r).of = t.id
  BY <1>1 DEF RunnerInv
<1> HIDE DEF t
<1>5. PICK w \in BOOLEAN : /\ Shown(r) = Item(t.id, t.id, w, w)
                           /\ ~t.cut => w = TRUE
  <2>1. CASE Has(r, "ok") /\ Value(r).text
    BY <1>4, <2>1 DEF Shown, t
  <2>2. CASE ~(Has(r, "ok") /\ Value(r).text)
    <3>1. Shown(r) = Item(t.id, t.id, ~t.cut, ~t.cut)
      BY <2>2 DEF Shown, t
    <3> QED BY <1>3, <3>1
  <2> QED BY <2>1, <2>2
<1>6. Shown(r) \in Map!MayShow(t)
  BY <1>3, <1>5 DEF Map!MayShow, Map!Item, Item
<1>7. Shown(r) \in Items /\ Shown(r).complete = Shown(r).whole
  BY <1>3, <1>5 DEF Item, Items
<1>8. Shown(r) # Missing
  BY <1>7, TicketAssumption DEF TicketAssumption, Missing
<1> QED BY <1>2, <1>6, <1>7, <1>8 DEF t

LEMMA ResumeKeeps ==
    ASSUME PoolInv, NEW r \in Runner, Resume(r)
    PROVE  PoolInv'
<1> DEFINE i == current[r]
<1>1. pc = "loading" /\ i # 0 /\ LoadInv
  BY DEF Resume, IsReady, PoolInv
<1>2. /\ results' = [results EXCEPT ![i] = Shown(r)]
      /\ UNCHANGED <<wire, pc, cmd, threads>>
  BY DEF Resume, Place
<1>3. /\ i \in DOMAIN threads /\ i < nextIndex
      /\ Shown(r) \in Items /\ Shown(r).complete = Shown(r).whole
      /\ Shown(r) # Missing
  BY <1>1, ShownFits, ListFacts DEF LoadInv, RunnerInv
<1>4. Len(threads) \in Nat /\ DOMAIN threads = 1 .. Len(threads)
  BY <1>1, ListFacts DEF LoadInv
<1>5. ControlInv' /\ ListInv' /\ WireInv' /\ DOMAIN current' = Runner
  BY <1>1, <1>2 DEF PoolInv, ControlInv, ListInv, WireInv, Resume
<1>6. \A s \in Runner : RunnerInv(s)
  BY <1>1 DEF LoadInv
<1>7. nextIndex \in 1 .. Len(threads) + 1 /\ DOMAIN results = DOMAIN threads
  BY <1>1 DEF LoadInv
<1>8. DOMAIN call = Proc /\ DOMAIN current = Runner /\ Runner \subseteq Proc
  BY Threads DEF PoolInv, ControlInv
<1>9. \A s \in Runner \ {r} : current[s] # i
  BY <1>1, <1>6 DEF RunnerInv
<1>10. CASE nextIndex <= Len(threads)
  <2>1. /\ current' = [current EXCEPT ![r] = nextIndex]
        /\ nextIndex' = nextIndex + 1
        /\ call' = [call EXCEPT ![r] = WorkOn(threads[nextIndex])]
    BY <1>10 DEF Resume
  <2>2. results[nextIndex] = Missing /\ nextIndex # i
    BY <1>1, <1>3, <1>4, <1>7, <1>10 DEF LoadInv, ResultInv
  <2>3. ASSUME NEW s \in Runner PROVE RunnerInv(s)'
    <3>1. CASE s = r
      <4>1. current'[s] = nextIndex /\ call'[s] = WorkOn(threads[nextIndex])
        BY <1>8, <2>1, <3>1
      <4>2. \A q \in Runner : current'[q] = nextIndex => q = r
        BY <1>6, <1>7, <1>8, <2>1 DEF RunnerInv
      <4> QED BY <1>2, <1>3, <1>7, <2>1, <2>2, <3>1, <4>1, <4>2, WorkOnFacts
              DEF RunnerInv, Has, Missing
    <3>2. CASE s # r
      <4>1. current'[s] = current[s] /\ call'[s] = call[s] /\ RunnerInv(s)
        BY <1>6, <1>8, <2>1, <3>2
      <4>2. current[s] # i /\ current[s] < nextIndex /\ current[s] # 0
        BY <1>4, <1>7, <1>9, <1>10, <3>2, <4>1 DEF RunnerInv
      <4>3. results'[current[s]] = results[current[s]]
        BY <1>2, <4>2
      <4>4. \A q \in Runner : current'[q] = current[s] => q = s
        BY <1>8, <2>1, <4>1, <4>2 DEF RunnerInv
      <4> QED BY <1>2, <1>7, <2>1, <4>1, <4>2, <4>3, <4>4
              DEF RunnerInv, Has, Value, Missing
    <3> QED BY <3>1, <3>2
  <2>4. ASSUME NEW k \in DOMAIN threads PROVE ResultInv(k)'
    <3>1. ResultInv(k)
      BY <1>1, <2>4 DEF LoadInv
    <3>2. CASE k = i
      <4>1. results'[k] = Shown(r) /\ k < nextIndex'
        BY <1>2, <1>3, <1>4, <1>7, <2>1, <3>2
      <4>2. ~(k >= nextIndex')
        BY <1>4, <1>7, <2>1, <4>1
      <4> QED BY <1>3, <4>1, <4>2 DEF ResultInv, Missing
    <3>3. CASE k # i
      <4>1. results'[k] = results[k]
        BY <1>2, <3>3
      <4>2. k < nextIndex' /\ results[k] = Missing =>
               \E s \in Runner : current'[s] = k
        <5> SUFFICES ASSUME k < nextIndex', results[k] = Missing
                     PROVE  \E s \in Runner : current'[s] = k
          OBVIOUS
        <5>1. CASE k = nextIndex
          BY <1>8, <2>1, <5>1
        <5>2. CASE k # nextIndex
          <6>1. k < nextIndex
            BY <1>4, <1>7, <2>1, <5>2
          <6>2. PICK s \in Runner : current[s] = k
            BY <3>1, <6>1 DEF ResultInv
          <6> QED BY <2>1, <3>3, <6>2, <1>8
        <5> QED BY <5>1, <5>2
      <4> QED BY <1>4, <1>7, <2>1, <3>1, <4>1, <4>2 DEF ResultInv, Missing
    <3> QED BY <3>2, <3>3
  <2> QED BY <1>1, <1>2, <1>5, <1>7, <1>10, <1>4, <2>1, <2>3, <2>4 DEF PoolInv, LoadInv
<1>11. CASE ~(nextIndex <= Len(threads))
  <2>1. /\ current' = [current EXCEPT ![r] = 0] /\ UNCHANGED nextIndex
        /\ call' = [call EXCEPT ![r] = NoCall]
        /\ nextIndex = Len(threads) + 1
    BY <1>4, <1>7, <1>11 DEF Resume
  <2>2. ASSUME NEW s \in Runner PROVE RunnerInv(s)'
    <3>1. CASE s = r
      BY <1>2, <1>4, <1>8, <2>1, <3>1 DEF RunnerInv
    <3>2. CASE s # r
      <4>1. current'[s] = current[s] /\ call'[s] = call[s] /\ RunnerInv(s)
        BY <1>6, <1>8, <2>1, <3>2
      <4>2. current[s] # 0 => results'[current[s]] = results[current[s]]
        BY <1>2, <1>9, <3>2
      <4>3. current[s] # 0 => \A q \in Runner : current'[q] = current[s] => q = s
        BY <1>8, <2>1, <4>1 DEF RunnerInv
      <4> QED BY <1>2, <2>1, <4>1, <4>2, <4>3 DEF RunnerInv, Has, Value, Missing
    <3> QED BY <3>1, <3>2
  <2>3. ASSUME NEW k \in DOMAIN threads PROVE ResultInv(k)'
    <3>1. ResultInv(k)
      BY <1>1, <2>3 DEF LoadInv
    <3>2. CASE k = i
      BY <1>2, <1>3, <1>7, <2>1, <3>2 DEF ResultInv, Missing
    <3>3. CASE k # i
      <4>1. results'[k] = results[k]
        BY <1>2, <3>3
      <4>2. ASSUME NEW s \in Runner, current[s] = k PROVE current'[s] = k
        BY <1>8, <2>1, <3>3, <4>2
      <4> QED BY <2>1, <3>1, <4>1, <4>2 DEF ResultInv, Missing
    <3> QED BY <3>2, <3>3
  <2> QED BY <1>1, <1>2, <1>5, <1>7, <2>1, <2>2, <2>3 DEF PoolInv, LoadInv
<1> QED BY <1>10, <1>11

LEMMA MainKeeps == ASSUME PoolInv, MainStep PROVE PoolInv'
<1>1. ASSUME CreateTicket PROVE PoolInv'
  BY <1>1, AskKeeps DEF CreateTicket, Begins
<1>2. ASSUME TicketCreated PROVE PoolInv'
  <2>1. cmd.op # "get-replies"
    BY <1>2 DEF TicketCreated, PoolInv, ControlInv
  <2> QED BY <1>2, <2>1, AskKeeps DEF TicketCreated
<1>3. ASSUME Comment PROVE PoolInv'
  BY <1>3, AskKeeps DEF Comment, Begins
<1>4. ASSUME Read PROVE PoolInv'
  BY <1>4, AskKeeps DEF Read, Begins
<1>5. ASSUME ListReplies PROVE PoolInv'
  BY <1>5, AskKeeps DEF ListReplies, Begins
<1>6. ASSUME DetailRead \/ RequestDone \/ RepliesShown \/ Reject \/ Uncaught
      PROVE  PoolInv'
  BY <1>6, EndKeeps
     DEF DetailRead, RequestDone, RepliesShown, Reject, Uncaught, Succeed, Fail
<1> QED BY <1>1, <1>2, <1>3, <1>4, <1>5, <1>6, ListedKeeps DEF MainStep

LEMMA PoolStep == PoolInv /\ [Next]_vars => PoolInv'
<1> SUFFICES ASSUME PoolInv, [Next]_vars PROVE PoolInv'
  OBVIOUS
<1>1. ASSUME NEW p \in Proc, ProcessStep(p) PROVE PoolInv'
  BY <1>1, MainKeeps, ResumeKeeps, TransportKeeps DEF ProcessStep
<1>2. ASSUME Kill PROVE PoolInv'
  BY <1>2, EndKeeps DEF Kill
<1>3. ASSUME UNCHANGED vars PROVE PoolInv'
  <2>1. WireInv'
    BY <1>3, Threads, WireKept DEF vars, transportVars, PoolInv
  <2> QED BY <1>3, <2>1, FrameKept DEF vars, transportVars
<1> QED BY <1>1, <1>2, <1>3, ApiKeeps DEF Next

-----------------------------------------------------------------------------
(* Every step maps to a step or a stutter of ReplyMap.                     *)

\* The steps that leave the mapped state alone.
LEMMA MapStutter ==
    ASSUME UNCHANGED <<threads, results, cmd>>,
           \/ UNCHANGED <<pc, outcome, report>>
           \/ /\ pc \notin {"loading", "end"} /\ pc' # "loading"
              /\ pc' = "end" => cmd.op # "get-replies"
    PROVE  UNCHANGED Map!vars
BY DEF Map!vars, PhaseOfReplies, CutReplies

\* The steps that end `get-replies` before it shows anything.
LEMMA MapFail ==
    ASSUME PoolInv, pc # "end", NEW result, End(result), result # "ok"
    PROVE  [Map!Next]_Map!vars
<1>1. UNCHANGED <<threads, results, cmd>> /\ pc' = "end" /\ outcome' = result
  BY DEF End, workVars
<1>2. CASE cmd.op = "get-replies"
  BY <1>1, <1>2 DEF Map!Next, Map!Fail, PhaseOfReplies, CutReplies
<1>3. CASE cmd.op # "get-replies"
  <2>1. pc # "loading"
    BY <1>3 DEF PoolInv, ControlInv
  <2> QED BY <1>1, <1>3, <2>1, MapStutter
<1> QED BY <1>2, <1>3

LEMMA MapResume ==
    ASSUME PoolInv, NEW r \in Runner, Resume(r)
    PROVE  Map!Next
<1> DEFINE i == current[r]
<1>1. /\ pc = "loading" /\ i # 0 /\ results' = [results EXCEPT ![i] = Shown(r)]
      /\ UNCHANGED <<pc, cmd, threads>>
  BY DEF Resume, IsReady, Place
<1>2. i \in DOMAIN threads /\ Shown(r) \in Map!MayShow(threads[i])
  BY <1>1, ShownFits
<1>3. results[i] = Missing
  BY <1>1 DEF PoolInv, LoadInv, RunnerInv
<1>4. PhaseOfReplies = "loading" /\ UNCHANGED <<PhaseOfReplies, CutReplies>>
  BY <1>1 DEF PhaseOfReplies, CutReplies
<1> HIDE DEF i
<1>5. Map!Load(i)
  BY <1>1, <1>2, <1>3, <1>4 DEF Map!Load
<1> QED BY <1>2, <1>5 DEF Map!Next

LEMMA MapListed == ASSUME PoolInv, RepliesListed PROVE Map!Next
<1>1. /\ pc = "replies" /\ pc' = "loading" /\ threads' \in ReplyLists
      /\ results' = [j \in DOMAIN threads' |-> Missing]
  BY DEF RepliesListed, PoolInv, ListInv
<1> QED BY <1>1 DEF Map!Next, Map!List, PhaseOfReplies, CutReplies

\* All runners have ended, so that no reply is left.
LEMMA MapShow == ASSUME PoolInv, RepliesShown PROVE Map!Next
<1>1. /\ pc = "loading" /\ \A r \in Runner : current[r] = 0
      /\ report' = {i \in DOMAIN threads : ~results[i].complete}
      /\ pc' = "end" /\ outcome' = "ok" /\ UNCHANGED <<threads, results, cmd>>
  BY DEF RepliesShown, Succeed, End, workVars
<1>2. cmd.op = "get-replies" /\ LoadInv
  BY <1>1 DEF PoolInv, ControlInv
<1>3. nextIndex = Len(threads) + 1 /\ DOMAIN threads = 1 .. Len(threads)
      /\ Len(threads) \in Nat
  BY <1>1, <1>2, Threads, ListFacts DEF LoadInv, RunnerInv
<1>4. ASSUME NEW i \in DOMAIN threads
      PROVE  results[i] # Missing /\ results[i].complete = results[i].whole
  <2>1. ResultInv(i) /\ i < nextIndex /\ i # 0
    BY <1>2, <1>3 DEF LoadInv
  <2> QED BY <1>1, <2>1 DEF ResultInv
<1>5. report' = {i \in DOMAIN threads : ~results[i].whole}
  BY <1>1, <1>4
<1>6. Map!Show
  BY <1>1, <1>2, <1>4, <1>5 DEF Map!Show, PhaseOfReplies, CutReplies
<1> QED BY <1>6 DEF Map!Next

LEMMA MapStep == ASSUME PoolInv, [Next]_vars PROVE [Map!Next]_Map!vars
<1>1. ASSUME MainStep PROVE [Map!Next]_Map!vars
  <2>1. ASSUME CreateTicket \/ TicketCreated \/ Comment \/ Read \/ ListReplies
        PROVE  [Map!Next]_Map!vars
    <3>1. /\ pc \notin {"loading", "end"} /\ pc' \notin {"loading", "end"}
          /\ UNCHANGED <<threads, results, cmd>>
      BY <2>1 DEF CreateTicket, TicketCreated, Comment, Read, ListReplies,
                  Begins, Ask, workVars
    <3> QED BY <3>1, MapStutter
  <2>2. ASSUME DetailRead \/ RequestDone PROVE [Map!Next]_Map!vars
    <3>1. /\ pc \notin {"loading", "end"} /\ cmd.op # "get-replies"
          /\ pc' = "end" /\ UNCHANGED <<threads, results, cmd>>
      BY <2>2 DEF DetailRead, RequestDone, Succeed, End, workVars, PoolInv,
                  ControlInv
    <3> QED BY <3>1, MapStutter
  <2>3. ASSUME Reject \/ Uncaught PROVE [Map!Next]_Map!vars
    BY <2>3, MapFail DEF Reject, Uncaught, Fail
  <2> QED BY <1>1, <2>1, <2>2, <2>3, MapListed, MapShow DEF MainStep
<1>2. ASSUME UNCHANGED <<pc, cmd, outcome, report, workVars>>
      PROVE  [Map!Next]_Map!vars
  BY <1>2, MapStutter DEF workVars
<1>3. ASSUME Kill PROVE [Map!Next]_Map!vars
  BY <1>3, MapFail DEF Kill
<1>4. ASSUME NEW p \in Proc, ProcessStep(p) PROVE [Map!Next]_Map!vars
  BY <1>1, <1>2, <1>4, MapResume DEF ProcessStep, Unchanged
<1>5. ASSUME ApiStep PROVE UNCHANGED <<pc, cmd, outcome, report, workVars>>
  BY <1>5 DEF ApiStep, AnswerReplies, AnswerRead, Apply, AnswerThread, Unchanged
<1>6. ASSUME UNCHANGED vars PROVE [Map!Next]_Map!vars
  BY <1>2, <1>6 DEF vars
<1> QED BY <1>2, <1>3, <1>4, <1>5, <1>6 DEF Next

-----------------------------------------------------------------------------
\* Any number of runners shows what ReplyMap promises: every reply once, at its
\* place, with its own text, and none cut without being counted.
THEOREM RepliesAsMapped == Spec => ImplementsReplyMap
<1>1. Init => Map!Init
  BY DEF Init, Map!Init, PhaseOfReplies, CutReplies
<1>2. PoolInv /\ [Next]_vars => [Map!Next]_Map!vars
  BY MapStep
<1> QED BY <1>1, <1>2, PoolInit, PoolStep, PTL DEF Spec, ImplementsReplyMap, Map!Spec

-----------------------------------------------------------------------------
(* What is sent to change something is the ticket or the comment of some   *)
(* command line, and it stays that on its way.                             *)

Creation(line) == Request("POST", "tickets", Body(line))

Sendable ==
    {Creation(line) : line \in {l \in CommandLines : IsAccepted(l)}}
    \cup {Request("POST", op, line.target) :
            op \in {"reply", "close", "reopen"}, line \in CommandLines}

ChangeInv ==
    /\ cmd \in CommandLines
    /\ DOMAIN call = Proc /\ DOMAIN wire = Proc
    /\ \A p \in Proc : \A m \in wire[p] : m.request \in Sendable
    /\ \A p \in Proc : call[p].state = "sent" /\ call[p].request.method # "GET"
                         => call[p].request \in Sendable
    /\ applied \in Seq(Sendable)

\* A request that is sent, for the first time or again, is a GET or sendable.
LEMMA SentIsSendable ==
    ASSUME ChangeInv, NEW p \in Proc, NEW request, NEW n,
           request.method = "GET" \/ request \in Sendable,
           wire' = OnWire(p, request, n), UNCHANGED <<cmd, applied>>,
           call' = [call EXCEPT ![p] = Call("sent", request, n, None)]
    PROVE  ChangeInv'
BY DEF ChangeInv, OnWire, Message, Call

\* Nothing else adds a request.
LEMMA NothingSent ==
    ASSUME ChangeInv, UNCHANGED cmd, DOMAIN call' = Proc, DOMAIN wire' = Proc,
           applied' \in Seq(Sendable),
           \A p \in Proc : wire'[p] \subseteq wire[p],
           \A p \in Proc : call'[p] = call[p] \/ call'[p].state # "sent"
                             \/ call'[p].request.method = "GET"
    PROVE  ChangeInv'
BY DEF ChangeInv

LEMMA EndSendsNothing ==
    ASSUME ChangeInv, NEW result, End(result)
    PROVE  ChangeInv'
BY NothingSent DEF End, NoCall, Call, ChangeInv

LEMMA ChangeMain == ASSUME ChangeInv, MainStep PROVE ChangeInv'
<1>1. ASSUME CreateTicket PROVE ChangeInv'
  <2>1. Creation(cmd) \in Sendable
    BY <1>1 DEF CreateTicket, Sendable, ChangeInv
  <2> QED BY <1>1, <2>1, Threads, SentIsSendable
          DEF CreateTicket, Ask, Send, Creation
<1>2. ASSUME Comment PROVE ChangeInv'
  <2>1. Request("POST", cmd.op, cmd.target) \in Sendable
    BY <1>2 DEF Comment, Begins, Sendable, ChangeInv
  <2> QED BY <1>2, <2>1, Threads, SentIsSendable DEF Comment, Ask, Send
<1>3. ASSUME TicketCreated \/ Read \/ ListReplies PROVE ChangeInv'
  <2>1. PICK path, arg, label : Ask(label, Request("GET", path, arg))
    BY <1>3 DEF TicketCreated, Read, ListReplies
  <2>2. Request("GET", path, arg).method = "GET"
    BY DEF Request
  <2> QED BY <2>1, <2>2, Threads, SentIsSendable DEF Ask, Send
<1>4. ASSUME RepliesListed PROVE ChangeInv'
  <2>1. /\ UNCHANGED <<wire, cmd, applied>>
        /\ call' = [p \in Proc |->
                      IF p \in AtWork(threads', Limit) THEN WorkOn(threads'[p])
                      ELSE NoCall]
    BY <1>4 DEF RepliesListed
  <2> QED BY <2>1, NothingSent DEF ChangeInv, WorkOn, Call, NoCall, Request
<1>5. ASSUME DetailRead \/ RequestDone \/ RepliesShown \/ Reject \/ Uncaught
      PROVE  ChangeInv'
  BY <1>5, EndSendsNothing
     DEF DetailRead, RequestDone, RepliesShown, Reject, Uncaught, Succeed, Fail
<1> QED BY <1>1, <1>2, <1>3, <1>4, <1>5 DEF MainStep

LEMMA ChangeTransport ==
    ASSUME ChangeInv, NEW p \in Proc, TransportStep(p), Unchanged
    PROVE  ChangeInv'
<1>1. UNCHANGED <<cmd, applied>>
  BY DEF Unchanged
<1>2. ASSUME NEW status, AttemptFails(p, status) PROVE ChangeInv'
  BY <1>1, <1>2, SentIsSendable, NothingSent
     DEF AttemptFails, Finish, Call, ChangeInv
<1>3. ASSUME Refused(p) PROVE ChangeInv'
  BY <1>1, <1>3, NothingSent DEF Refused, Finish, Call, ChangeInv
<1> QED BY <1>2, <1>3 DEF TransportStep

LEMMA ChangeStep == ChangeInv /\ [Next]_vars => ChangeInv'
<1> SUFFICES ASSUME ChangeInv, [Next]_vars PROVE ChangeInv'
  OBVIOUS
<1>1. ASSUME NEW r \in Runner, Resume(r) PROVE ChangeInv'
  <2>1. /\ UNCHANGED <<wire, cmd, applied>>
        /\ \/ call' = [call EXCEPT ![r] = WorkOn(threads[nextIndex])]
           \/ call' = [call EXCEPT ![r] = NoCall]
    BY <1>1 DEF Resume
  <2> QED BY <2>1, NothingSent DEF ChangeInv, WorkOn, Call, NoCall, Request
<1>2. ASSUME NEW p \in Proc, NEW path, NEW value, AnswerGet(p, path, value),
             Unchanged
      PROVE  ChangeInv'
  BY <1>2, NothingSent DEF AnswerGet, Finish, Call, Unchanged, ChangeInv
<1>3. ASSUME Apply PROVE ChangeInv'
  <2>1. PICK m \in wire[Main] : /\ Take(Main, m, Len(applied) + 1)
                                /\ applied' = Append(applied, m.request)
    BY <1>3 DEF Apply
  <2>2. applied' \in Seq(Sendable)
    BY <2>1, Threads, AppendProperties DEF ChangeInv
  <2> QED BY <1>3, <2>1, <2>2, NothingSent DEF Apply, Take, Finish, Call, ChangeInv
<1>4. ASSUME Lose(Main), Unchanged PROVE ChangeInv'
  BY <1>4, NothingSent DEF Lose, Unchanged, ChangeInv
<1>5. ASSUME ApiStep PROVE ChangeInv'
  BY <1>2, <1>3, <1>4, <1>5, Threads
     DEF ApiStep, AnswerReplies, AnswerRead, AnswerThread
<1>6. ASSUME Kill PROVE ChangeInv'
  BY <1>6, EndSendsNothing DEF Kill
<1>7. ASSUME UNCHANGED vars PROVE ChangeInv'
  BY <1>7 DEF vars, transportVars, ChangeInv
<1>8. ASSUME NEW p \in Proc, ProcessStep(p) PROVE ChangeInv'
  BY <1>1, <1>8, ChangeMain, ChangeTransport DEF ProcessStep
<1> QED BY <1>5, <1>6, <1>7, <1>8 DEF Next

\* Every ticket that any command line makes carries the fields that belong to
\* its category, and no others.
THEOREM TicketsCarryTheirFields == Spec => []TicketsAreWellFormed
<1>1. Init => ChangeInv
  <2> SUFFICES ASSUME Init PROVE ChangeInv
    OBVIOUS
  <2>1. applied \in Seq(Sendable)
    BY DEF Init
  <2> QED BY <2>1 DEF Init, TransportInit, NoCall, Call, ChangeInv
<1>2. ChangeInv => TicketsAreWellFormed
  <2> SUFFICES ASSUME ChangeInv, NEW i \in DOMAIN applied,
                      applied[i].path = "tickets"
               PROVE  LET ticket == applied[i].arg IN
                      /\ ticket.resources => ticket.category = "Cloud"
                      /\ ticket.category \in {"Billing", "Cloud"} =>
                           ticket.component \notin {None, Empty} /\ ticket.priority # None
                      /\ ticket.category = "Sales" =>
                           ticket.component = Empty /\ ticket.priority = None
    BY DEF TicketsAreWellFormed
  <2>1. applied[i] \in Sendable
    BY ElementOfSeq DEF ChangeInv
  <2>2. PICK line \in CommandLines : IsAccepted(line) /\ applied[i] = Creation(line)
    BY <2>1 DEF Sendable, Creation, Request
  <2>3. applied[i].arg = Body(line) /\ line.component # Empty
    BY <2>2, TicketAssumption DEF Creation, Request, TicketAssumption
  <2> DEFINE ticket == applied[i].arg
  <2>4. /\ ticket.category = line.category
        /\ ticket.resources = (line.category = "Cloud" /\ line.resources)
        /\ ticket.component = IF line.category = "Sales" THEN Empty
                             ELSE line.component
        /\ ticket.priority = IF line.category = "Sales" THEN None
                            ELSE line.priority
    BY <2>3 DEF Body
  <2> HIDE DEF ticket
  <2>5. ticket.resources => ticket.category = "Cloud"
    BY <2>4, Zenon
  <2>6. ticket.category \in {"Billing", "Cloud"} =>
           ticket.component \notin {None, Empty} /\ ticket.priority # None
    BY <2>2, <2>3, <2>4 DEF IsAccepted, NeedsTriage
  <2>7. ticket.category = "Sales" =>
           ticket.component = Empty /\ ticket.priority = None
    BY <2>4
  <2> QED BY <2>5, <2>6, <2>7 DEF ticket
<1> QED BY <1>1, <1>2, ChangeStep, PTL DEF Spec

-----------------------------------------------------------------------------
(* Types.                                                                  *)

\* The steps that only move a request on.
LEMMA TypeFrame ==
    ASSUME TypeOK, UNCHANGED <<pc, outcome, workVars>>,
           \A r \in Runner : call'[r].state = "none" \/ call[r].state # "none"
    PROVE  TypeOK'
BY DEF TypeOK, workVars

LEMMA TypeEnd ==
    ASSUME TypeOK, NEW result \in {"ok", "error", "killed"}, End(result)
    PROVE  TypeOK'
<1>1. /\ pc' = "end" /\ outcome' = result
      /\ UNCHANGED <<threads, nextIndex, current, results>>
  BY DEF End, workVars
<1>2. \A r \in Runner : call'[r].state = "none"
  BY Threads DEF End, NoCall, Call
<1> QED BY <1>1, <1>2 DEF TypeOK

LEMMA TypeAsk ==
    ASSUME TypeOK, pc # "end", NEW request,
           NEW label \in {"create", "detail", "comment", "read", "replies"},
           Ask(label, request), DOMAIN call = Proc
    PROVE  TypeOK'
<1>1. /\ pc' = label /\ outcome' = outcome
      /\ UNCHANGED <<threads, nextIndex, current, results>>
  BY DEF Ask, workVars
<1>2. \A r \in Runner : call'[r] = call[r]
  BY Threads DEF Ask, Send
<1> QED BY <1>1, <1>2 DEF TypeOK

LEMMA TypeMain == ASSUME PoolInv, TypeOK, MainStep PROVE TypeOK'
<1>1. DOMAIN call = Proc
  BY DEF PoolInv, ControlInv
<1>2. ASSUME CreateTicket \/ TicketCreated \/ Comment \/ Read \/ ListReplies
      PROVE  TypeOK'
  <2>1. PICK label \in {"create", "detail", "comment", "read", "replies"} :
          (\E request : Ask(label, request)) /\ pc # "end"
    BY <1>2 DEF CreateTicket, TicketCreated, Comment, Read, ListReplies, Begins
  <2>2. PICK request : Ask(label, request)
    BY <2>1
  <2> QED BY <1>1, <2>1, <2>2, TypeAsk
<1>3. ASSUME DetailRead \/ RequestDone \/ RepliesShown \/ Reject \/ Uncaught
      PROVE  TypeOK'
  BY <1>3, TypeEnd
     DEF DetailRead, RequestDone, RepliesShown, Reject, Uncaught, Succeed, Fail
<1>4. ASSUME RepliesListed PROVE TypeOK'
  <2>1. PoolInv' /\ pc = "replies" /\ pc' = "loading" /\ outcome' = outcome
    BY <1>4, ListedKeeps DEF RepliesListed
  <2>2. LoadInv'
    BY <2>1 DEF PoolInv
  <2>3. ASSUME NEW r \in Runner, call'[r].state # "none"
        PROVE  current'[r] # 0 /\ threads'[current'[r]].cut
    <3>1. r \in AtWork(threads', Limit) /\ call'[r] = WorkOn(threads'[r])
      BY <1>4, <2>3, Threads DEF RepliesListed, NoCall, Call
    <3>2. current'[r] = r /\ r # 0
      BY <1>4, <3>1, Threads DEF RepliesListed, Runner
    <3> QED BY <2>3, <3>1, <3>2 DEF WorkOn, NoCall, Call
  <2> QED BY <2>1, <2>2, <2>3 DEF TypeOK, LoadInv, RunnerInv
<1> QED BY <1>2, <1>3, <1>4 DEF MainStep

LEMMA TypeResume ==
    ASSUME PoolInv, TypeOK, NEW r \in Runner, Resume(r)
    PROVE  TypeOK'
<1>1. PoolInv' /\ UNCHANGED <<pc, outcome, threads>> /\ pc = "loading"
  BY ResumeKeeps DEF Resume
<1>2. LoadInv' /\ LoadInv
  BY <1>1 DEF PoolInv
<1>3. ASSUME NEW s \in Runner, call'[s].state # "none"
      PROVE  current'[s] # 0 /\ threads'[current'[s]].cut
  <2>1. DOMAIN call = Proc /\ DOMAIN current = Runner /\ s \in Proc /\ nextIndex # 0
    BY <1>2, Threads DEF PoolInv, ControlInv, LoadInv
  <2>2. CASE s = r
    <3>1. /\ call'[s] = WorkOn(threads[nextIndex])
          /\ current'[s] = nextIndex
      BY <1>3, <2>1, <2>2 DEF Resume, NoCall, Call
    <3> QED BY <1>1, <1>3, <2>1, <3>1 DEF WorkOn, NoCall, Call
  <2>3. CASE s # r
    <3>1. call'[s] = call[s] /\ current'[s] = current[s]
      BY <2>1, <2>3 DEF Resume
    <3> QED BY <1>1, <1>3, <3>1 DEF TypeOK
  <2> QED BY <2>2, <2>3
<1> QED BY <1>1, <1>2, <1>3 DEF TypeOK, LoadInv, RunnerInv

LEMMA TypeTransport ==
    ASSUME PoolInv, TypeOK, NEW p \in Proc, TransportStep(p), Unchanged
    PROVE  TypeOK'
<1>1. call[p].state = "sent" /\ \E c : call' = [call EXCEPT ![p] = c]
  BY DEF TransportStep, AttemptFails, Refused, Finish
<1> QED BY <1>1, TypeFrame DEF PoolInv, ControlInv, Unchanged

LEMMA TypeApi == ASSUME PoolInv, TypeOK, ApiStep PROVE TypeOK'
<1>1. UNCHANGED <<pc, outcome, workVars>> /\ DOMAIN call = Proc
  BY DEF ApiStep, AnswerReplies, AnswerRead, Apply, AnswerThread, Unchanged,
         PoolInv, ControlInv
<1>2. ASSUME NEW p \in Proc, NEW value, call[p].state = "sent", Finish(p, "ok", value)
      PROVE  TypeOK'
  BY <1>1, <1>2, TypeFrame DEF Finish
<1>3. ASSUME NEW p \in Proc, NEW path, NEW value, AnswerGet(p, path, value)
      PROVE  TypeOK'
  BY <1>2, <1>3 DEF AnswerGet, Waits
<1>4. ASSUME Apply \/ Lose(Main) PROVE TypeOK'
  <2>1. \/ UNCHANGED call
        \/ call[Main].state = "sent" /\ \E value : Finish(Main, "ok", value)
    BY <1>4 DEF Apply, Take, Lose
  <2>2. CASE UNCHANGED call
    BY <1>1, <2>2, TypeFrame
  <2> QED BY <1>2, <2>1, <2>2, Threads
<1> QED BY <1>3, <1>4, Threads DEF ApiStep, AnswerReplies, AnswerRead, AnswerThread

LEMMA TypeStep == PoolInv /\ TypeOK /\ [Next]_vars => TypeOK'
<1> SUFFICES ASSUME PoolInv, TypeOK, [Next]_vars PROVE TypeOK'
  OBVIOUS
<1>1. ASSUME NEW p \in Proc, ProcessStep(p) PROVE TypeOK'
  BY <1>1, TypeMain, TypeResume, TypeTransport DEF ProcessStep
<1>2. ASSUME Kill PROVE TypeOK'
  BY <1>2, TypeEnd DEF Kill
<1>3. ASSUME UNCHANGED vars PROVE TypeOK'
  BY <1>3, TypeFrame DEF vars, transportVars
<1> QED BY <1>1, <1>2, <1>3, TypeApi DEF Next

\* TypeOK: whatever the list of replies, no runner is sent beyond its end, and
\* a runner waits for a request only if the list cuts its reply off.
THEOREM TypeCorrect == Spec => []TypeOK
<1>1. Init => TypeOK
  <2> SUFFICES ASSUME Init PROVE TypeOK
    OBVIOUS
  <2>1. \A r \in Runner : call[r].state = "none"
    BY Threads DEF Init, TransportInit, NoCall, Call
  <2> QED BY <2>1 DEF Init, TypeOK
<1> QED BY <1>1, PoolInit, PoolStep, TypeStep, PTL DEF Spec

-----------------------------------------------------------------------------
(* What a command reports about the change that it asks for.               *)

\* A change is on the wire or was applied, at most once; an answer says that it
\* was applied. Once a ticket is known to be made, only its details are read.
TruthInv ==
    cmd.op \in Changes =>
        /\ pc \in {"ready", "create", "comment", "detail", "end"}
        /\ pc # "end" => outcome = "none"
        /\ pc \in {"ready", "end"} => call[Main].state = "none"
        /\ pc = "ready" =>
             /\ wire[Main] = {} /\ applied = <<>> /\ report = None
        /\ pc \in {"create", "comment"} =>
             /\ report = None /\ (pc = "create" <=> cmd.op = "create")
             /\ call[Main].state \in {"sent", "done"}
             /\ call[Main].request.method = "POST" /\ call[Main].attempt = 1
             /\ wire[Main] \subseteq {Message(call[Main].request, 1)}
             /\ wire[Main] # {} => applied = <<>> /\ ~Has(Main, "ok")
             /\ Has(Main, "ok") => Len(applied) = 1 /\ Value(Main) = 1
        /\ pc = "detail" =>
             /\ wire[Main] = {} /\ Len(applied) = 1
             /\ report = [ticket |-> 1, detailed |-> FALSE]
             /\ call[Main].request.method = "GET"
        /\ pc = "end" /\ outcome = "ok" =>
             /\ wire[Main] = {} /\ Len(applied) = 1
             /\ cmd.op = "create" => report.ticket = 1
        /\ pc = "end" /\ outcome = "error" => report = None

LEMMA TruthEnd ==
    ASSUME PoolInv, TruthInv, NEW result, End(result),
           result = "ok" => /\ wire[Main] = {} /\ Len(applied) = 1
                            /\ cmd.op = "create" => report'.ticket = 1,
           result = "error" => report' = report /\ pc # "detail" /\ pc # "end"
    PROVE  TruthInv'
<1>1. /\ UNCHANGED <<wire, cmd, applied>> /\ pc' = "end" /\ outcome' = result
  BY DEF End
<1>2. call'[Main].state = "none"
  BY Threads DEF End, NoCall, Call
<1> QED BY <1>1, <1>2 DEF TruthInv

LEMMA TruthMain == ASSUME PoolInv, TruthInv, MainStep PROVE TruthInv'
<1> SUFFICES ASSUME cmd.op \in Changes
             PROVE  TruthInv'
  <2>1. cmd' = cmd
    BY DEF MainStep, CreateTicket, TicketCreated, Comment, Read, RequestDone,
           ListReplies, RepliesListed, RepliesShown, DetailRead, Reject, Uncaught,
           Ask, Succeed, Fail, End
  <2> QED BY <2>1 DEF TruthInv
<1>1. /\ DOMAIN call = Proc /\ DOMAIN wire = Proc /\ pc \notin {"loading", "replies"}
      /\ cmd.op \notin {"get", "list", "timeline", "departments", "get-replies"}
  BY DEF PoolInv, ControlInv, WireInv, Changes
<1>2. ASSUME NEW label, NEW path, NEW arg, Ask(label, Request("POST", path, arg)),
             pc = "ready", UNCHANGED report,
             label = (IF cmd.op = "create" THEN "create" ELSE "comment")
      PROVE  TruthInv'
  <2> DEFINE request == Request("POST", path, arg)
  <2>1. request.method = "POST"
    BY DEF Request
  <2> HIDE DEF request
  <2>2. /\ call'[Main] = Call("sent", request, 1, None) /\ pc' = label
        /\ wire'[Main] = wire[Main] \cup {Message(request, 1)}
        /\ UNCHANGED <<cmd, outcome, applied>>
    BY <1>1, <1>2, <2>1, Threads DEF Ask, Send, OnWire, request
  <2> QED BY <1>2, <2>1, <2>2 DEF TruthInv, Call, Has
<1>3. ASSUME CreateTicket PROVE TruthInv'
  BY <1>2, <1>3 DEF CreateTicket, Begins
<1>4. ASSUME Comment PROVE TruthInv'
  BY <1>2, <1>4 DEF Comment, Begins
<1>5. ASSUME TicketCreated PROVE TruthInv'
  <2> DEFINE request == Request("GET", "ticket", Value(Main))
  <2>1. request.method = "GET"
    BY DEF Request
  <2> HIDE DEF request
  <2>2. /\ pc = "create" /\ Has(Main, "ok") /\ pc' = "detail"
        /\ report' = [ticket |-> Value(Main), detailed |-> FALSE]
        /\ call'[Main] = Call("sent", request, 1, None) /\ wire' = wire
        /\ UNCHANGED <<cmd, outcome, applied>>
    BY <1>1, <1>5, <2>1, Threads DEF TicketCreated, Ask, Send, OnWire, request
  <2>3. wire[Main] = {} /\ Len(applied) = 1 /\ Value(Main) = 1 /\ outcome = "none"
    BY <2>2 DEF TruthInv
  <2>4. call'[Main].request.method = "GET"
    BY <2>1, <2>2 DEF Call
  <2> QED BY <2>2, <2>3, <2>4 DEF TruthInv
<1>6. ASSUME DetailRead PROVE TruthInv'
  <2>1. report'.ticket = report.ticket
    BY <1>6 DEF DetailRead, Succeed, TruthInv
  <2> QED BY <1>6, <2>1, TruthEnd DEF DetailRead, Succeed, TruthInv
<1>7. ASSUME RequestDone PROVE TruthInv'
  <2>1. pc = "comment" \/ pc = "read"
    BY <1>7 DEF RequestDone
  <2>2. pc = "comment"
    BY <1>1, <1>7, <2>1 DEF RequestDone, TruthInv, PoolInv
  <2> QED BY <1>7, <2>2, TruthEnd DEF RequestDone, Succeed, TruthInv
<1>8. ASSUME Reject \/ Uncaught PROVE TruthInv'
  BY <1>8, TruthEnd DEF Reject, Uncaught, Fail
<1> QED BY <1>1, <1>3, <1>4, <1>5, <1>6, <1>7, <1>8
        DEF MainStep, Read, Begins, ListReplies, RepliesListed, RepliesShown

\* The request of the main line comes to its end, or is sent again, and what
\* is on the wire is lost or applied.
LEMMA TruthFrame ==
    ASSUME TruthInv, UNCHANGED <<pc, cmd, outcome, report, applied>>,
           wire'[Main] \subseteq wire[Main],
           \/ call'[Main] = call[Main]
           \/ \E reply : /\ call[Main].state = "sent"
                         /\ call'[Main] = Call("done", call[Main].request,
                                               call[Main].attempt, reply)
                         /\ reply.status = "ok" => call[Main].request.method = "GET"
           \/ /\ call[Main].state = "sent" /\ call[Main].request.method = "GET"
              /\ call'[Main].request = call[Main].request
    PROVE  TruthInv'
<1> SUFFICES ASSUME cmd.op \in Changes
             PROVE  TruthInv'
  BY DEF TruthInv
<1>1. CASE call'[Main] = call[Main]
  BY <1>1 DEF TruthInv, Has, Value
<1>2. ASSUME NEW reply, call[Main].state = "sent",
             call'[Main] = Call("done", call[Main].request, call[Main].attempt, reply),
             reply.status = "ok" => call[Main].request.method = "GET"
      PROVE  TruthInv'
  <2>1. /\ call'[Main].state = "done" /\ call'[Main].request = call[Main].request
        /\ call'[Main].attempt = call[Main].attempt
        /\ Has(Main, "ok")' => call[Main].request.method = "GET"
    BY <1>2 DEF Call, Has
  <2> QED BY <1>2, <2>1 DEF TruthInv
<1>3. CASE /\ call[Main].state = "sent" /\ call[Main].request.method = "GET"
           /\ call'[Main].request = call[Main].request
  BY <1>3 DEF TruthInv
<1> QED BY <1>1, <1>2, <1>3

LEMMA TruthTransport ==
    ASSUME PoolInv, TruthInv, NEW p \in Proc, TransportStep(p), Unchanged
    PROVE  TruthInv'
<1>1. /\ UNCHANGED <<pc, cmd, outcome, report, applied>>
      /\ DOMAIN call = Proc /\ DOMAIN wire = Proc
  BY DEF Unchanged, PoolInv, ControlInv, WireInv
<1>2. CASE p # Main
  <2>1. call'[Main] = call[Main] /\ wire'[Main] = wire[Main]
    BY <1>1, <1>2, Threads DEF TransportStep, AttemptFails, Refused, Finish, OnWire
  <2> QED BY <1>1, <2>1, TruthFrame
<1>3. ASSUME NEW status \in {"timeout", "failed"}, AttemptFails(Main, status)
      PROVE  TruthInv'
  <2>1. CASE call[Main].attempt < MaxAttempts(call[Main].request.method)
    <3>1. CASE call[Main].request.method = "GET"
      <4>1. /\ call[Main].state = "sent" /\ wire' = wire
            /\ call'[Main].request = call[Main].request
        BY <1>1, <1>3, <2>1, <3>1, Threads DEF AttemptFails, OnWire, Call
      <4> QED BY <1>1, <3>1, <4>1, TruthFrame
    <3>2. CASE call[Main].request.method # "GET" /\ cmd.op \in Changes
      <4>1. call[Main].state = "sent" /\ call[Main].attempt < 1
        BY <1>3, <2>1, <3>2 DEF AttemptFails, MaxAttempts
      <4> QED BY <3>2, <4>1 DEF TruthInv
    <3> QED BY <1>1, <3>1, <3>2 DEF TruthInv
  <2>2. CASE ~(call[Main].attempt < MaxAttempts(call[Main].request.method))
    BY <1>1, <1>3, <2>2, Threads, TruthFrame DEF AttemptFails, Finish
  <2> QED BY <2>1, <2>2
<1>4. ASSUME Refused(Main) PROVE TruthInv'
  BY <1>1, <1>4, Threads, TruthFrame DEF Refused, Finish
<1> QED BY <1>2, <1>3, <1>4 DEF TransportStep

LEMMA TruthApi == ASSUME PoolInv, TruthInv, ApiStep PROVE TruthInv'
<1>1. /\ UNCHANGED <<pc, cmd, outcome, report>>
      /\ DOMAIN call = Proc /\ DOMAIN wire = Proc
  BY DEF ApiStep, AnswerReplies, AnswerRead, Apply, AnswerThread, Unchanged,
         PoolInv, ControlInv, WireInv
<1>2. ASSUME NEW p \in Proc, NEW path, NEW value, AnswerGet(p, path, value), Unchanged
      PROVE  TruthInv'
  <2>1. wire' = wire /\ applied' = applied
    BY <1>2 DEF AnswerGet, Unchanged
  <2>2. \/ call'[Main] = call[Main]
        \/ \E reply : /\ call[Main].state = "sent"
                      /\ call'[Main] = Call("done", call[Main].request,
                                            call[Main].attempt, reply)
                      /\ reply.status = "ok" => call[Main].request.method = "GET"
    BY <1>1, <1>2, Threads DEF AnswerGet, Waits, Finish
  <2> QED BY <1>1, <2>1, <2>2, TruthFrame
<1>3. ASSUME Lose(Main), Unchanged PROVE TruthInv'
  <2>1. wire'[Main] = {} /\ call' = call /\ applied' = applied
    BY <1>1, <1>3, Threads DEF Lose, Unchanged
  <2> QED BY <1>1, <2>1, TruthFrame
<1>4. ASSUME Apply, cmd.op \in Changes PROVE TruthInv'
  <2>1. PICK m \in wire[Main] :
          Take(Main, m, Len(applied) + 1) /\ applied' = Append(applied, m.request)
    BY <1>4 DEF Apply
  <2>2. wire'[Main] = wire[Main] \ {m}
    BY <1>1, <2>1, Threads DEF Take
  <2>3. CASE pc \in {"create", "comment"}
    <3>1. applied = <<>> /\ wire'[Main] = {}
      BY <1>4, <2>1, <2>2, <2>3 DEF TruthInv
    <3>2. Len(applied) = 0 /\ Len(applied') = 1
      BY <2>1, <3>1
    <3>3. CASE UNCHANGED call
      BY <1>1, <1>4, <2>1, <2>3, <3>1, <3>3 DEF TruthInv, Has
    <3>4. CASE call[Main].state = "sent" /\ Finish(Main, "ok", Len(applied) + 1)
      <4> DEFINE c == Call("done", call[Main].request, call[Main].attempt,
                           [status |-> "ok", value |-> 1])
      <4>1. call'[Main] = c
        BY <1>1, <3>2, <3>4, Threads DEF Finish
      <4>2. /\ c.state = "done" /\ c.request = call[Main].request
            /\ c.attempt = call[Main].attempt /\ c.reply.value = 1
        BY DEF Call
      <4> HIDE DEF c
      <4> QED BY <1>1, <1>4, <2>3, <3>1, <3>2, <4>1, <4>2 DEF TruthInv, Has, Value
    <3> QED BY <2>1, <3>3, <3>4 DEF Take
  <2>4. CASE pc = "end" /\ outcome # "ok"
    <3>1. call'[Main].state = "none"
      BY <1>4, <2>1, <2>4 DEF Take, TruthInv
    <3> QED BY <1>1, <1>4, <2>4, <3>1 DEF TruthInv
  <2> QED BY <1>4, <2>1, <2>3, <2>4 DEF TruthInv
<1> QED BY <1>1, <1>2, <1>3, <1>4, Threads
        DEF ApiStep, AnswerReplies, AnswerRead, AnswerThread, TruthInv

LEMMA TruthStep == PoolInv /\ TruthInv /\ [Next]_vars => TruthInv'
<1> SUFFICES ASSUME PoolInv, TruthInv, [Next]_vars PROVE TruthInv'
  OBVIOUS
<1>1. ASSUME NEW r \in Runner, Resume(r) PROVE TruthInv'
  <2>1. pc = "loading" /\ cmd' = cmd
    BY <1>1 DEF Resume
  <2>2. cmd.op = "get-replies"
    BY <2>1 DEF PoolInv, ControlInv
  <2> QED BY <2>1, <2>2 DEF TruthInv, Changes
<1>2. ASSUME NEW p \in Proc, ProcessStep(p) PROVE TruthInv'
  BY <1>1, <1>2, TruthMain, TruthTransport DEF ProcessStep
<1>3. ASSUME Kill PROVE TruthInv'
  BY <1>3, TruthEnd DEF Kill
<1>4. ASSUME UNCHANGED vars PROVE TruthInv'
  BY <1>4 DEF vars, transportVars, TruthInv, Has, Value
<1> QED BY <1>2, <1>3, <1>4, TruthApi DEF Next

\* ExitTellsTruth: a command that succeeds has made its one change, and one that
\* fails after its ticket was made does not hide the ticket.
THEOREM ExitsAreTrue == Spec => []ExitTellsTruth
<1>1. Init => TruthInv
  <2> SUFFICES ASSUME Init PROVE TruthInv
    OBVIOUS
  <2>1. call[Main].state = "none" /\ wire[Main] = {}
    BY Threads DEF Init, TransportInit, NoCall, Call
  <2> QED BY <2>1 DEF Init, TruthInv
<1>2. TruthInv /\ TypeOK => ExitTellsTruth
  BY DEF TruthInv, ExitTellsTruth, TypeOK
<1> QED BY <1>1, <1>2, PoolInit, PoolStep, TruthStep, TypeCorrect, PTL DEF Spec
=============================================================================
