----------------------------- MODULE Transport -----------------------------
(***************************************************************************)
(* MyAccountApiTransport: the one request a command waits for at a time.   *)
(*                                                                         *)
(* A GET is tried twice when it times out, meets a network error or one of *)
(* the statuses 500, 502, 503, 504; any other request is sent once. What   *)
(* was sent is out of the hands of the process: a change may be applied    *)
(* after the process has given up on it. GETs change nothing, so only the  *)
(* changes that the API has not taken yet are kept on the wire.            *)
(***************************************************************************)
EXTENDS Naturals

CONSTANTS
    Proc,   \* processes of the CLI
    None    \* an absent value

\* undefined and null are neither texts nor numbers.
ASSUME NoneAssumption == None \notin STRING /\ None \notin Nat

VARIABLES
    call,   \* call[p]: the request that p waits for, or its result
    wire    \* wire[p]: the changes p asked for and the API has not taken

transportVars == <<call, wire>>

Call(state, request, attempt, reply) ==
    [state |-> state, request |-> request, attempt |-> attempt, reply |-> reply]

NoCall == Call("none", None, 0, None)

TransportInit ==
    /\ call = [p \in Proc |-> NoCall]
    /\ wire = [p \in Proc |-> {}]

Request(method, path, arg) == [method |-> method, path |-> path, arg |-> arg]

\* A faulty variant: every request is tried twice.
MaxAttemptsOfAny(method) == 2

MaxAttempts(method) == IF method = "GET" THEN 2 ELSE 1

Message(request, attempt) == [request |-> request, attempt |-> attempt]

OnWire(p, request, attempt) ==
    IF request.method = "GET" THEN wire
    ELSE [wire EXCEPT ![p] = @ \cup {Message(request, attempt)}]

Send(p, request) ==
    /\ call' = [call EXCEPT ![p] = Call("sent", request, 1, None)]
    /\ wire' = OnWire(p, request, 1)

\* p waits for an answer to a request for this path.
Waits(p, path) == call[p].state = "sent" /\ call[p].request.path = path

\* The result that the code after `await` sees.
Has(p, status) == call[p].state = "done" /\ call[p].reply.status = status

Value(p) == call[p].reply.value

Finish(p, status, value) ==
    call' = [call EXCEPT ![p] = Call("done", @.request, @.attempt,
                                     [status |-> status, value |-> value])]

-----------------------------------------------------------------------------
\* The API answers a GET.
AnswerGet(p, path, value) ==
    /\ Waits(p, path) /\ call[p].request.method = "GET"
    /\ Finish(p, "ok", value)
    /\ UNCHANGED wire

(***************************************************************************)
(* The API applies a change; the caller's state change goes with it. The   *)
(* answer may be too late, or p may not be waiting for it any more.        *)
(***************************************************************************)
Take(p, m, value) ==
    /\ m \in wire[p]
    /\ wire' = [wire EXCEPT ![p] = @ \ {m}]
    /\ \/ /\ call[p].state = "sent" /\ m = Message(call[p].request, call[p].attempt)
          /\ Finish(p, "ok", value)
       \/ UNCHANGED call

\* A timeout, a network error or a retryable status ends the attempt.
AttemptFails(p, status) ==
    /\ call[p].state = "sent"
    /\ IF call[p].attempt < MaxAttempts(call[p].request.method)
       THEN /\ call' = [call EXCEPT ![p] =
                           Call("sent", @.request, @.attempt + 1, None)]
            /\ wire' = OnWire(p, call[p].request, call[p].attempt + 1)
       ELSE Finish(p, status, None) /\ UNCHANGED wire

\* The API refuses the request, or its answer is not what the client expects.
Refused(p) ==
    /\ call[p].state = "sent"
    /\ Finish(p, "failed", None)
    /\ wire' = [wire EXCEPT ![p] = @ \ {Message(call[p].request, call[p].attempt)}]

Lose(p) == wire[p] # {} /\ wire' = [wire EXCEPT ![p] = {}] /\ UNCHANGED call

TransportStep(p) ==
    \/ \E status \in {"timeout", "failed"} : AttemptFails(p, status)
    \/ Refused(p)
=============================================================================
