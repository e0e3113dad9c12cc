------------------------------ MODULE ReplyMap ------------------------------
(***************************************************************************)
(* What `support-ticket get-replies` promises: the replies of the ticket   *)
(* are read once, each is shown at its own place with its own text, whole  *)
(* if it was not cut and else whole or marked as cut, and there is a       *)
(* warning for those that stay cut. How many are loaded at a time, and in  *)
(* which order, is left open.                                              *)
(***************************************************************************)
EXTENDS Sequences

CONSTANTS
    ReplyLists,  \* lists of replies a ticket may have
    Missing      \* the result of a reply that was not looked at yet

VARIABLES
    phase,       \* "listing", "loading", "shown" or "failed"
    threads,     \* the replies that were read
    results,     \* results[i]: what is shown for threads[i]
    cut          \* the places of the replies that the warning counts

vars == <<phase, threads, results, cut>>

Init == phase = "listing" /\ threads = <<>> /\ results = <<>> /\ cut = {}

Item(id, of, whole, complete) ==
    [id |-> id, of |-> of, whole |-> whole, complete |-> complete]

MayShow(thread) ==
    {Item(thread.id, thread.id, w, w) :
        w \in IF thread.cut THEN BOOLEAN ELSE {TRUE}}

List ==
    /\ phase = "listing" /\ phase' = "loading"
    /\ threads' \in ReplyLists
    /\ results' = [i \in DOMAIN threads' |-> Missing]
    /\ UNCHANGED cut

Load(i) ==
    /\ phase = "loading" /\ results[i] = Missing
    /\ \E item \in MayShow(threads[i]) : results' = [results EXCEPT ![i] = item]
    /\ UNCHANGED <<phase, threads, cut>>

Show ==
    /\ phase = "loading" /\ phase' = "shown"
    /\ \A i \in DOMAIN threads : results[i] # Missing
    /\ cut' = {i \in DOMAIN threads : ~results[i].whole}
    /\ UNCHANGED <<threads, results>>

Fail ==
    /\ phase \in {"listing", "loading"} /\ phase' = "failed"
    /\ UNCHANGED <<threads, results, cut>>

Next == List \/ (\E i \in DOMAIN threads : Load(i)) \/ Show \/ Fail

Spec == Init /\ [][Next]_vars
=============================================================================
