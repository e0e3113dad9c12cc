------------------------------ MODULE SshKeys ------------------------------
(***************************************************************************)
(* SshKeyService: create, delete, get, list. A creation reads the public   *)
(* key from a file or from stdin first; get looks for the key in the list. *)
(***************************************************************************)
EXTENDS CliCommand

CONSTANTS
    SavedKeys, \* the SSH keys at first
    NewKeys    \* ids the API gives to new keys

VARIABLES keys \* the SSH keys of the API

KeysInit == keys = SavedKeys

-----------------------------------------------------------------------------
IsReadable(line) == line.readable

\* EMPTY_PUBLIC_KEY, PUBLIC_KEY_READ_FAILED
KeyUnusable(p) == Begins(p, "key-create") /\ ~IsReadable(cmd[p]) /\ Fail(p)

CreateKey(p) ==
    /\ Begins(p, "key-create") /\ IsReadable(cmd[p])
    /\ Ask(p, "key-made", Request("POST", "keys", None))

KeyMade(p) == pc[p] = "key-made" /\ Has(p, "ok") /\ Succeed(p, Value(p))

DeleteKey(p) ==
    SendChange(p, "key-delete", Request("DELETE", "keys", cmd[p].target))

AskForKeys(p, label) == Ask(p, label, Request("GET", "keys", None))

ReadKeys(p) ==
    pc[p] = "ready" /\ cmd[p].op \in {"key-get", "key-list"} /\ AskForKeys(p, "key-read")

KeysRead(p) == pc[p] = "key-read" /\ Has(p, "ok")

KeysShown(p) == KeysRead(p) /\ cmd[p].op = "key-list" /\ Succeed(p, Value(p))

KeyShown(p) ==
    /\ KeysRead(p) /\ cmd[p].op = "key-get" /\ cmd[p].target \in Value(p)
    /\ Succeed(p, cmd[p].target)

\* SSH_KEY_NOT_FOUND
KeyUnknown(p) ==
    KeysRead(p) /\ cmd[p].op = "key-get" /\ cmd[p].target \notin Value(p) /\ Fail(p)

-----------------------------------------------------------------------------
(* The API (external).                                                     *)

MakeKey(p) ==
    /\ \E m \in wire[p], k \in NewKeys :
         /\ m.request.path = "keys" /\ m.request.method = "POST"
         /\ \A q \in Proc : k \notin created[q]
         /\ Take(p, m, k)
         /\ keys' = keys \cup {k}
         /\ created' = [created EXCEPT ![p] = @ \cup {k}]
    /\ UNCHANGED <<progressVars, disturbed>>

DropKey(p) ==
    /\ \E m \in wire[p] :
         /\ m.request.path = "keys" /\ m.request.method = "DELETE"
         /\ m.request.arg \in keys
         /\ Take(p, m, None)
         /\ keys' = keys \ {m.request.arg}
    /\ UNCHANGED commandVars

AnswerKeys(p) == AnswerGet(p, "keys", keys) /\ UNCHANGED <<commandVars, keys>>

-----------------------------------------------------------------------------
KeyStep(p) ==
    /\ \/ KeyUnusable(p) \/ CreateKey(p) \/ KeyMade(p) \/ DeleteKey(p) \/ ReadKeys(p)
       \/ KeysShown(p) \/ KeyShown(p) \/ KeyUnknown(p)
       \/ Uncaught(p, {"key-made", "key-read"})
    /\ UNCHANGED keys

KeyApi(p) == MakeKey(p) \/ DropKey(p) \/ AnswerKeys(p)
=============================================================================
