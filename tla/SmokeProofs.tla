---------------------------- MODULE SmokeProofs ----------------------------
(***************************************************************************)
(* Proofs about the release smoke test and its cleanup, for any number of  *)
(* polls before a deadline and any number of unanswered requests.          *)
(***************************************************************************)
EXTENDS SmokeProperties, TLAPS

-----------------------------------------------------------------------------
(***************************************************************************)
(* The invariant. m is the manifest, or the draft of it that a program is  *)
(* writing; n is a step of the test or of the cleanup.                     *)
(***************************************************************************)

\* What the test has recorded, or marked, before its step n. The image may be
\* marked as deleted by the step that creates it.
CreatedBefore(n) ==
    {"rules"} \cup {r \in Resource : \E i \in 1 .. Len(SmokeScript) :
                                      i < n /\ SmokeScript[i] = Do("create", r)}

MarkedBefore(n) ==
    {r \in Resource : \E i \in 1 .. Len(SmokeScript) :
        i < n /\ SmokeScript[i] \in {Do("create", r), Do("delete", r)}}

IsHistory(m, n) ==
    /\ m.whole
    /\ m.ids \subseteq CreatedBefore(n) /\ m.deleted \subseteq MarkedBefore(n)
    /\ n > 1 => "node" \in m.ids

\* The cleanup has no more to do before its step n.
IsClean(m, n) ==
    \A i \in 1 .. Len(CleanupSteps) : i < n =>
        LET q == CleanupSteps[i].request
        IN  /\ q.do = "delete" => q.of \notin m.ids \ m.deleted
            /\ q.do = "unlink" => q.of \notin m.ids

\* A manifest m, the cloud c and the requests l that may arrive late agree:
\* what is marked as deleted is gone, what is in use has a node, nothing that is
\* recorded will be created again, and the node is the first that is recorded.
Agrees(m, c, l) ==
    /\ \A r \in Resource \ IPs : r \in m.ids \cap m.deleted => r \notin c.exists
    /\ "node" \in c.exists \/ c.attached \cap m.ids = {}
    /\ \A r \in m.ids : Do("create", r) \notin l
    /\ "node" \in m.ids \/ m.ids \subseteq {"rules"}

\* The requests that the programs send.
IsAsked(q) ==
    /\ q \in Request /\ q # Do("create", "rules")
    /\ q.do = "attach" => q.of \in Attachable
    /\ q.do = "unlink" => q.of = "rules"

IsGone(q, c) == q.do = "delete" /\ q.of \notin IPs => q.of \notin c.exists

SmokeInv ==
    /\ phase \in {"do", "record", "write", "throw"}
    /\ phase \in {"record", "write"} => at <= Len(SmokeScript)
    /\ phase # "throw" =>
         /\ late = {}
         /\ at < 21 /\ (at > 1 \/ phase # "do") => "node" \in cloud.exists
    /\ IF phase = "write" THEN IsHistory(draft, at + 1) ELSE IsHistory(manifest, at)
    /\ phase = "record" => IsGone(SmokeScript[at], cloud)

CleanupInv ==
    /\ phase \in {"load", "cli", "find", "detach", "wait", "act", "record", "write"}
    /\ phase # "load" => at <= Len(CleanupSteps)
    /\ at > 1 /\ phase = "load" => manifest.whole
    /\ at <= Len(CleanupSteps) + 1
    /\ phase \notin {"load", "write"} => manifest.whole /\ ~NothingToDo(step, manifest)
    /\ phase \in {"find", "wait"} => CleanupSteps[at].fallback = phase
    /\ phase = "detach" => CleanupSteps[at].fallback = "find" /\ step.do = "delete"
    /\ phase = "record" => IsGone(step, cloud)
    /\ calm => late = {}
    /\ calm /\ phase = "act" /\ step = Do("delete", "volume") =>
         "volume" \notin cloud.busy
    /\ calm \/ ~hadFailures =>
         IF phase = "write" THEN IsClean(draft, at + 1) ELSE IsClean(manifest, at)

IdleInv ==
    /\ at = 1 /\ phase = "load"
    /\ result = "ok" => manifest.whole
    /\ result = "ok" \/ (result = "failed" /\ calm) =>
         IsClean(manifest, Len(CleanupSteps) + 1)

ManifestInv ==
    /\ TypeOK
    /\ \A q \in late : IsAsked(q)
    /\ Agrees(manifest, cloud, late) /\ Agrees(draft, cloud, late)
    /\ draft.whole /\ (phase # "write" => draft = NewManifest)
    /\ mode # "idle" => result = "none"
    /\ mode = "smoke" => SmokeInv
    /\ mode = "cleanup" => CleanupInv
    /\ mode = "idle" => IdleInv

-----------------------------------------------------------------------------
(***************************************************************************)
(* The two programs' steps.                                                *)
(***************************************************************************)
LEMMA ScriptRequests ==
    /\ Len(SmokeScript) = 23
    /\ \A i \in 1 .. 23 : IsAsked(SmokeScript[i])
<1>1. Len(SmokeScript) = 23
  BY DEF SmokeScript
<1>2. \A i \in 1 .. 23 :
        \E d \in {"create", "attach", "detach", "delete"} :
          \E r \in Attachable \cup {"node", "image"} :
            /\ SmokeScript[i] = Do(d, r)
            /\ d = "attach" => r \in Attachable
  BY DEF SmokeScript, Attachable
<1> QED BY <1>1, <1>2 DEF IsAsked, Request, Do, Resource, Attachable

\* Each resource is created once, the node first and the image never deleted.
LEMMA ScriptOrder ==
    /\ \A i, j \in 1 .. 23 : \A r : i < j /\ SmokeScript[j] = Do("create", r) =>
         SmokeScript[i] \notin {Do("create", r), Do("delete", r)}
    /\ SmokeScript[1].do = "create" /\ SmokeScript[1].of = "node"
    /\ \A i \in 1 .. 23 :
         SmokeScript[i].do = "delete" /\ SmokeScript[i].of = "node" <=> i = 21
    /\ \A i \in 1 .. 23 : SmokeScript[i].do = "create" => i < 21
<1> DEFINE At(r) == CASE r = "node" -> 1 [] r = "group" -> 2 [] r = "addon" -> 5
                      [] r = "volume" -> 9 [] r = "vpc" -> 13 [] r = "key" -> 17
                      [] r = "image" -> 19 [] r = "preserved" -> 20 [] OTHER -> 0
<1>1. \A i \in 1 .. 23 : SmokeScript[i].do = "create" =>
        i = At(SmokeScript[i].of) /\ i < 21
  BY DEF SmokeScript, Do
<1>2. \A i \in 1 .. 23 : SmokeScript[i].do = "delete" => i > At(SmokeScript[i].of)
  BY DEF SmokeScript, Do
<1>3. \A i \in 1 .. 23 :
        SmokeScript[i].do = "delete" /\ SmokeScript[i].of = "node" <=> i = 21
  BY DEF SmokeScript, Do
<1>4. SmokeScript[1].do = "create" /\ SmokeScript[1].of = "node"
  BY DEF SmokeScript, Do
<1> HIDE DEF At
<1>5. \A r, d : Do(d, r).do = d /\ Do(d, r).of = r
  BY DEF Do
<1>6. ASSUME NEW i \in 1 .. 23, NEW j \in 1 .. 23, NEW r, i < j,
             SmokeScript[j] = Do("create", r)
      PROVE  SmokeScript[i] \notin {Do("create", r), Do("delete", r)}
  <2>1. j = At(r)
    BY <1>1, <1>5, <1>6
  <2>2. SmokeScript[i] = Do("create", r) => i = At(r)
    BY <1>1, <1>2, <1>5
  <2>3. SmokeScript[i] = Do("delete", r) => i > At(r)
    BY <1>1, <1>2, <1>5
  <2> QED BY <1>6, <2>1, <2>2, <2>3
<1> QED BY <1>1, <1>3, <1>4, <1>6

LEMMA CleanupRequests ==
    /\ Len(CleanupSteps) = 12
    /\ \A i \in 1 .. 12 :
         LET s == CleanupSteps[i]
         IN  /\ IsAsked(s.request) /\ s.request.do \in {"detach", "delete", "unlink"}
             /\ s.first \in {"cli", "act"} /\ s.fallback \in {"find", "wait", "act"}
             /\ s.fallback = "find" =>
                  s.request \in {Do("detach", "addon"), Do("detach", "volume"),
                                Do("delete", "addon"), Do("delete", "preserved")}
             /\ s.fallback = "wait" =>
                  s.request \in {Do("delete", "volume"), Do("delete", "vpc")}
<1>1. Len(CleanupSteps) = 12
  BY DEF CleanupSteps
<1>2. \A i \in 1 .. 12 : CleanupSteps[i] \in
        {DetachAddon, DetachVolume, DetachVpc, DeleteNode, DeleteIp("addon"),
         DeleteIp("preserved"), DeleteVolume, DeleteVpc, DeleteImage, DeleteKey,
         DeleteGroup, UnlinkRules}
  BY DEF CleanupSteps
<1> QED BY <1>1, <1>2
        DEF DetachAddon, DetachVolume, DetachVpc, DeleteNode, DeleteIp, DeleteVolume,
            DeleteVpc, DeleteImage, DeleteKey, DeleteGroup, UnlinkRules,
            CleanupStepOf, Do, IsAsked, Request, Resource, Attachable

-----------------------------------------------------------------------------
(***************************************************************************)
(* The cloud.                                                              *)
(***************************************************************************)

\* The fields of the cloud after a request is carried out.
LEMMA AfterFields ==
    ASSUME NEW c \in Cloud, NEW q, IsAsked(q)
    PROVE  LET d == After(q, c)
           IN  /\ d = [exists |-> d.exists, attached |-> d.attached, busy |-> d.busy]
               /\ q.do = "create" =>
                    /\ d.exists = c.exists \cup {q.of}
                    /\ d.attached = c.attached \cup ({q.of} \cap {"preserved"})
                    /\ d.busy = c.busy \cup ({q.of} \cap Slow)
               /\ q.do = "attach" =>
                    /\ d.exists = c.exists /\ d.attached = c.attached \cup {q.of}
                    /\ d.busy = c.busy
               /\ q.do = "detach" =>
                    /\ d.exists = c.exists /\ d.attached = c.attached \ {q.of}
                    /\ d.busy = c.busy \cup ({q.of} \cap Slow)
               /\ q.do = "delete" /\ q.of = "node" =>
                    /\ d.exists = c.exists \ {"node"} /\ d.attached = {}
                    /\ d.busy = c.busy \cup (c.attached \cap Slow)
               /\ q.do = "unlink" \/ (q.do = "delete" /\ q.of # "node") =>
                    /\ d.exists = c.exists \ {q.of} /\ d.attached = c.attached \ {q.of}
                    /\ d.busy = c.busy
<1>1. c = [exists |-> c.exists, attached |-> c.attached, busy |-> c.busy]
  BY DEF Cloud
<1>2. CASE q.do = "create"
  <2>1. After(q, c) = [exists   |-> c.exists \cup {q.of},
                       attached |-> c.attached \cup ({q.of} \cap {"preserved"}),
                       busy     |-> c.busy \cup ({q.of} \cap Slow)]
    BY <1>2 DEF After
  <2> QED BY <1>2, <2>1
<1>3. CASE q.do = "attach"
  <2>1. After(q, c) = [c EXCEPT !.attached = @ \cup {q.of}]
    BY <1>3 DEF After
  <2> QED BY <1>1, <1>3, <2>1
<1>4. CASE q.do = "detach"
  <2>1. After(q, c) = [c EXCEPT !.attached = @ \ {q.of},
                                !.busy = @ \cup ({q.of} \cap Slow)]
    BY <1>4 DEF After
  <2> QED BY <1>1, <1>4, <2>1
<1>5. CASE q.do = "delete" /\ q.of = "node"
  BY <1>5 DEF After
<1>6. CASE q.do = "unlink" \/ (q.do = "delete" /\ q.of # "node")
  BY <1>1, <1>6 DEF After
<1>7. q.do \in {"create", "attach", "detach", "delete", "unlink"}
  BY DEF IsAsked, Request
<1> QED BY <1>2, <1>3, <1>4, <1>5, <1>6, <1>7

\* What a request can change.
LEMMA GrantedEffect ==
    ASSUME NEW c \in Cloud, NEW q, IsAsked(q)
    PROVE  LET d == Granted(q, c)
           IN  /\ d \in Cloud
               /\ d.exists \subseteq c.exists \cup (IF q.do = "create" THEN {q.of} ELSE {})
               /\ "node" \in d.exists \/ d.attached = {} \/
                    (d.attached \subseteq c.attached \cup
                       (IF q.do = "create" THEN {q.of} ELSE {}) /\ "node" \notin c.exists)
<1> DEFINE d == Granted(q, c)
           e == After(q, c)
<1>1. /\ c.exists \subseteq Resource /\ c.attached \subseteq Attachable
      /\ c.busy \subseteq Slow /\ q.of \in Resource
      /\ q.do \in {"create", "attach", "detach", "delete", "unlink"}
      /\ q.do = "attach" => q.of \in Attachable
  BY DEF Cloud, IsAsked, Request
<1>2. Slow \subseteq Attachable /\ "preserved" \in Attachable
  BY DEF Slow, Attachable
<1>3. CASE d = c
  BY <1>1, <1>3 DEF Cloud
<1>4. CASE ~Missing(q, c) /\ d = e
  <2>1. /\ e.exists \subseteq Resource /\ e.attached \subseteq Attachable
        /\ e.busy \subseteq Slow
        /\ e = [exists |-> e.exists, attached |-> e.attached, busy |-> e.busy]
    BY <1>1, <1>2, AfterFields
  <2>2. e.exists \subseteq c.exists \cup (IF q.do = "create" THEN {q.of} ELSE {})
    BY <1>1, AfterFields
  <2>3. q.do = "attach" => "node" \in c.exists
    BY <1>4 DEF Missing
  <2>4. "node" \in e.exists \/ e.attached = {} \/
          (e.attached \subseteq c.attached \cup
             (IF q.do = "create" THEN {q.of} ELSE {}) /\ "node" \notin c.exists)
    BY <1>1, <2>3, AfterFields DEF IsAsked
  <2> HIDE DEF e
  <2>5. e \in Cloud
    BY <2>1 DEF Cloud
  <2> QED BY <1>4, <2>2, <2>4, <2>5 DEF e
<1> QED BY <1>3, <1>4 DEF Granted, Answer

\* Only the deletion of the node takes the node away.
LEMMA NodeStays ==
    ASSUME NEW c \in Cloud, NEW q, IsAsked(q), "node" \in c.exists,
           ~(q.do = "delete" /\ q.of = "node")
    PROVE  "node" \in Granted(q, c).exists
<1>1. q.do \in {"create", "attach", "detach", "delete", "unlink"}
  BY DEF IsAsked, Request
<1> QED BY <1>1, AfterFields DEF Granted, IsAsked

\* What was deleted, or not found, is gone.
LEMMA DeletedIsGone ==
    ASSUME NEW c \in Cloud, NEW q, IsAsked(q), Settled(Answer(q, c))
    PROVE  IsGone(q, Granted(q, c))
<1> SUFFICES ASSUME q.do = "delete"
             PROVE  q.of \notin Granted(q, c).exists
  BY DEF IsGone
<1> QED BY AfterFields DEF Settled, Answer, Missing, Granted

LEMMA CreatedExists ==
    ASSUME NEW c \in Cloud, NEW q, IsAsked(q), q.do = "create", Answer(q, c) = "ok"
    PROVE  q.of \in Granted(q, c).exists
BY AfterFields DEF Granted

\* A request that is carried out, now or later, leaves manifest and cloud in
\* agreement if it does not create what is recorded.
LEMMA AgreesGranted ==
    ASSUME NEW c \in Cloud, NEW q, IsAsked(q), NEW l, NEW k, k \subseteq l,
           NEW m, Agrees(m, c, l), q.do = "create" => q.of \notin m.ids
    PROVE  Agrees(m, Granted(q, c), k)
BY GrantedEffect DEF Agrees

LEMMA AgreesLater ==
    ASSUME NEW c, NEW q, NEW l, NEW k, k \subseteq l \cup {q},
           NEW m, Agrees(m, c, l), q.do = "create" => q.of \notin m.ids
    PROVE  Agrees(m, c, k)
BY DEF Agrees, Do

LEMMA AgreesNew ==
    ASSUME NEW c \in Cloud, NEW l, \A q \in l : IsAsked(q)
    PROVE  Agrees(NewManifest, c, l) /\ Agrees(TornManifest, c, l)
BY DEF Agrees, NewManifest, TornManifest, IsAsked, Cloud, Attachable

LEMMA RecordedType ==
    ASSUME NEW m \in Manifest, NEW q, IsAsked(q)
    PROVE  /\ Recorded(q, m) \in Manifest
           /\ Recorded(q, m).whole = m.whole
           /\ Recorded(q, m).ids = IF q.do = "create" THEN m.ids \cup {q.of}
                                   ELSE IF q.do = "unlink" THEN m.ids \ {q.of}
                                   ELSE m.ids
           /\ Recorded(q, m).deleted = IF q.do = "delete" THEN m.deleted \cup {q.of}
                                       ELSE m.deleted
BY DEF Manifest, Recorded, IsAsked, Request, Resource, Attachable

LEMMA AgreesRecorded ==
    ASSUME NEW c, NEW q, IsAsked(q), NEW l, NEW m \in Manifest, Agrees(m, c, l),
           IsGone(q, c),
           q.do = "create" => /\ l = {} /\ q.of \notin m.deleted /\ "node" \in c.exists
                              /\ "node" \in m.ids \/ q.of = "node"
    PROVE  Agrees(Recorded(q, m), c, l)
<1> DEFINE d == Recorded(q, m)
<1>1. /\ d.ids = IF q.do = "create" THEN m.ids \cup {q.of}
                 ELSE IF q.do = "unlink" THEN m.ids \ {q.of} ELSE m.ids
      /\ d.deleted = IF q.do = "delete" THEN m.deleted \cup {q.of} ELSE m.deleted
      /\ q.do = "unlink" => q.of = "rules"
  BY RecordedType DEF IsAsked
<1> HIDE DEF d
<1>2. CASE q.do = "create"
  BY <1>1, <1>2 DEF Agrees, d
<1>3. CASE q.do # "create"
  BY <1>1, <1>3 DEF Agrees, IsGone, d
<1> QED BY <1>2, <1>3

\* What the test knows grows with its steps.
LEMMA HistoryGrows ==
    ASSUME NEW n \in 1 .. 23, NEW m \in Manifest, IsHistory(m, n),
           NEW d \in Manifest, d.whole,
           \/ d = Recorded(SmokeScript[n], m)
           \/ SmokeScript[n] = Do("create", "image") /\ d = ImageWithoutId(m)
    PROVE  IsHistory(d, n + 1)
<1> DEFINE q == SmokeScript[n]
<1>1. IsAsked(q) /\ q = Do(q.do, q.of) /\ q.of \in Resource /\ q.do # "unlink"
  <2>1. \A i \in 1 .. 23 : SmokeScript[i].do # "unlink"
    BY DEF SmokeScript, Do
  <2> QED BY <2>1, ScriptRequests DEF IsAsked, Request, Do
<1>2. CreatedBefore(n) \subseteq CreatedBefore(n + 1)
      /\ MarkedBefore(n) \subseteq MarkedBefore(n + 1)
  BY ScriptRequests DEF CreatedBefore, MarkedBefore
<1>3. q.do = "create" => q.of \in CreatedBefore(n + 1)
  BY <1>1, ScriptRequests DEF CreatedBefore
<1>4. q.do \in {"create", "delete"} => q.of \in MarkedBefore(n + 1)
  BY <1>1, ScriptRequests DEF MarkedBefore
<1>5. \A r : Do("create", r).do = "create" /\ Do("create", r).of = r
  BY DEF Do
<1>6. n = 1 => q.do = "create" /\ q.of = "node"
  BY ScriptOrder
<1> HIDE DEF q
<1>7. CASE d = Recorded(q, m)
  <2>1. /\ d.ids = IF q.do = "create" THEN m.ids \cup {q.of}
                   ELSE IF q.do = "unlink" THEN m.ids \ {q.of} ELSE m.ids
        /\ d.deleted = IF q.do = "delete" THEN m.deleted \cup {q.of} ELSE m.deleted
    BY <1>1, <1>7, RecordedType
  <2>2. "node" \in d.ids
    BY <1>1, <1>5, <1>6, <2>1 DEF IsHistory
  <2> QED BY <1>1, <1>2, <1>3, <1>4, <2>1, <2>2 DEF IsHistory
<1>8. CASE q = Do("create", "image") /\ d = ImageWithoutId(m)
  <2>1. d.ids = m.ids /\ d.deleted = m.deleted \cup {"image"}
    BY <1>8 DEF ImageWithoutId, Manifest
  <2>2. n > 1 /\ q.of = "image" /\ q.do = "create"
    BY <1>5, <1>6, <1>8
  <2> QED BY <1>2, <1>4, <2>1, <2>2 DEF IsHistory
<1> QED BY <1>7, <1>8 DEF q

\* What the test is about to create is not recorded, nor marked.
LEMMA NothingCreatedTwice ==
    ASSUME NEW n \in 1 .. 23, NEW m, IsHistory(m, n), SmokeScript[n].do = "create"
    PROVE  SmokeScript[n].of \notin m.ids \cup m.deleted
<1> DEFINE r == SmokeScript[n].of
<1>1. SmokeScript[n] = Do("create", r) /\ r # "rules"
  BY ScriptRequests DEF IsAsked, Request, Do
<1> HIDE DEF r
<1>2. \A i \in 1 .. 23 : i < n => SmokeScript[i] \notin {Do("create", r), Do("delete", r)}
  BY <1>1, ScriptOrder
<1>3. r \notin CreatedBefore(n) /\ r \notin MarkedBefore(n)
  BY <1>1, <1>2, ScriptRequests DEF CreatedBefore, MarkedBefore
<1> QED BY <1>3 DEF IsHistory, r

-----------------------------------------------------------------------------
(***************************************************************************)
(* The steps of the test.                                                  *)
(***************************************************************************)
LEMMA TypeFacts ==
    ASSUME TypeOK
    PROVE  /\ at \in 1 .. 24 /\ cloud \in Cloud /\ manifest \in Manifest /\ draft \in Manifest
           /\ polls \in Nat /\ faults \in Nat /\ MaxPolls \in Nat /\ MaxFaults \in Nat
           /\ NewManifest \in Manifest /\ TornManifest \in Manifest
           /\ NewManifest.whole /\ NewManifest.ids = {"rules"} /\ NewManifest.deleted = {}
<1>1. /\ NewManifest.whole /\ NewManifest.ids = {"rules"} /\ NewManifest.deleted = {}
      /\ NewManifest \in Manifest
  BY DEF NewManifest, Manifest, Resource
<1>2. TornManifest \in Manifest
  BY <1>1 DEF TornManifest, Manifest
<1>3. /\ polls \in Nat /\ faults \in Nat /\ MaxPolls \in Nat /\ MaxFaults \in Nat
  BY SmokeAssumption DEF TypeOK
<1> QED BY <1>1, <1>2, <1>3, ScriptRequests DEF TypeOK

LEMMA SmokeCommandKeeps ==
    ASSUME ManifestInv, SmokeCommand
    PROVE  ManifestInv'
<1> DEFINE q == SmokeScript[at]
<1>1. /\ mode = "smoke" /\ at \in 1 .. 23 /\ phase = "do" /\ SmokeInv /\ TypeOK
      /\ mode' = mode /\ at' = at /\ phase' = "record" /\ cloud' = Granted(q, cloud)
      /\ UNCHANGED <<late, faults, calm, files, polls, hadFailures, result>>
      /\ Answer(q, cloud) = "ok" /\ late = {} /\ IsHistory(manifest, at)
      /\ draft = NewManifest
  BY ScriptRequests
     DEF ManifestInv, TypeOK, SmokeInv, SmokeCommand, InSmoke, Answered, Goto
<1>2. IsAsked(q) /\ cloud \in Cloud
  BY <1>1, ScriptRequests DEF TypeOK
<1>3. cloud' \in Cloud
  BY <1>1, <1>2, GrantedEffect
<1>4. TypeOK'
  BY <1>1, <1>3 DEF TypeOK, Phases, files
<1>5. /\ q.do = "create" => q.of \notin manifest.ids
      /\ q.do = "create" => q.of \notin draft.ids
  BY <1>1, <1>2, NothingCreatedTwice, TypeFacts DEF IsAsked, Request, Do
<1>6. Agrees(manifest', cloud', late') /\ Agrees(draft', cloud', late')
  BY <1>1, <1>2, <1>5, AgreesGranted DEF ManifestInv, files
<1>7. IsGone(q, cloud')
  BY <1>1, <1>2, DeletedIsGone DEF Settled
<1>8. at < 21 => "node" \in cloud'.exists
  <2>1. CASE at = 1
    <3>1. q.do = "create" /\ q.of = "node"
      BY <2>1, ScriptOrder
    <3> QED BY <1>1, <1>2, <3>1, CreatedExists
  <2>2. CASE at > 1 /\ at < 21
    <3>1. "node" \in cloud.exists
      BY <1>1, <2>2 DEF SmokeInv
    <3>2. ~(q.do = "delete" /\ q.of = "node")
      BY <1>1, <2>2, ScriptOrder
    <3> QED BY <1>1, <1>2, <3>1, <3>2, NodeStays
  <2> QED BY <1>1, <2>1, <2>2
<1> HIDE DEF q
<1>9. SmokeInv'
  BY <1>1, <1>7, <1>8, ScriptRequests DEF SmokeInv, files, q
<1> QED BY <1>1, <1>4, <1>6, <1>9 DEF ManifestInv, files

LEMMA SmokeCommandFailsKeeps ==
    ASSUME ManifestInv, SmokeCommandFails
    PROVE  ManifestInv'
<1> DEFINE q == SmokeScript[at]
<1>1. /\ mode = "smoke" /\ at \in 1 .. 23 /\ phase = "do" /\ SmokeInv /\ TypeOK
      /\ mode' = mode /\ at' = at /\ phase' = "throw" /\ faults' \in 0 .. MaxFaults
      /\ UNCHANGED <<files, polls, hadFailures, result>> /\ calm' = FALSE
      /\ \/ cloud' = Granted(q, cloud) /\ late' = late
         \/ cloud' = cloud /\ late' \subseteq late \cup {q}
      /\ late = {} /\ IsHistory(manifest, at) /\ draft = NewManifest
  BY ScriptRequests, TypeFacts
     DEF ManifestInv, TypeOK, SmokeInv, SmokeCommandFails, InSmoke, Unanswered, Goto
<1>2. IsAsked(q) /\ cloud \in Cloud
  BY <1>1, ScriptRequests DEF TypeOK
<1>3. cloud' \in Cloud /\ late' \subseteq {q}
  BY <1>1, <1>2, GrantedEffect
<1>4. \A r \in late' : IsAsked(r)
  BY <1>2, <1>3
<1>5. TypeOK'
  BY <1>1, <1>2, <1>3 DEF TypeOK, Phases, files, IsAsked
<1>6. /\ q.do = "create" => q.of \notin manifest.ids
      /\ q.do = "create" => q.of \notin draft.ids
  BY <1>1, <1>2, NothingCreatedTwice, TypeFacts DEF IsAsked, Request, Do
<1>7. Agrees(manifest', cloud', late') /\ Agrees(draft', cloud', late')
  BY <1>1, <1>2, <1>6, AgreesGranted, AgreesLater DEF ManifestInv, files
<1>8. SmokeInv'
  BY <1>1 DEF SmokeInv, files
<1> QED BY <1>1, <1>4, <1>5, <1>7, <1>8 DEF ManifestInv, files

LEMMA SmokeRecordsKeeps ==
    ASSUME ManifestInv, SmokeRecords
    PROVE  ManifestInv'
<1> DEFINE q == SmokeScript[at]
<1>1. /\ mode = "smoke" /\ at \in 1 .. 23 /\ phase = "record" /\ SmokeInv /\ TypeOK
      /\ UNCHANGED <<environment, mode, at, polls, hadFailures, result, calm>>
      /\ phase' = "write" /\ manifest' = TornManifest
      /\ late = {} /\ IsHistory(manifest, at) /\ Agrees(manifest, cloud, late)
      /\ IsGone(q, cloud)
      /\ \/ draft' = Recorded(q, manifest)
         \/ q.of = "image" /\ draft' = ImageWithoutId(manifest)
  BY ScriptRequests
     DEF ManifestInv, TypeOK, SmokeInv, SmokeRecords, InSmoke, Truncate, Goto
<1>2. IsAsked(q) /\ cloud \in Cloud /\ manifest \in Manifest
  BY <1>1, ScriptRequests DEF TypeOK
<1>3. q.of = "image" => q = Do("create", "image")
  BY <1>1 DEF SmokeScript, Do
<1>4. q.do = "create" => /\ q.of \notin manifest.ids \cup manifest.deleted
                         /\ "node" \in cloud.exists
                         /\ "node" \in manifest.ids \/ q.of = "node"
  <2>1. SUFFICES ASSUME q.do = "create"
                 PROVE  /\ q.of \notin manifest.ids \cup manifest.deleted
                        /\ "node" \in cloud.exists
                        /\ "node" \in manifest.ids \/ q.of = "node"
    OBVIOUS
  <2>2. at < 21
    BY <1>1, <2>1, ScriptOrder
  <2>3. "node" \in cloud.exists
    BY <1>1, <2>2 DEF SmokeInv
  <2>4. "node" \in manifest.ids \/ q.of = "node"
    BY <1>1, ScriptOrder DEF IsHistory
  <2> QED BY <1>1, <2>1, <2>3, <2>4, NothingCreatedTwice
<1>5. draft' \in Manifest /\ draft'.whole /\ Agrees(draft', cloud, late)
  <2>1. CASE draft' = Recorded(q, manifest)
    BY <1>1, <1>2, <1>4, <2>1, RecordedType, AgreesRecorded DEF IsHistory
  <2>2. CASE q.of = "image" /\ draft' = ImageWithoutId(manifest)
    <3>1. /\ draft' \in Manifest /\ draft'.whole = manifest.whole
          /\ draft'.ids = manifest.ids /\ draft'.deleted = manifest.deleted \cup {"image"}
      BY <1>2, <2>2 DEF ImageWithoutId, Manifest, Resource
    <3>2. "image" \notin manifest.ids
      BY <1>3, <1>4, <2>2 DEF Do
    <3> QED BY <1>1, <3>1, <3>2 DEF Agrees, IsHistory
  <2> QED BY <1>1, <2>1, <2>2
<1>6. IsHistory(draft', at + 1)
  BY <1>1, <1>2, <1>3, <1>5, HistoryGrows
<1>7. TypeOK' /\ TornManifest \in Manifest
  BY <1>1, <1>5, TypeFacts DEF TypeOK, Phases, environment
<1>8. Agrees(manifest', cloud', late')
  BY <1>1, <1>2, AgreesNew DEF ManifestInv, environment
<1> HIDE DEF q
<1>9. SmokeInv'
  BY <1>1, <1>6, ScriptRequests DEF SmokeInv, environment
<1> QED BY <1>1, <1>5, <1>7, <1>8, <1>9 DEF ManifestInv, environment

LEMMA SmokeWritesKeeps ==
    ASSUME ManifestInv, SmokeWrites
    PROVE  ManifestInv'
<1>1. /\ mode = "smoke" /\ at \in 1 .. 23 /\ phase = "write" /\ SmokeInv /\ TypeOK
      /\ UNCHANGED <<environment, mode, hadFailures, result, calm>>
      /\ phase' = "do" /\ manifest' = draft /\ draft' = NewManifest
      /\ at' = at + 1 /\ polls' = MaxPolls
  BY ScriptRequests
     DEF ManifestInv, TypeOK, SmokeInv, SmokeWrites, InSmoke, Fill, NextStep
<1>2. TypeOK'
  BY <1>1, TypeFacts, ScriptRequests DEF TypeOK, Phases, environment
<1>3. Agrees(manifest', cloud', late') /\ Agrees(draft', cloud', late')
  BY <1>1, TypeFacts, AgreesNew DEF ManifestInv, environment
<1>4. late = {} /\ (at < 21 => "node" \in cloud.exists) /\ IsHistory(draft, at + 1)
  BY <1>1 DEF SmokeInv
<1>5. SmokeInv'
  BY <1>1, <1>4 DEF SmokeInv, environment
<1> QED BY <1>1, <1>2, <1>3, <1>5, TypeFacts DEF ManifestInv, environment

\* A cleanup that starts knows nothing but that manifest and cloud agree.
LEMMA CleanupStartsKeeps ==
    ASSUME ManifestInv, CleanupStarts, phase # "write"
    PROVE  ManifestInv'
<1>1. /\ TypeOK /\ mode' = "cleanup" /\ at' = 1 /\ phase' = "load"
      /\ result' = "none"
      /\ UNCHANGED <<environment, files, polls>>
  BY DEF ManifestInv, CleanupStarts
<1>2. calm' \in BOOLEAN /\ hadFailures' \in BOOLEAN
  BY DEF CleanupStarts
<1>3. calm' => late = {}
  BY DEF CleanupStarts
<1>4. TypeOK'
  BY <1>1, <1>2, ScriptRequests DEF TypeOK, Phases, environment, files
<1>5. IsClean(manifest', 1)
  BY CleanupRequests DEF IsClean
<1>6. CleanupInv'
  BY <1>1, <1>3, <1>5, CleanupRequests DEF CleanupInv, environment, files
<1> QED BY <1>1, <1>4, <1>6 DEF ManifestInv, environment, files

LEMMA KilledKeeps ==
    ASSUME ManifestInv, Killed
    PROVE  ManifestInv'
<1> DEFINE asked == IF In("cli") THEN {step}
                    ELSE IF InSmoke("do") THEN {SmokeScript[at]} ELSE {}
<1>1. /\ TypeOK /\ mode # "idle" /\ mode' = "idle" /\ at' = 1 /\ phase' = "load"
      /\ polls' = MaxPolls /\ result' = "killed"
      /\ late' \subseteq late \cup asked /\ draft' = NewManifest
      /\ UNCHANGED <<cloud, faults, manifest, calm>>
  BY DEF ManifestInv, Killed, Ends
<1>2. \A q \in asked : /\ IsAsked(q)
                       /\ q.do = "create" => q.of \notin manifest.ids
  <2>1. CASE In("cli")
    <3>1. IsAsked(step) /\ step.do # "create"
      BY <1>1, <2>1, CleanupRequests DEF In, step, TypeOK
    <3> QED BY <2>1, <3>1
  <2>2. CASE ~In("cli") /\ InSmoke("do")
    <3>1. at \in 1 .. 23 /\ IsHistory(manifest, at)
      BY <1>1, <2>2, ScriptRequests DEF InSmoke, TypeOK, ManifestInv, SmokeInv
    <3> QED BY <2>2, <3>1, ScriptRequests, NothingCreatedTwice
  <2> QED BY <2>1, <2>2
<1> HIDE DEF asked
<1>3. \A q \in late' : IsAsked(q)
  BY <1>1, <1>2 DEF ManifestInv
<1>4. TypeOK'
  <2>1. late' \subseteq Request
    BY <1>3 DEF IsAsked
  <2>2. hadFailures' \in BOOLEAN
    BY DEF Killed, Ends
  <2> QED BY <1>1, <2>1, <2>2, TypeFacts, ScriptRequests DEF TypeOK, Phases
<1>5. Agrees(manifest', cloud', late') /\ Agrees(draft', cloud', late')
  <2>1. Agrees(draft', cloud', late')
    BY <1>1, <1>3, TypeFacts, AgreesNew
  <2>2. \A r \in manifest.ids : Do("create", r) \notin late'
    BY <1>1, <1>2 DEF ManifestInv, Agrees, Do
  <2> QED BY <1>1, <2>1, <2>2 DEF ManifestInv, Agrees
<1>6. IdleInv'
  BY <1>1 DEF IdleInv
<1> QED BY <1>1, <1>3, <1>4, <1>5, <1>6, TypeFacts DEF ManifestInv

LEMMA CloudSettlesKeeps ==
    ASSUME ManifestInv, CloudSettles
    PROVE  ManifestInv'
<1>1. /\ TypeOK /\ UNCHANGED <<late, faults, files, process, calm>>
      /\ cloud' \in Cloud /\ cloud'.exists = cloud.exists
      /\ cloud'.attached = cloud.attached /\ cloud'.busy \subseteq cloud.busy
  BY DEF ManifestInv, CloudSettles, TypeOK, Cloud
<1>2. TypeOK'
  BY <1>1 DEF TypeOK, process, files
<1>3. Agrees(manifest', cloud', late') /\ Agrees(draft', cloud', late')
  BY <1>1 DEF ManifestInv, Agrees, files
<1>4. SmokeInv => SmokeInv'
  BY <1>1 DEF SmokeInv, IsGone, process, files
<1>5. CleanupInv => CleanupInv'
  BY <1>1 DEF CleanupInv, IsGone, step, process, files
<1>6. IdleInv => IdleInv'
  BY <1>1 DEF IdleInv, process, files
<1> QED BY <1>1, <1>2, <1>3, <1>4, <1>5, <1>6 DEF ManifestInv, process, files

LEMMA LateRequestArrivesKeeps ==
    ASSUME ManifestInv, LateRequestArrives
    PROVE  ManifestInv'
<1>1. PICK q \in late :
        /\ TypeOK /\ UNCHANGED <<faults, files, process>> /\ calm' = FALSE
        /\ cloud' = Granted(q, cloud) /\ late' = late \ {q}
  BY DEF ManifestInv, LateRequestArrives
<1>2. IsAsked(q) /\ cloud \in Cloud /\ late' \subseteq late /\ q = Do(q.do, q.of)
  BY <1>1 DEF ManifestInv, TypeOK, IsAsked, Request, Do
<1>3. cloud' \in Cloud
  BY <1>1, <1>2, GrantedEffect
<1>4. TypeOK'
  BY <1>1, <1>2, <1>3 DEF TypeOK, process, files
<1>5. Agrees(manifest', cloud', late') /\ Agrees(draft', cloud', late')
  <2>1. q.do = "create" => q.of \notin manifest.ids /\ q.of \notin draft.ids
    BY <1>1, <1>2 DEF ManifestInv, Agrees
  <2> QED BY <1>1, <1>2, <2>1, AgreesGranted DEF ManifestInv, files
<1>6. mode = "smoke" => SmokeInv'
  BY <1>1, <1>2 DEF ManifestInv, SmokeInv, IsGone, process, files
<1>7. mode = "cleanup" => CleanupInv'
  <2> SUFFICES ASSUME mode = "cleanup"
               PROVE  CleanupInv'
    OBVIOUS
  <2>1. CleanupInv
    BY DEF ManifestInv
  <2>2. ASSUME phase = "record"
        PROVE  IsGone(step, cloud')
    <3>1. at \in 1 .. 12 /\ step.do # "create" /\ ~NothingToDo(step, manifest)
      BY <1>1, <2>1, <2>2, CleanupRequests DEF CleanupInv, TypeOK, step
    <3>2. step.do = "delete" => step.of \in manifest.ids
      BY <3>1 DEF NothingToDo
    <3>3. step.do = "delete" => ~(q.do = "create" /\ q.of = step.of)
      BY <1>1, <1>2, <3>2 DEF ManifestInv, Agrees
    <3>4. cloud'.exists \subseteq cloud.exists \cup (IF q.do = "create" THEN {q.of} ELSE {})
      BY <1>1, <1>2, GrantedEffect
    <3> QED BY <2>1, <2>2, <3>3, <3>4 DEF CleanupInv, IsGone
  <2> QED BY <1>1, <2>1, <2>2 DEF CleanupInv, step, process, files
<1>8. IdleInv => IdleInv'
  BY <1>1 DEF IdleInv, process, files
<1> QED BY <1>1, <1>2, <1>4, <1>5, <1>6, <1>7, <1>8 DEF ManifestInv, process, files

-----------------------------------------------------------------------------
(***************************************************************************)
(* The steps of the cleanup.                                               *)
(***************************************************************************)

\* What the steps of the cleanup have in common.
InAgreement ==
    /\ cloud \in Cloud /\ faults \in 0 .. MaxFaults /\ calm \in BOOLEAN
    /\ \A q \in late : IsAsked(q)
    /\ Agrees(manifest, cloud, late) /\ Agrees(draft, cloud, late)

LEMMA RequestAgrees ==
    ASSUME ManifestInv, UNCHANGED files, NEW q, IsAsked(q), q.do # "create",
           Answered(q) \/ Unanswered(q)
    PROVE  /\ InAgreement'
           /\ calm' => calm /\ late' = late /\ Answered(q)
<1>1. /\ cloud' = cloud \/ cloud' = Granted(q, cloud)
      /\ late' \subseteq late \cup {q}
      /\ late' = late \/ cloud' = cloud
      /\ faults' \in 0 .. MaxFaults
  BY TypeFacts DEF Answered, Unanswered, ManifestInv, TypeOK
<1>2. calm' \in BOOLEAN /\ (calm' => calm /\ late' = late /\ Answered(q))
  <2>1. CASE Answered(q)
    BY <2>1 DEF Answered, ManifestInv, TypeOK
  <2>2. CASE Unanswered(q)
    BY <2>2 DEF Unanswered
  <2> QED BY <2>1, <2>2
<1>3. cloud \in Cloud /\ cloud' \in Cloud
  BY <1>1, TypeFacts, GrantedEffect DEF ManifestInv
<1>4. \A r \in late' : IsAsked(r)
  BY <1>1 DEF ManifestInv
<1>5. \A m : Agrees(m, cloud, late) => Agrees(m, cloud', late')
  BY <1>1, <1>3, AgreesGranted, AgreesLater
<1> QED BY <1>1, <1>2, <1>3, <1>4, <1>5 DEF InAgreement, ManifestInv, files

LEMMA UnchangedAgrees ==
    ASSUME ManifestInv, UNCHANGED <<cloud, late, files>>, faults' \in 0 .. MaxFaults,
           calm' \in BOOLEAN
    PROVE  InAgreement'
BY DEF InAgreement, ManifestInv, TypeOK, files

\* The cleanup goes on with the same step.
LEMMA GoesOnKeeps ==
    ASSUME ManifestInv, mode = "cleanup", at <= 12, phase # "write",
           UNCHANGED <<mode, at, files, hadFailures, result>>,
           manifest.whole, ~NothingToDo(step, manifest), InAgreement',
           phase' \in {"cli", "find", "detach", "wait", "act", "record"},
           phase' \in {"find", "wait"} => CleanupSteps[at].fallback = phase',
           phase' = "detach" => CleanupSteps[at].fallback = "find" /\ step.do = "delete",
           phase' = "record" => IsGone(step, cloud'),
           polls' \in 0 .. MaxPolls,
           calm' => calm, calm' => late' = {},
           calm' /\ phase' = "act" /\ step = Do("delete", "volume") =>
             "volume" \notin cloud'.busy
    PROVE  ManifestInv'
<1>1. TypeOK /\ CleanupInv /\ step' = step
  BY DEF ManifestInv, step
<1>2. TypeOK'
  BY <1>1 DEF TypeOK, Phases, InAgreement, IsAsked, files
<1>3. (calm' \/ ~hadFailures') => IsClean(manifest', at')
  BY <1>1 DEF CleanupInv, files
<1>4. CleanupInv'
  BY <1>1, <1>3, CleanupRequests DEF CleanupInv, files
<1> QED BY <1>2, <1>4 DEF ManifestInv, InAgreement, files

\* fail(). It breaks no promise unless the replay was a calm one.
LEMMA FailsKeeps ==
    ASSUME ManifestInv, mode = "cleanup", at <= 12, phase \notin {"load", "write"},
           FailsStep, InAgreement', calm' => late' = {},
           calm' => IsClean(manifest, at + 1)
    PROVE  ManifestInv'
<1>1. /\ TypeOK /\ CleanupInv /\ manifest.whole /\ polls' = MaxPolls
      /\ mode' = mode /\ at' = at + 1 /\ phase' = "load" /\ hadFailures' = TRUE
      /\ UNCHANGED <<files, result>>
  BY DEF ManifestInv, CleanupInv, FailsStep, NextStep
<1>2. at' \in 1 .. 13
  BY <1>1 DEF TypeOK
<1>3. TypeOK'
  BY <1>1, <1>2, TypeFacts, ScriptRequests
     DEF TypeOK, Phases, InAgreement, IsAsked, files
<1>4. CleanupInv'
  BY <1>1, <1>2, CleanupRequests DEF CleanupInv, files
<1> QED BY <1>1, <1>3, <1>4 DEF ManifestInv, InAgreement, files

\* In a calm replay that has the node behind it, nothing is in use: this is why
\* the node comes before everything that can be attached to it.
LEMMA NothingInUse ==
    ASSUME ManifestInv, mode = "cleanup", calm, at \in 5 .. 12,
           phase \notin {"load", "write"}
    PROVE  /\ step.of \notin cloud.attached
           /\ step.do = "delete" => "node" \notin cloud.exists
<1>1. /\ IsClean(manifest, at) /\ ~NothingToDo(step, manifest)
      /\ Agrees(manifest, cloud, late) /\ cloud \in Cloud
  BY DEF ManifestInv, CleanupInv, TypeOK
<1>2. "node" \notin manifest.ids \ manifest.deleted
  <2>1. CleanupSteps[4].request = Do("delete", "node")
    BY DEF CleanupSteps, DeleteNode, CleanupStepOf
  <2> QED BY <1>1, <2>1, CleanupRequests DEF IsClean, Do
<1>3. /\ step.do \in {"delete", "unlink"}
      /\ step.of = "rules" <=> step.do = "unlink"
  BY DEF step, CleanupSteps, DeleteIp, DeleteVolume, DeleteVpc, DeleteImage, DeleteKey,
         DeleteGroup, UnlinkRules, CleanupStepOf, Do
<1>4. step.of \in manifest.ids
  BY <1>1, <1>3 DEF NothingToDo
<1>5. "rules" \notin cloud.attached
  BY <1>1 DEF Cloud, Attachable
<1> QED BY <1>1, <1>2, <1>3, <1>4, <1>5 DEF Agrees, Resource, IPs

\* What a cleanup in a step knows.
LEMMA InStep ==
    ASSUME ManifestInv, mode = "cleanup", at <= Len(CleanupSteps)
    PROVE  /\ TypeOK /\ CleanupInv /\ at \in 1 .. 12 /\ InAgreement
           /\ IsAsked(step) /\ step.do \in {"detach", "delete", "unlink"}
           /\ CleanupSteps[at].first \in {"cli", "act"}
           /\ CleanupSteps[at].fallback \in {"find", "wait", "act"}
           /\ step = Do("delete", "volume") =>
                CleanupSteps[at].first = "cli" /\ CleanupSteps[at].fallback = "wait"
<1>1. TypeOK /\ CleanupInv /\ at \in 1 .. 12 /\ InAgreement
  BY CleanupRequests DEF ManifestInv, TypeOK, InAgreement
<1>2. \A i \in 1 .. 12 : CleanupSteps[i].request = Do("delete", "volume") =>
        CleanupSteps[i].first = "cli" /\ CleanupSteps[i].fallback = "wait"
  BY DEF CleanupSteps, DetachAddon, DetachVolume, DetachVpc, DeleteNode, DeleteIp,
         DeleteVolume, DeleteVpc, DeleteImage, DeleteKey, DeleteGroup, UnlinkRules,
         CleanupStepOf, Do
<1> QED BY <1>1, <1>2, CleanupRequests DEF step

LEMMA CleanupThrowsKeeps ==
    ASSUME ManifestInv, CleanupThrows
    PROVE  ManifestInv'
<1>1. /\ TypeOK /\ mode' = "idle" /\ at' = 1 /\ phase' = "load" /\ phase = "load"
      /\ polls' = MaxPolls /\ result' = "thrown"
      /\ UNCHANGED <<environment, files, calm>>
  BY DEF ManifestInv, CleanupThrows, In, Ends
<1>2. hadFailures' \in BOOLEAN
  BY DEF CleanupThrows, Ends
<1>3. TypeOK'
  BY <1>1, <1>2, TypeFacts, ScriptRequests DEF TypeOK, Phases, environment, files
<1>4. IdleInv'
  BY <1>1 DEF IdleInv
<1> QED BY <1>1, <1>3, <1>4 DEF ManifestInv, environment, files

LEMMA CleanupSkipsKeeps ==
    ASSUME ManifestInv, CleanupSkips
    PROVE  ManifestInv'
<1>1. /\ mode = "cleanup" /\ at \in 1 .. 12 /\ phase = "load" /\ TypeOK /\ CleanupInv
      /\ manifest.whole /\ NothingToDo(step, manifest)
      /\ mode' = mode /\ at' = at + 1 /\ phase' = phase
      /\ UNCHANGED <<environment, files, polls, hadFailures, result, calm>>
  BY InStep DEF CleanupSkips, In, NextStep
<1>2. TypeOK'
  BY <1>1, ScriptRequests DEF TypeOK, environment, files
<1>3. IsClean(manifest, at) => IsClean(manifest, at + 1)
  BY <1>1, CleanupRequests DEF IsClean, NothingToDo, step
<1>4. CleanupInv'
  BY <1>1, <1>3, CleanupRequests DEF CleanupInv, environment, files
<1> QED BY <1>1, <1>2, <1>4 DEF ManifestInv, environment, files

LEMMA CleanupLoadsKeeps ==
    ASSUME ManifestInv, CleanupLoads
    PROVE  ManifestInv'
<1>1. /\ mode = "cleanup" /\ at \in 1 .. 12 /\ phase = "load" /\ TypeOK /\ CleanupInv
      /\ manifest.whole /\ ~NothingToDo(step, manifest)
      /\ UNCHANGED <<mode, at>> /\ phase' \in {"cli", "act"}
      /\ phase' = "act" => step # Do("delete", "volume")
      /\ UNCHANGED <<environment, files, polls, hadFailures, result, calm>>
  BY InStep DEF CleanupLoads, In, Goto
<1>2. InAgreement'
  BY <1>1, UnchangedAgrees DEF TypeOK, environment
<1> QED BY <1>1, <1>2, GoesOnKeeps DEF CleanupInv, TypeOK, environment

LEMMA CleanupCliKeeps ==
    ASSUME ManifestInv, CleanupCli
    PROVE  ManifestInv'
<1>1. /\ mode = "cleanup" /\ at \in 1 .. 12 /\ phase = "cli" /\ TypeOK /\ CleanupInv
      /\ IsAsked(step) /\ step.do # "create"
      /\ phase' = IF Settled(Answer(step, cloud)) THEN "record"
                  ELSE CleanupSteps[at].fallback
      /\ CleanupSteps[at].fallback \in {"find", "wait", "act"}
      /\ step = Do("delete", "volume") => CleanupSteps[at].fallback = "wait"
      /\ Answered(step) /\ cloud' = Granted(step, cloud)
      /\ UNCHANGED <<mode, at, files, polls, hadFailures, result>>
  BY InStep DEF CleanupCli, In, Goto, Answered
<1>2. InAgreement' /\ (calm' => calm /\ late' = late)
  BY <1>1, RequestAgrees
<1>3. phase' = "record" => IsGone(step, cloud')
  BY <1>1, TypeFacts, DeletedIsGone
<1> QED BY <1>1, <1>2, <1>3, GoesOnKeeps DEF CleanupInv, TypeOK

LEMMA CleanupCliFailsKeeps ==
    ASSUME ManifestInv, CleanupCliFails
    PROVE  ManifestInv'
<1>1. /\ mode = "cleanup" /\ at \in 1 .. 12 /\ phase = "cli" /\ TypeOK /\ CleanupInv
      /\ IsAsked(step) /\ step.do # "create"
      /\ phase' = CleanupSteps[at].fallback /\ phase' \in {"find", "wait", "act"}
      /\ Unanswered(step) /\ calm' = FALSE
      /\ UNCHANGED <<mode, at, files, polls, hadFailures, result>>
  BY InStep DEF CleanupCliFails, In, Goto, Unanswered
<1>2. InAgreement'
  BY <1>1, RequestAgrees
<1> QED BY <1>1, <1>2, GoesOnKeeps DEF CleanupInv, TypeOK

LEMMA CleanupFindsKeeps ==
    ASSUME ManifestInv, CleanupFinds
    PROVE  ManifestInv'
<1>1. /\ mode = "cleanup" /\ at \in 1 .. 12 /\ phase = "find" /\ TypeOK /\ CleanupInv
      /\ CleanupSteps[at].fallback = "find"
      /\ UNCHANGED <<mode, at, environment, files, polls, hadFailures, result, calm>>
  BY InStep DEF CleanupFinds, In, Goto, CleanupInv
<1>2. step \in {Do("detach", "addon"), Do("detach", "volume"),
                Do("delete", "addon"), Do("delete", "preserved")}
  BY <1>1, CleanupRequests DEF step
<1>3. step # Do("delete", "volume")
  BY <1>2 DEF Do
<1>4. /\ phase' \in {"act", "record", "detach"}
      /\ phase' = "detach" => step.do = "delete"
      /\ phase' = "record" => step.do = "detach"
  <2>1. CASE step = Do("detach", "volume")
    BY <2>1 DEF CleanupFinds, Goto, Do
  <2>2. CASE step = Do("detach", "addon")
    BY <2>2 DEF CleanupFinds, Goto, Do
  <2>3. CASE step \in {Do("delete", "addon"), Do("delete", "preserved")}
    <3>1. step.of # "volume" /\ step.do = "delete"
      BY <2>3 DEF Do
    <3> QED BY <3>1 DEF CleanupFinds, Goto
  <2> QED BY <1>2, <2>1, <2>2, <2>3
<1>5. InAgreement'
  BY <1>1, UnchangedAgrees DEF TypeOK, environment
<1> QED BY <1>1, <1>3, <1>4, <1>5, GoesOnKeeps DEF CleanupInv, TypeOK, IsGone, environment

LEMMA CleanupFindFailsKeeps ==
    ASSUME ManifestInv, CleanupFindFails
    PROVE  ManifestInv'
<1>1. /\ mode = "cleanup" /\ at \in 1 .. 12 /\ phase = "find" /\ FailsStep
      /\ faults' \in 0 .. MaxFaults /\ UNCHANGED <<cloud, late, files>>
  BY InStep, TypeFacts DEF CleanupFindFails, In, FailsStep, TypeOK
<1>2. calm' \in BOOLEAN /\ ~calm'
  BY DEF CleanupFindFails
<1> QED BY <1>1, <1>2, UnchangedAgrees, FailsKeeps

LEMMA CleanupDetachesKeeps ==
    ASSUME ManifestInv, CleanupDetaches
    PROVE  ManifestInv'
<1> DEFINE q == Do("detach", step.of)
<1>1. /\ mode = "cleanup" /\ at \in 1 .. 12 /\ phase = "detach" /\ TypeOK /\ CleanupInv
      /\ CleanupSteps[at].fallback = "find" /\ step.do = "delete" /\ Answered(q)
      /\ UNCHANGED files
  BY InStep DEF CleanupDetaches, In, CleanupInv, FailsStep
<1>2. step \in {Do("delete", "addon"), Do("delete", "preserved")}
  BY <1>1, CleanupRequests DEF step, Do
<1>3. /\ step.of \in IPs /\ step # Do("delete", "volume") /\ q.do = "detach"
      /\ q.of = step.of /\ IsAsked(q)
  BY <1>2 DEF Do, IPs, IsAsked, Request, Resource, Attachable
<1>4. InAgreement' /\ (calm' => calm /\ late' = late)
  BY <1>1, <1>3, RequestAgrees
<1>5. CASE /\ phase' \in {"act", "record"}
           /\ UNCHANGED <<mode, at, polls, hadFailures, result>>
  BY <1>1, <1>3, <1>4, <1>5, GoesOnKeeps DEF CleanupInv, TypeOK, IsGone
<1>6. CASE Answer(q, cloud) = "refused" /\ FailsStep
  <2>1. at \in 5 .. 12
    <3>1. at # 1 /\ at # 2 /\ at # 3 /\ at # 4
      BY <1>2 DEF step, CleanupSteps, DetachAddon, DetachVolume, DetachVpc, DeleteNode,
                  CleanupStepOf, Do
    <3> QED BY <1>1, <3>1
  <2>2. ~calm
    <3>1. SUFFICES ASSUME calm
                   PROVE  FALSE
      OBVIOUS
    <3>2. "node" \notin cloud.exists
      BY <1>1, <2>1, <3>1, NothingInUse
    <3> QED BY <1>3, <1>6, <3>2 DEF Answer, Missing
  <2> QED BY <1>1, <1>4, <1>6, <2>2, FailsKeeps
<1>7. \/ /\ phase' \in {"act", "record"}
         /\ UNCHANGED <<mode, at, polls, hadFailures, result>>
      \/ Answer(q, cloud) = "refused" /\ FailsStep
  BY DEF CleanupDetaches, Goto
<1> QED BY <1>5, <1>6, <1>7

LEMMA CleanupWaitsKeeps ==
    ASSUME ManifestInv, CleanupWaits
    PROVE  ManifestInv'
<1>1. /\ mode = "cleanup" /\ at \in 1 .. 12 /\ phase = "wait" /\ TypeOK /\ CleanupInv
      /\ CleanupSteps[at].fallback = "wait"
      /\ UNCHANGED <<mode, at, environment, files, hadFailures, result, calm>>
      /\ polls' \in 0 .. MaxPolls
      /\ \/ phase' = "record" /\ step.of \notin cloud.exists
         \/ phase' = "act" /\ Ready(step.of)
         \/ phase' = "wait"
  BY InStep, TypeFacts DEF CleanupWaits, In, Goto, CleanupInv, TypeOK
<1>2. InAgreement'
  BY <1>1, UnchangedAgrees DEF TypeOK, environment
<1>3. phase' = "act" /\ step = Do("delete", "volume") => "volume" \notin cloud.busy
  BY <1>1 DEF Ready, InUse, Do
<1> QED BY <1>1, <1>2, <1>3, GoesOnKeeps DEF CleanupInv, IsGone, environment

LEMMA CleanupPollFailsKeeps ==
    ASSUME ManifestInv, CleanupPollFails
    PROVE  ManifestInv'
<1>1. /\ mode = "cleanup" /\ at \in 1 .. 12 /\ phase = "wait" /\ TypeOK /\ CleanupInv
      /\ CleanupSteps[at].fallback = "wait"
      /\ UNCHANGED <<cloud, late, files, mode, at, phase, hadFailures, result>>
      /\ polls' \in 0 .. MaxPolls /\ faults' \in 0 .. MaxFaults
  BY InStep, TypeFacts DEF CleanupPollFails, In, CleanupInv, TypeOK
<1>2. calm' \in BOOLEAN /\ ~calm'
  BY DEF CleanupPollFails
<1> QED BY <1>1, <1>2, UnchangedAgrees, GoesOnKeeps DEF CleanupInv

LEMMA CleanupTimesOutKeeps ==
    ASSUME ManifestInv, CleanupTimesOut
    PROVE  ManifestInv'
<1>1. /\ mode = "cleanup" /\ at \in 1 .. 12 /\ phase \in {"wait", "act"} /\ TypeOK
      /\ CleanupInv /\ FailsStep /\ UNCHANGED <<environment, files>>
      /\ phase = "act" => step = Do("delete", "vpc")
  BY InStep DEF CleanupTimesOut, In, FailsStep
<1>2. calm' \in BOOLEAN /\ (calm' => calm /\ step.of \in cloud.attached)
  BY DEF CleanupTimesOut, ManifestInv, TypeOK
<1>3. step \in {Do("delete", "volume"), Do("delete", "vpc")}
  <2>1. CASE phase = "wait"
    <3>1. CleanupSteps[at].fallback = "wait"
      BY <1>1, <2>1 DEF CleanupInv
    <3> QED BY <1>1, <3>1, CleanupRequests DEF step
  <2> QED BY <1>1, <2>1
<1>4. at \in 5 .. 12
  <2>1. at # 1 /\ at # 2 /\ at # 3 /\ at # 4
    BY <1>3 DEF step, CleanupSteps, DetachAddon, DetachVolume, DetachVpc, DeleteNode,
                CleanupStepOf, Do
  <2> QED BY <1>1, <2>1
<1>5. calm' = FALSE
  BY <1>1, <1>2, <1>4, NothingInUse
<1>6. InAgreement'
  BY <1>1, <1>2, UnchangedAgrees DEF environment, TypeOK
<1> QED BY <1>1, <1>5, <1>6, FailsKeeps

\* A calm replay fails at no deletion, except that of a VPC that it asks for
\* again.
LEMMA CleanupActsKeeps ==
    ASSUME ManifestInv, CleanupActs
    PROVE  ManifestInv'
<1>1. /\ mode = "cleanup" /\ at \in 1 .. 12 /\ phase = "act" /\ TypeOK /\ CleanupInv
      /\ IsAsked(step) /\ step.do \in {"detach", "delete", "unlink"}
      /\ Answered(step) /\ cloud' = Granted(step, cloud) /\ UNCHANGED files
  BY InStep DEF CleanupActs, In, Answered, FailsStep
<1>2. InAgreement' /\ (calm' => calm /\ late' = late)
  BY <1>1, RequestAgrees
<1>3. CASE /\ Settled(Answer(step, cloud)) /\ phase' = "record"
           /\ UNCHANGED <<mode, at, polls, hadFailures, result>>
  <2>1. IsGone(step, cloud')
    BY <1>1, <1>3, TypeFacts, DeletedIsGone
  <2> QED BY <1>1, <1>2, <1>3, <2>1, GoesOnKeeps DEF CleanupInv, TypeOK
<1>4. CASE /\ step = Do("delete", "vpc") /\ phase' = "act" /\ polls' \in 0 .. MaxPolls
           /\ UNCHANGED <<mode, at, hadFailures, result>>
  <2>1. step # Do("delete", "volume")
    BY <1>4 DEF Do
  <2> QED BY <1>1, <1>2, <1>4, <2>1, GoesOnKeeps DEF CleanupInv
<1>5. CASE /\ ~Settled(Answer(step, cloud)) /\ step # Do("delete", "vpc") /\ FailsStep
  <2>1. calm => IsClean(manifest, at + 1)
    <3>1. SUFFICES ASSUME calm, step.do # "detach"
                   PROVE  IsClean(manifest, at + 1)
      <4>1. calm /\ step.do = "detach" => IsClean(manifest, at + 1)
        BY <1>1, CleanupRequests DEF CleanupInv, IsClean, step
      <4> QED BY <4>1
    <3>2. cloud \in Cloud /\ Refuses(step, cloud)
      BY <1>1, <1>5 DEF Settled, Answer, TypeOK
    <3>3. step.do = "delete" /\ InUse(step.of, cloud)
      BY <1>1, <3>1, <3>2 DEF Refuses
    <3>4. at # 1 /\ at # 2 /\ at # 3
      BY <3>1 DEF step, CleanupSteps, DetachAddon, DetachVolume, DetachVpc,
                  CleanupStepOf, Do
    <3>5. CASE at = 4
      <4>1. step.of = "node"
        BY <3>5 DEF step, CleanupSteps, DeleteNode, CleanupStepOf, Do
      <4> QED BY <3>2, <3>3, <4>1 DEF InUse, Cloud, Attachable, Slow
    <3>6. CASE at \in 5 .. 12
      <4>1. step.of \in cloud.busy /\ step.of \in {"volume", "vpc"}
        BY <1>1, <3>1, <3>2, <3>3, <3>6, NothingInUse DEF InUse, Cloud, Slow
      <4>2. step = Do(step.do, step.of)
        BY <1>1 DEF IsAsked, Request, Do
      <4>3. step = Do("delete", "volume")
        BY <1>5, <3>3, <4>1, <4>2
      <4> QED BY <1>1, <3>1, <4>1, <4>3 DEF CleanupInv, Do
    <3> QED BY <1>1, <3>4, <3>5, <3>6
  <2> QED BY <1>1, <1>2, <1>5, <2>1, FailsKeeps DEF CleanupInv
<1>6. \/ /\ Settled(Answer(step, cloud)) /\ phase' = "record"
         /\ UNCHANGED <<mode, at, polls, hadFailures, result>>
      \/ /\ step = Do("delete", "vpc") /\ phase' = "act" /\ polls' \in 0 .. MaxPolls
         /\ UNCHANGED <<mode, at, hadFailures, result>>
      \/ ~Settled(Answer(step, cloud)) /\ step # Do("delete", "vpc") /\ FailsStep
  BY <1>1, TypeFacts DEF CleanupActs, Goto, TypeOK
<1> QED BY <1>3, <1>4, <1>5, <1>6

LEMMA CleanupActFailsKeeps ==
    ASSUME ManifestInv, CleanupActFails
    PROVE  ManifestInv'
<1> DEFINE q == IF phase = "act" THEN step ELSE Do("detach", step.of)
<1>1. /\ mode = "cleanup" /\ at \in 1 .. 12 /\ phase \in {"act", "detach"} /\ TypeOK
      /\ CleanupInv /\ FailsStep /\ Unanswered(q) /\ UNCHANGED files /\ calm' = FALSE
  BY InStep DEF CleanupActFails, In, FailsStep, Unanswered
<1>2. IsAsked(q) /\ q.do # "create"
  <2>1. CASE phase = "act"
    BY <1>1, <2>1, InStep, CleanupRequests
  <2>2. CASE phase = "detach"
    BY <1>1, <2>2, InStep, CleanupRequests DEF IsAsked, Do, Request
  <2> QED BY <1>1, <2>1, <2>2
<1> HIDE DEF q
<1> QED BY <1>1, <1>2, RequestAgrees, FailsKeeps

LEMMA CleanupRecordsKeeps ==
    ASSUME ManifestInv, CleanupRecords
    PROVE  ManifestInv'
<1>1. /\ mode = "cleanup" /\ at \in 1 .. 12 /\ phase = "record" /\ TypeOK /\ CleanupInv
      /\ IsAsked(step) /\ step.do # "create" /\ manifest.whole
      /\ mode' = mode /\ at' = at /\ phase' = "write"
      /\ draft' = Recorded(step, manifest) /\ manifest' = TornManifest
      /\ UNCHANGED <<environment, polls, hadFailures, result, calm>>
      /\ IsGone(step, cloud) /\ Agrees(manifest, cloud, late)
  BY InStep DEF CleanupRecords, In, Truncate, Goto, CleanupInv, ManifestInv
<1>2. /\ draft' \in Manifest /\ draft'.whole
      /\ draft'.ids = IF step.do = "unlink" THEN manifest.ids \ {step.of}
                      ELSE manifest.ids
      /\ draft'.deleted = IF step.do = "delete" THEN manifest.deleted \cup {step.of}
                          ELSE manifest.deleted
  BY <1>1, TypeFacts, RecordedType
<1>3. Agrees(draft', cloud, late)
  BY <1>1, TypeFacts, AgreesRecorded
<1>4. Agrees(TornManifest, cloud, late)
  BY TypeFacts, AgreesNew DEF ManifestInv
<1>5. TypeOK'
  BY <1>1, <1>2, TypeFacts DEF TypeOK, Phases, environment
<1>6. IsClean(manifest, at) => IsClean(draft', at + 1)
  BY <1>1, <1>2, CleanupRequests DEF IsClean, step
<1>7. CleanupInv'
  BY <1>1, <1>6, CleanupRequests DEF CleanupInv, environment
<1> QED BY <1>1, <1>2, <1>3, <1>4, <1>5, <1>7 DEF ManifestInv, environment

LEMMA CleanupWritesKeeps ==
    ASSUME ManifestInv, CleanupWrites
    PROVE  ManifestInv'
<1>1. /\ mode = "cleanup" /\ at \in 1 .. 12 /\ phase = "write" /\ TypeOK /\ CleanupInv
      /\ mode' = mode /\ at' = at + 1 /\ phase' = "load" /\ polls' = MaxPolls
      /\ manifest' = draft /\ draft' = NewManifest /\ draft.whole
      /\ UNCHANGED <<environment, hadFailures, result, calm>>
  BY InStep DEF CleanupWrites, In, Fill, NextStep, ManifestInv
<1>2. TypeOK'
  BY <1>1, TypeFacts, ScriptRequests DEF TypeOK, Phases, environment
<1>3. Agrees(NewManifest, cloud, late)
  BY TypeFacts, AgreesNew DEF ManifestInv
<1>4. CleanupInv'
  BY <1>1, CleanupRequests DEF CleanupInv, environment
<1> QED BY <1>1, <1>2, <1>3, <1>4, TypeFacts DEF ManifestInv, environment

LEMMA CleanupEndsKeeps ==
    ASSUME ManifestInv, CleanupEnds
    PROVE  ManifestInv'
<1>1. /\ TypeOK /\ CleanupInv /\ at = 13 /\ phase = "load" /\ manifest.whole
      /\ mode' = "idle" /\ at' = 1 /\ phase' = "load" /\ polls' = MaxPolls
      /\ result' = IF hadFailures THEN "failed" ELSE "ok"
      /\ UNCHANGED <<environment, files, calm>>
  BY CleanupRequests DEF ManifestInv, CleanupEnds, CleanupInv, Ends, TypeOK
<1>2. hadFailures' \in BOOLEAN
  BY DEF CleanupEnds, Ends
<1>3. TypeOK'
  BY <1>1, <1>2, TypeFacts, ScriptRequests DEF TypeOK, Phases, environment, files
<1>4. IdleInv'
  BY <1>1, CleanupRequests DEF IdleInv, CleanupInv, files
<1> QED BY <1>1, <1>3, <1>4 DEF ManifestInv, environment, files

-----------------------------------------------------------------------------
(***************************************************************************)
(* The theorems.                                                           *)
(***************************************************************************)
LEMMA InitManifestInv == Init => ManifestInv
<1> SUFFICES ASSUME Init
             PROVE  ManifestInv
  OBVIOUS
<1>1. TypeOK
  <2>1. cloud \in Cloud /\ NewManifest \in Manifest
    BY DEF Init, Cloud, NewManifest, Manifest, Resource
  <2>2. hadFailures \in BOOLEAN /\ calm \in BOOLEAN
    BY DEF Init
  <2> QED BY <2>1, <2>2, SmokeAssumption, ScriptRequests DEF Init, TypeOK, Phases
<1>2. Agrees(NewManifest, cloud, late)
  BY <1>1, TypeFacts, AgreesNew DEF Init
<1>3. SmokeInv
  BY <1>1, TypeFacts, ScriptRequests DEF Init, SmokeInv, IsHistory, CreatedBefore
<1> QED BY <1>1, <1>2, <1>3, TypeFacts DEF Init, ManifestInv

LEMMA NextManifestInv ==
    ManifestInv /\ [Next]_vars => ManifestInv'
<1> SUFFICES ASSUME ManifestInv, [Next]_vars
             PROVE  ManifestInv'
  OBVIOUS
<1>1. CASE SmokeStep
  <2>1. SmokeEnds => phase # "write"
    BY DEF SmokeEnds
  <2> QED BY <1>1, <2>1, SmokeCommandKeeps, SmokeCommandFailsKeeps, SmokeRecordsKeeps,
             SmokeWritesKeeps, CleanupStartsKeeps DEF SmokeStep, SmokeEnds
<1>2. CASE CleanupStep
  BY <1>2, CleanupThrowsKeeps, CleanupSkipsKeeps, CleanupLoadsKeeps, CleanupCliKeeps,
     CleanupCliFailsKeeps, CleanupFindsKeeps, CleanupFindFailsKeeps,
     CleanupDetachesKeeps, CleanupWaitsKeeps, CleanupPollFailsKeeps,
     CleanupTimesOutKeeps, CleanupActsKeeps, CleanupActFailsKeeps,
     CleanupRecordsKeeps, CleanupWritesKeeps, CleanupEndsKeeps DEF CleanupStep
<1>3. CASE EnvironmentStep
  <2>1. Replay => phase # "write" /\ CleanupStarts
    BY DEF Replay, ManifestInv, IdleInv
  <2> QED BY <1>3, <2>1, CloudSettlesKeeps, LateRequestArrivesKeeps, KilledKeeps,
             CleanupStartsKeeps DEF EnvironmentStep
<1>4. CASE UNCHANGED vars
  <2>1. UNCHANGED <<environment, files, process, calm>>
    BY <1>4 DEF vars
  <2> QED BY <2>1 DEF ManifestInv, TypeOK, SmokeInv, CleanupInv, IdleInv, step,
                      environment, files, process
<1> QED BY <1>1, <1>2, <1>3, <1>4 DEF Next

\* In every state of every behaviour manifest, cloud and late requests agree,
\* and what is recorded fits the step that the running program is at.
THEOREM ManifestAgrees == Spec => []ManifestInv
BY InitManifestInv, NextManifestInv, PTL DEF Spec

\* TypeOK: every variable keeps its type.
THEOREM TypeCorrect == Spec => []TypeOK
<1>1. ManifestInv => TypeOK
  BY DEF ManifestInv
<1> QED BY <1>1, ManifestAgrees, PTL

\* FlagsAreTrue: what updateSmokeManifest has marked as deleted is gone, though
\* programs are killed at any step and requests are carried out late.
THEOREM FlagsStayTrue == Spec => []FlagsAreTrue
<1>1. ManifestInv => FlagsAreTrue
  BY DEF ManifestInv, Agrees, FlagsAreTrue, FlaggedDeleted
<1> QED BY <1>1, ManifestAgrees, PTL

\* What the last step of the cleanup leaves behind.
LEMMA CleanManifest ==
    ASSUME NEW m \in Manifest, IsClean(m, 13)
    PROVE  "rules" \notin m.ids /\ m.ids \subseteq m.deleted
<1>1. \A r \in Resource \ {"rules"} :
        \E i \in 1 .. 12 : CleanupSteps[i].request = Do("delete", r)
  <2>1. /\ CleanupSteps[4].request = Do("delete", "node")
        /\ CleanupSteps[5].request = Do("delete", "addon")
        /\ CleanupSteps[6].request = Do("delete", "preserved")
        /\ CleanupSteps[7].request = Do("delete", "volume")
        /\ CleanupSteps[8].request = Do("delete", "vpc")
        /\ CleanupSteps[9].request = Do("delete", "image")
        /\ CleanupSteps[10].request = Do("delete", "key")
        /\ CleanupSteps[11].request = Do("delete", "group")
    BY DEF CleanupSteps, DeleteNode, DeleteIp, DeleteVolume, DeleteVpc, DeleteImage,
           DeleteKey, DeleteGroup, CleanupStepOf
  <2> QED BY <2>1 DEF Resource, Attachable
<1>2. CleanupSteps[12].request = Do("unlink", "rules")
  BY DEF CleanupSteps, UnlinkRules, CleanupStepOf
<1>3. \A r, d : Do(d, r).do = d /\ Do(d, r).of = r
  BY DEF Do
<1>4. m.ids \subseteq Resource
  BY DEF Manifest
<1> QED BY <1>1, <1>2, <1>3, <1>4, CleanupRequests DEF IsClean

\* CleanExitMeansGone: when runSmokeCleanup exits with 0, everything that the
\* manifest records is marked and gone, and the rules file is unlinked.
THEOREM CleanExitIsTrue == Spec => []CleanExitMeansGone
<1>1. ManifestInv => CleanExitMeansGone
  <2> SUFFICES ASSUME ManifestInv, result = "ok"
               PROVE  /\ manifest.whole /\ "rules" \notin manifest.ids
                      /\ manifest.ids \subseteq manifest.deleted
                      /\ manifest.ids \cap cloud.exists \subseteq IPs
    BY DEF CleanExitMeansGone
  <2>1. IdleInv /\ manifest \in Manifest /\ cloud \in Cloud
    BY DEF ManifestInv, TypeOK
  <2>2. "rules" \notin manifest.ids /\ manifest.ids \subseteq manifest.deleted
    BY <2>1, CleanupRequests, CleanManifest DEF IdleInv
  <2> QED BY <2>1, <2>2 DEF ManifestInv, Agrees, IdleInv, Cloud
<1> QED BY <1>1, ManifestAgrees, PTL

\* CalmReplayLeavesNothing: one replay of the cleanup in which nothing goes
\* wrong is enough, in whatever state the programs before it were killed.
THEOREM CalmReplayIsEnough == Spec => []CalmReplayLeavesNothing
<1>1. ManifestInv => CalmReplayLeavesNothing
  <2> SUFFICES ASSUME ManifestInv, calm, mode = "idle", result \in {"ok", "failed"}
               PROVE  manifest.ids \cap cloud.exists \subseteq IPs \cap manifest.deleted
    BY DEF CalmReplayLeavesNothing
  <2>1. IdleInv /\ manifest \in Manifest /\ cloud \in Cloud
    BY DEF ManifestInv, TypeOK
  <2>2. manifest.ids \subseteq manifest.deleted
    BY <2>1, CleanupRequests, CleanManifest DEF IdleInv
  <2> QED BY <2>1, <2>2 DEF ManifestInv, Agrees, Cloud
<1> QED BY <1>1, ManifestAgrees, PTL
=============================================================================
