-------------------------- MODULE SmokeProperties --------------------------
(***************************************************************************)
(* What a maintainer relies on who replays the cleanup of an interrupted   *)
(* release smoke test.                                                     *)
(***************************************************************************)
EXTENDS SmokeCleanup

-----------------------------------------------------------------------------
FlaggedDeleted(r) == r \in manifest.ids \cap manifest.deleted

\* What the manifest calls deleted no longer exists (its cost has ended), in
\* whatever order commands are killed, answers are lost and late requests
\* arrive. Reserved IPs are left out: an IP may be flagged on a "not found"
\* that was about the node it was to be detached from (see the README).
FlagsAreTrue ==
    \A r \in Resource \ IPs : FlaggedDeleted(r) => r \notin cloud.exists

\* "so a routine `make build` does not erase the recovery file before cleanup
\* can replay": the recovery file is there when a cleanup can be started.
RecoveryFileIsUsable == mode = "idle" => manifest.whole

\* A cleanup that exits with 0 has left nothing that is recorded.
CleanExitMeansGone ==
    result = "ok" =>
        /\ manifest.whole /\ "rules" \notin manifest.ids
        /\ manifest.ids \subseteq manifest.deleted
        /\ manifest.ids \cap cloud.exists \subseteq IPs

\* One undisturbed replay is enough, wherever the test or an earlier cleanup
\* stopped: nothing that is recorded is left, although the resources use one
\* another and may be released only in order. (A reserved IP that was flagged
\* wrongly before stays.)
CalmReplayLeavesNothing ==
    calm /\ mode = "idle" /\ result \in {"ok", "failed"} =>
        manifest.ids \cap cloud.exists \subseteq IPs \cap manifest.deleted

\* No cleanup waits for ever: every wait of it has a deadline.
EveryCleanupEnds == mode = "cleanup" ~> mode = "idle"
=============================================================================
