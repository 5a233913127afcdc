------------------------- MODULE MC_SessionRegistry -------------------------
(* Model-checking instance of SessionRegistry. *)
EXTENDS SessionRegistry

\* Three turns of one chat: the first creates the session (and is never
\* attached to it), the second may reuse or restart it, the third sees the
\* outcome of a restart or of a failed re-create.
MCTasks == 1..2
MCTaskChat == [t \in MCTasks |-> "c1"]
\* Two request configurations, so a turn may find the fingerprint changed.
MCCfgs == {"A", "B"}
\* terminate_all with two chats: the first turn of each chat creates its
\* session, the second turn of chat c2 restarts its session while the
\* shutdown is closing c1's.
MCLeakTasks == 1..3
MCLeakTaskChat == <<"c1", "c2", "c2">>
====
