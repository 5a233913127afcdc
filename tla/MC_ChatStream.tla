--------------------------- MODULE MC_ChatStream ---------------------------
(* Instantiates ChatStream for TLC.  Each .cfg picks the client behaviour  *)
(* and the faults it allows; the sizes below are shared.                  *)
EXTENDS ChatStream

\* Two turns: the second one reads get_next_seq after the first one.
MCTurns == 1..2
\* Two agent messages of up to one event each: with the terminal envelope
\* a turn emits up to three events, enough to reach the flush threshold
\* and to have a DELETE land before, between or after the messages.
MCMaxMsgs == 2
MCMaxEvents == 1
\* SNAPSHOT_FLUSH_EVENT_COUNT is 24 in the code; 2 makes the count branch
\* reachable within MCMaxMsgs * MCMaxEvents events.
MCFlushCount == 2
\* after_seq = 0 replays everything; 2 resumes in the middle of turn 1.
MCAfterSeqs == {0, 2}
\* The fault run resumes only in the middle of turn 1 (after_seq = 2).
MCResumeSeqs == {2}

=============================================================================
