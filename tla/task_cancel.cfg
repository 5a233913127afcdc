\* Sequential client; one DELETE; the second turn's task cancelled once by
\* _close_session (its session was attached at POST); no faults.
CONSTANTS
    Turns <- MCTurns
    Subs = {s1}
    AfterSeqs <- MCAfterSeqs
    MaxMsgs <- MCMaxMsgs
    MaxEvents <- MCMaxEvents
    FLUSH_EVENT_COUNT <- MCFlushCount
    MaxUserCancels = 1
    StartPolicy = "afterDone"
    DbMayFail = FALSE
    BusMayFail = FALSE
    AgentMayFail = FALSE
    ConnectMayFail = FALSE
    MaxTaskCancels = 1
SPECIFICATION Spec
INVARIANT NoEventAfterTerminal
