\* A client that POSTs the next turn as soon as its SSE stream delivered the
\* previous turn's terminal envelope; no faults.
CONSTANTS
    Turns <- MCTurns
    Subs = {s1}
    AfterSeqs <- MCAfterSeqs
    MaxMsgs <- MCMaxMsgs
    MaxEvents <- MCMaxEvents
    FLUSH_EVENT_COUNT <- MCFlushCount
    MaxUserCancels = 0
    StartPolicy = "afterTerminal"
    DbMayFail = FALSE
    BusMayFail = FALSE
    AgentMayFail = FALSE
    ConnectMayFail = FALSE
    MaxTaskCancels = 0
SPECIFICATION Spec
INVARIANT SeqNeverReused
