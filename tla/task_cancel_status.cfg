\* Sequential client; one task.cancel(); no faults.
CONSTANTS
    Turns <- MCTurns
    Subs = {s1}
    AfterSeqs <- MCAfterSeqs
    MaxMsgs <- MCMaxMsgs
    MaxEvents <- MCMaxEvents
    FLUSH_EVENT_COUNT <- MCFlushCount
    MaxUserCancels = 0
    StartPolicy = "afterDone"
    DbMayFail = FALSE
    BusMayFail = FALSE
    AgentMayFail = FALSE
    ConnectMayFail = FALSE
    MaxTaskCancels = 1
SPECIFICATION Spec
INVARIANT StatusMatchesTerminal
