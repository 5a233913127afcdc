\* Sequential client; no faults at all.
CONSTANTS
    Turns <- MCTurns
    Subs = {s1}
    AfterSeqs <- MCAfterSeqs
    MaxMsgs <- MCMaxMsgs
    MaxEvents <- MCMaxEvents
    FLUSH_EVENT_COUNT <- MCFlushCount
    MaxUserCancels = 0
    StartPolicy = "afterDone"
    DbMayFail = FALSE
    BusMayFail = FALSE
    AgentMayFail = FALSE
    ConnectMayFail = FALSE
    MaxTaskCancels = 0
SPECIFICATION Spec
INVARIANT SubscriberGapFree
