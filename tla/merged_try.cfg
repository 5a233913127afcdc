CONSTANTS
    Turns <- MCTurns
    Subs = {s1}
    AfterSeqs <- MCResumeSeqs
    MaxMsgs <- MCMaxMsgs
    MaxEvents <- MCMaxEvents
    FLUSH_EVENT_COUNT <- MCFlushCount
    MaxUserCancels = 1
    StartPolicy = "afterDone"
    DbMayFail = TRUE
    BusMayFail = TRUE
    AgentMayFail = FALSE
    ConnectMayFail = FALSE
    MaxTaskCancels = 1
SPECIFICATION Spec
INVARIANT PersistedSeqUnique
INVARIANT NoEventAfterTerminal
