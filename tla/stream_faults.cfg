\* A sequential client; failing INSERTs, UPDATEs and Redis publishes.
CONSTANTS
    Turns <- MCTurns
    Subs = {s1}
    AfterSeqs <- MCResumeSeqs
    MaxMsgs <- MCMaxMsgs
    MaxEvents <- MCMaxEvents
    FLUSH_EVENT_COUNT <- MCFlushCount
    MaxUserCancels = 0
    StartPolicy = "afterDone"
    DbMayFail = TRUE
    BusMayFail = TRUE
    AgentMayFail = FALSE
    ConnectMayFail = FALSE
    MaxTaskCancels = 0
SPECIFICATION Spec
INVARIANT PersistedSeqUnique
