\* A client that POSTs the next turn only after the previous task ended;
\* DELETE, Redis failures, agent failures and a failed connect allowed;
\* persistence reliable.
CONSTANTS
    Turns <- MCTurns
    Subs = {s1}
    AfterSeqs <- MCAfterSeqs
    MaxMsgs <- MCMaxMsgs
    MaxEvents <- MCMaxEvents
    FLUSH_EVENT_COUNT <- MCFlushCount
    MaxUserCancels = 1
    StartPolicy = "afterDone"
    DbMayFail = FALSE
    BusMayFail = TRUE
    AgentMayFail = TRUE
    ConnectMayFail = TRUE
    MaxTaskCancels = 0
SPECIFICATION Spec
INVARIANT TypeOK
INVARIANT SeqNeverReused
INVARIANT SnapshotAgreesWithLog
INVARIANT AtMostOneTerminal
INVARIANT SubscriberInOrder
PROPERTY SubscriberEventuallyCloses
PROPERTY LogRefined
