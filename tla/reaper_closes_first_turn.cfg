\* The reaper runs while the first turn of a chat is running.
CONSTANTS
    Tasks <- MCTasks
    Chats = {"c1"}
    TaskChat <- MCTaskChat
    Cfgs <- MCCfgs
    Overlap = FALSE
    ConnectMayFail = FALSE
    TransportMayDie = FALSE
    ReaperRuns = TRUE
    TerminateCalls = FALSE
    ShutdownHappens = FALSE
    MaxDeletes = 0
SPECIFICATION Spec
CHECK_DEADLOCK FALSE
INVARIANT NoTurnOnClosedSession
