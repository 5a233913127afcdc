\* A DELETE /stream while the turn is still in get_or_create.
CONSTANTS
    Tasks <- MCTasks
    Chats = {"c1"}
    TaskChat <- MCTaskChat
    Cfgs <- MCCfgs
    Overlap = FALSE
    ConnectMayFail = FALSE
    TransportMayDie = FALSE
    ReaperRuns = FALSE
    TerminateCalls = FALSE
    ShutdownHappens = FALSE
    MaxDeletes = 1
SPECIFICATION Spec
CHECK_DEADLOCK FALSE
INVARIANT DeleteHonoured
