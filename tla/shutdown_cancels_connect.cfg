\* terminate_all, closing one chat's session, lets a turn of another chat
\* take the lock and enter client.connect(); it then cancels that turn.
CONSTANTS
    Tasks <- MCLeakTasks
    Chats = {"c1", "c2"}
    TaskChat <- MCLeakTaskChat
    Cfgs <- MCCfgs
    Overlap = FALSE
    ConnectMayFail = FALSE
    TransportMayDie = FALSE
    ReaperRuns = FALSE
    TerminateCalls = FALSE
    ShutdownHappens = TRUE
    MaxDeletes = 0
SPECIFICATION Spec
CHECK_DEADLOCK FALSE
INVARIANT NoLeakedSession
