\* Overlapping POSTs on one chat; fingerprint changes, failed connects,
\* sandbox deaths, a DELETE, the reaper, terminate, and the end of the
\* lifespan: terminate_all closes the sessions it took while turns may still
\* be starting or running.
CONSTANTS
    Tasks <- MCTasks
    Chats = {"c1"}
    TaskChat <- MCTaskChat
    Cfgs <- MCCfgs
    Overlap = TRUE
    ConnectMayFail = TRUE
    TransportMayDie = TRUE
    ReaperRuns = TRUE
    TerminateCalls = TRUE
    ShutdownHappens = TRUE
    MaxDeletes = 1
SPECIFICATION Spec
\* The event loop keeps serving other chats when these tasks wait on each
\* other; a task that never ends is caught by EveryTaskEnds, not as a deadlock.
CHECK_DEADLOCK FALSE
INVARIANT TypeOK
INVARIANT NoConcurrentClose
PROPERTY EveryTaskEnds
