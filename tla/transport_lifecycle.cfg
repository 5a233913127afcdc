\* Docker and k8s transports: connect (or fail half-way), two stdout
\* chunks and a stderr chunk, exit with zero or non-zero status, inspect
\* failures, end_input, and close() at any point, twice as the registry
\* does; the docker stream or the k8s websocket may fail under a live
\* process.
CONSTANTS
    Backends <- MCBackends
    MaxOut = 2
    InspectMayFail = TRUE
    BreakOn = {"docker", "k8s"}
SPECIFICATION Spec
\* A closed transport, or a failed connect nobody closes, does nothing more.
CHECK_DEADLOCK FALSE
INVARIANT TypeOK
INVARIANT StdoutFaithful
PROPERTY RecvEnds
PROPERTY ExitSurfaced
