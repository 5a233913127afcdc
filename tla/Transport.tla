------------------------------ MODULE Transport ------------------------------
(***************************************************************************)
(* One sandbox transport (services/transports/{docker,k8s}.py) from        *)
(* connect to close: the agent process and its output channel, the reader *)
(* and monitor tasks, the stdout queue and the consumer of recv().         *)
(*                                                                         *)
(* BaseSandboxTransport (transports/base.py) is not under src/: its close, *)
(* end_input, read_messages, _put_sentinel and _cancel_task are modelled   *)
(* from spec 4.1.  Each action is the code between two awaits.             *)
(***************************************************************************)
EXTENDS Naturals, Sequences

CONSTANTS
    Backends,       \* {"docker", "k8s"}
    MaxOut,         \* bound: stdout chunks the process writes
    InspectMayFail, \* docker: exec.inspect() may raise
    BreakOn         \* backends whose channel may fail while the process lives

ASSUME Backends \subseteq {"docker", "k8s"} /\ BreakOn \subseteq Backends /\ MaxOut \in Nat

\* The bytes of a stdout or stderr frame: the n-th chunk the process wrote;
\* lead: it begins with the last bytes of a character the previous frame
\* cut; trail: it ends inside a multi-byte character.
Bytes(n, lead, trail) == [n |-> n, lead |-> lead, trail |-> trail]
\* A str as the reader puts it on the queue: chunk n, and whether it
\* holds exactly the characters the process wrote.
Text(n, intact) == [n |-> n, intact |-> intact]
Sentinel == Text(0, TRUE)      \* _put_sentinel's end marker; chunks are 1..MaxOut
StderrChunk == MaxOut + 1      \* a chunk written to stderr, never to stdout
Frame(kind, data) == [kind |-> kind, data |-> data]

\* bytes.decode("utf-8", errors="replace") of one frame: bytes of a
\* character cut at either end of the frame become U+FFFD.
Decode(b) == Text(b.n, ~b.lead /\ ~b.trail)

VARIABLES
    backend,   \* which transport class
    proc,      \* the agent process: none, running, exit0, exitErr, killed
    chan,      \* frames the channel holds for the reader, in order
    cut,       \* the last stdout frame ended inside a multi-byte character
    outN,      \* stdout chunks written so far
    errSent,   \* a stderr frame was written
    broken,    \* the channel failed under a live process
    reader,    \* _reader_task: none, running, done
    monitor,   \* _monitor_task: none, running, done
    cancelR,   \* a cancel() of the reader not yet delivered
    cancelM,   \* a cancel() of the monitor not yet delivered
    errData,   \* k8s _error_data: "", "ok", "err"
    ready,     \* _ready
    exitError, \* _exit_error: none, process, gone, stopped
    stdinClosed, \* _stdin_closed
    q,         \* _stdout_queue
    got,       \* what read_messages has yielded, the sentinel included
    res,       \* open handles: client (_docker / _ws_api), exec, channel (_stream / _ws)
    owner      \* the caller: new, open, failed, closeMon, closeReader, closeKill, closeRes, closed

vars == <<backend, proc, chan, cut, outN, errSent, broken, reader, monitor, cancelR, cancelM,
          errData, ready, exitError, stdinClosed, q, got, res, owner>>
procVars == <<proc, chan, cut, outN, errSent, broken>>

Exited == {"exit0", "exitErr", "killed"}
Consumed == got # <<>> /\ got[Len(got)] = Sentinel

-----------------------------------------------------------------------------
(* connect()                                                               *)

\* Docker connect: _get_docker() opens the client, _get_container() may
\* fail, container.exec() and start()/_init() may fail; on success the
\* reader and monitor tasks are created and _ready is set.  A failure keeps
\* the handles made so far until close().
DockerConnect ==
    /\ backend = "docker" /\ owner = "new"
    /\ \/ /\ \E partial \in {{}, {"client"}, {"client", "exec"}, {"client", "exec", "channel"}} :
                 res' = partial
          /\ owner' = "failed"
          /\ UNCHANGED <<procVars, reader, monitor, ready, stdinClosed>>
       \/ /\ res' = {"client", "exec", "channel"}
          /\ proc' = "running"
          /\ reader' = "running" /\ monitor' = "running"
          /\ ready' = TRUE /\ stdinClosed' = FALSE
          /\ owner' = "open"
          /\ UNCHANGED <<chan, cut, outN, errSent, broken>>
    /\ UNCHANGED <<backend, cancelR, cancelM, errData, exitError, q, got>>

\* K8s connect: a config failure opens nothing; a failed pod exec closes
\* the WsApiClient it opened before raising.
K8sConnect ==
    /\ backend = "k8s" /\ owner = "new"
    /\ \/ /\ owner' = "failed"
          /\ UNCHANGED <<procVars, reader, monitor, ready, stdinClosed, errData, res>>
       \/ /\ res' = {"client", "channel"}
          /\ proc' = "running"
          /\ reader' = "running" /\ monitor' = "running"
          /\ ready' = TRUE /\ stdinClosed' = FALSE /\ errData' = ""
          /\ owner' = "open"
          /\ UNCHANGED <<chan, cut, outN, errSent, broken>>
    /\ UNCHANGED <<backend, cancelR, cancelM, exitError, q, got>>

\* end_input(): the base marks stdin closed and calls _send_eof (docker
\* half-closes the stream; k8s sends an empty stdin frame).
EndInput ==
    /\ owner = "open" /\ ~stdinClosed
    /\ stdinClosed' = TRUE
    /\ UNCHANGED <<backend, procVars, reader, monitor, cancelR, cancelM, errData,
                   ready, exitError, q, got, res, owner>>

-----------------------------------------------------------------------------
(* The agent process and its channel                                       *)

\* The process writes a stdout chunk, or a stderr chunk, and the channel
\* carries it as one frame.  Frame boundaries are the channel's: one may
\* fall inside a multi-byte character, whose remaining bytes then open the
\* next stdout frame.
ProcWrite ==
    /\ proc = "running" /\ "channel" \in res
    /\ \/ /\ outN < MaxOut
          /\ \E trail \in IF outN + 1 < MaxOut THEN BOOLEAN ELSE {FALSE} :
                /\ chan' = Append(chan, Frame("out", Bytes(outN + 1, cut, trail)))
                /\ cut' = trail
          /\ outN' = outN + 1 /\ UNCHANGED errSent
       \/ /\ ~errSent
          /\ chan' = Append(chan, Frame("err", Bytes(StderrChunk, FALSE, FALSE)))
          /\ errSent' = TRUE /\ UNCHANGED <<outN, cut>>
    /\ UNCHANGED <<proc, broken, backend, reader, monitor, cancelR, cancelM, errData, ready,
                   exitError, stdinClosed, q, got, res, owner>>

\* The process exits: docker's read_out() then returns None; the pod exec
\* sends its status document on the error channel, then closes.
ProcExit ==
    /\ proc = "running"
    /\ \E code \in {"exit0", "exitErr"} :
          /\ proc' = code
          /\ chan' = chan \o (IF backend = "k8s"
                              THEN <<Frame("status", IF code = "exit0" THEN "ok" ELSE "err"),
                                     Frame("eof", 0)>>
                              ELSE <<Frame("eof", 0)>>)
    /\ UNCHANGED <<cut, outN, errSent, broken, backend, reader, monitor, cancelR, cancelM,
                   errData, ready, exitError, stdinClosed, q, got, res, owner>>

\* The stream or websocket fails under a live process (daemon or API
\* server connection lost).
ChanBreak ==
    /\ backend \in BreakOn /\ proc = "running" /\ "channel" \in res
    /\ ~broken
    /\ chan' = Append(chan, Frame("broken", 0))
    /\ broken' = TRUE
    /\ UNCHANGED <<proc, cut, outN, errSent, backend, reader, monitor, cancelR, cancelM,
                   errData, ready, exitError, stdinClosed, q, got, res, owner>>

-----------------------------------------------------------------------------
(* The reader task                                                         *)

\* What the reader does with one frame: a stdout chunk is put on the
\* queue, stderr goes to the options.stderr callback, the end of the
\* channel (or a read error) leaves the loop and the finally clause puts
\* the sentinel.
Deliver(f) ==
    /\ q' = CASE f.kind = "out"                 -> Append(q, Decode(f.data))
              [] f.kind \in {"eof", "broken"}  -> Append(q, Sentinel)
              [] OTHER                         -> q
    /\ reader' = IF f.kind \in {"eof", "broken"} THEN "done" ELSE "running"
    /\ chan' = Tail(chan)

\* Mutant: stderr records are forwarded to the stdout queue as well.
DockerReadStderr ==
    /\ backend = "docker" /\ reader = "running" /\ ~cancelR /\ chan # <<>>
    /\ LET f == Head(chan) IN
       IF f.kind = "err" THEN /\ q' = Append(q, Decode(f.data)) /\ chan' = Tail(chan)
                              /\ UNCHANGED reader
       ELSE Deliver(f)
    /\ UNCHANGED <<errData, backend, proc, cut, outN, errSent, broken, monitor, cancelR,
                   cancelM, ready, exitError, stdinClosed, got, res, owner>>

\* DockerSandboxTransport._read_stream_data: read_out() returns the next
\* multiplexed record, None at the end of the exec stream.
DockerRead ==
    /\ backend = "docker" /\ reader = "running" /\ ~cancelR /\ chan # <<>>
    /\ Deliver(Head(chan))
    /\ UNCHANGED <<errData, backend, proc, cut, outN, errSent, broken, monitor, cancelR,
                   cancelM, ready, exitError, stdinClosed, got, res, owner>>

\* K8sSandboxTransport._read_stream_data: as docker, and the error
\* channel's status document is appended to _error_data.
K8sRead ==
    /\ backend = "k8s" /\ reader = "running" /\ ~cancelR /\ chan # <<>>
    /\ Deliver(Head(chan))
    /\ errData' = IF Head(chan).kind = "status" THEN Head(chan).data ELSE errData
    /\ UNCHANGED <<backend, proc, cut, outN, errSent, broken, monitor, cancelR,
                   cancelM, ready, exitError, stdinClosed, got, res, owner>>

\* Mutant: the sentinel is put after the loop, not in finally.
ReaderCancelledNoSentinel ==
    /\ reader = "running" /\ cancelR
    /\ reader' = "done" /\ cancelR' = FALSE
    /\ UNCHANGED <<q, chan, errData, backend, procVars, monitor, cancelM, ready,
                   exitError, stdinClosed, got, res, owner>>

\* The CancelledError is delivered at the pending await: except passes,
\* finally puts the sentinel.
ReaderCancelled ==
    /\ reader = "running" /\ cancelR
    /\ q' = Append(q, Sentinel)
    /\ reader' = "done" /\ cancelR' = FALSE
    /\ UNCHANGED <<chan, errData, backend, procVars, monitor, cancelM, ready,
                   exitError, stdinClosed, got, res, owner>>

-----------------------------------------------------------------------------
(* The monitor task                                                        *)

\* Mutant: the loop breaks only on a non-zero exit code.
DockerPollExitedErrOnly ==
    /\ backend = "docker" /\ monitor = "running" /\ ~cancelM /\ ready
    /\ proc \in {"exitErr", "killed"}
    /\ exitError' = "process" /\ monitor' = "done" /\ ready' = FALSE
    /\ UNCHANGED <<backend, procVars, reader, cancelR, cancelM, errData,
                   stdinClosed, q, got, res, owner>>

\* Mutant: _exit_error is set to the inspect state itself.
DockerPollExitedRaw ==
    /\ backend = "docker" /\ monitor = "running" /\ ~cancelM /\ ready
    /\ proc \in Exited
    /\ exitError' = IF proc = "exit0" THEN exitError ELSE proc
    /\ monitor' = "done" /\ ready' = FALSE
    /\ UNCHANGED <<backend, procVars, reader, cancelR, cancelM, errData,
                   stdinClosed, q, got, res, owner>>

\* DockerSandboxTransport._monitor_process: a poll (every 500 ms) whose
\* exec.inspect() reports the process stopped; a non-zero (or missing)
\* exit code becomes a ProcessError.  A poll that finds the process
\* running changes nothing.  finally clears _ready.
DockerPollExited ==
    /\ backend = "docker" /\ monitor = "running" /\ ~cancelM /\ ready
    /\ proc \in Exited
    /\ exitError' = IF proc = "exit0" THEN exitError ELSE "process"
    /\ monitor' = "done" /\ ready' = FALSE
    /\ UNCHANGED <<backend, procVars, reader, cancelR, cancelM, errData,
                   stdinClosed, q, got, res, owner>>

\* _get_exec_info() swallows an inspect error and returns None: the
\* monitor reports the process as disappeared.
DockerPollFail ==
    /\ InspectMayFail
    /\ backend = "docker" /\ monitor = "running" /\ ~cancelM /\ ready
    /\ exitError' = "gone" /\ monitor' = "done" /\ ready' = FALSE
    /\ UNCHANGED <<backend, procVars, reader, cancelR, cancelM, errData,
                   stdinClosed, q, got, res, owner>>

\* Mutant: the monitor parses _error_data without waiting for the reader.
K8sMonitorEndNoWait ==
    /\ backend = "k8s" /\ monitor = "running" /\ ~cancelM
    /\ exitError' = IF errData = "err" THEN "process" ELSE exitError
    /\ monitor' = "done" /\ ready' = FALSE
    /\ UNCHANGED <<backend, procVars, reader, cancelR, cancelM, errData,
                   stdinClosed, q, got, res, owner>>

\* K8sSandboxTransport._monitor_process: await the reader (shielded),
\* then a non-zero status in _error_data becomes a ProcessError; finally
\* clears _ready.
K8sMonitorEnd ==
    /\ backend = "k8s" /\ monitor = "running" /\ ~cancelM /\ reader = "done"
    /\ exitError' = IF errData = "err" THEN "process" ELSE exitError
    /\ monitor' = "done" /\ ready' = FALSE
    /\ UNCHANGED <<backend, procVars, reader, cancelR, cancelM, errData,
                   stdinClosed, q, got, res, owner>>

\* Both monitors: a CancelledError is swallowed and finally clears _ready.
MonitorCancelled ==
    /\ monitor = "running" /\ cancelM
    /\ monitor' = "done" /\ cancelM' = FALSE /\ ready' = FALSE
    /\ UNCHANGED <<backend, procVars, reader, cancelR, errData, exitError,
                   stdinClosed, q, got, res, owner>>

-----------------------------------------------------------------------------
(* The consumer and close() (BaseSandboxTransport, spec 4.1)                *)

\* read_messages(): the next queue item; the sentinel ends the sequence.
Recv ==
    /\ reader # "none" /\ ~Consumed /\ q # <<>>
    /\ got' = Append(got, Head(q)) /\ q' = Tail(q)
    /\ UNCHANGED <<backend, procVars, reader, monitor, cancelR, cancelM, errData,
                   ready, exitError, stdinClosed, res, owner>>

\* close(): idempotent (a second call returns at once); clears _ready and
\* cancels the monitor, then runs _cleanup_resources.  The session
\* registry also closes a transport whose connect failed.
CloseBegin ==
    /\ owner \in {"open", "failed"}
    /\ ready' = FALSE /\ cancelM' = (monitor = "running")
    /\ owner' = "closeMon"
    /\ UNCHANGED <<backend, procVars, reader, monitor, cancelR, errData,
                   exitError, stdinClosed, q, got, res>>

\* The monitor has ended; _cleanup_resources begins with
\* _cancel_task(self._reader_task).
CloseMonitor ==
    /\ owner = "closeMon" /\ monitor # "running"
    /\ cancelR' = (reader = "running")
    /\ owner' = "closeReader"
    /\ UNCHANGED <<backend, procVars, reader, monitor, cancelM, errData, ready,
                   exitError, stdinClosed, q, got, res>>

\* Mutant: the reader is cancelled but not awaited.
CloseReaderNoWait ==
    /\ owner = "closeReader"
    /\ owner' = IF backend = "docker" THEN "closeKill" ELSE "closeRes"
    /\ UNCHANGED <<backend, procVars, reader, monitor, cancelR, cancelM, errData,
                   ready, exitError, stdinClosed, q, got, res>>

\* _cancel_task has awaited the reader; _reader_task = None.
CloseReader ==
    /\ owner = "closeReader" /\ reader # "running"
    /\ owner' = IF backend = "docker" THEN "closeKill" ELSE "closeRes"
    /\ UNCHANGED <<backend, procVars, reader, monitor, cancelR, cancelM, errData,
                   ready, exitError, stdinClosed, q, got, res>>

\* Docker _kill_exec_process: with an exec and a container, inspect the
\* exec; if it reports the process running, exec `kill -KILL -pid`.  An
\* inspect error is swallowed and nothing is killed.
DockerKill ==
    /\ owner = "closeKill"
    /\ \E fail \in IF InspectMayFail THEN BOOLEAN ELSE {FALSE} :
          proc' = IF ~fail /\ "exec" \in res /\ proc = "running" THEN "killed" ELSE proc
    /\ owner' = "closeRes"
    /\ UNCHANGED <<backend, chan, cut, outN, errSent, broken, reader, monitor, cancelR,
                   cancelM, errData, ready, exitError, stdinClosed, q, got, res>>

\* The rest of docker's _cleanup_resources: close the stream if any, drop
\* the exec, close the Docker client if any (errors suppressed).
DockerCleanup ==
    /\ owner = "closeRes" /\ backend = "docker"
    /\ res' = {}
    /\ owner' = "closed"
    /\ UNCHANGED <<backend, procVars, reader, monitor, cancelR, cancelM, errData,
                   ready, exitError, stdinClosed, q, got>>

\* The rest of k8s's _cleanup_resources: close the websocket if any, then
\* the WsApiClient if any (errors suppressed).
K8sCleanup ==
    /\ owner = "closeRes" /\ backend = "k8s"
    /\ res' = res \ {"channel", "client"}
    /\ owner' = "closed"
    /\ UNCHANGED <<backend, procVars, reader, monitor, cancelR, cancelM, errData,
                   ready, exitError, stdinClosed, q, got>>

-----------------------------------------------------------------------------

\* A transport built by the factory: nothing connected yet.
Init ==
    /\ backend \in Backends
    /\ proc = "none" /\ chan = <<>> /\ cut = FALSE /\ outN = 0 /\ errSent = FALSE /\ broken = FALSE
    /\ reader = "none" /\ monitor = "none" /\ cancelR = FALSE /\ cancelM = FALSE
    /\ errData = "" /\ ready = FALSE /\ exitError = "none" /\ stdinClosed = FALSE
    /\ q = <<>> /\ got = <<>> /\ res = {} /\ owner = "new"

\* The steps of the transport's own tasks and of close() once begun.
TaskStep ==
    \/ DockerRead \/ K8sRead \/ ReaderCancelled
    \/ DockerPollExited \/ K8sMonitorEnd \/ MonitorCancelled
    \/ Recv \/ CloseMonitor \/ CloseReader \/ DockerKill \/ DockerCleanup \/ K8sCleanup

Next ==
    \/ DockerConnect \/ K8sConnect \/ EndInput \/ CloseBegin
    \/ ProcWrite \/ ProcExit \/ ChanBreak \/ DockerPollFail
    \/ TaskStep

\* Ready tasks of the event loop run (weak fairness of each step); the
\* caller, the process and failures of inspect or the channel are not
\* assumed to act.
Fairness ==
    /\ WF_vars(DockerRead) /\ WF_vars(K8sRead) /\ WF_vars(ReaderCancelled)
    /\ WF_vars(DockerPollExited) /\ WF_vars(K8sMonitorEnd) /\ WF_vars(MonitorCancelled)
    /\ WF_vars(Recv) /\ WF_vars(CloseMonitor) /\ WF_vars(CloseReader)
    /\ WF_vars(DockerKill) /\ WF_vars(DockerCleanup) /\ WF_vars(K8sCleanup)

Spec == Init /\ [][Next]_vars /\ Fairness

-----------------------------------------------------------------------------
(* Properties                                                              *)

TypeOK ==
    /\ backend \in Backends
    /\ proc \in {"none", "running"} \cup Exited
    /\ \A i \in 1..Len(chan) :
          /\ chan[i].kind \in {"out", "err", "status", "eof", "broken"}
          /\ chan[i].data \in CASE chan[i].kind = "status"        -> {"ok", "err"}
                               [] chan[i].kind \in {"out", "err"} ->
                                     [n : 1..StderrChunk, lead : BOOLEAN, trail : BOOLEAN]
                               [] OTHER                         -> {0}
    /\ cut \in BOOLEAN /\ outN \in 0..MaxOut /\ errSent \in BOOLEAN /\ broken \in BOOLEAN
    /\ reader \in {"none", "running", "done"} /\ monitor \in {"none", "running", "done"}
    /\ cancelR \in BOOLEAN /\ cancelM \in BOOLEAN
    /\ errData \in {"", "ok", "err"} /\ ready \in BOOLEAN
    /\ exitError \in {"none", "process", "gone"} /\ stdinClosed \in BOOLEAN
    /\ q \in Seq([n : 0..StderrChunk, intact : BOOLEAN])
    /\ got \in Seq([n : 0..StderrChunk, intact : BOOLEAN])
    /\ res \subseteq {"client", "exec", "channel"}
    /\ owner \in {"new", "open", "failed", "closeMon", "closeReader", "closeKill",
                  "closeRes", "closed"}

\* Spec 4.1 (recv, framing): read_messages yields one str per stdout frame,
\* in the order the process wrote them, never a stderr frame, and the
\* sentinel once, last; when the process exits while the transport is
\* open and the channel intact, every chunk it wrote comes before the
\* sentinel (the reader drains the channel before it ends).
StdoutFaithful ==
    /\ \A i \in 1..Len(got) :
          IF Consumed /\ i = Len(got) THEN got[i] = Sentinel ELSE got[i].n = i
    /\ Consumed /\ owner = "open" /\ proc \in Exited /\ ~broken => Len(got) = outN + 1

\* Spec 4.1 (recv is "a sequence over stdout" in text chunks): every str
\* read_messages yields holds exactly the characters the process wrote,
\* even where a frame boundary fell inside a multi-byte character (the
\* reader decodes each frame on its own, docker.py:101, k8s.py:137).
StdoutIntact ==
    \A i \in 1..Len(got) : got[i].intact

\* Spec 4.1 (recv is finite): once the process has exited or close() has
\* begun, the consumer's read_messages ends with the sentinel, whether
\* the reader leaves its loop or is cancelled by _cleanup_resources.
RecvEnds ==
    (reader # "none" /\ (proc \in Exited \/ owner \notin {"new", "open", "failed"}))
        ~> Consumed

\* Spec 4.1 (is_ready): once the stdout sequence is over (the reader
\* task ended), _ready eventually becomes false, so the session registry
\* restarts the session instead of reusing a dead one.
ReadyFollowsStream ==
    (reader = "done") ~> ~ready

\* Spec 4.1 (liveness): a non-zero exit of the process while the
\* transport reports ready and its channel is intact is eventually
\* surfaced as _exit_error (docker by the inspect poll, k8s from the error
\* channel after the reader ends), unless close() comes first.
ExitSurfaced ==
    (proc = "exitErr" /\ ready /\ ~broken) ~> (exitError # "none" \/ owner # "open")

\* Spec 4.1 (close kills the child process with a signal): once close()
\* has returned, the agent process is not running.
CloseKillsProcess ==
    owner = "closed" => proc # "running"

\* Spec 4.1 ("surfaces exit_error the moment the child exits nonzero"):
\* when the consumer reaches the end of stdout after a non-zero exit on an
\* open transport, _exit_error is already set.
ExitKnownAtEnd ==
    Consumed /\ proc = "exitErr" /\ owner = "open" /\ ~broken => exitError # "none"

====
