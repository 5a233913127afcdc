--------------------------- MODULE SessionRegistry ---------------------------
(***************************************************************************)
(* The Session Registry (services/session_registry.py) and the lifecycle   *)
(* of the turn tasks that borrow its sessions (ChatService.                *)
(* initiate_chat_completion, ChatStreamRuntime.execute_chat / run).        *)
(*                                                                         *)
(* A session is named by the task whose get_or_create connected it, so at  *)
(* most |Tasks| sessions exist.  Closers are the turn tasks (a restart in  *)
(* get_or_create), terminate_all at shutdown, the reaper and terminate.    *)
(* What a turn emits is abstracted to its outcome; ChatStream models run   *)
(* itself.  Every action ends at an await or at the end of a coroutine.    *)
(***************************************************************************)
EXTENDS Naturals, FiniteSets

CONSTANTS
    Tasks,            \* 1..N: the turn tasks, in POST order
    Chats,            \* chat ids
    TaskChat,         \* the chat each turn is for
    Cfgs,             \* (sandbox_id, options fingerprint) a request may carry
    Overlap,          \* may the client POST while its chat has a turn running
    ConnectMayFail,   \* client.connect() may raise
    TransportMayDie,  \* a sandbox process may exit: is_ready() turns false
    ReaperRuns,       \* a reaper task calls reap_idle
    TerminateCalls,   \* someone calls terminate(chat_id)
    ShutdownHappens,  \* the lifespan ends: terminate_all
    MaxDeletes        \* bound: DELETE /stream requests

ASSUME
    /\ Tasks = 1..Cardinality(Tasks) /\ Tasks # {}
    /\ TaskChat \in [Tasks -> Chats] /\ Cfgs # {}
    /\ {Overlap, ConnectMayFail, TransportMayDie, ReaperRuns, TerminateCalls,
        ShutdownHappens} \subseteq BOOLEAN
    /\ MaxDeletes \in Nat

NoSession == 0
NoTask    == 0
\* The closers that are not turn tasks, numbered after the tasks.
Shutdown  == Cardinality(Tasks) + 1    \* lifespan: terminate_all
Reaper    == Cardinality(Tasks) + 2    \* the reap_idle loop
Terminator == Cardinality(Tasks) + 3   \* a caller of terminate(chat_id)
Servers   == {Shutdown, Reaper, Terminator}
Closers   == Tasks \cup Servers
NoOne     == 0
TaskPCs   == {"idle", "start", "close", "connect", "run", "done"}
Outcomes  == {"none", "complete", "cancelled", "error"}

VARIABLES
    pc,          \* where each turn task is
    cfg,         \* the sandbox and options its request carries
    sess,        \* the session its run borrows
    outcome,     \* the terminal envelope it ended with ("none": no envelope)
    cancelReq,   \* a task.cancel() not yet delivered to it
    deleted,     \* a DELETE arrived after its POST returned (history)
    sstate,      \* each session: "unused", "open", "closed"
    sfp,         \* its sandbox_id and config_fingerprint
    ready,       \* its transport.is_ready()
    active,      \* its active_generation_task
    cancelEvt,   \* its cancel_event
    regMap,      \* SessionRegistry._sessions
    pendingCancels,
    lock,        \* holder of SessionRegistry._lock
    closing,     \* the session each closer is in _close_session for
    waitee,      \* the task that _close_session cancelled and awaits
    cstep,       \* where in _close_session it is
    todo,        \* sessions terminate_all / reap_idle still have to close
    phase,       \* of shutdown, the reaper and terminate
    deletes      \* DELETEs so far (bound only)

taskVars  == <<pc, cfg, sess, outcome, cancelReq, deleted>>
sessVars  == <<sstate, sfp, ready, active, cancelEvt>>
closeVars == <<closing, waitee, cstep, todo, phase>>
vars == <<taskVars, sessVars, regMap, pendingCancels, lock, closeVars, deletes>>

Running(t) == pc[t] \notin {"idle", "done"}

-----------------------------------------------------------------------------
(* _close_session                                                          *)

\* Its synchronous start: if the session's active_generation_task is not
\* done, task.cancel() it and await it.  A task closing the session it is
\* itself attached to cancels itself; the CancelledError that wait_for then
\* raises in it is caught by the except clause, so the close goes on.
StartClose(a, s) ==
    LET t == active[s] IN
    /\ closing' = [closing EXCEPT ![a] = s]
    /\ IF t # NoTask /\ Running(t) /\ t # a
       THEN /\ cancelReq' = [cancelReq EXCEPT ![t] = TRUE]
            /\ waitee' = [waitee EXCEPT ![a] = t]
            /\ cstep' = [cstep EXCEPT ![a] = "wait"]
       ELSE /\ cstep' = [cstep EXCEPT ![a] = "disc"]
            /\ UNCHANGED <<cancelReq, waitee>>

\* wait_for(task, 5 s) returns once the task has finished.
CloseWait(a) ==
    /\ cstep[a] \in {"wait", "waitAgain"}
    /\ pc[waitee[a]] = "done"
    /\ cstep' = [cstep EXCEPT ![a] = "disc"]
    /\ UNCHANGED <<taskVars, sessVars, regMap, pendingCancels, lock, closing,
                   waitee, todo, phase, deletes>>

\* After 5 s wait_for cancels the task a second time and goes on waiting
\* for it to finish before raising TimeoutError.
CloseTimeout(a) ==
    /\ cstep[a] = "wait"
    /\ pc[waitee[a]] # "done"
    /\ cancelReq' = [cancelReq EXCEPT ![waitee[a]] = TRUE]
    /\ cstep' = [cstep EXCEPT ![a] = "waitAgain"]
    /\ UNCHANGED <<pc, cfg, sess, outcome, deleted, sessVars, regMap,
                   pendingCancels, lock, closing, waitee, todo, phase, deletes>>

\* `for session in ss: await self._close_session(session)` of terminate_all
\* and reap_idle, up to its next await: the next session's close begins,
\* or the loop (and the coroutine) ends.
CloseLoop(a, ss) ==
    IF ss = {}
    THEN /\ phase' = [phase EXCEPT ![a] = IF a = Shutdown THEN "down" ELSE "idle"]
         /\ todo' = [todo EXCEPT ![a] = {}]
         /\ closing' = [closing EXCEPT ![a] = NoSession]
         /\ cstep' = [cstep EXCEPT ![a] = "none"]
         /\ UNCHANGED <<cancelReq, waitee>>
    ELSE \E s \in ss :
         /\ todo' = [todo EXCEPT ![a] = ss \ {s}]
         /\ phase' = [phase EXCEPT ![a] = "closing"]
         /\ StartClose(a, s)

\* client.disconnect(), then transport.close(); errors are swallowed.  The
\* closer then runs on to its next await: terminate leaves the lock,
\* terminate_all and reap_idle begin the next close, a turn task goes on
\* in get_or_create.
CloseDisconnect(a) ==
    /\ cstep[a] = "disc"
    /\ sstate' = [sstate EXCEPT ![closing[a]] = "closed"]
    /\ ready' = [ready EXCEPT ![closing[a]] = FALSE]
    /\ CASE a \in {Shutdown, Reaper} ->
              /\ CloseLoop(a, todo[a])
              /\ UNCHANGED lock
         [] a = Terminator ->
              /\ phase' = [phase EXCEPT ![a] = "idle"]
              /\ lock' = NoOne
              /\ closing' = [closing EXCEPT ![a] = NoSession]
              /\ cstep' = [cstep EXCEPT ![a] = "none"]
              /\ UNCHANGED <<cancelReq, waitee, todo>>
         [] OTHER ->
              /\ closing' = [closing EXCEPT ![a] = NoSession]
              /\ cstep' = [cstep EXCEPT ![a] = "none"]
              /\ UNCHANGED <<cancelReq, waitee, todo, phase, lock>>
    /\ UNCHANGED <<pc, cfg, sess, outcome, deleted, sfp, active, cancelEvt,
                   regMap, pendingCancels, deletes>>

CloseStep(a) == CloseWait(a) \/ CloseTimeout(a) \/ CloseDisconnect(a)

-----------------------------------------------------------------------------
(* POST /chat and the turn task                                            *)

\* initiate_chat_completion: start_background_chat, then, with no await in
\* between, store the task on get_session(chat_id) if the registry holds
\* one.  The server takes no requests once shutdown has begun.
StartTask(t) ==
    /\ pc[t] = "idle" /\ phase[Shutdown] = "idle"
    /\ \A u \in Tasks : u < t => pc[u] # "idle"
    /\ ~Overlap => \A u \in Tasks : TaskChat[u] = TaskChat[t] => ~Running(u)
    /\ \E c \in Cfgs : cfg' = [cfg EXCEPT ![t] = c]
    /\ pc' = [pc EXCEPT ![t] = "start"]
    /\ LET s == regMap[TaskChat[t]] IN
       active' = IF s # NoSession THEN [active EXCEPT ![s] = t] ELSE active
    /\ UNCHANGED <<sess, outcome, cancelReq, deleted, sstate, sfp, ready,
                   cancelEvt, regMap, pendingCancels, lock, closeVars, deletes>>

\* Reuse the session: stamp last_used_at, leave the lock, and in
\* execute_chat clear its cancel_event before run starts.
Reuse(t, s) ==
    /\ pc' = [pc EXCEPT ![t] = "run"]
    /\ sess' = [sess EXCEPT ![t] = s]
    /\ cancelEvt' = [cancelEvt EXCEPT ![s] = FALSE]
    /\ lock' = NoOne
    /\ UNCHANGED <<cancelReq, closing, waitee, cstep>>

\* Mutant: a stale session is dropped without _close_session.
AcquireDropsStale(t) ==
    LET s == regMap[TaskChat[t]] IN
    /\ pc[t] = "start" /\ ~cancelReq[t] /\ lock = NoOne
    /\ IF s # NoSession /\ sfp[s] = cfg[t] /\ ready[s]
       THEN Reuse(t, s)
       ELSE /\ lock' = t
            /\ pc' = [pc EXCEPT ![t] = "connect"]
            /\ UNCHANGED <<sess, cancelEvt, cancelReq, closing, waitee, cstep>>
    /\ UNCHANGED <<cfg, outcome, deleted, sstate, sfp, ready, active, regMap,
                   pendingCancels, todo, phase, deletes>>

\* Mutant: the stale session is closed after the lock is released.
AcquireClosesUnlocked(t) ==
    LET s == regMap[TaskChat[t]] IN
    /\ pc[t] = "start" /\ ~cancelReq[t] /\ lock = NoOne
    /\ CASE s # NoSession /\ sfp[s] = cfg[t] /\ ready[s] ->
              Reuse(t, s)
         [] s # NoSession ->
              /\ pc' = [pc EXCEPT ![t] = "close"]
              /\ StartClose(t, s)
              /\ UNCHANGED <<sess, cancelEvt, lock>>
         [] OTHER ->
              /\ lock' = t
              /\ pc' = [pc EXCEPT ![t] = "connect"]
              /\ UNCHANGED <<sess, cancelEvt, cancelReq, closing, waitee, cstep>>
    /\ UNCHANGED <<cfg, outcome, deleted, sstate, sfp, ready, active, regMap,
                   pendingCancels, todo, phase, deletes>>

\* has_messages, then get_or_create: take the lock, look the chat up;
\* reuse a session whose sandbox, fingerprint match and whose transport is
\* ready, otherwise close it (still holding the lock) or go on to create.
Acquire(t) ==
    LET s == regMap[TaskChat[t]] IN
    /\ pc[t] = "start" /\ ~cancelReq[t] /\ lock = NoOne
    /\ CASE s # NoSession /\ sfp[s] = cfg[t] /\ ready[s] ->
              Reuse(t, s)
         [] s # NoSession ->
              /\ lock' = t
              /\ pc' = [pc EXCEPT ![t] = "close"]
              /\ StartClose(t, s)
              /\ UNCHANGED <<sess, cancelEvt>>
         [] OTHER ->
              /\ lock' = t
              /\ pc' = [pc EXCEPT ![t] = "connect"]
              /\ UNCHANGED <<sess, cancelEvt, cancelReq, closing, waitee, cstep>>
    /\ UNCHANGED <<cfg, outcome, deleted, sstate, sfp, ready, active, regMap,
                   pendingCancels, todo, phase, deletes>>

\* _close_session has returned: `session = None`, go on to create.
Closed(t) ==
    /\ pc[t] = "close" /\ cstep[t] = "none"
    /\ pc' = [pc EXCEPT ![t] = "connect"]
    /\ UNCHANGED <<cfg, sess, outcome, cancelReq, deleted, sessVars, regMap,
                   pendingCancels, lock, closeVars, deletes>>

\* Mutant: a failed connect leaves the registry lock held.
ConnectFailKeepsLock(t) ==
    /\ pc[t] = "connect" /\ ~cancelReq[t]
    /\ \/ /\ sstate' = [sstate EXCEPT ![t] = "open"]
          /\ sfp' = [sfp EXCEPT ![t] = cfg[t]]
          /\ ready' = [ready EXCEPT ![t] = TRUE]
          /\ regMap' = [regMap EXCEPT ![TaskChat[t]] = t]
          /\ Reuse(t, t)
       \/ /\ ConnectMayFail
          /\ sstate' = [sstate EXCEPT ![t] = "closed"]
          /\ pc' = [pc EXCEPT ![t] = "done"]
          /\ UNCHANGED <<sess, sfp, ready, cancelEvt, regMap, lock, cancelReq,
                         closing, waitee, cstep>>
    /\ UNCHANGED <<cfg, outcome, deleted, active, pendingCancels, todo,
                   phase, deletes>>

\* _create_session: client.connect(); store the session and leave the lock.
\* On failure disconnect the client, close the transport and raise: the
\* exception leaves get_or_create (releasing the lock) and ends the task
\* before run, with no envelope.
Connect(t) ==
    /\ pc[t] = "connect" /\ ~cancelReq[t]
    /\ \/ /\ sstate' = [sstate EXCEPT ![t] = "open"]
          /\ sfp' = [sfp EXCEPT ![t] = cfg[t]]
          /\ ready' = [ready EXCEPT ![t] = TRUE]
          /\ regMap' = [regMap EXCEPT ![TaskChat[t]] = t]
          /\ Reuse(t, t)
       \/ /\ ConnectMayFail
          /\ sstate' = [sstate EXCEPT ![t] = "closed"]
          /\ pc' = [pc EXCEPT ![t] = "done"]
          /\ lock' = NoOne
          /\ UNCHANGED <<sess, sfp, ready, cancelEvt, regMap, cancelReq,
                         closing, waitee, cstep>>
    /\ UNCHANGED <<cfg, outcome, deleted, active, pendingCancels, todo,
                   phase, deletes>>

\* Mutant: a cancelled run reports the stream_status word, not the kind.
RunEndInterrupted(t) ==
    /\ pc[t] = "run" /\ ~cancelReq[t]
    /\ pc' = [pc EXCEPT ![t] = "done"]
    /\ \E k \in IF sstate[sess[t]] = "closed" THEN {"error"}
                ELSE IF cancelEvt[sess[t]] THEN {"interrupted", "none"}
                ELSE {"complete"} :
          outcome' = [outcome EXCEPT ![t] = k]
    /\ UNCHANGED <<cfg, sess, cancelReq, deleted, sessVars, regMap,
                   pendingCancels, lock, closeVars, deletes>>

\* run ends: an agent whose session was closed under it fails the stream
\* ("error"); a set cancel event is seen in the receive loop ("cancelled")
\* or only by the check after it (no envelope); otherwise "complete".
RunEnd(t) ==
    /\ pc[t] = "run" /\ ~cancelReq[t]
    /\ pc' = [pc EXCEPT ![t] = "done"]
    /\ \E k \in IF sstate[sess[t]] = "closed" THEN {"error"}
                ELSE IF cancelEvt[sess[t]] THEN {"cancelled", "none"}
                ELSE {"complete"} :
          outcome' = [outcome EXCEPT ![t] = k]
    /\ UNCHANGED <<cfg, sess, cancelReq, deleted, sessVars, regMap,
                   pendingCancels, lock, closeVars, deletes>>

\* A delivered task.cancel(): before run it leaves execute_chat (an
\* `async with` releases the lock; a CancelledError in client.connect is
\* not an Exception, so the half-connected transport is not closed); in run
\* it is caught and "cancelled" is emitted.
Raise(t) ==
    /\ cancelReq[t] /\ pc[t] \in {"start", "connect", "run"}
    /\ cancelReq' = [cancelReq EXCEPT ![t] = FALSE]
    /\ pc' = [pc EXCEPT ![t] = "done"]
    /\ outcome' = [outcome EXCEPT ![t] = IF pc[t] = "run" THEN "cancelled" ELSE "none"]
    /\ lock' = IF lock = t THEN NoOne ELSE lock
    /\ sstate' = IF pc[t] = "connect" THEN [sstate EXCEPT ![t] = "open"] ELSE sstate
    /\ UNCHANGED <<cfg, sess, deleted, sfp, ready, active, cancelEvt, regMap,
                   pendingCancels, closeVars, deletes>>

TaskStep(t) ==
    Acquire(t) \/ Closed(t) \/ Connect(t) \/ RunEnd(t) \/ Raise(t) \/ CloseStep(t)

-----------------------------------------------------------------------------
(* DELETE, the sandbox, terminate, terminate_all, reap_idle                *)

\* cancel_generation: remember the chat in pending_cancels (never read);
\* set the session's cancel_event; interrupt the client (errors swallowed).
CancelGeneration(c) ==
    /\ deletes < MaxDeletes
    /\ deletes' = deletes + 1
    /\ pendingCancels' = pendingCancels \cup {c}
    /\ cancelEvt' = IF regMap[c] # NoSession
                    THEN [cancelEvt EXCEPT ![regMap[c]] = TRUE] ELSE cancelEvt
    /\ deleted' = [t \in Tasks |-> deleted[t] \/ (TaskChat[t] = c /\ Running(t))]
    /\ UNCHANGED <<pc, cfg, sess, outcome, cancelReq, sstate, sfp, ready,
                   active, regMap, lock, closeVars>>

\* The sandbox process exits; the transport reports not ready.
TransportDies(s) ==
    /\ TransportMayDie /\ sstate[s] = "open" /\ ready[s]
    /\ ready' = [ready EXCEPT ![s] = FALSE]
    /\ UNCHANGED <<taskVars, sstate, sfp, active, cancelEvt, regMap,
                   pendingCancels, lock, closeVars, deletes>>

\* terminate(chat_id): under the lock pop the chat and close its session.
Terminate(c) ==
    /\ TerminateCalls /\ phase[Terminator] = "idle" /\ lock = NoOne
    /\ regMap[c] # NoSession
    /\ regMap' = [regMap EXCEPT ![c] = NoSession]
    /\ lock' = Terminator
    /\ phase' = [phase EXCEPT ![Terminator] = "closing"]
    /\ StartClose(Terminator, regMap[c])
    /\ UNCHANGED <<pc, cfg, sess, outcome, deleted, sessVars, pendingCancels,
                   todo, deletes>>

\* terminate_all: under the lock take every session and clear the map;
\* leave the lock and, with no await in between, begin closing the first.
ShutdownBegin ==
    /\ ShutdownHappens /\ phase[Shutdown] = "idle" /\ lock = NoOne
    /\ regMap' = [c \in Chats |-> NoSession]
    /\ CloseLoop(Shutdown, {regMap[c] : c \in Chats} \ {NoSession})
    /\ UNCHANGED <<pc, cfg, sess, outcome, deleted, sessVars, pendingCancels,
                   lock, deletes>>

\* reap_idle: under the lock take the sessions whose task is absent or
\* done and whose last_used_at is older than the TTL (time is abstracted:
\* any such session may be old enough); leave the lock and begin closing
\* them.
ReapBegin ==
    /\ ReaperRuns /\ phase[Reaper] = "idle" /\ lock = NoOne
    /\ \E expired \in SUBSET {c \in Chats :
                                /\ regMap[c] # NoSession
                                /\ active[regMap[c]] = NoTask
                                   \/ pc[active[regMap[c]]] = "done"} :
          /\ expired # {}
          /\ regMap' = [c \in Chats |-> IF c \in expired THEN NoSession ELSE regMap[c]]
          /\ CloseLoop(Reaper, {regMap[c] : c \in expired})
    /\ UNCHANGED <<pc, cfg, sess, outcome, deleted, sessVars, pendingCancels,
                   lock, deletes>>

-----------------------------------------------------------------------------

Init ==
    /\ pc = [t \in Tasks |-> "idle"]
    /\ cfg = [t \in Tasks |-> CHOOSE c \in Cfgs : TRUE]
    /\ sess = [t \in Tasks |-> NoSession]
    /\ outcome = [t \in Tasks |-> "none"]
    /\ cancelReq = [t \in Tasks |-> FALSE]
    /\ deleted = [t \in Tasks |-> FALSE]
    /\ sstate = [s \in Tasks |-> "unused"]
    /\ sfp = [s \in Tasks |-> CHOOSE c \in Cfgs : TRUE]
    /\ ready = [s \in Tasks |-> FALSE]
    /\ active = [s \in Tasks |-> NoTask]
    /\ cancelEvt = [s \in Tasks |-> FALSE]
    /\ regMap = [c \in Chats |-> NoSession]
    /\ pendingCancels = {}
    /\ lock = NoOne
    /\ closing = [a \in Closers |-> NoSession]
    /\ waitee = [a \in Closers |-> NoTask]
    /\ cstep = [a \in Closers |-> "none"]
    /\ todo = [a \in {Shutdown, Reaper} |-> {}]
    /\ phase = [a \in Servers |-> "idle"]
    /\ deletes = 0

ServerStep ==
    \/ ShutdownBegin \/ ReapBegin
    \/ \E a \in Servers : CloseStep(a)

Next ==
    \/ \E t \in Tasks : StartTask(t) \/ TaskStep(t)
    \/ \E c \in Chats : CancelGeneration(c) \/ Terminate(c)
    \/ \E s \in Tasks : TransportDies(s)
    \/ ServerStep

\* The event loop runs every ready task; asyncio.Lock wakes its waiters in
\* FIFO order, so a task waiting for the lock gets it (strong fairness).
\* Requests, sandbox deaths, the reaper and the shutdown itself are not
\* assumed to happen; once begun, terminate_all and reap_idle run on.
Fairness ==
    /\ \A t \in Tasks : /\ SF_vars(Acquire(t))
                        /\ WF_vars(Closed(t) \/ Connect(t) \/ RunEnd(t) \/ Raise(t)
                                   \/ CloseStep(t))
    /\ \A a \in Servers : WF_vars(CloseStep(a))

Spec == Init /\ [][Next]_vars /\ Fairness

-----------------------------------------------------------------------------
(* Properties                                                              *)

TypeOK ==
    /\ pc \in [Tasks -> TaskPCs] /\ cfg \in [Tasks -> Cfgs]
    /\ sess \in [Tasks -> Tasks \cup {NoSession}]
    /\ outcome \in [Tasks -> Outcomes]
    /\ cancelReq \in [Tasks -> BOOLEAN] /\ deleted \in [Tasks -> BOOLEAN]
    /\ sstate \in [Tasks -> {"unused", "open", "closed"}]
    /\ sfp \in [Tasks -> Cfgs] /\ ready \in [Tasks -> BOOLEAN]
    /\ active \in [Tasks -> Tasks \cup {NoTask}]
    /\ cancelEvt \in [Tasks -> BOOLEAN]
    /\ regMap \in [Chats -> Tasks \cup {NoSession}]
    /\ pendingCancels \subseteq Chats
    /\ lock \in Closers \cup {NoOne}
    /\ closing \in [Closers -> Tasks \cup {NoSession}]
    /\ waitee \in [Closers -> Tasks \cup {NoTask}]
    /\ cstep \in [Closers -> {"none", "wait", "waitAgain", "disc"}]
    /\ deletes \in 0..MaxDeletes

\* Sessions some closer still has to close or is closing.
BeingClosed == {closing[a] : a \in Closers} \cup todo[Shutdown] \cup todo[Reaper]

\* Spec section 2 (ownership): the registry owns every live session: an
\* open session is in _sessions, or on its way through _close_session.
\* A restart, a failed connect, terminate and reap_idle never drop one.
NoLeakedSession ==
    \A s \in Tasks :
        sstate[s] = "open" => s \in {regMap[c] : c \in Chats} \cup BeingClosed

\* No session is in _close_session twice at once: get_or_create closes a
\* stale session while holding the lock, and terminate, terminate_all and
\* reap_idle take a session out of _sessions before closing it, so two
\* concurrent disconnect()/close() calls on one transport never happen.
NoConcurrentClose ==
    \A a, b \in Closers :
        a # b /\ closing[a] # NoSession => closing[a] # closing[b]

\* Spec section 2: a turn borrows its session's client for the whole turn:
\* no session is closed while a turn is still running on it.
NoTurnOnClosedSession ==
    \A t \in Tasks : pc[t] = "run" => sstate[sess[t]] # "closed"

\* Spec 4.4 and 4.5 (process shutdown): once terminate_all has finished and
\* no turn task is left, no session is open.
ShutdownClosesAll ==
    (phase[Shutdown] = "down" /\ \A t \in Tasks : ~Running(t)) =>
        \A s \in Tasks : sstate[s] # "open"

\* Spec 4.5 and 8.6: a DELETE sent after the POST returned stops the turn:
\* it does not end with "complete" (a cancel that arrives before the session
\* exists is kept in pending_cancels for the turn).
DeleteHonoured ==
    \A t \in Tasks : pc[t] = "done" /\ deleted[t] => outcome[t] # "complete"

\* Liveness: every started turn task ends: the registry lock is always
\* released, a restart's _close_session returns, a closer's wait ends.
EveryTaskEnds ==
    \A t \in Tasks : pc[t] = "start" ~> pc[t] = "done"

=============================================================================
