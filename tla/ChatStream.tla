----------------------------- MODULE ChatStream -----------------------------
(***************************************************************************)
(* One chat session of the sidecar: the turns of the Stream Runtime        *)
(* (ChatStreamRuntime.run / _emit_event / _flush_snapshot), the Message    *)
(* Store rows they write (message_events, messages), the live bus (Redis   *)
(* pub/sub channel chat:stream:live:<session_id>) and the SSE subscribers  *)
(* of ChatService.create_event_stream.                                     *)
(*                                                                         *)
(* Each turn is one asyncio task.  An action is the code a task runs       *)
(* between two awaits whose effect other tasks can observe; every await    *)
(* is a point where other tasks' actions interleave.  Payloads, text and   *)
(* timestamps are abstracted away: an event is its seq, its turn (its      *)
(* message_id / stream_id) and its kind.                                   *)
(***************************************************************************)
EXTENDS Naturals, Sequences, FiniteSets, FiniteSetsExt, SequencesExt

CONSTANTS
    Turns,             \* 1..N: the turns of the session, in POST order
    Subs,              \* SSE subscribers (GET /stream/{id})
    AfterSeqs,         \* after_seq values a subscriber may pass
    MaxMsgs,           \* bound: agent messages received per turn
    MaxEvents,         \* bound: render events one agent message yields
    FLUSH_EVENT_COUNT, \* SNAPSHOT_FLUSH_EVENT_COUNT
    MaxUserCancels,    \* bound: DELETE /stream/{id} requests
    StartPolicy,       \* when the client POSTs the next turn
    DbMayFail,         \* an INSERT / UPDATE may raise
    BusMayFail,        \* a Redis publish may raise
    AgentMayFail,      \* client.query / receive_response may raise
    ConnectMayFail,    \* get_or_create may fail to connect the agent
    MaxTaskCancels     \* bound: task.cancel() calls from _close_session

ASSUME
    /\ Turns = 1..Cardinality(Turns) /\ Turns # {}
    /\ AfterSeqs \subseteq Nat
    /\ MaxMsgs \in Nat /\ MaxEvents \in Nat /\ MaxUserCancels \in Nat
    /\ FLUSH_EVENT_COUNT \in Nat \ {0}
    /\ StartPolicy \in {"any", "afterTerminal", "afterDone"}
    /\ {DbMayFail, BusMayFail, AgentMayFail, ConnectMayFail} \subseteq BOOLEAN
    /\ MaxTaskCancels \in Nat

Kinds    == {"event", "complete", "cancelled", "error"}
Terminal == {"complete", "cancelled", "error"}
\* An envelope / a message_events row, abstracted to what the properties use.
Env == [seq : Nat, turn : Turns, kind : Kinds]
Status == {"none", "in_progress", "completed", "interrupted"}
PCs == {"idle", "begin", "readSeq", "query", "recv", "events", "publish", "flushBatch", "flushRow", "flushUpdate", "done"}
\* Where _emit_event returns to: the event loop, the post-loop cancel
\* check, the end of the try block, or the except handler.
Conts == {"events", "check", "final", "handler"}

VARIABLES
    pc,          \* control location of each turn's task
    seq,         \* ctx.seq
    msgs,        \* agent messages received so far (bound only)
    left,        \* events of the current agent message still to emit
    cur,         \* envelope _emit_event is publishing
    cont,        \* where _emit_event returns to
    pending,     \* ctx.pending_events
    sinceFlush,  \* ctx.events_since_flush
    force,       \* the flush in progress is the final (force=True) one
    row,         \* index of the per-row fallback insert in progress
    snap,        \* ctx.snapshot.events (kinds)
    cancelSet,   \* session.cancel_event
    userCancels, \* DELETE requests so far (bound only)
    session,     \* "none" until the registry holds a connected session,
                 \* "closed" once _close_session has closed it
    db,          \* message_events rows, in insertion order
    msgRow,      \* messages row of each turn's assistant message
    subPc,       \* control location of each subscriber
    subAfter,    \* the after_seq it opened with
    maxSeq,      \* its max_seq
    inbox,       \* live messages delivered to its pubsub, not yet read
    got,         \* envelopes it yielded to the client (history)
    emitted,     \* every envelope any turn emitted (history)
    attached,    \* the task is the session's active_generation_task
    cancelReq,   \* a task.cancel() not yet delivered to the task
    taskCancels  \* task.cancel() calls so far (bound only)

turnVars == <<pc, seq, msgs, left, cur, cont, pending, sinceFlush, force,
              row, snap>>
subVars  == <<subPc, subAfter, maxSeq, inbox, got>>
taskVars == <<attached, cancelReq, taskCancels>>
vars == <<turnVars, cancelSet, userCancels, session, db, msgRow, subVars,
          emitted, taskVars>>

SeqsOf(S) == {e.seq : e \in S}
Rows == ToSet(db)
RowsOf(t) == {r \in Rows : r.turn = t}
BySeq(a, b) == a.seq < b.seq

-----------------------------------------------------------------------------
(* Message Store queries                                                   *)

\* Mutant: the query without the + 1.
NextSeqNoIncrement == IF Rows = {} THEN 1 ELSE Max(SeqsOf(Rows))

\* get_next_seq: COALESCE(MAX(seq), 0) + 1 over the session's rows.
NextSeq == IF Rows = {} THEN 1 ELSE Max(SeqsOf(Rows)) + 1

\* Mutant: `seq >= :after_seq` in the query.
EventsAtOrAfter(n) == SortSeq(SelectSeq(db, LAMBDA r : r.seq >= n), BySeq)

\* get_events_after: rows with seq > after_seq, ORDER BY seq.
EventsAfter(n) == SortSeq(SelectSeq(db, LAMBDA r : r.seq > n), BySeq)

\* create_message for the assistant placeholder: stream_status in_progress,
\* no snapshot yet.
CreateMessage == [lastSeq |-> 0, status |-> "in_progress", render |-> <<>>]

\* append_event: INSERT one message_events row.
AppendEvent(e) == Append(db, e)

\* append_events_batch: nothing for an empty list, else one INSERT of all
\* rows in a single transaction.
AppendEventsBatch(b) == IF b = <<>> THEN db ELSE db \o b

\* update_message_snapshot: UPDATE the message row.
UpdateMessageSnapshot(t, r) == [msgRow EXCEPT ![t] = r]

-----------------------------------------------------------------------------
(* Snapshot accumulator and envelope (streaming/types.py)                 *)

\* StreamEnvelope.build, reduced to seq, message and kind.
Envelope(t, k) == [seq |-> seq[t], turn |-> t, kind |-> k]

\* StreamSnapshotAccumulator.add_event: the event is appended to events
\* (text_parts only feed content_text, which no property reads).
AddEvent(t, k) == Append(snap[t], k)

-----------------------------------------------------------------------------
(* Turn start: POST /chat                                                  *)

\* When the client sends the next POST.  "any": whenever it likes;
\* "afterTerminal": once it has seen the previous turn's terminal envelope
\* on its SSE stream; "afterDone": once the previous task has finished.
CanStart(t) ==
    /\ \A u \in Turns : u < t => pc[u] # "idle"
    /\ t > 1 =>
         CASE StartPolicy = "any" -> TRUE
           [] StartPolicy = "afterTerminal" ->
                \E s \in Subs : \E e \in ToSet(got[s]) :
                    e.turn = t - 1 /\ e.kind \in Terminal
           [] StartPolicy = "afterDone" -> pc[t - 1] = "done"

\* initiate_chat_completion: persist the user and placeholder assistant
\* messages, then start_background_chat spawns the task and, with no await
\* in between, stores it on the session get_session returns, if any (the
\* task has not run yet, so on a chat's first turn there is none).  Once
\* _close_session has run the process is shutting down: no more POSTs.
StartTurn(t) ==
    /\ pc[t] = "idle"
    /\ CanStart(t)
    /\ session # "closed"
    /\ pc' = [pc EXCEPT ![t] = "begin"]
    /\ msgRow' = UpdateMessageSnapshot(t, CreateMessage)
    /\ attached' = [u \in Turns |-> IF session = "up" THEN u = t ELSE attached[u]]
    /\ UNCHANGED <<seq, msgs, left, cur, cont, pending, sinceFlush, force,
                   row, snap, cancelSet, userCancels, session, db, subVars,
                   emitted, cancelReq, taskCancels>>

\* execute_chat: get_or_create, then session.cancel_event.clear().  A
\* connect failure raises out of execute_chat, before run's try block.
Begin(t) ==
    /\ pc[t] = "begin"
    /\ \/ /\ session' = "up"
          /\ cancelSet' = FALSE
          /\ pc' = [pc EXCEPT ![t] = "readSeq"]
       \/ /\ ConnectMayFail /\ session # "up"
          /\ pc' = [pc EXCEPT ![t] = "done"]
          /\ UNCHANGED <<session, cancelSet>>
    /\ UNCHANGED <<seq, msgs, left, cur, cont, pending, sinceFlush, force,
                   row, snap, userCancels, db, msgRow, subVars, emitted>>

\* run: ctx.seq = await get_next_seq(...)
ReadSeq(t) ==
    /\ pc[t] = "readSeq"
    /\ seq' = [seq EXCEPT ![t] = NextSeq]
    /\ pc' = [pc EXCEPT ![t] = "query"]
    /\ UNCHANGED <<msgs, left, cur, cont, pending, sinceFlush, force, row,
                   snap, cancelSet, userCancels, session, db, msgRow,
                   subVars, emitted>>

-----------------------------------------------------------------------------
(* _emit_event and _flush_snapshot                                         *)

\* The synchronous part of _emit_event: take the seq, add to the snapshot,
\* queue for persistence; then await the publish.
Emit(t, k, c) ==
    LET e == Envelope(t, k) IN
    /\ seq' = [seq EXCEPT ![t] = @ + 1]
    /\ snap' = [snap EXCEPT ![t] = AddEvent(t, k)]
    /\ pending' = [pending EXCEPT ![t] = Append(@, e)]
    /\ cur' = [cur EXCEPT ![t] = e]
    /\ cont' = [cont EXCEPT ![t] = c]
    /\ pc' = [pc EXCEPT ![t] = "publish"]
    /\ emitted' = emitted \cup {e}

\* The finally clause: _flush_snapshot(force=True).
FinalFlush(t) ==
    /\ pc' = [pc EXCEPT ![t] = "flushBatch"]
    /\ force' = [force EXCEPT ![t] = TRUE]
    /\ UNCHANGED <<seq, cur, cont, pending, snap, emitted>>

\* After the async for loop (end of stream, or break after "cancelled"):
\* `if not ctx.cancel_event.is_set()` emit "complete"; otherwise fall
\* through to the finally clause.  No await separates the loop's end from
\* this check.
AfterLoop(t) ==
    \/ /\ ~cancelSet
       /\ Emit(t, "complete", "final")
       /\ UNCHANGED force
    \/ /\ cancelSet
       /\ FinalFlush(t)

\* Where the task goes when _emit_event returns.  After "complete" the try
\* block ends and after the except handler's emit the finally clause runs:
\* both reach the final flush.
AfterEmit(t) ==
    CASE cont[t] = "events" ->
            /\ pc' = [pc EXCEPT ![t] = "events"]
            /\ UNCHANGED <<force, seq, cur, cont, pending, snap, emitted>>
      [] cont[t] = "check" -> AfterLoop(t)
      [] OTHER -> FinalFlush(t)

\* redis.publish: the envelope reaches every subscribed connection.
Deliver(e) == [s \in Subs |-> IF subPc[s] = "live" THEN Append(inbox[s], e)
                                                  ELSE inbox[s]]

\* The publish (a failure is logged and swallowed), the event count, and
\* the throttle: flush when 24 events have queued, or when 200 ms have
\* passed since the last flush, which may be the case after any event.
Publish(t) ==
    /\ pc[t] = "publish"
    /\ \/ inbox' = Deliver(cur[t])
       \/ BusMayFail /\ UNCHANGED inbox
    /\ sinceFlush' = [sinceFlush EXCEPT ![t] = @ + 1]
    /\ \/ /\ pc' = [pc EXCEPT ![t] = "flushBatch"]
          /\ force' = [force EXCEPT ![t] = FALSE]
          /\ UNCHANGED <<seq, cur, cont, pending, snap, emitted>>
       \/ sinceFlush[t] + 1 < FLUSH_EVENT_COUNT /\ AfterEmit(t)
    /\ UNCHANGED <<msgs, left, row, cancelSet, userCancels, session, db,
                   msgRow, subPc, subAfter, maxSeq, got>>

\* append_events_batch in one transaction; on failure fall back to
\* per-row inserts.
FlushBatch(t) ==
    /\ pc[t] = "flushBatch"
    /\ \/ /\ pending[t] = <<>>
          /\ pc' = [pc EXCEPT ![t] = "flushUpdate"]
          /\ UNCHANGED <<db, pending, row>>
       \/ /\ pending[t] # <<>>
          /\ db' = AppendEventsBatch(pending[t])
          /\ pending' = [pending EXCEPT ![t] = <<>>]
          /\ pc' = [pc EXCEPT ![t] = "flushUpdate"]
          /\ UNCHANGED row
       \/ /\ pending[t] # <<>> /\ DbMayFail
          /\ row' = [row EXCEPT ![t] = 1]
          /\ pc' = [pc EXCEPT ![t] = "flushRow"]
          /\ UNCHANGED <<db, pending>>
    /\ UNCHANGED <<seq, msgs, left, cur, cont, sinceFlush, force, snap,
                   cancelSet, userCancels, session, msgRow, subVars, emitted>>

\* Mutant: pending_events is not cleared after the per-row fallback.
FlushRowNoClear(t) ==
    /\ pc[t] = "flushRow"
    /\ \/ db' = AppendEvent(pending[t][row[t]])
       \/ DbMayFail /\ UNCHANGED db
    /\ IF row[t] = Len(pending[t])
       THEN pc' = [pc EXCEPT ![t] = "flushUpdate"] /\ UNCHANGED row
       ELSE row' = [row EXCEPT ![t] = @ + 1] /\ UNCHANGED pc
    /\ UNCHANGED <<seq, msgs, left, cur, cont, pending, sinceFlush, force,
                   snap, cancelSet, userCancels, session, msgRow, subVars,
                   emitted>>

\* One append_event of the fallback; a row that fails is logged and
\* dropped.  After the last row, pending_events is cleared.
FlushRow(t) ==
    /\ pc[t] = "flushRow"
    /\ \/ db' = AppendEvent(pending[t][row[t]])
       \/ DbMayFail /\ UNCHANGED db
    /\ IF row[t] = Len(pending[t])
       THEN /\ pending' = [pending EXCEPT ![t] = <<>>]
            /\ pc' = [pc EXCEPT ![t] = "flushUpdate"]
            /\ UNCHANGED row
       ELSE /\ row' = [row EXCEPT ![t] = @ + 1]
            /\ UNCHANGED <<pending, pc>>
    /\ UNCHANGED <<seq, msgs, left, cur, cont, sinceFlush, force, snap,
                   cancelSet, userCancels, session, msgRow, subVars, emitted>>

\* stream_status written by a flush: in_progress unless final, then
\* interrupted if the cancel event is set, completed otherwise.
FlushStatus(t) ==
    IF ~force[t] THEN "in_progress"
    ELSE IF cancelSet THEN "interrupted" ELSE "completed"

\* Mutant: last_seq = ctx.seq instead of ctx.seq - 1.
FlushUpdateLastSeqOffByOne(t) ==
    /\ pc[t] = "flushUpdate"
    /\ \/ msgRow' = [msgRow EXCEPT ![t] =
                       [lastSeq |-> seq[t], status |-> FlushStatus(t),
                        render |-> snap[t]]]
       \/ DbMayFail /\ UNCHANGED msgRow
    /\ sinceFlush' = [sinceFlush EXCEPT ![t] = 0]
    /\ IF force[t]
       THEN /\ pc' = [pc EXCEPT ![t] = "done"]
            /\ UNCHANGED <<force, seq, cur, cont, pending, snap, emitted>>
       ELSE AfterEmit(t)
    /\ UNCHANGED <<msgs, left, row, cancelSet, userCancels, session, db,
                   subVars>>

\* The messages row update_message_snapshot writes.
SnapshotRow(t) ==
    [lastSeq |-> IF seq[t] > 0 THEN seq[t] - 1 ELSE 0,
     status  |-> FlushStatus(t),
     render  |-> snap[t]]

\* update_message_snapshot (failure logged and swallowed), then reset the
\* counters.  The final flush ends the task.
FlushUpdate(t) ==
    /\ pc[t] = "flushUpdate"
    /\ \/ msgRow' = UpdateMessageSnapshot(t, SnapshotRow(t))
       \/ DbMayFail /\ UNCHANGED msgRow
    /\ sinceFlush' = [sinceFlush EXCEPT ![t] = 0]
    /\ IF force[t]
       THEN /\ pc' = [pc EXCEPT ![t] = "done"]
            /\ UNCHANGED <<force, seq, cur, cont, pending, snap, emitted>>
       ELSE AfterEmit(t)
    /\ UNCHANGED <<msgs, left, row, cancelSet, userCancels, session, db,
                   subVars>>

-----------------------------------------------------------------------------
(* The body of run                                                         *)

\* await client.query(prompt); an exception goes to the except handler.
Query(t) ==
    /\ pc[t] = "query"
    /\ \/ /\ pc' = [pc EXCEPT ![t] = "recv"]
          /\ UNCHANGED <<seq, cur, cont, pending, snap, emitted>>
       \/ AgentMayFail /\ Emit(t, "error", "handler")
    /\ UNCHANGED <<msgs, left, sinceFlush, force, row, cancelSet, userCancels,
                   session, db, msgRow, subVars>>

\* Mutant: no break after emitting "cancelled"; the loop goes on.
RecvNoBreak(t) ==
    /\ pc[t] = "recv"
    /\ \/ /\ msgs[t] < MaxMsgs
          /\ msgs' = [msgs EXCEPT ![t] = @ + 1]
          /\ IF cancelSet
             THEN /\ Emit(t, "cancelled", "events")
                  /\ left' = [left EXCEPT ![t] = 0] /\ UNCHANGED force
             ELSE /\ \E k \in 0..MaxEvents : left' = [left EXCEPT ![t] = k]
                  /\ pc' = [pc EXCEPT ![t] = "events"]
                  /\ UNCHANGED <<seq, cur, cont, pending, snap, emitted, force>>
       \/ AfterLoop(t) /\ UNCHANGED <<msgs, left>>
       \/ AgentMayFail /\ Emit(t, "error", "handler") /\ UNCHANGED <<msgs, left, force>>
    /\ UNCHANGED <<sinceFlush, row, cancelSet, userCancels, session, db,
                   msgRow, subVars>>

\* One step of `async for message in client.receive_response()`: a message
\* (yielding up to MaxEvents render events), the end of the stream, or an
\* exception.  A message is first checked against the cancel event:
\* emit "cancelled" and break.
Recv(t) ==
    /\ pc[t] = "recv"
    /\ \/ /\ msgs[t] < MaxMsgs
          /\ msgs' = [msgs EXCEPT ![t] = @ + 1]
          /\ IF cancelSet
             THEN Emit(t, "cancelled", "check") /\ UNCHANGED <<left, force>>
             ELSE /\ \E k \in 0..MaxEvents : left' = [left EXCEPT ![t] = k]
                  /\ pc' = [pc EXCEPT ![t] = "events"]
                  /\ UNCHANGED <<seq, cur, cont, pending, snap, emitted, force>>
       \/ /\ AfterLoop(t)
          /\ UNCHANGED <<msgs, left>>
       \/ /\ AgentMayFail
          /\ Emit(t, "error", "handler")
          /\ UNCHANGED <<msgs, left, force>>
    /\ UNCHANGED <<sinceFlush, row, cancelSet, userCancels, session, db,
                   msgRow, subVars>>

\* Mutant: the emit branch guarded by left >= 0.
EventsOffByOne(t) ==
    /\ pc[t] = "events"
    /\ \/ /\ left[t] >= 0
          /\ left' = [left EXCEPT ![t] = @ - 1]
          /\ Emit(t, "event", "events")
       \/ /\ left[t] = 0
          /\ pc' = [pc EXCEPT ![t] = "recv"]
          /\ UNCHANGED <<left, seq, cur, cont, pending, snap, emitted>>
    /\ UNCHANGED <<msgs, sinceFlush, force, row, cancelSet, userCancels,
                   session, db, msgRow, subVars>>

\* The inner `for event in processor.emit_events_for_message(message)`.
Events(t) ==
    /\ pc[t] = "events"
    /\ \/ /\ left[t] > 0
          /\ left' = [left EXCEPT ![t] = @ - 1]
          /\ Emit(t, "event", "events")
       \/ /\ left[t] = 0
          /\ pc' = [pc EXCEPT ![t] = "recv"]
          /\ UNCHANGED <<left, seq, cur, cont, pending, snap, emitted>>
    /\ UNCHANGED <<msgs, sinceFlush, force, row, cancelSet, userCancels,
                   session, db, msgRow, subVars>>

-----------------------------------------------------------------------------
(* DELETE /stream/{id}                                                     *)

\* stop_stream -> cancel_generation: set the session's cancel event (if
\* the registry holds a session) and interrupt the client.
CancelGeneration ==
    /\ userCancels < MaxUserCancels
    /\ userCancels' = userCancels + 1
    /\ cancelSet' = (session = "up" \/ cancelSet)
    /\ UNCHANGED <<turnVars, session, db, msgRow, subVars, emitted>>

-----------------------------------------------------------------------------
(* Task cancellation: _close_session's task.cancel()                       *)

\* _close_session (at shutdown, terminate_all) cancels the session's
\* active_generation_task if it is not done, waits for it up to 5 s, and on
\* the timeout asyncio.wait_for cancels it once more; then it disconnects
\* the client.  The request is delivered at the task's current or next
\* await.
TaskCancel(t) ==
    /\ attached[t] /\ pc[t] \notin {"idle", "done"}
    /\ taskCancels < MaxTaskCancels
    /\ taskCancels' = taskCancels + 1
    /\ cancelReq' = [cancelReq EXCEPT ![t] = TRUE]
    /\ session' = "closed"
    /\ UNCHANGED <<turnVars, cancelSet, userCancels, db, msgRow, subVars,
                   emitted, attached>>

\* The awaits a CancelledError can interrupt.
Awaits == {"begin", "readSeq", "query", "recv", "publish", "flushBatch",
           "flushRow", "flushUpdate"}

\* The clause of execute_chat/run the interrupted await is in: before the
\* try block (get_or_create, get_next_seq), the try block, the except
\* handler's _emit_event, or the finally clause's final flush.
Region(t) ==
    CASE pc[t] \in {"begin", "readSeq"} -> "outside"
      [] pc[t] \in {"query", "recv"}     -> "try"
      [] force[t]                        -> "finally"
      [] cont[t] = "handler"             -> "except"
      [] OTHER                           -> "try"

\* The interrupted call may already have taken effect: the publish may have
\* been sent, the batch or row transaction committed, the update written.
Interrupted(t) ==
    \/ UNCHANGED <<db, inbox, msgRow>>
    \/ pc[t] = "publish" /\ inbox' = Deliver(cur[t]) /\ UNCHANGED <<db, msgRow>>
    \/ /\ pc[t] = "flushBatch" /\ pending[t] # <<>>
       /\ db' = AppendEventsBatch(pending[t]) /\ UNCHANGED <<inbox, msgRow>>
    \/ /\ pc[t] = "flushRow"
       /\ db' = AppendEvent(pending[t][row[t]]) /\ UNCHANGED <<inbox, msgRow>>
    \/ /\ pc[t] = "flushUpdate"
       /\ msgRow' = UpdateMessageSnapshot(t, SnapshotRow(t)) /\ UNCHANGED <<db, inbox>>

\* Mutant: the CancelledError handler inside the loop emits "cancelled"
\* and carries on with the next agent message.
RaiseResumesLoop(t) ==
    /\ cancelReq[t] /\ pc[t] \in Awaits
    /\ cancelReq' = [cancelReq EXCEPT ![t] = FALSE]
    /\ Interrupted(t)
    /\ CASE Region(t) \in {"outside", "finally"} ->
              /\ pc' = [pc EXCEPT ![t] = "done"]
              /\ UNCHANGED <<seq, cur, cont, pending, snap, emitted, force>>
         [] Region(t) = "try" ->
              Emit(t, "cancelled", "events") /\ UNCHANGED force
         [] Region(t) = "except" -> FinalFlush(t)
    /\ UNCHANGED <<msgs, left, sinceFlush, row, cancelSet, userCancels,
                   session, subPc, subAfter, maxSeq, got, attached, taskCancels>>

\* CancelledError raised at the await: outside the try block it ends the
\* task; in the try block `except asyncio.CancelledError` emits
\* "cancelled"; in the except handler (not caught by the `except Exception`
\* around the publish) it still runs the finally clause; in the finally
\* clause it ends the task, the flush unfinished.
Raise(t) ==
    /\ cancelReq[t] /\ pc[t] \in Awaits
    /\ cancelReq' = [cancelReq EXCEPT ![t] = FALSE]
    /\ Interrupted(t)
    /\ CASE Region(t) \in {"outside", "finally"} ->
              /\ pc' = [pc EXCEPT ![t] = "done"]
              /\ UNCHANGED <<seq, cur, cont, pending, snap, emitted, force>>
         [] Region(t) = "try" ->
              Emit(t, "cancelled", "handler") /\ UNCHANGED force
         [] Region(t) = "except" -> FinalFlush(t)
    /\ UNCHANGED <<msgs, left, sinceFlush, row, cancelSet, userCancels,
                   session, subPc, subAfter, maxSeq, got, attached, taskCancels>>

-----------------------------------------------------------------------------
(* Subscribers: create_event_stream                                        *)

\* Replay the backlog from the database and yield it.
Open(s) ==
    /\ subPc[s] = "idle"
    /\ \E n \in AfterSeqs :
          LET backlog == EventsAfter(n) IN
          /\ subAfter' = [subAfter EXCEPT ![s] = n]
          /\ got' = [got EXCEPT ![s] = @ \o backlog]
          /\ maxSeq' = [maxSeq EXCEPT ![s] = Max({n} \cup SeqsOf(ToSet(backlog)))]
    /\ subPc' = [subPc EXCEPT ![s] = "sub"]
    /\ UNCHANGED <<turnVars, cancelSet, userCancels, session, db, msgRow,
                   inbox, emitted>>

\* Then subscribe to the live channel.
Subscribe(s) ==
    /\ subPc[s] = "sub"
    /\ subPc' = [subPc EXCEPT ![s] = "live"]
    /\ UNCHANGED <<turnVars, cancelSet, userCancels, session, db, msgRow,
                   subAfter, maxSeq, inbox, got, emitted>>

\* Mutant: only "complete" ends the stream.
ReceiveOnlyComplete(s) ==
    /\ subPc[s] = "live"
    /\ inbox[s] # <<>>
    /\ LET e == Head(inbox[s]) IN
       IF e.seq <= maxSeq[s]
       THEN /\ inbox' = [inbox EXCEPT ![s] = Tail(@)]
            /\ UNCHANGED <<subPc, maxSeq, got>>
       ELSE /\ got' = [got EXCEPT ![s] = Append(@, e)]
            /\ maxSeq' = [maxSeq EXCEPT ![s] = e.seq]
            /\ IF e.kind = "complete"
               THEN /\ subPc' = [subPc EXCEPT ![s] = "done"]
                    /\ inbox' = [inbox EXCEPT ![s] = <<>>]
               ELSE /\ inbox' = [inbox EXCEPT ![s] = Tail(@)]
                    /\ UNCHANGED subPc
    /\ UNCHANGED <<turnVars, cancelSet, userCancels, session, db, msgRow,
                   subAfter, emitted>>

\* get_message: drop seq <= max_seq, else yield it; a terminal kind ends
\* the stream and unsubscribes.
Receive(s) ==
    /\ subPc[s] = "live"
    /\ inbox[s] # <<>>
    /\ LET e == Head(inbox[s]) IN
       IF e.seq <= maxSeq[s]
       THEN /\ inbox' = [inbox EXCEPT ![s] = Tail(@)]
            /\ UNCHANGED <<subPc, maxSeq, got>>
       ELSE /\ got' = [got EXCEPT ![s] = Append(@, e)]
            /\ maxSeq' = [maxSeq EXCEPT ![s] = e.seq]
            /\ IF e.kind \in Terminal
               THEN /\ subPc' = [subPc EXCEPT ![s] = "done"]
                    /\ inbox' = [inbox EXCEPT ![s] = <<>>]
               ELSE /\ inbox' = [inbox EXCEPT ![s] = Tail(@)]
                    /\ UNCHANGED subPc
    /\ UNCHANGED <<turnVars, cancelSet, userCancels, session, db, msgRow,
                   subAfter, emitted>>

\* 30 s without a message: yield a ping.
Ping(s) ==
    /\ subPc[s] = "live"
    /\ inbox[s] = <<>>
    /\ UNCHANGED vars

\* The client goes away: unsubscribe.
Disconnect(s) ==
    /\ subPc[s] = "live"
    /\ subPc' = [subPc EXCEPT ![s] = "done"]
    /\ inbox' = [inbox EXCEPT ![s] = <<>>]
    /\ UNCHANGED <<turnVars, cancelSet, userCancels, session, db, msgRow,
                   subAfter, maxSeq, got, emitted>>

-----------------------------------------------------------------------------
(* The HTTP routes (routes.py)                                             *)

\* POST /chat runs initiate_chat_completion; a body without a prompt is
\* answered 400 and changes nothing, so only the POSTs that start a turn
\* are steps.
PostChat(t) == StartTurn(t)

\* GET /stream/{session_id}?after_seq: the SSE response drives
\* create_event_stream, whose first step is the replay.
GetStream(s) == Open(s)

\* DELETE /stream/{session_id}: stop_stream -> cancel_generation, then 204.
DeleteStream == CancelGeneration

-----------------------------------------------------------------------------

Init ==
    /\ pc = [t \in Turns |-> "idle"]
    /\ seq = [t \in Turns |-> 0]
    /\ msgs = [t \in Turns |-> 0]
    /\ left = [t \in Turns |-> 0]
    /\ cur = [t \in Turns |-> [seq |-> 0, turn |-> t, kind |-> "event"]]
    /\ cont = [t \in Turns |-> "events"]
    /\ pending = [t \in Turns |-> <<>>]
    /\ sinceFlush = [t \in Turns |-> 0]
    /\ force = [t \in Turns |-> FALSE]
    /\ row = [t \in Turns |-> 1]
    /\ snap = [t \in Turns |-> <<>>]
    /\ cancelSet = FALSE
    /\ userCancels = 0
    /\ session = "none"
    /\ db = <<>>
    /\ msgRow = [t \in Turns |-> [lastSeq |-> 0, status |-> "none", render |-> <<>>]]
    /\ subPc = [s \in Subs |-> "idle"]
    /\ subAfter = [s \in Subs |-> 0]
    /\ maxSeq = [s \in Subs |-> 0]
    /\ inbox = [s \in Subs |-> <<>>]
    /\ got = [s \in Subs |-> <<>>]
    /\ emitted = {}
    /\ attached = [t \in Turns |-> FALSE]
    /\ cancelReq = [t \in Turns |-> FALSE]
    /\ taskCancels = 0

\* The task's own steps, which the event loop runs once they are ready.  An
\* await with a cancel request pending raises instead of returning.
TurnStep(t) ==
    \/ /\ ~cancelReq[t] \/ pc[t] \notin Awaits
       /\ \/ Begin(t) \/ ReadSeq(t) \/ Query(t) \/ Recv(t) \/ Events(t)
          \/ Publish(t) \/ FlushBatch(t) \/ FlushRow(t)
          \/ FlushUpdate(t)
       /\ UNCHANGED taskVars
    \/ Raise(t)

\* Nothing is running: no turn task, no open stream.  The client may never
\* send another request, so the system may rest here.
Finished ==
    /\ \A t \in Turns : pc[t] \in {"idle", "done"}
    /\ \A s \in Subs : subPc[s] \in {"idle", "done"}
    /\ UNCHANGED vars

Next ==
    \/ \E t \in Turns : PostChat(t) \/ TurnStep(t) \/ TaskCancel(t)
    \/ DeleteStream /\ UNCHANGED taskVars
    \/ /\ \E s \in Subs : GetStream(s) \/ Subscribe(s) \/ Receive(s) \/ Ping(s)
                          \/ Disconnect(s)
       /\ UNCHANGED taskVars
    \/ Finished

\* The event loop runs every ready task, Redis delivers to subscribed
\* connections; the client's requests (POST, GET, DELETE, disconnect) are
\* not assumed to happen.
Fairness ==
    /\ \A t \in Turns : WF_vars(TurnStep(t))
    /\ \A s \in Subs : /\ WF_vars(Subscribe(s) /\ UNCHANGED taskVars)
                      /\ WF_vars(Receive(s) /\ UNCHANGED taskVars)

Spec == Init /\ [][Next]_vars /\ Fairness

-----------------------------------------------------------------------------
(* Properties                                                              *)

TypeOK ==
    /\ pc \in [Turns -> PCs]
    /\ seq \in [Turns -> Nat] /\ msgs \in [Turns -> 0..MaxMsgs]
    /\ left \in [Turns -> 0..MaxEvents]
    /\ cur \in [Turns -> Env] /\ cont \in [Turns -> Conts]
    /\ pending \in [Turns -> Seq(Env)] /\ sinceFlush \in [Turns -> Nat]
    /\ force \in [Turns -> BOOLEAN] /\ row \in [Turns -> Nat \ {0}]
    /\ snap \in [Turns -> Seq(Kinds)]
    /\ cancelSet \in BOOLEAN /\ userCancels \in 0..MaxUserCancels
    /\ session \in {"none", "up", "closed"}
    /\ db \in Seq(Env)
    /\ msgRow \in [Turns -> [lastSeq : Nat, status : Status, render : Seq(Kinds)]]
    /\ subPc \in [Subs -> {"idle", "sub", "live", "done"}]
    /\ subAfter \in [Subs -> Nat] /\ maxSeq \in [Subs -> Nat]
    /\ inbox \in [Subs -> Seq(Env)] /\ got \in [Subs -> Seq(Env)]
    /\ emitted \subseteq Env
    /\ attached \in [Turns -> BOOLEAN] /\ cancelReq \in [Turns -> BOOLEAN]
    /\ taskCancels \in 0..MaxTaskCancels

TerminalsOf(t) == {e \in emitted : e.turn = t /\ e.kind \in Terminal}
\* The kinds of turn t's persisted rows, in seq order.
LogOf(t) == LET r == SortSeq(SelectSeq(db, LAMBDA x : x.turn = t), BySeq)
            IN [i \in DOMAIN r |-> r[i].kind]

\* Spec 8.1: across runs a seq is never used twice.  Each turn starts at
\* get_next_seq, i.e. one past the largest seq the database holds when the
\* turn starts; no envelope of one turn may share a seq with one of
\* another, whether or not either reached the database.
SeqNeverReused ==
    \A e1, e2 \in emitted : e1.seq = e2.seq => e1 = e2

\* The message_events rows of the session never hold two rows with one
\* seq (the replay protocol orders and deduplicates by seq alone).
PersistedSeqUnique ==
    \A i, j \in DOMAIN db : db[i].seq = db[j].seq => i = j

\* Spec 8.2 and the round-trip property: once a turn's task is over, its
\* messages row (content_render, last_seq written by _flush_snapshot)
\* agrees with the message_events rows its flushes inserted.
SnapshotAgreesWithLog ==
    \A t \in Turns :
        pc[t] = "done" /\ RowsOf(t) # {} =>
            /\ msgRow[t].render = LogOf(t)
            /\ msgRow[t].lastSeq = Max(SeqsOf(RowsOf(t)))

\* Spec 8.3 (first half): a run never emits two terminal envelopes; the
\* break after "cancelled" and the is_set() check before "complete" keep
\* run from emitting a second one.
AtMostOneTerminal ==
    \A t \in Turns : Cardinality(TerminalsOf(t)) <= 1

\* Spec 8.3 (second half) and section 7: every turn whose task has ended
\* has emitted exactly one terminal envelope, so its SSE clients learn
\* that it ended.
EveryTurnEndsWithTerminal ==
    \A t \in Turns : pc[t] = "done" => Cardinality(TerminalsOf(t)) = 1

\* Spec 4.5 and section 8 (invariant 3): once a turn has emitted a terminal
\* envelope (by the loop's break, the is_set() check, or a CancelledError
\* or exception handler) no render event of it follows, also when a
\* task.cancel() lands at a later await: whatever it emits is terminal.
NoEventAfterTerminal ==
    \A e1, e2 \in emitted :
        /\ e1.turn = e2.turn /\ e1.kind \in Terminal /\ e2.seq > e1.seq
        => e2.kind \in Terminal

\* Sections 4.5 and 7: a finished turn's messages row records the status
\* of the terminal envelope it emitted: "complete" -> completed,
\* "cancelled" (a DELETE or a cancelled task) -> interrupted, "error" ->
\* failed (or interrupted when the cancel event was set).  In particular
\* the final flush in run's finally clause is never skipped, so the row is
\* not left in_progress.
StatusMatchesTerminal ==
    \A t \in Turns, e \in emitted :
        pc[t] = "done" /\ e.turn = t =>
            /\ e.kind = "complete"  => msgRow[t].status = "completed"
            /\ e.kind = "cancelled" => msgRow[t].status = "interrupted"
            /\ e.kind = "error"     => msgRow[t].status \in {"failed", "interrupted"}

\* Spec 8.4 (order): a subscriber yields envelopes with seq above its
\* after_seq, each seq at most once and in increasing order, across the
\* backlog it replays and the live messages it forwards.
SubscriberInOrder ==
    \A s \in Subs :
        /\ \A i \in DOMAIN got[s] : got[s][i].seq > subAfter[s]
        /\ \A i \in DOMAIN got[s] : i > 1 => got[s][i - 1].seq < got[s][i].seq

\* Spec 8.4 (completeness): a subscriber whose stream ended on a terminal
\* envelope of seq T has yielded every envelope with after_seq < seq <= T
\* (with reliable persistence every such envelope is a persisted event).
SubscriberGapFree ==
    \A s \in Subs :
        subPc[s] = "done" /\ got[s] # <<>> /\ Last(got[s]).kind \in Terminal =>
            \A e \in emitted :
                subAfter[s] < e.seq /\ e.seq <= Last(got[s]).seq =>
                    e \in ToSet(got[s])

\* Spec 4.7 step 5: a stream that has a terminal envelope it has not yet
\* passed on waiting in its pubsub eventually yields it and closes, so the
\* SSE client is never left on pings after its turn ended.
SubscriberEventuallyCloses ==
    \A s \in Subs :
        (/\ subPc[s] = "live"
         /\ \E e \in ToSet(inbox[s]) : e.kind \in Terminal /\ e.seq > maxSeq[s])
            ~> subPc[s] = "done"


-----------------------------------------------------------------------------
(* Refinement of StreamLog                                                 *)

\* A subscriber between replay and subscribe is already open to its client.
SubPhase == [s \in Subs |-> CASE subPc[s] = "idle" -> "idle"
                              [] subPc[s] = "done" -> "done"
                              [] OTHER             -> "open"]

\* A turn emits at most MaxMsgs * MaxEvents events and two terminal ones
\* (the second where a cancel interrupts the first).
Log == INSTANCE StreamLog
       WITH published <- emitted, log <- db, out <- got, after <- subAfter,
            phase <- SubPhase,
            MaxSeq <- Cardinality(Turns) * (MaxMsgs * MaxEvents + 2)

\* Spec 4.6, 4.7, 8.1 and 8.3 together: the session behaves as StreamLog
\* says.  Every _emit_event publishes a fresh seq and none after the
\* turn's terminal one; every append_events_batch / append_event extends
\* message_events in seq order; create_event_stream's replay is exactly
\* get_events_after(after_seq), and its live loop passes on only envelopes
\* above max_seq and stops at a terminal one.
LogRefined == Log!Spec

=============================================================================
