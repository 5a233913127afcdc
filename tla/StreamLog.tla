------------------------------ MODULE StreamLog ------------------------------
(***************************************************************************)
(* What the Stream Runtime, the Message Store and the replay protocol      *)
(* promise for one chat session (spec 4.6, 4.7 and 8.1, 8.3, 8.4), stated  *)
(* without tasks, flushes, pub/sub or subscriber buffers.                  *)
(*                                                                         *)
(* A turn publishes envelopes, each with a seq no envelope of the session  *)
(* had before, and after its terminal envelope nothing more.  The          *)
(* persisted log only grows, by appending a batch of published envelopes  *)
(* in increasing seq order.  A subscriber opened with after_seq = N first  *)
(* yields the log's envelopes above N, then published envelopes in         *)
(* increasing seq order, and stops after a terminal one or when its        *)
(* client leaves.                                                          *)
(***************************************************************************)
EXTENDS Naturals, Sequences, SequencesExt

CONSTANTS
    Turns,   \* the turns of the session
    Subs,    \* the SSE subscribers
    MaxSeq   \* the largest seq an instance can reach

Kinds    == {"event", "complete", "cancelled", "error"}
Terminal == {"complete", "cancelled", "error"}
Env      == [seq : 1..MaxSeq, turn : Turns, kind : Kinds]

VARIABLES
    published, \* every envelope a turn published, as a set
    log,       \* the persisted rows of message_events, in insertion order
    out,       \* what each subscriber yielded to its client, in order
    after,     \* the after_seq each subscriber opened with
    phase      \* "idle", "open" or "done"

vars == <<published, log, out, after, phase>>

Ascending(s) == IsSorted(s, LAMBDA a, b : a.seq < b.seq)

\* The largest seq a subscriber has passed on (after_seq before any).
LastSeen(s) == IF out[s] = <<>> THEN after[s] ELSE Last(out[s]).seq

Init ==
    /\ published = {}
    /\ log = <<>>
    /\ out = [s \in Subs |-> <<>>]
    /\ after = [s \in Subs |-> 0]
    /\ phase = [s \in Subs |-> "idle"]

\* A turn publishes an envelope under a fresh seq, unless it has already
\* published its terminal envelope.
Publish(e) ==
    /\ \A p \in published : p.seq # e.seq
    /\ \A p \in published : p.turn = e.turn => p.kind \notin Terminal
    /\ published' = published \cup {e}
    /\ UNCHANGED <<log, out, after, phase>>

\* A batch of published envelopes is appended to the log, the whole log
\* staying in increasing seq order.
Persist ==
    /\ Len(log') > Len(log)
    /\ IsPrefix(log, log')
    /\ ToSet(log') \subseteq published
    /\ Ascending(log')
    /\ UNCHANGED <<published, out, after, phase>>

\* A subscriber opens with after_seq = n and yields the backlog.
Open(s, n) ==
    /\ phase[s] = "idle"
    /\ phase' = [phase EXCEPT ![s] = "open"]
    /\ after' = [after EXCEPT ![s] = n]
    /\ out' = [out EXCEPT ![s] = SelectSeq(log, LAMBDA e : e.seq > n)]
    /\ UNCHANGED <<published, log>>

\* An open subscriber yields a published envelope above what it has
\* passed on so far; a terminal envelope closes it.
Yield(s, e) ==
    /\ phase[s] = "open"
    /\ e \in published
    /\ e.seq > LastSeen(s)
    /\ out' = [out EXCEPT ![s] = Append(@, e)]
    /\ phase' = [phase EXCEPT ![s] = IF e.kind \in Terminal THEN "done" ELSE "open"]
    /\ UNCHANGED <<published, log, after>>

\* The client goes away.
Leave(s) ==
    /\ phase[s] = "open"
    /\ phase' = [phase EXCEPT ![s] = "done"]
    /\ UNCHANGED <<published, log, out, after>>

Next ==
    \/ \E e \in Env : Publish(e)
    \/ Persist
    \/ \E s \in Subs :
          \/ \E n \in 0..MaxSeq : Open(s, n)
          \/ \E e \in published : Yield(s, e)
          \/ Leave(s)

Spec == Init /\ [][Next]_vars

=============================================================================
