--------------------------- MODULE SessionStream ---------------------------
(***************************************************************************)
(* One session's SSE stream, from the engine's event log to the transcript *)
(* a browser folds:                                                        *)
(*                                                                         *)
(*   commit -> EventHub._ingest -> _fanout -> call_soon_threadsafe         *)
(*     -> Subscription.offer -> _stream (replay, then live) -> the wire    *)
(*     -> event batcher -> foldEvent                                       *)
(*                                                                         *)
(* Threads that commit envelopes, the server's event loop, the network and *)
(* the browser interleave freely.  A frame is durable (it carries the seq  *)
(* of its envelope), a `delta` preview, or a synthetic push; the last two  *)
(* carry no seq.  One envelope translates to any number of frames of the   *)
(* same seq: log[s + 1] is that number for the envelope with seq s.        *)
(***************************************************************************)
EXTENDS Integers, Sequences, FiniteSets

CONSTANTS
    Committers,  \* the threads that commit envelopes of the session's task
    Seeder,      \* the request thread among them that seeds the first turn
    SeedLen,     \* envelopes seed_start commits before the stream row exists;
                 \*   0 is a session whose stream is already bound
    Widths,      \* how many frames one envelope may translate to
    QueueSize,   \* Subscription._maxsize
    MaxLog,      \* bound: envelopes in the log
    MaxPush,     \* bound: synthetic frames pushed
    MaxBacklog,  \* bound: call_soon callbacks a delta may queue behind
    MaxWire,     \* bound: frames written and not yet read by the browser
    MaxBatch,    \* bound: frames waiting for the next animation frame
    MaxFaults    \* bound: lost connections, restarts, session switches

ASSUME ConstantsAssumption ==
    /\ Seeder \in Committers
    /\ SeedLen \in Nat
    /\ Widths \subseteq Nat
    /\ QueueSize \in Nat \ {0}
    /\ {MaxLog, MaxPush, MaxBacklog, MaxWire, MaxBatch, MaxFaults} \subseteq Nat

VARIABLES
    log,         \* the task's event log: frames per envelope
    hook,        \* per committer: the frame its post-commit hook is at
    bound,       \* the task_streams row exists
    pushes,      \* synthetic frames pushed so far
    loopq,       \* offers scheduled on the event loop
    inbox,       \* Subscription._items
    overflowed,  \* Subscription.overflowed
    pc,          \* where the SSE response is
    since,       \* the since_seq of the request
    cursor,      \* Cursor: the highest seq this response has written
    replay,      \* the replayed envelopes still to write
    wire,        \* frames written to the connection
    pending,     \* the batcher's pending frames
    mounted,     \* the session is on screen
    lastSeq,     \* the fold's resume cursor
    transcript,  \* the durable frames the fold has applied
    faults       \* connections lost so far

logVars == <<log, hook, bound>>
hubVars == <<loopq, inbox, overflowed>>
streamVars == <<pc, since, cursor, replay>>
clientVars == <<pending, mounted, lastSeq, transcript>>
vars == <<logVars, hubVars, streamVars, clientVars, pushes, wire, faults>>

-----------------------------------------------------------------------------
(* Frames *)

NoSeq == -1

Durable(s, k) == [type |-> "durable", seq |-> s, part |-> k]
Delta == [type |-> "delta", seq |-> NoSeq, part |-> 0]
Pushed(n) == [type |-> "push", seq |-> NoSeq, part |-> n]

Frame == [type : {"durable", "delta", "push"}, seq : Int, part : Nat]

NoHook == [seq |-> NoSeq, part |-> 0]

(* Mutant of Floor: a client that has seen nothing is taken to have seq 0. *)
FloorFromZero(n) == IF n > 0 THEN n ELSE 0

(* since_seq above zero is a floor; 0, or none, is a full replay. *)
Floor(n) == IF n > 0 THEN n ELSE -1

(* Cursor.accepts: a frame without a seq always passes. *)
Accepts(c, f) == f.seq = NoSeq \/ f.seq > c
Advance(c, f) == IF f.seq = NoSeq THEN c ELSE f.seq

(* What the response writes, and the cursor it keeps, for one frame. *)
Yield(f) ==
    IF Accepts(cursor, f)
    THEN wire' = Append(wire, f) /\ cursor' = Advance(cursor, f)
    ELSE UNCHANGED <<wire, cursor>>

(* A connection is open on the server, so the hub has a Subscription. *)
Subscribed == pc \in {"opening", "replay", "check", "next"}

(* The sequence q without its i-th element. *)
Without(q, i) == [j \in 1 .. Len(q) - 1 |-> IF j < i THEN q[j] ELSE q[j + 1]]

DeltasIn(q) == {i \in 1 .. Len(q) : q[i].type = "delta"}

Schedule(f) == loopq' = IF Subscribed THEN Append(loopq, f) ELSE loopq

-----------------------------------------------------------------------------
Init ==
    /\ log = <<>>
    /\ hook = [c \in Committers |-> NoHook]
    /\ bound = (SeedLen = 0)
    /\ pushes = 0
    /\ loopq = <<>>
    /\ inbox = <<>>
    /\ overflowed = FALSE
    /\ pc = "off"
    /\ since = -1
    /\ cursor = -1
    /\ replay = [seq |-> 0, part |-> 1, end |-> 0]
    /\ wire = <<>>
    /\ pending = <<>>
    /\ mounted = TRUE
    /\ lastSeq = -1
    /\ transcript = <<>>
    /\ faults = 0

-----------------------------------------------------------------------------
(* Engine threads *)

(* A thread commits an envelope; its post-commit hook has not run yet.     *)
(* Until the stream is bound only the seeding thread has the task.         *)
Commit(c) ==
    /\ hook[c] = NoHook
    /\ Len(log) < MaxLog
    /\ bound \/ (c = Seeder /\ Len(log) < SeedLen)
    /\ \E w \in Widths : log' = Append(log, w)
    /\ hook' = [hook EXCEPT ![c] = [seq |-> Len(log), part |-> 1]]
    /\ UNCHANGED <<bound, hubVars, streamVars, clientVars, pushes, wire, faults>>

(* The hook fans the envelope's next frame out to the subscription, or ends. *)
Ingest(c) ==
    LET h == hook[c]
    IN  /\ h # NoHook
        /\ IF h.part <= log[h.seq + 1]
           THEN /\ Schedule(Durable(h.seq, h.part))
                /\ hook' = [hook EXCEPT ![c] = [seq |-> h.seq, part |-> h.part + 1]]
           ELSE /\ hook' = [hook EXCEPT ![c] = NoHook]
                /\ loopq' = loopq
        /\ UNCHANGED <<log, bound, inbox, overflowed, streamVars, clientVars,
                       pushes, wire, faults>>

(* seed_start returned: the host writes the task_streams row. *)
Bind ==
    /\ ~bound
    /\ Len(log) = SeedLen
    /\ hook[Seeder] = NoHook
    /\ bound' = TRUE
    /\ UNCHANGED <<log, hook, hubVars, streamVars, clientVars, pushes, wire, faults>>

(* A token preview from the LLM round trip. *)
OnDelta ==
    /\ Subscribed
    /\ Len(loopq) < MaxBacklog
    /\ Schedule(Delta)
    /\ UNCHANGED <<logVars, inbox, overflowed, streamVars, clientVars, pushes,
                   wire, faults>>

(* A synthetic frame: turn_started, session_meta, a drive failure. *)
Push ==
    /\ pushes < MaxPush
    /\ pushes' = pushes + 1
    /\ Schedule(Pushed(pushes + 1))
    /\ UNCHANGED <<logVars, inbox, overflowed, streamVars, clientVars, wire,
                   faults>>

-----------------------------------------------------------------------------
(* The event loop *)

(* Mutant of Offer: the queue has no bound. *)
OfferUnbounded ==
    /\ Subscribed
    /\ loopq # <<>>
    /\ loopq' = Tail(loopq)
    /\ inbox' = Append(inbox, Head(loopq))
    /\ UNCHANGED <<logVars, overflowed, streamVars, clientVars, pushes, wire, faults>>

(* Mutant of Offer: a pushed frame gives way at a full queue like a delta. *)
OfferDropsPushes ==
    /\ Subscribed
    /\ loopq # <<>>
    /\ loopq' = Tail(loopq)
    /\ LET f == Head(loopq)
       IN  IF Len(inbox) < QueueSize
           THEN inbox' = Append(inbox, f) /\ UNCHANGED overflowed
           ELSE UNCHANGED inbox /\ overflowed' = (f.type = "durable" \/ overflowed)
    /\ UNCHANGED <<logVars, streamVars, clientVars, pushes, wire, faults>>

(* Subscription.offer, one drop rule per disjunct. *)
Offer ==
    /\ Subscribed
    /\ loopq # <<>>
    /\ loopq' = Tail(loopq)
    /\ LET f == Head(loopq)
       IN  \/ /\ Len(inbox) < QueueSize
              /\ inbox' = Append(inbox, f)
              /\ UNCHANGED overflowed
           \/ /\ Len(inbox) >= QueueSize
              /\ f.type = "delta"
              /\ UNCHANGED <<inbox, overflowed>>
           \/ /\ Len(inbox) >= QueueSize
              /\ f.type # "delta"
              /\ \E i \in DeltasIn(inbox) :
                    /\ \A j \in DeltasIn(inbox) : i <= j
                    /\ inbox' = Append(Without(inbox, i), f)
              /\ UNCHANGED overflowed
           \/ /\ Len(inbox) >= QueueSize
              /\ f.type # "delta"
              /\ DeltasIn(inbox) = {}
              /\ overflowed' = TRUE
              /\ UNCHANGED inbox
    /\ UNCHANGED <<logVars, streamVars, clientVars, pushes, wire, faults>>

(* The request arrives: subscribe before anything is read. *)
Subscribe ==
    /\ pc = "requested"
    /\ pc' = "opening"
    /\ cursor' = Floor(since)
    /\ inbox' = <<>>
    /\ overflowed' = FALSE
    /\ UNCHANGED <<logVars, loopq, since, replay, clientVars, pushes, wire, faults>>

(* hub.replay on the thread pool: a snapshot of every bound stream's log. *)
Replay ==
    /\ pc = "opening"
    /\ replay' = [seq |-> Floor(since) + 1, part |-> 1,
                  end |-> IF bound THEN Len(log) ELSE 0]
    /\ pc' = "replay"
    /\ UNCHANGED <<logVars, hubVars, since, cursor, clientVars, pushes, wire, faults>>

(* Write the next replayed frame, or move on to the next envelope. *)
ReplayFrame ==
    /\ pc = "replay"
    /\ replay.seq < replay.end
    /\ Len(wire) < MaxWire
    /\ IF replay.part <= log[replay.seq + 1]
       THEN /\ Yield(Durable(replay.seq, replay.part))
            /\ replay' = [replay EXCEPT !.part = @ + 1]
       ELSE /\ replay' = [seq |-> replay.seq + 1, part |-> 1, end |-> replay.end]
            /\ UNCHANGED <<wire, cursor>>
    /\ UNCHANGED <<logVars, hubVars, pc, since, clientVars, pushes, faults>>

ReplayDone ==
    /\ pc = "replay"
    /\ replay.seq >= replay.end
    /\ pc' = "check"
    /\ UNCHANGED <<logVars, hubVars, since, cursor, replay, clientVars, pushes,
                   wire, faults>>

(* The top of the live loop: an overflowed stream ends the response. *)
CheckOverflow ==
    /\ pc = "check"
    /\ IF overflowed
       THEN pc' = "ended" /\ inbox' = <<>> /\ loopq' = <<>> /\ overflowed' = FALSE
       ELSE pc' = "next" /\ UNCHANGED hubVars
    /\ UNCHANGED <<logVars, since, cursor, replay, clientVars, pushes, wire, faults>>

(* Subscription.next returns a frame, which the cursor dedups. *)
NextFrame ==
    /\ pc = "next"
    /\ inbox # <<>>
    /\ Len(wire) < MaxWire
    /\ Yield(Head(inbox))
    /\ inbox' = Tail(inbox)
    /\ pc' = "check"
    /\ UNCHANGED <<logVars, loopq, overflowed, since, replay, clientVars, pushes,
                   faults>>

(* Subscription.next times out: a heartbeat, then round the loop again. *)
Heartbeat ==
    /\ pc = "next"
    /\ inbox = <<>>
    /\ pc' = "check"
    /\ UNCHANGED <<logVars, hubVars, since, cursor, replay, clientVars, pushes,
                   wire, faults>>

-----------------------------------------------------------------------------
(* The browser *)

(* The response and its subscription are gone, the frames in flight too. *)
Hangup ==
    /\ pc' = "off"
    /\ wire' = <<>>
    /\ inbox' = <<>>
    /\ loopq' = <<>>
    /\ overflowed' = FALSE
    /\ UNCHANGED <<since, cursor, replay>>

(* The retry timer fires, or the first connect: the cursor is read now. *)
Connect ==
    /\ mounted
    /\ pc = "off"
    /\ pc' = "requested"
    /\ since' = lastSeq
    /\ UNCHANGED <<logVars, hubVars, cursor, replay, clientVars, pushes, wire, faults>>

Receive ==
    /\ wire # <<>>
    /\ Len(pending) < MaxBatch
    /\ pending' = Append(pending, Head(wire))
    /\ wire' = Tail(wire)
    /\ UNCHANGED <<logVars, hubVars, streamVars, mounted, lastSeq, transcript,
                   pushes, faults>>

(* Mutant of StreamEnded: a response the server ended is not retried. *)
StreamEndedForGood == pc = "ended" /\ wire = <<>> /\ UNCHANGED vars

(* The server ended the response: once it is read to the end, retry. *)
StreamEnded ==
    /\ pc = "ended"
    /\ wire = <<>>
    /\ Hangup
    /\ UNCHANGED <<logVars, clientVars, pushes, faults>>

(* Mutant of FoldEvent: the fold trusts the server to have deduplicated. *)
FoldEventNoDedup ==
    /\ mounted
    /\ pending # <<>>
    /\ pending' = Tail(pending)
    /\ LET f == Head(pending)
       IN  IF f.seq # NoSeq
           THEN lastSeq' = f.seq /\ transcript' = Append(transcript, f)
           ELSE UNCHANGED <<lastSeq, transcript>>
    /\ UNCHANGED <<logVars, hubVars, streamVars, mounted, pushes, wire, faults>>

(* The batcher's flush, a frame at a time: dedup first, then apply. *)
FoldEvent ==
    /\ mounted
    /\ pending # <<>>
    /\ pending' = Tail(pending)
    /\ LET f == Head(pending)
       IN  IF f.seq # NoSeq /\ f.seq > lastSeq
           THEN lastSeq' = f.seq /\ transcript' = Append(transcript, f)
           ELSE UNCHANGED <<lastSeq, transcript>>
    /\ UNCHANGED <<logVars, hubVars, streamVars, mounted, pushes, wire, faults>>

(* The connection drops; the batch already received stays. *)
Disconnect ==
    /\ faults < MaxFaults
    /\ pc # "off"
    /\ Hangup
    /\ faults' = faults + 1
    /\ UNCHANGED <<logVars, clientVars, pushes>>

(* The server dies and comes back: hooks that had not run never will. *)
Restart ==
    /\ faults < MaxFaults
    /\ bound
    /\ Hangup
    /\ hook' = [c \in Committers |-> NoHook]
    /\ faults' = faults + 1
    /\ UNCHANGED <<log, bound, clientVars, pushes>>

(* Switching away aborts the connection and drops the pending batch. *)
Unmount ==
    /\ faults < MaxFaults
    /\ mounted
    /\ mounted' = FALSE
    /\ pending' = <<>>
    /\ Hangup
    /\ faults' = faults + 1
    /\ UNCHANGED <<logVars, lastSeq, transcript, pushes>>

Mount ==
    /\ ~mounted
    /\ mounted' = TRUE
    /\ UNCHANGED <<logVars, hubVars, streamVars, pending, lastSeq, transcript,
                   pushes, wire, faults>>

(* The store keeps the last few conversations; an evicted one starts over. *)
EvictConversation ==
    /\ ~mounted
    /\ lastSeq' = -1
    /\ transcript' = <<>>
    /\ UNCHANGED <<logVars, hubVars, streamVars, pending, mounted, pushes, wire,
                   faults>>

-----------------------------------------------------------------------------
Engine == (\E c \in Committers : Commit(c) \/ Ingest(c)) \/ Bind \/ OnDelta \/ Push
EventLoop == Offer \/ Subscribe \/ Replay \/ ReplayFrame \/ ReplayDone
                 \/ CheckOverflow \/ NextFrame \/ Heartbeat
Browser == Connect \/ Receive \/ StreamEnded \/ FoldEvent \/ Mount \/ EvictConversation
Faults == Disconnect \/ Restart \/ Unmount

Next == Engine \/ EventLoop \/ Browser \/ Faults

Spec == Init /\ [][Next]_vars

(* The loop runs every ready callback and coroutine, a committing thread   *)
(* returns from its hook, a retry is always scheduled and a received batch *)
(* is flushed.  Nothing is assumed of new commits, deltas, pushes, faults, *)
(* or of the user coming back to the session.                              *)
Fairness ==
    /\ \A c \in Committers : WF_vars(Ingest(c))
    /\ WF_vars(Bind)
    /\ WF_vars(Offer)
    /\ WF_vars(Subscribe) /\ WF_vars(Replay) /\ WF_vars(ReplayFrame)
    /\ WF_vars(ReplayDone) /\ WF_vars(CheckOverflow) /\ WF_vars(NextFrame)
    /\ WF_vars(Connect) /\ WF_vars(Receive) /\ WF_vars(StreamEnded)
    /\ WF_vars(FoldEvent)

FairSpec == Spec /\ Fairness

-----------------------------------------------------------------------------
(* Properties *)

(* The envelopes that put at least one frame on the wire. *)
Visible == {s \in 0 .. Len(log) - 1 : log[s + 1] > 0}

Range(q) == {q[i] : i \in 1 .. Len(q)}

(* Every variable has its type: the shape of the frames in each queue, of  *)
(* the hooks and cursors, and the Subscription's bound on its queue.       *)
TypeOK ==
    /\ log \in Seq(Nat)
    /\ hook \in [Committers -> [seq : Int, part : Nat]]
    /\ bound \in BOOLEAN
    /\ pushes \in Nat
    /\ loopq \in Seq(Frame)
    /\ inbox \in Seq(Frame) /\ Len(inbox) <= QueueSize
    /\ overflowed \in BOOLEAN
    /\ pc \in {"off", "requested", "opening", "replay", "check", "next", "ended"}
    /\ since \in Int
    /\ cursor \in Int
    /\ replay \in [seq : Nat, part : Nat, end : Nat]
    /\ wire \in Seq(Frame)
    /\ pending \in Seq(Frame)
    /\ mounted \in BOOLEAN
    /\ lastSeq \in Int
    /\ transcript \in Seq(Frame)
    /\ faults \in Nat

(* The resume cursor never passes an envelope the fold has not applied:    *)
(* whatever was lost to a full queue, a dropped connection or a restart,   *)
(* the browser still asks for it again (hub.py: "re-derivation is the      *)
(* recovery path").                                                        *)
NoGap == \A s \in Visible : s <= lastSeq => Durable(s, 1) \in Range(transcript)

(* One response writes the synthetic frames pushed to it in order and      *)
(* without a hole: only a delta gives way at a full queue, and a response  *)
(* that lost anything else ends before it writes a later frame.            *)
PushesContiguous ==
    \A i, j \in 1 .. Len(wire) :
        /\ i < j
        /\ {wire[i].type, wire[j].type} = {"push"}
        /\ \A k \in i + 1 .. j - 1 : wire[k].type # "push"
        => wire[j].part = wire[i].part + 1

(* The fold's transcript is the abstract feed: the visible envelopes, each *)
(* once, in order, none skipped, across every overflow and reconnect.      *)
Feed == INSTANCE ConversationFeed
            WITH read <- [i \in DOMAIN transcript |-> transcript[i].seq]
ImplementsFeed == Feed!Spec

(* While the session stays on screen, the browser catches up with every    *)
(* envelope committed since the stream was bound, through overflows, lost  *)
(* connections and restarts; a client that came during the seed may miss   *)
(* the envelopes of the seed until another is committed.                   *)
CatchesUp ==
    \A s \in SeedLen .. MaxLog - 1 :
        (s \in Visible) ~> (lastSeq >= s \/ ~mounted)

=============================================================================
