------------------------ MODULE SessionStreamProofs ------------------------
(* Proofs about SessionStream, for every value of its constants.           *)
EXTENDS SessionStream, TLAPS

(* A queue with one element removed is one element shorter. *)
LEMMA WithoutType ==
    ASSUME NEW S, NEW q \in Seq(S), NEW i \in 1 .. Len(q)
    PROVE  /\ Without(q, i) \in Seq(S)
           /\ Len(Without(q, i)) = Len(q) - 1
  BY DEF Without

(* Every frame the hub builds is a frame. *)
LEMMA FrameTypes ==
    /\ Delta \in Frame
    /\ \A s \in Int, k \in Nat : Durable(s, k) \in Frame
    /\ \A n \in Nat : Pushed(n) \in Frame
  BY DEF Delta, Durable, Pushed, Frame, NoSeq

(* The empty queue. *)
LEMMA EmptyQueue == <<>> \in Seq(Frame) /\ Len(<<>>) = 0 /\ Len(<<>>) <= QueueSize
  BY ConstantsAssumption

(* Popping and appending keep the type of a queue. *)
LEMMA QueueTypes ==
    ASSUME NEW S, NEW q \in Seq(S), NEW e \in S
    PROVE  /\ Append(q, e) \in Seq(S)
           /\ Len(Append(q, e)) = Len(q) + 1
           /\ q # <<>> => /\ Head(q) \in S
                          /\ Tail(q) \in Seq(S)
                          /\ Len(Tail(q)) = Len(q) - 1
  OBVIOUS

(* The types of the frames a response writes and of the cursor it keeps.   *)
LEMMA YieldType ==
    ASSUME TypeOK, NEW f \in Frame, Yield(f)
    PROVE  wire' \in Seq(Frame) /\ cursor' \in Int
<1>1. wire \in Seq(Frame) /\ cursor \in Int
  BY DEF TypeOK
<1>2. f.seq \in Int
  BY DEF Frame
<1>3. Append(wire, f) \in Seq(Frame) /\ Advance(cursor, f) \in Int
  BY <1>1, <1>2 DEF Advance
<1>4. QED
  BY <1>1, <1>3 DEF Yield

(* The first state is well typed. *)
LEMMA TypeInit ==
    ASSUME Init PROVE TypeOK
<1>1. bound \in BOOLEAN
  BY Zenon DEF Init
<1>2. hook \in [Committers -> [seq : Int, part : Nat]]
  BY DEF Init, NoHook, NoSeq
<1>3. log \in Seq(Nat)
  BY DEF Init
<1>4. replay \in [seq : Nat, part : Nat, end : Nat]
  BY DEF Init
<1>5. /\ pushes \in Nat /\ faults \in Nat /\ since \in Int /\ cursor \in Int
      /\ lastSeq \in Int
  BY DEF Init
<1>8. /\ mounted \in BOOLEAN /\ overflowed \in BOOLEAN
      /\ pc \in {"off", "requested", "opening", "replay", "check", "next", "ended"}
  BY Zenon DEF Init
<1>6. /\ loopq \in Seq(Frame) /\ inbox \in Seq(Frame) /\ Len(inbox) <= QueueSize
      /\ wire \in Seq(Frame) /\ pending \in Seq(Frame) /\ transcript \in Seq(Frame)
  BY EmptyQueue DEF Init
<1>7. QED
  BY <1>1, <1>2, <1>3, <1>4, <1>5, <1>6, <1>8 DEF TypeOK

(* Every step keeps the types. *)
LEMMA TypeStep ==
    ASSUME TypeOK, [Next]_vars PROVE TypeOK'
<1> USE ConstantsAssumption, EmptyQueue
<1>1. ASSUME NEW c \in Committers, Commit(c)
      PROVE  TypeOK'
  BY <1>1 DEF Commit, TypeOK, hubVars, streamVars, clientVars
<1>2. ASSUME NEW c \in Committers, Ingest(c)
      PROVE  TypeOK'
  <2>1. loopq' \in Seq(Frame)
    <3>1. hook[c].seq \in Int /\ hook[c].part \in Nat
      BY DEF TypeOK
    <3>2. Durable(hook[c].seq, hook[c].part) \in Frame
      BY <3>1, FrameTypes
    <3>3. \/ loopq' = Append(loopq, Durable(hook[c].seq, hook[c].part))
          \/ loopq' = loopq
      BY <1>2 DEF Ingest, Schedule
    <3>4. loopq \in Seq(Frame)
      BY DEF TypeOK
    <3>5. Append(loopq, Durable(hook[c].seq, hook[c].part)) \in Seq(Frame)
      BY <3>2, <3>4, QueueTypes
    <3>6. QED
      BY <3>3, <3>4, <3>5
  <2>2. hook' \in [Committers -> [seq : Int, part : Nat]]
    <3>1. hook[c].seq \in Int /\ hook[c].part \in Nat
      BY DEF TypeOK
    <3>2. \/ hook' = [hook EXCEPT ![c] = [seq |-> hook[c].seq, part |-> hook[c].part + 1]]
          \/ hook' = [hook EXCEPT ![c] = NoHook]
      BY <1>2 DEF Ingest
    <3>3. NoHook \in [seq : Int, part : Nat]
      BY DEF NoHook, NoSeq
    <3>4. [seq |-> hook[c].seq, part |-> hook[c].part + 1] \in [seq : Int, part : Nat]
      BY <3>1
    <3>5. hook \in [Committers -> [seq : Int, part : Nat]]
      BY DEF TypeOK
    <3>6. QED
      BY <3>2, <3>3, <3>4, <3>5
  <2>3. QED
    BY <1>2, <2>1, <2>2 DEF Ingest, TypeOK, streamVars, clientVars
<1>3. CASE Bind
  BY <1>3 DEF Bind, TypeOK, hubVars, streamVars, clientVars
<1>4. CASE OnDelta
  BY <1>4, FrameTypes, QueueTypes
     DEF OnDelta, Schedule, TypeOK, logVars, streamVars, clientVars
<1>5. CASE Push
  <2>1. pushes' \in Nat /\ Pushed(pushes + 1) \in Frame
    <3>1. pushes \in Nat
      BY DEF TypeOK
    <3>2. pushes' = pushes + 1
      BY <1>5 DEF Push
    <3>3. QED
      BY <3>1, <3>2, FrameTypes
  <2>2. loopq' = Append(loopq, Pushed(pushes + 1)) \/ loopq' = loopq
    BY <1>5 DEF Push, Schedule
  <2>3. loopq' \in Seq(Frame)
    <3>1. loopq \in Seq(Frame)
      BY DEF TypeOK
    <3>2. Append(loopq, Pushed(pushes + 1)) \in Seq(Frame)
      BY <2>1, <3>1, QueueTypes
    <3>3. QED
      BY <2>2, <3>1, <3>2
  <2>4. QED
    BY <1>5, <2>1, <2>3 DEF Push, TypeOK, logVars, streamVars, clientVars
<1>6. CASE Offer
  <2>1. loopq' \in Seq(Frame) /\ Head(loopq) \in Frame
    <3>1. loopq \in Seq(Frame)
      BY DEF TypeOK
    <3>2. loopq # <<>> /\ loopq' = Tail(loopq)
      BY <1>6 DEF Offer
    <3>3. QED
      BY <3>1, <3>2
  <2>2. overflowed' \in BOOLEAN
    BY <1>6 DEF Offer, TypeOK
  <2>3. inbox' \in Seq(Frame) /\ Len(inbox') <= QueueSize
    <3>1. CASE \E i \in DeltasIn(inbox) :
                  inbox' = Append(Without(inbox, i), Head(loopq))
      <4>1. PICK i \in DeltasIn(inbox) :
                  inbox' = Append(Without(inbox, i), Head(loopq))
        BY <3>1
      <4>2. i \in 1 .. Len(inbox)
        BY <4>1 DEF DeltasIn
      <4>3. /\ Without(inbox, i) \in Seq(Frame)
            /\ Len(Without(inbox, i)) = Len(inbox) - 1
        BY <4>2, WithoutType DEF TypeOK
      <4>4. Len(inbox) \in Nat /\ Len(inbox) <= QueueSize
        BY DEF TypeOK
      <4>5. /\ inbox' \in Seq(Frame)
            /\ Len(inbox') = Len(Without(inbox, i)) + 1
        BY <2>1, <4>1, <4>3, QueueTypes
      <4>6. QED
        BY <4>3, <4>4, <4>5
    <3>2. CASE ~ \E i \in DeltasIn(inbox) :
                  inbox' = Append(Without(inbox, i), Head(loopq))
      <4>1. inbox' = inbox \/ (Len(inbox) < QueueSize /\ inbox' = Append(inbox, Head(loopq)))
        BY <1>6, <3>2 DEF Offer
      <4>2. inbox \in Seq(Frame) /\ Len(inbox) <= QueueSize
        BY DEF TypeOK
      <4>3. /\ Append(inbox, Head(loopq)) \in Seq(Frame)
            /\ Len(Append(inbox, Head(loopq))) = Len(inbox) + 1
        BY <2>1, <4>2, QueueTypes
      <4>4. CASE inbox' = inbox
        BY <4>2, <4>4
      <4>5. CASE Len(inbox) < QueueSize /\ inbox' = Append(inbox, Head(loopq))
        <5>1. Len(inbox) \in Nat /\ QueueSize \in Nat
          BY <4>2, ConstantsAssumption
        <5>2. Len(inbox) + 1 <= QueueSize
          BY <4>5, <5>1
        <5>3. QED
          BY <4>3, <4>5, <5>2
      <4>6. QED
        BY <4>1, <4>4, <4>5
    <3>3. QED
      BY <3>1, <3>2
  <2>4. QED
    BY <1>6, <2>1, <2>2, <2>3 DEF Offer, TypeOK, logVars, streamVars, clientVars
<1>7. CASE Subscribe
  <2>1. cursor' \in Int
    BY <1>7 DEF Subscribe, Floor, TypeOK
  <2>2. QED
    BY <1>7, <2>1 DEF Subscribe, TypeOK, logVars, clientVars
<1>8. CASE Replay
  <2>1. replay' \in [seq : Nat, part : Nat, end : Nat]
    <3>1. replay' = [seq |-> Floor(since) + 1, part |-> 1,
                     end |-> IF bound THEN Len(log) ELSE 0]
      BY <1>8 DEF Replay
    <3>2. since \in Int /\ log \in Seq(Nat)
      BY DEF TypeOK
    <3>3. Floor(since) + 1 \in Nat /\ (IF bound THEN Len(log) ELSE 0) \in Nat
      BY <3>2 DEF Floor
    <3>4. QED
      BY <3>1, <3>3
  <2>2. QED
    BY <1>8, <2>1 DEF Replay, TypeOK, logVars, hubVars, clientVars
<1>9. CASE ReplayFrame
  <2>1. replay' \in [seq : Nat, part : Nat, end : Nat]
    <3>1. \/ replay' = [replay EXCEPT !.part = @ + 1]
          \/ replay' = [seq |-> replay.seq + 1, part |-> 1, end |-> replay.end]
      BY <1>9 DEF ReplayFrame
    <3>2. replay \in [seq : Nat, part : Nat, end : Nat]
      BY DEF TypeOK
    <3>3. replay.seq \in Nat /\ replay.part \in Nat /\ replay.end \in Nat
      BY <3>2
    <3>4. CASE replay' = [replay EXCEPT !.part = @ + 1]
      BY <3>2, <3>3, <3>4
    <3>5. CASE replay' = [seq |-> replay.seq + 1, part |-> 1, end |-> replay.end]
      BY <3>2, <3>3, <3>5
    <3>6. QED
      BY <3>1, <3>4, <3>5
  <2>2. wire' \in Seq(Frame) /\ cursor' \in Int
    <3>1. Durable(replay.seq, replay.part) \in Frame
      <4>1. replay \in [seq : Nat, part : Nat, end : Nat]
        BY DEF TypeOK
      <4>2. replay.seq \in Int /\ replay.part \in Nat
        BY <4>1
      <4>3. QED
        BY <4>2, FrameTypes
    <3>2. \/ Yield(Durable(replay.seq, replay.part))
          \/ UNCHANGED <<wire, cursor>>
      BY <1>9 DEF ReplayFrame
    <3>3. QED
      BY <3>1, <3>2, YieldType DEF TypeOK
  <2>3. QED
    BY <1>9, <2>1, <2>2 DEF ReplayFrame, TypeOK, logVars, hubVars, clientVars
<1>10. CASE ReplayDone
  BY <1>10 DEF ReplayDone, TypeOK, logVars, hubVars, clientVars
<1>11. CASE CheckOverflow
  BY <1>11 DEF CheckOverflow, TypeOK, logVars, hubVars, clientVars
<1>12. CASE NextFrame
  <2>1. Head(inbox) \in Frame /\ Tail(inbox) \in Seq(Frame)
        /\ Len(Tail(inbox)) = Len(inbox) - 1
    <3>1. inbox \in Seq(Frame) /\ inbox # <<>>
      BY <1>12 DEF NextFrame, TypeOK
    <3>2. QED
      BY <3>1
  <2>2. wire' \in Seq(Frame) /\ cursor' \in Int
    BY <1>12, <2>1, YieldType DEF NextFrame
  <2>3. QED
    <3>1. inbox' \in Seq(Frame) /\ Len(inbox') <= QueueSize
      BY <1>12, <2>1 DEF NextFrame, TypeOK
    <3>2. pc' \in {"off", "requested", "opening", "replay", "check", "next", "ended"}
      BY <1>12 DEF NextFrame
    <3>3. QED
      BY <1>12, <2>2, <3>1, <3>2 DEF NextFrame, TypeOK, logVars, clientVars
<1>13. CASE Heartbeat
  BY <1>13 DEF Heartbeat, TypeOK, logVars, hubVars, clientVars
<1>14. CASE Connect
  BY <1>14 DEF Connect, TypeOK, logVars, hubVars, clientVars
<1>15. CASE Receive
  <2>1. wire \in Seq(Frame) /\ pending \in Seq(Frame)
    BY DEF TypeOK
  <2>2. wire # <<>> /\ wire' = Tail(wire) /\ pending' = Append(pending, Head(wire))
    BY <1>15 DEF Receive
  <2>3. wire' \in Seq(Frame) /\ pending' \in Seq(Frame)
    BY <2>1, <2>2
  <2>4. QED
    BY <1>15, <2>3 DEF Receive, TypeOK, logVars, hubVars, streamVars
<1>16. CASE StreamEnded
  BY <1>16 DEF StreamEnded, Hangup, TypeOK, logVars, clientVars
<1>17. CASE FoldEvent
  <2>1. Head(pending) \in Frame /\ Tail(pending) \in Seq(Frame)
    <3>1. pending \in Seq(Frame)
      BY DEF TypeOK
    <3>2. pending # <<>>
      BY <1>17 DEF FoldEvent
    <3>3. QED
      BY <3>1, <3>2
  <2>2. lastSeq' \in Int /\ transcript' \in Seq(Frame)
    <3>1. Head(pending).seq \in Int
      BY <2>1 DEF Frame
    <3>2. \/ /\ lastSeq' = Head(pending).seq
             /\ transcript' = Append(transcript, Head(pending))
          \/ UNCHANGED <<lastSeq, transcript>>
      BY <1>17 DEF FoldEvent
    <3>3. lastSeq \in Int /\ transcript \in Seq(Frame)
      BY DEF TypeOK
    <3>4. Append(transcript, Head(pending)) \in Seq(Frame)
      BY <2>1, <3>3
    <3>5. QED
      BY <3>1, <3>2, <3>3, <3>4
  <2>3. QED
    BY <1>17, <2>1, <2>2 DEF FoldEvent, TypeOK, logVars, hubVars, streamVars
<1>18. CASE Mount
  BY <1>18 DEF Mount, TypeOK, logVars, hubVars, streamVars
<1>19. CASE EvictConversation
  BY <1>19 DEF EvictConversation, TypeOK, logVars, hubVars, streamVars
<1>20. CASE Disconnect
  <2>1. faults' \in Nat
    BY <1>20 DEF Disconnect, TypeOK
  <2>2. QED
    BY <1>20, <2>1 DEF Disconnect, Hangup, TypeOK, logVars, clientVars
<1>21. CASE Restart
  <2>1. hook' \in [Committers -> [seq : Int, part : Nat]]
    BY <1>21 DEF Restart, NoHook, NoSeq
  <2>2. faults' \in Nat
    BY <1>21 DEF Restart, TypeOK
  <2>3. QED
    BY <1>21, <2>1, <2>2 DEF Restart, Hangup, TypeOK, clientVars
<1>22. CASE Unmount
  <2>1. faults' \in Nat
    BY <1>22 DEF Unmount, TypeOK
  <2>2. QED
    BY <1>22, <2>1 DEF Unmount, Hangup, TypeOK, logVars
<1>23. CASE UNCHANGED vars
  BY <1>23 DEF vars, TypeOK, logVars, hubVars, streamVars, clientVars
<1>24. QED
  BY <1>1, <1>2, <1>3, <1>4, <1>5, <1>6, <1>7, <1>8, <1>9, <1>10, <1>11,
     <1>12, <1>13, <1>14, <1>15, <1>16, <1>17, <1>18, <1>19, <1>20, <1>21,
     <1>22, <1>23
     DEF Next, Engine, EventLoop, Browser, Faults

(* TypeOK is an invariant: the queue of a Subscription never holds more    *)
(* than its bound, and every queue on the way to the browser holds frames. *)
THEOREM TypeCorrect == Spec => []TypeOK
<1>1. Init => TypeOK
  BY TypeInit
<1>2. TypeOK /\ [Next]_vars => TypeOK'
  BY TypeStep
<1>3. QED
  BY <1>1, <1>2, PTL DEF Spec

-----------------------------------------------------------------------------
(***************************************************************************)
(* NoGap, for every queue size, log, width and fault budget, of a session  *)
(* whose stream is bound and whose envelopes reach the hub in the order of *)
(* their seqs.  The inductive invariant follows the frames down the        *)
(* pipeline: whatever precedes a frame in the log is ahead of it in the    *)
(* same queue, or further down, or already applied; an overflow may break  *)
(* that only where the response is bound to end before it reads on.        *)
(***************************************************************************)

(* One thread commits, and the stream's row is there from the start. *)
Sequential == Committers = {Seeder} /\ SeedLen = 0

First(s) == Durable(s, 1)

(* Envelope s must be delivered before frame f may be. *)
Precedes(s, f) == s < f.seq \/ (s = f.seq /\ f.part # 1)

(* Whatever of V precedes a frame of q is in D or ahead of it in q. *)
Ordered(q, V, D) ==
    \A i \in 1 .. Len(q), s \in V : Precedes(s, q[i]) =>
        s \in D \/ \E j \in 1 .. i - 1 : q[j] = First(s)

(* The envelopes of V whose first frame is in q. *)
Carried(q, V) == {s \in V : First(s) \in Range(q)}

(* A frame of one of the envelopes of V, or one without a seq. *)
WellFormed(f, V) == f.seq = NoSeq \/ (f.seq \in V /\ f.type = "durable")

AllWellFormed(q, V) == \A i \in 1 .. Len(q) : WellFormed(q[i], V)

(* Envelopes that have been applied; that are past the response; that the  *)
(* response has, or will replay; and that the hook has handed on.          *)
Applied == {s \in Visible : s <= lastSeq}
Received == Applied \cup Carried(pending, Visible)
Sent == Received \cup Carried(wire, Visible)
Written == {s \in Visible : s <= cursor}
Held == {s \in Visible : s <= cursor \/ pc = "opening" \/ (pc = "replay" /\ s < replay.end)}
Offered == Held \cup Carried(inbox, Visible)
FannedOut ==
    LET h == hook[Seeder]
    IN  {s \in Visible : h = NoHook \/ s < h.seq \/ h.part > 1}

InvShape ==
    /\ bound
    /\ \/ hook[Seeder] = NoHook
       \/ hook[Seeder].seq = Len(log) - 1 /\ hook[Seeder].part >= 1 /\ Len(log) > 0
    /\ lastSeq < Len(log) /\ cursor < Len(log)
    /\ since <= lastSeq \/ pc = "off"
    /\ ~mounted => pc = "off" /\ pending = <<>>
    /\ pc \in {"off", "requested"} => wire = <<>>
    /\ ~Subscribed => loopq = <<>> /\ inbox = <<>>

InvFrames ==
    /\ AllWellFormed(loopq, Visible) /\ AllWellFormed(inbox, Visible)
    /\ AllWellFormed(wire, Visible) /\ AllWellFormed(pending, Visible)

InvPending == Ordered(pending, Visible, Applied)
InvWire == Ordered(wire, Visible, Received)
InvCursor == Subscribed => Written \subseteq Sent

InvReplay ==
    /\ pc = "opening" => cursor = Floor(since)
    /\ pc = "replay" =>
         /\ replay.end <= Len(log) /\ replay.seq <= Len(log) /\ replay.part >= 1
         /\ replay.part > 1 => replay.seq < replay.end /\ replay.seq <= cursor
         /\ \A s \in Visible : s < replay.seq => s <= cursor

(* Frames have been lost to a full queue.  Until the loop sees it, nothing *)
(* gets in behind the loss.                                                *)
InvFull ==
    Subscribed /\ overflowed /\ pc # "check" =>
        Len(inbox) >= QueueSize /\ DeltasIn(inbox) = {}

InvInbox ==
    Subscribed /\ ~(overflowed /\ pc = "check") => Ordered(inbox, Visible, Held)
InvLoop == Subscribed /\ ~overflowed => Ordered(loopq, Visible, Offered)
InvFanned ==
    Subscribed /\ ~overflowed => FannedOut \subseteq Offered \cup Carried(loopq, Visible)

Flow == /\ NoGap /\ InvShape /\ InvFrames /\ InvPending /\ InvWire /\ InvCursor
        /\ InvReplay /\ InvFull /\ InvInbox /\ InvLoop /\ InvFanned

IInv == TypeOK /\ Flow

-----------------------------------------------------------------------------
(* Lemmas on queues *)

(* What is delivered further down only helps. *)
LEMMA OrderedMore ==
    ASSUME NEW q, NEW V, NEW D, NEW E, Ordered(q, V, D), D \cap V \subseteq E
    PROVE  Ordered(q, V, E)
  BY DEF Ordered

LEMMA OrderedEmpty ==
    ASSUME NEW V, NEW D PROVE Ordered(<<>>, V, D)
  BY DEF Ordered

(* A frame may join a queue that holds what precedes it. *)
LEMMA OrderedAppend ==
    ASSUME NEW q \in Seq(Frame), NEW f \in Frame, NEW V, NEW D, Ordered(q, V, D),
           \A s \in V : Precedes(s, f) => s \in D \cup Carried(q, V)
    PROVE  Ordered(Append(q, f), V, D)
<1> DEFINE r == Append(q, f)
<1>1. /\ Len(q) \in Nat /\ Len(r) = Len(q) + 1 /\ r[Len(q) + 1] = f
      /\ \A i \in 1 .. Len(q) : r[i] = q[i]
  OBVIOUS
<1>2. SUFFICES ASSUME NEW i \in 1 .. Len(r), NEW s \in V, Precedes(s, r[i]), s \notin D
               PROVE  \E j \in 1 .. i - 1 : r[j] = First(s)
  BY DEF Ordered
<1> HIDE DEF r
<1>3. CASE i \in 1 .. Len(q)
  <2>1. PICK j \in 1 .. i - 1 : q[j] = First(s)
    BY <1>1, <1>2, <1>3 DEF Ordered
  <2>2. QED
    BY <1>1, <1>3, <2>1
<1>4. CASE i = Len(q) + 1
  <2>1. First(s) \in Range(q)
    BY <1>1, <1>2, <1>4 DEF Carried
  <2>2. PICK j \in 1 .. Len(q) : q[j] = First(s)
    BY <2>1 DEF Range
  <2>3. QED
    BY <1>1, <1>4, <2>2
<1>5. QED
  BY <1>1, <1>3, <1>4

(* What precedes the head is further down. *)
LEMMA OrderedHead ==
    ASSUME NEW q \in Seq(Frame), q # <<>>, NEW V, NEW D, Ordered(q, V, D),
           NEW s \in V, Precedes(s, Head(q))
    PROVE  s \in D
<1>1. 1 \in 1 .. Len(q) /\ Head(q) = q[1] /\ 1 .. 1 - 1 = {}
  OBVIOUS
<1>2. QED
  BY <1>1 DEF Ordered

(* Once the head is further down too, the tail is in order. *)
LEMMA OrderedTail ==
    ASSUME NEW q \in Seq(Frame), q # <<>>, NEW V, NEW D, NEW E, Ordered(q, V, D),
           D \cap V \subseteq E, \A s \in V : Head(q) = First(s) => s \in E
    PROVE  Ordered(Tail(q), V, E)
<1> DEFINE r == Tail(q)
<1>1. /\ Len(q) \in Nat /\ Len(r) = Len(q) - 1 /\ Head(q) = q[1]
      /\ \A i \in 1 .. Len(r) : r[i] = q[i + 1]
  OBVIOUS
<1>2. SUFFICES ASSUME NEW i \in 1 .. Len(r), NEW s \in V, Precedes(s, r[i]), s \notin E
               PROVE  \E j \in 1 .. i - 1 : r[j] = First(s)
  BY DEF Ordered
<1> HIDE DEF r
<1>3. i + 1 \in 1 .. Len(q) /\ Precedes(s, q[i + 1]) /\ s \notin D
  BY <1>1, <1>2
<1>4. PICK j \in 1 .. i : q[j] = First(s)
  <2>1. \E j \in 1 .. (i + 1) - 1 : q[j] = First(s)
    BY <1>3 DEF Ordered
  <2>2. QED
    BY <2>1
<1>5. j # 1
  BY <1>1, <1>2, <1>4
<1>6. j - 1 \in 1 .. i - 1 /\ r[j - 1] = q[j]
  BY <1>1, <1>4, <1>5
<1>7. QED
  BY <1>4, <1>6

(* A delta can be taken out of the middle. *)
LEMMA OrderedWithout ==
    ASSUME NEW q \in Seq(Frame), NEW k \in DeltasIn(q), NEW V, NEW D, Ordered(q, V, D)
    PROVE  Ordered(Without(q, k), V, D)
<1> DEFINE r == Without(q, k)
<1>1. /\ k \in 1 .. Len(q) /\ q[k].type = "delta"
      /\ Len(q) \in Nat /\ Len(r) = Len(q) - 1
  BY DEF DeltasIn, Without
<1>2. \A i \in 1 .. Len(r) : r[i] = IF i < k THEN q[i] ELSE q[i + 1]
  BY <1>1 DEF Without
<1>3. SUFFICES ASSUME NEW i \in 1 .. Len(r), NEW s \in V, Precedes(s, r[i]), s \notin D
               PROVE  \E j \in 1 .. i - 1 : r[j] = First(s)
  BY DEF Ordered
<1> HIDE DEF r
<1>4. First(s).type = "durable"
  BY DEF First, Durable
<1>5. CASE i < k
  <2>1. i \in 1 .. Len(q) /\ r[i] = q[i]
    BY <1>1, <1>2, <1>5
  <2>2. PICK j \in 1 .. i - 1 : q[j] = First(s)
    BY <1>3, <2>1 DEF Ordered
  <2>3. r[j] = q[j]
    BY <1>1, <1>2, <1>5, <2>2
  <2>4. QED
    BY <2>2, <2>3
<1>6. CASE ~(i < k)
  <2>1. i + 1 \in 1 .. Len(q) /\ r[i] = q[i + 1]
    BY <1>1, <1>2, <1>6
  <2>2. PICK j \in 1 .. i : q[j] = First(s)
    <3>1. \E j \in 1 .. (i + 1) - 1 : q[j] = First(s)
      BY <1>3, <2>1 DEF Ordered
    <3>2. QED
      BY <3>1
  <2>3. j # k
    BY <1>1, <1>4, <2>2
  <2>4. CASE j < k
    <3>1. j \in 1 .. i - 1 /\ j \in 1 .. Len(r)
      BY <1>1, <1>6, <2>2, <2>4
    <3>2. r[j] = q[j]
      BY <1>2, <2>4, <3>1
    <3>3. QED
      BY <2>2, <3>1, <3>2
  <2>5. CASE j > k
    <3>1. j - 1 \in 1 .. i - 1 /\ ~(j - 1 < k) /\ (j - 1) + 1 = j
      BY <1>1, <2>2, <2>5
    <3>2. r[j - 1] = q[j]
      BY <1>1, <1>2, <3>1
    <3>3. QED
      BY <2>2, <3>1, <3>2
  <2>6. QED
    BY <1>1, <2>2, <2>3, <2>4, <2>5
<1>7. QED
  BY <1>5, <1>6

(* Envelopes newer than every frame of the queue ask nothing of it. *)
LEMMA OrderedGrow ==
    ASSUME NEW q \in Seq(Frame), NEW V, NEW W, NEW D, NEW E, Ordered(q, V, D),
           D \cap V \subseteq E,
           \A i \in 1 .. Len(q), s \in W : Precedes(s, q[i]) => s \in V
    PROVE  Ordered(q, W, E)
  BY DEF Ordered

(* What a queue carries after a frame joins, leaves, or is evicted. *)
LEMMA CarriedAppend ==
    ASSUME NEW q \in Seq(Frame), NEW f \in Frame, NEW V
    PROVE  Carried(Append(q, f), V) = Carried(q, V) \cup {s \in V : First(s) = f}
<1> DEFINE r == Append(q, f)
<1>1. /\ Len(q) \in Nat /\ Len(r) = Len(q) + 1 /\ r[Len(q) + 1] = f
      /\ \A i \in 1 .. Len(q) : r[i] = q[i]
  OBVIOUS
<1> HIDE DEF r
<1>2. Range(r) = Range(q) \cup {f}
  <2>1. \A i \in 1 .. Len(r) : r[i] \in Range(q) \cup {f}
    BY <1>1 DEF Range
  <2>2. f \in Range(r) /\ \A i \in 1 .. Len(q) : q[i] \in Range(r)
    BY <1>1 DEF Range
  <2>3. QED
    BY <2>1, <2>2 DEF Range
<1>3. Carried(r, V) = Carried(q, V) \cup {s \in V : First(s) = f}
  BY <1>2 DEF Carried
<1>4. QED
  BY <1>3 DEF r

LEMMA CarriedTail ==
    ASSUME NEW q \in Seq(Frame), q # <<>>, NEW V
    PROVE  Carried(q, V) = Carried(Tail(q), V) \cup {s \in V : First(s) = Head(q)}
<1> DEFINE r == Tail(q)
<1>1. /\ Len(q) \in Nat /\ Len(q) >= 1 /\ Len(r) = Len(q) - 1 /\ Head(q) = q[1]
      /\ \A i \in 1 .. Len(r) : r[i] = q[i + 1]
  OBVIOUS
<1> HIDE DEF r
<1>2. Range(q) = Range(r) \cup {Head(q)}
  <2>1. ASSUME NEW i \in 1 .. Len(q) PROVE q[i] \in Range(r) \cup {Head(q)}
    <3>1. CASE i = 1
      BY <1>1, <3>1
    <3>2. CASE i # 1
      <4>1. i - 1 \in 1 .. Len(r) /\ r[i - 1] = q[i]
        BY <1>1, <3>2
      <4>2. QED
        BY <4>1 DEF Range
    <3>3. QED
      BY <3>1, <3>2
  <2>2. Head(q) \in Range(q) /\ \A i \in 1 .. Len(r) : r[i] \in Range(q)
    BY <1>1 DEF Range
  <2>3. QED
    BY <2>1, <2>2 DEF Range
<1>3. Carried(q, V) = Carried(r, V) \cup {s \in V : First(s) = Head(q)}
  BY <1>2 DEF Carried
<1>4. QED
  BY <1>3 DEF r

LEMMA CarriedWithout ==
    ASSUME NEW q \in Seq(Frame), NEW k \in DeltasIn(q), NEW V
    PROVE  Carried(Without(q, k), V) = Carried(q, V)
<1> DEFINE r == Without(q, k)
<1>1. /\ k \in 1 .. Len(q) /\ q[k].type = "delta"
      /\ Len(q) \in Nat /\ Len(r) = Len(q) - 1
  BY DEF DeltasIn, Without
<1>2. \A i \in 1 .. Len(r) : r[i] = IF i < k THEN q[i] ELSE q[i + 1]
  BY <1>1 DEF Without
<1> HIDE DEF r
<1>3. ASSUME NEW s \in V, First(s) \in Range(q)
      PROVE  First(s) \in Range(r)
  <2>1. PICK i \in 1 .. Len(q) : q[i] = First(s)
    BY <1>3 DEF Range
  <2>2. i # k
    BY <1>1, <2>1 DEF First, Durable
  <2>3. CASE i < k
    <3>1. i \in 1 .. Len(r) /\ r[i] = q[i]
      BY <1>1, <1>2, <2>3
    <3>2. QED
      BY <2>1, <3>1 DEF Range
  <2>4. CASE i > k
    <3>1. i - 1 \in 1 .. Len(r) /\ r[i - 1] = q[i]
      BY <1>1, <1>2, <2>4
    <3>2. QED
      BY <2>1, <3>1 DEF Range
  <2>5. QED
    BY <1>1, <2>2, <2>3, <2>4
<1>4. ASSUME NEW s \in V, First(s) \in Range(r)
      PROVE  First(s) \in Range(q)
  <2>1. PICK i \in 1 .. Len(r) : r[i] = First(s)
    BY <1>4 DEF Range
  <2>2. i \in 1 .. Len(q) /\ i + 1 \in 1 .. Len(q) /\ (r[i] = q[i] \/ r[i] = q[i + 1])
    BY <1>1, <1>2
  <2>3. QED
    BY <2>1, <2>2 DEF Range
<1>5. Carried(r, V) = Carried(q, V)
  BY <1>3, <1>4 DEF Carried
<1>6. QED
  BY <1>5 DEF r

(* Frames stay well formed on their way. *)
LEMMA WellFormedQueues ==
    ASSUME NEW q \in Seq(Frame), NEW V, AllWellFormed(q, V)
    PROVE  /\ \A f \in Frame : WellFormed(f, V) => AllWellFormed(Append(q, f), V)
           /\ q # <<>> => WellFormed(Head(q), V) /\ AllWellFormed(Tail(q), V)
           /\ \A k \in DeltasIn(q) : AllWellFormed(Without(q, k), V)
<1>1. ASSUME NEW f \in Frame, WellFormed(f, V)
      PROVE  AllWellFormed(Append(q, f), V)
  <2>1. /\ Len(Append(q, f)) = Len(q) + 1
        /\ \A i \in 1 .. Len(q) + 1 : Append(q, f)[i] = IF i <= Len(q) THEN q[i] ELSE f
    OBVIOUS
  <2>2. QED
    BY <1>1, <2>1 DEF AllWellFormed
<1>2. ASSUME q # <<>>
      PROVE  WellFormed(Head(q), V) /\ AllWellFormed(Tail(q), V)
  <2>1. /\ Len(Tail(q)) = Len(q) - 1 /\ Len(q) \in Nat /\ Len(q) >= 1 /\ Head(q) = q[1]
        /\ \A i \in 1 .. Len(q) - 1 : Tail(q)[i] = q[i + 1]
    BY <1>2
  <2>2. QED
    BY <2>1 DEF AllWellFormed
<1>3. ASSUME NEW k \in DeltasIn(q)
      PROVE  AllWellFormed(Without(q, k), V)
  <2>1. k \in 1 .. Len(q) /\ Len(q) \in Nat /\ Len(Without(q, k)) = Len(q) - 1
    BY DEF DeltasIn, Without
  <2>2. \A i \in 1 .. Len(q) - 1 :
            Without(q, k)[i] = IF i < k THEN q[i] ELSE q[i + 1]
    BY <2>1 DEF Without
  <2>3. QED
    BY <2>1, <2>2 DEF AllWellFormed
<1>4. QED
  BY <1>1, <1>2, <1>3

(* A frame that no envelope has to wait for. *)
LEMMA Unnumbered ==
    ASSUME NEW f \in Frame, f.seq = NoSeq, NEW s \in Nat
    PROVE  ~Precedes(s, f) /\ First(s) # f
  BY DEF Precedes, First, Durable, NoSeq

(* The first frame of an envelope is a frame, and names it. *)
LEMMA FirstFrame ==
    ASSUME NEW f \in Frame, f.type = "durable", f.part = 1
    PROVE  f = First(f.seq)
  BY DEF First, Durable, Frame

-----------------------------------------------------------------------------
(* The steps of the system *)

LEMMA VisibleSeqs ==
    ASSUME TypeOK
    PROVE  Visible \subseteq Nat /\ \A s \in Visible : s < Len(log) /\ log[s + 1] > 0
  BY DEF TypeOK, Visible

(* A step after which no response is open: it never opened one, or hung up *)
(* on it.  What the browser has received stays, or is dropped with it.     *)
LEMMA ClosedStep ==
    ASSUME IInv, log' = log, lastSeq' = lastSeq, transcript' = transcript,
           wire' = wire \/ wire' = <<>>,
           pending' = pending \/ (pending' = <<>> /\ wire' = <<>>),
           loopq' = <<>>, inbox' = <<>>,
           ~Subscribed', InvShape'
    PROVE  Flow'
<1>1. Visible' = Visible
  BY DEF Visible
<1>2. NoGap'
  BY <1>1 DEF NoGap, IInv, Flow
<1>3. AllWellFormed(<<>>, Visible)
  BY DEF AllWellFormed
<1>4. InvFrames'
  BY <1>1, <1>3 DEF InvFrames, IInv, Flow
<1>5. Applied' = Applied
  BY <1>1 DEF Applied
<1>6. InvPending'
  BY <1>1, <1>5, OrderedEmpty DEF InvPending, IInv, Flow
<1>7. InvWire'
  <2>1. CASE wire' = <<>>
    BY <2>1, OrderedEmpty DEF InvWire
  <2>2. CASE wire' = wire /\ pending' = pending
    <3>1. Received' = Received
      BY <1>1, <1>5, <2>2 DEF Received
    <3>2. QED
      BY <1>1, <2>2, <3>1 DEF InvWire, IInv, Flow
  <2>3. QED
    BY <2>1, <2>2
<1>8. pc' \notin {"opening", "replay"}
  BY DEF Subscribed
<1>9. InvCursor' /\ InvReplay' /\ InvFull' /\ InvInbox' /\ InvLoop' /\ InvFanned'
  BY <1>8 DEF InvCursor, InvReplay, InvFull, InvInbox, InvLoop, InvFanned
<1>10. QED
  BY <1>2, <1>4, <1>6, <1>7, <1>9 DEF Flow

(* Moving on inside an open response, with nothing read or written. *)
LEMMA MoveStep ==
    ASSUME IInv, UNCHANGED <<logVars, hubVars, since, cursor, replay, clientVars, wire>>,
           Subscribed, pc' \in {"check", "next"}, Held \subseteq Held',
           pc = "check" => ~overflowed, pc' = "next" => ~overflowed
    PROVE  Flow'
<1>1. /\ log' = log /\ hook' = hook /\ bound' = bound /\ loopq' = loopq
      /\ inbox' = inbox /\ overflowed' = overflowed /\ since' = since
      /\ cursor' = cursor /\ replay' = replay /\ pending' = pending
      /\ mounted' = mounted /\ lastSeq' = lastSeq /\ transcript' = transcript
      /\ wire' = wire
  BY DEF logVars, hubVars, clientVars
<1>2. Visible' = Visible
  BY <1>1 DEF Visible
<1>3. Subscribed'
  BY DEF Subscribed
<1>4. Applied' = Applied /\ Received' = Received /\ Sent' = Sent
  BY <1>1, <1>2 DEF Applied, Received, Sent
<1>5. NoGap'
  BY <1>1, <1>2 DEF NoGap, IInv, Flow
<1>6. InvShape'
  <2>1. InvShape
    BY DEF IInv, Flow
  <2>2. pc # "off" /\ pc' \notin {"off", "requested"}
    BY DEF Subscribed
  <2>3. QED
    BY <1>1, <1>3, <2>1, <2>2 DEF InvShape
<1>7. InvFrames'
  BY <1>1, <1>2 DEF InvFrames, IInv, Flow
<1>8. InvPending' /\ InvWire'
  BY <1>1, <1>2, <1>4 DEF InvPending, InvWire, IInv, Flow
<1>9. InvCursor'
  <2>1. Written' = Written
    BY <1>1, <1>2 DEF Written
  <2>2. QED
    BY <1>4, <2>1 DEF InvCursor, IInv, Flow
<1>10. InvReplay'
  BY DEF InvReplay
<1>11. InvFull'
  BY <1>1 DEF InvFull
<1>12. InvInbox'
  <2>1. ~(overflowed' /\ pc' = "check") => Ordered(inbox, Visible, Held)
    BY <1>1 DEF InvInbox, IInv, Flow
  <2>2. QED
    BY <1>1, <1>2, <2>1, OrderedMore DEF InvInbox
<1>13. Offered \subseteq Offered'
  BY <1>1, <1>2 DEF Offered
<1>14. InvLoop'
  <2>1. ~overflowed => Ordered(loopq, Visible, Offered)
    BY DEF InvLoop, IInv, Flow
  <2>2. QED
    BY <1>1, <1>2, <1>13, <2>1, OrderedMore DEF InvLoop
<1>15. InvFanned'
  <2>1. FannedOut' = FannedOut
    BY <1>1, <1>2 DEF FannedOut
  <2>2. QED
    BY <1>1, <1>2, <1>13, <2>1 DEF InvFanned, IInv, Flow
<1>16. QED
  BY <1>5, <1>6, <1>7, <1>8, <1>9, <1>10, <1>11, <1>12, <1>14, <1>15 DEF Flow

(* Commit: the newest envelope precedes no frame there is. *)
LEMMA CommitStep ==
    ASSUME Sequential, IInv, TypeOK', Commit(Seeder)
    PROVE  Flow'
<1>1. /\ bound' = bound /\ loopq' = loopq
      /\ inbox' = inbox /\ overflowed' = overflowed /\ since' = since
      /\ cursor' = cursor /\ replay' = replay /\ pending' = pending /\ pc' = pc
      /\ mounted' = mounted /\ lastSeq' = lastSeq /\ transcript' = transcript
      /\ wire' = wire
  BY DEF Commit, hubVars, streamVars, clientVars
<1>2. TypeOK
  BY DEF IInv
<1>3. /\ Len(log') = Len(log) + 1 /\ Len(log) \in Nat
      /\ \A i \in 1 .. Len(log) : log'[i] = log[i]
  <2>1. PICK w \in Widths : log' = Append(log, w)
    BY DEF Commit
  <2>2. log \in Seq(Nat)
    BY <1>2 DEF TypeOK
  <2>3. QED
    BY <2>1, <2>2
<1>4. Visible \subseteq Visible' /\ Visible' \subseteq Visible \cup {Len(log)}
  BY <1>3 DEF Visible
<1>5. \A s \in Visible : s < Len(log) /\ s \in Nat
  BY <1>2, VisibleSeqs
<1>6. InvShape /\ InvFrames
  BY DEF IInv, Flow
<1>7. hook[Seeder] = NoHook /\ hook'[Seeder] = [seq |-> Len(log), part |-> 1]
  <2>1. hook \in [Committers -> [seq : Int, part : Nat]] /\ Seeder \in Committers
    BY <1>2, ConstantsAssumption DEF TypeOK
  <2>2. QED
    BY <2>1 DEF Commit
<1>8. NoGap'
  BY <1>1, <1>4, <1>6 DEF NoGap, InvShape, IInv, Flow, TypeOK
<1>9. InvShape'
  <2>1. /\ bound' /\ hook'[Seeder].seq = Len(log') - 1 /\ hook'[Seeder].part >= 1
        /\ Len(log') > 0
    BY <1>1, <1>3, <1>6, <1>7 DEF InvShape
  <2>2. lastSeq' < Len(log') /\ cursor' < Len(log')
    <3>1. lastSeq \in Int /\ cursor \in Int
      BY <1>2 DEF TypeOK
    <3>2. lastSeq < Len(log) /\ cursor < Len(log)
      BY <1>6 DEF InvShape
    <3>3. QED
      BY <1>1, <1>3, <3>1, <3>2
  <2>3. Subscribed' = Subscribed
    BY <1>1 DEF Subscribed
  <2>4. QED
    BY <1>1, <1>6, <2>1, <2>2, <2>3 DEF InvShape
<1>10. InvFrames'
  BY <1>1, <1>4, <1>6 DEF InvFrames, AllWellFormed, WellFormed
<1>11. ASSUME NEW f \in Frame, WellFormed(f, Visible), NEW s \in Visible', Precedes(s, f)
       PROVE  s \in Visible
  BY <1>3, <1>4, <1>5, <1>11 DEF WellFormed, Precedes, NoSeq, Frame
<1>12. ASSUME NEW q \in Seq(Frame), AllWellFormed(q, Visible), NEW D, NEW E,
              Ordered(q, Visible, D), D \cap Visible \subseteq E
       PROVE  Ordered(q, Visible', E)
  <2>1. \A i \in 1 .. Len(q) : q[i] \in Frame /\ WellFormed(q[i], Visible)
    BY <1>12 DEF AllWellFormed
  <2>2. \A i \in 1 .. Len(q), s \in Visible' : Precedes(s, q[i]) => s \in Visible
    BY <1>11, <2>1
  <2>3. QED
    BY <1>12, <2>2, OrderedGrow
<1>13. /\ loopq \in Seq(Frame) /\ inbox \in Seq(Frame) /\ wire \in Seq(Frame)
       /\ pending \in Seq(Frame)
  BY <1>2 DEF TypeOK
<1>14. /\ Applied \subseteq Applied' /\ Received \subseteq Received'
       /\ Held \subseteq Held' /\ Offered \subseteq Offered'
       /\ Carried(loopq, Visible) \subseteq Carried(loopq', Visible')
  BY <1>1, <1>4 DEF Applied, Received, Held, Offered, Carried
<1>15. Sent \subseteq Sent'
  BY <1>1, <1>4, <1>14 DEF Sent, Carried
<1>16. InvPending' /\ InvWire'
  <2>1. Ordered(pending, Visible, Applied) /\ Ordered(wire, Visible, Received)
    BY DEF InvPending, InvWire, IInv, Flow
  <2>2. Ordered(pending, Visible', Applied') /\ Ordered(wire, Visible', Received')
    BY <1>6, <1>12, <1>13, <1>14, <2>1 DEF InvFrames
  <2>3. QED
    BY <1>1, <2>2 DEF InvPending, InvWire
<1>17. Subscribed' = Subscribed
  BY <1>1 DEF Subscribed
<1>18. InvCursor'
  <2>1. Written' = Written
    <3>1. cursor < Len(log) /\ cursor \in Int
      BY <1>2, <1>6 DEF InvShape, TypeOK
    <3>2. QED
      BY <1>1, <1>3, <1>4, <3>1 DEF Written
  <2>2. QED
    BY <1>15, <1>17, <2>1 DEF InvCursor, IInv, Flow
<1>19. InvReplay'
  <2>1. InvReplay /\ replay.seq \in Nat /\ replay.end \in Nat
    BY <1>2 DEF IInv, Flow, TypeOK
  <2>2. QED
    BY <1>1, <1>3, <1>4, <2>1 DEF InvReplay
<1>20. InvFull'
  BY <1>1, <1>17 DEF InvFull, IInv, Flow
<1>21. InvInbox'
  <2>1. Subscribed /\ ~(overflowed /\ pc = "check") => Ordered(inbox, Visible, Held)
    BY DEF InvInbox, IInv, Flow
  <2>2. Ordered(inbox, Visible, Held) => Ordered(inbox, Visible', Held')
    BY <1>6, <1>12, <1>13, <1>14 DEF InvFrames
  <2>3. QED
    BY <1>1, <1>17, <2>1, <2>2 DEF InvInbox
<1>22. InvLoop'
  <2>1. Subscribed /\ ~overflowed => Ordered(loopq, Visible, Offered)
    BY DEF InvLoop, IInv, Flow
  <2>2. Ordered(loopq, Visible, Offered) => Ordered(loopq, Visible', Offered')
    BY <1>6, <1>12, <1>13, <1>14 DEF InvFrames
  <2>3. QED
    BY <1>1, <1>17, <2>1, <2>2 DEF InvLoop
<1>23. InvFanned'
  <2>1. FannedOut' \subseteq FannedOut
    <3>1. FannedOut = Visible
      BY <1>7 DEF FannedOut
    <3>2. hook'[Seeder] # NoHook /\ hook'[Seeder].seq = Len(log) /\ hook'[Seeder].part = 1
      BY <1>3, <1>7 DEF NoHook, NoSeq
    <3>3. ASSUME NEW s \in FannedOut' PROVE s \in Visible
      <4>1. s \in Visible' /\ s < Len(log)
        BY <3>2, <3>3 DEF FannedOut
      <4>2. QED
        BY <1>3, <1>4, <4>1
    <3>4. QED
      BY <3>1, <3>3
  <2>2. QED
    BY <1>1, <1>14, <1>17, <2>1 DEF InvFanned, IInv, Flow
<1>24. QED
  BY <1>8, <1>9, <1>10, <1>16, <1>18, <1>19, <1>20, <1>21, <1>22, <1>23 DEF Flow

(* A frame without a seq joins the event loop's queue. *)
LEMMA UnnumberedStep ==
    ASSUME IInv, NEW f \in Frame, f.seq = NoSeq, Schedule(f),
           UNCHANGED <<logVars, inbox, overflowed, streamVars, clientVars, wire>>
    PROVE  Flow'
<1>1. /\ log' = log /\ hook' = hook /\ bound' = bound
      /\ inbox' = inbox /\ overflowed' = overflowed /\ since' = since
      /\ cursor' = cursor /\ replay' = replay /\ pending' = pending /\ pc' = pc
      /\ mounted' = mounted /\ lastSeq' = lastSeq /\ transcript' = transcript
      /\ wire' = wire
  BY DEF logVars, streamVars, clientVars
<1>2. TypeOK /\ loopq \in Seq(Frame)
  BY DEF IInv, TypeOK
<1>3. Visible' = Visible /\ Subscribed' = Subscribed
  BY <1>1 DEF Visible, Subscribed
<1>4. /\ Applied' = Applied /\ Received' = Received /\ Sent' = Sent
      /\ Held' = Held /\ Offered' = Offered /\ Written' = Written
      /\ FannedOut' = FannedOut
  BY <1>1, <1>3 DEF Applied, Received, Sent, Held, Offered, Written, FannedOut
<1>5. loopq' = IF Subscribed THEN Append(loopq, f) ELSE loopq
  BY DEF Schedule
<1>6. \A s \in Visible : ~Precedes(s, f) /\ First(s) # f
  BY <1>2, VisibleSeqs, Unnumbered
<1>7. NoGap' /\ InvPending' /\ InvWire' /\ InvCursor' /\ InvReplay' /\ InvFull' /\ InvInbox'
  <2>1. NoGap'
    BY <1>1, <1>3 DEF NoGap, IInv, Flow
  <2>2. InvPending' /\ InvWire' /\ InvCursor' /\ InvInbox'
    BY <1>1, <1>3, <1>4 DEF InvPending, InvWire, InvCursor, InvInbox, IInv, Flow
  <2>3. InvReplay'
    BY <1>1, <1>3 DEF InvReplay, IInv, Flow
  <2>4. InvFull'
    BY <1>1, <1>3 DEF InvFull, IInv, Flow
  <2>5. QED
    BY <2>1, <2>2, <2>3, <2>4
<1>8. InvShape'
  BY <1>1, <1>3, <1>5 DEF InvShape, IInv, Flow
<1>9. InvFrames'
  <2>1. WellFormed(f, Visible) /\ InvFrames
    BY DEF WellFormed, IInv, Flow
  <2>2. AllWellFormed(loopq', Visible)
    BY <1>2, <1>5, <2>1, WellFormedQueues DEF InvFrames
  <2>3. QED
    BY <1>1, <1>3, <2>1, <2>2 DEF InvFrames
<1>10. InvLoop'
  <2>1. Subscribed /\ ~overflowed => Ordered(loopq, Visible, Offered)
    BY DEF InvLoop, IInv, Flow
  <2>2. Ordered(loopq, Visible, Offered) => Ordered(Append(loopq, f), Visible, Offered)
    BY <1>2, <1>6, OrderedAppend
  <2>3. QED
    BY <1>1, <1>3, <1>4, <1>5, <2>1, <2>2 DEF InvLoop
<1>11. InvFanned'
  <2>1. Carried(loopq, Visible) \subseteq Carried(Append(loopq, f), Visible)
    BY <1>2, CarriedAppend
  <2>2. QED
    BY <1>1, <1>3, <1>4, <1>5, <2>1 DEF InvFanned, IInv, Flow
<1>12. QED
  BY <1>7, <1>8, <1>9, <1>10, <1>11 DEF Flow

(* Ingest: the frame the hook fans out comes after what it fanned out. *)
LEMMA IngestStep ==
    ASSUME Sequential, IInv, TypeOK', Ingest(Seeder)
    PROVE  Flow'
<1>1. /\ log' = log /\ bound' = bound
      /\ inbox' = inbox /\ overflowed' = overflowed /\ since' = since
      /\ cursor' = cursor /\ replay' = replay /\ pending' = pending /\ pc' = pc
      /\ mounted' = mounted /\ lastSeq' = lastSeq /\ transcript' = transcript
      /\ wire' = wire
  BY DEF Ingest, streamVars, clientVars
<1>2. TypeOK /\ loopq \in Seq(Frame)
  BY DEF IInv, TypeOK
<1>3. Visible' = Visible /\ Subscribed' = Subscribed
  BY <1>1 DEF Visible, Subscribed
<1>4. /\ Applied' = Applied /\ Received' = Received /\ Sent' = Sent
      /\ Held' = Held /\ Offered' = Offered /\ Written' = Written
  BY <1>1, <1>3 DEF Applied, Received, Sent, Held, Offered, Written
<1> DEFINE h == hook[Seeder]
           f == Durable(h.seq, h.part)
<1>5. h.seq = Len(log) - 1 /\ h.part \in Nat /\ h.part >= 1 /\ h # NoHook /\ h.seq \in Int
  <2>1. hook \in [Committers -> [seq : Int, part : Nat]] /\ Seeder \in Committers
    BY <1>2, ConstantsAssumption DEF TypeOK
  <2>2. h \in [seq : Int, part : Nat]
    BY <2>1
  <2>3. h # NoHook
    BY DEF Ingest
  <2>4. QED
    BY <2>2, <2>3 DEF InvShape, IInv, Flow
<1>6. /\ f \in Frame /\ f.seq = h.seq /\ f.part = h.part /\ f.type = "durable"
      /\ h.part = 1 => f = First(h.seq)
  BY <1>5, FrameTypes DEF Durable, First
<1>7. \A s \in Visible : s \in Nat /\ s <= h.seq /\ log[s + 1] > 0
  <2>1. log \in Seq(Nat)
    BY <1>2 DEF TypeOK
  <2>2. QED
    BY <1>2, <1>5, <2>1, VisibleSeqs
<1>8. FannedOut = {s \in Visible : s < h.seq \/ h.part > 1}
  BY <1>5 DEF FannedOut
<1> HIDE DEF f
<1>9. NoGap' /\ InvPending' /\ InvWire' /\ InvCursor' /\ InvReplay' /\ InvFull' /\ InvInbox'
  <2>1. NoGap'
    BY <1>1, <1>3 DEF NoGap, IInv, Flow
  <2>2. InvPending' /\ InvWire' /\ InvCursor' /\ InvInbox'
    BY <1>1, <1>3, <1>4 DEF InvPending, InvWire, InvCursor, InvInbox, IInv, Flow
  <2>3. InvReplay'
    BY <1>1, <1>3 DEF InvReplay, IInv, Flow
  <2>4. InvFull'
    BY <1>1, <1>3 DEF InvFull, IInv, Flow
  <2>5. QED
    BY <2>1, <2>2, <2>3, <2>4
<1>10. InvFanned /\ InvLoop /\ InvShape /\ InvFrames
  BY DEF IInv, Flow
<1>11. hook \in [Committers -> [seq : Int, part : Nat]] /\ Seeder \in Committers
  BY <1>2, ConstantsAssumption DEF TypeOK
<1>12. CASE h.part <= log[h.seq + 1]
  <2>1. hook'[Seeder] = [seq |-> h.seq, part |-> h.part + 1]
    BY <1>11, <1>12 DEF Ingest
  <2>2. loopq' = IF Subscribed THEN Append(loopq, f) ELSE loopq
    BY <1>12 DEF Ingest, Schedule, f
  <2>3. InvShape'
    BY <1>1, <1>3, <1>5, <1>10, <2>1, <2>2 DEF InvShape
  <2>4. h.seq \in Visible
    <3>1. log \in Seq(Nat) /\ Len(log) \in Nat
      BY <1>2 DEF TypeOK
    <3>2. Len(log) > 0
      BY <1>5, <1>10 DEF InvShape
    <3>3. log[h.seq + 1] \in Nat
      BY <1>5, <3>1, <3>2
    <3>4. QED
      BY <1>5, <1>12, <3>1, <3>2, <3>3 DEF Visible
  <2>5. InvFrames'
    <3>1. WellFormed(f, Visible)
      BY <1>6, <2>4 DEF WellFormed
    <3>2. AllWellFormed(loopq', Visible)
      BY <1>2, <1>6, <1>10, <2>2, <3>1, WellFormedQueues DEF InvFrames
    <3>3. QED
      BY <1>1, <1>3, <1>10, <3>2 DEF InvFrames
  <2>6. InvLoop'
    <3>1. SUFFICES ASSUME Subscribed, ~overflowed
                   PROVE  Ordered(Append(loopq, f), Visible, Offered)
      BY <1>1, <1>3, <1>4, <2>2 DEF InvLoop
    <3>2. ASSUME NEW s \in Visible, Precedes(s, f)
          PROVE  s \in Offered \cup Carried(loopq, Visible)
      <4>1. s \in FannedOut
        BY <1>5, <1>6, <1>7, <1>8, <3>2 DEF Precedes
      <4>2. QED
        BY <1>10, <3>1, <4>1 DEF InvFanned
    <3>3. QED
      BY <1>2, <1>6, <1>10, <3>1, <3>2, OrderedAppend DEF InvLoop
  <2>7. InvFanned'
    <3>1. SUFFICES ASSUME Subscribed, ~overflowed, NEW s \in FannedOut'
                   PROVE  s \in Offered \cup Carried(Append(loopq, f), Visible)
      BY <1>1, <1>3, <1>4, <2>2 DEF InvFanned
    <3>2. s \in Visible
      BY <1>3, <3>1 DEF FannedOut
    <3>3. Carried(Append(loopq, f), Visible)
            = Carried(loopq, Visible) \cup {t \in Visible : First(t) = f}
      BY <1>2, <1>6, CarriedAppend
    <3>4. CASE s \in FannedOut
      BY <1>10, <3>1, <3>3, <3>4 DEF InvFanned
    <3>5. CASE s \notin FannedOut
      <4>1. s = h.seq /\ h.part = 1
        BY <1>5, <1>7, <1>8, <3>2, <3>5
      <4>2. QED
        BY <1>6, <3>2, <3>3, <4>1
    <3>6. QED
      BY <3>4, <3>5
  <2>8. QED
    BY <1>9, <2>3, <2>5, <2>6, <2>7 DEF Flow
<1>13. CASE ~(h.part <= log[h.seq + 1])
  <2>1. hook'[Seeder] = NoHook /\ loopq' = loopq
    BY <1>11, <1>13 DEF Ingest
  <2>2. InvShape'
    BY <1>1, <1>3, <1>10, <2>1 DEF InvShape
  <2>3. InvFrames' /\ InvLoop'
    BY <1>1, <1>3, <1>4, <1>10, <2>1 DEF InvFrames, InvLoop
  <2>4. Visible \subseteq FannedOut
    <3>1. ASSUME NEW s \in Visible, s = h.seq PROVE h.part > 1
      <4>1. log[s + 1] \in Nat
        <5>1. log \in Seq(Nat) /\ s + 1 \in 1 .. Len(log)
          BY <1>2 DEF TypeOK, Visible
        <5>2. QED
          BY <5>1
      <4>2. QED
        BY <1>5, <1>7, <1>13, <3>1, <4>1
    <3>2. QED
      BY <1>5, <1>7, <1>8, <3>1
  <2>5. InvFanned'
    <3>1. FannedOut' \subseteq Visible
      BY <1>3 DEF FannedOut
    <3>2. QED
      BY <1>1, <1>3, <1>4, <1>10, <2>1, <2>4, <3>1 DEF InvFanned
  <2>6. QED
    BY <1>9, <2>2, <2>3, <2>5 DEF Flow
<1>14. QED
  BY <1>12, <1>13

(* Receive: what precedes the head of the wire has been received. *)
LEMMA ReceiveStep ==
    ASSUME IInv, TypeOK', Receive
    PROVE  Flow'
<1>1. /\ log' = log /\ hook' = hook /\ bound' = bound /\ loopq' = loopq
      /\ inbox' = inbox /\ overflowed' = overflowed /\ since' = since
      /\ cursor' = cursor /\ replay' = replay /\ pc' = pc
      /\ mounted' = mounted /\ lastSeq' = lastSeq /\ transcript' = transcript
  BY DEF Receive, logVars, hubVars, streamVars
<1>2. /\ wire # <<>> /\ wire' = Tail(wire) /\ pending' = Append(pending, Head(wire))
  BY DEF Receive
<1>3. TypeOK /\ wire \in Seq(Frame) /\ pending \in Seq(Frame) /\ Head(wire) \in Frame
  <2>1. wire \in Seq(Frame) /\ pending \in Seq(Frame) /\ TypeOK
    BY DEF IInv, TypeOK
  <2>2. QED
    BY <1>2, <2>1
<1>4. Visible' = Visible /\ Subscribed' = Subscribed
  BY <1>1 DEF Visible, Subscribed
<1>5. /\ Applied' = Applied /\ Held' = Held /\ Offered' = Offered /\ Written' = Written
      /\ FannedOut' = FannedOut
  BY <1>1, <1>4 DEF Applied, Held, Offered, Written, FannedOut
<1>6. InvShape /\ InvFrames /\ InvPending /\ InvWire /\ InvCursor
  BY DEF IInv, Flow
<1> DEFINE moved == {s \in Visible : First(s) = Head(wire)}
<1>7. /\ Carried(pending', Visible) = Carried(pending, Visible) \cup moved
      /\ Carried(wire, Visible) = Carried(wire', Visible) \cup moved
  BY <1>2, <1>3, CarriedAppend, CarriedTail
<1>8. Received' = Received \cup moved /\ Sent \subseteq Sent'
  <2>1. Received' = Received \cup moved
    BY <1>4, <1>5, <1>7 DEF Received
  <2>2. QED
    BY <1>4, <1>7, <2>1 DEF Sent
<1>9. NoGap' /\ InvReplay' /\ InvFull' /\ InvInbox' /\ InvLoop' /\ InvFanned'
  <2>1. NoGap'
    BY <1>1, <1>4 DEF NoGap, IInv, Flow
  <2>2. InvReplay' /\ InvFull'
    BY <1>1, <1>4 DEF InvReplay, InvFull, IInv, Flow
  <2>3. InvInbox' /\ InvLoop' /\ InvFanned'
    BY <1>1, <1>4, <1>5 DEF InvInbox, InvLoop, InvFanned, IInv, Flow
  <2>4. QED
    BY <2>1, <2>2, <2>3
<1>10. InvShape'
  BY <1>1, <1>2, <1>4, <1>6 DEF InvShape
<1>11. InvFrames'
  <2>1. WellFormed(Head(wire), Visible) /\ AllWellFormed(Tail(wire), Visible)
    BY <1>2, <1>3, <1>6, WellFormedQueues DEF InvFrames
  <2>2. AllWellFormed(Append(pending, Head(wire)), Visible)
    BY <1>3, <1>6, <2>1, WellFormedQueues DEF InvFrames
  <2>3. QED
    BY <1>1, <1>2, <1>4, <1>6, <2>1, <2>2 DEF InvFrames
<1>12. InvPending'
  <2>1. ASSUME NEW s \in Visible, Precedes(s, Head(wire))
        PROVE  s \in Applied \cup Carried(pending, Visible)
    BY <1>2, <1>3, <1>6, <2>1, OrderedHead DEF InvWire, Received
  <2>2. Ordered(Append(pending, Head(wire)), Visible, Applied)
    BY <1>3, <1>6, <2>1, OrderedAppend DEF InvPending
  <2>3. QED
    BY <1>2, <1>4, <1>5, <2>2 DEF InvPending
<1>13. InvWire'
  <2>1. Ordered(Tail(wire), Visible, Received')
    BY <1>2, <1>3, <1>6, <1>8, OrderedTail DEF InvWire
  <2>2. QED
    BY <1>2, <1>4, <2>1 DEF InvWire
<1>14. InvCursor'
  BY <1>4, <1>5, <1>6, <1>8 DEF InvCursor
<1>15. QED
  BY <1>9, <1>10, <1>11, <1>12, <1>13, <1>14 DEF Flow

(* FoldEvent: everything before the applied frame has been applied. *)
LEMMA FoldStep ==
    ASSUME IInv, TypeOK', FoldEvent
    PROVE  Flow'
<1>1. /\ log' = log /\ hook' = hook /\ bound' = bound /\ loopq' = loopq
      /\ inbox' = inbox /\ overflowed' = overflowed /\ since' = since
      /\ cursor' = cursor /\ replay' = replay /\ pc' = pc
      /\ mounted' = mounted /\ wire' = wire
  BY DEF FoldEvent, logVars, hubVars, streamVars
<1> DEFINE f == Head(pending)
<1>2. pending # <<>> /\ pending' = Tail(pending) /\ mounted
  BY DEF FoldEvent
<1>3. \/ f.seq # NoSeq /\ f.seq > lastSeq /\ lastSeq' = f.seq /\ transcript' = Append(transcript, f)
      \/ ~(f.seq # NoSeq /\ f.seq > lastSeq) /\ lastSeq' = lastSeq /\ transcript' = transcript
  BY DEF FoldEvent
<1>4. /\ TypeOK /\ pending \in Seq(Frame) /\ transcript \in Seq(Frame) /\ lastSeq \in Int
      /\ wire \in Seq(Frame) /\ since \in Int
  BY DEF IInv, TypeOK
<1>5. f \in Frame /\ f.seq \in Int
  <2>1. f \in Frame
    BY <1>2, <1>4
  <2>2. QED
    BY <2>1 DEF Frame
<1>6. Visible' = Visible /\ Subscribed' = Subscribed
  BY <1>1 DEF Visible, Subscribed
<1>7. \A s \in Visible : s \in Nat /\ s < Len(log)
  BY <1>4, VisibleSeqs
<1>8. /\ Held' = Held /\ Offered' = Offered /\ Written' = Written
      /\ FannedOut' = FannedOut
  BY <1>1, <1>6 DEF Held, Offered, Written, FannedOut
<1>9. InvShape /\ InvFrames /\ InvPending /\ InvWire /\ InvCursor /\ NoGap
  BY DEF IInv, Flow
<1>10. WellFormed(f, Visible) /\ AllWellFormed(Tail(pending), Visible)
  BY <1>2, <1>4, <1>9, WellFormedQueues DEF InvFrames
<1>11. \A s \in Visible : Precedes(s, f) => s <= lastSeq
  BY <1>2, <1>4, <1>9, OrderedHead DEF InvPending, Applied
<1> HIDE DEF f
<1>12. \A s \in Visible : First(s) = f => s <= lastSeq'
  <2>1. ASSUME NEW s \in Visible, First(s) = f PROVE s <= lastSeq'
    <3>1. f.seq = s /\ s # NoSeq
      BY <1>7, <2>1 DEF First, Durable, NoSeq
    <3>2. QED
      BY <1>3, <1>4, <1>7, <3>1
  <2>2. QED
    BY <2>1
<1>13. lastSeq <= lastSeq' /\ lastSeq' \in Int /\ lastSeq' < Len(log)
  <2>1. lastSeq < Len(log)
    BY <1>9 DEF InvShape
  <2>2. CASE f.seq # NoSeq /\ f.seq > lastSeq /\ lastSeq' = f.seq
    <3>1. f.seq \in Visible
      BY <1>10, <2>2 DEF WellFormed
    <3>2. QED
      BY <1>4, <1>5, <1>7, <2>2, <3>1
  <2>3. CASE lastSeq' = lastSeq
    BY <1>4, <2>1, <2>3
  <2>4. QED
    BY <1>3, <2>2, <2>3
<1>14. Applied \subseteq Applied'
  BY <1>4, <1>6, <1>7, <1>13 DEF Applied
<1>15. NoGap'
  <2>1. CASE lastSeq' = lastSeq /\ transcript' = transcript
    BY <1>6, <1>9, <2>1 DEF NoGap
  <2>2. CASE /\ f.seq # NoSeq /\ f.seq > lastSeq /\ lastSeq' = f.seq
             /\ transcript' = Append(transcript, f)
    <3>1. f.seq \in Visible /\ f.type = "durable"
      BY <1>10, <2>2 DEF WellFormed
    <3>2. f = First(f.seq)
      <4>1. f.part = 1
        BY <1>4, <1>5, <1>11, <2>2, <3>1 DEF Precedes
      <4>2. QED
        BY <1>5, <3>1, <4>1, FirstFrame
    <3>3. SUFFICES ASSUME NEW s \in Visible, s <= f.seq
                   PROVE  First(s) \in Range(transcript')
      BY <1>6, <2>2 DEF NoGap, First
    <3>4. CASE s = f.seq
      <4>1. Carried(transcript', Visible)
              = Carried(transcript, Visible) \cup {t \in Visible : First(t) = f}
        BY <1>4, <1>5, <2>2, CarriedAppend
      <4>2. QED
        BY <3>2, <3>4, <4>1 DEF Carried
    <3>5. CASE s < f.seq
      <4>1. s <= lastSeq
        BY <1>11, <3>5 DEF Precedes
      <4>2. s \in Carried(transcript, Visible)
        BY <1>9, <4>1 DEF NoGap, Carried, First
      <4>3. Carried(transcript', Visible)
              = Carried(transcript, Visible) \cup {t \in Visible : First(t) = f}
        BY <1>4, <1>5, <2>2, CarriedAppend
      <4>4. QED
        BY <4>2, <4>3 DEF Carried
    <3>6. QED
      BY <1>5, <1>7, <3>3, <3>4, <3>5
  <2>3. QED
    BY <1>3, <2>1, <2>2
<1>16. InvShape'
  <2>1. since' <= lastSeq' \/ pc' = "off"
    BY <1>1, <1>4, <1>9, <1>13 DEF InvShape
  <2>2. QED
    BY <1>1, <1>2, <1>6, <1>9, <1>13, <2>1 DEF InvShape
<1>17. InvFrames'
  BY <1>1, <1>2, <1>6, <1>9, <1>10 DEF InvFrames
<1>18. InvPending'
  <2>1. \A s \in Visible : f = First(s) => s \in Applied'
    BY <1>6, <1>12 DEF Applied
  <2>2. Ordered(Tail(pending), Visible, Applied')
    BY <1>2, <1>4, <1>9, <1>14, <2>1, OrderedTail DEF InvPending, f
  <2>3. QED
    BY <1>2, <1>6, <2>2 DEF InvPending
<1>19. Received \subseteq Received'
  <2>1. Carried(pending, Visible) = Carried(pending', Visible) \cup {s \in Visible : First(s) = f}
    BY <1>2, <1>4, CarriedTail DEF f
  <2>2. QED
    BY <1>6, <1>12, <1>14, <2>1 DEF Received, Applied
<1>20. InvWire'
  <2>1. Ordered(wire, Visible, Received')
    BY <1>9, <1>19, OrderedMore DEF InvWire
  <2>2. QED
    BY <1>1, <1>6, <2>1 DEF InvWire
<1>21. InvCursor'
  <2>1. Sent \subseteq Sent'
    BY <1>1, <1>6, <1>19 DEF Sent
  <2>2. QED
    BY <1>6, <1>8, <1>9, <2>1 DEF InvCursor
<1>22. InvReplay' /\ InvFull'
  BY <1>1, <1>6 DEF InvReplay, InvFull, IInv, Flow
<1>23. InvInbox' /\ InvLoop' /\ InvFanned'
  BY <1>1, <1>6, <1>8 DEF InvInbox, InvLoop, InvFanned, IInv, Flow
<1>24. QED
  BY <1>15, <1>16, <1>17, <1>18, <1>20, <1>21, <1>22, <1>23 DEF Flow

(* Offer: a frame joins a queue with room, the place of an evicted delta,  *)
(* or nothing; and nothing joins a queue that has lost one.                *)
LEMMA OfferStep ==
    ASSUME IInv, TypeOK', Offer
    PROVE  Flow'
<1>1. /\ log' = log /\ hook' = hook /\ bound' = bound /\ pending' = pending
      /\ since' = since /\ cursor' = cursor /\ replay' = replay /\ pc' = pc
      /\ mounted' = mounted /\ wire' = wire /\ lastSeq' = lastSeq
      /\ transcript' = transcript
  BY DEF Offer, logVars, streamVars, clientVars
<1> DEFINE f == Head(loopq)
<1>2. Subscribed /\ loopq # <<>> /\ loopq' = Tail(loopq)
  BY DEF Offer
<1>3. TypeOK /\ loopq \in Seq(Frame) /\ inbox \in Seq(Frame)
  BY DEF IInv, TypeOK
<1>4. f \in Frame
  BY <1>2, <1>3
<1>5. Visible' = Visible /\ Subscribed'
  BY <1>1, <1>2 DEF Visible, Subscribed
<1>6. /\ Applied' = Applied /\ Received' = Received /\ Sent' = Sent
      /\ Held' = Held /\ Written' = Written /\ FannedOut' = FannedOut
  BY <1>1, <1>5 DEF Applied, Received, Sent, Held, Written, FannedOut
<1>7. InvFrames /\ InvFull /\ InvInbox /\ InvLoop /\ InvFanned
  BY DEF IInv, Flow
<1>8. WellFormed(f, Visible) /\ AllWellFormed(Tail(loopq), Visible)
  BY <1>2, <1>3, <1>7, WellFormedQueues DEF InvFrames
<1>9. NoGap' /\ InvPending' /\ InvWire' /\ InvCursor' /\ InvReplay'
  <2>1. NoGap' /\ InvReplay'
    BY <1>1, <1>5 DEF NoGap, InvReplay, IInv, Flow
  <2>2. InvPending' /\ InvWire' /\ InvCursor'
    BY <1>1, <1>2, <1>5, <1>6 DEF InvPending, InvWire, InvCursor, IInv, Flow
  <2>3. QED
    BY <2>1, <2>2
<1>10. InvShape'
  BY <1>1, <1>5 DEF InvShape, IInv, Flow
<1>11. Carried(loopq, Visible) = Carried(Tail(loopq), Visible) \cup {s \in Visible : First(s) = f}
  BY <1>2, <1>3, CarriedTail
<1>12. ~overflowed => \A s \in Visible : Precedes(s, f) => s \in Offered
  BY <1>2, <1>3, <1>7, OrderedHead DEF InvLoop
<1> HIDE DEF f
<1>13. ASSUME NEW q \in Seq(Frame), AllWellFormed(q, Visible), inbox' = Append(q, f),
              Carried(q, Visible) = Carried(inbox, Visible),
              Ordered(inbox, Visible, Held) => Ordered(q, Visible, Held),
              overflowed' = overflowed, overflowed => pc = "check"
       PROVE  Flow'
  <2>1. InvFrames'
    <3>1. AllWellFormed(Append(q, f), Visible)
      BY <1>4, <1>8, <1>13, WellFormedQueues
    <3>2. QED
      BY <1>1, <1>2, <1>5, <1>7, <1>8, <1>13, <3>1 DEF InvFrames
  <2>2. InvFull'
    BY <1>1, <1>13 DEF InvFull
  <2>3. Carried(inbox', Visible) = Carried(inbox, Visible) \cup {s \in Visible : First(s) = f}
    BY <1>4, <1>13, CarriedAppend
  <2>4. Offered' = Offered \cup {s \in Visible : First(s) = f}
    BY <1>5, <1>6, <2>3 DEF Offered
  <2>5. InvInbox'
    <3>1. SUFFICES ASSUME ~overflowed
                   PROVE  Ordered(Append(q, f), Visible, Held)
      BY <1>1, <1>5, <1>6, <1>13 DEF InvInbox
    <3>2. Ordered(q, Visible, Held)
      BY <1>2, <1>7, <1>13, <3>1 DEF InvInbox
    <3>3. \A s \in Visible : Precedes(s, f) => s \in Held \cup Carried(q, Visible)
      BY <1>12, <1>13, <3>1 DEF Offered
    <3>4. QED
      BY <1>4, <1>13, <3>2, <3>3, OrderedAppend
  <2>6. InvLoop'
    <3>1. SUFFICES ASSUME ~overflowed
                   PROVE  Ordered(Tail(loopq), Visible, Offered')
      BY <1>2, <1>5, <1>13 DEF InvLoop
    <3>2. Ordered(loopq, Visible, Offered)
      BY <1>2, <1>7, <3>1 DEF InvLoop
    <3>3. \A s \in Visible : Head(loopq) = First(s) => s \in Offered'
      BY <2>4 DEF f
    <3>4. QED
      BY <1>2, <1>3, <2>4, <3>2, <3>3, OrderedTail
  <2>7. InvFanned'
    BY <1>2, <1>5, <1>6, <1>7, <1>11, <1>13, <2>4 DEF InvFanned
  <2>8. QED
    BY <1>9, <1>10, <2>1, <2>2, <2>5, <2>6, <2>7 DEF Flow
<1>14. CASE Len(inbox) < QueueSize /\ inbox' = Append(inbox, f) /\ overflowed' = overflowed
  <2>1. overflowed => pc = "check"
    <3>1. Len(inbox) \in Nat /\ QueueSize \in Nat
      BY <1>3, ConstantsAssumption
    <3>2. QED
      BY <1>2, <1>7, <1>14, <3>1 DEF InvFull
  <2>2. QED
    BY <1>3, <1>7, <1>13, <1>14, <2>1 DEF InvFrames
<1>15. CASE /\ f.type # "delta" /\ overflowed' = overflowed
            /\ \E i \in DeltasIn(inbox) : inbox' = Append(Without(inbox, i), f)
  <2>1. PICK i \in DeltasIn(inbox) : inbox' = Append(Without(inbox, i), f)
    BY <1>15
  <2>2. overflowed => pc = "check"
    BY <1>2, <1>7, <2>1 DEF InvFull
  <2>3. Without(inbox, i) \in Seq(Frame)
    BY <1>3, <2>1, WithoutType DEF DeltasIn
  <2>4. AllWellFormed(Without(inbox, i), Visible)
    BY <1>3, <1>7, <2>1, WellFormedQueues DEF InvFrames
  <2>5. Carried(Without(inbox, i), Visible) = Carried(inbox, Visible)
    BY <1>3, <2>1, CarriedWithout
  <2>6. Ordered(inbox, Visible, Held) => Ordered(Without(inbox, i), Visible, Held)
    BY <1>3, <2>1, OrderedWithout
  <2>7. QED
    BY <1>13, <1>15, <2>1, <2>2, <2>3, <2>4, <2>5, <2>6
<1>16. CASE f.type = "delta" /\ inbox' = inbox /\ overflowed' = overflowed
  <2>1. InvFrames'
    BY <1>1, <1>2, <1>5, <1>7, <1>8, <1>16 DEF InvFrames
  <2>2. InvFull' /\ InvInbox'
    BY <1>1, <1>2, <1>5, <1>6, <1>7, <1>16 DEF InvFull, InvInbox
  <2>3. \A s \in Visible : First(s) # f
    BY <1>16 DEF First, Durable
  <2>4. Offered' = Offered
    BY <1>5, <1>6, <1>16 DEF Offered
  <2>5. InvLoop'
    <3>1. ~overflowed => Ordered(loopq, Visible, Offered)
      BY <1>2, <1>7 DEF InvLoop
    <3>2. ~overflowed => Ordered(Tail(loopq), Visible, Offered)
      BY <1>2, <1>3, <2>3, <3>1, OrderedTail DEF f
    <3>3. QED
      BY <1>2, <1>5, <1>16, <2>4, <3>2 DEF InvLoop
  <2>6. InvFanned'
    <3>1. Carried(Tail(loopq), Visible) = Carried(loopq, Visible)
      BY <1>11, <2>3
    <3>2. QED
      BY <1>2, <1>5, <1>6, <1>7, <1>16, <2>4, <3>1 DEF InvFanned
  <2>7. QED
    BY <1>9, <1>10, <2>1, <2>2, <2>5, <2>6 DEF Flow
<1>17. CASE /\ Len(inbox) >= QueueSize /\ DeltasIn(inbox) = {}
            /\ overflowed' = TRUE /\ inbox' = inbox
  <2>1. InvFrames'
    BY <1>1, <1>2, <1>5, <1>7, <1>8, <1>17 DEF InvFrames
  <2>2. InvFull'
    BY <1>17 DEF InvFull
  <2>3. InvInbox'
    <3>1. pc # "check" => Ordered(inbox, Visible, Held)
      BY <1>2, <1>7 DEF InvInbox
    <3>2. QED
      BY <1>1, <1>5, <1>6, <1>17, <3>1 DEF InvInbox
  <2>4. InvLoop' /\ InvFanned'
    BY <1>17 DEF InvLoop, InvFanned
  <2>5. QED
    BY <1>9, <1>10, <2>1, <2>2, <2>3, <2>4 DEF Flow
<1>18. QED
  BY <1>14, <1>15, <1>16, <1>17 DEF Offer, f

(* The response writes frame f: what precedes it has been written. *)
LEMMA YieldStep ==
    ASSUME IInv, TypeOK', NEW f \in Frame, WellFormed(f, Visible), Yield(f),
           Subscribed, pc' \notin {"off", "requested", "opening"}, log' = log,
           lastSeq' = lastSeq, transcript' = transcript, pending' = pending,
           \A s \in Visible : Precedes(s, f) => s <= cursor
    PROVE  /\ cursor <= cursor' /\ cursor' < Len(log)
           /\ AllWellFormed(wire', Visible)
           /\ InvPending' /\ InvWire' /\ NoGap' /\ Written' \subseteq Sent'
           /\ \A s \in Visible : First(s) = f => s <= cursor'
<1>1. /\ TypeOK /\ wire \in Seq(Frame) /\ cursor \in Int /\ f.seq \in Int
  BY DEF IInv, TypeOK, Frame
<1>2. Visible' = Visible
  BY DEF Visible
<1>3. \A s \in Visible : s \in Nat /\ s < Len(log)
  BY <1>1, VisibleSeqs
<1>4. Applied' = Applied /\ Received' = Received
  BY <1>2 DEF Applied, Received
<1>5. NoGap' /\ InvPending'
  BY <1>2, <1>4 DEF NoGap, InvPending, IInv, Flow
<1>6. InvCursor /\ InvWire /\ InvShape /\ InvFrames
  BY DEF IInv, Flow
<1>7. Written \subseteq Sent /\ cursor < Len(log)
  BY <1>6 DEF InvCursor, InvShape
<1>8. CASE ~Accepts(cursor, f)
  <2>1. wire' = wire /\ cursor' = cursor
    BY <1>8 DEF Yield
  <2>2. InvWire' /\ Written' = Written /\ Sent' = Sent
    BY <1>2, <1>4, <1>6, <2>1 DEF InvWire, Written, Sent
  <2>3. \A s \in Visible : First(s) = f => s <= cursor'
    BY <1>1, <1>3, <1>8, <2>1 DEF Accepts, First, Durable
  <2>4. QED
    BY <1>1, <1>5, <1>6, <1>7, <2>1, <2>2, <2>3 DEF InvFrames
<1>9. CASE Accepts(cursor, f)
  <2>1. wire' = Append(wire, f) /\ cursor' = Advance(cursor, f)
    BY <1>9 DEF Yield
  <2>2. cursor <= cursor' /\ cursor' < Len(log)
    BY <1>1, <1>3, <1>7, <1>9, <2>1 DEF Accepts, Advance, WellFormed
  <2>3. AllWellFormed(wire', Visible)
    BY <1>1, <1>6, <2>1, WellFormedQueues DEF InvFrames
  <2>4. ASSUME NEW s \in Visible, Precedes(s, f)
        PROVE  s \in Sent
    BY <1>7, <2>4 DEF Written
  <2>5. InvWire'
    <3>1. \A s \in Visible : Precedes(s, f) => s \in Received \cup Carried(wire, Visible)
      BY <2>4 DEF Sent
    <3>2. Ordered(Append(wire, f), Visible, Received)
      BY <1>1, <1>6, <3>1, OrderedAppend DEF InvWire
    <3>3. QED
      BY <1>2, <1>4, <2>1, <3>2 DEF InvWire
  <2>6. Carried(wire', Visible) = Carried(wire, Visible) \cup {s \in Visible : First(s) = f}
    BY <1>1, <2>1, CarriedAppend
  <2>7. Sent' = Sent \cup {s \in Visible : First(s) = f}
    BY <1>2, <1>4, <2>6 DEF Sent
  <2>8. ASSUME NEW s \in Visible, s <= cursor'
        PROVE  s \in Sent'
    <3>1. CASE s <= cursor
      BY <1>7, <2>7, <3>1 DEF Written
    <3>2. CASE ~(s <= cursor)
      <4>1. f.seq # NoSeq /\ cursor' = f.seq
        BY <2>1, <2>8, <3>2 DEF Advance
      <4>2. ~Precedes(s, f)
        BY <3>2
      <4>3. s = f.seq /\ f.part = 1
        BY <1>1, <1>3, <2>8, <4>1, <4>2 DEF Precedes
      <4>4. f = First(s)
        BY <4>1, <4>3, FirstFrame DEF WellFormed
      <4>5. QED
        BY <2>7, <4>4
    <3>3. QED
      BY <3>1, <3>2
  <2>9. Written' \subseteq Sent'
    BY <1>2, <2>8 DEF Written
  <2>10. \A s \in Visible : First(s) = f => s <= cursor'
    BY <1>3, <2>1 DEF First, Durable, Advance, NoSeq
  <2>11. QED
    BY <1>5, <2>2, <2>3, <2>5, <2>9, <2>10
<1>10. QED
  BY <1>8, <1>9

(* ReplayFrame: envelopes are replayed in the order of the log. *)
LEMMA ReplayFrameStep ==
    ASSUME IInv, TypeOK', ReplayFrame
    PROVE  Flow'
<1>1. /\ log' = log /\ hook' = hook /\ bound' = bound /\ loopq' = loopq
      /\ inbox' = inbox /\ overflowed' = overflowed /\ since' = since
      /\ pending' = pending /\ pc' = pc
      /\ mounted' = mounted /\ lastSeq' = lastSeq /\ transcript' = transcript
  BY DEF ReplayFrame, logVars, hubVars, clientVars
<1>2. pc = "replay" /\ replay.seq < replay.end
  BY DEF ReplayFrame
<1>3. /\ TypeOK /\ replay \in [seq : Nat, part : Nat, end : Nat]
      /\ replay.seq \in Nat /\ replay.part \in Nat /\ replay.end \in Nat
      /\ cursor \in Int /\ wire \in Seq(Frame) /\ log \in Seq(Nat) /\ Len(log) \in Nat
  <2>1. /\ TypeOK /\ replay \in [seq : Nat, part : Nat, end : Nat]
        /\ cursor \in Int /\ wire \in Seq(Frame) /\ log \in Seq(Nat)
    BY DEF IInv, TypeOK
  <2>2. QED
    BY <2>1
<1>4. Visible' = Visible /\ Subscribed' /\ Subscribed
  BY <1>1, <1>2 DEF Visible, Subscribed
<1>5. \A s \in Visible : s \in Nat /\ s < Len(log) /\ log[s + 1] > 0
  BY <1>3, VisibleSeqs
<1>6. InvShape /\ InvFrames /\ InvReplay
  BY DEF IInv, Flow
<1>7. /\ replay.end <= Len(log) /\ replay.part >= 1
      /\ replay.part > 1 => replay.seq <= cursor
      /\ \A s \in Visible : s < replay.seq => s <= cursor
  BY <1>2, <1>6 DEF InvReplay
<1> DEFINE f == Durable(replay.seq, replay.part)
<1>8. f \in Frame /\ f.seq = replay.seq /\ f.part = replay.part /\ f.type = "durable"
  BY <1>3, FrameTypes DEF Durable
<1> HIDE DEF f
<1>9. log[replay.seq + 1] \in Nat /\ (log[replay.seq + 1] > 0 => replay.seq \in Visible)
  <2>1. replay.seq + 1 \in 1 .. Len(log)
    BY <1>2, <1>3, <1>7
  <2>2. QED
    BY <1>3, <2>1 DEF Visible
<1>10. /\ cursor <= cursor' /\ cursor' < Len(log) /\ AllWellFormed(wire', Visible)
       /\ InvPending' /\ InvWire' /\ NoGap' /\ Written' \subseteq Sent'
  <2>1. CASE replay.part <= log[replay.seq + 1]
    <3>1. Yield(f)
      BY <2>1 DEF ReplayFrame, f
    <3>2. WellFormed(f, Visible)
      BY <1>3, <1>7, <1>8, <1>9, <2>1 DEF WellFormed
    <3>3. \A s \in Visible : Precedes(s, f) => s <= cursor
      BY <1>3, <1>5, <1>7, <1>8 DEF Precedes
    <3>4. pc' \notin {"off", "requested", "opening"}
      BY <1>1, <1>2
    <3>5. QED
      BY <1>1, <1>4, <1>8, <3>1, <3>2, <3>3, <3>4, YieldStep
  <2>2. CASE ~(replay.part <= log[replay.seq + 1])
    <3>1. wire' = wire /\ cursor' = cursor
      BY <2>2 DEF ReplayFrame
    <3>2. Applied' = Applied /\ Received' = Received /\ Sent' = Sent /\ Written' = Written
      BY <1>1, <1>4, <3>1 DEF Applied, Received, Sent, Written
    <3>3. NoGap' /\ InvPending' /\ InvWire'
      BY <1>1, <1>4, <3>1, <3>2 DEF NoGap, InvPending, InvWire, IInv, Flow
    <3>4. Written \subseteq Sent
      BY <1>4 DEF InvCursor, IInv, Flow
    <3>5. QED
      BY <1>3, <1>6, <3>1, <3>2, <3>3, <3>4 DEF InvShape, InvFrames
  <2>3. QED
    BY <2>1, <2>2
<1>11. InvReplay'
  <2>1. SUFFICES /\ replay'.end <= Len(log) /\ replay'.seq <= Len(log) /\ replay'.part >= 1
                 /\ replay'.part > 1 => replay'.seq < replay'.end /\ replay'.seq <= cursor'
                 /\ \A s \in Visible : s < replay'.seq => s <= cursor'
    BY <1>1, <1>2, <1>4 DEF InvReplay
  <2>2. CASE replay.part <= log[replay.seq + 1]
    <3>1. replay' = [replay EXCEPT !.part = @ + 1] /\ Yield(f)
      BY <2>2 DEF ReplayFrame, f
    <3>2. replay'.seq = replay.seq /\ replay'.end = replay.end /\ replay'.part = replay.part + 1
      BY <1>3, <3>1
    <3>3. replay.seq <= cursor'
      <4>1. CASE Accepts(cursor, f)
        BY <1>3, <1>8, <3>1, <4>1 DEF Yield, Advance, NoSeq
      <4>2. CASE ~Accepts(cursor, f)
        BY <1>3, <1>8, <3>1, <4>2 DEF Yield, Accepts
      <4>3. QED
        BY <4>1, <4>2
    <3>4. \A s \in Visible : s < replay.seq => s <= cursor'
      <4>1. cursor' \in Int
        BY DEF TypeOK
      <4>2. QED
        BY <1>3, <1>5, <3>3, <4>1
    <3>5. QED
      BY <1>2, <1>3, <1>7, <3>2, <3>3, <3>4
  <2>3. CASE ~(replay.part <= log[replay.seq + 1])
    <3>1. /\ replay' = [seq |-> replay.seq + 1, part |-> 1, end |-> replay.end]
          /\ cursor' = cursor
      BY <2>3 DEF ReplayFrame
    <3>2. ASSUME NEW s \in Visible, s < replay.seq + 1 PROVE s <= cursor
      <4>1. CASE s = replay.seq
        BY <1>3, <1>5, <1>7, <1>9, <2>3, <4>1
      <4>2. CASE s < replay.seq
        BY <1>7, <4>2
      <4>3. QED
        BY <1>3, <1>5, <3>2, <4>1, <4>2
    <3>3. QED
      BY <1>2, <1>3, <1>7, <3>1, <3>2
  <2>4. QED
    BY <2>2, <2>3
<1>12. replay'.end = replay.end /\ cursor' \in Int
  <2>1. \/ replay' = [replay EXCEPT !.part = @ + 1]
        \/ replay' = [seq |-> replay.seq + 1, part |-> 1, end |-> replay.end]
    BY DEF ReplayFrame
  <2>2. CASE replay' = [replay EXCEPT !.part = @ + 1]
    BY <1>3, <2>2 DEF TypeOK
  <2>3. CASE replay' = [seq |-> replay.seq + 1, part |-> 1, end |-> replay.end]
    BY <2>3 DEF TypeOK
  <2>4. QED
    BY <2>1, <2>2, <2>3
<1>13. Held \subseteq Held'
  <2>1. ASSUME NEW s \in Held PROVE s \in Held'
    <3>1. s \in Visible /\ s \in Nat /\ (s <= cursor \/ s < replay.end)
      BY <1>2, <1>5, <2>1 DEF Held
    <3>2. s <= cursor' \/ s < replay'.end
      BY <1>3, <1>10, <1>12, <3>1
    <3>3. QED
      BY <1>1, <1>2, <1>4, <3>1, <3>2 DEF Held
  <2>2. QED
    BY <2>1
<1>14. Offered \subseteq Offered' /\ FannedOut' = FannedOut
  BY <1>1, <1>4, <1>13 DEF Offered, FannedOut
<1>15. InvShape'
  BY <1>1, <1>2, <1>4, <1>6, <1>10 DEF InvShape
<1>16. InvFrames'
  BY <1>1, <1>4, <1>6, <1>10 DEF InvFrames
<1>17. InvCursor' /\ InvFull'
  BY <1>1, <1>4, <1>10 DEF InvCursor, InvFull, IInv, Flow
<1>18. InvInbox' /\ InvLoop'
  <2>1. /\ Ordered(inbox, Visible, Held)
        /\ ~overflowed => Ordered(loopq, Visible, Offered)
    BY <1>2, <1>4 DEF InvInbox, InvLoop, IInv, Flow
  <2>2. QED
    BY <1>1, <1>4, <1>13, <1>14, <2>1, OrderedMore DEF InvInbox, InvLoop
<1>19. InvFanned'
  BY <1>1, <1>4, <1>14 DEF InvFanned, IInv, Flow
<1>20. QED
  BY <1>10, <1>11, <1>15, <1>16, <1>17, <1>18, <1>19 DEF Flow

(* NextFrame: what precedes the head of the inbox has been written. *)
LEMMA NextFrameStep ==
    ASSUME IInv, TypeOK', NextFrame
    PROVE  Flow'
<1>1. /\ log' = log /\ hook' = hook /\ bound' = bound /\ loopq' = loopq
      /\ overflowed' = overflowed /\ since' = since
      /\ pending' = pending /\ replay' = replay
      /\ mounted' = mounted /\ lastSeq' = lastSeq /\ transcript' = transcript
  BY DEF NextFrame, logVars, clientVars
<1> DEFINE f == Head(inbox)
<1>2. pc = "next" /\ pc' = "check" /\ inbox # <<>> /\ inbox' = Tail(inbox) /\ Yield(f)
  BY DEF NextFrame
<1>3. /\ TypeOK /\ inbox \in Seq(Frame) /\ loopq \in Seq(Frame) /\ cursor \in Int
      /\ cursor' \in Int
  BY DEF IInv, TypeOK
<1>4. f \in Frame
  BY <1>2, <1>3
<1>5. Visible' = Visible /\ Subscribed' /\ Subscribed
  BY <1>1, <1>2 DEF Visible, Subscribed
<1>6. \A s \in Visible : s \in Nat
  BY <1>3, VisibleSeqs
<1>7. InvShape /\ InvFrames /\ InvInbox /\ InvLoop /\ InvFanned
  BY DEF IInv, Flow
<1>8. Ordered(inbox, Visible, Held)
  BY <1>2, <1>5, <1>7 DEF InvInbox
<1>9. Held = Written
  BY <1>2 DEF Held, Written
<1>10. \A s \in Visible : Precedes(s, f) => s <= cursor
  BY <1>2, <1>3, <1>8, <1>9, OrderedHead DEF Written
<1>11. WellFormed(f, Visible) /\ AllWellFormed(inbox', Visible)
  BY <1>2, <1>3, <1>7, WellFormedQueues DEF InvFrames
<1>12. /\ cursor <= cursor' /\ cursor' < Len(log)
       /\ AllWellFormed(wire', Visible)
       /\ InvPending' /\ InvWire' /\ NoGap' /\ Written' \subseteq Sent'
       /\ \A s \in Visible : First(s) = f => s <= cursor'
  <2>1. pc' \notin {"off", "requested", "opening"}
    BY <1>2
  <2>2. QED
    BY <1>1, <1>2, <1>4, <1>5, <1>10, <1>11, <2>1, YieldStep
<1>13. Held \subseteq Held' /\ \A s \in Visible : First(s) = f => s \in Held'
  BY <1>3, <1>5, <1>6, <1>9, <1>12 DEF Held, Written
<1>14. Carried(inbox, Visible) = Carried(inbox', Visible) \cup {s \in Visible : First(s) = f}
  BY <1>2, <1>3, CarriedTail
<1>15. Offered \subseteq Offered' /\ FannedOut' = FannedOut
  BY <1>1, <1>5, <1>13, <1>14 DEF Offered, FannedOut
<1>16. InvShape'
  BY <1>1, <1>2, <1>5, <1>7, <1>12 DEF InvShape
<1>17. InvFrames'
  BY <1>1, <1>5, <1>7, <1>11, <1>12 DEF InvFrames
<1>18. InvCursor' /\ InvReplay' /\ InvFull'
  BY <1>2, <1>12 DEF InvCursor, InvReplay, InvFull
<1>19. InvInbox'
  <2>1. Ordered(Tail(inbox), Visible, Held')
    BY <1>2, <1>3, <1>8, <1>13, OrderedTail
  <2>2. QED
    BY <1>2, <1>5, <2>1 DEF InvInbox
<1>20. InvLoop'
  <2>1. ~overflowed => Ordered(loopq, Visible, Offered)
    BY <1>5, <1>7 DEF InvLoop
  <2>2. QED
    BY <1>1, <1>5, <1>15, <2>1, OrderedMore DEF InvLoop
<1>21. InvFanned'
  BY <1>1, <1>5, <1>7, <1>15 DEF InvFanned
<1>22. QED
  BY <1>12, <1>16, <1>17, <1>18, <1>19, <1>20, <1>21 DEF Flow

(* Subscribe and Replay: the response starts where the fold has got to,    *)
(* and its snapshot reaches to the end of the log.                         *)
LEMMA OpenStep ==
    ASSUME IInv, TypeOK', Subscribe \/ Replay
    PROVE  Flow'
<1>1. /\ log' = log /\ hook' = hook /\ bound' = bound /\ loopq' = loopq
      /\ since' = since /\ pending' = pending /\ wire' = wire
      /\ mounted' = mounted /\ lastSeq' = lastSeq /\ transcript' = transcript
  BY DEF Subscribe, Replay, logVars, hubVars, clientVars
<1>2. /\ TypeOK /\ since \in Int /\ lastSeq \in Int /\ cursor \in Int /\ Len(log) \in Nat
      /\ cursor' \in Int
  <2>1. TypeOK /\ log \in Seq(Nat) /\ since \in Int /\ lastSeq \in Int /\ cursor \in Int
    BY DEF IInv, TypeOK
  <2>2. Len(log) \in Nat
    BY <2>1
  <2>3. cursor' \in Int
    BY DEF TypeOK
  <2>4. QED
    BY <2>1, <2>2, <2>3
<1>3. Visible' = Visible
  BY <1>1 DEF Visible
<1>4. \A s \in Visible : s \in Nat /\ s < Len(log)
  BY <1>2, VisibleSeqs
<1>5. Applied' = Applied /\ Received' = Received /\ Sent' = Sent /\ FannedOut' = FannedOut
  BY <1>1, <1>3 DEF Applied, Received, Sent, FannedOut
<1>6. InvShape /\ InvFrames /\ InvReplay /\ InvCursor
  BY DEF IInv, Flow
<1>7. NoGap' /\ InvPending' /\ InvWire'
  BY <1>1, <1>3, <1>5 DEF NoGap, InvPending, InvWire, IInv, Flow
<1>8. lastSeq < Len(log) /\ cursor < Len(log)
  BY <1>6 DEF InvShape
<1>9. CASE Subscribe
  <2>1. /\ pc = "requested" /\ pc' = "opening" /\ cursor' = Floor(since)
        /\ inbox' = <<>> /\ overflowed' = FALSE
    BY <1>9 DEF Subscribe
  <2>2. since <= lastSeq /\ loopq = <<>> /\ wire = <<>>
    BY <1>6, <2>1 DEF InvShape, Subscribed
  <2>3. Subscribed'
    BY <2>1 DEF Subscribed
  <2>4. InvShape'
    <3>1. cursor' < Len(log)
      BY <1>2, <1>8, <2>1, <2>2 DEF Floor
    <3>2. QED
      BY <1>1, <1>6, <2>1, <2>2, <2>3, <3>1 DEF InvShape
  <2>5. InvFrames'
    <3>1. AllWellFormed(<<>>, Visible)
      BY DEF AllWellFormed
    <3>2. QED
      BY <1>1, <1>3, <1>6, <2>1, <3>1 DEF InvFrames
  <2>6. InvCursor'
    <3>1. ASSUME NEW s \in Visible, s <= cursor' PROVE s \in Sent
      <4>1. s <= lastSeq
        BY <1>2, <1>4, <2>1, <2>2, <3>1 DEF Floor
      <4>2. QED
        BY <4>1 DEF Sent, Received, Applied
    <3>2. QED
      BY <1>3, <1>5, <3>1 DEF InvCursor, Written
  <2>7. InvReplay' /\ InvFull'
    BY <1>1, <2>1 DEF InvReplay, InvFull
  <2>8. Held' = Visible
    BY <1>3, <2>1 DEF Held
  <2>9. InvInbox' /\ InvLoop'
    BY <1>1, <2>1, <2>2, OrderedEmpty DEF InvInbox, InvLoop
  <2>10. InvFanned'
    <3>1. FannedOut' \subseteq Visible
      BY <1>3 DEF FannedOut
    <3>2. QED
      BY <2>8, <3>1 DEF InvFanned, Offered
  <2>11. QED
    BY <1>7, <2>4, <2>5, <2>6, <2>7, <2>9, <2>10 DEF Flow
<1>10. CASE Replay
  <2>1. /\ pc = "opening" /\ pc' = "replay" /\ cursor' = cursor
        /\ inbox' = inbox /\ overflowed' = overflowed
        /\ replay' = [seq |-> Floor(since) + 1, part |-> 1, end |-> Len(log)]
    BY <1>6, <1>10 DEF Replay, hubVars, InvShape
  <2>2. Subscribed /\ Subscribed'
    BY <2>1 DEF Subscribed
  <2>3. cursor = Floor(since) /\ Floor(since) \in Int
    BY <1>2, <1>6, <2>1 DEF InvReplay, Floor
  <2>4. Held = Visible /\ Held' = Visible
    BY <1>3, <1>4, <2>1 DEF Held
  <2>5. Offered' = Offered /\ Written' = Written
    BY <1>3, <2>1, <2>4 DEF Offered, Written
  <2>6. InvShape'
    BY <1>1, <1>6, <2>1, <2>2 DEF InvShape
  <2>7. InvFrames' /\ InvCursor'
    BY <1>1, <1>3, <1>5, <1>6, <2>1, <2>2, <2>5 DEF InvFrames, InvCursor
  <2>8. InvReplay'
    <3>1. replay'.seq = cursor + 1 /\ replay'.part = 1 /\ replay'.end = Len(log)
      BY <2>1, <2>3
    <3>2. \A s \in Visible : s < cursor + 1 => s <= cursor
      BY <1>2, <1>4
    <3>3. cursor + 1 <= Len(log)
      BY <1>2, <1>8
    <3>4. QED
      BY <1>1, <1>2, <1>3, <2>1, <3>1, <3>2, <3>3 DEF InvReplay
  <2>9. InvFull' /\ InvInbox' /\ InvLoop' /\ InvFanned'
    <3>1. InvFull'
      BY <2>1, <2>2 DEF InvFull, IInv, Flow
    <3>2. InvInbox'
      BY <1>3, <2>1, <2>2, <2>4 DEF InvInbox, IInv, Flow
    <3>3. InvLoop' /\ InvFanned'
      BY <1>1, <1>3, <1>5, <2>1, <2>2, <2>5 DEF InvLoop, InvFanned, IInv, Flow
    <3>4. QED
      BY <3>1, <3>2, <3>3
  <2>10. QED
    BY <1>7, <2>6, <2>7, <2>8, <2>9 DEF Flow
<1>11. QED
  BY <1>9, <1>10

(* The store forgets a conversation nobody looks at. *)
LEMMA EvictStep ==
    ASSUME IInv, TypeOK', EvictConversation
    PROVE  Flow'
<1>1. /\ log' = log /\ hook' = hook /\ bound' = bound /\ loopq' = loopq
      /\ inbox' = inbox /\ overflowed' = overflowed /\ since' = since
      /\ cursor' = cursor /\ replay' = replay /\ pending' = pending /\ pc' = pc
      /\ mounted' = mounted /\ wire' = wire /\ lastSeq' = -1
  BY DEF EvictConversation, logVars, hubVars, streamVars
<1>2. InvShape /\ InvFrames /\ TypeOK
  BY DEF IInv, Flow
<1>3. ~mounted
  BY DEF EvictConversation
<1>4. pc = "off" /\ pending = <<>> /\ wire = <<>>
  BY <1>2, <1>3 DEF InvShape
<1>5. Visible' = Visible /\ ~Subscribed' /\ ~Subscribed
  BY <1>1, <1>4 DEF Visible, Subscribed
<1>6. NoGap'
  BY <1>1, <1>2, <1>5, VisibleSeqs DEF NoGap
<1>7. InvShape'
  <2>1. log \in Seq(Nat) /\ -1 < Len(log)
    BY <1>2 DEF TypeOK
  <2>2. QED
    BY <1>1, <1>2, <1>4, <1>5, <2>1 DEF InvShape
<1>8. InvFrames'
  BY <1>1, <1>2, <1>5 DEF InvFrames
<1>9. InvPending' /\ InvWire'
  BY <1>1, <1>4, OrderedEmpty DEF InvPending, InvWire
<1>10. InvCursor' /\ InvReplay' /\ InvFull' /\ InvInbox' /\ InvLoop' /\ InvFanned'
  BY <1>1, <1>4, <1>5 DEF InvCursor, InvReplay, InvFull, InvInbox, InvLoop, InvFanned
<1>11. QED
  BY <1>6, <1>7, <1>8, <1>9, <1>10 DEF Flow

(* A response that is not open yet, or no more, disturbs nothing. *)
LEMMA CloseStep ==
    ASSUME IInv, TypeOK',
           \/ CheckOverflow /\ overflowed
           \/ StreamEnded \/ Disconnect \/ Restart \/ Unmount \/ Connect \/ Mount
    PROVE  Flow'
<1>1. /\ log' = log /\ bound' = bound /\ lastSeq' = lastSeq /\ transcript' = transcript
      /\ cursor' = cursor
  BY DEF CheckOverflow, StreamEnded, Disconnect, Restart, Unmount, Connect, Mount, Hangup,
         logVars, streamVars, clientVars
<1>2. InvShape /\ TypeOK /\ lastSeq \in Int
  BY DEF IInv, Flow, TypeOK
<1>3. hook' = hook \/ hook'[Seeder] = NoHook
  BY ConstantsAssumption
     DEF CheckOverflow, StreamEnded, Disconnect, Restart, Unmount, Connect, Mount, logVars
<1>4. CASE CheckOverflow /\ overflowed
  <2>1. /\ pc = "check" /\ pc' = "ended" /\ inbox' = <<>> /\ loopq' = <<>>
        /\ wire' = wire /\ pending' = pending /\ mounted' = mounted /\ since' = since
    BY <1>4 DEF CheckOverflow, clientVars
  <2>2. ~Subscribed'
    BY <2>1 DEF Subscribed
  <2>3. InvShape'
    BY <1>1, <1>2, <1>3, <2>1, <2>2 DEF InvShape
  <2>4. QED
    BY <1>1, <2>1, <2>2, <2>3, ClosedStep
<1>5. CASE StreamEnded \/ Disconnect \/ Restart \/ Unmount
  <2>1. Hangup
    BY <1>5 DEF StreamEnded, Disconnect, Restart, Unmount
  <2>2. pc' = "off" /\ wire' = <<>> /\ inbox' = <<>> /\ loopq' = <<>>
    BY <2>1 DEF Hangup
  <2>3. pending' = <<>> \/ (pending' = pending /\ mounted' = mounted)
    BY <1>5 DEF StreamEnded, Disconnect, Restart, Unmount, clientVars
  <2>4. ~Subscribed'
    BY <2>2 DEF Subscribed
  <2>5. InvShape'
    BY <1>1, <1>2, <1>3, <2>2, <2>3, <2>4 DEF InvShape
  <2>6. QED
    BY <1>1, <2>2, <2>3, <2>4, <2>5, ClosedStep
<1>6. CASE Connect
  <2>1. /\ pc = "off" /\ pc' = "requested" /\ since' = lastSeq /\ mounted
        /\ mounted' = mounted /\ pending' = pending /\ wire' = wire
        /\ inbox' = inbox /\ loopq' = loopq
    BY <1>6 DEF Connect, hubVars, clientVars
  <2>2. ~Subscribed /\ ~Subscribed'
    BY <2>1 DEF Subscribed
  <2>3. inbox' = <<>> /\ loopq' = <<>> /\ wire' = <<>>
    BY <1>2, <2>1, <2>2 DEF InvShape
  <2>4. since' <= lastSeq'
    BY <1>1, <1>2, <2>1
  <2>5. InvShape'
    BY <1>1, <1>2, <1>3, <2>1, <2>2, <2>3, <2>4 DEF InvShape
  <2>6. QED
    BY <1>1, <2>1, <2>2, <2>3, <2>5, ClosedStep
<1>7. CASE Mount
  <2>1. /\ ~mounted /\ mounted' = TRUE /\ pc' = pc /\ since' = since
        /\ pending' = pending /\ wire' = wire /\ inbox' = inbox /\ loopq' = loopq
    BY <1>7 DEF Mount, hubVars, streamVars
  <2>2. pc = "off"
    BY <1>2, <2>1 DEF InvShape
  <2>3. ~Subscribed /\ ~Subscribed'
    BY <2>1, <2>2 DEF Subscribed
  <2>4. inbox' = <<>> /\ loopq' = <<>> /\ wire' = <<>>
    BY <1>2, <2>1, <2>2, <2>3 DEF InvShape
  <2>5. InvShape'
    BY <1>1, <1>2, <1>3, <2>1, <2>2, <2>3, <2>4 DEF InvShape
  <2>6. QED
    BY <1>1, <2>1, <2>3, <2>4, <2>5, ClosedStep
<1>8. QED
  BY <1>4, <1>5, <1>6, <1>7

(* The response's control moves on: all it has replayed is written. *)
LEMMA ControlStep ==
    ASSUME IInv, TypeOK', ReplayDone \/ (CheckOverflow /\ ~overflowed) \/ Heartbeat
    PROVE  Flow'
<1>1. UNCHANGED <<logVars, hubVars, since, cursor, replay, clientVars, wire>>
  BY DEF ReplayDone, CheckOverflow, Heartbeat
<1>2. log' = log /\ cursor' = cursor /\ replay' = replay
  BY <1>1 DEF logVars
<1>3. Visible' = Visible
  BY <1>2 DEF Visible
<1>4. InvReplay
  BY DEF IInv, Flow
<1>5. CASE ReplayDone
  <2>1. pc = "replay" /\ pc' = "check" /\ replay.seq >= replay.end /\ Subscribed
    BY <1>5 DEF ReplayDone, Subscribed
  <2>2. \A s \in Visible : s < replay.seq => s <= cursor
    BY <1>4, <2>1 DEF InvReplay
  <2>3. replay.seq \in Nat /\ replay.end \in Nat /\ TypeOK
    <3>1. TypeOK /\ replay \in [seq : Nat, part : Nat, end : Nat]
      BY DEF IInv, TypeOK
    <3>2. QED
      BY <3>1
  <2>4. \A s \in Visible : s \in Nat
    BY <2>3, VisibleSeqs
  <2>5. \A s \in Visible : s < replay.end => s <= cursor
    BY <2>1, <2>2, <2>3, <2>4
  <2>6. Held \subseteq Held'
    BY <1>2, <1>3, <2>1, <2>5 DEF Held
  <2>7. QED
    BY <1>1, <2>1, <2>6, MoveStep
<1>6. CASE CheckOverflow /\ ~overflowed
  <2>1. pc = "check" /\ pc' = "next" /\ Subscribed /\ ~overflowed
    BY <1>6 DEF CheckOverflow, Subscribed
  <2>2. Held \subseteq Held'
    BY <1>2, <1>3, <2>1 DEF Held
  <2>3. QED
    BY <1>1, <2>1, <2>2, MoveStep
<1>7. CASE Heartbeat
  <2>1. pc = "next" /\ pc' = "check" /\ Subscribed
    BY <1>7 DEF Heartbeat, Subscribed
  <2>2. Held \subseteq Held'
    BY <1>2, <1>3, <2>1 DEF Held
  <2>3. QED
    BY <1>1, <2>1, <2>2, MoveStep
<1>8. QED
  BY <1>5, <1>6, <1>7

(* A step of nothing the invariant speaks of. *)
LEMMA IdleStep ==
    ASSUME IInv, UNCHANGED vars
    PROVE  Flow'
<1>1. UNCHANGED <<logVars, hubVars, streamVars, clientVars, wire>>
  BY DEF vars
<1>2. /\ log' = log /\ hook' = hook /\ bound' = bound /\ loopq' = loopq
      /\ inbox' = inbox /\ overflowed' = overflowed /\ since' = since
      /\ cursor' = cursor /\ replay' = replay /\ pending' = pending /\ pc' = pc
      /\ mounted' = mounted /\ wire' = wire /\ lastSeq' = lastSeq
      /\ transcript' = transcript
  BY <1>1 DEF logVars, hubVars, streamVars, clientVars
<1>3. Visible' = Visible /\ Subscribed' = Subscribed
  BY <1>2 DEF Visible, Subscribed
<1>4. /\ Applied' = Applied /\ Received' = Received /\ Sent' = Sent /\ Written' = Written
      /\ Held' = Held /\ Offered' = Offered /\ FannedOut' = FannedOut
  BY <1>2, <1>3 DEF Applied, Received, Sent, Written, Held, Offered, FannedOut
<1>5. NoGap' /\ InvShape'
  BY <1>2, <1>3 DEF NoGap, InvShape, IInv, Flow
<1>6. InvFrames' /\ InvPending' /\ InvWire' /\ InvCursor'
  BY <1>2, <1>3, <1>4 DEF InvFrames, InvPending, InvWire, InvCursor, IInv, Flow
<1>7. InvReplay' /\ InvFull'
  BY <1>2, <1>3 DEF InvReplay, InvFull, IInv, Flow
<1>8. InvInbox' /\ InvLoop' /\ InvFanned'
  BY <1>2, <1>3, <1>4 DEF InvInbox, InvLoop, InvFanned, IInv, Flow
<1>9. QED
  BY <1>5, <1>6, <1>7, <1>8 DEF Flow

-----------------------------------------------------------------------------
(* The invariant *)

LEMMA FlowInit ==
    ASSUME Sequential, Init PROVE IInv
<1>1. TypeOK
  BY TypeInit
<1>2. /\ log = <<>> /\ loopq = <<>> /\ inbox = <<>> /\ wire = <<>> /\ pending = <<>>
      /\ pc = "off" /\ mounted = TRUE /\ lastSeq = -1 /\ cursor = -1 /\ bound
      /\ hook[Seeder] = NoHook
  BY ConstantsAssumption DEF Init, Sequential
<1>3. Len(log) = 0 /\ Visible = {} /\ ~Subscribed
  BY <1>2 DEF Visible, Subscribed
<1>4. NoGap
  BY <1>3 DEF NoGap
<1>5. InvShape
  BY <1>2, <1>3 DEF InvShape
<1>6. InvFrames
  BY <1>2 DEF InvFrames, AllWellFormed
<1>7. InvPending /\ InvWire
  BY <1>2, OrderedEmpty DEF InvPending, InvWire
<1>8. InvCursor /\ InvReplay /\ InvFull /\ InvInbox /\ InvLoop /\ InvFanned
  BY <1>2, <1>3 DEF InvCursor, InvReplay, InvFull, InvInbox, InvLoop, InvFanned
<1>9. QED
  BY <1>1, <1>4, <1>5, <1>6, <1>7, <1>8 DEF IInv, Flow

LEMMA FlowStep ==
    ASSUME Sequential, IInv, [Next]_vars PROVE IInv'
<1>1. TypeOK /\ InvShape
  BY DEF IInv, Flow
<1>2. TypeOK'
  BY <1>1, TypeStep
<1> SUFFICES Flow'
  BY <1>2 DEF IInv
<1>3. CASE Engine
  <2>1. CASE \E c \in Committers : Commit(c) \/ Ingest(c)
    <3>1. Commit(Seeder) \/ Ingest(Seeder)
      BY <2>1 DEF Sequential
    <3>2. QED
      BY <1>2, <3>1, CommitStep, IngestStep
  <2>2. CASE Bind
    BY <1>1, <2>2 DEF Bind, InvShape
  <2>3. CASE OnDelta
    <3>1. Delta \in Frame /\ Delta.seq = NoSeq
      BY FrameTypes DEF Delta
    <3>2. /\ Schedule(Delta)
          /\ UNCHANGED <<logVars, inbox, overflowed, streamVars, clientVars, wire>>
      BY <2>3 DEF OnDelta
    <3>3. QED
      BY <3>1, <3>2, UnnumberedStep
  <2>4. CASE Push
    <3>1. Pushed(pushes + 1) \in Frame /\ Pushed(pushes + 1).seq = NoSeq
      <4>1. pushes + 1 \in Nat
        BY <1>1 DEF TypeOK
      <4>2. QED
        BY <4>1, FrameTypes DEF Pushed
    <3>2. /\ Schedule(Pushed(pushes + 1))
          /\ UNCHANGED <<logVars, inbox, overflowed, streamVars, clientVars, wire>>
      BY <2>4 DEF Push
    <3>3. QED
      BY <3>1, <3>2, UnnumberedStep
  <2>5. QED
    BY <1>3, <2>1, <2>2, <2>3, <2>4 DEF Engine
<1>4. CASE EventLoop
  BY <1>2, <1>4, OfferStep, OpenStep, ReplayFrameStep, NextFrameStep, ControlStep, CloseStep
     DEF EventLoop
<1>5. CASE Browser \/ Faults
  BY <1>2, <1>5, ReceiveStep, FoldStep, EvictStep, CloseStep DEF Browser, Faults
<1>6. CASE UNCHANGED vars
  BY <1>6, IdleStep
<1>7. QED
  BY <1>3, <1>4, <1>5, <1>6 DEF Next

(* NoGap for every queue size, log, frame width and number of faults: the  *)
(* fold's resume cursor (lastSeq) never passes an envelope it has not      *)
(* applied, when one thread commits to a stream that is bound.             *)
THEOREM NothingSkipped ==
    ASSUME Sequential PROVE Spec => []NoGap
<1>1. Init => IInv
  BY FlowInit
<1>2. IInv /\ [Next]_vars => IInv'
  BY FlowStep
<1>3. IInv => NoGap
  BY DEF IInv, Flow
<1>4. QED
  BY <1>1, <1>2, <1>3, PTL DEF Spec

-----------------------------------------------------------------------------
(* What a reader of the stream is promised.  The fold's transcript is the  *)
(* abstract feed (ImplementsFeed), of a session whose stream is bound and  *)
(* whose envelopes reach the hub in the order of their seqs.  A response   *)
(* writes the synthetic frames in order and without a hole                 *)
(* (PushesContiguous), whoever commits.                                    *)


(* The seqs of the transcript, in order: the feed's `read`.                *)
SeqsOf(q) == [i \in DOMAIN q |-> q[i].seq]

(* The fold resumes behind the last envelope its transcript shows.         *)
Resumes ==
    /\ lastSeq >= -1
    /\ lastSeq = IF transcript = <<>> THEN -1 ELSE transcript[Len(transcript)].seq

FeedInv == IInv /\ Resumes

LEMMA SeqsOfTypes ==
    ASSUME NEW q \in Seq(Frame)
    PROVE  /\ SeqsOf(q) \in Seq(Int) /\ Len(SeqsOf(q)) = Len(q)
           /\ \A i \in 1 .. Len(q) : SeqsOf(q)[i] = q[i].seq
           /\ SeqsOf(q) = <<>> <=> q = <<>>
<1>1. Len(q) \in Nat /\ DOMAIN q = 1 .. Len(q) /\ \A i \in 1 .. Len(q) : q[i].seq \in Int
  <2>1. Len(q) \in Nat /\ DOMAIN q = 1 .. Len(q) /\ \A i \in 1 .. Len(q) : q[i] \in Frame
    OBVIOUS
  <2>2. QED
    BY <2>1 DEF Frame
<1>2. SeqsOf(q) = [i \in 1 .. Len(q) |-> q[i].seq]
  BY <1>1 DEF SeqsOf
<1>3. QED
  BY <1>1, <1>2

LEMMA SeqsOfEmpty == SeqsOf(<<>>) = <<>>
<1>1. <<>> \in Seq(Frame)
  OBVIOUS
<1>2. QED
  BY <1>1, SeqsOfTypes

LEMMA SeqsOfAppend ==
    ASSUME NEW q \in Seq(Frame), NEW f \in Frame
    PROVE  SeqsOf(Append(q, f)) = Append(SeqsOf(q), f.seq)
<1> DEFINE r == Append(q, f)
           t == Append(SeqsOf(q), f.seq)
<1>1. /\ r \in Seq(Frame) /\ Len(r) = Len(q) + 1 /\ r[Len(q) + 1] = f
      /\ \A i \in 1 .. Len(q) : r[i] = q[i]
  OBVIOUS
<1>2. f.seq \in Int
  BY DEF Frame
<1>3. /\ SeqsOf(q) \in Seq(Int) /\ Len(SeqsOf(q)) = Len(q) /\ Len(q) \in Nat
      /\ \A i \in 1 .. Len(q) : SeqsOf(q)[i] = q[i].seq
  BY SeqsOfTypes
<1>4. /\ t \in Seq(Int) /\ Len(t) = Len(q) + 1 /\ t[Len(q) + 1] = f.seq
      /\ \A i \in 1 .. Len(q) : t[i] = q[i].seq
  BY <1>2, <1>3
<1> HIDE DEF r, t
<1>5. /\ SeqsOf(r) \in Seq(Int) /\ Len(SeqsOf(r)) = Len(q) + 1
      /\ \A i \in 1 .. Len(q) + 1 : SeqsOf(r)[i] = r[i].seq
  BY <1>1, SeqsOfTypes
<1>6. \A i \in 1 .. Len(q) + 1 : SeqsOf(r)[i] = t[i]
  <2>1. \A i \in 1 .. Len(q) + 1 : i \in 1 .. Len(q) \/ i = Len(q) + 1
    BY <1>3
  <2>2. QED
    BY <1>1, <1>4, <1>5, <2>1
<1>7. SeqsOf(r) = t
  <2>1. /\ DOMAIN SeqsOf(r) = 1 .. Len(q) + 1 /\ DOMAIN t = 1 .. Len(q) + 1
        /\ SeqsOf(r) = [i \in 1 .. Len(q) + 1 |-> SeqsOf(r)[i]]
        /\ t = [i \in 1 .. Len(q) + 1 |-> t[i]]
    BY <1>4, <1>5
  <2>2. QED
    BY <1>6, <2>1
<1>8. QED
  BY <1>7 DEF r, t

(* Under the refinement mapping, the reader has read up to lastSeq, and    *)
(* what it has not read is the visible envelopes past it.                  *)
LEMMA FeedState ==
    ASSUME FeedInv
    PROVE  /\ Feed!LastRead = lastSeq
           /\ Feed!Unread = {s \in Visible : s > lastSeq}
<1>1. /\ TypeOK /\ transcript \in Seq(Frame) /\ lastSeq \in Int /\ log \in Seq(Nat)
      /\ Resumes
  BY DEF FeedInv, IInv, TypeOK
<1>2. Feed!LastRead = IF SeqsOf(transcript) = <<>> THEN -1
                      ELSE SeqsOf(transcript)[Len(SeqsOf(transcript))]
  BY DEF Feed!LastRead, SeqsOf
<1>3. Feed!LastRead = lastSeq
  <2>1. CASE transcript = <<>>
    BY <1>1, <1>2, <2>1, SeqsOfTypes DEF Resumes
  <2>2. CASE transcript # <<>>
    <3>1. Len(transcript) \in 1 .. Len(transcript)
      BY <1>1, <2>2
    <3>2. QED
      BY <1>1, <1>2, <2>2, <3>1, SeqsOfTypes DEF Resumes
  <2>3. QED
    BY <2>1, <2>2
<1>4. /\ Len(log) \in Nat /\ lastSeq >= -1
      /\ Visible = {s \in 0 .. Len(log) - 1 : log[s + 1] > 0}
      /\ Feed!Unread = {s \in lastSeq + 1 .. Len(log) - 1 : log[s + 1] > 0}
  BY <1>1, <1>3 DEF Resumes, Visible, Feed!Unread
<1>5. Feed!Unread = {s \in Visible : s > lastSeq}
  <2>1. \A s : s \in lastSeq + 1 .. Len(log) - 1 <=> s \in 0 .. Len(log) - 1 /\ s > lastSeq
    BY <1>1, <1>4
  <2>2. QED
    BY <1>4, <2>1
<1>6. QED
  BY <1>3, <1>5

(* A step that leaves the log and the transcript alone is a stutter.       *)
LEMMA FeedStutter ==
    ASSUME FeedInv, log' = log, transcript' = transcript, lastSeq' = lastSeq
    PROVE  Resumes' /\ UNCHANGED Feed!vars
  BY DEF FeedInv, Resumes, Feed!vars

LEMMA FeedFold ==
    ASSUME FeedInv, IInv', FoldEvent
    PROVE  Resumes' /\ [Feed!Next]_(Feed!vars)
<1> DEFINE f == Head(pending)
<1>1. /\ IInv /\ TypeOK /\ transcript \in Seq(Frame) /\ pending \in Seq(Frame)
      /\ pending # <<>> /\ lastSeq \in Int /\ lastSeq >= -1
  BY DEF FeedInv, IInv, TypeOK, FoldEvent, Resumes
<1>2. log' = log
  BY DEF FoldEvent, logVars
<1>3. f \in Frame /\ f.seq \in Int
  <2>1. f \in Frame
    BY <1>1
  <2>2. QED
    BY <2>1 DEF Frame
<1>4. CASE f.seq # NoSeq /\ f.seq > lastSeq
  <2>1. lastSeq' = f.seq /\ transcript' = Append(transcript, f)
    BY <1>4 DEF FoldEvent
  <2>2. Resumes'
    <3>1. /\ transcript' # <<>> /\ Len(transcript') = Len(transcript) + 1
          /\ transcript'[Len(transcript) + 1] = f
      BY <1>1, <1>3, <2>1
    <3>2. QED
      BY <1>1, <1>3, <1>4, <2>1, <3>1 DEF Resumes
  <2>3. SeqsOf(transcript)' = Append(SeqsOf(transcript), f.seq)
    BY <1>1, <1>3, <2>1, SeqsOfAppend
  <2>4. f.seq \in Visible
    <3>1. AllWellFormed(pending, Visible)
      BY DEF FeedInv, IInv, Flow, InvFrames
    <3>2. WellFormed(f, Visible)
      BY <1>1, <3>1, WellFormedQueues
    <3>3. QED
      BY <1>4, <3>2 DEF WellFormed
  <2>5. ASSUME NEW t \in Visible, t > lastSeq
        PROVE  f.seq <= t
    <3>1. Ordered(pending, Visible, Applied) /\ t \in Int
      BY <1>1, VisibleSeqs DEF FeedInv, IInv, Flow, InvPending
    <3>2. t < f.seq => t \in Applied
      BY <1>1, <3>1, OrderedHead DEF Precedes
    <3>3. QED
      BY <1>1, <1>3, <2>5, <3>1, <3>2 DEF Applied
  <2>6. Feed!Unread = {s \in Visible : s > lastSeq}
    BY FeedState
  <2>7. Feed!Apply
    BY <1>2, <1>4, <2>3, <2>4, <2>5, <2>6 DEF Feed!Apply, SeqsOf
  <2>8. QED
    BY <2>2, <2>7 DEF Feed!Next
<1>5. CASE ~(f.seq # NoSeq /\ f.seq > lastSeq)
  <2>1. lastSeq' = lastSeq /\ transcript' = transcript
    BY <1>5 DEF FoldEvent
  <2>2. QED
    BY <1>2, <2>1, FeedStutter
<1>6. QED
  BY <1>4, <1>5

LEMMA FeedStep ==
    ASSUME Sequential, FeedInv, [Next]_vars
    PROVE  FeedInv' /\ [Feed!Next]_(Feed!vars)
<1>1. IInv'
  BY FlowStep DEF FeedInv
<1>2. SUFFICES Resumes' /\ [Feed!Next]_(Feed!vars)
  BY <1>1 DEF FeedInv
<1>3. CASE \E c \in Committers : Commit(c)
  <2>1. (\E w \in Widths : log' = Append(log, w)) /\ UNCHANGED clientVars
    BY <1>3 DEF Commit
  <2>2. lastSeq' = lastSeq /\ transcript' = transcript
    BY <2>1 DEF clientVars
  <2>3. Resumes'
    BY <2>2 DEF Resumes, FeedInv
  <2>4. QED
    BY <2>1, <2>2, <2>3 DEF Feed!Commit, Feed!Next
<1>4. CASE \E c \in Committers : Ingest(c)
  BY <1>4, FeedStutter DEF Ingest, clientVars
<1>5. CASE Bind \/ OnDelta \/ Push
  BY <1>5, FeedStutter DEF Bind, OnDelta, Push, logVars, clientVars
<1>6. CASE EventLoop
  BY <1>6, FeedStutter DEF EventLoop, Offer, Subscribe, Replay, ReplayFrame, ReplayDone,
                           CheckOverflow, NextFrame, Heartbeat, logVars, clientVars
<1>7. CASE FoldEvent
  BY <1>1, <1>7, FeedFold
<1>8. CASE EvictConversation
  <2>1. log' = log /\ transcript' = <<>> /\ lastSeq' = -1
    BY <1>8 DEF EvictConversation, logVars
  <2>2. SeqsOf(transcript)' = <<>>
    BY <2>1, SeqsOfEmpty
  <2>3. QED
    BY <2>1, <2>2 DEF Resumes, Feed!StartOver, Feed!Next, SeqsOf
<1>9. CASE Connect \/ Receive \/ StreamEnded \/ Mount \/ Faults
  BY <1>9, FeedStutter DEF Connect, Receive, StreamEnded, Mount, Faults, Disconnect, Restart,
                           Unmount, logVars, clientVars
<1>10. CASE UNCHANGED vars
  BY <1>10, FeedStutter DEF vars, logVars, clientVars
<1>11. QED
  BY <1>3, <1>4, <1>5, <1>6, <1>7, <1>8, <1>9, <1>10 DEF Next, Engine, Browser

(* The transcript is the feed: every step of the stream is the feed's      *)
(* commit of an envelope, its application of the next visible one that is  *)
(* unread, its starting over, or no step of the feed at all.  So foldEvent *)
(* with its dedup on lastSeq shows each envelope once, in the log's order  *)
(* and with none skipped, for every queue size, log, frame width and       *)
(* number of faults, when one thread commits to a stream that is bound.    *)
THEOREM TranscriptIsTheFeed ==
    ASSUME Sequential PROVE Spec => ImplementsFeed
<1>1. Init => FeedInv
  <2>1. Init => IInv
    BY FlowInit
  <2>2. QED
    BY <2>1 DEF Init, FeedInv, Resumes
<1>2. Init => Feed!Init
  <2>1. Init => log = <<>> /\ transcript = <<>>
    BY DEF Init
  <2>2. QED
    BY <2>1, SeqsOfEmpty DEF Feed!Init, SeqsOf
<1>3. FeedInv /\ [Next]_vars => FeedInv' /\ [Feed!Next]_(Feed!vars)
  BY FeedStep
<1>4. QED
  BY <1>1, <1>2, <1>3, PTL DEF Spec, ImplementsFeed, Feed!Spec

-----------------------------------------------------------------------------
(* The pushes *)

IsPush(f) == f.type = "push"

(* The pushes in q are number lo + 1 to number hi, in that order.          *)
Numbered(q, lo, hi) ==
    /\ lo <= hi
    /\ \A i \in 1 .. Len(q) : IsPush(q[i]) => q[i].seq = NoSeq /\ q[i].part \in lo + 1 .. hi
    /\ \A i, j \in 1 .. Len(q) : i < j /\ IsPush(q[i]) /\ IsPush(q[j]) => q[i].part < q[j].part
    /\ \A n \in lo + 1 .. hi : \E i \in 1 .. Len(q) : IsPush(q[i]) /\ q[i].part = n

(* The queues of an open response hold consecutive pushes, up to the one   *)
(* pushed last: the wire to number b, the subscription to number c.  Once  *)
(* a frame is lost, nothing is claimed of the offers still scheduled, and  *)
(* nothing of the subscription either when the loop is about to see it.    *)
InOrder(b, c) ==
    Subscribed =>
        /\ ~(overflowed /\ pc = "check") => Numbered(inbox, b, c)
        /\ ~overflowed => Numbered(loopq, c, pushes)

InvPushes == \E a, b, c \in Nat : Numbered(wire, a, b) /\ InOrder(b, c)

InvClosed ==
    /\ ~Subscribed => loopq = <<>> /\ inbox = <<>>
    /\ pc \in {"off", "requested"} => wire = <<>>

PushInv == TypeOK /\ InvClosed /\ InvFull /\ InvPushes

(* Numbered is what is needed: there is no hole in a numbered queue.       *)
LEMMA NumberedContiguous ==
    ASSUME NEW q \in Seq(Frame), NEW lo \in Nat, NEW hi \in Nat, Numbered(q, lo, hi),
           NEW i \in 1 .. Len(q), NEW j \in 1 .. Len(q), i < j,
           IsPush(q[i]), IsPush(q[j]), \A k \in i + 1 .. j - 1 : ~IsPush(q[k])
    PROVE  q[j].part = q[i].part + 1
<1>1. /\ q[i].part \in lo + 1 .. hi /\ q[j].part \in lo + 1 .. hi
      /\ q[i].part < q[j].part
  BY DEF Numbered
<1>2. SUFFICES ASSUME q[i].part + 1 < q[j].part PROVE FALSE
  BY <1>1
<1>3. q[i].part + 1 \in lo + 1 .. hi
  BY <1>1, <1>2
<1>4. PICK k \in 1 .. Len(q) : IsPush(q[k]) /\ q[k].part = q[i].part + 1
  BY <1>3 DEF Numbered
<1>5. ~(k <= i)
  <2>1. k < i => q[k].part < q[i].part
    BY <1>4 DEF Numbered
  <2>2. QED
    BY <1>1, <1>4, <2>1
<1>6. ~(j <= k)
  <2>1. j < k => q[j].part < q[k].part
    BY <1>4 DEF Numbered
  <2>2. QED
    BY <1>1, <1>2, <1>4, <2>1
<1>7. k \in i + 1 .. j - 1
  BY <1>5, <1>6
<1>8. QED
  BY <1>4, <1>7

LEMMA NumberedEmpty ==
    ASSUME NEW n \in Nat PROVE Numbered(<<>>, n, n)
  BY DEF Numbered

(* The next push may join a numbered queue, and so may any other frame.    *)
LEMMA NumberedAppend ==
    ASSUME NEW q \in Seq(Frame), NEW f \in Frame, NEW lo \in Nat, NEW hi \in Nat,
           Numbered(q, lo, hi)
    PROVE  /\ ~IsPush(f) => Numbered(Append(q, f), lo, hi)
           /\ IsPush(f) /\ f.seq = NoSeq /\ f.part = hi + 1 =>
                Numbered(Append(q, f), lo, hi + 1)
<1> DEFINE r == Append(q, f)
<1>1. /\ Len(q) \in Nat /\ Len(r) = Len(q) + 1 /\ r[Len(q) + 1] = f
      /\ \A i \in 1 .. Len(q) : r[i] = q[i]
  OBVIOUS
<1> HIDE DEF r
<1>2. \A i \in 1 .. Len(r) : i \in 1 .. Len(q) \/ i = Len(q) + 1
  BY <1>1
<1>3. ASSUME ~IsPush(f)
      PROVE  Numbered(r, lo, hi)
  <2>1. \A i \in 1 .. Len(r) : IsPush(r[i]) => i \in 1 .. Len(q) /\ r[i] = q[i]
    BY <1>1, <1>2, <1>3
  <2>2. 1 .. Len(q) \subseteq 1 .. Len(r)
    BY <1>1
  <2>3. QED
    BY <1>1, <2>1, <2>2 DEF Numbered
<1>4. ASSUME IsPush(f), f.seq = NoSeq, f.part = hi + 1
      PROVE  Numbered(r, lo, hi + 1)
  <2>1. \A i \in 1 .. Len(q) : IsPush(q[i]) =>
            q[i].seq = NoSeq /\ q[i].part \in lo + 1 .. hi
    BY DEF Numbered
  <2>2. lo <= hi + 1 /\ hi + 1 \in lo + 1 .. hi + 1
    BY DEF Numbered
  <2>3. ASSUME NEW i \in 1 .. Len(r), IsPush(r[i])
        PROVE  r[i].seq = NoSeq /\ r[i].part \in lo + 1 .. hi + 1
    <3>1. CASE i \in 1 .. Len(q)
      <4>1. r[i] = q[i] /\ q[i].seq = NoSeq /\ q[i].part \in lo + 1 .. hi
        BY <1>1, <2>1, <2>3, <3>1
      <4>2. QED
        BY <4>1
    <3>2. CASE i = Len(q) + 1
      BY <1>1, <1>4, <2>2, <3>2
    <3>3. QED
      BY <1>2, <3>1, <3>2
  <2>4. ASSUME NEW i \in 1 .. Len(r), NEW j \in 1 .. Len(r), i < j,
               IsPush(r[i]), IsPush(r[j])
        PROVE  r[i].part < r[j].part
    <3>1. i \in 1 .. Len(q) /\ r[i] = q[i]
      BY <1>1, <1>2, <2>4
    <3>2. CASE j \in 1 .. Len(q)
      BY <1>1, <2>4, <3>1, <3>2 DEF Numbered
    <3>3. CASE j = Len(q) + 1
      BY <1>1, <1>4, <2>1, <2>4, <3>1, <3>3
    <3>4. QED
      BY <1>2, <3>2, <3>3
  <2>5. ASSUME NEW n \in lo + 1 .. hi + 1
        PROVE  \E i \in 1 .. Len(r) : IsPush(r[i]) /\ r[i].part = n
    <3>1. CASE n = hi + 1
      BY <1>1, <1>4, <3>1
    <3>2. CASE n # hi + 1
      <4>1. n \in lo + 1 .. hi
        BY <3>2
      <4>2. PICK i \in 1 .. Len(q) : IsPush(q[i]) /\ q[i].part = n
        BY <4>1 DEF Numbered
      <4>3. QED
        BY <1>1, <4>2
    <3>3. QED
      BY <3>1, <3>2
  <2>6. QED
    BY <2>2, <2>3, <2>4, <2>5 DEF Numbered
<1>5. QED
  BY <1>3, <1>4 DEF r

(* Without its head a numbered queue starts one push later, or as before.  *)
LEMMA NumberedTail ==
    ASSUME NEW q \in Seq(Frame), q # <<>>, NEW lo \in Nat, NEW hi \in Nat,
           Numbered(q, lo, hi)
    PROVE  /\ ~IsPush(Head(q)) => Numbered(Tail(q), lo, hi)
           /\ IsPush(Head(q)) => /\ Head(q).seq = NoSeq /\ Head(q).part = lo + 1
                                 /\ Numbered(Tail(q), lo + 1, hi)
<1> DEFINE r == Tail(q)
<1>1. /\ Len(q) \in Nat /\ Len(q) >= 1 /\ Len(r) = Len(q) - 1 /\ Head(q) = q[1]
      /\ \A i \in 1 .. Len(r) : r[i] = q[i + 1]
  OBVIOUS
<1> HIDE DEF r
<1>2. ASSUME NEW m \in {lo, lo + 1}, m <= hi,
             \A i \in 2 .. Len(q) : IsPush(q[i]) => q[i].part >= m + 1,
             IsPush(q[1]) => m = lo + 1 /\ q[1].part = lo + 1
      PROVE  Numbered(r, m, hi)
  <2>1. ASSUME NEW i \in 1 .. Len(r), IsPush(r[i])
        PROVE  r[i].seq = NoSeq /\ r[i].part \in m + 1 .. hi
    <3>1. i + 1 \in 1 .. Len(q) /\ i + 1 \in 2 .. Len(q) /\ r[i] = q[i + 1]
      BY <1>1
    <3>2. q[i + 1].seq = NoSeq /\ q[i + 1].part \in lo + 1 .. hi
      BY <2>1, <3>1 DEF Numbered
    <3>3. QED
      BY <1>2, <2>1, <3>1, <3>2
  <2>2. ASSUME NEW i \in 1 .. Len(r), NEW j \in 1 .. Len(r), i < j,
               IsPush(r[i]), IsPush(r[j])
        PROVE  r[i].part < r[j].part
    <3>1. i + 1 \in 1 .. Len(q) /\ j + 1 \in 1 .. Len(q) /\ i + 1 < j + 1
      BY <1>1, <2>2
    <3>2. QED
      BY <1>1, <2>2, <3>1 DEF Numbered
  <2>3. ASSUME NEW n \in m + 1 .. hi
        PROVE  \E i \in 1 .. Len(r) : IsPush(r[i]) /\ r[i].part = n
    <3>1. n \in lo + 1 .. hi
      BY <1>2
    <3>2. PICK i \in 1 .. Len(q) : IsPush(q[i]) /\ q[i].part = n
      BY <3>1 DEF Numbered
    <3>3. i # 1
      BY <1>2, <3>2
    <3>4. i - 1 \in 1 .. Len(r) /\ r[i - 1] = q[i]
      BY <1>1, <3>3
    <3>5. QED
      BY <3>2, <3>4
  <2>4. QED
    BY <1>2, <2>1, <2>2, <2>3 DEF Numbered
<1>3. /\ \A i \in 1 .. Len(q) : IsPush(q[i]) => q[i].part \in lo + 1 .. hi
      /\ lo <= hi
  BY DEF Numbered
<1>4. ASSUME ~IsPush(q[1])
      PROVE  Numbered(r, lo, hi)
  BY <1>1, <1>2, <1>3, <1>4
<1>5. ASSUME IsPush(q[1])
      PROVE  q[1].seq = NoSeq /\ q[1].part = lo + 1 /\ Numbered(r, lo + 1, hi)
  <2>1. 1 \in 1 .. Len(q)
    BY <1>1
  <2>2. q[1].seq = NoSeq /\ q[1].part \in lo + 1 .. hi /\ lo + 1 \in lo + 1 .. hi
    BY <1>5, <2>1 DEF Numbered
  <2>3. PICK k \in 1 .. Len(q) : IsPush(q[k]) /\ q[k].part = lo + 1
    BY <2>2 DEF Numbered
  <2>4. \A i \in 2 .. Len(q) : IsPush(q[i]) => q[1].part < q[i].part
    BY <1>1, <1>5, <2>1 DEF Numbered
  <2>5. k = 1
    BY <2>2, <2>3, <2>4
  <2>6. \A i \in 2 .. Len(q) : IsPush(q[i]) => q[i].part >= (lo + 1) + 1
    <3>1. \A i \in 2 .. Len(q) : IsPush(q[i]) => q[i].part \in lo + 1 .. hi
      BY <1>3
    <3>2. QED
      BY <2>3, <2>4, <2>5, <3>1
  <2>7. Numbered(r, lo + 1, hi)
    BY <1>2, <2>2, <2>3, <2>5, <2>6
  <2>8. QED
    BY <2>2, <2>3, <2>5, <2>7
<1>6. QED
  BY <1>1, <1>4, <1>5 DEF r

(* A delta gives way at a full queue, and takes no number with it.         *)
LEMMA NumberedWithout ==
    ASSUME NEW q \in Seq(Frame), NEW k \in DeltasIn(q), NEW lo \in Nat, NEW hi \in Nat,
           Numbered(q, lo, hi)
    PROVE  Numbered(Without(q, k), lo, hi)
<1> DEFINE r == Without(q, k)
           at(i) == IF i < k THEN i ELSE i + 1
<1>1. /\ k \in 1 .. Len(q) /\ q[k].type = "delta"
      /\ Len(q) \in Nat /\ Len(r) = Len(q) - 1
  BY DEF DeltasIn, Without
<1>2. \A i \in 1 .. Len(r) : r[i] = q[at(i)] /\ at(i) \in 1 .. Len(q)
  BY <1>1 DEF Without
<1>3. \A i, j \in 1 .. Len(r) : i < j => at(i) < at(j)
  BY <1>1
<1> HIDE DEF r
<1>4. ASSUME NEW i \in 1 .. Len(q), i # k
      PROVE  \E j \in 1 .. Len(r) : r[j] = q[i]
  <2>1. CASE i < k
    <3>1. i \in 1 .. Len(r) /\ at(i) = i
      BY <1>1, <2>1
    <3>2. QED
      BY <1>2, <3>1
  <2>2. CASE i > k
    <3>1. i - 1 \in 1 .. Len(r) /\ at(i - 1) = i
      BY <1>1, <2>2
    <3>2. QED
      BY <1>2, <3>1
  <2>3. QED
    BY <1>1, <1>4, <2>1, <2>2
<1> HIDE DEF at
<1>5. ~IsPush(q[k])
  BY <1>1 DEF IsPush
<1>6. \A n \in lo + 1 .. hi : \E i \in 1 .. Len(r) : IsPush(r[i]) /\ r[i].part = n
  <2>1. ASSUME NEW n \in lo + 1 .. hi
        PROVE  \E i \in 1 .. Len(r) : IsPush(r[i]) /\ r[i].part = n
    <3>1. PICK i \in 1 .. Len(q) : IsPush(q[i]) /\ q[i].part = n
      BY DEF Numbered
    <3>2. QED
      BY <1>4, <1>5, <3>1
  <2>2. QED
    BY <2>1
<1>7. lo <= hi /\ \A i \in 1 .. Len(r) : IsPush(r[i]) =>
          r[i].seq = NoSeq /\ r[i].part \in lo + 1 .. hi
  BY <1>2 DEF Numbered
<1>8. \A i, j \in 1 .. Len(r) : i < j /\ IsPush(r[i]) /\ IsPush(r[j]) =>
          r[i].part < r[j].part
  BY <1>2, <1>3 DEF Numbered
<1>9. Numbered(r, lo, hi)
  BY <1>6, <1>7, <1>8 DEF Numbered
<1>10. QED
  BY <1>9 DEF r

(* The parts of the invariant a step has to keep.                          *)
LEMMA PushTypes ==
    ASSUME PushInv
    PROVE  /\ TypeOK /\ InvClosed /\ InvFull
           /\ loopq \in Seq(Frame) /\ inbox \in Seq(Frame) /\ wire \in Seq(Frame)
           /\ pushes \in Nat /\ overflowed \in BOOLEAN
           /\ \E a, b, c \in Nat : Numbered(wire, a, b) /\ InOrder(b, c)
  BY DEF PushInv, TypeOK, InvPushes

(* Steps that neither move a frame nor the response.                       *)
LEMMA PushIdle ==
    ASSUME PushInv, TypeOK', UNCHANGED <<loopq, inbox, overflowed, pc, pushes, wire>>
    PROVE  PushInv'
<1>1. Subscribed' = Subscribed
  BY DEF Subscribed
<1>2. InvClosed' /\ InvFull'
  BY <1>1, PushTypes DEF InvClosed, InvFull
<1>3. PICK a \in Nat, b \in Nat, c \in Nat : Numbered(wire, a, b) /\ InOrder(b, c)
  BY PushTypes
<1>4. Numbered(wire', a, b) /\ InOrder(b, c)'
  BY <1>1, <1>3 DEF InOrder
<1>5. QED
  BY <1>2, <1>4 DEF PushInv, InvPushes

(* A frame is scheduled on the loop: a push, with the next number, or not. *)
LEMMA PushSchedule ==
    ASSUME PushInv, TypeOK', NEW f \in Frame, Schedule(f),
           UNCHANGED <<inbox, overflowed, pc, wire>>,
           \/ ~IsPush(f) /\ pushes' = pushes
           \/ IsPush(f) /\ f.seq = NoSeq /\ f.part = pushes' /\ pushes' = pushes + 1
    PROVE  PushInv'
<1>1. Subscribed' = Subscribed
  BY DEF Subscribed
<1>2. loopq' = IF Subscribed THEN Append(loopq, f) ELSE loopq
  BY DEF Schedule
<1>3. InvClosed' /\ InvFull'
  BY <1>1, <1>2, PushTypes DEF InvClosed, InvFull
<1>4. PICK a \in Nat, b \in Nat, c \in Nat : Numbered(wire, a, b) /\ InOrder(b, c)
  BY PushTypes
<1>5. InOrder(b, c)'
  <2>1. SUFFICES ASSUME Subscribed
                 PROVE  /\ ~(overflowed /\ pc = "check") => Numbered(inbox, b, c)
                        /\ ~overflowed => Numbered(loopq', c, pushes')
    BY <1>1 DEF InOrder
  <2>2. ASSUME ~overflowed
        PROVE  Numbered(loopq', c, pushes')
    <3>1. Numbered(loopq, c, pushes) /\ loopq' = Append(loopq, f)
      BY <1>2, <1>4, <2>1, <2>2 DEF InOrder
    <3>2. QED
      BY <3>1, NumberedAppend, PushTypes
  <2>3. QED
    BY <1>4, <2>1, <2>2 DEF InOrder
<1>6. QED
  BY <1>3, <1>4, <1>5 DEF PushInv, InvPushes

(* Subscription.offer: a push that finds the queue full takes a delta's    *)
(* place, or overflows the queue; and nothing gets in behind an overflow.  *)
LEMMA PushOffer ==
    ASSUME PushInv, TypeOK', Offer
    PROVE  PushInv'
<1> DEFINE f == Head(loopq)
<1>1. /\ Subscribed /\ loopq # <<>> /\ loopq' = Tail(loopq)
      /\ pc' = pc /\ wire' = wire /\ pushes' = pushes
  BY DEF Offer, streamVars
<1>2. Subscribed' = Subscribed
  BY <1>1 DEF Subscribed
<1>3. InvClosed'
  BY <1>1, <1>2, PushTypes DEF InvClosed, Subscribed
<1>4. f \in Frame /\ Len(inbox) \in Nat /\ QueueSize \in Nat
  BY <1>1, PushTypes, ConstantsAssumption
<1>5. PICK a \in Nat, b \in Nat, c \in Nat : Numbered(wire, a, b) /\ InOrder(b, c)
  BY PushTypes
<1>6. CASE overflowed
  <2>1. CASE pc = "check"
    <3>1. overflowed' = overflowed \/ overflowed' = TRUE
      BY DEF Offer
    <3>2. InvFull' /\ InOrder(b, c)'
      BY <1>1, <1>6, <2>1, <3>1 DEF InvFull, InOrder
    <3>3. QED
      BY <1>1, <1>3, <1>5, <3>2 DEF PushInv, InvPushes
  <2>2. CASE pc # "check"
    <3>1. Len(inbox) >= QueueSize /\ DeltasIn(inbox) = {}
      BY <1>1, <1>6, <2>2, PushTypes DEF InvFull
    <3>2. inbox' = inbox /\ overflowed'
      <4>1. ~(Len(inbox) < QueueSize) /\ ~\E i \in DeltasIn(inbox) : TRUE
        BY <1>4, <3>1
      <4>2. inbox' = inbox /\ (overflowed' = overflowed \/ overflowed' = TRUE)
        BY <4>1 DEF Offer
      <4>3. QED
        BY <1>6, <4>2
    <3>3. InvFull'
      BY <3>1, <3>2 DEF InvFull, DeltasIn
    <3>4. InOrder(b, c)'
      BY <1>1, <1>2, <1>5, <1>6, <2>2, <3>2 DEF InOrder
    <3>5. QED
      BY <1>1, <1>3, <1>5, <3>3, <3>4 DEF PushInv, InvPushes
  <2>3. QED
    BY <2>1, <2>2
<1>7. CASE ~overflowed
  <2>1. Numbered(inbox, b, c) /\ Numbered(loopq, c, pushes)
    BY <1>1, <1>5, <1>7 DEF InOrder
  <2>2. PICK d \in Nat :
          /\ Numbered(loopq', d, pushes)
          /\ \/ ~IsPush(f) /\ d = c
             \/ IsPush(f) /\ f.seq = NoSeq /\ f.part = c + 1 /\ d = c + 1
    BY <1>1, <2>1, NumberedTail, PushTypes
  <2>3. ASSUME NEW q \in Seq(Frame), Numbered(q, b, c), inbox' = Append(q, f),
               overflowed' = overflowed
        PROVE  PushInv'
    <3>1. Numbered(inbox', b, d)
      BY <1>4, <2>2, <2>3, NumberedAppend
    <3>2. InOrder(b, d)' /\ InvFull'
      BY <1>1, <1>2, <1>7, <2>2, <2>3, <3>1 DEF InOrder, InvFull
    <3>3. QED
      BY <1>1, <1>3, <1>5, <3>2 DEF PushInv, InvPushes
  <2>4. CASE Len(inbox) < QueueSize
    <3>1. inbox' = Append(inbox, f) /\ overflowed' = overflowed
      BY <1>4, <2>4 DEF Offer
    <3>2. QED
      BY <2>1, <2>3, <3>1, PushTypes
  <2>5. CASE Len(inbox) >= QueueSize /\ f.type = "delta"
    <3>1. inbox' = inbox /\ overflowed' = overflowed /\ ~IsPush(f)
      BY <1>4, <2>5 DEF Offer, IsPush
    <3>2. InOrder(b, c)' /\ InvFull'
      BY <1>1, <1>2, <1>7, <2>1, <2>2, <3>1 DEF InOrder, InvFull
    <3>3. QED
      BY <1>1, <1>3, <1>5, <3>2 DEF PushInv, InvPushes
  <2>6. CASE Len(inbox) >= QueueSize /\ f.type # "delta" /\ DeltasIn(inbox) # {}
    <3>1. PICK i \in DeltasIn(inbox) : inbox' = Append(Without(inbox, i), f)
      BY <1>4, <2>6 DEF Offer
    <3>2. overflowed' = overflowed
      BY <1>4, <2>6 DEF Offer
    <3>3. Without(inbox, i) \in Seq(Frame)
      BY <3>1, WithoutType, PushTypes DEF DeltasIn
    <3>4. Numbered(Without(inbox, i), b, c)
      BY <2>1, <3>1, NumberedWithout, PushTypes
    <3>5. QED
      BY <2>3, <3>1, <3>2, <3>3, <3>4
  <2>7. CASE Len(inbox) >= QueueSize /\ f.type # "delta" /\ DeltasIn(inbox) = {}
    <3>1. inbox' = inbox /\ overflowed' = TRUE
      BY <1>4, <2>7 DEF Offer
    <3>2. InvFull'
      BY <2>7, <3>1 DEF InvFull, DeltasIn
    <3>3. InOrder(b, c)'
      BY <1>2, <2>1, <3>1 DEF InOrder
    <3>4. QED
      BY <1>1, <1>3, <1>5, <3>2, <3>3 DEF PushInv, InvPushes
  <2>8. QED
    BY <1>4, <2>4, <2>5, <2>6, <2>7
<1>8. QED
  BY <1>6, <1>7, PushTypes

(* The response's control moves on; an overflow it has read of ends it.    *)
LEMMA PushControl ==
    ASSUME PushInv, TypeOK', Subscribed, Subscribed', pc = "check" => ~overflowed,
           pc' = "next" => ~overflowed \/ pc = "next",
           UNCHANGED <<loopq, inbox, overflowed, pushes, wire>>
    PROVE  PushInv'
<1>1. InvClosed'
  BY DEF InvClosed, Subscribed
<1>2. InvFull'
  <2>1. InvFull
    BY PushTypes
  <2>2. QED
    BY <2>1 DEF InvFull, DeltasIn
<1>3. PICK a \in Nat, b \in Nat, c \in Nat : Numbered(wire, a, b) /\ InOrder(b, c)
  BY PushTypes
<1>4. InOrder(b, c)'
  BY <1>3 DEF InOrder
<1>5. QED
  BY <1>1, <1>2, <1>3, <1>4 DEF PushInv, InvPushes

(* The response is over, or hung up on: the queues of the hub are gone.    *)
LEMMA PushClosed ==
    ASSUME PushInv, TypeOK', ~Subscribed', loopq' = <<>>, inbox' = <<>>,
           wire' = <<>> \/ (wire' = wire /\ pc' \notin {"off", "requested"})
    PROVE  PushInv'
<1>1. InvClosed' /\ InvFull'
  BY DEF InvClosed, InvFull
<1>2. \A b, c \in Nat : InOrder(b, c)'
  BY DEF InOrder
<1>3. \E a, b \in Nat : Numbered(wire', a, b)
  <2>1. CASE wire' = <<>>
    BY <2>1, NumberedEmpty
  <2>2. CASE wire' = wire
    BY <2>2, PushTypes
  <2>3. QED
    BY <2>1, <2>2
<1>4. InvPushes'
  BY <1>2, <1>3 DEF InvPushes
<1>5. QED
  BY <1>1, <1>4 DEF PushInv

(* A new response starts behind whatever has been pushed before it.        *)
LEMMA PushSubscribe ==
    ASSUME PushInv, TypeOK', Subscribe
    PROVE  PushInv'
<1>1. /\ pc = "requested" /\ pc' = "opening" /\ inbox' = <<>> /\ overflowed' = FALSE
      /\ loopq' = loopq /\ wire' = wire /\ pushes' = pushes
  BY DEF Subscribe
<1>2. loopq = <<>> /\ wire = <<>> /\ pushes \in Nat
  BY <1>1, PushTypes DEF InvClosed, Subscribed
<1>3. InvClosed' /\ InvFull'
  BY <1>1 DEF InvClosed, InvFull, Subscribed
<1>4. Numbered(<<>>, pushes, pushes)
  BY <1>2, NumberedEmpty
<1>5. InOrder(pushes, pushes)' /\ Numbered(wire', pushes, pushes)
  BY <1>1, <1>2, <1>4 DEF InOrder
<1>6. QED
  BY <1>1, <1>2, <1>3, <1>5 DEF PushInv, InvPushes

(* The response writes a replayed frame, which is no push, or the head of  *)
(* its subscription, which the cursor lets through when it is a push.      *)
LEMMA PushWrite ==
    ASSUME PushInv, TypeOK', ReplayFrame \/ NextFrame
    PROVE  PushInv'
<1>1. /\ loopq' = loopq /\ overflowed' = overflowed /\ pushes' = pushes /\ Subscribed
      /\ Subscribed'
  BY DEF ReplayFrame, NextFrame, hubVars, Subscribed
<1>2. InvClosed'
  BY <1>1 DEF InvClosed, Subscribed
<1>3. PICK a \in Nat, b \in Nat, c \in Nat : Numbered(wire, a, b) /\ InOrder(b, c)
  BY PushTypes
<1>4. CASE ReplayFrame
  <2>1. pc = "replay" /\ pc' = pc /\ inbox' = inbox
    BY <1>4 DEF ReplayFrame, hubVars
  <2>2. wire' = wire \/ wire' = Append(wire, Durable(replay.seq, replay.part))
    BY <1>4 DEF ReplayFrame, Yield
  <2>3. Durable(replay.seq, replay.part) \in Frame
    <3>1. replay.seq \in Nat /\ replay.part \in Nat
      BY PushTypes DEF TypeOK
    <3>2. QED
      BY <3>1, FrameTypes
  <2>4. ~IsPush(Durable(replay.seq, replay.part))
    BY DEF IsPush, Durable
  <2>5. Numbered(wire', a, b)
    BY <1>3, <2>2, <2>3, <2>4, NumberedAppend, PushTypes
  <2>6. InvFull' /\ InOrder(b, c)'
    BY <1>1, <1>3, <2>1, PushTypes DEF InvFull, InOrder, DeltasIn
  <2>7. QED
    BY <1>2, <2>5, <2>6 DEF PushInv, InvPushes
<1>5. CASE NextFrame
  <2> DEFINE f == Head(inbox)
  <2>1. pc = "next" /\ pc' = "check" /\ inbox # <<>> /\ inbox' = Tail(inbox) /\ Yield(f)
    BY <1>5 DEF NextFrame
  <2>2. InvFull'
    BY <2>1 DEF InvFull
  <2>3. Numbered(inbox, b, c) /\ f \in Frame
    BY <1>1, <1>3, <2>1, PushTypes DEF InOrder
  <2>4. PICK d \in Nat :
          /\ Numbered(inbox', d, c)
          /\ \/ ~IsPush(f) /\ d = b
             \/ IsPush(f) /\ f.seq = NoSeq /\ f.part = b + 1 /\ d = b + 1
    BY <2>1, <2>3, NumberedTail, PushTypes
  <2>5. wire' = Append(wire, f) \/ (wire' = wire /\ ~IsPush(f))
    BY <2>1, <2>4 DEF Yield, Accepts
  <2>6. Numbered(wire', a, d)
    BY <1>3, <2>3, <2>4, <2>5, NumberedAppend, PushTypes
  <2>7. InOrder(d, c)'
    BY <1>1, <1>3, <2>1, <2>4 DEF InOrder
  <2>8. QED
    BY <1>2, <2>2, <2>6, <2>7 DEF PushInv, InvPushes
<1>6. QED
  BY <1>4, <1>5

(* The browser reads the head of the wire.                                 *)
LEMMA PushReceive ==
    ASSUME PushInv, TypeOK', Receive
    PROVE  PushInv'
<1>1. /\ wire # <<>> /\ wire' = Tail(wire) /\ loopq' = loopq /\ inbox' = inbox
      /\ overflowed' = overflowed /\ pc' = pc /\ pushes' = pushes
  BY DEF Receive, hubVars, streamVars
<1>2. Subscribed' = Subscribed
  BY <1>1 DEF Subscribed
<1>3. InvClosed' /\ InvFull'
  BY <1>1, <1>2, PushTypes DEF InvClosed, InvFull, DeltasIn
<1>4. PICK a \in Nat, b \in Nat, c \in Nat : Numbered(wire, a, b) /\ InOrder(b, c)
  BY PushTypes
<1>5. \E d \in Nat : Numbered(wire', d, b)
  <2>1. a + 1 \in Nat
    OBVIOUS
  <2>2. QED
    BY <1>1, <1>4, <2>1, NumberedTail, PushTypes
<1>6. InOrder(b, c)'
  BY <1>1, <1>2, <1>4 DEF InOrder
<1>7. QED
  BY <1>3, <1>5, <1>6 DEF PushInv, InvPushes

LEMMA PushStep ==
    ASSUME PushInv, [Next]_vars
    PROVE  PushInv'
<1>1. TypeOK /\ TypeOK' /\ InvClosed
  BY PushTypes, TypeStep
<1>2. ASSUME NEW t \in Committers, Commit(t)
      PROVE  PushInv'
  BY <1>1, <1>2, PushIdle DEF Commit, hubVars, streamVars
<1>3. ASSUME NEW t \in Committers, Ingest(t)
      PROVE  PushInv'
  <2> DEFINE h == hook[t]
             f == Durable(h.seq, h.part)
  <2>1. h \in [seq : Int, part : Nat]
    BY <1>1 DEF TypeOK
  <2>2. f \in Frame /\ ~IsPush(f)
    BY <2>1, FrameTypes DEF IsPush, Durable
  <2>3. UNCHANGED <<inbox, overflowed, pc, wire, pushes>>
    BY <1>3 DEF Ingest, streamVars
  <2>4. Schedule(f) \/ loopq' = loopq
    BY <1>3 DEF Ingest
  <2>5. QED
    BY <1>1, <2>2, <2>3, <2>4, PushIdle, PushSchedule
<1>4. CASE Bind
  BY <1>1, <1>4, PushIdle DEF Bind, hubVars, streamVars
<1>5. CASE OnDelta
  <2>1. Delta \in Frame /\ ~IsPush(Delta)
    BY FrameTypes DEF IsPush, Delta
  <2>2. Schedule(Delta) /\ UNCHANGED <<inbox, overflowed, pc, wire, pushes>>
    BY <1>5 DEF OnDelta, streamVars
  <2>3. QED
    BY <1>1, <2>1, <2>2, PushSchedule
<1>6. CASE Push
  <2> DEFINE f == Pushed(pushes + 1)
  <2>1. Schedule(f) /\ pushes' = pushes + 1 /\ UNCHANGED <<inbox, overflowed, pc, wire>>
    BY <1>6 DEF Push, streamVars
  <2>2. pushes + 1 \in Nat
    BY PushTypes
  <2>3. f \in Frame /\ IsPush(f) /\ f.seq = NoSeq /\ f.part = pushes + 1
    BY <2>2, FrameTypes DEF IsPush, Pushed
  <2>4. QED
    BY <1>1, <2>1, <2>3, PushSchedule
<1>7. CASE Replay \/ ReplayDone \/ Heartbeat \/ (CheckOverflow /\ ~overflowed)
  <2>1. /\ UNCHANGED <<loopq, inbox, overflowed, pushes, wire>>
        /\ Subscribed /\ Subscribed' /\ (pc = "check" => ~overflowed)
        /\ (pc' = "next" => ~overflowed)
    BY <1>7 DEF Replay, ReplayDone, Heartbeat, CheckOverflow, hubVars, Subscribed
  <2>2. QED
    BY <1>1, <2>1, PushControl
<1>8. CASE CheckOverflow /\ overflowed
  <2>1. loopq' = <<>> /\ inbox' = <<>> /\ wire' = wire /\ pc' = "ended"
    BY <1>8 DEF CheckOverflow
  <2>2. QED
    BY <1>1, <2>1, PushClosed DEF Subscribed
<1>9. CASE StreamEnded \/ Faults
  <2>1. loopq' = <<>> /\ inbox' = <<>> /\ wire' = <<>> /\ pc' = "off"
    BY <1>9 DEF StreamEnded, Faults, Disconnect, Restart, Unmount, Hangup
  <2>2. QED
    BY <1>1, <2>1, PushClosed DEF Subscribed
<1>10. CASE Connect
  <2>1. /\ pc = "off" /\ pc' = "requested" /\ loopq' = loopq /\ inbox' = inbox
        /\ wire' = wire
    BY <1>10 DEF Connect, hubVars
  <2>2. loopq' = <<>> /\ inbox' = <<>> /\ wire' = <<>>
    BY <1>1, <2>1 DEF InvClosed, Subscribed
  <2>3. QED
    BY <1>1, <2>1, <2>2, PushClosed DEF Subscribed
<1>11. CASE FoldEvent \/ Mount \/ EvictConversation
  BY <1>1, <1>11, PushIdle DEF FoldEvent, Mount, EvictConversation, hubVars, streamVars
<1>12. CASE UNCHANGED vars
  BY <1>1, <1>12, PushIdle DEF vars, hubVars, streamVars
<1>13. QED
  BY <1>1, <1>2, <1>3, <1>4, <1>5, <1>6, <1>7, <1>8, <1>9, <1>10, <1>11, <1>12,
     PushOffer, PushSubscribe, PushWrite, PushReceive DEF Next, Engine, EventLoop, Browser

(* Between two pushes of one response there is no push missing: only a     *)
(* delta gives way at a full subscription queue, and a response that lost  *)
(* anything else ends before it writes a later frame.  For every number of *)
(* committing threads, seed, queue size and number of faults.              *)
THEOREM NoPushLost == Spec => []PushesContiguous
<1>1. Init => PushInv
  <2>1. SUFFICES ASSUME Init PROVE PushInv
    OBVIOUS
  <2>2. loopq = <<>> /\ inbox = <<>> /\ wire = <<>> /\ pc = "off" /\ pushes = 0
    BY <2>1 DEF Init
  <2>3. ~Subscribed /\ InvClosed /\ InvFull
    BY <2>2 DEF Subscribed, InvClosed, InvFull
  <2>4. Numbered(wire, 0, 0) /\ InOrder(0, 0)
    BY <2>2, <2>3, NumberedEmpty DEF InOrder
  <2>5. QED
    BY <2>1, <2>3, <2>4, TypeInit DEF PushInv, InvPushes
<1>2. PushInv /\ [Next]_vars => PushInv'
  BY PushStep
<1>3. PushInv => PushesContiguous
  <2>1. SUFFICES ASSUME PushInv PROVE PushesContiguous
    OBVIOUS
  <2>2. PICK a \in Nat, b \in Nat : Numbered(wire, a, b)
    BY <2>1, PushTypes
  <2>3. wire \in Seq(Frame)
    BY <2>1, PushTypes
  <2>4. SUFFICES ASSUME NEW i \in 1 .. Len(wire), NEW j \in 1 .. Len(wire), i < j,
                        {wire[i].type, wire[j].type} = {"push"},
                        \A k \in i + 1 .. j - 1 : wire[k].type # "push"
                 PROVE  wire[j].part = wire[i].part + 1
    BY DEF PushesContiguous
  <2>5. IsPush(wire[i]) /\ IsPush(wire[j]) /\ \A k \in i + 1 .. j - 1 : ~IsPush(wire[k])
    BY <2>4 DEF IsPush
  <2>6. QED
    BY <2>2, <2>3, <2>4, <2>5, NumberedContiguous
<1>4. QED
  BY <1>1, <1>2, <1>3, PTL DEF Spec

=============================================================================
