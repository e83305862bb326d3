-------------------------- MODULE StreamingPreview --------------------------
(***************************************************************************)
(* The streaming preview: bytes of a model call pushed while it runs       *)
(* (hub.py on_delta), carried by the same response as the durable frames   *)
(* but never replayed, merged per animation frame (stream/coalesce.ts),    *)
(* buffered by the fold (fold/delta-buffer.ts) and repainted by the        *)
(* durable text.  One session, one call at a time; a call may be retried   *)
(* under its own id.  The preview survives a reconnect, the frames on the  *)
(* way do not.                                                             *)
(***************************************************************************)
EXTENDS Integers, Sequences, SequencesExt, FiniteSets

CONSTANTS Indices,          \* block indices of a call
          MaxCalls,         \* bound: calls of the turn
          MaxAttempts,      \* bound: attempts of one call
          MaxDeltas,        \* bound: delta frames over the turn
          MaxBatch,         \* bound: frames waiting for one paint
          MaxConnects       \* bound: connections

VARIABLES call, attempt, said,  \* the call in flight, its attempt, deltas so far
          log,              \* durable frames, by seq
          queue,            \* Subscription: frames offered to the response
          stage,            \* of the response: "none", "subscribed", "live"
          sent,             \* the response's cursor
          overtaken,        \* some replay passed a frame queued behind a delta
          connects,
          batch,            \* frames the batcher holds for the next paint
          applied,          \* the fold's cursor
          preview           \* ConversationState.delta: "null" or one call's blocks

previewVars == <<call, attempt, said, log, queue, stage, sent, overtaken,
                 connects, batch, applied, preview>>

NoPreview == [callId |-> 0, blocks |-> [i \in Indices |-> <<>>]]
DeltaKinds == {"text", "thinking"}

(* A block is a kind and a text; a text is the sequence of its tokens.     *)
OfKind(block, kind) == block # <<>> /\ block[1].kind = kind

(* applyDelta: another call replaces the buffer, another kind the block.   *)
ApplyDelta(state, f) ==
    LET base == IF state.callId = f.callId THEN state
                ELSE [NoPreview EXCEPT !.callId = f.callId]
        block == base.blocks[f.index]
        text == IF OfKind(block, f.kind) THEN block[1].text ELSE <<>>
    IN  [base EXCEPT !.blocks[f.index] = <<[kind |-> f.kind, text |-> text \o f.text]>>]

ResetCallNever(state, callId) == state
ResetCall(state, callId) == IF state.callId = callId THEN NoPreview ELSE state

Repaints == {"assistant_text", "turn_finished"}

(* What the fold does to the preview: durable frames at or below its       *)
(* cursor are duplicates; the text of a call and the end of a turn clear.  *)
FoldFrame(s, f) ==
    CASE f.type = "delta" -> [s EXCEPT !.preview = ApplyDelta(s.preview, f)]
      [] f.type # "delta" /\ f.seq <= s.applied -> s
      [] f.type = "llm_retry" /\ f.seq > s.applied ->
            [applied |-> f.seq, preview |-> ResetCall(s.preview, f.callId)]
      [] f.type \in Repaints /\ f.seq > s.applied ->
            [applied |-> f.seq, preview |-> NoPreview]
      [] OTHER -> [s EXCEPT !.applied = f.seq]
FoldFrames(s, frames) == FoldLeft(FoldFrame, s, frames)

(* coalesceEvents: runs of deltas of one call, merged block by block at    *)
(* the place of their first frame; any other frame ends every run.         *)
ShutsRuns(f) == f.type # "delta"
Merge(acc, f) ==
    IF ShutsRuns(f) THEN [out |-> Append(acc.out, f), open |-> [i \in Indices |-> 0], call |-> 0]
    ELSE IF f.type # "delta" THEN [acc EXCEPT !.out = Append(acc.out, f)]
    ELSE LET open == IF acc.call = f.callId THEN acc.open ELSE [i \in Indices |-> 0]
             at == open[f.index]
         IN  IF at = 0 \/ acc.out[at].kind # f.kind
             THEN [out |-> Append(acc.out, f), call |-> f.callId,
                   open |-> [open EXCEPT ![f.index] = Len(acc.out) + 1]]
             ELSE [out |-> [acc.out EXCEPT ![at].text = @ \o f.text],
                   call |-> f.callId, open |-> open]
CoalesceEvents(frames) ==
    FoldLeft(Merge, [out |-> <<>>, open |-> [i \in Indices |-> 0], call |-> 0], frames).out

(* renderDeltaBlocks: blocks without characters are not drawn.             *)
RenderDeltaBlocks(state) ==
    {i \in Indices : state.blocks[i] # <<>> /\ state.blocks[i][1].text # <<>>}

---------------------------------------------------------------------------
PreviewInit ==
    /\ call = 1 /\ attempt = 1 /\ said = 0 /\ log = <<>>
    /\ queue = <<>> /\ stage = "none" /\ sent = 0 /\ overtaken = FALSE /\ connects = 0
    /\ batch = <<>> /\ applied = 0 /\ preview = NoPreview

Offer(f) == queue' = IF stage = "none" THEN queue ELSE Append(queue, f)
InTurn == call <= MaxCalls

client == <<batch, applied, preview>>
response == <<stage, sent, overtaken, connects>>

(* on_delta: a chunk of the running attempt, which may be empty; a full    *)
(* queue drops it.                                                         *)
OnDelta == \E i \in Indices, kind \in DeltaKinds, empty \in BOOLEAN, drop \in BOOLEAN :
    /\ InTurn /\ said < MaxDeltas /\ said' = said + 1
    /\ LET text == IF empty THEN <<>> ELSE <<<<call, attempt, said>>>>
       IN  IF drop THEN UNCHANGED queue
           ELSE Offer([type |-> "delta", callId |-> call, kind |-> kind, index |-> i, text |-> text])
    /\ UNCHANGED <<call, attempt, log, response, client>>

Commit(type) == LET f == [type |-> type, seq |-> Len(log) + 1, callId |-> call]
                IN  log' = Append(log, f) /\ Offer(f)

(* LLMRetryScheduled: the call streams again, under the same id.           *)
ScheduleRetry == /\ InTurn /\ attempt < MaxAttempts
                 /\ attempt' = attempt + 1 /\ Commit("llm_retry")
                 /\ UNCHANGED <<call, said, response, client>>

(* The call answers: its text is durable now.                              *)
AnswerCall == /\ InTurn
              /\ Commit("assistant_text") /\ call' = call + 1 /\ attempt' = 1
              /\ UNCHANGED <<said, response, client>>

EndTurn == /\ ~InTurn /\ (log # <<>> => Last(log).type # "turn_finished")
           /\ Commit("turn_finished")
           /\ UNCHANGED <<call, attempt, said, response, client>>

(* events(): subscribe first, read the replay afterwards.                  *)
OpenResponse == /\ stage = "none" /\ connects < MaxConnects
                /\ stage' = "subscribed" /\ connects' = connects + 1
                /\ queue' = <<>> /\ sent' = applied
                /\ UNCHANGED <<call, attempt, said, log, overtaken, client>>

Overtakes == \E i, j \in DOMAIN queue : i < j /\ queue[i].type = "delta" /\ queue[j].type # "delta"

SendReplay == /\ stage = "subscribed" /\ stage' = "live"
              /\ batch' = SubSeq(log, sent + 1, Len(log)) /\ sent' = Len(log)
              /\ overtaken' = (overtaken \/ Overtakes)
              /\ UNCHANGED <<call, attempt, said, log, queue, connects, applied, preview>>

(* Cursor.accepts: a frame without a seq always passes.                    *)
Accepts(f) == f.type = "delta" \/ f.seq > sent
SendLive == /\ stage = "live" /\ queue # <<>> /\ Len(batch) < MaxBatch
            /\ queue' = Tail(queue)
            /\ batch' = IF Accepts(Head(queue)) THEN Append(batch, Head(queue)) ELSE batch
            /\ sent' = IF Head(queue).type # "delta" /\ Accepts(Head(queue))
                       THEN Head(queue).seq ELSE sent
            /\ UNCHANGED <<call, attempt, said, log, stage, overtaken, connects, applied, preview>>

(* The paint: one fold of the merged batch.                                *)
FlushBatch == /\ batch # <<>> /\ batch' = <<>>
              /\ LET s == FoldFrames([applied |-> applied, preview |-> preview], CoalesceEvents(batch))
                 IN  applied' = s.applied /\ preview' = s.preview
              /\ UNCHANGED <<call, attempt, said, log, queue, response>>

(* The connection breaks: what was on the way is gone, the preview stays.  *)
BreakResponse == /\ stage # "none" /\ stage' = "none"
                 /\ queue' = <<>> /\ batch' = <<>>
                 /\ UNCHANGED <<call, attempt, said, log, sent, overtaken, connects, applied, preview>>

PreviewNext == \/ OnDelta \/ ScheduleRetry \/ AnswerCall \/ EndTurn
               \/ OpenResponse \/ SendReplay \/ SendLive \/ FlushBatch \/ BreakResponse

---------------------------------------------------------------------------
(* Folding the merged batch gives what folding the raw batch gives: "the   *)
(* correctness contract is equivalence" (coalesce.ts).                     *)
CoalesceSame ==
    LET s == [applied |-> applied, preview |-> preview]
    IN  FoldFrames(s, batch) = FoldFrames(s, CoalesceEvents(batch))

(* A block never splices two attempts of a call: resetCall drops the first *)
(* half-stream before the second arrives.  The replay of a connection      *)
(* must not have overtaken a queued retry.                                 *)
NoSplice == ~overtaken => \A i \in RenderDeltaBlocks(preview) :
    LET text == preview.blocks[i][1].text
    IN  \A m, n \in DOMAIN text :
            /\ text[m][1] = text[n][1] /\ text[m][2] = text[n][2]
            /\ m < n => text[m][3] < text[n][3]

Settled == stage = "live" /\ queue = <<>> /\ batch = <<>> /\ ~InTurn /\ applied = Len(log)

(* Once the client has everything of a turn that is over, no preview is    *)
(* left next to the durable text, unless the replay overtook the queue.    *)
PreviewGone == Settled /\ ~overtaken => RenderDeltaBlocks(preview) = {}

(* The preview is faithful: what a paint merges, what a block shows and    *)
(* what is left of it follow the stream, through retries and reconnects.   *)
PreviewFaithful == CoalesceSame /\ NoSplice /\ PreviewGone
=============================================================================
