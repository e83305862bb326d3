---------------------------- MODULE SseDecoding ----------------------------
(***************************************************************************)
(* The wire of the session stream (web/src/app/sse): the decoder turns     *)
(* chunks of body into frames as they arrive, cut anywhere, and a frame    *)
(* becomes an event or is skipped.  The body is a sequence of the terminals*)
(* CR and LF and of whole fields; what a field's value says is left out,   *)
(* except whether data parses and an id is a number.                       *)
(***************************************************************************)
EXTENDS Integers, Sequences, SequencesExt, FiniteSets

CONSTANTS Tokens,           \* fields a body may hold, besides the terminals
          MaxText           \* bound: tokens of one response

VARIABLES body,             \* the response body
          readTo,           \* how much of it has been read
          decoder,          \* SseDecoder: buffer, event, data and id so far
          frames,           \* frames handed on
          closed            \* the body has ended and the decoder was flushed

sseVars == <<body, readTo, decoder, frames, closed>>

CR == "CR"
LF == "LF"
Terminals == {CR, LF}
Fresh == [buffer |-> <<>>, event |-> <<>>, data |-> <<>>, id |-> <<>>]

(* nextLineBreak: a CR at the end of the buffer may be half of a CRLF.     *)
BreakAtCR(buf, i) == buf[i] \in Terminals
BreakAt(buf, i) == buf[i] = LF \/ (buf[i] = CR /\ i < Len(buf))
BreakEnd(buf, i) == IF buf[i] = CR /\ i < Len(buf) /\ buf[i + 1] = LF THEN i + 1 ELSE i

Frame(d) == [event |-> d.event, data |-> d.data, id |-> d.id]
Cleared(d) == [Fresh EXCEPT !.buffer = d.buffer]

(* #dispatch: a block without data is no event; every field starts anew.   *)
Dispatch(s) == [d |-> Cleared(s.d),
                out |-> IF s.d.data = <<>> THEN s.out ELSE Append(s.out, Frame(s.d))]

(* #handleLine: a blank line ends the block; comments and unknown fields   *)
(* are ignored, data lines add up, the last event and id win.              *)
HandleLine(s, line) ==
    IF line = <<>> THEN Dispatch(s)
    ELSE [s EXCEPT !.d = CASE line[1] = "event" -> [s.d EXCEPT !.event = <<"event">>]
                           [] line[1] \in {"data", "junk"} -> [s.d EXCEPT !.data = Append(@, line[1])]
                           [] line[1] = "id" -> [s.d EXCEPT !.id = <<"id">>]
                           [] OTHER -> s.d]

(* push: every complete line of the buffer, one after the other.           *)
Push[s \in [d : [buffer : Seq(Tokens \cup Terminals), event : Seq(Tokens),
                 data : Seq(Tokens), id : Seq(Tokens)], out : Seq([event : Seq(Tokens),
                 data : Seq(Tokens), id : Seq(Tokens)])]] ==
    LET buf == s.d.buffer
        breaks == {i \in DOMAIN buf : BreakAt(buf, i)}
    IN  IF breaks = {} THEN s
        ELSE LET i == Min(breaks)
                 rest == [s EXCEPT !.d.buffer = SubSeq(buf, BreakEnd(buf, i) + 1, Len(buf))]
             IN  Push[HandleLine(rest, SubSeq(buf, 1, i - 1))]

(* flush: a residual line, then the block the body ended in.               *)
Flush(s) ==
    LET rest == [s EXCEPT !.d.buffer = <<>>]
    IN  Dispatch(IF s.d.buffer = <<>> THEN rest ELSE HandleLine(rest, s.d.buffer))

(* parseUIEvent: no event line, or data that is not an object, is skipped; *)
(* only the frame's own id line gives a seq.                               *)
ParseUIEvent(f) == IF f.event = <<>> \/ "junk" \in ToSet(f.data) THEN <<>>
                   ELSE <<[seq |-> f.id, data |-> f.data]>>

---------------------------------------------------------------------------
(* A line of the server is a field or nothing; its last is complete.       *)
WellFormed(t) == /\ \A i \in DOMAIN t : i < Len(t) /\ t[i] \notin Terminals => t[i + 1] \in Terminals
                 /\ t # <<>> => t[Len(t)] # CR

SseInit == /\ body \in {t \in SeqOf(Tokens \cup Terminals, MaxText) : WellFormed(t)}
           /\ readTo = 0 /\ decoder = Fresh /\ frames = <<>> /\ closed = FALSE

(* reader.read() hands over some more of the body.                         *)
ReadChunk == \E n \in readTo + 1 .. Len(body) :
    LET s == Push[[d |-> [decoder EXCEPT !.buffer = @ \o SubSeq(body, readTo + 1, n)], out |-> frames]]
    IN  /\ decoder' = s.d /\ frames' = s.out /\ readTo' = n /\ UNCHANGED <<body, closed>>

EndOfBody == /\ readTo = Len(body) /\ ~closed /\ closed' = TRUE
             /\ LET s == Flush([d |-> decoder, out |-> frames])
                IN  decoder' = s.d /\ frames' = s.out
             /\ UNCHANGED <<body, readTo>>

SseNext == ReadChunk \/ EndOfBody

---------------------------------------------------------------------------
(* The reference: the lines of the whole body, and its blocks.             *)
Ascending(S) == [k \in 1..Cardinality(S) |-> CHOOSE x \in S : Cardinality({y \in S : y < x}) = k - 1]
Lines(t) ==
    LET ends == {i \in DOMAIN t : t[i] = LF \/ (t[i] = CR /\ ~(i < Len(t) /\ t[i + 1] = LF))}
        bounds == Ascending(ends \cup {0, Len(t) + 1})
        Line(k) == SelectSeq(SubSeq(t, bounds[k] + 1, bounds[k + 1] - 1), LAMBDA c : c \notin Terminals)
    IN  [k \in 1..Len(bounds) - 1 |-> Line(k)]
BlockOf(ls, a, b) ==
    LET own == {ls[k][1] : k \in {m \in a..b : ls[m] # <<>>}}
        data == SelectSeq(FlattenSeq(SubSeq(ls, a, b)), LAMBDA c : c \in {"data", "junk"})
    IN  [event |-> IF "event" \in own THEN <<"event">> ELSE <<>>, data |-> data,
         id |-> IF "id" \in own THEN <<"id">> ELSE <<>>]
Blocks(t) ==
    LET ls == Lines(t)
        blanks == Ascending({k \in DOMAIN ls : ls[k] = <<>>} \cup {0, Len(ls) + 1})
        all == [k \in 1..Len(blanks) - 1 |-> BlockOf(ls, blanks[k] + 1, blanks[k + 1] - 1)]
    IN  SelectSeq(all, LAMBDA f : f.data # <<>>)

(* However the body is cut into chunks, the frames are the blocks of the   *)
(* body, the last one also without its blank line, each with its own id.   *)
FramesAreBlocks == closed => frames = Blocks(body)

(* Nothing read so far is lost or ahead of the body: the events of a       *)
(* partial read are a prefix of the events of the whole.                   *)
EventsArePrefix ==
    LET Events(fs) == FlattenSeq([k \in DOMAIN fs |-> ParseUIEvent(fs[k])])
    IN  IsPrefix(Events(frames), Events(Blocks(body)))

(* Where the network cuts the body is invisible: neither during the read   *)
(* nor at its end does a chunk boundary change what is decoded.            *)
ChunkingInvisible == FramesAreBlocks /\ EventsArePrefix
=============================================================================
