----------------------------- MODULE Branching -----------------------------
(***************************************************************************)
(* Going back in a conversation (session/branch): "Edit & retry" forks a   *)
(* session at a message and sends the edited words to the child, "Undo     *)
(* last turn" rewinds the session on screen.  Both are offered on rows of  *)
(* a transcript that lags behind the server, hold what the reader wrote in *)
(* the row's own state, and run as calls that outlive the row.  A seq is   *)
(* the place of an envelope in its session's stream, from 1.               *)
(***************************************************************************)
EXTENDS Integers, Sequences, SequencesExt, FiniteSets, FiniteSetsExt

CONSTANTS Origin, Branches, \* the session at the start, and those forks may make
          MaxEnvelopes,     \* bound: envelopes in a stream
          MaxDeeds          \* bound: acts of the reader and messages from elsewhere

VARIABLES stream,           \* each session's envelopes
          born,             \* sessions that exist
          inherited,        \* the histories a session was born with, its source's last
          screen,           \* the session on screen
          received,         \* how much of each stream its transcript has folded
          bubbles,          \* the user messages of each transcript, as their seqs
          underWay,          \* transcripts that show a running turn
          boxes,            \* open edits
          confirming,       \* rows whose undo is armed
          errands,          \* calls under way
          doubtful,         \* ghost: edits whose failure may be a lost answer
          regretted,        \* ghost: turns shown, not pointed at, and undone
          deeds

branchVars == <<stream, born, inherited, screen, received, bubbles, underWay, boxes, confirming, errands,
                doubtful, regretted, deeds>>

Message(text) == [type |-> "message", text |-> text]
Finished == [type |-> "finished"]
Rewound(target) == [type |-> "rewind", target |-> target]

-----------------------------------------------------------------------------
(* The server's side of a stream *)

TurnOpen(s) == stream[s] # <<>> /\ Last(stream[s]).type = "message"

(* A message counts until a later rewind to a place before it.             *)
LiveIn(envelopes, upto) ==
    {i \in 1 .. upto : /\ envelopes[i].type = "message"
                       /\ \A j \in i + 1 .. upto : envelopes[j].type = "rewind"
                                                       => envelopes[j].target >= i}
(* What these messages say, in the order of their seqs.                    *)
Texts(envelopes, S) == [i \in S |-> envelopes[i].text]
RecordIn(s, envelope) == /\ Len(stream[s]) < MaxEnvelopes
                       /\ stream' = [stream EXCEPT ![s] = Append(@, envelope)]

Deed == deeds < MaxDeeds /\ deeds' = deeds + 1

(* The composer of this page or of another opens a turn; the turn ends.    *)
WriteElsewhere(s) ==
    /\ Deed /\ ~TurnOpen(s) /\ RecordIn(s, Message(0))
    /\ UNCHANGED <<born, inherited, screen, received, bubbles, underWay, boxes, confirming, errands, doubtful,
                   regretted>>
TurnFinishes(s) ==
    /\ TurnOpen(s) /\ RecordIn(s, Finished)
    /\ UNCHANGED <<born, inherited, screen, received, bubbles, underWay, boxes, confirming, errands, doubtful,
                   regretted, deeds>>

-----------------------------------------------------------------------------
(* The rows of the transcript *)

(* A row's React key: the task and the seq of its message.                 *)
BubbleKey(s, k) == <<s, k>>
(* Rows that stay mounted keep what they hold; the others lose it.         *)
MountedRows(s, shown) == {BubbleKey(s, k) : k \in shown}
RenderRows(s, shown, bs, cs, es) ==
    LET rows == MountedRows(s, shown) IN
    /\ boxes' = {b \in bs : b.row \in rows}
    /\ confirming' = cs \cap rows
    /\ errands' = {[e EXCEPT !.mounted = @ /\ e.row \in rows] : e \in es}

Forkable(s, k) == k # Min(bubbles[s])
Latest(s, k) == k = Max(bubbles[s])
Undoable(s, k) == s = Origin /\ Latest(s, k) /\ s \notin underWay
Pending(kind, row) == \E e \in errands : e.kind = kind /\ e.row = row /\ e.mounted

(* A frame of the session on screen: a rewind drops what is past its       *)
(* target.                                                                 *)
Receive ==
    LET next == received[screen] + 1
        frame == stream[screen][next]
    IN  /\ next <= Len(stream[screen])
        /\ received' = [received EXCEPT ![screen] = next]
        /\ bubbles' = [bubbles EXCEPT ![screen] =
               CASE frame.type = "message" -> @ \cup {next}
                 [] frame.type = "rewind"  -> {k \in @ : k <= frame.target}
                 [] OTHER                  -> @]
        /\ underWay' = IF frame.type = "message" THEN underWay ELSE underWay \ {screen}
        /\ RenderRows(screen, bubbles'[screen], boxes, confirming, errands)
        /\ UNCHANGED <<stream, born, inherited, screen, doubtful, regretted, deeds>>

(* Pushed beside the stream when a turn is asked for: before its message,  *)
(* after it, or for one that is then refused.                              *)
TurnStarted ==
    /\ screen \notin underWay /\ underWay' = underWay \cup {screen}
    /\ UNCHANGED <<stream, born, inherited, screen, received, bubbles, boxes, confirming, errands,
                   doubtful, regretted, deeds>>

GoToSession(s, bs, cs, es) == screen' = s /\ RenderRows(s, bubbles[s], bs, cs, es)

LookAt(s) ==
    /\ Deed /\ s \in born \ {screen} /\ GoToSession(s, boxes, confirming, errands)
    /\ UNCHANGED <<stream, born, inherited, received, bubbles, underWay, doubtful, regretted>>

-----------------------------------------------------------------------------
(* Edit & retry *)

OpenEdit(k) ==
    /\ Deed /\ Forkable(screen, k)
    /\ ~\E b \in boxes : b.row = BubbleKey(screen, k)
    /\ boxes' = boxes \cup {[row |-> BubbleKey(screen, k), text |-> deeds', of |-> <<screen, k>>,
                             failed |-> FALSE]}
    /\ UNCHANGED <<stream, born, inherited, screen, received, bubbles, underWay, confirming, errands, doubtful,
                   regretted>>

(* Not disabled while the call is under way, and not its end.              *)
CancelEdit(b) ==
    /\ Deed /\ boxes' = boxes \ {b}
    /\ UNCHANGED <<stream, born, inherited, screen, received, bubbles, underWay, confirming, errands, doubtful,
                   regretted>>

(* What the reader sees above a message.                                   *)
Above(s, k) == Append(inherited[s], Texts(stream[s], {j \in bubbles[s] : j < k}))

Asks(kind, row, k, text, of) ==
    [kind |-> kind, row |-> row, from |-> screen, at |-> k, text |-> text, of |-> of, mounted |-> TRUE,
     stage |-> "asked", child |-> screen, above |-> Above(screen, k), shown |-> bubbles[screen]]

SubmitEdit(b, k) ==
    /\ Deed /\ b.row = BubbleKey(screen, k) /\ Forkable(screen, k) /\ ~Pending("edit", b.row)
    /\ errands' = errands \cup {Asks("edit", b.row, k, b.text, b.of)}
    /\ boxes' = (boxes \ {b}) \cup {[b EXCEPT !.failed = FALSE]}
    /\ UNCHANGED <<stream, born, inherited, screen, received, bubbles, underWay, confirming, doubtful, regretted>>

(* POST /fork: a session of its own, with the turns before the anchor.  The *)
(* opening message has none and is refused.                                *)
ServeFork(e, c) ==
    /\ e.kind = "edit" /\ e.stage = "asked" /\ e.at > 1 /\ c \notin born
    /\ born' = born \cup {c}
    /\ inherited' = [inherited EXCEPT ![c] =
           Append(inherited[e.from], Texts(stream[e.from], LiveIn(stream[e.from], e.at - 1)))]
    /\ errands' = (errands \ {e}) \cup {[e EXCEPT !.stage = "forked", !.child = c]}
    /\ UNCHANGED <<stream, screen, received, bubbles, underWay, boxes, confirming, doubtful, regretted, deeds>>

(* The edited words go to the child, and to no other session.              *)
ServeRetry(e) ==
    /\ e.kind = "edit" /\ e.stage = "forked" /\ RecordIn(e.child, Message(e.text))
    /\ errands' = (errands \ {e}) \cup {[e EXCEPT !.stage = "done"]}
    /\ UNCHANGED <<born, inherited, screen, received, bubbles, underWay, boxes, confirming, doubtful, regretted, deeds>>

(* The box is closed where it is still mounted; the page goes to the child  *)
(* wherever the reader is by now.                                          *)
EditReturns(e) ==
    /\ e.kind = "edit" /\ e.stage = "done"
    /\ GoToSession(e.child, {b \in boxes : ~(e.mounted /\ b.row = e.row)}, confirming, errands \ {e})
    /\ UNCHANGED <<stream, born, inherited, received, bubbles, underWay, doubtful, regretted, deeds>>

(* A refusal, or a request or an answer lost at any stage: the words stay  *)
(* in the box, with the failure under them.                                *)
ErrandFails(e) ==
    /\ errands' = errands \ {e}
    /\ boxes' = {[b EXCEPT !.failed = @ \/ (e.kind = "edit" /\ e.mounted /\ b.row = e.row)] : b \in boxes}
    /\ doubtful' = IF e.kind = "edit" /\ e.stage = "done" THEN doubtful \cup {e.text} ELSE doubtful
    /\ UNCHANGED <<stream, born, inherited, screen, received, bubbles, underWay, confirming, regretted, deeds>>

-----------------------------------------------------------------------------
(* Undo last turn *)

AskUndo(k) ==
    /\ Deed /\ Undoable(screen, k) /\ BubbleKey(screen, k) \notin confirming
    /\ confirming' = confirming \cup {BubbleKey(screen, k)}
    /\ UNCHANGED <<stream, born, inherited, screen, received, bubbles, underWay, boxes, errands, doubtful, regretted>>

CancelUndo(k) ==
    /\ Deed /\ Undoable(screen, k) /\ BubbleKey(screen, k) \in confirming
    /\ confirming' = confirming \ {BubbleKey(screen, k)}
    /\ UNCHANGED <<stream, born, inherited, screen, received, bubbles, underWay, boxes, errands, doubtful, regretted>>

(* Mutant of SubmitUndo: what was armed may be clicked. *)
SubmitUndoArmed(k) ==
    /\ Deed /\ BubbleKey(screen, k) \in confirming
    /\ ~Pending("undo", BubbleKey(screen, k))
    /\ errands' = errands \cup {Asks("undo", BubbleKey(screen, k), k, 0, <<screen, k>>)}
    /\ UNCHANGED <<stream, born, inherited, screen, received, bubbles, underWay, boxes, confirming, doubtful, regretted>>

(* An armed row that is no longer the latest, or whose session runs again, *)
(* shows nothing to click.                                                 *)
SubmitUndo(k) ==
    /\ Deed /\ BubbleKey(screen, k) \in confirming /\ Undoable(screen, k)
    /\ ~Pending("undo", BubbleKey(screen, k))
    /\ errands' = errands \cup {Asks("undo", BubbleKey(screen, k), k, 0, <<screen, k>>)}
    /\ UNCHANGED <<stream, born, inherited, screen, received, bubbles, underWay, boxes, confirming, doubtful, regretted>>

(* POST /rewind: only an idle session, only to a user message of it.       *)
ServeUndo(e) ==
    /\ e.kind = "undo" /\ e.stage = "asked"
    /\ ~TurnOpen(e.from) /\ stream[e.from][e.at].type = "message"
    /\ RecordIn(e.from, Rewound(e.at - 1))
    /\ regretted' = regretted \cup
           ((LiveIn(stream[e.from], Len(stream[e.from])) \ LiveIn(stream'[e.from], Len(stream'[e.from])))
                \cap (e.shown \ {e.at}))
    /\ errands' = (errands \ {e}) \cup {[e EXCEPT !.stage = "done"]}
    /\ UNCHANGED <<born, inherited, screen, received, bubbles, underWay, boxes, confirming, doubtful, deeds>>

(* The transcript is left to the rewind frame.                             *)
UndoReturns(e) ==
    /\ e.kind = "undo" /\ e.stage = "done"
    /\ errands' = errands \ {e}
    /\ confirming' = IF e.mounted THEN confirming \ {e.row} ELSE confirming
    /\ UNCHANGED <<stream, born, inherited, screen, received, bubbles, underWay, boxes, doubtful, regretted, deeds>>

-----------------------------------------------------------------------------
(* Two turns have been taken and are on screen.                            *)
BranchInit ==
    /\ stream = [s \in {Origin} \cup Branches |->
                    IF s = Origin THEN <<Message(0), Finished, Message(0), Finished>> ELSE <<>>]
    /\ born = {Origin} /\ inherited = [s \in {Origin} \cup Branches |-> <<>>]
    /\ screen = Origin
    /\ received = [s \in {Origin} \cup Branches |-> IF s = Origin THEN 4 ELSE 0]
    /\ bubbles = [s \in {Origin} \cup Branches |-> IF s = Origin THEN {1, 3} ELSE {}]
    /\ underWay = {} /\ boxes = {} /\ confirming = {} /\ errands = {} /\ doubtful = {} /\ regretted = {} /\ deeds = 0

BranchNext ==
    \/ \E s \in born : WriteElsewhere(s) \/ TurnFinishes(s) \/ LookAt(s)
    \/ Receive \/ TurnStarted
    \/ \E k \in bubbles[screen] :
          \/ OpenEdit(k) \/ AskUndo(k) \/ CancelUndo(k) \/ SubmitUndo(k)
          \/ \E b \in boxes : SubmitEdit(b, k)
    \/ \E b \in boxes : CancelEdit(b)
    \/ \E e \in errands :
          \/ \E c \in Branches : (\A d \in Branches \ born : c <= d) /\ ServeFork(e, c)
          \/ ServeRetry(e) \/ EditReturns(e) \/ ErrandFails(e) \/ ServeUndo(e) \/ UndoReturns(e)

BranchSpec == BranchInit /\ [][BranchNext]_branchVars

-----------------------------------------------------------------------------
(* A transcript shows the turns that count in the part of the stream it has *)
(* received, whatever was undone in it, once or again (the rewind frame).   *)
TranscriptIsLive ==
    \A s \in born : bubbles[s] = LiveIn(stream[s], received[s])

Landed(text) == {p \in born \X (1 .. MaxEnvelopes) :
                    p[2] \in DOMAIN stream[p[1]] /\ stream[p[1]][p[2]] = Message(text)}

(* An edit is accepted at most once, however often it failed and was tried  *)
(* again, as long as no answer was lost; and once its call has settled the  *)
(* words are in a session or still in their box (Edit & retry).             *)
EditLandsOnce ==
    \A b \in boxes : b.text \notin doubtful =>
        /\ \A p, q \in Landed(b.text) : p = q
        /\ Landed(b.text) # {} => \E e \in errands : e.text = b.text

(* The words go to a child of the message they were written under, which    *)
(* begins with what the reader saw above it; the session it was forked from *)
(* is left alone (useForkAndRetry, POST /fork).                             *)
EditIsBranch ==
    \A e \in errands : e.kind = "edit" =>
        /\ <<e.from, e.at>> = e.of
        /\ e.stage # "asked" => e.child # e.from /\ inherited[e.child] = e.above
        /\ ~\E i \in DOMAIN stream[e.from] : stream[e.from][i] = Message(e.text)

(* An undo takes back no turn the reader saw other than the one pointed at, *)
(* although it was armed on an earlier transcript (UndoLastTurn).           *)
UndoSparesShown == regretted = {}

BranchesSound == TranscriptIsLive /\ EditLandsOnce /\ EditIsBranch /\ UndoSparesShown
=============================================================================
