-------------------------- MODULE TranscriptScroll --------------------------
(***************************************************************************)
(* Who moves the transcript (conversation/scroll): the reader, or the      *)
(* stream.  A scroll event does not say who caused it, so the controller   *)
(* combines a recent gesture, its own programmatic flag and the direction; *)
(* events and animation frames come later than what caused them.  Offsets  *)
(* are counted in lines, each more than the 16 pixels of anchoring jitter. *)
(* In a frame the browser delivers the pending scroll event before it runs *)
(* the animation callbacks.                                                *)
(***************************************************************************)
EXTENDS Integers, FiniteSets

CONSTANTS Transcripts,      \* sessions a reader moves between
          ViewLines,        \* lines the viewport shows
          MaxLines,         \* bound: lines of a transcript
          MaxGestures       \* bound: actions of the reader

ASSUME ScrollAssumption == ViewLines \in Nat \ {0} /\ MaxLines \in Nat

VARIABLES shown,            \* the session on screen
          lines,            \* content height of each transcript
          parked,           \* useScrollStore: mode and offset of each session
          top, lastTop,     \* scrollTop, and scrollTop at the last event
          gestured,         \* a gesture landed inside the window
          programmatic,     \* programmaticRef
          callback,         \* the animation callback that is due
          event,            \* a scroll event is pending
          target,           \* where a smooth scroll is heading, or -1
          unfollowed,       \* ghost: content grew inside the gesture window, or
                            \* the reader moved by what stamps no gesture
          gestures

scrollVars == <<shown, lines, parked, top, lastTop, gestured, programmatic,
                callback, event, target, unfollowed, gestures>>

BottomOf(height) == IF height > ViewLines THEN height - ViewLines ELSE 0
Bottom == BottomOf(lines[shown])
Lesser(m, n) == IF m < n THEN m ELSE n
AtBottom(offset) == offset >= Bottom
Sticky == [mode |-> "sticky", offset |-> 0]

(* decideScroll: the order of the branches is the design.                  *)
DecideScroll(delta) ==
    IF programmatic THEN IF gestured \/ delta < 0 THEN "abandon-programmatic" ELSE "ignore"
    ELSE IF ~gestured /\ delta >= 0 THEN IF AtBottom(top) THEN "rearm-sticky" ELSE "hold"
    ELSE "save"

(* savePosition: the mode is read off the geometry.                        *)
Position == IF AtBottom(top) THEN Sticky ELSE [mode |-> "manual", offset |-> top]

KeepCallback == callback
ClearFrames == "none"

---------------------------------------------------------------------------
ScrollInit ==
    /\ shown \in Transcripts /\ lines = [s \in Transcripts |-> ViewLines]
    /\ parked = [s \in Transcripts |-> Sticky]
    /\ top = 0 /\ lastTop = 0 /\ gestured = FALSE /\ programmatic = FALSE
    /\ callback = "none" /\ event = FALSE /\ target = -1
    /\ unfollowed = FALSE /\ gestures = 0

(* scrollToBottom('auto'): write, hold the flag, write again next frame.   *)
ScrollToBottom(s, bottom) ==
    /\ parked' = [parked EXCEPT ![s] = Sticky]
    /\ programmatic' = TRUE /\ callback' = "write again"
    /\ top' = bottom /\ event' = (event \/ top # bottom) /\ target' = -1

(* Wheel, touch or scrollbar: stamp the gesture, move; a nested scrollable *)
(* keeps both for itself.  The reader's move ends a smooth scroll.         *)
Wheel == \E to \in 0..Bottom :
    /\ gestures < MaxGestures /\ gestures' = gestures + 1
    /\ to \in {top - 1, top, top + 1}
    /\ gestured' = TRUE /\ top' = to /\ event' = (event \/ to # top)
    /\ target' = IF to = top THEN target ELSE -1
    /\ UNCHANGED <<shown, lines, parked, lastTop, programmatic, callback, unfollowed>>

(* A key, or the scrollbar held past the window, scrolls and stamps        *)
(* nothing: its event looks like any other.                                *)
UnstampedScroll == \E to \in 0..Bottom :
    /\ gestures < MaxGestures /\ gestures' = gestures + 1
    /\ to \in {top - 1, top + 1}
    /\ top' = to /\ event' = TRUE /\ target' = -1 /\ unfollowed' = TRUE
    /\ UNCHANGED <<shown, lines, parked, lastTop, gestured, programmatic, callback>>

(* The window of 600 ms outlasts the frame that delivers an event and the  *)
(* smooth scroll that began with it.                                       *)
GestureExpires == /\ gestured /\ ~event /\ target = -1 /\ gestured' = FALSE
                  /\ UNCHANGED <<shown, lines, parked, top, lastTop, programmatic,
                                 callback, event, target, unfollowed, gestures>>

Follows == parked[shown].mode = "sticky" /\ ~gestured

(* The ResizeObserver: growth follows while sticky, unless the reader has  *)
(* touched something within the window.                                    *)
Grow == /\ lines[shown] < MaxLines
        /\ lines' = [lines EXCEPT ![shown] = @ + 1]
        /\ IF Follows
           THEN ScrollToBottom(shown, BottomOf(lines[shown] + 1)) /\ UNCHANGED unfollowed
           ELSE /\ unfollowed' = (unfollowed \/ (gestured /\ parked[shown].mode = "sticky"))
                /\ UNCHANGED <<parked, top, programmatic, callback, event, target>>
        /\ UNCHANGED <<shown, lastTop, gestured, gestures>>

(* Another transcript grows while it is not on screen.                     *)
GrowElsewhere == \E s \in Transcripts \ {shown} :
    /\ lines[s] < MaxLines /\ lines' = [lines EXCEPT ![s] = @ + 1]
    /\ UNCHANGED <<shown, parked, top, lastTop, gestured, programmatic, callback,
                   event, target, unfollowed, gestures>>

(* onScroll.                                                               *)
HandleScroll ==
    LET decision == DecideScroll(top - lastTop)
    IN  /\ lastTop' = top
        /\ parked' = CASE decision \in {"abandon-programmatic", "save"} ->
                              [parked EXCEPT ![shown] = Position]
                       [] decision = "rearm-sticky" -> [parked EXCEPT ![shown] = Sticky]
                       [] OTHER -> parked
        /\ unfollowed' = (unfollowed /\ decision \notin {"abandon-programmatic", "save", "rearm-sticky"})
        /\ programmatic' = (programmatic /\ decision # "abandon-programmatic")
        /\ callback' = IF decision = "abandon-programmatic" THEN ClearFrames ELSE callback
        /\ event' = FALSE
        /\ UNCHANGED <<shown, lines, top, gestured, target, gestures>>
ScrollEvent == event /\ HandleScroll

(* One animation callback: the second write, the two frames that outlast   *)
(* the event of our own scroll, the second placement of a restore.         *)
AnimationFrame ==
    /\ ~event /\ callback # "none"
    /\ callback' = CASE callback = "write again" -> "release 1"
                     [] callback = "release 1" -> "release 2"
                     [] callback = "release 2" -> "none"
                     [] callback = "place again" -> "release 2"
    /\ programmatic' = (programmatic /\ callback # "release 2")
    /\ top' = CASE callback = "write again" -> Bottom
                [] callback = "place again" -> Lesser(parked[shown].offset, Bottom)
                [] OTHER -> top
    /\ lastTop' = IF callback = "place again" THEN top' ELSE lastTop
    /\ event' = (top' # top)
    /\ unfollowed' = (unfollowed /\ callback \notin {"write again", "place again"})
    /\ UNCHANGED <<shown, lines, parked, gestured, target, gestures>>

SmoothStep == /\ ~event /\ target # -1
              /\ top' = IF top < target THEN top + 1 ELSE top
              /\ event' = (top' # top)
              /\ target' = IF top' >= target THEN -1 ELSE target
              /\ UNCHANGED <<shown, lines, parked, lastTop, gestured, programmatic,
                             callback, unfollowed, gestures>>

(* jumpToLatest: a gesture, and a smooth scroll to today's bottom.         *)
JumpToLatest == /\ gestures < MaxGestures /\ gestures' = gestures + 1
                /\ parked[shown].mode = "manual"
                /\ gestured' = TRUE /\ programmatic' = TRUE /\ callback' = "release 1"
                /\ parked' = [parked EXCEPT ![shown] = Sticky]
                /\ target' = Bottom
                /\ UNCHANGED <<shown, lines, top, lastTop, event, unfollowed>>

(* Entering a session restores its own position, or its bottom.            *)
EnterSession == \E s \in Transcripts \ {shown} :
    /\ gestures < MaxGestures /\ gestures' = gestures + 1
    /\ shown' = s /\ gestured' = FALSE /\ unfollowed' = FALSE
    /\ IF parked[s].mode = "sticky"
       THEN ScrollToBottom(s, BottomOf(lines[s])) /\ lastTop' = 0
       ELSE /\ top' = Lesser(parked[s].offset, BottomOf(lines[s]))
            /\ lastTop' = top' /\ programmatic' = TRUE /\ callback' = "place again"
            /\ event' = (event \/ top' # top) /\ target' = -1 /\ UNCHANGED parked
    /\ UNCHANGED lines

ScrollNext == \/ Wheel \/ UnstampedScroll \/ GestureExpires \/ Grow \/ GrowElsewhere \/ ScrollEvent
              \/ AnimationFrame \/ SmoothStep \/ JumpToLatest \/ EnterSession

ScrollSpec == ScrollInit /\ [][ScrollNext]_scrollVars

---------------------------------------------------------------------------
(* While the reader has scrolled away nothing moves the viewport but the   *)
(* reader: no growth, no second write of a scroll they escaped.            *)
ManualHolds == [][top' # top /\ parked[shown].mode = "manual"
                    => Wheel \/ UnstampedScroll \/ SmoothStep \/ EnterSession
                       \/ (callback = "place again" /\ AnimationFrame)]_scrollVars

(* The reader can leave the tail while content growth is re-anchoring: the *)
(* event of a wheel that left the bottom, or of any move up, parks the     *)
(* session where it is.                                                    *)
EscapeWorks == [][event /\ (gestured \/ top < lastTop) /\ ~AtBottom(top) /\ HandleScroll
                    => parked'[shown] = [mode |-> "manual", offset |-> top]]_scrollVars

Quiet == ~event /\ callback = "none" /\ target = -1

(* A session that says it follows is at its bottom once events and frames  *)
(* have run, unless content grew inside the reader's gesture window, or a  *)
(* key moved the reader while the controller was scrolling.                *)
StickyIsBottom == Quiet /\ ~unfollowed /\ parked[shown].mode = "sticky" => AtBottom(top)

(* The parked offset is where the reader is: what a return to the session  *)
(* restores is the place it was left at.  (A move down by key is "hold":   *)
(* it is not saved, and the return is to where the last gesture ended.)    *)
ParkedIsPlace == Quiet /\ ~unfollowed /\ parked[shown].mode = "manual" => parked[shown].offset = top

(* The reader is in control of the viewport: it follows only who follows,  *)
(* and lets go of and returns to the place the reader chose.               *)
ReaderInControl == /\ ManualHolds
                   /\ EscapeWorks
                   /\ []StickyIsBottom
                   /\ []ParkedIsPlace
=============================================================================
