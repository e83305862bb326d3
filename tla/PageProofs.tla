----------------------------- MODULE PageProofs -----------------------------
(***************************************************************************)
(* Proofs about five state machines of the session page that are driven    *)
(* by the reader's hand: the question panel (QuestionForms), for every     *)
(* queue of requests and every order of calls; the scrolling of the        *)
(* transcript (TranscriptScroll), for every number of transcripts, every   *)
(* height and every series of gestures; the keystrokes (CommandKeys), for  *)
(* every number of them; the dock of files (ArtifactPanel), for all        *)
(* sessions, files and transcripts; and going back in a conversation       *)
(* (Branching), for every number of sessions, calls and edits.             *)
(*                                                                         *)
(* Last, the trace page's cache of bodies (ContentBodies), for every       *)
(* number of bodies of every length, any bounds and any order of answers:  *)
(* the count is that of the entries held, both bounds hold, no failure is  *)
(* kept, and the chip shows the body it asks for.  The count is a sum over *)
(* the entries; what is needed of sums is that whatever obeys the          *)
(* recursion of Chars is its value (SumIs).                                *)
(***************************************************************************)
EXTENDS QuestionForms, TranscriptScroll, CommandKeys, ArtifactPanel, Branching, ContentBodies,
        WellFoundedInduction, TLAPS

-----------------------------------------------------------------------------
(* The least element of a set of naturals is one of its elements: the head *)
(* of the queue is an open item.                                           *)
LEMMA LeastNatural ==
    ASSUME NEW T \in SUBSET Nat, T # {}
    PROVE  \E n \in T : \A m \in T : n <= m
<1> DEFINE R == {p \in Nat \X Nat : p[1] < p[2]}
<1>1. IsWellFoundedOn(R, Nat)
    BY NatLessThanWellFounded DEF OpToRel
<1> HIDE DEF R
<1>2. PICK x \in T : \A y \in T : ~(<<y, x>> \in R)
    BY <1>1, WFMin
<1>3. ASSUME NEW y \in T PROVE x <= y
  <2>1. x \in Nat /\ y \in Nat
      OBVIOUS
  <2>2. y < x => <<y, x>> \in R
      BY <2>1 DEF R
  <2> QED
      BY <1>2, <2>1, <2>2
<1> QED
    BY <1>3

LEMMA MinIsMember ==
    ASSUME NEW T \in SUBSET Nat, T # {}
    PROVE  Min(T) \in T
<1>1. \E n \in T : \A m \in T : n <= m
    BY LeastNatural
<1> QED
    BY <1>1 DEF Min

-----------------------------------------------------------------------------
(* Questions.  A request is waiting until it is closed or accepted, and    *)
(* whatever is chosen carries the request of the form it was chosen in.    *)

Asked == {askedOf[i] : i \in DOMAIN askedOf}
Owned(answers, id) == \A i \in DOMAIN answers : \A tag \in answers[i] : tag[1] = id

FormTypeOK ==
    /\ form = [id |-> form.id, index |-> form.index, answers |-> form.answers,
               selection |-> form.selection, freeform |-> form.freeform, timer |-> form.timer]
    /\ form.id \in Asked \cup {NoRequest}

PostTypeOK ==
    \A p \in posts : /\ p = [id |-> p.id, handled |-> p.handled, answers |-> p.answers]
                     /\ p.id \in Asked

QuestionTypeOK ==
    /\ askedOf \in Seq(DOMAIN Questions)
    /\ FormTypeOK /\ PostTypeOK

OpenWhileWaiting ==
    /\ waiting \cup closedItems \cup submitted \subseteq Asked
    /\ waiting \cap (closedItems \cup submitted) = {}
    /\ \A p \in posts : p.handled = "ok" => p.id \notin waiting

FormOwned ==
    /\ \A tag \in CurrentAnswer : tag[1] = form.id
    /\ Owned(form.answers, form.id)

QuestionInv == QuestionTypeOK /\ OpenWhileWaiting /\ FormOwned /\ AnswersOfOneRequest

LEMMA QuestionInitially == QuestionInit => QuestionInv
<1> SUFFICES ASSUME QuestionInit PROVE QuestionInv
    OBVIOUS
<1> USE DEF QuestionInit
<1>1. QuestionTypeOK
    BY DEF QuestionTypeOK, FormTypeOK, PostTypeOK, InitialWalk
<1>2. OpenWhileWaiting
    BY DEF OpenWhileWaiting
<1>3. FormOwned
    BY DEF FormOwned, CurrentAnswer, Owned, InitialWalk
<1>4. AnswersOfOneRequest
    BY DEF AnswersOfOneRequest
<1> QED
    BY <1>1, <1>2, <1>3, <1>4 DEF QuestionInv

(* The head of the queue is one of the requests that were asked.           *)
LEMMA HeadIsAsked ==
    ASSUME NEW items, items \in Seq(DOMAIN Questions), NEW shut, NEW sent
    PROVE  HeadOf(items, shut, sent) \in {items[i] : i \in DOMAIN items} \cup {NoRequest}
<1> DEFINE queue == QueueOf(items, shut, sent)
<1>1. CASE queue = {}
    BY <1>1 DEF HeadOf
<1>2. CASE queue # {}
  <2>1. queue \in SUBSET Nat /\ queue \subseteq DOMAIN items
      BY DEF QueueOf
  <2>2. Min(queue) \in queue
      BY <1>2, <2>1, MinIsMember
  <2> QED
      BY <1>2, <2>1, <2>2 DEF HeadOf
<1> QED
    BY <1>1, <1>2

(* Another head is another form, with nothing in it.                       *)
LEMMA FormOfHead ==
    ASSUME QuestionInv, NEW id
    PROVE  LET f == FormFor(id)
           IN  /\ f = [id |-> f.id, index |-> f.index, answers |-> f.answers,
                       selection |-> f.selection, freeform |-> f.freeform, timer |-> f.timer]
               /\ f.id = id
               /\ \A tag \in f.selection \cup f.freeform : tag[1] = id
               /\ Owned(f.answers, id)
<1>1. CASE id = form.id
    BY <1>1 DEF FormFor, QuestionInv, QuestionTypeOK, FormTypeOK, FormOwned, CurrentAnswer
<1>2. CASE id # form.id
    BY <1>2 DEF FormFor, InitialWalk, Owned
<1> QED
    BY <1>1, <1>2

LEMMA AnswerOwned ==
    ASSUME NEW answers, NEW id, Owned(answers, id), NEW i, NEW value,
           \A tag \in value : tag[1] = id
    PROVE  Owned(AnswerAt(answers, i, value), id)
BY DEF Owned, AnswerAt

(* A walk that commits goes on with the same request.                      *)
LEMMA WalkOwned ==
    ASSUME FormTypeOK, FormOwned, NEW i
    PROVE  LET f == CommitWalk(i)
           IN  /\ f = [id |-> f.id, index |-> f.index, answers |-> f.answers,
                       selection |-> f.selection, freeform |-> f.freeform, timer |-> f.timer]
               /\ f.id = form.id
               /\ \A tag \in f.selection \cup f.freeform : tag[1] = form.id
               /\ Owned(f.answers, form.id)
<1>1. CASE CurrentAnswer = {}
    BY <1>1 DEF CommitWalk, FormTypeOK, FormOwned, CurrentAnswer
<1>2. CASE CurrentAnswer # {}
  <2> DEFINE said == AnswerAt(form.answers, i, CurrentAnswer)
  <2>1. Owned(said, form.id)
      BY AnswerOwned DEF FormOwned
  <2>2. CommitWalk(i) = [id |-> form.id, index |-> form.index + 1, answers |-> said,
                         selection |-> {}, freeform |-> {}, timer |-> form.timer]
      BY <1>2 DEF CommitWalk, FormTypeOK
  <2> HIDE DEF said
  <2> QED
      BY <2>1, <2>2
<1> QED
    BY <1>1, <1>2

(* A step that only touches the form, and leaves it with its request.      *)
LEMMA FormMoves ==
    ASSUME QuestionInv, NEW f, form' = f,
           f = [id |-> f.id, index |-> f.index, answers |-> f.answers,
                selection |-> f.selection, freeform |-> f.freeform, timer |-> f.timer],
           f.id = form.id,
           \A tag \in f.selection \cup f.freeform : tag[1] = f.id,
           Owned(f.answers, f.id),
           UNCHANGED <<askedOf, waiting, closedItems, submitted, posts>>
    PROVE  QuestionInv'
<1> USE DEF QuestionInv, QuestionTypeOK
<1>1. QuestionTypeOK'
    BY DEF FormTypeOK, PostTypeOK, Asked
<1>2. OpenWhileWaiting'
    BY DEF OpenWhileWaiting, Asked
<1>3. FormOwned'
    BY DEF FormOwned, CurrentAnswer, Owned
<1>4. AnswersOfOneRequest'
    BY DEF AnswersOfOneRequest
<1> QED
    BY <1>1, <1>2, <1>3, <1>4

LEMMA AskKeeps == ASSUME QuestionInv, Ask PROVE QuestionInv'
<1>1. PICK id \in DOMAIN Questions :
          /\ id \notin ToSet(askedOf)
          /\ askedOf' = Append(askedOf, id) /\ waiting' = waiting \cup {id}
          /\ form' = FormFor(HeadOf(askedOf', closedItems, submitted))
          /\ UNCHANGED <<closedItems, submitted, posts, picks>>
    BY DEF Ask
<1> USE DEF QuestionInv, QuestionTypeOK
<1>2. askedOf' \in Seq(DOMAIN Questions) /\ Asked' = Asked \cup {id}
    BY <1>1 DEF Asked
<1>3. id \notin Asked
    BY <1>1 DEF Asked, ToSet
<1> DEFINE head == HeadOf(askedOf', closedItems, submitted)
<1>4. head \in Asked' \cup {NoRequest}
    BY <1>2, HeadIsAsked DEF Asked
<1> HIDE DEF head
<1>5. form' = FormFor(head)
    BY <1>1 DEF head
<1>6. FormTypeOK'
    BY <1>4, <1>5, FormOfHead DEF FormTypeOK
<1>7. PostTypeOK'
    BY <1>1, <1>2 DEF PostTypeOK
<1>8. OpenWhileWaiting'
  <2>1. id \notin closedItems \cup submitted
      BY <1>3 DEF OpenWhileWaiting
  <2> QED
      BY <1>1, <1>2, <1>3, <2>1 DEF OpenWhileWaiting, PostTypeOK
<1>9. FormOwned'
    BY <1>5, FormOfHead DEF FormOwned, CurrentAnswer
<1>10. AnswersOfOneRequest'
    BY <1>1 DEF AnswersOfOneRequest
<1> QED
    BY <1>2, <1>6, <1>7, <1>8, <1>9, <1>10

(* What a choice changes of the form, and what it leaves.                  *)
LEMMA FormFields ==
    ASSUME FormTypeOK, NEW chosen, NEW typed, NEW due
    PROVE  /\ [form EXCEPT !.selection = chosen, !.timer = due] =
                [id |-> form.id, index |-> form.index, answers |-> form.answers,
                 selection |-> chosen, freeform |-> form.freeform, timer |-> due]
           /\ [form EXCEPT !.freeform = typed] =
                [id |-> form.id, index |-> form.index, answers |-> form.answers,
                 selection |-> form.selection, freeform |-> typed, timer |-> form.timer]
<1> DEFINE r == [id |-> form.id, index |-> form.index, answers |-> form.answers,
                 selection |-> form.selection, freeform |-> form.freeform, timer |-> form.timer]
<1>1. form = r
    BY DEF FormTypeOK
<1>2. [r EXCEPT !.selection = chosen, !.timer = due] =
          [id |-> form.id, index |-> form.index, answers |-> form.answers,
           selection |-> chosen, freeform |-> form.freeform, timer |-> due]
  <2>1. [r EXCEPT !.selection = chosen] =
            [id |-> form.id, index |-> form.index, answers |-> form.answers,
             selection |-> chosen, freeform |-> form.freeform, timer |-> form.timer]
      OBVIOUS
  <2>2. [r EXCEPT !.selection = chosen, !.timer = due]
            = [[r EXCEPT !.selection = chosen] EXCEPT !.timer = due]
      BY SMTT(30)
  <2>3. [[r EXCEPT !.selection = chosen] EXCEPT !.timer = due] =
            [id |-> form.id, index |-> form.index, answers |-> form.answers,
             selection |-> chosen, freeform |-> form.freeform, timer |-> due]
    <3> DEFINE q == [id |-> form.id, index |-> form.index, answers |-> form.answers,
                     selection |-> chosen, freeform |-> form.freeform, timer |-> form.timer]
    <3>1. [q EXCEPT !.timer = due] =
              [id |-> form.id, index |-> form.index, answers |-> form.answers,
               selection |-> chosen, freeform |-> form.freeform, timer |-> due]
        OBVIOUS
    <3> HIDE DEF q
    <3>2. [r EXCEPT !.selection = chosen] = q
        BY <2>1 DEF q
    <3> HIDE DEF r
    <3> QED
        BY <3>1, <3>2 DEF q
  <2> QED
      BY <2>2, <2>3
<1>3. [r EXCEPT !.freeform = typed] =
          [id |-> form.id, index |-> form.index, answers |-> form.answers,
           selection |-> form.selection, freeform |-> typed, timer |-> form.timer]
    OBVIOUS
<1> HIDE DEF r
<1> QED
    BY <1>1, <1>2, <1>3

LEMMA PickKeeps == ASSUME QuestionInv, PickOption PROVE QuestionInv'
<1>1. PICK label \in Labels :
          LET tag == <<form.id, Showing, label>>
              multi == Questions[form.id][Showing]
              same == form.selection = {tag}
              chosen == CASE multi /\ tag \in form.selection -> form.selection \ {tag}
                          [] multi -> form.selection \cup {tag}
                          [] same -> {}
                          [] OTHER -> {tag}
          IN  form' = [form EXCEPT !.selection = chosen,
                           !.timer = IF AutoAdvances /\ form.freeform = {} /\ ~same
                                     THEN Showing ELSE @]
    BY DEF PickOption
<1> DEFINE tag == <<form.id, Showing, label>>
           multi == Questions[form.id][Showing]
           same == form.selection = {tag}
           chosen == CASE multi /\ tag \in form.selection -> form.selection \ {tag}
                       [] multi -> form.selection \cup {tag}
                       [] same -> {}
                       [] OTHER -> {tag}
           armedFor == IF AutoAdvances /\ form.freeform = {} /\ ~same
                       THEN Showing ELSE form.timer
           f == [form EXCEPT !.selection = chosen, !.timer = armedFor]
<1>2. form' = f
    BY <1>1
<1> USE DEF QuestionInv, QuestionTypeOK
<1>3. \A t \in chosen : t[1] = form.id
  <2>1. chosen \subseteq form.selection \cup {tag}
      OBVIOUS
  <2> QED
      BY <2>1 DEF FormOwned, CurrentAnswer
<1> HIDE DEF chosen, armedFor
<1>4. f = [id |-> form.id, index |-> form.index, answers |-> form.answers,
           selection |-> chosen, freeform |-> form.freeform, timer |-> armedFor]
    BY FormFields
<1>5. UNCHANGED <<askedOf, waiting, closedItems, submitted, posts>>
    BY DEF PickOption
<1> HIDE DEF f
<1> QED
    BY <1>2, <1>3, <1>4, <1>5, FormMoves DEF FormOwned, CurrentAnswer

LEMMA NoteKeeps == ASSUME QuestionInv, TypeNote PROVE QuestionInv'
<1> DEFINE typed == {<<form.id, Showing, "note">>}
           f == [form EXCEPT !.freeform = typed]
<1>3. \A tag \in typed : tag[1] = form.id
    OBVIOUS
<1>4. form' = f
    BY DEF TypeNote
<1> HIDE DEF typed
<1> USE DEF QuestionInv, QuestionTypeOK
<1>1. f = [id |-> form.id, index |-> form.index, answers |-> form.answers,
           selection |-> form.selection, freeform |-> typed, timer |-> form.timer]
    BY FormFields
<1>2. UNCHANGED <<askedOf, waiting, closedItems, submitted, posts>>
    BY DEF TypeNote
<1> HIDE DEF f
<1> QED
    BY <1>1, <1>2, <1>3, <1>4, FormMoves DEF FormOwned, CurrentAnswer

LEMMA CommitKeeps == ASSUME QuestionInv, CommitAnswer PROVE QuestionInv'
<1>1. CASE ~IsLastQuestion
  <2>1. form' = CommitWalk(Showing) /\ UNCHANGED <<askedOf, waiting, closedItems, submitted, posts>>
      BY <1>1 DEF CommitAnswer
  <2>2. FormTypeOK /\ FormOwned
      BY DEF QuestionInv, QuestionTypeOK
  <2> DEFINE f == CommitWalk(Showing)
  <2>3. form' = f
      BY <2>1
  <2>4. /\ f = [id |-> f.id, index |-> f.index, answers |-> f.answers,
                selection |-> f.selection, freeform |-> f.freeform, timer |-> f.timer]
        /\ f.id = form.id
        /\ \A tag \in f.selection \cup f.freeform : tag[1] = form.id
        /\ Owned(f.answers, form.id)
      BY <2>2, WalkOwned
  <2> HIDE DEF f
  <2> QED
      BY <2>1, <2>3, <2>4, FormMoves
<1>2. CASE IsLastQuestion
  <2> DEFINE said == AnswerAt(form.answers, Showing, CurrentAnswer)
             post == [id |-> form.id, handled |-> "no", answers |-> said]
  <2>1. Owned(said, form.id)
      BY AnswerOwned DEF QuestionInv, FormOwned
  <2> HIDE DEF said
  <2>2. posts' = posts \cup {post}
      BY <1>2 DEF CommitAnswer, said
  <2>3. UNCHANGED <<askedOf, waiting, closedItems, submitted, form>>
      BY <1>2 DEF CommitAnswer
  <2>4. post.id = form.id /\ post.handled = "no" /\ post.answers = said
      OBVIOUS
  <2>5. form.id \in Asked
      BY DEF CommitAnswer, Shows, QuestionInv, QuestionTypeOK, FormTypeOK
  <2> USE DEF QuestionInv, QuestionTypeOK
  <2>6. PostTypeOK'
      BY <2>2, <2>3, <2>5 DEF PostTypeOK, Asked
  <2> HIDE DEF post
  <2>7. FormTypeOK'
      BY <2>3 DEF FormTypeOK, Asked
  <2>8. OpenWhileWaiting'
      BY <2>2, <2>3, <2>4 DEF OpenWhileWaiting, Asked
  <2>9. FormOwned'
      BY <2>3 DEF FormOwned, CurrentAnswer, Owned
  <2>10. AnswersOfOneRequest'
      BY <2>1, <2>2, <2>4 DEF AnswersOfOneRequest, Owned
  <2> QED
      BY <2>3, <2>6, <2>7, <2>8, <2>9, <2>10
<1> QED
    BY <1>1, <1>2

LEMMA BeatKeeps == ASSUME QuestionInv, AdvanceFires PROVE QuestionInv'
<1> DEFINE walk == CommitWalk(form.timer)
           f == [walk EXCEPT !.timer = 0]
<1>1. form' = f /\ UNCHANGED <<askedOf, waiting, closedItems, submitted, posts>>
    BY DEF AdvanceFires
<1>2. /\ walk = [id |-> walk.id, index |-> walk.index, answers |-> walk.answers,
                 selection |-> walk.selection, freeform |-> walk.freeform, timer |-> walk.timer]
      /\ walk.id = form.id
      /\ \A tag \in walk.selection \cup walk.freeform : tag[1] = form.id
      /\ Owned(walk.answers, form.id)
    BY WalkOwned DEF QuestionInv, QuestionTypeOK
<1> HIDE DEF walk
<1>3. f = [id |-> walk.id, index |-> walk.index, answers |-> walk.answers,
           selection |-> walk.selection, freeform |-> walk.freeform, timer |-> 0]
    BY <1>2
<1> HIDE DEF f
<1> QED
    BY <1>1, <1>2, <1>3, FormMoves

(* An answer that is accepted ends the wait; the others leave it alone.    *)
LEMMA HandledKeeps == ASSUME QuestionInv, HandleAnswer PROVE QuestionInv'
<1>1. PICK p \in posts, got \in BOOLEAN :
          LET ok == got /\ p.id \in waiting
          IN  /\ waiting' = IF ok THEN waiting \ {p.id} ELSE waiting
              /\ posts' = (posts \ {p}) \cup {[p EXCEPT !.handled = IF ok THEN "ok" ELSE "refused"]}
    BY DEF HandleAnswer
<1> DEFINE ok == got /\ p.id \in waiting
           result == IF ok THEN "ok" ELSE "refused"
           q == [p EXCEPT !.handled = result]
<1>2. UNCHANGED <<askedOf, closedItems, submitted, form>>
    BY DEF HandleAnswer
<1> USE DEF QuestionInv, QuestionTypeOK
<1>3. p = [id |-> p.id, handled |-> p.handled, answers |-> p.answers] /\ p.id \in Asked
    BY DEF PostTypeOK
<1>4. posts' = (posts \ {p}) \cup {q} /\ waiting' = (IF ok THEN waiting \ {p.id} ELSE waiting)
    BY <1>1
<1>5. ok \in BOOLEAN /\ (result = "ok" <=> ok)
    OBVIOUS
<1> HIDE DEF result, ok
<1>6. q = [id |-> p.id, handled |-> result, answers |-> p.answers]
    BY <1>3
<1> HIDE DEF q
<1>7. q.id = p.id /\ q.handled = result /\ q.answers = p.answers
    BY <1>6
<1>8. FormTypeOK' /\ askedOf' \in Seq(DOMAIN Questions) /\ Asked' = Asked
    BY <1>2 DEF FormTypeOK, Asked
<1>9. PostTypeOK'
    BY <1>3, <1>4, <1>6, <1>7, <1>8 DEF PostTypeOK
<1>10. OpenWhileWaiting'
    <2>1. waiting' \subseteq waiting /\ (ok => p.id \notin waiting')
        BY <1>4
    <2>2. \A r \in posts' : r.handled = "ok" => r.id \notin waiting'
        BY <2>1, <1>4, <1>5, <1>7 DEF OpenWhileWaiting
    <2> QED
        BY <2>1, <2>2, <1>2, <1>8 DEF OpenWhileWaiting
<1>11. FormOwned'
    BY <1>2 DEF FormOwned, CurrentAnswer, Owned
<1>12. AnswersOfOneRequest'
    BY <1>4, <1>7 DEF AnswersOfOneRequest
<1> QED
    BY <1>8, <1>9, <1>10, <1>11, <1>12

(* What the panel notes as accepted is no longer waited for.               *)
LEMMA ReturnKeeps == ASSUME QuestionInv, AnswerReturns PROVE QuestionInv'
<1>1. PICK p \in posts, lost \in BOOLEAN :
          /\ posts' = posts \ {p}
          /\ submitted' = Noted(IF lost THEN [p EXCEPT !.handled = "refused"] ELSE p)
          /\ form' = FormFor(HeadOf(askedOf, closedItems, submitted'))
    BY DEF AnswerReturns
<1>2. UNCHANGED <<askedOf, waiting, closedItems>>
    BY DEF AnswerReturns
<1> USE DEF QuestionInv, QuestionTypeOK
<1>3. p = [id |-> p.id, handled |-> p.handled, answers |-> p.answers] /\ p.id \in Asked
    BY DEF PostTypeOK
<1>4. submitted' = submitted \/ (submitted' = submitted \cup {p.id} /\ p.handled = "ok")
  <2> DEFINE q == [p EXCEPT !.handled = "refused"]
  <2>1. q = [id |-> p.id, handled |-> "refused", answers |-> p.answers]
      BY <1>3
  <2>2. q.handled = "refused"
      BY <2>1
  <2> HIDE DEF q
  <2>3. CASE lost
    <3>1. submitted' = Noted(q)
        BY <1>1, <2>3 DEF q
    <3> QED
        BY <2>2, <3>1 DEF Noted
  <2>4. CASE ~lost
      BY <1>1, <2>4 DEF Noted
  <2> QED
      BY <2>3, <2>4
<1>5. PICK head : head = HeadOf(askedOf, closedItems, submitted') /\ form' = FormFor(head)
    BY <1>1
<1>6. Asked' = Asked /\ head \in Asked \cup {NoRequest}
    BY <1>2, <1>5, HeadIsAsked DEF Asked
<1>7. FormTypeOK' /\ FormOwned'
    BY <1>5, <1>6, FormOfHead DEF FormTypeOK, FormOwned, CurrentAnswer
<1>8. PostTypeOK' /\ askedOf' \in Seq(DOMAIN Questions)
    BY <1>1, <1>2, <1>6 DEF PostTypeOK
<1>9. OpenWhileWaiting'
    BY <1>1, <1>2, <1>3, <1>4, <1>6 DEF OpenWhileWaiting
<1>10. AnswersOfOneRequest'
    BY <1>1 DEF AnswersOfOneRequest
<1> QED
    BY <1>7, <1>8, <1>9, <1>10

LEMMA WithdrawKeeps == ASSUME QuestionInv, WithdrawQuestion PROVE QuestionInv'
<1>1. /\ waiting' \subseteq waiting
      /\ UNCHANGED <<askedOf, closedItems, submitted, form, posts>>
    BY DEF WithdrawQuestion
<1> USE DEF QuestionInv, QuestionTypeOK
<1>2. QuestionTypeOK'
    BY <1>1 DEF FormTypeOK, PostTypeOK, Asked
<1>3. OpenWhileWaiting'
    BY <1>1 DEF OpenWhileWaiting, Asked
<1>4. FormOwned' /\ AnswersOfOneRequest'
    BY <1>1 DEF FormOwned, CurrentAnswer, Owned, AnswersOfOneRequest
<1> QED
    BY <1>2, <1>3, <1>4

LEMMA CloseKeeps == ASSUME QuestionInv, ItemCloses PROVE QuestionInv'
<1>1. PICK id \in ToSet(askedOf) \ (waiting \cup closedItems) :
          /\ closedItems' = closedItems \cup {id}
          /\ form' = FormFor(HeadOf(askedOf, closedItems', submitted))
          /\ UNCHANGED <<askedOf, waiting, submitted, posts, picks>>
    BY DEF ItemCloses
<1> USE DEF QuestionInv, QuestionTypeOK
<1>2. PICK head : head = HeadOf(askedOf, closedItems', submitted) /\ form' = FormFor(head)
    BY <1>1
<1>3. Asked' = Asked /\ head \in Asked \cup {NoRequest} /\ id \in Asked
    BY <1>1, <1>2, HeadIsAsked DEF Asked, ToSet
<1>4. FormTypeOK' /\ FormOwned'
    BY <1>2, <1>3, FormOfHead DEF FormTypeOK, FormOwned, CurrentAnswer
<1>5. PostTypeOK' /\ askedOf' \in Seq(DOMAIN Questions)
    BY <1>1, <1>3 DEF PostTypeOK
<1>6. OpenWhileWaiting'
    BY <1>1, <1>3 DEF OpenWhileWaiting
<1>7. AnswersOfOneRequest'
    BY <1>1 DEF AnswersOfOneRequest
<1> QED
    BY <1>4, <1>5, <1>6, <1>7

LEMMA QuestionStep == QuestionInv /\ [QuestionNext]_questionVars => QuestionInv'
<1> SUFFICES ASSUME QuestionInv, [QuestionNext]_questionVars PROVE QuestionInv'
    OBVIOUS
<1>1. CASE UNCHANGED questionVars
    BY <1>1 DEF questionVars, QuestionInv, QuestionTypeOK, FormTypeOK, PostTypeOK, Asked,
                OpenWhileWaiting, FormOwned, CurrentAnswer, Owned, AnswersOfOneRequest
<1>2. CASE QuestionNext
    BY <1>2, AskKeeps, PickKeeps, NoteKeeps, CommitKeeps, BeatKeeps, HandledKeeps,
       ReturnKeeps, WithdrawKeeps, CloseKeeps DEF QuestionNext
<1> QED
    BY <1>1, <1>2

(* A waiting request is an item that is not closed and not noted: one of   *)
(* the queue.                                                              *)
LEMMA WaitingIsQueued == QuestionInv => AnswersReach
<1> SUFFICES ASSUME QuestionInv PROVE QuestionReachable
    BY DEF AnswersReach, QuestionInv
<1>1. ASSUME NEW id \in waiting
      PROVE  \E i \in QueueOf(askedOf, closedItems, submitted) : askedOf[i] = id
  <2>1. PICK i \in DOMAIN askedOf : askedOf[i] = id
      BY <1>1 DEF QuestionInv, OpenWhileWaiting, Asked
  <2>2. id \notin closedItems \cup submitted
      BY <1>1 DEF QuestionInv, OpenWhileWaiting
  <2> QED
      BY <2>1, <2>2 DEF QueueOf
<1> QED
    BY <1>1 DEF QuestionReachable

(* A question the engine waits on can be answered whatever was posted,     *)
(* refused, lost or withdrawn before, and nothing that was chosen for      *)
(* another question is posted for it: the timer of a pick, the walk of a   *)
(* form that is gone, a note typed elsewhere.  For every series of         *)
(* requests and choices (question-walk, question-panel).                   *)
THEOREM AnswersStayTheirOwn == QuestionSpec => []AnswersReach
<1>1. QuestionInit => QuestionInv
    BY QuestionInitially
<1>2. QuestionInv /\ [QuestionNext]_questionVars => QuestionInv'
    BY QuestionStep
<1>3. QuestionInv => AnswersReach
    BY WaitingIsQueued
<1> QED
    BY <1>1, <1>2, <1>3, PTL DEF QuestionSpec

-----------------------------------------------------------------------------
(* Scrolling.  What the flags of the controller stand for while an event,  *)
(* a frame or a smooth scroll is pending, and so what is left when none    *)
(* is: the position that was saved, or the bottom.                         *)

ShownMode == parked[shown].mode

ScrollTypeOK ==
    /\ shown \in Transcripts /\ lines \in [Transcripts -> Nat]
    /\ parked \in [Transcripts -> [mode : {"sticky", "manual"}, offset : Int]]
    /\ top \in Int /\ lastTop \in Int /\ target \in Int
    /\ gestured \in BOOLEAN /\ programmatic \in BOOLEAN /\ event \in BOOLEAN
    /\ unfollowed \in BOOLEAN
    /\ callback \in {"none", "write again", "release 1", "release 2", "place again"}

(* A frame is due exactly while the flag is held; an event has a gesture,  *)
(* a write of our own or an unstamped move behind it; a smooth scroll has  *)
(* its gesture.                                                            *)
Causes ==
    /\ programmatic <=> callback # "none"
    /\ event => gestured \/ programmatic \/ unfollowed
    /\ target # -1 => gestured

FramesFit ==
    /\ callback = "write again" => ShownMode = "sticky"
    /\ callback = "place again" => ShownMode = "manual"

(* A parked offset is above the bottom, so it can be returned to.          *)
PlaceHeld == \A s \in Transcripts :
    parked[s].mode = "manual" => parked[s].offset < BottomOf(lines[s])

ManualPlace ==
    ShownMode = "manual" /\ ~unfollowed => parked[shown].offset = top \/ (event /\ gestured)

StickyTail ==
    ShownMode = "sticky" /\ ~unfollowed
        => \/ AtBottom(top) \/ callback = "write again" \/ target # -1
           \/ event /\ gestured

SmoothTail ==
    target # -1 /\ ShownMode = "sticky" /\ ~unfollowed => target >= Bottom \/ AtBottom(top)

ScrollInv == /\ ScrollTypeOK /\ Causes /\ FramesFit /\ PlaceHeld
             /\ ManualPlace /\ StickyTail /\ SmoothTail

LEMMA MinusOne == -1 \in Int
OBVIOUS

LEMMA BottomIsNatural == ASSUME NEW h \in Nat PROVE BottomOf(h) \in Nat /\ BottomOf(h) <= h
BY ScrollAssumption DEF BottomOf

LEMMA ScrollInitially == ScrollInit => ScrollInv
<1> SUFFICES ASSUME ScrollInit PROVE ScrollInv
    OBVIOUS
<1> USE ScrollAssumption DEF ScrollInit, Sticky
<1>1. ScrollTypeOK
  <2>1. lines \in [Transcripts -> Nat]
      OBVIOUS
  <2>2. parked \in [Transcripts -> [mode : {"sticky", "manual"}, offset : Int]]
      OBVIOUS
  <2>3. top \in Int /\ lastTop \in Int /\ target \in Int
      OBVIOUS
  <2> QED
      BY <2>1, <2>2, <2>3, Zenon DEF ScrollTypeOK
<1>2. Causes
    BY DEF Causes
<1>3. ShownMode = "sticky" /\ target = -1 /\ callback = "none"
    BY DEF ShownMode
<1>4. FramesFit /\ ManualPlace /\ SmoothTail
    BY <1>3 DEF FramesFit, ManualPlace, SmoothTail
<1>5. PlaceHeld
    BY DEF PlaceHeld
<1>6. StickyTail
    BY DEF StickyTail, AtBottom, Bottom, BottomOf
<1> QED
    BY <1>1, <1>2, <1>4, <1>5, <1>6 DEF ScrollInv

LEMMA WheelKeeps == ASSUME ScrollInv, Wheel PROVE ScrollInv'
<1>1. PICK to \in 0..Bottom :
          /\ gestured' = TRUE /\ top' = to /\ event' = (event \/ to # top)
          /\ target' = IF to = top THEN target ELSE -1
          /\ UNCHANGED <<shown, lines, parked, lastTop, programmatic, callback, unfollowed>>
    BY DEF Wheel
<1>2. ScrollTypeOK /\ Causes /\ FramesFit /\ PlaceHeld
      /\ ManualPlace /\ StickyTail /\ SmoothTail
    BY DEF ScrollInv
<1>3. to \in Int
  <2>1. Bottom \in Nat
      BY <1>2, BottomIsNatural DEF Bottom, ScrollTypeOK
  <2>2. to \in 0..Bottom
      BY <1>1
  <2> QED
      BY <2>1, <2>2
<1>4. Bottom' = Bottom /\ ShownMode' = ShownMode
    BY <1>1 DEF Bottom, ShownMode
<1>5. (event \/ to # top) => event' = TRUE
    BY <1>1
<1>6. ~(event \/ to # top) => event' = FALSE
    BY <1>1
<1>7. gestured' = TRUE /\ top' = to /\ target' = (IF to = top THEN target ELSE -1)
      /\ UNCHANGED <<shown, lines, parked, lastTop, programmatic, callback, unfollowed>>
    BY <1>1
<1>8. ScrollTypeOK'
  <2>1. event' \in BOOLEAN
      BY <1>5, <1>6
  <2>2. target' \in Int /\ top' \in Int
    <3>1. target \in Int
        BY <1>2 DEF ScrollTypeOK
    <3> QED
        BY <1>3, <1>7, <3>1, MinusOne
  <2> QED
      BY <1>2, <1>7, <2>1, <2>2 DEF ScrollTypeOK
<1>9. Causes'
    BY <1>2, <1>7 DEF Causes
<1>10. FramesFit' /\ PlaceHeld'
    BY <1>2, <1>4, <1>7 DEF FramesFit, PlaceHeld
<1>11. ManualPlace'
    BY <1>2, <1>4, <1>5, <1>7 DEF ManualPlace
<1>12. StickyTail'
    BY <1>2, <1>4, <1>5, <1>7 DEF StickyTail, AtBottom
<1>13. SmoothTail'
    BY <1>2, <1>4, <1>5, <1>7 DEF SmoothTail, AtBottom
<1> QED
    BY <1>8, <1>9, <1>10, <1>11, <1>12, <1>13 DEF ScrollInv

LEMMA UnstampedKeeps == ASSUME ScrollInv, UnstampedScroll PROVE ScrollInv'
<1>1. PICK to \in 0..Bottom :
          /\ top' = to /\ event' = TRUE /\ target' = -1 /\ unfollowed' = TRUE
          /\ UNCHANGED <<shown, lines, parked, lastTop, gestured, programmatic, callback>>
    BY DEF UnstampedScroll
<1>2. ScrollTypeOK /\ Causes /\ FramesFit /\ PlaceHeld
    BY DEF ScrollInv
<1>3. top' \in Int /\ target' \in Int
  <2>1. Bottom \in Nat
      BY <1>2, BottomIsNatural DEF Bottom, ScrollTypeOK
  <2>2. to \in 0..Bottom
      BY <1>1
  <2> QED
      BY <1>1, <2>1, <2>2, MinusOne
<1>4. ShownMode' = ShownMode
    BY <1>1 DEF ShownMode
<1>5. ScrollTypeOK'
    BY <1>1, <1>2, <1>3 DEF ScrollTypeOK
<1>6. Causes'
    BY <1>1, <1>2 DEF Causes
<1>7. FramesFit' /\ PlaceHeld'
    BY <1>1, <1>2, <1>4 DEF FramesFit, PlaceHeld
<1>8. ManualPlace' /\ StickyTail' /\ SmoothTail'
    BY <1>1 DEF ManualPlace, StickyTail, SmoothTail
<1> QED
    BY <1>5, <1>6, <1>7, <1>8 DEF ScrollInv

LEMMA ExpireKeeps == ASSUME ScrollInv, GestureExpires PROVE ScrollInv'
<1>1. /\ ~event /\ target = -1 /\ gestured' = FALSE
      /\ UNCHANGED <<shown, lines, parked, top, lastTop, programmatic, callback,
                     event, target, unfollowed>>
    BY DEF GestureExpires
<1>2. ScrollTypeOK /\ Causes /\ FramesFit /\ PlaceHeld
      /\ ManualPlace /\ StickyTail /\ SmoothTail
    BY DEF ScrollInv
<1>3. Bottom' = Bottom /\ ShownMode' = ShownMode
    BY <1>1 DEF Bottom, ShownMode
<1>4. ScrollTypeOK'
    BY <1>1, <1>2 DEF ScrollTypeOK
<1>5. Causes'
    BY <1>1, <1>2 DEF Causes
<1>6. FramesFit' /\ PlaceHeld'
    BY <1>1, <1>2, <1>3 DEF FramesFit, PlaceHeld
<1>7. ManualPlace'
    BY <1>1, <1>2, <1>3 DEF ManualPlace
<1>8. StickyTail'
    BY <1>1, <1>2, <1>3 DEF StickyTail, AtBottom
<1>9. SmoothTail'
    BY <1>1 DEF SmoothTail
<1> QED
    BY <1>4, <1>5, <1>6, <1>7, <1>8, <1>9 DEF ScrollInv

(* Content that grows lowers the bottom, never raises it.                  *)
LEMMA BottomGrows ==
    ASSUME NEW h \in Nat
    PROVE  BottomOf(h + 1) \in Nat /\ BottomOf(h) <= BottomOf(h + 1)
BY ScrollAssumption DEF BottomOf

LEMMA GrownHolds ==
    ASSUME ScrollTypeOK, PlaceHeld, NEW s \in Transcripts,
           lines' = [lines EXCEPT ![s] = @ + 1]
    PROVE  /\ lines' \in [Transcripts -> Nat]
           /\ \A t \in Transcripts :
                  parked[t].mode = "manual" => parked[t].offset < BottomOf(lines'[t])
<1>1. lines[s] \in Nat /\ lines \in [Transcripts -> Nat]
    BY DEF ScrollTypeOK
<1>2. lines' \in [Transcripts -> Nat]
    BY <1>1
<1>3. ASSUME NEW t \in Transcripts, parked[t].mode = "manual"
      PROVE  parked[t].offset < BottomOf(lines'[t])
  <2>1. parked[t].offset \in Int /\ lines[t] \in Nat
      BY DEF ScrollTypeOK
  <2>2. parked[t].offset < BottomOf(lines[t])
      BY <1>3 DEF PlaceHeld
  <2>3. BottomOf(lines[t]) \in Nat /\ BottomOf(lines[t] + 1) \in Nat
        /\ BottomOf(lines[t]) <= BottomOf(lines[t] + 1)
      BY <2>1, BottomGrows, BottomIsNatural
  <2>4. lines'[t] = lines[t] \/ lines'[t] = lines[t] + 1
      BY <1>1
  <2> QED
      BY <2>1, <2>2, <2>3, <2>4
<1> QED
    BY <1>2, <1>3

(* One transcript is marked as followed, or parked: the others stay.       *)
LEMMA ParkedOne ==
    ASSUME ScrollTypeOK, NEW s \in Transcripts,
           NEW v \in [mode : {"sticky", "manual"}, offset : Int],
           parked' = [parked EXCEPT ![s] = v]
    PROVE  /\ parked' \in [Transcripts -> [mode : {"sticky", "manual"}, offset : Int]]
           /\ parked'[s] = v
           /\ \A t \in Transcripts : t # s => parked'[t] = parked[t]
BY DEF ScrollTypeOK

LEMMA StickyTyped == Sticky \in [mode : {"sticky", "manual"}, offset : Int] /\ Sticky.mode = "sticky"
BY DEF Sticky

LEMMA GrowKeeps == ASSUME ScrollInv, Grow PROVE ScrollInv'
<1>1. lines' = [lines EXCEPT ![shown] = @ + 1] /\ UNCHANGED <<shown, lastTop, gestured>>
    BY DEF Grow
<1>2. ScrollTypeOK /\ Causes /\ FramesFit /\ PlaceHeld
      /\ ManualPlace /\ StickyTail /\ SmoothTail
    BY DEF ScrollInv
<1>3. /\ lines' \in [Transcripts -> Nat]
      /\ \A t \in Transcripts :
             parked[t].mode = "manual" => parked[t].offset < BottomOf(lines'[t])
    BY <1>1, <1>2, GrownHolds DEF ScrollTypeOK
<1>4. shown \in Transcripts /\ Bottom' = BottomOf(lines[shown] + 1) /\ Bottom' \in Nat
  <2>1. shown \in Transcripts /\ lines \in [Transcripts -> Nat]
      BY <1>2 DEF ScrollTypeOK
  <2>2. Bottom' = BottomOf(lines[shown] + 1)
      BY <1>1, <2>1 DEF Bottom
  <2> QED
      BY <2>1, <2>2, BottomGrows
<1>5. CASE Follows
  <2>1. /\ parked' = [parked EXCEPT ![shown] = Sticky]
        /\ programmatic' = TRUE /\ callback' = "write again"
        /\ top' = BottomOf(lines[shown] + 1) /\ target' = -1
        /\ event' = (event \/ top # BottomOf(lines[shown] + 1))
        /\ unfollowed' = unfollowed
      BY <1>5 DEF Grow, ScrollToBottom
  <2>2. event' \in BOOLEAN
      BY <2>1
  <2>3. parked' \in [Transcripts -> [mode : {"sticky", "manual"}, offset : Int]]
        /\ ShownMode' = "sticky"
        /\ \A t \in Transcripts : parked'[t].mode = "manual" => parked'[t] = parked[t]
    <3>1. parked' = [parked EXCEPT ![shown] = Sticky] /\ shown' = shown
        BY <1>1, <2>1
    <3>2. /\ parked' \in [Transcripts -> [mode : {"sticky", "manual"}, offset : Int]]
          /\ parked'[shown] = Sticky
          /\ \A t \in Transcripts : t # shown => parked'[t] = parked[t]
        BY <1>2, <1>4, <3>1, StickyTyped, ParkedOne
    <3> QED
        BY <3>1, <3>2, StickyTyped DEF ShownMode
  <2>4. top' = Bottom' /\ top' \in Int
    <3>1. top' = BottomOf(lines[shown] + 1)
        BY <2>1
    <3> QED
        BY <1>4, <3>1
  <2>5. ScrollTypeOK'
    <3>1. target' \in Int
        BY <2>1, MinusOne
    <3> QED
        BY <1>1, <1>2, <1>3, <2>1, <2>2, <2>3, <2>4, <3>1 DEF ScrollTypeOK
  <2>6. Causes'
      BY <2>1 DEF Causes
  <2>7. FramesFit' /\ ManualPlace'
      BY <2>1, <2>3 DEF FramesFit, ManualPlace
  <2>8. PlaceHeld'
      BY <1>3, <2>3 DEF PlaceHeld
  <2>9. StickyTail' /\ SmoothTail'
      BY <2>1 DEF StickyTail, SmoothTail
  <2> QED
      BY <2>5, <2>6, <2>7, <2>8, <2>9 DEF ScrollInv
<1>6. CASE ~Follows
  <2>1. /\ unfollowed' = (unfollowed \/ (gestured /\ parked[shown].mode = "sticky"))
        /\ UNCHANGED <<parked, top, programmatic, callback, event, target>>
      BY <1>6 DEF Grow
  <2>2. /\ ShownMode' = ShownMode
        /\ ShownMode = "sticky" => unfollowed' = TRUE
        /\ unfollowed = TRUE => unfollowed' = TRUE
      BY <1>1, <1>2, <1>6, <2>1 DEF ShownMode, Follows, ScrollTypeOK
  <2>3. unfollowed' \in BOOLEAN
      BY <2>1
  <2>4. ScrollTypeOK'
      BY <1>1, <1>2, <1>3, <2>1, <2>3 DEF ScrollTypeOK
  <2>5. Causes'
      BY <1>1, <1>2, <2>1 DEF Causes
  <2>6. FramesFit'
      BY <1>2, <2>1, <2>2 DEF FramesFit
  <2>7. PlaceHeld'
      BY <1>3, <2>1 DEF PlaceHeld
  <2>8. ManualPlace'
      BY <1>1, <1>2, <2>1, <2>2, <2>3 DEF ManualPlace, ScrollTypeOK
  <2>9. StickyTail' /\ SmoothTail'
      BY <2>2 DEF StickyTail, SmoothTail, ScrollTypeOK
  <2> QED
      BY <2>4, <2>5, <2>6, <2>7, <2>8, <2>9 DEF ScrollInv
<1> QED
    BY <1>5, <1>6

LEMMA ElsewhereKeeps == ASSUME ScrollInv, GrowElsewhere PROVE ScrollInv'
<1>1. PICK s \in Transcripts \ {shown} : lines' = [lines EXCEPT ![s] = @ + 1]
    BY DEF GrowElsewhere
<1>2. UNCHANGED <<shown, parked, top, lastTop, gestured, programmatic, callback,
                  event, target, unfollowed>>
    BY DEF GrowElsewhere
<1>3. ScrollTypeOK /\ Causes /\ FramesFit /\ PlaceHeld
      /\ ManualPlace /\ StickyTail /\ SmoothTail
    BY DEF ScrollInv
<1>4. /\ lines' \in [Transcripts -> Nat]
      /\ \A t \in Transcripts :
             parked[t].mode = "manual" => parked[t].offset < BottomOf(lines'[t])
    BY <1>1, <1>3, GrownHolds
<1>5. Bottom' = Bottom /\ ShownMode' = ShownMode
    BY <1>1, <1>2, <1>3 DEF Bottom, ShownMode, ScrollTypeOK
<1>6. ScrollTypeOK'
    BY <1>2, <1>3, <1>4 DEF ScrollTypeOK
<1>7. Causes'
    BY <1>2, <1>3 DEF Causes
<1>8. FramesFit' /\ PlaceHeld'
    BY <1>2, <1>3, <1>4, <1>5 DEF FramesFit, PlaceHeld
<1>9. ManualPlace'
    BY <1>2, <1>3, <1>5 DEF ManualPlace
<1>10. StickyTail' /\ SmoothTail'
    BY <1>2, <1>3, <1>5 DEF StickyTail, SmoothTail, AtBottom
<1> QED
    BY <1>6, <1>7, <1>8, <1>9, <1>10 DEF ScrollInv

(* What one scroll event does: it saves where the reader is, which is also *)
(* what re-arming does at the bottom; or it changes no position, and then  *)
(* nobody gestured.                                                        *)
Saves == /\ parked' = [parked EXCEPT ![shown] = Position]
         /\ unfollowed' = FALSE /\ programmatic' = FALSE /\ callback' = "none"
Ignores == /\ gestured = FALSE
           /\ UNCHANGED <<parked, unfollowed, programmatic, callback>>

LEMMA Decided == ASSUME ScrollTypeOK, Causes, HandleScroll PROVE Saves \/ Ignores
<1> DEFINE decision == DecideScroll(top - lastTop)
<1>1. /\ parked' = CASE decision \in {"abandon-programmatic", "save"} ->
                            [parked EXCEPT ![shown] = Position]
                     [] decision = "rearm-sticky" -> [parked EXCEPT ![shown] = Sticky]
                     [] OTHER -> parked
      /\ unfollowed' = (unfollowed /\ decision \notin {"abandon-programmatic", "save", "rearm-sticky"})
      /\ programmatic' = (programmatic /\ decision # "abandon-programmatic")
      /\ callback' = IF decision = "abandon-programmatic" THEN ClearFrames ELSE callback
    BY DEF HandleScroll
<1>2. /\ gestured \in BOOLEAN /\ programmatic \in BOOLEAN /\ unfollowed \in BOOLEAN
      /\ ~programmatic => callback = "none"
    BY DEF ScrollTypeOK, Causes
<1>3. CASE programmatic /\ (gestured \/ top - lastTop < 0)
  <2>1. decision = "abandon-programmatic"
      BY <1>3 DEF DecideScroll
  <2> HIDE DEF decision
  <2> QED
      BY <1>1, <2>1 DEF Saves, ClearFrames
<1>4. CASE programmatic /\ ~(gestured \/ top - lastTop < 0)
  <2>1. decision = "ignore"
      BY <1>4 DEF DecideScroll
  <2> HIDE DEF decision
  <2>2. parked' = parked /\ callback' = callback
      BY <1>1, <2>1
  <2>3. unfollowed' = unfollowed /\ programmatic' = programmatic
      BY <1>1, <1>2, <2>1
  <2> QED
      BY <1>2, <1>4, <2>2, <2>3 DEF Ignores
<1>5. CASE ~programmatic /\ ~gestured /\ top - lastTop >= 0 /\ AtBottom(top)
  <2>1. decision = "rearm-sticky" /\ Position = Sticky
      BY <1>5 DEF DecideScroll, Position
  <2> HIDE DEF decision
  <2> QED
      BY <1>1, <1>2, <1>5, <2>1 DEF Saves
<1>6. CASE ~programmatic /\ ~gestured /\ top - lastTop >= 0 /\ ~AtBottom(top)
  <2>1. decision = "hold"
      BY <1>6 DEF DecideScroll
  <2> HIDE DEF decision
  <2>2. parked' = parked /\ callback' = callback
      BY <1>1, <2>1
  <2>3. unfollowed' = unfollowed /\ programmatic' = programmatic
      BY <1>1, <1>2, <2>1
  <2> QED
      BY <1>2, <1>6, <2>2, <2>3 DEF Ignores
<1>7. CASE ~programmatic /\ ~(~gestured /\ top - lastTop >= 0)
  <2>1. decision = "save"
      BY <1>7 DEF DecideScroll
  <2> HIDE DEF decision
  <2> QED
      BY <1>1, <1>2, <1>7, <2>1 DEF Saves
<1> QED
    BY <1>3, <1>4, <1>5, <1>6, <1>7

(* The saved position: followed at the bottom, else where the viewport is. *)
LEMMA PositionTyped ==
    ASSUME ScrollTypeOK
    PROVE  /\ Position \in [mode : {"sticky", "manual"}, offset : Int]
           /\ Position.mode = "manual" => Position.offset = top /\ ~AtBottom(top)
           /\ Position.mode = "sticky" => AtBottom(top)
<1>1. CASE AtBottom(top)
    BY <1>1, StickyTyped DEF Position
<1>2. CASE ~AtBottom(top)
    BY <1>2 DEF Position, ScrollTypeOK
<1> QED
    BY <1>1, <1>2

LEMMA EventKeeps == ASSUME ScrollInv, ScrollEvent PROVE ScrollInv'
<1>1. /\ lastTop' = top /\ event' = FALSE
      /\ UNCHANGED <<shown, lines, top, gestured, target>>
    BY DEF ScrollEvent, HandleScroll
<1>2. ScrollTypeOK /\ Causes /\ FramesFit /\ PlaceHeld
      /\ ManualPlace /\ StickyTail /\ SmoothTail
    BY DEF ScrollInv
<1>3. shown \in Transcripts /\ Bottom' = Bottom /\ Bottom \in Nat /\ top \in Int
    BY <1>1, <1>2, BottomIsNatural DEF Bottom, ScrollTypeOK
<1>4. CASE Saves
  <2>1. /\ parked' \in [Transcripts -> [mode : {"sticky", "manual"}, offset : Int]]
        /\ parked'[shown] = Position
        /\ \A t \in Transcripts : t # shown => parked'[t] = parked[t]
      BY <1>2, <1>3, <1>4, PositionTyped, ParkedOne DEF Saves
  <2>2. ShownMode' = Position.mode
      BY <1>1, <2>1 DEF ShownMode
  <2>3. ScrollTypeOK'
      BY <1>1, <1>2, <1>4, <2>1 DEF ScrollTypeOK, Saves
  <2>4. Causes'
      BY <1>1, <1>2, <1>4 DEF Causes, Saves
  <2>5. FramesFit'
      BY <1>4 DEF FramesFit, Saves
  <2>6. PlaceHeld'
    <3>1. Position.mode = "manual" => Position.offset < Bottom
        BY <1>2, <1>3, PositionTyped DEF AtBottom
    <3> QED
        BY <1>1, <1>2, <2>1, <3>1 DEF PlaceHeld, Bottom
  <2>7. ManualPlace'
      BY <1>1, <1>2, <2>1, <2>2, PositionTyped DEF ManualPlace
  <2>8. StickyTail' /\ SmoothTail'
      BY <1>1, <1>2, <1>3, <2>2, PositionTyped DEF StickyTail, SmoothTail, AtBottom
  <2> QED
      BY <2>3, <2>4, <2>5, <2>6, <2>7, <2>8 DEF ScrollInv
<1>5. CASE Ignores
  <2>1. /\ gestured = FALSE /\ UNCHANGED <<parked, unfollowed, programmatic, callback>>
      BY <1>5 DEF Ignores
  <2>2. ShownMode' = ShownMode
      BY <1>1, <2>1 DEF ShownMode
  <2>3. ScrollTypeOK'
      BY <1>1, <1>2, <2>1 DEF ScrollTypeOK
  <2>4. Causes'
      BY <1>1, <1>2, <2>1 DEF Causes
  <2>5. FramesFit' /\ PlaceHeld'
      BY <1>1, <1>2, <2>1, <2>2 DEF FramesFit, PlaceHeld
  <2>6. ManualPlace'
      BY <1>1, <1>2, <2>1, <2>2 DEF ManualPlace
  <2>7. StickyTail'
      BY <1>1, <1>2, <1>3, <2>1, <2>2 DEF StickyTail, AtBottom
  <2>8. SmoothTail'
      BY <1>1, <1>2, <1>3, <2>1, <2>2 DEF SmoothTail, AtBottom
  <2> QED
      BY <2>3, <2>4, <2>5, <2>6, <2>7, <2>8 DEF ScrollInv
<1> QED
    BY <1>2, <1>4, <1>5, Decided DEF ScrollEvent

LEMMA LesserTyped ==
    ASSUME NEW m \in Int, NEW n \in Int
    PROVE  /\ Lesser(m, n) \in Int
           /\ m < n => Lesser(m, n) = m
BY DEF Lesser

LEMMA FrameKeeps == ASSUME ScrollInv, AnimationFrame PROVE ScrollInv'
<1>1. /\ event = FALSE
      /\ top' = CASE callback = "write again" -> Bottom
                  [] callback = "place again" -> Lesser(parked[shown].offset, Bottom)
                  [] OTHER -> top
      /\ lastTop' = IF callback = "place again" THEN top' ELSE lastTop
      /\ UNCHANGED <<shown, lines, parked, gestured, target>>
    BY DEF AnimationFrame, ScrollInv, ScrollTypeOK
<1>2. ScrollTypeOK /\ Causes /\ FramesFit /\ PlaceHeld
      /\ ManualPlace /\ StickyTail /\ SmoothTail
    BY DEF ScrollInv
<1>3. shown \in Transcripts /\ Bottom' = Bottom /\ Bottom \in Nat
      /\ parked[shown].offset \in Int /\ ShownMode' = ShownMode
    BY <1>1, <1>2, BottomIsNatural DEF Bottom, ShownMode, ScrollTypeOK
<1>4. event' = (top' # top)
    BY DEF AnimationFrame
<1>5. /\ top' # top => event' = TRUE
      /\ top' = top => event' = FALSE
    BY <1>4
<1>10. event' \in BOOLEAN /\ UNCHANGED <<shown, lines, parked, gestured, target>>
    BY <1>1, <1>5
<1>6. programmatic = TRUE /\ callback # "none"
    BY <1>2 DEF AnimationFrame, Causes, ScrollTypeOK
<1>7. CASE callback = "write again"
  <2>1. top' = Bottom /\ lastTop' = lastTop
      BY <1>1, <1>7
  <2>2. callback' = "release 1" /\ programmatic' = TRUE /\ unfollowed' = FALSE
      BY <1>6, <1>7 DEF AnimationFrame
  <2>3. ScrollTypeOK'
    <3>1. Bottom \in Int
        BY <1>3
    <3>2. lastTop \in Int
        BY <1>2 DEF ScrollTypeOK
    <3>3. top' \in Int /\ lastTop' \in Int
        BY <2>1, <3>1, <3>2
    <3> QED
        BY <1>2, <1>10, <2>2, <3>3 DEF ScrollTypeOK
  <2>4. Causes'
      BY <1>1, <1>2, <2>2 DEF Causes
  <2>5. ShownMode' = "sticky"
      BY <1>2, <1>3, <1>7 DEF FramesFit
  <2>6. FramesFit' /\ ManualPlace'
      BY <2>2, <2>5 DEF FramesFit, ManualPlace
  <2>7. PlaceHeld'
      BY <1>1, <1>2 DEF PlaceHeld
  <2>8. AtBottom(top)'
      BY <1>3, <2>1 DEF AtBottom
  <2> QED
      BY <2>3, <2>4, <2>6, <2>7, <2>8 DEF ScrollInv, StickyTail, SmoothTail
<1>8. CASE callback = "place again"
  <2>1. ShownMode = "manual"
      BY <1>2, <1>8 DEF FramesFit
  <2>2. parked[shown].offset < Bottom
      BY <1>2, <1>3, <2>1 DEF PlaceHeld, ShownMode, Bottom
  <2>3. top' = parked[shown].offset /\ lastTop' = top'
    <3>1. Lesser(parked[shown].offset, Bottom) = parked[shown].offset
        BY <1>3, <2>2 DEF Lesser
    <3> QED
        BY <1>1, <1>8, <3>1
  <2>4. callback' = "release 2" /\ programmatic' = TRUE /\ unfollowed' = FALSE
      BY <1>6, <1>8 DEF AnimationFrame
  <2>5. ScrollTypeOK'
      BY <1>2, <1>3, <1>10, <2>3, <2>4 DEF ScrollTypeOK
  <2>6. Causes'
      BY <1>1, <1>2, <2>4 DEF Causes
  <2>7. FramesFit' /\ StickyTail' /\ SmoothTail'
      BY <1>3, <2>1, <2>4 DEF FramesFit, StickyTail, SmoothTail
  <2>8. PlaceHeld'
      BY <1>1, <1>2 DEF PlaceHeld
  <2>9. ManualPlace'
      BY <1>1, <2>3 DEF ManualPlace
  <2> QED
      BY <2>5, <2>6, <2>7, <2>8, <2>9 DEF ScrollInv
<1>9. CASE callback \in {"release 1", "release 2"}
  <2>1. top' = top /\ lastTop' = lastTop /\ event' = FALSE
      BY <1>1, <1>5, <1>9
  <2>2. /\ callback' = (IF callback = "release 1" THEN "release 2" ELSE "none")
        /\ programmatic' = (programmatic /\ callback # "release 2")
        /\ unfollowed' = (unfollowed /\ callback \notin {"write again", "place again"})
      BY <1>9 DEF AnimationFrame
  <2>3. /\ unfollowed' = unfollowed
        /\ callback = "release 1" => programmatic' = TRUE /\ callback' = "release 2"
        /\ callback = "release 2" => programmatic' = FALSE /\ callback' = "none"
      BY <1>2, <1>6, <1>9, <2>2 DEF ScrollTypeOK
  <2>4. ScrollTypeOK'
      BY <1>1, <1>2, <1>9, <2>1, <2>3 DEF ScrollTypeOK
  <2>5. Causes'
      BY <1>1, <1>2, <1>9, <2>1, <2>3 DEF Causes
  <2>6. FramesFit' /\ PlaceHeld'
      BY <1>1, <1>2, <1>9, <2>3 DEF FramesFit, PlaceHeld
  <2>7. ManualPlace'
      BY <1>1, <1>2, <1>3, <2>1, <2>3 DEF ManualPlace
  <2>8. StickyTail'
      BY <1>1, <1>2, <1>3, <1>9, <2>1, <2>3 DEF StickyTail, AtBottom
  <2>9. SmoothTail'
      BY <1>1, <1>2, <1>3, <2>1, <2>3 DEF SmoothTail, AtBottom
  <2> QED
      BY <2>4, <2>5, <2>6, <2>7, <2>8, <2>9 DEF ScrollInv
<1> QED
    BY <1>2, <1>6, <1>7, <1>8, <1>9 DEF ScrollTypeOK

LEMMA SmoothKeeps == ASSUME ScrollInv, SmoothStep PROVE ScrollInv'
<1>1. /\ event = FALSE /\ target # -1
      /\ top' = IF top < target THEN top + 1 ELSE top
      /\ target' = IF top' >= target THEN -1 ELSE target
      /\ UNCHANGED <<shown, lines, parked, lastTop, gestured, programmatic,
                     callback, unfollowed>>
    BY DEF SmoothStep, ScrollInv, ScrollTypeOK
<1>2. ScrollTypeOK /\ Causes /\ FramesFit /\ PlaceHeld
      /\ ManualPlace /\ StickyTail /\ SmoothTail
    BY DEF ScrollInv
<1>3. Bottom' = Bottom /\ Bottom \in Nat /\ ShownMode' = ShownMode
    BY <1>1, <1>2, BottomIsNatural DEF Bottom, ShownMode, ScrollTypeOK
<1>4. event' = (top' # top)
    BY DEF SmoothStep
<1>5. /\ top' # top => event' = TRUE
      /\ top' = top => event' = FALSE
    BY <1>4
<1>6. gestured = TRUE
    BY <1>1, <1>2 DEF Causes, ScrollTypeOK
<1>7. top \in Int /\ target \in Int /\ top' \in Int /\ target' \in Int
  <2>1. top \in Int /\ target \in Int
      BY <1>2 DEF ScrollTypeOK
  <2>2. top' \in Int
      BY <1>1, <2>1
  <2> QED
      BY <1>1, <2>1, <2>2, MinusOne
<1>8. ScrollTypeOK'
    BY <1>1, <1>2, <1>5, <1>7 DEF ScrollTypeOK
<1>9. Causes'
    BY <1>1, <1>2, <1>6 DEF Causes
<1>10. FramesFit' /\ PlaceHeld'
    BY <1>1, <1>2, <1>3 DEF FramesFit, PlaceHeld
<1>11. ManualPlace'
    BY <1>1, <1>2, <1>3, <1>5, <1>6 DEF ManualPlace
<1>12. StickyTail'
  <2>1. CASE top' # top
      BY <1>1, <1>5, <1>6, <2>1 DEF StickyTail
  <2>2. CASE top' = top
    <3>1. top >= target
        BY <1>1, <1>7, <2>2
    <3>2. ShownMode = "sticky" /\ ~unfollowed => target >= Bottom \/ top >= Bottom
        BY <1>1, <1>2 DEF SmoothTail, AtBottom
    <3>3. ShownMode = "sticky" /\ ~unfollowed => top >= Bottom
        BY <1>3, <1>7, <3>1, <3>2
    <3> QED
        BY <1>1, <1>3, <2>2, <3>3 DEF StickyTail, AtBottom
  <2> QED
      BY <2>1, <2>2
<1>13. SmoothTail'
  <2>1. CASE target' = -1
      BY <2>1 DEF SmoothTail
  <2>2. CASE target' # -1
    <3>1. target' = target /\ top' >= top
        BY <1>1, <1>7, <2>2
    <3>2. ShownMode = "sticky" /\ ~unfollowed => target >= Bottom \/ top >= Bottom
        BY <1>1, <1>2 DEF SmoothTail, AtBottom
    <3>3. top >= Bottom => top' >= Bottom
        BY <1>3, <1>7, <3>1
    <3> QED
        BY <1>1, <1>3, <3>1, <3>2, <3>3 DEF SmoothTail, AtBottom
  <2> QED
      BY <2>1, <2>2
<1> QED
    BY <1>8, <1>9, <1>10, <1>11, <1>12, <1>13 DEF ScrollInv

LEMMA JumpKeeps == ASSUME ScrollInv, JumpToLatest PROVE ScrollInv'
<1>1. /\ gestured' = TRUE /\ programmatic' = TRUE /\ callback' = "release 1"
      /\ parked' = [parked EXCEPT ![shown] = Sticky]
      /\ target' = Bottom
      /\ UNCHANGED <<shown, lines, top, lastTop, event, unfollowed>>
    BY DEF JumpToLatest
<1>2. ScrollTypeOK /\ PlaceHeld
    BY DEF ScrollInv
<1>3. shown \in Transcripts /\ Bottom' = Bottom /\ Bottom \in Nat
    BY <1>1, <1>2, BottomIsNatural DEF Bottom, ScrollTypeOK
<1>4. /\ parked' \in [Transcripts -> [mode : {"sticky", "manual"}, offset : Int]]
      /\ parked'[shown] = Sticky
      /\ \A t \in Transcripts : t # shown => parked'[t] = parked[t]
    BY <1>1, <1>2, <1>3, StickyTyped, ParkedOne
<1>5. ShownMode' = "sticky"
    BY <1>1, <1>4, StickyTyped DEF ShownMode
<1>6. target' \in Nat /\ target' >= Bottom'
  <2>1. target' = Bottom /\ Bottom \in Nat /\ Bottom' = Bottom
      BY <1>1, <1>3
  <2> QED
      BY <2>1
<1>7. ScrollTypeOK'
  <2>1. target' \in Int
      BY <1>6
  <2> QED
      BY <1>1, <1>2, <1>4, <2>1 DEF ScrollTypeOK
<1>8. Causes'
    BY <1>1 DEF Causes
<1>9. FramesFit' /\ ManualPlace'
    BY <1>1, <1>5 DEF FramesFit, ManualPlace
<1>10. PlaceHeld'
    BY <1>1, <1>2, <1>4, StickyTyped DEF PlaceHeld
<1>11. StickyTail'
  <2>1. target' # -1
      BY <1>6
  <2> QED
      BY <2>1 DEF StickyTail
<1>12. SmoothTail'
    BY <1>6 DEF SmoothTail
<1> QED
    BY <1>7, <1>8, <1>9, <1>10, <1>11, <1>12 DEF ScrollInv

LEMMA EnterKeeps == ASSUME ScrollInv, EnterSession PROVE ScrollInv'
<1>1. PICK s \in Transcripts \ {shown} :
          /\ shown' = s /\ gestured' = FALSE /\ unfollowed' = FALSE
          /\ IF parked[s].mode = "sticky"
             THEN ScrollToBottom(s, BottomOf(lines[s])) /\ lastTop' = 0
             ELSE /\ top' = Lesser(parked[s].offset, BottomOf(lines[s]))
                  /\ lastTop' = top' /\ programmatic' = TRUE /\ callback' = "place again"
                  /\ event' = (event \/ top' # top) /\ target' = -1 /\ UNCHANGED parked
          /\ UNCHANGED lines
    BY DEF EnterSession
<1>2. ScrollTypeOK /\ PlaceHeld
    BY DEF ScrollInv
<1>3. /\ s \in Transcripts /\ lines' = lines
      /\ shown' = s /\ gestured' = FALSE /\ unfollowed' = FALSE
    BY <1>1
<1>4. /\ BottomOf(lines[s]) \in Nat /\ Bottom' = BottomOf(lines[s])
      /\ parked[s].offset \in Int
      /\ parked[s].mode \in {"sticky", "manual"}
    BY <1>2, <1>3, BottomIsNatural DEF Bottom, ScrollTypeOK
<1>5. CASE parked[s].mode = "sticky"
  <2>1. ScrollToBottom(s, BottomOf(lines[s])) /\ lastTop' = 0
      BY <1>1, <1>5
  <2>2. /\ parked' = [parked EXCEPT ![s] = Sticky]
        /\ programmatic' = TRUE /\ callback' = "write again"
        /\ top' = BottomOf(lines[s]) /\ target' = -1
      BY <2>1 DEF ScrollToBottom
  <2>3. event' \in BOOLEAN
    <3>1. event' = (event \/ top # BottomOf(lines[s]))
        BY <2>1 DEF ScrollToBottom
    <3> QED
        BY <3>1
  <2>4. /\ parked' \in [Transcripts -> [mode : {"sticky", "manual"}, offset : Int]]
        /\ parked'[s] = Sticky
        /\ \A t \in Transcripts : t # s => parked'[t] = parked[t]
      BY <1>2, <1>3, <2>2, StickyTyped, ParkedOne
  <2>5. ShownMode' = "sticky"
      BY <1>3, <2>4, StickyTyped DEF ShownMode
  <2>6. top' \in Int /\ lastTop' \in Int /\ target' \in Int
    <3>1. BottomOf(lines[s]) \in Int /\ 0 \in Int
        BY <1>4
    <3> QED
        BY <2>1, <2>2, <3>1, MinusOne
  <2>7. ScrollTypeOK'
      BY <1>2, <1>3, <2>2, <2>3, <2>4, <2>6 DEF ScrollTypeOK
  <2>8. Causes'
      BY <2>2 DEF Causes
  <2>9. FramesFit' /\ ManualPlace'
      BY <2>2, <2>5 DEF FramesFit, ManualPlace
  <2>10. PlaceHeld'
      BY <1>2, <1>3, <2>4, StickyTyped DEF PlaceHeld
  <2>11. StickyTail' /\ SmoothTail'
      BY <2>2 DEF StickyTail, SmoothTail
  <2> QED
      BY <2>7, <2>8, <2>9, <2>10, <2>11 DEF ScrollInv
<1>6. CASE parked[s].mode # "sticky"
  <2>1. /\ top' = Lesser(parked[s].offset, BottomOf(lines[s]))
        /\ lastTop' = top' /\ programmatic' = TRUE /\ callback' = "place again"
        /\ target' = -1 /\ parked' = parked
      BY <1>1, <1>6
  <2>2. event' \in BOOLEAN
    <3>1. event' = (event \/ top' # top)
        BY <1>1, <1>6
    <3> QED
        BY <3>1
  <2>3. parked[s].mode = "manual" /\ ShownMode' = "manual"
      BY <1>3, <1>4, <1>6, <2>1 DEF ShownMode
  <2>4. parked[s].offset < BottomOf(lines[s])
      BY <1>2, <1>3, <2>3 DEF PlaceHeld
  <2>5. Lesser(parked[s].offset, BottomOf(lines[s])) = parked[s].offset
      BY <1>4, <2>4 DEF Lesser
  <2>6. top' = parked[s].offset
      BY <2>1, <2>5
  <2>7. top' \in Int /\ lastTop' \in Int /\ target' \in Int
      BY <1>4, <2>1, <2>6, MinusOne
  <2>8. ScrollTypeOK'
      BY <1>2, <1>3, <2>1, <2>2, <2>7 DEF ScrollTypeOK
  <2>9. Causes'
      BY <2>1 DEF Causes
  <2>10. FramesFit' /\ StickyTail' /\ SmoothTail'
      BY <2>1, <2>3 DEF FramesFit, StickyTail, SmoothTail
  <2>11. PlaceHeld'
      BY <1>2, <1>3, <2>1 DEF PlaceHeld
  <2>12. ManualPlace'
      BY <1>3, <2>1, <2>6 DEF ManualPlace
  <2> QED
      BY <2>8, <2>9, <2>10, <2>11, <2>12 DEF ScrollInv
<1> QED
    BY <1>5, <1>6

LEMMA ScrollStep == ScrollInv /\ [ScrollNext]_scrollVars => ScrollInv'
<1> SUFFICES ASSUME ScrollInv, [ScrollNext]_scrollVars PROVE ScrollInv'
    OBVIOUS
<1>1. CASE UNCHANGED scrollVars
  <2>1. /\ UNCHANGED <<shown, lines, parked, top, lastTop, gestured>>
        /\ UNCHANGED <<programmatic, callback, event, target, unfollowed>>
      BY <1>1 DEF scrollVars
  <2>2. Bottom' = Bottom /\ ShownMode' = ShownMode
      BY <2>1 DEF Bottom, ShownMode
  <2> QED
      BY <2>1, <2>2 DEF ScrollInv, ScrollTypeOK, Causes, FramesFit, PlaceHeld, ManualPlace,
                        StickyTail, SmoothTail, AtBottom
<1>2. CASE ScrollNext
    BY <1>2, WheelKeeps, UnstampedKeeps, ExpireKeeps, GrowKeeps, ElsewhereKeeps, EventKeeps,
       FrameKeeps, SmoothKeeps, JumpKeeps, EnterKeeps DEF ScrollNext
<1> QED
    BY <1>1, <1>2

(* At rest what is left of the two tails is the bottom and the place.      *)
LEMMA AtRest == ScrollInv => StickyIsBottom /\ ParkedIsPlace
<1> SUFFICES ASSUME ScrollInv PROVE StickyIsBottom /\ ParkedIsPlace
    OBVIOUS
<1>1. StickyTail /\ ManualPlace
    BY DEF ScrollInv
<1>2. StickyIsBottom
    BY <1>1 DEF StickyIsBottom, StickyTail, ShownMode, Quiet
<1>3. ParkedIsPlace
    BY <1>1 DEF ParkedIsPlace, ManualPlace, ShownMode, Quiet
<1> QED
    BY <1>2, <1>3

(* While the session is parked, a step that moves the viewport is the      *)
(* reader's: following happens only to who follows, and a frame that       *)
(* writes the bottom again is cancelled with the scroll it belongs to.     *)
LEMMA OnlyTheReaderMoves ==
    ASSUME ScrollInv, [ScrollNext]_scrollVars, top' # top, parked[shown].mode = "manual"
    PROVE  Wheel \/ UnstampedScroll \/ SmoothStep \/ EnterSession
           \/ (callback = "place again" /\ AnimationFrame)
<1>1. ScrollNext
    BY DEF scrollVars
<1>2. ~GestureExpires /\ ~GrowElsewhere /\ ~ScrollEvent /\ ~JumpToLatest
    BY DEF GestureExpires, GrowElsewhere, ScrollEvent, HandleScroll, JumpToLatest
<1>3. ~Grow
  <2>1. ~Follows
      BY DEF Follows
  <2> QED
      BY <2>1 DEF Grow
<1>4. AnimationFrame => callback = "place again"
  <2>1. callback # "write again"
      BY DEF ScrollInv, FramesFit, ShownMode
  <2>2. AnimationFrame /\ callback # "place again" => top' = top
      BY <2>1 DEF AnimationFrame
  <2> QED
      BY <2>2
<1> QED
    BY <1>1, <1>2, <1>3, <1>4 DEF ScrollNext

(* The event of a move that left the bottom parks the session there.       *)
LEMMA EscapeParks ==
    ASSUME ScrollInv, event /\ (gestured \/ top < lastTop) /\ ~AtBottom(top) /\ HandleScroll
    PROVE  parked'[shown] = [mode |-> "manual", offset |-> top]
<1> DEFINE decision == DecideScroll(top - lastTop)
<1>1. ScrollTypeOK
    BY DEF ScrollInv
<1>2. top \in Int /\ lastTop \in Int /\ shown \in Transcripts
    BY <1>1 DEF ScrollTypeOK
<1>3. gestured \/ top - lastTop < 0
    BY <1>2
<1>4. gestured \/ ~(top - lastTop >= 0)
    BY <1>2
<1>5. decision \in {"abandon-programmatic", "save"}
    BY <1>3, <1>4 DEF DecideScroll
<1> HIDE DEF decision
<1>6. parked' = [parked EXCEPT ![shown] = Position]
    BY <1>5 DEF HandleScroll, decision
<1>7. Position = [mode |-> "manual", offset |-> top]
    BY DEF Position
<1>8. parked'[shown] = Position
    BY <1>1, <1>2, <1>6, PositionTyped, ParkedOne
<1> QED
    BY <1>7, <1>8

(* The reader is in control of the transcript: while it is parked nothing  *)
(* but the reader moves it, a move away from the bottom parks it even      *)
(* while growth is being followed, at rest a session that follows is at    *)
(* its bottom and a parked one is where its return will place it (unless   *)
(* content grew inside the gesture window, or a key that stamps no gesture *)
(* moved the reader down).  For every number of transcripts, heights and   *)
(* gestures, and every order of events, frames and growth                  *)
(* (use-conversation-scroll, scroll-machine).                              *)
THEOREM ReaderDecides == ScrollSpec => ReaderInControl
<1>1. ScrollInit => ScrollInv
    BY ScrollInitially
<1>2. ScrollInv /\ [ScrollNext]_scrollVars => ScrollInv'
    BY ScrollStep
<1>3. ScrollInv => StickyIsBottom /\ ParkedIsPlace
    BY AtRest
<1>4. ScrollInv /\ [ScrollNext]_scrollVars =>
          [top' # top /\ parked[shown].mode = "manual"
               => Wheel \/ UnstampedScroll \/ SmoothStep \/ EnterSession
                  \/ (callback = "place again" /\ AnimationFrame)]_scrollVars
    BY OnlyTheReaderMoves
<1>5. ScrollInv /\ [ScrollNext]_scrollVars =>
          [event /\ (gestured \/ top < lastTop) /\ ~AtBottom(top) /\ HandleScroll
               => parked'[shown] = [mode |-> "manual", offset |-> top]]_scrollVars
    BY EscapeParks
<1> QED
    BY <1>1, <1>2, <1>3, <1>4, <1>5, PTL DEF ScrollSpec, ReaderInControl, ManualHolds, EscapeWorks

-----------------------------------------------------------------------------
(* Keystrokes.  A palette that is closed is on its first view; an Escape   *)
(* is armed exactly while one press of this turn is remembered.            *)

ClosedIsFresh == ~isOpen => mode = "root" /\ query = 0
ArmedByOne == IF armed THEN presses = 1 ELSE presses = 0

KeysInv == ClosedIsFresh /\ ArmedByOne /\ StopNeedsTwo

LEMMA KeysInitially == KeysInit => KeysInv
BY DEF KeysInit, KeysInv, ClosedIsFresh, ArmedByOne, StopNeedsTwo

(* What a step of the palette leaves of the composer: nothing is touched,  *)
(* or the Escape is disarmed with its session.                             *)
ComposerRests ==
    /\ \/ UNCHANGED <<armed, presses>>
       \/ armed' = FALSE /\ presses' = 0
    /\ stopped' = stopped

LEMMA RestKeeps ==
    ASSUME ArmedByOne, StopNeedsTwo, ComposerRests
    PROVE  ArmedByOne' /\ StopNeedsTwo'
BY DEF ArmedByOne, StopNeedsTwo, ComposerRests

(* A command either closes the palette, on its first view, or keeps it     *)
(* open; and it leaves the composer alone or with nothing armed.           *)
LEMMA CommandKeeps ==
    ASSUME NEW item, isOpen, SelectItem(item), stopped' = stopped
    PROVE  ClosedIsFresh' /\ ComposerRests
<1>1. ClosedIsFresh'
    BY DEF SelectItem, KeepsOpen, Close, GoToView, ClosedIsFresh
<1>2. ComposerRests
    BY DEF SelectItem, ComposerAfter, composerSide, ComposerRests
<1> QED
    BY <1>1, <1>2

(* The global listener keeps a closed palette on its first view.           *)
LEMMA GlobalKeeps ==
    ASSUME NEW ev, ClosedIsFresh, Global(ev)
    PROVE  ClosedIsFresh'
BY DEF Global, Close, GoToView, ClosedIsFresh

LEMMA PaletteKeyKeeps ==
    ASSUME NEW ev, KeysInv, PaletteKey(ev)
    PROVE  KeysInv'
<1>1. isOpen /\ stopped' = stopped /\ ClosedIsFresh /\ ArmedByOne /\ StopNeedsTwo
    BY DEF PaletteKey, KeysInv
<1> DEFINE rows == ShortcutsOwnedBy("palette")
<1>2. CASE UNCHANGED <<paletteSide, composerSide>>
    BY <1>1, <1>2, RestKeeps DEF paletteSide, composerSide, ComposerRests, ClosedIsFresh, KeysInv
<1>3. CASE /\ IF mode = "root" THEN Close ELSE GoToView("root") /\ UNCHANGED <<isOpen, focused>>
           /\ UNCHANGED <<ran, place, making, composerSide>>
  <2>1. ClosedIsFresh'
      BY <1>1, <1>3 DEF Close, GoToView, ClosedIsFresh
  <2>2. ComposerRests
      BY <1>1, <1>3 DEF composerSide, ComposerRests
  <2> QED
      BY <1>1, <2>1, <2>2, RestKeeps DEF KeysInv
<1>4. CASE UNCHANGED <<isOpen, focused, ran, place, making, composerSide>>
    BY <1>1, <1>4, RestKeeps DEF composerSide, ComposerRests, ClosedIsFresh, KeysInv
<1>5. CASE \E item \in PaletteItems : SelectItem(item)
    BY <1>1, <1>5, CommandKeeps, RestKeeps DEF KeysInv
<1>6. CASE Global(ev) /\ UNCHANGED <<ran, place, making, composerSide>>
  <2>1. ComposerRests
      BY <1>1, <1>6 DEF composerSide, ComposerRests
  <2> QED
      BY <1>1, <1>6, <2>1, GlobalKeeps, RestKeeps DEF KeysInv
<1> QED
    BY <1>2, <1>3, <1>4, <1>5, <1>6 DEF PaletteKey

(* The second press stops the turn; the first is remembered as one.        *)
LEMMA PageKeyKeeps ==
    ASSUME NEW ev, KeysInv, PageKey(ev)
    PROVE  KeysInv'
<1>1. ClosedIsFresh /\ ArmedByOne /\ StopNeedsTwo /\ Global(ev)
    BY DEF PageKey, KeysInv
<1>2. ClosedIsFresh'
    BY <1>1, GlobalKeeps
<1>3. HandleEscape(ev) \/ UNCHANGED <<armed, presses, stopped>>
    BY DEF PageKey
<1>4. ArmedByOne' /\ StopNeedsTwo'
  <2>1. CASE UNCHANGED <<armed, presses, stopped>>
      BY <1>1, <2>1 DEF ArmedByOne, StopNeedsTwo
  <2>2. CASE armed /\ armed' = FALSE /\ stopped' = presses + 1 /\ presses' = 0
      BY <1>1, <2>2 DEF ArmedByOne, StopNeedsTwo
  <2>3. CASE ~armed /\ armed' = TRUE /\ presses' = presses + 1 /\ stopped' = stopped
      BY <1>1, <2>3 DEF ArmedByOne, StopNeedsTwo
  <2> QED
      BY <1>3, <2>1, <2>2, <2>3 DEF HandleEscape
<1> QED
    BY <1>2, <1>4 DEF KeysInv

LEMMA KeysStep == KeysInv /\ [KeysNext]_keyVars => KeysInv'
<1> SUFFICES ASSUME KeysInv, [KeysNext]_keyVars PROVE KeysInv'
    OBVIOUS
<1>1. ClosedIsFresh /\ ArmedByOne /\ StopNeedsTwo
    BY DEF KeysInv
<1>2. CASE UNCHANGED keyVars
    BY <1>1, <1>2 DEF keyVars, KeysInv, ClosedIsFresh, ArmedByOne, StopNeedsTwo
<1>3. ASSUME NEW item \in PaletteItems, ClickItem(item) PROVE KeysInv'
  <2>1. isOpen /\ SelectItem(item) /\ stopped' = stopped
      BY <1>3 DEF ClickItem
  <2> QED
      BY <1>1, <2>1, CommandKeeps, RestKeeps DEF KeysInv
<1>4. ASSUME NEW surface, FocusOn(surface) PROVE KeysInv'
    BY <1>1, <1>4, RestKeeps DEF FocusOn, composerSide, ComposerRests, ClosedIsFresh, KeysInv
<1>5. CASE TypeQuery
    BY <1>1, <1>5, RestKeeps DEF TypeQuery, composerSide, ComposerRests, ClosedIsFresh, KeysInv
<1>6. CASE ClickBack \/ ClickScrim
  <2>1. ClosedIsFresh'
      BY <1>1, <1>6 DEF ClickBack, ClickScrim, Close, GoToView, ClosedIsFresh
  <2>2. ComposerRests
      BY <1>6 DEF ClickBack, ClickScrim, composerSide, ComposerRests
  <2> QED
      BY <1>1, <2>1, <2>2, RestKeeps DEF KeysInv
<1>7. CASE SessionCreated \/ BackFromTrace
  <2>1. UNCHANGED <<isOpen, mode, query, composerSide, stopped>>
      BY <1>7 DEF SessionCreated, BackFromTrace
  <2> QED
      BY <1>1, <2>1, RestKeeps DEF composerSide, ComposerRests, ClosedIsFresh, KeysInv
<1>8. CASE Suggest \/ ArmLapses \/ RunStarts \/ RunEnds
  <2>1. UNCHANGED <<isOpen, mode, query>>
      BY <1>8 DEF Suggest, ArmLapses, RunStarts, RunEnds, paletteSide
  <2>2. ComposerRests
      BY <1>8 DEF Suggest, ArmLapses, RunStarts, RunEnds, composerSide, ComposerRests
  <2> QED
      BY <1>1, <2>1, <2>2, RestKeeps DEF ClosedIsFresh, KeysInv
<1> QED
    BY <1>2, <1>3, <1>4, <1>5, <1>6, <1>7, <1>8, PaletteKeyKeeps, PageKeyKeeps DEF KeysNext

(* The palette opens as it was left: on its first view, by its own key.    *)
LEMMA OpensFresh ==
    ASSUME KeysInv, NEW ev \in Keystrokes, ~isOpen, ev.key = "k", PageKey(ev)
    PROVE  mode' = "root" /\ query' = 0
<1>1. mode = "root" /\ query = 0 /\ Global(ev)
    BY DEF KeysInv, ClosedIsFresh, PageKey
<1>2. ~Fires(ev, GlobalShortcuts, "shortcuts.help")
  <2>1. SUFFICES ASSUME NEW b \in GlobalShortcuts, b.id = "shortcuts.help", b.key = ev.key
                 PROVE  FALSE
      BY DEF Fires, MatchShortcut
  <2>2. b.key = "/"
      BY <2>1 DEF GlobalShortcuts, Shortcuts, Binding
  <2> QED
      BY <2>1, <2>2
<1> QED
    BY <1>1, <1>2 DEF Global

(* No row matches a keystroke of a composition, so neither the palette nor *)
(* the global listener acts on it.                                         *)
LEMMA ComposingMatchesNothing ==
    ASSUME NEW ev, ev.composing, NEW rows
    PROVE  /\ MatchShortcut(ev, rows) = {}
           /\ \A id : ~Fires(ev, rows, id)
BY DEF MatchShortcut, Fires

LEMMA ComposingChangesNothing ==
    ASSUME NEW ev, ev.composing, PaletteKey(ev) \/ PageKey(ev)
    PROVE  UNCHANGED <<isOpen, mode, query, ran, place>>
<1>1. CASE PaletteKey(ev)
    BY <1>1 DEF PaletteKey, paletteSide
<1>2. CASE PageKey(ev)
  <2>1. UNCHANGED <<ran, place>> /\ Global(ev)
      BY <1>2 DEF PageKey
  <2>2. UNCHANGED <<isOpen, mode, query>>
      BY <2>1, ComposingMatchesNothing DEF Global
  <2> QED
      BY <2>1, <2>2
<1> QED
    BY <1>1, <1>2

(* Keystrokes do what was asked for: a turn is stopped by two presses made *)
(* during it and never by one, the palette opens on its first view however *)
(* it was left, and no keystroke of a composition opens, closes, searches  *)
(* or runs anything.  For every number of keystrokes and turns (the        *)
(* shortcut table, the command palette and the composer's Escape).         *)
THEOREM KeysDoWhatWasAsked == KeysSpec => KeysGuarded
<1>1. KeysInit => KeysInv
    BY KeysInitially
<1>2. KeysInv /\ [KeysNext]_keyVars => KeysInv'
    BY KeysStep
<1>3. KeysInv => StopNeedsTwo
    BY DEF KeysInv
<1>4. KeysInv /\ [KeysNext]_keyVars =>
          [isOpen' # isOpen =>
              \A ev \in Keystrokes :
                  (~isOpen /\ ev.key = "k" /\ PageKey(ev)) => mode' = "root" /\ query' = 0]_keyVars
    BY OpensFresh
<1>5. [KeysNext]_keyVars =>
          [\/ UNCHANGED <<isOpen, mode, query, ran, place>>
           \/ \A ev \in Keystrokes : ev.composing => ~PaletteKey(ev) /\ ~PageKey(ev)]_keyVars
    BY ComposingChangesNothing
<1> QED
    BY <1>1, <1>2, <1>3, <1>4, <1>5, PTL DEF KeysSpec, KeysGuarded, PaletteFresh, CompositionInert
-----------------------------------------------------------------------------
(* Artifacts.  What the dock holds of a session was found by a stat of the *)
(* directory for a path its own transcript names; a read that is out or    *)
(* answered is of the file on screen.                                      *)

ConfirmedBy(d, said, there, bytes) ==
    /\ DOMAIN d \subseteq Files
    /\ \A f \in DOMAIN d : /\ \E i \in DOMAIN said : said[i].file = f
                           /\ d[f].exists = TRUE => f \in there
                           /\ d[f].updatedAt \in Nat /\ d[f].updatedAt <= bytes[f]

PanelTyped ==
    /\ disk \in [Files -> Nat] /\ existed \subseteq Files
    /\ transcript \in [PanelSessions -> Seq(Remarks)]
    /\ onScreen \in PanelSessions
    /\ texts \in [PanelSessions -> [Files -> {Unknown} \cup [version : Nat, invalid : BOOLEAN]]]
    /\ noticed \in [PanelSessions -> [Files -> Nat]]
    /\ listing \in [PanelSessions -> (SUBSET Files) \cup {Unknown}]
    /\ DOMAIN resolution = PanelSessions /\ DOMAIN targets = PanelSessions

Existing == \A f \in Files : disk[f] > 0 => f \in existed

Resolved ==
    /\ \A s \in PanelSessions :
          /\ resolution[s] # Unknown => ConfirmedBy(resolution[s], transcript[s], existed, disk)
          /\ ConfirmedBy(targets[s], transcript[s], existed, disk)
    /\ asked \notin {Idle, Sent} => ConfirmedBy(asked, transcript[onScreen], existed, disk)

NoticedServed == \A s \in PanelSessions, f \in Files : noticed[s][f] <= disk[f]

Reading ==
    /\ textRequest # Idle => Observed(onScreen, selection)
    /\ textRequest \notin {Idle, Sent} =>
           textRequest \in Nat /\ noticed[onScreen][selection] <= textRequest

PanelInv == /\ PanelTyped /\ Existing /\ Resolved /\ NoticedServed /\ Reading /\ TextFollows

-----------------------------------------------------------------------------
(* The strongest of the confidences a file can have is one of them.        *)
LEMMA StrongestIsEvidence ==
    ASSUME NEW S, S # {}, S \subseteq {95, 90, 65}
    PROVE  Max(S) \in S /\ \A x \in S : Max(S) >= x
<1>1. \E x \in S : \A y \in S : x >= y
  <2>1. CASE 95 \in S
    BY <2>1
  <2>2. CASE 95 \notin S /\ 90 \in S
    BY <2>2
  <2>3. CASE 95 \notin S /\ 90 \notin S
    <3>1. \A y \in S : y = 65
      BY <2>3
    <3>2. PICK x \in S : x = 65
      BY <3>1
    <3>3. \A y \in S : x >= y
      BY <3>1, <3>2
    <3>4. QED
      BY <3>3
  <2>4. QED
    BY <2>1, <2>2, <2>3
<1>2. QED
  BY <1>1 DEF Max

LEMMA Scanned ==
    ASSUME NEW item
    PROVE  /\ DOMAIN ScanItem(item) \subseteq CandidateFromFile(item)
           /\ \A f \in DOMAIN ScanItem(item) : ScanItem(item)[f] \in {95, 90, 65}
           /\ item.kind = "write" =>
                  \A f \in CandidateFromFile(item) : f \in DOMAIN ScanItem(item) /\ ScanItem(item)[f] = 95
           /\ item.kind # "write" => \A f \in DOMAIN ScanItem(item) : ScanItem(item)[f] # 95
           /\ CandidateFromFile(item) \subseteq {item.file}
<1>1. CandidateFromFile(item) \subseteq {item.file}
  BY DEF CandidateFromFile
<1>2. CASE item.kind = "write"
  BY <1>1, <1>2 DEF ScanItem, ArtifactConfidence
<1>3. CASE item.kind = "output"
  BY <1>1, <1>3 DEF ScanItem, ArtifactConfidence
<1>4. CASE item.kind = "made"
  BY <1>1, <1>4 DEF ScanItem, ArtifactConfidence
<1>5. CASE item.kind \notin {"write", "output", "made"}
  BY <1>1, <1>5 DEF ScanItem
<1>6. QED
  BY <1>2, <1>3, <1>4, <1>5

LEMMA EvidenceOf ==
    ASSUME NEW said, NEW f \in Files
    PROVE  /\ Evidence(said, f) \subseteq {95, 90, 65}
           /\ f \in DOMAIN DeriveArtifactCandidates(said) <=> Evidence(said, f) # {}
           /\ f \in DOMAIN DeriveArtifactCandidates(said) =>
                  /\ DeriveArtifactCandidates(said)[f] = Max(Evidence(said, f))
                  /\ \E i \in DOMAIN said : said[i].file = f
           /\ 95 \in Evidence(said, f) <=>
                  \E i \in DOMAIN said : /\ said[i].kind = "write" /\ said[i].file = f
                                         /\ CandidateFromFile(said[i]) # {}
<1>1. Evidence(said, f) \subseteq {95, 90, 65}
  BY Scanned DEF Evidence
<1>2. /\ f \in DOMAIN DeriveArtifactCandidates(said) <=> Evidence(said, f) # {}
      /\ f \in DOMAIN DeriveArtifactCandidates(said) =>
             DeriveArtifactCandidates(said)[f] = Max(Evidence(said, f))
  BY DEF DeriveArtifactCandidates
<1>3. Evidence(said, f) # {} => \E i \in DOMAIN said : said[i].file = f
  BY Scanned DEF Evidence
<1>4. ASSUME 95 \in Evidence(said, f)
      PROVE  \E i \in DOMAIN said : /\ said[i].kind = "write" /\ said[i].file = f
                                    /\ CandidateFromFile(said[i]) # {}
  <2>1. PICK i \in DOMAIN said : f \in DOMAIN ScanItem(said[i]) /\ ScanItem(said[i])[f] = 95
    BY <1>4 DEF Evidence
  <2>2. QED
    BY <2>1, Scanned
<1>5. ASSUME NEW i \in DOMAIN said, said[i].kind = "write", said[i].file = f,
             CandidateFromFile(said[i]) # {}
      PROVE  95 \in Evidence(said, f)
  <2>1. f \in CandidateFromFile(said[i])
    BY <1>5, Scanned
  <2>2. f \in DOMAIN ScanItem(said[i]) /\ ScanItem(said[i])[f] = 95
    BY <1>5, <2>1, Scanned
  <2>3. QED
    BY <2>2 DEF Evidence
<1>6. QED
  BY <1>1, <1>2, <1>3, <1>4, <1>5

(* A written file is asked about before one that is talked about.          *)
LEMMA WrittenComesFirst == WrittenFirst
<1> SUFFICES ASSUME NEW s \in PanelSessions,
                    NEW S \in SUBSET DOMAIN DeriveArtifactCandidates(transcript[s]),
                    ResolvablePaths(DeriveArtifactCandidates(transcript[s]), S),
                    NEW w \in Files, NEW x \in S, w \notin S,
                    \E i \in DOMAIN transcript[s] :
                        /\ transcript[s][i].kind = "write" /\ transcript[s][i].file = w
                        /\ CandidateFromFile(transcript[s][i]) # {},
                    ~\E i \in DOMAIN transcript[s] :
                        /\ transcript[s][i].kind = "write" /\ transcript[s][i].file = x
                        /\ CandidateFromFile(transcript[s][i]) # {}
             PROVE  FALSE
  <2>1. \A t \in PanelSessions : DOMAIN DeriveArtifactCandidates(transcript[t]) \subseteq Files
    BY DEF DeriveArtifactCandidates
  <2>2. QED
    BY <2>1 DEF WrittenFirst
<1> DEFINE c == DeriveArtifactCandidates(transcript[s])
<1>1. x \in Files
  BY DEF DeriveArtifactCandidates
<1>2. 95 \in Evidence(transcript[s], w) /\ 95 \notin Evidence(transcript[s], x)
  BY <1>1, EvidenceOf
<1>3. w \in DOMAIN c /\ c[w] = Max(Evidence(transcript[s], w)) /\ c[x] = Max(Evidence(transcript[s], x))
      /\ Evidence(transcript[s], x) # {}
  BY <1>1, <1>2, EvidenceOf
<1>4. Evidence(transcript[s], w) \subseteq {95, 90, 65} /\ Evidence(transcript[s], x) \subseteq {95, 90, 65}
  BY <1>1, EvidenceOf
<1>5. c[w] = 95
  BY <1>2, <1>3, <1>4, StrongestIsEvidence
<1>6. c[x] \in {90, 65}
  BY <1>2, <1>3, <1>4, StrongestIsEvidence
<1>7. c[w] <= c[x]
  BY <1>3 DEF ResolvablePaths
<1>8. QED
  BY <1>5, <1>6, <1>7

(* A transcript only grows, a file once there has been there, and its      *)
(* version only rises: what was confirmed stays confirmed.                 *)
LEMMA StillConfirmed ==
    ASSUME NEW d, NEW said, NEW there, NEW bytes \in [Files -> Nat],
           NEW more, NEW since, NEW now \in [Files -> Nat],
           ConfirmedBy(d, said, there, bytes),
           \A i \in DOMAIN said : i \in DOMAIN more /\ more[i] = said[i],
           there \subseteq since,
           \A f \in Files : bytes[f] <= now[f]
    PROVE  ConfirmedBy(d, more, since, now)
BY DEF ConfirmedBy

LEMMA InvalidatedTyped ==
    ASSUME PanelTyped, NEW s \in PanelSessions, NEW S
    PROVE  Invalidated(s, S) \in [PanelSessions -> [Files -> {Unknown} \cup [version : Nat, invalid : BOOLEAN]]]
<1> DEFINE Mark(f) == IF f \in S /\ texts[s][f] # Unknown
                      THEN [texts[s][f] EXCEPT !.invalid = TRUE] ELSE texts[s][f]
<1>1. ASSUME NEW f \in Files PROVE Mark(f) \in {Unknown} \cup [version : Nat, invalid : BOOLEAN]
  <2>1. texts[s][f] \in {Unknown} \cup [version : Nat, invalid : BOOLEAN]
    BY DEF PanelTyped
  <2>2. texts[s][f] # Unknown =>
            [texts[s][f] EXCEPT !.invalid = TRUE] \in [version : Nat, invalid : BOOLEAN]
    BY <2>1
  <2>3. QED
    BY <2>1, <2>2
<1>2. Invalidated(s, S) = [texts EXCEPT ![s] = [f \in Files |-> Mark(f)]]
  BY DEF Invalidated
<1> HIDE DEF Mark
<1>3. [f \in Files |-> Mark(f)] \in [Files -> {Unknown} \cup [version : Nat, invalid : BOOLEAN]]
  BY <1>1
<1>4. QED
  BY <1>2, <1>3 DEF PanelTyped

LEMMA PanelInitially == PanelInit => PanelInv
<1> SUFFICES ASSUME PanelInit PROVE PanelInv
  OBVIOUS
<1>1. PanelTyped
  BY DEF PanelInit, PanelTyped
<1>2. Existing /\ NoticedServed /\ Reading /\ TextFollows
  BY DEF PanelInit, Existing, NoticedServed, Reading, TextFollows
<1>3. Resolved
  BY DEF PanelInit, Resolved, ConfirmedBy
<1>4. QED
  BY <1>1, <1>2, <1>3 DEF PanelInv

(* Steps of the engine and of the reads.                                   *)
LEMMA SaysKeeps ==
    ASSUME PanelInv, NEW s \in PanelSessions, NEW item \in Remarks, Says(s, item)
    PROVE  PanelInv'
<1> USE DEF PanelInv
<1>1. /\ transcript' = [transcript EXCEPT ![s] = Append(transcript[s], item)]
      /\ UNCHANGED <<disk, openPanels, onScreen, previous, targets, listing, selection, texts,
                     textRequest, clicks, existed, noticed>>
      /\ \/ resolution' = [resolution EXCEPT ![s] = Unknown] /\ asked' \in {Sent, asked}
         \/ UNCHANGED <<resolution, asked>>
  BY DEF Says
<1>2. PanelTyped'
  BY <1>1 DEF PanelTyped
<1>3. \A t \in PanelSessions : \A i \in DOMAIN transcript[t] :
          i \in DOMAIN transcript'[t] /\ transcript'[t][i] = transcript[t][i]
  BY <1>1 DEF PanelTyped
<1>4. \A t \in PanelSessions : \A d : ConfirmedBy(d, transcript[t], existed, disk) =>
          ConfirmedBy(d, transcript'[t], existed, disk)
  BY <1>3 DEF ConfirmedBy
<1>5. Resolved'
  BY <1>1, <1>4 DEF PanelTyped, Resolved
<1>6. (Existing /\ NoticedServed /\ Reading /\ TextFollows)'
  BY <1>1 DEF Existing, NoticedServed, Reading, TextFollows, Observed
<1>7. QED
  BY <1>2, <1>5, <1>6

LEMMA WriteKeeps ==
    ASSUME PanelInv, NEW f \in Files, WritesFile(f)
    PROVE  PanelInv'
<1> USE DEF PanelInv
<1>1. /\ disk' = [disk EXCEPT ![f] = @ + 1] /\ existed' = existed \cup {f}
      /\ UNCHANGED <<transcript, openPanels, onScreen, resolution, asked, previous, targets, listing,
                     selection, texts, textRequest, clicks, noticed>>
  BY DEF WritesFile
<1>2. PanelTyped'
  BY <1>1 DEF PanelTyped
<1>3. \A g \in Files : disk[g] <= disk'[g]
  BY <1>1 DEF PanelTyped
<1>4. \A d, said : ConfirmedBy(d, said, existed, disk) => ConfirmedBy(d, said, existed', disk')
  <2>1. PICK now, since : now = disk' /\ since = existed'
    OBVIOUS
  <2>2. \A d, said : ConfirmedBy(d, said, existed, disk) => ConfirmedBy(d, said, since, now)
    BY <1>1, <1>2, <1>3, <2>1 DEF ConfirmedBy, PanelTyped
  <2>3. QED
    BY <2>1, <2>2
<1>5. Resolved'
  BY <1>1, <1>4 DEF Resolved
<1>6. Existing' /\ NoticedServed'
  BY <1>1, <1>3 DEF PanelTyped, Existing, NoticedServed
<1>7. Reading' /\ TextFollows'
  BY <1>1 DEF Reading, TextFollows, Observed
<1>8. QED
  BY <1>2, <1>5, <1>6, <1>7

LEMMA ServedKeeps == ASSUME PanelInv, ResolveServed PROVE PanelInv'
<1> USE DEF PanelInv
<1> DEFINE c == DeriveArtifactCandidates(transcript[onScreen])
<1>1. /\ UNCHANGED <<disk, transcript, openPanels, onScreen, resolution, previous, targets, listing,
                     selection, texts, textRequest, clicks, existed, noticed>>
      /\ \/ \E S \in SUBSET DOMAIN c : asked' = ApplyResolution(c, S)
         \/ asked' = DegradeUnresolved(c)
  BY DEF ResolveServed
<1>2. \A f \in DOMAIN c : f \in Files /\ \E i \in DOMAIN transcript[onScreen] : transcript[onScreen][i].file = f
  <2>1. \A f \in DOMAIN c : f \in Files
    BY DEF DeriveArtifactCandidates
  <2>2. QED
    BY <2>1, EvidenceOf
<1> HIDE DEF c
<1>3. \A f \in Files : /\ Stat(f).exists = TRUE => f \in existed
                       /\ Stat(f).updatedAt \in Nat /\ Stat(f).updatedAt <= disk[f]
                       /\ Unresolved.exists # TRUE
                       /\ Unresolved.updatedAt \in Nat /\ Unresolved.updatedAt <= disk[f]
  <2> TAKE f \in Files
  <2>1. disk[f] \in Nat /\ (disk[f] > 0 => f \in existed)
    BY DEF PanelTyped, Existing
  <2>2. Unresolved.exists # TRUE /\ Unresolved.updatedAt = 0
    BY PanelAssumption DEF Unresolved
  <2>3. Stat(f).updatedAt = disk[f] /\ (Stat(f).exists = TRUE => disk[f] > 0)
    BY DEF Stat
  <2> HIDE DEF PanelInv
  <2>4. Stat(f).updatedAt \in Nat /\ Stat(f).updatedAt <= disk[f]
    BY <2>1, <2>3
  <2>5. Unresolved.updatedAt \in Nat /\ Unresolved.updatedAt <= disk[f]
    BY <2>1, <2>2
  <2>6. QED
    BY <2>1, <2>2, <2>3, <2>4, <2>5
<1> HIDE DEF PanelInv
<1>4. /\ DOMAIN asked' = DOMAIN c
      /\ \A f \in DOMAIN c : asked'[f] = Stat(f) \/ asked'[f] = Unresolved
  BY <1>1 DEF ApplyResolution, DegradeUnresolved
<1>5. ConfirmedBy(asked', transcript[onScreen], existed, disk)
  <2>1. PICK d : d = asked'
    OBVIOUS
  <2>2. ConfirmedBy(d, transcript[onScreen], existed, disk)
    BY <1>2, <1>3, <1>4, <2>1 DEF ConfirmedBy
  <2>3. QED
    BY <2>1, <2>2
<1> USE DEF PanelInv
<1>6. PanelTyped' /\ Existing' /\ NoticedServed'
  BY <1>1 DEF PanelTyped, Existing, NoticedServed
<1>7. Resolved'
  BY <1>1, <1>5 DEF Resolved
<1>8. Reading' /\ TextFollows'
  BY <1>1 DEF Reading, TextFollows, Observed
<1>9. QED
  BY <1>6, <1>7, <1>8

(* A confirmation that brings another version of a file marks its text, and *)
(* asks for it again when it is on screen.                                  *)
LEMMA AdoptKeeps == ASSUME PanelInv, ResolveArrives PROVE PanelInv'
<1> USE DEF PanelInv
<1>1. PICK data : data = asked
  OBVIOUS
<1> DEFINE s == onScreen
<1> DEFINE C == Changed(previous, data)
<1> DEFINE News(f) == /\ f \in DOMAIN targets[s] \cap DOMAIN data /\ previous = targets[s]
                      /\ data[f].exists = TRUE /\ targets[s][f].exists = TRUE
                      /\ data[f].updatedAt # targets[s][f].updatedAt
<1>2. /\ data \notin {Idle, Sent}
      /\ resolution' = [resolution EXCEPT ![s] = data] /\ asked' = Idle
      /\ texts' = Invalidated(s, C)
      /\ textRequest' = IF \E f \in C : Observed(s, f) THEN Sent ELSE textRequest
      /\ targets' = [targets EXCEPT ![s] = data]
      /\ noticed' = [noticed EXCEPT ![s] = [f \in Files |->
                        IF News(f) THEN data[f].updatedAt ELSE noticed[s][f]]]
      /\ UNCHANGED <<disk, transcript, openPanels, onScreen, listing, selection, clicks, existed>>
  BY <1>1 DEF ResolveArrives, Adopt, SyncTargets
<1>3. ConfirmedBy(data, transcript[s], existed, disk)
  BY <1>1, <1>2 DEF Resolved
<1>4. s \in PanelSessions
  BY DEF PanelTyped
<1>5. \A f \in Files : News(f) => f \in C
  BY DEF Changed, ArtifactChanged
<1>6. /\ \A t \in PanelSessions, f \in Files :
            noticed'[t][f] = IF t = s /\ News(f) THEN data[f].updatedAt ELSE noticed[t][f]
      /\ noticed' \in [PanelSessions -> [Files -> Nat]]
  <2>1. \A f \in Files : News(f) => data[f].updatedAt \in Nat
    BY <1>3 DEF ConfirmedBy
  <2> HIDE DEF News
  <2>2. QED
    BY <1>2, <1>4, <2>1 DEF PanelTyped
<1>7. /\ \A t \in PanelSessions, f \in Files :
            texts'[t][f] = IF t = s /\ f \in C /\ texts[t][f] # Unknown
                           THEN [texts[t][f] EXCEPT !.invalid = TRUE] ELSE texts[t][f]
      /\ texts' \in [PanelSessions -> [Files -> {Unknown} \cup [version : Nat, invalid : BOOLEAN]]]
  <2> HIDE DEF C
  <2>1. \A t \in PanelSessions, f \in Files :
            texts'[t][f] = IF t = s /\ f \in C /\ texts[t][f] # Unknown
                           THEN [texts[t][f] EXCEPT !.invalid = TRUE] ELSE texts[t][f]
    BY <1>2, <1>4 DEF PanelTyped, Invalidated
  <2>2. texts' \in [PanelSessions -> [Files -> {Unknown} \cup [version : Nat, invalid : BOOLEAN]]]
    BY <1>2, <1>4, InvalidatedTyped
  <2>3. QED
    BY <2>1, <2>2
<1>8. \A f \in Files : News(f) => data[f].updatedAt <= disk[f]
  BY <1>3 DEF ConfirmedBy
<1> HIDE DEF News, C
<1>9. PanelTyped' /\ Existing'
  BY <1>2, <1>6, <1>7 DEF PanelTyped, Existing
<1>10. Resolved'
  BY <1>2, <1>3, <1>4 DEF Resolved, PanelTyped
<1>11. NoticedServed'
  BY <1>2, <1>6, <1>8 DEF NoticedServed
<1>12. Reading'
  <2>1. textRequest' # Idle => Observed(onScreen, selection)
    BY <1>2 DEF Reading, Observed
  <2>2. ASSUME textRequest' \notin {Idle, Sent}
        PROVE  textRequest' \in Nat /\ noticed'[s][selection] <= textRequest'
    <3>1. textRequest' = textRequest /\ ~\E f \in C : Observed(s, f)
      BY <1>2, <2>2
    <3>2. Observed(s, selection) /\ selection \in Files
      BY <2>2, <3>1, <1>4 DEF Reading, Observed, PanelTyped
    <3>3. noticed'[s][selection] = noticed[s][selection]
      BY <1>4, <1>5, <1>6, <3>1, <3>2
    <3>4. QED
      BY <2>2, <3>1, <3>3 DEF Reading
  <2>3. QED
    BY <1>2, <2>1, <2>2 DEF Reading, Observed
<1>13. TextFollows'
  <2> SUFFICES ASSUME NEW t \in PanelSessions, NEW f \in Files,
                      texts'[t][f] # Unknown, ~texts'[t][f].invalid
               PROVE  texts'[t][f].version >= noticed'[t][f]
    BY DEF TextFollows
  <2>1. texts[t][f] \in {Unknown} \cup [version : Nat, invalid : BOOLEAN]
    BY DEF PanelTyped
  <2>2. ~(t = s /\ f \in C) /\ texts'[t][f] = texts[t][f]
    <3>1. CASE t = s /\ f \in C /\ texts[t][f] # Unknown
      BY <1>7, <2>1, <3>1
    <3>2. CASE ~(t = s /\ f \in C /\ texts[t][f] # Unknown)
      BY <1>7, <3>2
    <3>3. QED
      BY <3>1, <3>2
  <2>3. noticed'[t][f] = noticed[t][f]
    BY <1>5, <1>6, <2>2
  <2>4. QED
    BY <2>2, <2>3 DEF TextFollows
<1>14. QED
  BY <1>9, <1>10, <1>11, <1>12, <1>13

(* Mounting the dock, or another session in it, marks texts and brings the *)
(* targets its session was confirmed last.                                 *)
LEMMA ShowKeeps ==
    ASSUME PanelInv, NEW s \in PanelSessions, NEW mounting \in BOOLEAN, NEW stale \in BOOLEAN,
           ShowDock(s, mounting, stale), onScreen' = s,
           UNCHANGED <<disk, transcript, resolution, existed, noticed>>
    PROVE  PanelInv'
<1> USE DEF PanelInv
<1>1. /\ asked' \in {Idle, Sent} /\ textRequest' = Idle
      /\ \/ UNCHANGED listing
         \/ listing' = [listing EXCEPT ![s] = {f \in Files : disk[f] > 0}]
  BY DEF ShowDock
<1>2. \/ UNCHANGED <<targets, texts>>
      \/ /\ resolution[s] # Unknown
         /\ targets' = [targets EXCEPT ![s] = resolution[s]]
         /\ \E S : texts' = Invalidated(s, S)
  BY DEF ShowDock
<1>3. /\ texts' \in [PanelSessions -> [Files -> {Unknown} \cup [version : Nat, invalid : BOOLEAN]]]
      /\ \A t \in PanelSessions, f \in Files :
            \/ texts'[t][f] = texts[t][f]
            \/ texts'[t][f] = [texts[t][f] EXCEPT !.invalid = TRUE] /\ texts[t][f] # Unknown
  <2>1. CASE UNCHANGED texts
    BY <2>1 DEF PanelTyped
  <2>2. CASE \E S : texts' = Invalidated(s, S)
    <3>1. PICK S : texts' = Invalidated(s, S)
      BY <2>2
    <3>2. \A t \in PanelSessions, f \in Files :
              texts'[t][f] = IF t = s /\ f \in S /\ texts[t][f] # Unknown
                             THEN [texts[t][f] EXCEPT !.invalid = TRUE] ELSE texts[t][f]
      BY <3>1 DEF PanelTyped, Invalidated
    <3>3. texts' \in [PanelSessions -> [Files -> {Unknown} \cup [version : Nat, invalid : BOOLEAN]]]
      BY <3>1, InvalidatedTyped
    <3>4. QED
      BY <3>2, <3>3
  <2>3. QED
    BY <1>2, <2>1, <2>2
<1>4. DOMAIN targets' = PanelSessions
      /\ \A t \in PanelSessions : ConfirmedBy(targets'[t], transcript[t], existed, disk)
  <2>1. CASE UNCHANGED targets
    BY <2>1 DEF PanelTyped, Resolved
  <2>2. CASE resolution[s] # Unknown /\ targets' = [targets EXCEPT ![s] = resolution[s]]
    <3>1. \A t \in PanelSessions : targets'[t] = IF t = s THEN resolution[s] ELSE targets[t]
      BY <2>2 DEF PanelTyped
    <3>2. QED
      BY <2>2, <3>1 DEF PanelTyped, Resolved
  <2>3. QED
    BY <1>2, <2>1, <2>2
<1>5. listing' \in [PanelSessions -> (SUBSET Files) \cup {Unknown}]
  BY ZenonT(60), <1>1 DEF PanelTyped
<1>6. PanelTyped' /\ Existing' /\ NoticedServed'
  BY <1>3, <1>4, <1>5 DEF PanelTyped, Existing, NoticedServed
<1>7. Resolved'
  BY <1>1, <1>4 DEF Resolved
<1>8. Reading'
  BY <1>1 DEF Reading
<1>9. TextFollows'
  <2> SUFFICES ASSUME NEW t \in PanelSessions, NEW f \in Files,
                      texts'[t][f] # Unknown, ~texts'[t][f].invalid
               PROVE  texts'[t][f].version >= noticed[t][f]
    BY DEF TextFollows
  <2>1. texts[t][f] \in {Unknown} \cup [version : Nat, invalid : BOOLEAN]
    BY DEF PanelTyped
  <2>2. texts'[t][f] = texts[t][f]
    BY ZenonT(60), <1>3, <2>1
  <2>3. QED
    BY <2>2 DEF TextFollows
<1>10. QED
  BY <1>6, <1>7, <1>8, <1>9

LEMMA ClosedKeeps ==
    ASSUME PanelInv, onScreen' \in PanelSessions, asked' = Idle, textRequest' = Idle,
           UNCHANGED <<targets, texts, listing, disk, transcript, resolution, existed, noticed>>
    PROVE  PanelInv'
<1> USE DEF PanelInv
<1>1. PanelTyped' /\ Existing' /\ NoticedServed'
  BY DEF PanelTyped, Existing, NoticedServed
<1>2. Resolved' /\ Reading'
  BY DEF Resolved, Reading
<1>3. TextFollows'
  BY DEF TextFollows
<1>4. QED
  BY <1>1, <1>2, <1>3

LEMMA DockKeeps ==
    ASSUME PanelInv, TogglePanel \/ \E s \in PanelSessions : SwitchSession(s)
    PROVE  PanelInv'
<1>1. onScreen \in PanelSessions
  BY DEF PanelInv, PanelTyped
<1>2. ASSUME NEW s \in PanelSessions, SwitchSession(s) PROVE PanelInv'
  <2>1. CASE s \in openPanels
    <3>1. PICK stale \in BOOLEAN : ShowDock(s, onScreen \notin openPanels, stale)
      BY <1>2, <2>1 DEF SwitchSession
    <3>2. PICK mounting \in BOOLEAN : mounting = (onScreen \notin openPanels)
      BY Zenon
    <3>3. ShowDock(s, mounting, stale)
      BY <3>1, <3>2, Zenon
    <3>4. QED
      BY <1>2, <3>3, ShowKeeps DEF SwitchSession
  <2>2. CASE s \notin openPanels
    BY <1>2, <2>2, ClosedKeeps DEF SwitchSession
  <2>3. QED
    BY <2>1, <2>2
<1>3. ASSUME TogglePanel PROVE PanelInv'
  <2>1. CASE PanelShown
    BY <1>1, <1>3, <2>1, ClosedKeeps DEF TogglePanel
  <2>2. CASE ~PanelShown
    <3>1. PICK stale \in BOOLEAN : ShowDock(onScreen, TRUE, stale)
      BY <1>3, <2>2 DEF TogglePanel
    <3>2. UNCHANGED <<disk, transcript, onScreen, resolution, existed, noticed>>
      BY <1>3 DEF TogglePanel
    <3>3. PICK s \in PanelSessions : s = onScreen
      BY <1>1
    <3>4. ShowDock(s, TRUE, stale) /\ onScreen' = s
      BY <3>1, <3>2, <3>3
    <3>5. QED
      BY <3>2, <3>4, ShowKeeps
  <2>3. QED
    BY <2>1, <2>2
<1>4. QED
  BY <1>2, <1>3

LEMMA ReadKeeps ==
    ASSUME PanelInv, (\E f \in Files : Select(f)) \/ FocusWindow \/ ReadServed \/ ReadArrives
    PROVE  PanelInv'
<1> USE DEF PanelInv
<1>1. UNCHANGED <<disk, transcript, openPanels, onScreen, resolution, asked, previous, targets, listing,
                  existed, noticed>>
  BY DEF Select, FocusWindow, ReadServed, ReadArrives
<1>2. Existing' /\ NoticedServed' /\ Resolved'
  BY <1>1 DEF Existing, NoticedServed, Resolved
<1>3. ASSUME NEW f \in Files, Select(f) PROVE PanelInv'
  <2>1. UNCHANGED texts
    BY <1>3 DEF Select
  <2>2. textRequest' \in {Idle, Sent}
        /\ (textRequest' # Idle => /\ selection' = f /\ PanelShown
                                   /\ listing[onScreen] # Unknown /\ f \in listing[onScreen])
    BY <1>3 DEF Select
  <2>3. Reading'
    BY <1>1, <2>2 DEF Reading, Observed, PanelShown
  <2>4. PanelTyped' /\ TextFollows'
    BY <1>1, <2>1 DEF PanelTyped, TextFollows
  <2>5. QED
    BY <1>2, <2>3, <2>4
<1>4. ASSUME FocusWindow PROVE PanelInv'
  <2>1. PanelTyped' /\ TextFollows'
    BY <1>1, <1>4 DEF FocusWindow, PanelTyped, TextFollows
  <2>2. Reading'
    BY <1>1, <1>4 DEF FocusWindow, Reading, Observed
  <2>3. QED
    BY <1>2, <2>1, <2>2
<1>5. ASSUME ReadServed PROVE PanelInv'
  <2>1. PanelTyped' /\ TextFollows'
    BY <1>1, <1>5 DEF ReadServed, PanelTyped, TextFollows
  <2>2. Observed(onScreen, selection) /\ selection \in Files
    BY <1>5, PanelAssumption DEF ReadServed, Reading, Observed, PanelTyped
  <2>3. textRequest' = disk[selection] /\ disk[selection] \in Nat
        /\ noticed[onScreen][selection] <= disk[selection]
    BY <1>5, <2>2 DEF ReadServed, PanelTyped, NoticedServed
  <2>4. Reading'
    BY <1>1, <1>5, <2>2, <2>3 DEF ReadServed, Reading, Observed
  <2>5. QED
    BY <1>2, <2>1, <2>4
<1>6. ASSUME ReadArrives PROVE PanelInv'
  <2>1. /\ selection \in Files /\ onScreen \in PanelSessions
        /\ textRequest \in Nat /\ noticed[onScreen][selection] <= textRequest
    BY <1>6 DEF ReadArrives, Reading, Observed, PanelTyped
  <2>2. /\ \A t \in PanelSessions, f \in Files :
              texts'[t][f] = IF t = onScreen /\ f = selection
                             THEN [version |-> textRequest, invalid |-> FALSE] ELSE texts[t][f]
        /\ texts' \in [PanelSessions -> [Files -> {Unknown} \cup [version : Nat, invalid : BOOLEAN]]]
    BY <1>6, <2>1 DEF ReadArrives, PanelTyped
  <2>3. PanelTyped'
    BY <1>1, <2>2 DEF PanelTyped
  <2>4. Reading'
    BY <1>6 DEF ReadArrives, Reading
  <2>5. TextFollows'
    BY <1>1, <2>1, <2>2 DEF TextFollows
  <2>6. QED
    BY <1>2, <2>3, <2>4, <2>5
<1>7. QED
  BY <1>3, <1>4, <1>5, <1>6

LEMMA PanelStep == PanelInv /\ [PanelNext]_panelVars => PanelInv'
<1> SUFFICES ASSUME PanelInv, [PanelNext]_panelVars PROVE PanelInv'
  OBVIOUS
<1>1. CASE UNCHANGED panelVars
  <2>1. (PanelTyped /\ Existing /\ NoticedServed /\ Resolved)'
    BY <1>1 DEF panelVars, PanelInv, PanelTyped, Existing, NoticedServed, Resolved
  <2>2. (Reading /\ TextFollows)'
    BY <1>1 DEF panelVars, PanelInv, Reading, Observed, TextFollows
  <2>3. QED
    BY <2>1, <2>2 DEF PanelInv
<1>2. CASE PanelNext
  BY <1>2, SaysKeeps, WriteKeeps, DockKeeps, ReadKeeps, ServedKeeps, AdoptKeeps DEF PanelNext
<1>3. QED
  BY <1>1, <1>2

(* Whatever sessions, files, transcripts and clicks there are, and whatever *)
(* the cap: a written file is asked about first, the menu offers what the   *)
(* session's own transcript named and the server found, and a text that two *)
(* confirmations have overtaken is marked, read again or being read         *)
(* (deriveArtifactCandidates, syncTargets, useArtifactFreshness).           *)
THEOREM DockIsTrusted == PanelSpec => []ArtifactsTrusted
<1>1. PanelInv => ArtifactsTrusted
  <2> SUFFICES ASSUME PanelInv PROVE OffersConfirmed /\ TextFollows
    BY WrittenComesFirst DEF ArtifactsTrusted
  <2>1. OffersConfirmed
    BY DEF PanelInv, OffersConfirmed, Menu, IsCollectibleArtifact, Resolved, ConfirmedBy
  <2>2. QED
    BY <2>1 DEF PanelInv
<1>2. QED
  BY PanelInitially, PanelStep, <1>1, PTL DEF PanelSpec

-----------------------------------------------------------------------------
(* Branches.  The text of an edit is one box's and at most one call's; the *)
(* call is about the message the box was opened under, and its words land  *)
(* in the child that it makes, once.                                       *)

BranchSessions == {Origin} \cup Branches
Envelope == {Message(t) : t \in Nat} \cup {Finished} \cup {Rewound(n) : n \in Nat}
Said(s, i, t) == i \in DOMAIN stream[s] /\ stream[s][i] = Message(t)

StreamsTyped ==
    /\ stream \in [BranchSessions -> Seq(Envelope)]
    /\ \A s \in BranchSessions \ born : stream[s] = <<>>
    /\ DOMAIN inherited = BranchSessions
    /\ born \subseteq BranchSessions /\ deeds \in Nat

Shown ==
    /\ screen \in born
    /\ received \in [BranchSessions -> Nat] /\ DOMAIN bubbles = BranchSessions
    /\ \A s \in BranchSessions : /\ received[s] <= Len(stream[s])
                                 /\ bubbles[s] = LiveIn(stream[s], received[s])

BoxesTyped(bs) ==
    \A b \in bs : b \in [row : {b.row}, text : 1 .. deeds, of : {b.row}, failed : BOOLEAN]

Errand(e) ==
    /\ e \in [kind : {"edit", "undo"}, row : {<<e.from, e.at>>}, from : born,
              at : 1 .. Len(stream[e.from]), text : 0 .. deeds, of : {<<e.from, e.at>>},
              mounted : BOOLEAN, stage : {"asked", "forked", "done"}, child : born,
              above : {e.above}, shown : SUBSET Nat]
    /\ e.kind = "edit" => e.text > 0
    /\ e.kind = "undo" => \A k \in e.shown : k <= e.at
ErrandsTyped(es) == \A e \in es : Errand(e)

(* A text is of one row and in at most one call, whose row is mounted while *)
(* the box is.                                                              *)
OneCall(bs, es) ==
    /\ \A a, b \in bs : a.text = b.text => a.row = b.row
    /\ \A e, f \in es : e.kind = "edit" /\ f.kind = "edit" /\ e.text = f.text => e = f
    /\ \A b \in bs, e \in es : e.kind = "edit" /\ e.text = b.text => e.mounted /\ e.row = b.row

Forked(e) ==
    IF e.stage = "asked"
    THEN e.above = Append(inherited[e.from], Texts(stream[e.from], LiveIn(stream[e.from], e.at - 1)))
    ELSE e.child # e.from /\ inherited[e.child] = e.above
Forks(es) == \A e \in es : e.kind = "edit" => Forked(e)

(* No edit's words are in the session it was made in.                      *)
WordsApart(bs, es) ==
    \A s \in BranchSessions, i \in Nat, t \in Nat : Said(s, i, t) =>
        /\ t <= deeds
        /\ \A e \in es : e.kind = "edit" /\ e.text = t => e.from # s
        /\ \A b \in bs : b.text = t => b.row[1] # s

LandedOnce(bs, es, lost) ==
    \A b \in bs : b.text \notin lost =>
        /\ \A s, r \in BranchSessions, i, j \in Nat :
               Said(s, i, b.text) /\ Said(r, j, b.text) => s = r /\ i = j
        /\ (\E s \in BranchSessions, i \in Nat : Said(s, i, b.text)) =>
               \E e \in es : e.kind = "edit" /\ e.text = b.text /\ e.stage = "done"

Business(bs, es, lost) ==
    /\ BoxesTyped(bs) /\ ErrandsTyped(es) /\ OneCall(bs, es) /\ Forks(es)
    /\ WordsApart(bs, es) /\ LandedOnce(bs, es, lost)

BranchInv == StreamsTyped /\ Shown /\ Business(boxes, errands, doubtful) /\ UndoSparesShown

-----------------------------------------------------------------------------
LEMMA EnvelopeTyped ==
    ASSUME NEW x \in Envelope
    PROVE  /\ x.type \in {"message", "finished", "rewind"}
           /\ x.type = "message" => x = Message(x.text) /\ x.text \in Nat
           /\ x.type = "rewind" => x.target \in Nat
<1>1. CASE x = Finished
  BY <1>1 DEF Finished
<1>2. ASSUME NEW t \in Nat, x = Message(t) PROVE x.type = "message" /\ x.text = t
  BY <1>2 DEF Message
<1>3. ASSUME NEW n \in Nat, x = Rewound(n) PROVE x.type = "rewind" /\ x.target = n
  BY <1>3 DEF Rewound
<1>4. QED
  BY <1>1, <1>2, <1>3 DEF Envelope

LEMMA Messages ==
    /\ \A t \in Nat : Message(t) \in Envelope
    /\ \A n \in Nat : Rewound(n) \in Envelope
    /\ Finished \in Envelope
    /\ \A t, u : Message(t) = Message(u) => t = u
    /\ \A t, n : Message(t) # Finished /\ Message(t) # Rewound(n)
<1>1. \A t : Message(t).text = t /\ Message(t).type = "message"
  BY DEF Message
<1>2. Finished.type = "finished" /\ \A n : Rewound(n).type = "rewind"
  BY DEF Finished, Rewound
<1>3. \A t, u : Message(t) = Message(u) => t = u
  BY <1>1
<1>4. \A t, n : Message(t) # Finished /\ Message(t) # Rewound(n)
  BY <1>1, <1>2
<1>5. QED
  BY <1>3, <1>4 DEF Envelope

(* The newest bubble.                                                      *)
LEMMA MaxOfBounded ==
    ASSUME NEW n \in Nat, NEW S \in SUBSET (1 .. n), S # {}
    PROVE  \A x \in S : x <= Max(S)
<1> DEFINE T == {m \in Nat : \A x \in S : x <= m}
<1>1. n \in T
  OBVIOUS
<1>2. PICK m \in T : \A k \in T : m <= k
  BY <1>1, LeastNatural
<1>3. m \in S
  <2>1. SUFFICES ASSUME m \notin S PROVE FALSE
    OBVIOUS
  <2>2. PICK y \in S : TRUE
    OBVIOUS
  <2>3. m \in Nat /\ m > 0 /\ \A x \in S : x <= m - 1
    BY <2>1, <2>2
  <2>4. m - 1 \in T
    BY <2>3
  <2>5. QED
    BY <1>2, <2>3, <2>4
<1>4. \E x \in S : \A y \in S : x >= y
  BY <1>3
<1>5. Max(S) \in S /\ \A y \in S : Max(S) >= y
  BY <1>4 DEF Max
<1>6. QED
  BY <1>5

(* What one more envelope does to the messages that count.                 *)
LEMMA LiveNext ==
    ASSUME NEW q, NEW n \in Nat
    PROVE  /\ LiveIn(q, n) \subseteq 1 .. n
           /\ q[n + 1].type = "message" => LiveIn(q, n + 1) = LiveIn(q, n) \cup {n + 1}
           /\ q[n + 1].type = "rewind" =>
                  LiveIn(q, n + 1) = {k \in LiveIn(q, n) : k <= q[n + 1].target}
           /\ q[n + 1].type \notin {"message", "rewind"} => LiveIn(q, n + 1) = LiveIn(q, n)
<1>1. LiveIn(q, n) \subseteq 1 .. n
  BY DEF LiveIn
<1>2. \A i \in 1 .. n : i \in LiveIn(q, n + 1) <=>
          i \in LiveIn(q, n) /\ (q[n + 1].type = "rewind" => q[n + 1].target >= i)
  <2> TAKE i \in 1 .. n
  <2>1. i + 1 .. n + 1 = (i + 1 .. n) \cup {n + 1}
    OBVIOUS
  <2>2. QED
    BY <2>1 DEF LiveIn
<1>3. n + 1 \in LiveIn(q, n + 1) <=> q[n + 1].type = "message"
  BY DEF LiveIn
<1>4. LiveIn(q, n + 1) \subseteq (1 .. n) \cup {n + 1}
  BY DEF LiveIn
<1>5. QED
  BY <1>1, <1>2, <1>3, <1>4

LEMMA LiveSame ==
    ASSUME NEW q, NEW p, NEW n \in Int, \A i \in 1 .. n : p[i] = q[i]
    PROVE  /\ LiveIn(p, n) = LiveIn(q, n)
           /\ Texts(p, LiveIn(p, n)) = Texts(q, LiveIn(q, n))
<1>1. LiveIn(p, n) = LiveIn(q, n)
  BY DEF LiveIn
<1>2. \A i \in LiveIn(q, n) : p[i] = q[i]
  BY DEF LiveIn
<1>3. QED
  BY <1>1, <1>2 DEF Texts

(* Above a message that counts, those that count are those that counted    *)
(* when it was written.                                                    *)
LEMMA LiveBelow ==
    ASSUME NEW q, NEW n \in Nat, NEW k \in LiveIn(q, n),
           \A i \in 1 .. n : q[i].type = "rewind" => q[i].target \in Int
    PROVE  {j \in LiveIn(q, n) : j < k} = LiveIn(q, k - 1)
<1>1. /\ k \in 1 .. n /\ q[k].type = "message"
      /\ \A j \in k + 1 .. n : q[j].type = "rewind" => q[j].target >= k
  BY DEF LiveIn
<1>2. ASSUME NEW j \in LiveIn(q, n), j < k PROVE j \in LiveIn(q, k - 1)
  BY <1>1, <1>2 DEF LiveIn
<1>3. ASSUME NEW j \in LiveIn(q, k - 1) PROVE j \in LiveIn(q, n) /\ j < k
  <2>1. /\ j \in 1 .. k - 1 /\ q[j].type = "message"
        /\ \A i \in j + 1 .. k - 1 : q[i].type = "rewind" => q[i].target >= j
    BY DEF LiveIn
  <2>2. ASSUME NEW i \in j + 1 .. n, q[i].type = "rewind" PROVE q[i].target >= j
    <3>1. CASE i < k
      BY <1>1, <2>1, <2>2, <3>1
    <3>2. CASE i = k
      BY <1>1, <2>2, <3>2
    <3>3. CASE i > k
      <4>1. q[i].target >= k /\ q[i].target \in Int
        BY <1>1, <2>1, <2>2, <3>3
      <4>2. QED
        BY <1>1, <2>1, <4>1
    <3>4. QED
      BY <1>1, <2>1, <3>1, <3>2, <3>3
  <2>3. QED
    BY <1>1, <2>1, <2>2 DEF LiveIn
<1>4. QED
  BY <1>2, <1>3

(* An envelope is appended to one stream.                                  *)
LEMMA Recorded ==
    ASSUME StreamsTyped, NEW s \in BranchSessions, NEW x \in Envelope, RecordIn(s, x)
    PROVE  /\ stream' \in [BranchSessions -> Seq(Envelope)]
           /\ \A r \in BranchSessions : r # s => stream'[r] = stream[r]
           /\ Len(stream'[s]) = Len(stream[s]) + 1 /\ stream'[s][Len(stream[s]) + 1] = x
           /\ \A r \in BranchSessions :
                 /\ Len(stream[r]) \in Nat /\ Len(stream'[r]) \in Nat
                 /\ Len(stream[r]) <= Len(stream'[r])
                 /\ DOMAIN stream[r] = 1 .. Len(stream[r]) /\ DOMAIN stream'[r] = 1 .. Len(stream'[r])
                 /\ \A i \in 1 .. Len(stream[r]) : stream'[r][i] = stream[r][i]
<1>1. stream' = [stream EXCEPT ![s] = Append(stream[s], x)]
  BY DEF RecordIn
<1>2. stream[s] \in Seq(Envelope) /\ Append(stream[s], x) \in Seq(Envelope)
  BY DEF StreamsTyped
<1>3. stream' \in [BranchSessions -> Seq(Envelope)]
  BY <1>1, <1>2 DEF StreamsTyped
<1>4. stream'[s] = Append(stream[s], x) /\ \A r \in BranchSessions : r # s => stream'[r] = stream[r]
  BY <1>1 DEF StreamsTyped
<1>5. /\ Len(stream'[s]) = Len(stream[s]) + 1 /\ stream'[s][Len(stream[s]) + 1] = x
      /\ \A i \in 1 .. Len(stream[s]) : stream'[s][i] = stream[s][i]
  BY <1>2, <1>4
<1>6. \A r \in BranchSessions : stream[r] \in Seq(Envelope) /\ stream'[r] \in Seq(Envelope)
  BY <1>3 DEF StreamsTyped
<1>7. \A r \in BranchSessions :
          /\ Len(stream[r]) \in Nat /\ Len(stream'[r]) \in Nat
          /\ DOMAIN stream[r] = 1 .. Len(stream[r]) /\ DOMAIN stream'[r] = 1 .. Len(stream'[r])
  BY <1>6
<1>8. QED
  BY SMTT(30), <1>3, <1>4, <1>5, <1>7

(* Who says what afterwards.                                               *)
LEMMA SaidLater ==
    ASSUME StreamsTyped, NEW s \in BranchSessions, NEW x \in Envelope, RecordIn(s, x),
           NEW r \in BranchSessions, NEW i \in Nat, NEW t
    PROVE  Said(r, i, t)' <=> \/ Said(r, i, t)
                              \/ r = s /\ i = Len(stream[s]) + 1 /\ x = Message(t)
BY Recorded DEF Said

LEMMA ShownLater ==
    ASSUME StreamsTyped, Shown, NEW s \in born, NEW x \in Envelope, RecordIn(s, x),
           UNCHANGED <<born, screen, received, bubbles, inherited>>,
           deeds' \in Nat
    PROVE  StreamsTyped' /\ Shown'
<1>1. s \in BranchSessions
  BY DEF StreamsTyped
<1>2. StreamsTyped'
  BY <1>1, Recorded DEF StreamsTyped
<1>3. \A r \in BranchSessions : received[r] <= Len(stream'[r])
                                /\ LiveIn(stream'[r], received[r]) = LiveIn(stream[r], received[r])
  <2> TAKE r \in BranchSessions
  <2>1. /\ Len(stream[r]) \in Nat /\ Len(stream'[r]) \in Nat /\ Len(stream[r]) <= Len(stream'[r])
        /\ \A i \in 1 .. Len(stream[r]) : stream'[r][i] = stream[r][i]
    BY <1>1, Recorded
  <2>2. received[r] \in Nat /\ received[r] <= Len(stream[r])
    BY DEF Shown
  <2>3. \A i \in 1 .. received[r] : stream'[r][i] = stream[r][i]
    BY <2>1, <2>2
  <2>4. PICK q : q = stream'[r]
    OBVIOUS
  <2>5. LiveIn(q, received[r]) = LiveIn(stream[r], received[r])
    BY <2>2, <2>3, <2>4, LiveSame
  <2>6. QED
    BY <2>1, <2>2, <2>4, <2>5
<1>4. Shown'
  BY <1>3 DEF Shown
<1>5. QED
  BY <1>2, <1>4

-----------------------------------------------------------------------------
(* What a step does to the boxes and calls.                                *)
LEMMA BoxFields ==
    ASSUME NEW bs, BoxesTyped(bs), NEW b \in bs, deeds \in Nat
    PROVE  b.text \in 1 .. deeds /\ b.text \in Nat /\ b.text > 0 /\ b.of = b.row /\ b.failed \in BOOLEAN
BY DEF BoxesTyped

LEMMA ErrandFields ==
    ASSUME NEW e, Errand(e), StreamsTyped
    PROVE  /\ e.kind \in {"edit", "undo"} /\ e.row = <<e.from, e.at>> /\ e.of = <<e.from, e.at>>
           /\ e.from \in born /\ e.from \in BranchSessions /\ e.child \in born /\ e.child \in BranchSessions
           /\ e.at \in 1 .. Len(stream[e.from]) /\ e.at \in Nat /\ e.at > 0 /\ Len(stream[e.from]) \in Nat
           /\ e.text \in Nat /\ e.text <= deeds /\ e.mounted \in BOOLEAN
           /\ e.stage \in {"asked", "forked", "done"} /\ e.shown \subseteq Nat
           /\ e.kind = "edit" => e.text > 0
<1>1. /\ e.kind \in {"edit", "undo"} /\ e.row = <<e.from, e.at>> /\ e.of = <<e.from, e.at>>
      /\ e.from \in born /\ e.child \in born
      /\ e.at \in 1 .. Len(stream[e.from]) /\ e.text \in 0 .. deeds /\ e.mounted \in BOOLEAN
      /\ e.stage \in {"asked", "forked", "done"} /\ e.shown \subseteq Nat
      /\ e.kind = "edit" => e.text > 0
  BY DEF Errand
<1>2. e.from \in BranchSessions /\ e.child \in BranchSessions /\ deeds \in Nat
  BY <1>1 DEF StreamsTyped
<1>3. Len(stream[e.from]) \in Nat
  BY <1>2 DEF StreamsTyped
<1>4. QED
  BY <1>1, <1>2, <1>3

LEMMA Remounted ==
    ASSUME NEW e, Errand(e), NEW x \in BOOLEAN
    PROVE  LET f == [e EXCEPT !.mounted = x]
           IN  /\ Errand(f) /\ f.mounted = x
               /\ f.kind = e.kind /\ f.row = e.row /\ f.from = e.from /\ f.at = e.at /\ f.text = e.text
               /\ f.stage = e.stage /\ f.child = e.child /\ f.above = e.above /\ f.shown = e.shown
<1>1. PICK f : f = [e EXCEPT !.mounted = x]
  OBVIOUS
<1>2. /\ f.mounted = x
      /\ f.kind = e.kind /\ f.row = e.row /\ f.from = e.from /\ f.at = e.at /\ f.text = e.text
      /\ f.stage = e.stage /\ f.child = e.child /\ f.above = e.above /\ f.shown = e.shown
  BY <1>1 DEF Errand
<1>3. Errand(f)
  <2>1. f \in [kind : {"edit", "undo"}, row : {<<e.from, e.at>>}, from : born,
               at : 1 .. Len(stream[e.from]), text : 0 .. deeds, of : {<<e.from, e.at>>},
               mounted : BOOLEAN, stage : {"asked", "forked", "done"}, child : born,
               above : {e.above}, shown : SUBSET Nat]
    BY <1>1 DEF Errand
  <2>2. QED
    BY <1>2, <2>1 DEF Errand
<1>4. QED
  BY <1>1, <1>2, <1>3

(* Rows that are gone take their boxes with them and leave their calls.    *)
Left(bs, rows) == {b \in bs : b.row \in rows}
Redrawn(es, rows) == {[e EXCEPT !.mounted = @ /\ e.row \in rows] : e \in es}

LEMMA Rendered ==
    ASSUME StreamsTyped, NEW bs, NEW es, NEW lost, Business(bs, es, lost), NEW rows, NEW bs2, NEW es2,
           bs2 = Left(bs, rows), es2 = Redrawn(es, rows)
    PROVE  Business(bs2, es2, lost)
<1> DEFINE Same(f, e) == /\ f.kind = e.kind /\ f.row = e.row /\ f.from = e.from /\ f.at = e.at
                         /\ f.text = e.text /\ f.stage = e.stage /\ f.child = e.child
                         /\ f.above = e.above /\ f.shown = e.shown
<1> DEFINE Re(e) == [e EXCEPT !.mounted = @ /\ e.row \in rows]
<1> USE DEF Business, Left
<1>1. ASSUME NEW e \in es
      PROVE  Errand(Re(e)) /\ Same(Re(e), e) /\ (e.mounted /\ e.row \in rows => Re(e).mounted = TRUE)
  <2>1. Errand(e)
    BY DEF ErrandsTyped
  <2>2. PICK x \in BOOLEAN : x = (e.mounted /\ e.row \in rows)
    BY Zenon
  <2>3. Re(e) = [e EXCEPT !.mounted = x]
    BY <2>2, Zenon
  <2>4. e.mounted /\ e.row \in rows => x = TRUE
    BY <2>2, Zenon
  <2> HIDE DEF Re
  <2>5. QED
    BY <2>1, <2>3, <2>4, Remounted
<1>2. es2 = {Re(e) : e \in es}
  BY Zenon DEF Redrawn
<1> HIDE DEF Re
<1>3. \A f \in es2 : Errand(f) /\ \E e \in es :
          f = Re(e) /\ Same(f, e) /\ (e.mounted /\ e.row \in rows => f.mounted = TRUE)
  BY ZenonT(60), <1>1, <1>2
<1>4. \A e \in es : \E f \in es2 : Same(f, e)
  BY <1>1, <1>2
<1>5. BoxesTyped(bs2) /\ ErrandsTyped(es2)
  BY <1>3 DEF BoxesTyped, ErrandsTyped
<1>6. OneCall(bs2, es2)
  <2>1. \A a, b \in bs2 : a.text = b.text => a.row = b.row
    BY DEF OneCall
  <2>2. ASSUME NEW e \in es2, NEW f \in es2, e.kind = "edit", f.kind = "edit", e.text = f.text
        PROVE  e = f
    <3>1. PICK c \in es : e = Re(c) /\ Same(e, c)
      BY <1>3
    <3>2. PICK d \in es : f = Re(d) /\ Same(f, d)
      BY <1>3
    <3>3. c = d
      BY <2>2, <3>1, <3>2 DEF OneCall
    <3>4. QED
      BY <3>1, <3>2, <3>3
  <2>3. ASSUME NEW b \in bs2, NEW f \in es2, f.kind = "edit", f.text = b.text
        PROVE  f.mounted /\ f.row = b.row
    <3>1. PICK e \in es : Same(f, e) /\ (e.mounted /\ e.row \in rows => f.mounted = TRUE)
      BY <1>3
    <3>2. b \in bs /\ b.row \in rows
      OBVIOUS
    <3>3. e.mounted /\ e.row = b.row
      <4>1. e.kind = "edit" /\ e.text = b.text
        BY <2>3, <3>1
      <4>2. QED
        BY <3>2, <4>1, Zenon DEF OneCall
    <3>4. f.mounted = TRUE /\ f.row = b.row
      BY <3>1, <3>2, <3>3
    <3>5. QED
      BY <3>4
  <2>4. QED
    BY <2>1, <2>2, <2>3 DEF OneCall
<1>7. Forks(es2)
  BY SMTT(30), <1>3 DEF Forks, Forked
<1>8. WordsApart(bs2, es2)
  BY <1>3 DEF WordsApart
<1>9. LandedOnce(bs2, es2, lost)
  <2>1. ASSUME NEW b \in bs2, b.text \notin lost,
               \E s \in BranchSessions, i \in Nat : Said(s, i, b.text)
        PROVE  \E f \in es2 : f.kind = "edit" /\ f.text = b.text /\ f.stage = "done"
    <3>1. PICK e \in es : e.kind = "edit" /\ e.text = b.text /\ e.stage = "done"
      BY <2>1 DEF LandedOnce
    <3>2. PICK f \in es2 : Same(f, e)
      BY <1>4
    <3>3. QED
      BY <3>1, <3>2
  <2>2. QED
    BY <2>1 DEF LandedOnce
<1>10. QED
  BY <1>5, <1>6, <1>7, <1>8, <1>9

(* The clock of what the reader does goes on.                              *)
LEMMA Aged ==
    ASSUME StreamsTyped, NEW bs, NEW es, NEW lost, Business(bs, es, lost), deeds' \in {deeds, deeds + 1},
           UNCHANGED <<stream, born, inherited>>
    PROVE  Business(bs, es, lost)'
<1> USE DEF Business
<1>0. deeds \in Nat
  BY DEF StreamsTyped
<1>1. BoxesTyped(bs)'
  BY <1>0 DEF BoxesTyped
<1>2. ErrandsTyped(es)'
  BY <1>0 DEF ErrandsTyped, Errand
<1>3. OneCall(bs, es)' /\ Forks(es)'
  BY DEF OneCall, Forks, Forked
<1>4. WordsApart(bs, es)'
  BY <1>0 DEF WordsApart, Said
<1>5. LandedOnce(bs, es, lost)'
  BY DEF LandedOnce, Said
<1>6. QED
  BY <1>1, <1>2, <1>3, <1>4, <1>5

(* An envelope joins a stream: an edit's words only where a call that is   *)
(* the only one of its text has just been served.                          *)
LEMMA Wrote ==
    ASSUME StreamsTyped, NEW bs, NEW es, NEW lost, Business(bs, es, lost), NEW s \in BranchSessions, NEW x \in Envelope,
           \A t \in Nat : x = Message(t) =>
               /\ t <= deeds
               /\ \A e \in es : e.kind = "edit" /\ e.text = t => e.from # s
               /\ \A b \in bs : b.text = t =>
                     /\ b.row[1] # s
                     /\ t \notin lost =>
                           /\ ~\E r \in BranchSessions, i \in Nat : Said(r, i, t)
                           /\ \E e \in es : e.kind = "edit" /\ e.text = t /\ e.stage = "done",
           RecordIn(s, x), UNCHANGED <<born, inherited>>, deeds' \in {deeds, deeds + 1}
    PROVE  Business(bs, es, lost)'
<1> USE DEF Business
<1>0. deeds \in Nat
  BY DEF StreamsTyped
<1>1. BoxesTyped(bs)'
  BY <1>0 DEF BoxesTyped
<1>2. \A r \in BranchSessions :
          /\ Len(stream[r]) \in Nat /\ Len(stream'[r]) \in Nat /\ Len(stream[r]) <= Len(stream'[r])
          /\ \A i \in 1 .. Len(stream[r]) : stream'[r][i] = stream[r][i]
  BY Recorded
<1>3. ErrandsTyped(es)'
  <2> SUFFICES ASSUME NEW e \in es PROVE Errand(e)'
    BY DEF ErrandsTyped
  <2>1. Errand(e)
    BY DEF ErrandsTyped
  <2>2. 1 .. Len(stream[e.from]) \subseteq 1 .. Len(stream'[e.from])
    BY <1>2, <2>1, ErrandFields
  <2>3. QED
    BY <1>0, <2>1, <2>2 DEF Errand
<1>4. OneCall(bs, es)'
  BY DEF OneCall
<1>5. Forks(es)'
  <2> SUFFICES ASSUME NEW e \in es, e.kind = "edit" PROVE Forked(e)'
    BY DEF Forks
  <2>1. Errand(e) /\ Forked(e)
    BY DEF ErrandsTyped, Forks
  <2>2. e.from \in BranchSessions /\ e.at \in 1 .. Len(stream[e.from])
    BY <2>1, ErrandFields
  <2>3. PICK q, p : q = stream[e.from] /\ p = stream'[e.from]
    OBVIOUS
  <2>4. \A i \in 1 .. e.at - 1 : p[i] = q[i]
    BY <1>2, <2>2, <2>3
  <2>5. LiveIn(p, e.at - 1) = LiveIn(q, e.at - 1)
        /\ Texts(p, LiveIn(p, e.at - 1)) = Texts(q, LiveIn(q, e.at - 1))
    BY <1>2, <2>2, <2>4, LiveSame
  <2>6. QED
    BY <2>1, <2>3, <2>5 DEF Forked
<1>6. \A r \in BranchSessions, i \in Nat, t \in Nat :
          Said(r, i, t)' => Said(r, i, t) \/ (r = s /\ i = Len(stream[s]) + 1 /\ x = Message(t))
  BY SaidLater
<1>7. WordsApart(bs, es)'
  <2> SUFFICES ASSUME NEW r \in BranchSessions, NEW i \in Nat, NEW t \in Nat, Said(r, i, t)'
               PROVE  /\ t <= deeds'
                      /\ \A e \in es : e.kind = "edit" /\ e.text = t => e.from # r
                      /\ \A b \in bs : b.text = t => b.row[1] # r
    BY DEF WordsApart
  <2>1. CASE Said(r, i, t)
    BY <1>0, <2>1 DEF WordsApart
  <2>2. CASE r = s /\ x = Message(t)
    BY <1>0, <2>2
  <2>3. QED
    BY <1>6, <2>1, <2>2
<1>8. LandedOnce(bs, es, lost)'
  <2> SUFFICES ASSUME NEW b \in bs, b.text \notin lost
               PROVE  /\ \A r, u \in BranchSessions, i, j \in Nat :
                             Said(r, i, b.text)' /\ Said(u, j, b.text)' => r = u /\ i = j
                      /\ (\E r \in BranchSessions, i \in Nat : Said(r, i, b.text)') =>
                             \E e \in es : e.kind = "edit" /\ e.text = b.text /\ e.stage = "done"
    BY DEF LandedOnce
  <2>0. b.text \in Nat
    BY <1>0, BoxFields
  <2>1. CASE x = Message(b.text)
    <3>1. /\ \A r \in BranchSessions, i \in Nat : ~Said(r, i, b.text)
          /\ \E e \in es : e.kind = "edit" /\ e.text = b.text /\ e.stage = "done"
      BY <2>0, <2>1
    <3>2. \A r \in BranchSessions, i \in Nat : Said(r, i, b.text)' => r = s /\ i = Len(stream[s]) + 1
      BY <1>6, <2>0, <3>1
    <3>3. QED
      BY <3>1, <3>2
  <2>2. CASE x # Message(b.text)
    <3>1. \A r \in BranchSessions, i \in Nat : Said(r, i, b.text)' => Said(r, i, b.text)
      BY <1>6, <2>0, <2>2
    <3>2. QED
      BY <3>1 DEF LandedOnce
  <2>3. QED
    BY <2>1, <2>2
<1>9. QED
  BY <1>1, <1>3, <1>4, <1>5, <1>7, <1>8

(* Boxes change nothing but their notice or go; calls go, but for one whose *)
(* words have landed while their box is there and no answer was lost.       *)
LEMMA Fewer ==
    ASSUME StreamsTyped, NEW bs, NEW es, NEW lost, Business(bs, es, lost), NEW bs2, NEW es2, NEW lost2,
           BoxesTyped(bs2), \A c \in bs2 : \E b \in bs : b.row = c.row /\ b.text = c.text,
           es2 \subseteq es, lost \subseteq lost2,
           \A c \in bs2, e \in es \ es2 :
               e.kind = "edit" /\ e.stage = "done" /\ e.text = c.text => c.text \in lost2
    PROVE  Business(bs2, es2, lost2)
<1> USE DEF Business
<1>1. ErrandsTyped(es2) /\ Forks(es2)
  BY DEF ErrandsTyped, Forks
<1>2. OneCall(bs2, es2)
  <2>1. ASSUME NEW a \in bs2, NEW b \in bs2, a.text = b.text PROVE a.row = b.row
    BY <2>1 DEF OneCall
  <2>2. \A e, f \in es2 : e.kind = "edit" /\ f.kind = "edit" /\ e.text = f.text => e = f
    BY DEF OneCall
  <2>3. ASSUME NEW c \in bs2, NEW e \in es2, e.kind = "edit", e.text = c.text
        PROVE  e.mounted /\ e.row = c.row
    <3>1. PICK b \in bs : b.row = c.row /\ b.text = c.text
      OBVIOUS
    <3>2. e \in es /\ e.text = b.text
      BY <2>3, <3>1
    <3>3. e.mounted /\ e.row = b.row
      BY <2>3, <3>2, Zenon DEF OneCall
    <3>4. QED
      BY <3>1, <3>3, Zenon
  <2>4. QED
    BY <2>1, <2>2, <2>3 DEF OneCall
<1>3. WordsApart(bs2, es2)
  BY DEF WordsApart
<1>4. LandedOnce(bs2, es2, lost2)
  <2> SUFFICES ASSUME NEW c \in bs2, c.text \notin lost2
               PROVE  /\ \A s, r \in BranchSessions, i, j \in Nat :
                             Said(s, i, c.text) /\ Said(r, j, c.text) => s = r /\ i = j
                      /\ (\E s \in BranchSessions, i \in Nat : Said(s, i, c.text)) =>
                             \E e \in es2 : e.kind = "edit" /\ e.text = c.text /\ e.stage = "done"
    BY DEF LandedOnce
  <2>1. PICK b \in bs : b.row = c.row /\ b.text = c.text
    OBVIOUS
  <2>2. /\ \A s, r \in BranchSessions, i, j \in Nat :
              Said(s, i, c.text) /\ Said(r, j, c.text) => s = r /\ i = j
        /\ (\E s \in BranchSessions, i \in Nat : Said(s, i, c.text)) =>
              \E e \in es : e.kind = "edit" /\ e.text = c.text /\ e.stage = "done"
    BY <2>1 DEF LandedOnce
  <2>3. QED
    BY <2>2
<1>5. QED
  BY <1>1, <1>2, <1>3, <1>4

(* A call joins that is an undo, or the only one of its text.              *)
LEMMA Joined ==
    ASSUME StreamsTyped, NEW bs, NEW es, NEW lost, Business(bs, es, lost), NEW e, Errand(e),
           e.kind = "edit" =>
               /\ Forked(e)
               /\ \A f \in es : f.kind = "edit" => f.text # e.text
               /\ \A b \in bs : b.text = e.text => e.mounted /\ e.row = b.row
               /\ \A s \in BranchSessions, i \in Nat : Said(s, i, e.text) => e.from # s
    PROVE  Business(bs, es \cup {e}, lost)
<1> USE DEF Business
<1>1. ErrandsTyped(es \cup {e}) /\ Forks(es \cup {e})
  BY DEF ErrandsTyped, Forks
<1>2. OneCall(bs, es \cup {e})
  <2>1. \A a, b \in bs : a.text = b.text => a.row = b.row
    BY DEF OneCall
  <2>2. ASSUME NEW f \in es \cup {e}, NEW g \in es \cup {e}, f.kind = "edit", g.kind = "edit", f.text = g.text
        PROVE  f = g
    BY <2>2 DEF OneCall
  <2>3. ASSUME NEW b \in bs, NEW f \in es \cup {e}, f.kind = "edit", f.text = b.text
        PROVE  f.mounted /\ f.row = b.row
    <3>1. CASE f = e
      BY <2>3, <3>1, Zenon
    <3>2. CASE f \in es
      BY <2>3, <3>2, Zenon DEF OneCall
    <3>3. QED
      BY <3>1, <3>2
  <2>4. QED
    BY <2>1, <2>2, <2>3 DEF OneCall
<1>3. WordsApart(bs, es \cup {e})
  BY DEF WordsApart
<1>4. LandedOnce(bs, es \cup {e}, lost)
  BY DEF LandedOnce
<1>5. QED
  BY <1>1, <1>2, <1>3, <1>4

LEMMA Settled ==
    ASSUME NEW bs, NEW es, NEW lost, boxes' = bs, errands' = es, doubtful' = lost, Business(bs, es, lost)'
    PROVE  Business(boxes, errands, doubtful)'
BY DEF Business, BoxesTyped, ErrandsTyped, OneCall, Forks, WordsApart, LandedOnce

(* The page draws the rows of a session.                                   *)
LEMMA Drawn ==
    ASSUME StreamsTyped, NEW bs, NEW es, Business(bs, es, doubtful), NEW s, NEW keys, NEW cs,
           RenderRows(s, keys, bs, cs, es), UNCHANGED <<stream, born, inherited, doubtful>>,
           deeds' \in {deeds, deeds + 1}
    PROVE  Business(boxes, errands, doubtful)'
<1>1. PICK bs2, es2, lost, rows : /\ bs2 = boxes' /\ es2 = errands' /\ lost = doubtful
                                  /\ rows = MountedRows(s, keys)
  OBVIOUS
<1>2. bs2 = Left(bs, rows)
  BY <1>1 DEF RenderRows, Left
<1>3. es2 = Redrawn(es, rows)
  BY <1>1, Zenon DEF RenderRows, Redrawn
<1>4. Business(bs, es, lost)
  BY <1>1
<1>5. Business(bs2, es2, lost)
  BY <1>2, <1>3, <1>4, Rendered
<1>6. Business(bs2, es2, lost)'
  BY <1>5, Aged
<1>7. QED
  BY <1>1, <1>6, Settled

Apart(bs, es, e) ==
    e.kind = "edit" =>
        /\ Forked(e)
        /\ \A f \in es : f.kind = "edit" => f.text # e.text
        /\ \A b \in bs : b.text = e.text => e.mounted /\ e.row = b.row
        /\ \A s \in BranchSessions, i \in Nat : Said(s, i, e.text) => e.from # s

LEMMA JoinedAnywhere ==
    \A bs, es, lost, e :
        StreamsTyped /\ Business(bs, es, lost) /\ Errand(e) /\ Apart(bs, es, e)
            => Business(bs, es \cup {e}, lost)
BY Joined DEF Apart

(* The same of the state a step leads to.                                  *)
LEMMA JoinedLater ==
    (\A bs, es, lost, e :
        StreamsTyped /\ Business(bs, es, lost) /\ Errand(e) /\ Apart(bs, es, e)
            => Business(bs, es \cup {e}, lost))'
BY JoinedAnywhere, PTL

(* Nothing but the page and the reader moves.                              *)
LEMMA Steady ==
    ASSUME StreamsTyped, Shown, UNCHANGED <<stream, born, inherited, received, bubbles>>,
           screen' \in born, deeds' \in {deeds, deeds + 1}
    PROVE  StreamsTyped' /\ Shown'
BY DEF StreamsTyped, Shown

LEMMA BranchInitially ==
    ASSUME BranchInit
    PROVE  BranchInv
<1> USE DEF BranchInit
<1> DEFINE opening == <<Message(0), Finished, Message(0), Finished>>
<1>1. opening \in Seq(Envelope) /\ Len(opening) = 4 /\ <<>> \in Seq(Envelope)
  BY Messages
<1>2. \A s \in BranchSessions : stream[s] = IF s = Origin THEN opening ELSE <<>>
  BY DEF BranchSessions
<1>3. StreamsTyped
  <2>1. stream \in [BranchSessions -> Seq(Envelope)]
    BY <1>1 DEF BranchSessions
  <2>2. QED
    BY <1>2, <2>1 DEF StreamsTyped, BranchSessions
<1>4. LiveIn(opening, 4) = {1, 3}
  <2>1. /\ opening[1].type = "message" /\ opening[2].type = "finished"
        /\ opening[3].type = "message" /\ opening[4].type = "finished"
    BY DEF Message, Finished
  <2> HIDE DEF opening
  <2>2. \A i \in 1 .. 4 : opening[i].type # "rewind" /\ (opening[i].type = "message" <=> i \in {1, 3})
    BY <2>1
  <2>3. QED
    BY <2>2 DEF LiveIn
<1>5. LiveIn(<<>>, 0) = {}
  BY DEF LiveIn
<1>6. Shown
  <2>1. \A s \in BranchSessions : /\ received[s] <= Len(stream[s])
                                  /\ bubbles[s] = LiveIn(stream[s], received[s])
    <3> TAKE s \in BranchSessions
    <3> HIDE DEF opening
    <3>1. CASE s = Origin
      <4>1. received[s] = 4 /\ bubbles[s] = {1, 3}
        BY <3>1 DEF BranchSessions
      <4>2. stream[s] = opening
        BY <1>2, <3>1
      <4> HIDE DEF BranchInit
      <4>3. QED
        BY <1>1, <1>4, <4>1, <4>2
    <3>2. CASE s # Origin
      <4>1. stream[s] = <<>> /\ received[s] = 0 /\ bubbles[s] = {}
        BY <1>2, <3>2 DEF BranchSessions
      <4>2. Len(<<>>) = 0
        OBVIOUS
      <4> HIDE DEF BranchInit
      <4>3. QED
        BY <1>5, <4>1, <4>2
    <3>3. QED
      BY <3>1, <3>2
  <2>2. QED
    BY <2>1 DEF Shown, BranchSessions
<1>7. \A s \in BranchSessions, i \in Nat, t \in Nat : Said(s, i, t) => t = 0
  <2>1. \A i \in 1 .. 4 : opening[i] = Message(0) \/ opening[i] = Finished
    OBVIOUS
  <2> HIDE DEF opening
  <2>2. DOMAIN opening = 1 .. 4 /\ DOMAIN <<>> = {}
    BY <1>1
  <2>3. QED
    BY ZenonT(60), <1>2, <2>1, <2>2, Messages DEF Said
<1>8. Business(boxes, errands, doubtful)
  BY <1>7 DEF Business, BoxesTyped, ErrandsTyped, OneCall, Forks, WordsApart, LandedOnce
<1>9. QED
  BY <1>3, <1>6, <1>8 DEF BranchInv, UndoSparesShown

(* What the reader sees above a message is what the fork is given.         *)
LEMMA AboveIsForked ==
    ASSUME StreamsTyped, Shown, NEW k \in bubbles[screen]
    PROVE  /\ screen \in BranchSessions /\ k \in 1 .. Len(stream[screen]) /\ k \in Nat /\ bubbles[screen] \subseteq Nat
           /\ \A j \in bubbles[screen] : j \in 1 .. received[screen]
           /\ Above(screen, k) = Append(inherited[screen], Texts(stream[screen], LiveIn(stream[screen], k - 1)))
<1>1. screen \in BranchSessions
  BY DEF StreamsTyped, Shown
<1>2. PICK q : q = stream[screen]
  OBVIOUS
<1>3. q \in Seq(Envelope)
  BY <1>1, <1>2 DEF StreamsTyped
<1>4. PICK n \in Nat : n = received[screen]
  BY <1>1 DEF Shown
<1>5. n <= Len(q) /\ bubbles[screen] = LiveIn(q, n) /\ Len(q) \in Nat
  BY <1>1, <1>2, <1>3, <1>4 DEF Shown
<1>6. LiveIn(q, n) \subseteq 1 .. n
  BY DEF LiveIn
<1>7. \A i \in 1 .. n : q[i].type = "rewind" => q[i].target \in Int
  <2> TAKE i \in 1 .. n
  <2>1. q[i] \in Envelope
    BY <1>3, <1>5
  <2>2. QED
    BY <2>1, EnvelopeTyped
<1>8. {j \in LiveIn(q, n) : j < k} = LiveIn(q, k - 1)
  BY <1>5, <1>7, LiveBelow
<1>9. Above(screen, k) = Append(inherited[screen], Texts(q, LiveIn(q, k - 1)))
  BY <1>2, <1>5, <1>8 DEF Above
<1>10. QED
  BY <1>1, <1>2, <1>4, <1>5, <1>6, <1>9

-----------------------------------------------------------------------------
(* The steps *)

LEMMA ReceiveStep ==
    ASSUME BranchInv, Receive
    PROVE  BranchInv'
<1> USE DEF BranchInv
<1>1. screen \in BranchSessions
  BY DEF StreamsTyped, Shown
<1>2. PICK q, n : q = stream[screen] /\ n = received[screen]
  OBVIOUS
<1>3. q \in Seq(Envelope) /\ n \in Nat /\ bubbles[screen] = LiveIn(q, n)
  BY <1>1, <1>2 DEF StreamsTyped, Shown
<1>4. /\ n + 1 <= Len(q) /\ received' = [received EXCEPT ![screen] = n + 1]
      /\ bubbles' = [bubbles EXCEPT ![screen] =
             CASE q[n + 1].type = "message" -> @ \cup {n + 1}
               [] q[n + 1].type = "rewind"  -> {k \in @ : k <= q[n + 1].target}
               [] OTHER                     -> @]
      /\ RenderRows(screen, bubbles'[screen], boxes, confirming, errands)
      /\ UNCHANGED <<stream, born, inherited, screen, doubtful, regretted, deeds>>
  BY <1>2 DEF Receive
<1>5. bubbles'[screen] = LiveIn(q, n + 1)
  <2>1. /\ q[n + 1].type = "message" => bubbles'[screen] = LiveIn(q, n) \cup {n + 1}
        /\ q[n + 1].type = "rewind" => bubbles'[screen] = {k \in LiveIn(q, n) : k <= q[n + 1].target}
        /\ q[n + 1].type \notin {"message", "rewind"} => bubbles'[screen] = LiveIn(q, n)
    BY <1>1, <1>3, <1>4 DEF Shown
  <2>2. QED
    BY <1>3, <2>1, LiveNext
<1>6. StreamsTyped' /\ Shown'
  <2>1. StreamsTyped'
    BY <1>4 DEF StreamsTyped
  <2>2. \A s \in BranchSessions : /\ received'[s] <= Len(stream'[s])
                                  /\ bubbles'[s] = LiveIn(stream'[s], received'[s])
    <3> TAKE s \in BranchSessions
    <3>1. CASE s = screen
      BY <1>2, <1>3, <1>4, <1>5, <3>1 DEF Shown
    <3>2. CASE s # screen
      BY <1>4, <3>2 DEF Shown
    <3>3. QED
      BY <3>1, <3>2
  <2>3. received' \in [BranchSessions -> Nat]
    <3>1. received \in [BranchSessions -> Nat] /\ n + 1 \in Nat /\ received' = [received EXCEPT ![screen] = n + 1]
      BY <1>3, <1>4 DEF Shown
    <3>2. QED
      BY <3>1
  <2>4. DOMAIN bubbles' = BranchSessions
    BY <1>4 DEF Shown
  <2>5. screen' \in born'
    BY <1>4 DEF Shown
  <2>6. QED
    BY <2>1, <2>2, <2>3, <2>4, <2>5 DEF Shown
<1>7. PICK keys : keys = bubbles'[screen]
  OBVIOUS
<1>8. RenderRows(screen, keys, boxes, confirming, errands)
  BY <1>4, <1>7
<1>9. Business(boxes, errands, doubtful)'
  BY <1>4, <1>8, Drawn
<1>10. QED
  BY <1>4, <1>6, <1>9 DEF UndoSparesShown

LEMMA LookAtStep ==
    ASSUME BranchInv, NEW s \in born, LookAt(s)
    PROVE  BranchInv'
<1> USE DEF BranchInv
<1>1. /\ screen' = s /\ RenderRows(s, bubbles[s], boxes, confirming, errands)
      /\ UNCHANGED <<stream, born, inherited, received, bubbles, doubtful, regretted>>
      /\ deeds' \in {deeds, deeds + 1}
  BY DEF LookAt, Deed, GoToSession
<1>2. StreamsTyped' /\ Shown'
  BY <1>1, Steady
<1>3. Business(boxes, errands, doubtful)'
  BY <1>1, Drawn
<1>4. QED
  BY <1>1, <1>2, <1>3 DEF UndoSparesShown

(* Steps that leave boxes and calls.                                       *)
LEMMA ReaderStep ==
    ASSUME BranchInv, UNCHANGED <<stream, born, inherited, screen, received, bubbles, boxes, errands, doubtful, regretted>>,
           deeds' \in {deeds, deeds + 1}
    PROVE  BranchInv'
<1> USE DEF BranchInv
<1>1. StreamsTyped' /\ Shown'
  BY Steady DEF Shown
<1>2. PICK bs, es, lost : bs = boxes /\ es = errands /\ lost = doubtful
  OBVIOUS
<1>3. Business(bs, es, lost)
  BY <1>2
<1>4. Business(bs, es, lost)'
  BY <1>3, Aged
<1>5. Business(boxes, errands, doubtful)'
  BY <1>2, <1>4, Settled
<1>6. QED
  BY <1>1, <1>5 DEF UndoSparesShown

(* A turn is opened from elsewhere, or ends.                               *)
LEMMA TurnStep ==
    ASSUME BranchInv, NEW s \in born, WriteElsewhere(s) \/ TurnFinishes(s)
    PROVE  BranchInv'
<1> USE DEF BranchInv
<1>0. deeds \in Nat /\ s \in BranchSessions
  BY DEF StreamsTyped
<1>1. PICK x \in {Message(0), Finished} : RecordIn(s, x)
  BY DEF WriteElsewhere, TurnFinishes
<1>2. /\ UNCHANGED <<born, inherited, screen, received, bubbles, boxes, errands, doubtful, regretted>>
      /\ deeds' \in {deeds, deeds + 1} /\ deeds' \in Nat
  BY <1>0 DEF WriteElsewhere, TurnFinishes, Deed
<1>3. x \in Envelope /\ \A t \in Nat : x = Message(t) => t = 0
  BY <1>1, Messages
<1>4. StreamsTyped' /\ Shown'
  BY <1>1, <1>2, <1>3, ShownLater
<1>5. PICK bs, es, lost : bs = boxes /\ es = errands /\ lost = doubtful
  OBVIOUS
<1>6. Business(bs, es, lost)
  BY <1>5
<1>7. \A b \in bs : b.text > 0
  BY <1>0, <1>6, BoxFields DEF Business
<1>8. \A e \in es : e.kind = "edit" => e.text > 0
  BY <1>6, ErrandFields DEF Business, ErrandsTyped
<1>9. \A t \in Nat : x = Message(t) =>
          t = 0 /\ (\A e \in es : e.kind = "edit" => e.text # t) /\ (\A b \in bs : b.text # t)
  BY <1>3, <1>7, <1>8
<1>10. Business(bs, es, lost)'
  <2>1. \A t \in Nat : x = Message(t) =>
               /\ t <= deeds
               /\ \A e \in es : e.kind = "edit" /\ e.text = t => e.from # s
               /\ \A b \in bs : b.text = t =>
                     /\ b.row[1] # s
                     /\ t \notin lost =>
                           /\ ~\E r \in BranchSessions, i \in Nat : Said(r, i, t)
                           /\ \E e \in es : e.kind = "edit" /\ e.text = t /\ e.stage = "done"
    BY <1>0, <1>9
  <2>2. QED
    BY <1>0, <1>1, <1>2, <1>3, <1>6, <2>1, Wrote
<1>11. Business(boxes, errands, doubtful)'
  BY <1>2, <1>5, <1>10, Settled
<1>12. QED
  BY <1>2, <1>4, <1>11 DEF UndoSparesShown

(* A box is opened with words of its own.                                  *)
LEMMA OpenEditStep ==
    ASSUME BranchInv, NEW k \in bubbles[screen], OpenEdit(k)
    PROVE  BranchInv'
<1> USE DEF BranchInv
<1>0. deeds \in Nat
  BY DEF StreamsTyped
<1>1. PICK b : b = [row |-> BubbleKey(screen, k), text |-> deeds', of |-> <<screen, k>>, failed |-> FALSE]
  OBVIOUS
<1>2. /\ deeds' = deeds + 1 /\ boxes' = boxes \cup {b}
      /\ UNCHANGED <<stream, born, inherited, screen, received, bubbles, errands, doubtful, regretted>>
  BY <1>1 DEF OpenEdit, Deed
<1>3. StreamsTyped' /\ Shown'
  BY <1>2, Steady DEF Shown
<1>4. PICK bs, es, lost : bs = boxes /\ es = errands /\ lost = doubtful
  OBVIOUS
<1>5. Business(bs, es, lost)
  BY <1>4
<1>6. Business(bs, es, lost)'
  BY <1>2, <1>5, Aged
<1>7. b.text = deeds + 1 /\ b \in [row : {b.row}, text : 1 .. deeds', of : {b.row}, failed : BOOLEAN]
  BY <1>0, <1>1, <1>2 DEF BubbleKey
<1>8. /\ \A a \in bs : a.text # b.text
      /\ \A e \in es : e.text # b.text
      /\ \A s \in BranchSessions, i \in Nat : ~Said(s, i, b.text)
  <2>1. \A a \in bs : a.text \in 1 .. deeds
    BY <1>0, <1>5, BoxFields DEF Business
  <2>2. \A e \in es : e.text <= deeds /\ e.text \in Nat
    BY <1>5, ErrandFields DEF Business, ErrandsTyped
  <2>3. \A s \in BranchSessions, i \in Nat, t \in Nat : Said(s, i, t) => t <= deeds
    BY <1>5 DEF Business, WordsApart
  <2>4. QED
    BY <1>0, <1>7, <2>1, <2>2, <2>3
<1>9. \A s \in BranchSessions, i \in Nat : ~Said(s, i, b.text)'
  BY <1>2, <1>8 DEF Said
<1>10. Business(bs \cup {b}, es, lost)'
  <2>1. BoxesTyped(bs \cup {b})'
    BY <1>6, <1>7 DEF Business, BoxesTyped
  <2>2. ErrandsTyped(es)' /\ Forks(es)'
    BY <1>6 DEF Business
  <2>3. OneCall(bs \cup {b}, es)
    BY <1>5, <1>8 DEF Business, OneCall
  <2>4. OneCall(bs \cup {b}, es)'
    BY <2>3 DEF OneCall
  <2>5. WordsApart(bs \cup {b}, es)'
    BY <1>6, <1>9 DEF Business, WordsApart
  <2>6. LandedOnce(bs \cup {b}, es, lost)'
    BY <1>6, <1>9 DEF Business, LandedOnce
  <2>7. QED
    BY <2>1, <2>2, <2>4, <2>5, <2>6 DEF Business
<1>11. Business(boxes, errands, doubtful)'
  BY <1>2, <1>4, <1>10, Settled
<1>12. QED
  BY <1>2, <1>3, <1>11 DEF UndoSparesShown

LEMMA CancelEditStep ==
    ASSUME BranchInv, NEW b \in boxes, CancelEdit(b)
    PROVE  BranchInv'
<1> USE DEF BranchInv
<1>1. PICK bs, es, lost : bs = boxes /\ es = errands /\ lost = doubtful
  OBVIOUS
<1>2. /\ deeds' \in {deeds, deeds + 1} /\ boxes' = bs \ {b}
      /\ UNCHANGED <<stream, born, inherited, screen, received, bubbles, errands, doubtful, regretted>>
  BY <1>1 DEF CancelEdit, Deed
<1>3. StreamsTyped' /\ Shown'
  BY <1>2, Steady DEF Shown
<1>4. Business(bs, es, lost)
  BY <1>1
<1>5. Business(bs \ {b}, es, lost)
  <2>1. BoxesTyped(bs \ {b})
    BY <1>4 DEF Business, BoxesTyped
  <2>2. QED
    BY <1>4, <2>1, Fewer
<1>6. Business(bs \ {b}, es, lost)'
  BY <1>2, <1>5, Aged
<1>7. Business(boxes, errands, doubtful)'
  BY <1>1, <1>2, <1>6, Settled
<1>8. QED
  BY <1>2, <1>3, <1>7 DEF UndoSparesShown

LEMMA SubmitEditStep ==
    ASSUME BranchInv, NEW b \in boxes, NEW k \in bubbles[screen], SubmitEdit(b, k)
    PROVE  BranchInv'
<1> USE DEF BranchInv
<1>0. deeds \in Nat
  BY DEF StreamsTyped
<1>1. PICK bs, es, lost : bs = boxes /\ es = errands /\ lost = doubtful
  OBVIOUS
<1>2. PICK e : e = Asks("edit", b.row, k, b.text, b.of)
  OBVIOUS
<1>3. PICK c : c = [b EXCEPT !.failed = FALSE]
  OBVIOUS
<1>4. /\ deeds' \in {deeds, deeds + 1} /\ errands' = es \cup {e} /\ boxes' = (bs \ {b}) \cup {c}
      /\ UNCHANGED <<stream, born, inherited, screen, received, bubbles, doubtful, regretted>>
      /\ b.row = <<screen, k>> /\ ~Pending("edit", b.row)
  BY <1>1, <1>2, <1>3 DEF SubmitEdit, Deed, BubbleKey
<1>5. StreamsTyped' /\ Shown'
  BY <1>4, Steady DEF Shown
<1>6. Business(bs, es, lost)
  BY <1>1
<1>7. b \in bs /\ b.text \in 1 .. deeds /\ b.text \in Nat /\ b.of = b.row
  BY <1>0, <1>1, <1>6, BoxFields DEF Business
<1>8. c \in [row : {b.row}, text : 1 .. deeds, of : {b.row}, failed : BOOLEAN]
      /\ c.row = b.row /\ c.text = b.text
  BY <1>1, <1>3, <1>6 DEF Business, BoxesTyped
<1>9. Business((bs \ {b}) \cup {c}, es, lost)
  <2>1. BoxesTyped((bs \ {b}) \cup {c})
    BY <1>6, <1>8 DEF Business, BoxesTyped
  <2>2. \A d \in (bs \ {b}) \cup {c} : \E a \in bs : a.row = d.row /\ a.text = d.text
    BY <1>7, <1>8
  <2>3. QED
    BY <1>6, <2>1, <2>2, Fewer
<1>10. e = [kind |-> "edit", row |-> <<screen, k>>, from |-> screen, at |-> k, text |-> b.text, of |-> <<screen, k>>,
            mounted |-> TRUE, stage |-> "asked", child |-> screen, above |-> Above(screen, k),
            shown |-> bubbles[screen]]
  BY <1>2, <1>4, <1>7 DEF Asks
<1>11. Errand(e)
  <2>1. e \in [kind : {"edit", "undo"}, row : {<<screen, k>>}, from : born,
               at : 1 .. Len(stream[screen]), text : 0 .. deeds, of : {<<screen, k>>},
               mounted : BOOLEAN, stage : {"asked", "forked", "done"}, child : born,
               above : {Above(screen, k)}, shown : SUBSET Nat]
    BY <1>0, <1>7, <1>10, AboveIsForked DEF Shown
  <2>2. e.kind = "edit" /\ e.from = screen /\ e.at = k /\ e.above = Above(screen, k) /\ e.text = b.text
    BY <1>10
  <2>3. QED
    BY <1>0, <1>7, <2>1, <2>2 DEF Errand
<1>12. /\ e.kind = "edit" /\ e.text = b.text /\ e.mounted = TRUE /\ e.row = b.row /\ e.from = screen
       /\ Forked(e)
  BY <1>4, <1>10, AboveIsForked DEF Forked
<1>13. \A f \in es : f.kind = "edit" => f.text # b.text
  <2>1. SUFFICES ASSUME NEW f \in es, f.kind = "edit", f.text = b.text PROVE FALSE
    OBVIOUS
  <2>2. f.mounted /\ f.row = b.row
    BY <1>6, <1>7, <2>1, Zenon DEF Business, OneCall
  <2>3. QED
    BY <1>1, <1>4, <2>1, <2>2, Zenon DEF Pending
<1>14. \A d \in (bs \ {b}) \cup {c} : d.text = e.text => e.mounted /\ e.row = d.row
  <2> SUFFICES ASSUME NEW d \in (bs \ {b}) \cup {c}, d.text = e.text PROVE e.mounted = TRUE /\ e.row = d.row
    OBVIOUS
  <2>1. d.row = b.row
    BY <1>6, <1>7, <1>8, <1>12 DEF Business, OneCall
  <2>2. QED
    BY <1>12, <2>1
<1>15. \A s \in BranchSessions, i \in Nat : Said(s, i, e.text) => e.from # s
  <2>1. b.row[1] = screen
    BY <1>4
  <2>2. QED
    BY <1>6, <1>7, <1>12, <2>1 DEF Business, WordsApart
<1>16. Business((bs \ {b}) \cup {c}, es \cup {e}, lost)
  BY <1>9, <1>11, <1>12, <1>13, <1>14, <1>15, Joined
<1>17. Business((bs \ {b}) \cup {c}, es \cup {e}, lost)'
  BY <1>4, <1>16, Aged
<1>18. Business(boxes, errands, doubtful)'
  BY <1>1, <1>4, <1>17, Settled
<1>19. QED
  BY <1>4, <1>5, <1>18 DEF UndoSparesShown

LEMMA SubmitUndoStep ==
    ASSUME BranchInv, NEW k \in bubbles[screen], SubmitUndo(k)
    PROVE  BranchInv'
<1> USE DEF BranchInv
<1>0. deeds \in Nat /\ screen \in BranchSessions
  BY DEF StreamsTyped, Shown
<1>1. PICK bs, es, lost : bs = boxes /\ es = errands /\ lost = doubtful
  OBVIOUS
<1>2. PICK e : e = Asks("undo", BubbleKey(screen, k), k, 0, <<screen, k>>)
  OBVIOUS
<1>3. /\ deeds' \in {deeds, deeds + 1} /\ errands' = es \cup {e} /\ boxes' = bs
      /\ UNCHANGED <<stream, born, inherited, screen, received, bubbles, doubtful, regretted>>
      /\ k = Max(bubbles[screen])
  BY <1>1, <1>2 DEF SubmitUndo, Deed, Undoable, Latest
<1>4. StreamsTyped' /\ Shown'
  BY <1>3, Steady DEF Shown
<1>5. Business(bs, es, lost)
  BY <1>1
<1>6. e = [kind |-> "undo", row |-> <<screen, k>>, from |-> screen, at |-> k, text |-> 0, of |-> <<screen, k>>,
           mounted |-> TRUE, stage |-> "asked", child |-> screen, above |-> Above(screen, k),
           shown |-> bubbles[screen]]
  BY <1>2 DEF Asks, BubbleKey
<1>7. \A j \in bubbles[screen] : j <= k
  <2>1. PICK n \in Nat : n = received[screen]
    BY <1>0 DEF Shown
  <2>2. PICK S : S = bubbles[screen]
    OBVIOUS
  <2>3. S \in SUBSET (1 .. n) /\ S # {}
    BY <2>1, <2>2, AboveIsForked
  <2>4. QED
    BY <1>3, <2>2, <2>3, MaxOfBounded
<1>8. Errand(e)
  <2>1. e \in [kind : {"edit", "undo"}, row : {<<screen, k>>}, from : born,
               at : 1 .. Len(stream[screen]), text : 0 .. deeds, of : {<<screen, k>>},
               mounted : BOOLEAN, stage : {"asked", "forked", "done"}, child : born,
               above : {Above(screen, k)}, shown : SUBSET Nat]
    BY <1>0, <1>6, AboveIsForked DEF Shown
  <2>2. e.kind = "undo" /\ e.from = screen /\ e.at = k /\ e.above = Above(screen, k) /\ e.shown = bubbles[screen]
    BY <1>6
  <2>3. QED
    BY <1>7, <2>1, <2>2 DEF Errand
<1>9. Business(bs, es \cup {e}, lost)
  <2>1. e.kind # "edit"
    BY <1>6
  <2>2. QED
    BY <1>5, <1>8, <2>1, Joined
<1>10. Business(bs, es \cup {e}, lost)'
  BY <1>3, <1>9, Aged
<1>11. Business(boxes, errands, doubtful)'
  BY <1>1, <1>3, <1>10, Settled
<1>12. QED
  BY <1>3, <1>4, <1>11 DEF UndoSparesShown

(* A session more.                                                         *)
LEMMA Born ==
    ASSUME StreamsTyped, NEW bs, NEW es, NEW lost, Business(bs, es, lost), NEW c, c \notin born, born' = born \cup {c},
           \A s \in born : inherited'[s] = inherited[s], UNCHANGED <<stream, deeds>>
    PROVE  Business(bs, es, lost)'
<1> USE DEF Business
<1>1. BoxesTyped(bs)'
  BY DEF BoxesTyped
<1>2. ErrandsTyped(es)'
  BY DEF ErrandsTyped, Errand
<1>3. OneCall(bs, es)'
  BY DEF OneCall
<1>4. Forks(es)'
  <2> SUFFICES ASSUME NEW e \in es, e.kind = "edit" PROVE Forked(e)'
    BY DEF Forks
  <2>1. e.from \in born /\ e.child \in born
    BY ErrandFields DEF ErrandsTyped
  <2>2. QED
    BY <2>1 DEF Forks, Forked
<1>5. WordsApart(bs, es)' /\ LandedOnce(bs, es, lost)'
  BY DEF WordsApart, LandedOnce, Said
<1>6. QED
  BY <1>1, <1>2, <1>3, <1>4, <1>5

LEMMA ServeForkStep ==
    ASSUME BranchInv, NEW e \in errands, NEW c \in Branches, ServeFork(e, c)
    PROVE  BranchInv'
<1> USE DEF BranchInv
<1>1. PICK bs, es, lost : bs = boxes /\ es = errands /\ lost = doubtful
  OBVIOUS
<1>2. PICK f : f = [e EXCEPT !.stage = "forked", !.child = c]
  OBVIOUS
<1>3. /\ e.kind = "edit" /\ e.stage = "asked" /\ c \notin born /\ born' = born \cup {c}
      /\ inherited' = [inherited EXCEPT ![c] =
             Append(inherited[e.from], Texts(stream[e.from], LiveIn(stream[e.from], e.at - 1)))]
      /\ errands' = (es \ {e}) \cup {f} /\ boxes' = bs /\ doubtful' = lost
      /\ UNCHANGED <<stream, screen, received, bubbles, regretted, deeds>>
  BY <1>1, <1>2 DEF ServeFork
<1>4. c \in BranchSessions
  BY DEF BranchSessions
<1>5. StreamsTyped' /\ Shown'
  BY <1>3, <1>4 DEF StreamsTyped, Shown
<1>6. Business(bs, es, lost) /\ Errand(e) /\ Forked(e)
  BY <1>1, <1>3 DEF Business, ErrandsTyped, Forks
<1>7. Business(bs, es \ {e}, lost)
  <2>1. \A d \in es \ (es \ {e}) : d.stage # "done"
    BY <1>3
  <2>2. QED
    BY <1>6, <2>1, Fewer DEF Business
<1>8. Business(bs, es \ {e}, lost)'
  <2>1. \A s \in born : inherited'[s] = inherited[s]
    BY <1>3
  <2>2. QED
    BY <1>3, <1>7, <2>1, Born
<1>9. /\ f.kind = "edit" /\ f.row = e.row /\ f.from = e.from /\ f.at = e.at /\ f.text = e.text
      /\ f.mounted = e.mounted /\ f.above = e.above /\ f.shown = e.shown
      /\ f.stage = "forked" /\ f.child = c
  BY <1>2, <1>3, <1>6 DEF Errand
<1>10. Errand(f)'
  <2>1. f \in [kind : {"edit", "undo"}, row : {<<e.from, e.at>>}, from : born',
               at : 1 .. Len(stream[e.from]), text : 0 .. deeds, of : {<<e.from, e.at>>},
               mounted : BOOLEAN, stage : {"asked", "forked", "done"}, child : born',
               above : {e.above}, shown : SUBSET Nat]
    BY <1>2, <1>3, <1>6 DEF Errand
  <2>2. e.text > 0
    BY <1>3, <1>6, ErrandFields
  <2>3. QED
    BY <1>3, <1>9, <2>1, <2>2 DEF Errand
<1>11. Apart(bs, es \ {e}, f)'
  <2>1. Forked(f)'
    <3>1. f.from # c /\ c \in DOMAIN inherited
      BY <1>3, <1>4, <1>6, <1>9, ErrandFields DEF StreamsTyped
    <3>2. f.above = inherited'[c]
      BY <1>3, <1>6, <1>9, <3>1 DEF Forked
    <3>3. QED
      BY <1>9, <3>1, <3>2 DEF Forked
  <2>2. \A g \in es \ {e} : g.kind = "edit" => g.text # f.text
    BY <1>1, <1>3, <1>6, <1>9 DEF Business, OneCall
  <2>3. \A b \in bs : b.text = f.text => f.mounted /\ f.row = b.row
    <3>1. ASSUME NEW b \in bs, b.text = f.text PROVE e.mounted /\ e.row = b.row
      <4>1. e \in es /\ e.text = b.text /\ OneCall(bs, es)
        BY <1>1, <1>6, <1>9, <3>1 DEF Business
      <4>2. QED
        BY <1>3, <4>1, Zenon DEF OneCall
    <3>2. QED
      BY <1>9, <3>1, Zenon
  <2>4. \A s \in BranchSessions, i \in Nat : Said(s, i, f.text) => f.from # s
    BY <1>1, <1>3, <1>6, <1>9, ErrandFields DEF Business, WordsApart
  <2>5. \A s \in BranchSessions, i \in Nat : Said(s, i, f.text)' => f.from # s
    BY <1>3, <2>4 DEF Said
  <2>6. QED
    BY <2>1, <2>2, <2>3, <2>5, Zenon DEF Apart
<1>12. Business(bs, (es \ {e}) \cup {f}, lost)'
  BY <1>5, <1>8, <1>10, <1>11, JoinedLater
<1>13. Business(boxes, errands, doubtful)'
  BY <1>3, <1>12, Settled
<1>14. QED
  BY <1>3, <1>5, <1>13 DEF UndoSparesShown

LEMMA ServeRetryStep ==
    ASSUME BranchInv, NEW e \in errands, ServeRetry(e)
    PROVE  BranchInv'
<1> USE DEF BranchInv
<1>0. deeds \in Nat
  BY DEF StreamsTyped
<1>1. PICK bs, es, lost : bs = boxes /\ es = errands /\ lost = doubtful
  OBVIOUS
<1>2. PICK f : f = [e EXCEPT !.stage = "done"]
  OBVIOUS
<1>3. /\ e.kind = "edit" /\ e.stage = "forked" /\ RecordIn(e.child, Message(e.text))
      /\ errands' = (es \ {e}) \cup {f} /\ boxes' = bs /\ doubtful' = lost
      /\ UNCHANGED <<born, inherited, screen, received, bubbles, regretted, deeds>>
  BY <1>1, <1>2 DEF ServeRetry
<1>4. Business(bs, es, lost) /\ Errand(e) /\ Forked(e) /\ e \in es
  BY <1>1, <1>3 DEF Business, ErrandsTyped, Forks
<1>5. /\ e.text \in Nat /\ e.text <= deeds /\ e.text > 0 /\ e.child \in born /\ e.child \in BranchSessions
      /\ e.row = <<e.from, e.at>> /\ e.child # e.from
      /\ Message(e.text) \in Envelope /\ \A t \in Nat : Message(e.text) = Message(t) => t = e.text
  BY <1>3, <1>4, ErrandFields, Messages DEF Forked
<1>6. StreamsTyped' /\ Shown'
  BY <1>0, <1>3, <1>5, ShownLater
<1>7. Business(bs, es \ {e}, lost)
  <2>1. \A d \in es \ (es \ {e}) : d.stage # "done"
    BY <1>3
  <2>2. QED
    BY <1>4, <2>1, Fewer DEF Business
<1>8. /\ f.kind = "edit" /\ f.row = e.row /\ f.from = e.from /\ f.at = e.at /\ f.text = e.text
      /\ f.mounted = e.mounted /\ f.above = e.above /\ f.shown = e.shown
      /\ f.stage = "done" /\ f.child = e.child
  BY <1>2, <1>3, <1>4 DEF Errand
<1>9. Errand(f)
  <2>1. f \in [kind : {"edit", "undo"}, row : {<<e.from, e.at>>}, from : born,
               at : 1 .. Len(stream[e.from]), text : 0 .. deeds, of : {<<e.from, e.at>>},
               mounted : BOOLEAN, stage : {"asked", "forked", "done"}, child : born,
               above : {e.above}, shown : SUBSET Nat]
    BY <1>2, <1>4 DEF Errand
  <2>2. QED
    BY <1>5, <1>8, <2>1 DEF Errand
<1>10. Forked(f)
  BY <1>3, <1>4, <1>8 DEF Forked
<1>11. \A g \in es \ {e} : g.kind = "edit" => g.text # f.text
  BY <1>3, <1>4, <1>8 DEF Business, OneCall
<1>12. \A b \in bs : b.text = f.text => f.mounted /\ f.row = b.row
  <2>1. ASSUME NEW b \in bs, b.text = f.text PROVE e.mounted /\ e.row = b.row
    <3>1. e.text = b.text /\ OneCall(bs, es)
      BY <1>4, <1>8, <2>1 DEF Business
    <3>2. QED
      BY <1>3, <1>4, <3>1, Zenon DEF OneCall
  <2>2. QED
    BY <1>8, <2>1, Zenon
<1>13. \A s \in BranchSessions, i \in Nat : Said(s, i, f.text) => f.from # s
  BY <1>3, <1>4, <1>5, <1>8 DEF Business, WordsApart
<1>14. PICK es2 : es2 = (es \ {e}) \cup {f}
  OBVIOUS
<1>15. Business(bs, es2, lost)
  BY <1>7, <1>8, <1>9, <1>10, <1>11, <1>12, <1>13, <1>14, Joined
<1>16. \A d \in es2 : d.kind = "edit" /\ d.text = e.text => d = f
  BY <1>8, <1>11, <1>14
<1>17. \A b \in bs : b.text = e.text => b.row[1] = e.from
  BY <1>5, <1>8, <1>12
<1>18. ASSUME NEW b \in bs, b.text = e.text, e.text \notin lost
       PROVE  ~\E r \in BranchSessions, i \in Nat : Said(r, i, e.text)
  <2>1. SUFFICES ASSUME \E r \in BranchSessions, i \in Nat : Said(r, i, e.text) PROVE FALSE
    OBVIOUS
  <2>2. \E d \in es : d.kind = "edit" /\ d.text = e.text /\ d.stage = "done"
    BY <1>4, <1>18, <2>1 DEF Business, LandedOnce
  <2>3. QED
    BY <1>3, <1>4, <2>2 DEF Business, OneCall
<1>19. Business(bs, es2, lost)'
  <2>1. PICK s, x : s = e.child /\ x = Message(e.text)
    OBVIOUS
  <2>2. \A t \in Nat : x = Message(t) =>
               /\ t <= deeds
               /\ \A d \in es2 : d.kind = "edit" /\ d.text = t => d.from # s
               /\ \A b \in bs : b.text = t =>
                     /\ b.row[1] # s
                     /\ t \notin lost =>
                           /\ ~\E r \in BranchSessions, i \in Nat : Said(r, i, t)
                           /\ \E d \in es2 : d.kind = "edit" /\ d.text = t /\ d.stage = "done"
    <3> SUFFICES ASSUME NEW t \in Nat, t = e.text
                 PROVE  /\ t <= deeds
                        /\ \A d \in es2 : d.kind = "edit" /\ d.text = t => d.from # s
                        /\ \A b \in bs : b.text = t =>
                              /\ b.row[1] # s
                              /\ t \notin lost =>
                                    /\ ~\E r \in BranchSessions, i \in Nat : Said(r, i, t)
                                    /\ \E d \in es2 : d.kind = "edit" /\ d.text = t /\ d.stage = "done"
      BY <1>5, <2>1
    <3>1. f \in es2
      BY <1>14
    <3>2. QED
      BY <1>5, <1>8, <1>16, <1>17, <1>18, <2>1, <3>1
  <2>3. s \in BranchSessions /\ x \in Envelope /\ RecordIn(s, x)
    BY <1>3, <1>5, <2>1
  <2>4. QED
    BY <1>3, <1>15, <2>2, <2>3, Wrote
<1>20. Business(boxes, errands, doubtful)'
  BY <1>3, <1>14, <1>19, Settled
<1>21. QED
  BY <1>3, <1>6, <1>20 DEF UndoSparesShown

(* The page goes to the child.                                             *)
LEMMA EditReturnsStep ==
    ASSUME BranchInv, NEW e \in errands, EditReturns(e)
    PROVE  BranchInv'
<1> USE DEF BranchInv
<1>1. PICK bs, es : bs = {b \in boxes : ~(e.mounted /\ b.row = e.row)} /\ es = errands \ {e}
  OBVIOUS
<1>2. /\ e.kind = "edit" /\ screen' = e.child /\ RenderRows(e.child, bubbles[e.child], bs, confirming, es)
      /\ UNCHANGED <<stream, born, inherited, received, bubbles, doubtful, regretted, deeds>>
  BY <1>1, Zenon DEF EditReturns, GoToSession
<1>3. e.child \in born
  BY ErrandFields DEF Business, ErrandsTyped
<1>4. StreamsTyped' /\ Shown'
  BY <1>2, <1>3, Steady
<1>5. \A b \in bs : b \in boxes /\ b.text # e.text
  <2> SUFFICES ASSUME NEW b \in boxes, b \in bs, b.text = e.text PROVE FALSE
    BY <1>1
  <2>1. e.mounted /\ e.row = b.row
    BY <1>2, Zenon DEF Business, OneCall
  <2>2. QED
    BY <1>1, <2>1, Zenon
<1>6. Business(bs, es, doubtful)
  <2>1. BoxesTyped(bs)
    BY <1>5 DEF Business, BoxesTyped
  <2>2. \A c \in bs, d \in errands \ es : d.text # c.text
    BY <1>1, <1>5
  <2>3. \A c \in bs : \E b \in boxes : b.row = c.row /\ b.text = c.text
    BY <1>5
  <2>4. QED
    BY <1>1, <2>1, <2>2, <2>3, Fewer
<1>7. Business(boxes, errands, doubtful)'
  BY <1>2, <1>6, Drawn
<1>8. QED
  BY <1>2, <1>4, <1>7 DEF UndoSparesShown

(* A call is over, with its failure noted in the box.                      *)
LEMMA ErrandFailsStep ==
    ASSUME BranchInv, NEW e \in errands, ErrandFails(e)
    PROVE  BranchInv'
<1> USE DEF BranchInv
<1>1. PICK bs, es, lost, lost2 : bs = boxes' /\ es = errands \ {e} /\ lost = doubtful /\ lost2 = doubtful'
  OBVIOUS
<1>2. errands' = es /\ UNCHANGED <<stream, born, inherited, screen, received, bubbles, regretted, deeds>>
  BY <1>1 DEF ErrandFails
<1>3. StreamsTyped' /\ Shown'
  BY <1>2, Steady DEF Shown
<1>4. \A c \in bs : \E b \in boxes : \E x \in BOOLEAN : c = [b EXCEPT !.failed = x]
  <2> DEFINE Failing(b) == b.failed \/ (e.kind = "edit" /\ e.mounted /\ b.row = e.row)
  <2>1. bs = {[b EXCEPT !.failed = Failing(b)] : b \in boxes}
    BY <1>1, Zenon DEF ErrandFails
  <2>2. \A b \in boxes : Failing(b) \in BOOLEAN
    BY Zenon
  <2> HIDE DEF Failing
  <2>3. QED
    BY <2>1, <2>2
<1>5. \A c \in bs : \E b \in boxes : /\ b.row = c.row /\ b.text = c.text
                                     /\ c \in [row : {b.row}, text : 1 .. deeds, of : {b.row}, failed : BOOLEAN]
  BY <1>4 DEF Business, BoxesTyped
<1>6. Business(bs, es, lost2)
  <2>1. BoxesTyped(bs)
    BY <1>5 DEF BoxesTyped
  <2>2. lost \subseteq lost2 /\ (e.kind = "edit" /\ e.stage = "done" => e.text \in lost2)
    BY <1>1 DEF ErrandFails
  <2>3. \A c \in bs, d \in errands \ es :
               d.kind = "edit" /\ d.stage = "done" /\ d.text = c.text => c.text \in lost2
    BY <1>1, <2>2
  <2>4. \A c \in bs : \E b \in boxes : b.row = c.row /\ b.text = c.text
    BY <1>5
  <2>5. Business(boxes, errands, lost) /\ es \subseteq errands
    BY <1>1
  <2>6. QED
    BY <2>1, <2>2, <2>3, <2>4, <2>5, Fewer
<1>7. Business(bs, es, lost2)'
  BY <1>2, <1>6, Aged
<1>8. Business(boxes, errands, doubtful)'
  BY <1>1, <1>2, <1>7, Settled
<1>9. QED
  BY <1>2, <1>3, <1>8 DEF UndoSparesShown

(* The last turn is taken back, and none that was shown before it.         *)
LEMMA ServeUndoStep ==
    ASSUME BranchInv, NEW e \in errands, ServeUndo(e)
    PROVE  BranchInv'
<1> USE DEF BranchInv
<1>0. deeds \in Nat
  BY DEF StreamsTyped
<1>1. PICK bs, es, lost : bs = boxes /\ es = errands /\ lost = doubtful
  OBVIOUS
<1>2. PICK f : f = [e EXCEPT !.stage = "done"]
  OBVIOUS
<1>3. /\ e.kind = "undo" /\ RecordIn(e.from, Rewound(e.at - 1))
      /\ errands' = (es \ {e}) \cup {f} /\ boxes' = bs /\ doubtful' = lost
      /\ regretted' = regretted \cup
             ((LiveIn(stream[e.from], Len(stream[e.from])) \ LiveIn(stream'[e.from], Len(stream'[e.from])))
                  \cap (e.shown \ {e.at}))
      /\ UNCHANGED <<born, inherited, screen, received, bubbles, deeds>>
  BY <1>1, <1>2 DEF ServeUndo
<1>4. Business(bs, es, lost) /\ Errand(e)
  BY <1>1 DEF Business, ErrandsTyped
<1>5. /\ e.at \in Nat /\ e.at > 0 /\ e.from \in born /\ e.from \in BranchSessions /\ e.shown \subseteq Nat
      /\ Rewound(e.at - 1) \in Envelope /\ \A t : Message(t) # Rewound(e.at - 1)
      /\ \A k \in e.shown : k <= e.at
  <2>1. /\ e.at \in Nat /\ e.at > 0 /\ e.from \in born /\ e.from \in BranchSessions /\ e.shown \subseteq Nat
        /\ \A k \in e.shown : k <= e.at
    BY <1>3, <1>4, ErrandFields DEF Errand
  <2>2. e.at - 1 \in Nat
    BY <2>1
  <2>3. QED
    BY <2>1, <2>2, Messages
<1>6. StreamsTyped' /\ Shown'
  BY <1>0, <1>3, <1>5, ShownLater
<1>7. regretted' = {}
  <2>1. PICK q, p, n : q = stream[e.from] /\ p = stream'[e.from] /\ n = Len(stream[e.from])
    OBVIOUS
  <2>2. /\ n \in Nat /\ Len(p) = n + 1 /\ p[n + 1] = Rewound(e.at - 1)
        /\ \A i \in 1 .. n : p[i] = q[i]
    BY <1>3, <1>5, <2>1, Recorded
  <2>3. LiveIn(p, n) = LiveIn(q, n)
    BY <2>2, LiveSame
  <2>4. LiveIn(p, n + 1) = {k \in LiveIn(p, n) : k <= e.at - 1} /\ LiveIn(p, n) \subseteq 1 .. n
    <3>1. p[n + 1].type = "rewind" /\ p[n + 1].target = e.at - 1
      BY <2>2 DEF Rewound
    <3>2. QED
      BY <2>2, <3>1, LiveNext
  <2>5. (LiveIn(q, n) \ LiveIn(p, n + 1)) \cap (e.shown \ {e.at}) = {}
    BY <1>5, <2>2, <2>3, <2>4
  <2>6. QED
    BY <1>3, <2>1, <2>2, <2>5 DEF UndoSparesShown
<1>8. Business(bs, es \ {e}, lost)
  <2>1. \A d \in es \ (es \ {e}) : d.kind # "edit"
    BY <1>3
  <2>2. QED
    BY <1>4, <2>1, Fewer DEF Business
<1>9. Errand(f) /\ f.kind = "undo"
  <2>1. /\ f.kind = "undo" /\ f.from = e.from /\ f.at = e.at /\ f.above = e.above /\ f.shown = e.shown
    BY <1>2, <1>3, <1>4 DEF Errand
  <2>2. f \in [kind : {"edit", "undo"}, row : {<<e.from, e.at>>}, from : born,
               at : 1 .. Len(stream[e.from]), text : 0 .. deeds, of : {<<e.from, e.at>>},
               mounted : BOOLEAN, stage : {"asked", "forked", "done"}, child : born,
               above : {e.above}, shown : SUBSET Nat]
    BY <1>2, <1>4 DEF Errand
  <2>3. QED
    BY <1>5, <2>1, <2>2 DEF Errand
<1>10. PICK es2 : es2 = (es \ {e}) \cup {f}
  OBVIOUS
<1>11. Business(bs, es2, lost)
  BY <1>8, <1>9, <1>10, Joined
<1>12. Business(bs, es2, lost)'
  BY <1>3, <1>5, <1>11, Wrote
<1>13. Business(boxes, errands, doubtful)'
  BY <1>3, <1>10, <1>12, Settled
<1>14. QED
  BY <1>6, <1>7, <1>13 DEF UndoSparesShown

LEMMA UndoReturnsStep ==
    ASSUME BranchInv, NEW e \in errands, UndoReturns(e)
    PROVE  BranchInv'
<1> USE DEF BranchInv
<1>1. PICK bs, es, lost : bs = boxes /\ es = errands \ {e} /\ lost = doubtful
  OBVIOUS
<1>2. /\ e.kind = "undo" /\ errands' = es
      /\ UNCHANGED <<stream, born, inherited, screen, received, bubbles, boxes, doubtful, regretted, deeds>>
  BY <1>1 DEF UndoReturns
<1>3. StreamsTyped' /\ Shown'
  BY <1>2, Steady DEF Shown
<1>4. Business(bs, es, lost)
  <2>1. Business(bs, errands, lost) /\ es \subseteq errands
    BY <1>1
  <2>2. \A d \in errands \ es : d.kind # "edit"
    BY <1>1, <1>2
  <2>3. QED
    BY <2>1, <2>2, Fewer DEF Business
<1>5. Business(bs, es, lost)'
  BY <1>2, <1>4, Aged
<1>6. Business(boxes, errands, doubtful)'
  BY <1>1, <1>2, <1>5, Settled
<1>7. QED
  BY <1>2, <1>3, <1>6 DEF UndoSparesShown

-----------------------------------------------------------------------------
LEMMA BranchStep ==
    ASSUME BranchInv, [BranchNext]_branchVars
    PROVE  BranchInv'
<1>1. CASE UNCHANGED branchVars
  BY <1>1, ReaderStep DEF branchVars
<1>2. CASE \E s \in born : WriteElsewhere(s) \/ TurnFinishes(s) \/ LookAt(s)
  BY <1>2, TurnStep, LookAtStep
<1>3. CASE Receive
  BY <1>3, ReceiveStep
<1>4. CASE TurnStarted
  BY <1>4, ReaderStep DEF TurnStarted
<1>5. ASSUME NEW k \in bubbles[screen],
             OpenEdit(k) \/ AskUndo(k) \/ CancelUndo(k) \/ SubmitUndo(k) \/ \E b \in boxes : SubmitEdit(b, k)
      PROVE  BranchInv'
  <2>1. CASE OpenEdit(k)
    BY <2>1, OpenEditStep
  <2>2. CASE AskUndo(k) \/ CancelUndo(k)
    BY <2>2, ReaderStep DEF AskUndo, CancelUndo, Deed
  <2>3. CASE SubmitUndo(k)
    BY <2>3, SubmitUndoStep
  <2>4. CASE \E b \in boxes : SubmitEdit(b, k)
    BY <2>4, SubmitEditStep
  <2>5. QED
    BY <1>5, <2>1, <2>2, <2>3, <2>4
<1>6. CASE \E b \in boxes : CancelEdit(b)
  BY <1>6, CancelEditStep
<1>7. ASSUME NEW e \in errands,
             \/ \E c \in Branches : (\A d \in Branches \ born : c <= d) /\ ServeFork(e, c)
             \/ ServeRetry(e) \/ EditReturns(e) \/ ErrandFails(e) \/ ServeUndo(e) \/ UndoReturns(e)
      PROVE  BranchInv'
  BY <1>7, ServeForkStep, ServeRetryStep, EditReturnsStep, ErrandFailsStep, ServeUndoStep, UndoReturnsStep
<1>8. QED
  BY <1>1, <1>2, <1>3, <1>4, <1>5, <1>6, <1>7 DEF BranchNext

(* A transcript shows the turns that count and no others, whatever was      *)
(* undone; an edit's words land at most once and in a child of the message  *)
(* they were written under; an undo takes back only the turn pointed at.    *)
THEOREM BranchesStaySound == BranchSpec => []BranchesSound
<1>1. BranchInit => BranchInv
  BY BranchInitially
<1>2. BranchInv /\ [BranchNext]_branchVars => BranchInv'
  BY BranchStep
<1>3. BranchInv => BranchesSound
  <2> SUFFICES ASSUME BranchInv PROVE BranchesSound
    OBVIOUS
  <2> USE DEF BranchInv
  <2>1. TranscriptIsLive
    BY DEF Shown, StreamsTyped, TranscriptIsLive
  <2>2. EditLandsOnce
    <3> SUFFICES ASSUME NEW b \in boxes, b.text \notin doubtful
                 PROVE  /\ \A p, q \in Landed(b.text) : p = q
                        /\ Landed(b.text) # {} => \E e \in errands : e.text = b.text
      BY DEF EditLandsOnce
    <3>1. \A p \in Landed(b.text) : /\ p = <<p[1], p[2]>> /\ p[1] \in BranchSessions /\ p[2] \in Nat
                                    /\ Said(p[1], p[2], b.text)
      <4> TAKE p \in Landed(b.text)
      <4>1. /\ p \in born \X (1 .. MaxEnvelopes) /\ p[2] \in DOMAIN stream[p[1]]
            /\ stream[p[1]][p[2]] = Message(b.text)
        BY DEF Landed
      <4>2. p = <<p[1], p[2]>> /\ p[1] \in BranchSessions
        BY <4>1 DEF StreamsTyped
      <4>3. stream[p[1]] \in Seq(Envelope)
        BY <4>2 DEF StreamsTyped
      <4>4. p[2] \in Nat
        BY <4>1, <4>3
      <4>5. QED
        BY <4>1, <4>2, <4>4 DEF Said
    <3>2. QED
      BY <3>1 DEF Business, LandedOnce
  <2>3. EditIsBranch
    <3> SUFFICES ASSUME NEW e \in errands, e.kind = "edit"
                 PROVE  /\ <<e.from, e.at>> = e.of
                        /\ e.stage # "asked" => e.child # e.from /\ inherited[e.child] = e.above
                        /\ ~\E i \in DOMAIN stream[e.from] : stream[e.from][i] = Message(e.text)
      BY DEF EditIsBranch
    <3>1. Errand(e) /\ Forked(e)
      BY DEF Business, ErrandsTyped, Forks
    <3>2. e.of = <<e.from, e.at>> /\ e.from \in BranchSessions /\ e.text \in Nat
      BY <3>1, ErrandFields
    <3>3. DOMAIN stream[e.from] \subseteq Nat
      BY <3>2 DEF StreamsTyped
    <3>4. \A i \in DOMAIN stream[e.from] : stream[e.from][i] # Message(e.text)
      BY <3>2, <3>3 DEF Business, WordsApart, Said
    <3>5. QED
      BY <3>1, <3>2, <3>4 DEF Forked
  <2>4. QED
    BY <2>1, <2>2, <2>3 DEF BranchesSound
<1>4. QED
  BY <1>1, <1>2, <1>3, PTL DEF BranchSpec

-----------------------------------------------------------------------------
(* The cache of bodies *)

Entries == [hash : Hashes, id : Nat, chars : Nat]

-----------------------------------------------------------------------------
(* Sums *)

(* g lists the sums of the first entries of c. *)
Sums(c, g) ==
    /\ g \in [0 .. Len(c) -> Int]
    /\ g[0] = 0
    /\ \A k \in 1 .. Len(c) : g[k] = g[k - 1] + c[k].chars

LEMMA SumIs ==
    ASSUME NEW c \in Seq(Entries), NEW g, Sums(c, g)
    PROVE  Chars(c) = g[Len(c)]
<1> DEFINE D == 0 .. Len(c)
           Step(f) == [n \in D |-> IF n = 0 THEN 0 ELSE f[n - 1] + c[n].chars]
           f == CHOOSE h : h = Step(h)
<1>1. g = Step(g)
  BY DEF Sums
<1>2. f = Step(f)
  BY <1>1
<1> HIDE DEF f
<1>3. \A n \in D : f[n] = g[n]
  <2> DEFINE Bad == {n \in D : f[n] # g[n]}
  <2>1. SUFFICES ASSUME Bad # {} PROVE FALSE
    OBVIOUS
  <2>2. PICK n \in Bad : \A m \in Bad : n <= m
    <3>1. Bad \in SUBSET Nat
      OBVIOUS
    <3> HIDE DEF Bad
    <3>2. QED
      BY <2>1, <3>1, LeastNatural
  <2>3. f[n] = Step(f)[n]
    BY <1>2
  <2>4. CASE n = 0
    BY <2>2, <2>3, <2>4 DEF Sums
  <2>5. CASE n # 0
    <3>1. n - 1 \in D /\ n \in 1 .. Len(c) /\ ~(n <= n - 1)
      BY <2>2, <2>5
    <3>2. f[n - 1] = g[n - 1]
      BY <2>2, <3>1
    <3>3. QED
      BY <2>2, <2>3, <2>5, <3>1, <3>2 DEF Sums
  <2>6. QED
    BY <2>4, <2>5
<1>4. Chars(c) = f[Len(c)]
  BY DEF Chars, f
<1>5. QED
  BY <1>3, <1>4

LEMMA SumsExist == ASSUME NEW c \in Seq(Entries) PROVE \E g : Sums(c, g)
<1> DEFINE Upto(n, g) == /\ g \in [0 .. n -> Int] /\ g[0] = 0
                         /\ \A k \in 1 .. n : g[k] = g[k - 1] + c[k].chars
           Bad == {n \in 0 .. Len(c) : ~\E g : Upto(n, g)}
<1>1. ASSUME Bad # {} PROVE FALSE
  <2>1. PICK n \in Bad : \A m \in Bad : n <= m
    <3>1. Bad \in SUBSET Nat
      OBVIOUS
    <3> HIDE DEF Bad
    <3>2. QED
      BY <1>1, <3>1, LeastNatural
  <2>2. n # 0
    <3>1. Upto(0, [k \in 0 .. 0 |-> 0])
      OBVIOUS
    <3>2. QED
      BY <2>1, <3>1
  <2>3. n - 1 \in 0 .. Len(c) /\ ~(n <= n - 1) /\ n \in 1 .. Len(c)
    BY <2>1, <2>2
  <2>4. PICK g : Upto(n - 1, g)
    BY <2>1, <2>3
  <2>5. c[n].chars \in Int
    <3>1. c[n] \in Entries
      BY <2>3
    <3>2. QED
      BY <3>1 DEF Entries
  <2> DEFINE h == [k \in 0 .. n |-> IF k = n THEN g[n - 1] + c[n].chars ELSE g[k]]
  <2>6. Upto(n, h)
    <3>1. /\ g \in [0 .. n - 1 -> Int] /\ g[0] = 0
          /\ \A k \in 1 .. n - 1 : g[k] = g[k - 1] + c[k].chars
      BY <2>4
    <3>2. n \in Nat /\ n # 0 /\ n - 1 \in 0 .. n - 1 /\ \A k \in 0 .. n : k = n \/ k \in 0 .. n - 1
      BY <2>3
    <3>3. h \in [0 .. n -> Int] /\ h[0] = 0
      BY <2>5, <3>1, <3>2
    <3>4. ASSUME NEW k \in 1 .. n PROVE h[k] = h[k - 1] + c[k].chars
      <4>1. k - 1 \in 0 .. n /\ k - 1 # n /\ k \in 0 .. n
        BY <3>2
      <4>2. h[k - 1] = g[k - 1]
        BY <4>1
      <4>3. CASE k = n
        BY <4>2, <4>3
      <4>4. CASE k # n
        BY <3>1, <3>2, <4>1, <4>2, <4>4
      <4>5. QED
        BY <4>3, <4>4
    <3>5. QED
      BY <3>3, <3>4
  <2>7. QED
    BY <2>1, <2>6
<1>2. PICK g : Upto(Len(c), g)
  <2>1. PICK n : n = Len(c) /\ n \in 0 .. Len(c)
    OBVIOUS
  <2>2. n \notin Bad
    BY ZenonT(30), <1>1
  <2> HIDE DEF Upto
  <2>3. \E g : Upto(n, g)
    BY <2>1, <2>2
  <2>4. QED
    BY <2>1, <2>3
<1>3. QED
  BY <1>2 DEF Sums

LEMMA CharsOfNone == Chars(<<>>) = 0
<1> DEFINE g == [k \in 0 .. 0 |-> 0]
<1>1. Sums(<<>>, g)
  BY DEF Sums
<1>2. QED
  BY <1>1, SumIs

LEMMA CharsAppend ==
    ASSUME NEW c \in Seq(Entries), NEW e \in Entries
    PROVE  Chars(c) \in Int /\ Chars(Append(c, e)) = Chars(c) + e.chars
<1>1. PICK g : Sums(c, g)
  BY SumsExist
<1>2. Chars(c) = g[Len(c)] /\ Chars(c) \in Int
  BY <1>1, SumIs DEF Sums
<1> DEFINE d == Append(c, e)
           h == [k \in 0 .. Len(d) |-> IF k = Len(d) THEN g[Len(c)] + e.chars ELSE g[k]]
<1>3. d \in Seq(Entries) /\ Len(d) = Len(c) + 1 /\ d[Len(d)] = e
      /\ \A k \in 1 .. Len(c) : d[k] = c[k]
  OBVIOUS
<1>4. e.chars \in Int
  BY DEF Entries
<1> HIDE DEF d
<1>5. Sums(d, h)
  <2>1. g \in [0 .. Len(c) -> Int] /\ g[0] = 0 /\ Len(c) \in Nat
    BY <1>1 DEF Sums
  <2>2. h \in [0 .. Len(d) -> Int]
    <3> SUFFICES ASSUME NEW k \in 0 .. Len(d)
                 PROVE  (IF k = Len(d) THEN g[Len(c)] + e.chars ELSE g[k]) \in Int
      OBVIOUS
    <3>1. k # Len(d) => k \in 0 .. Len(c)
      BY <1>3, <2>1
    <3>2. QED
      BY <1>4, <2>1, <3>1
  <2>3. h[0] = 0
    BY <1>3, <2>1
  <2>4. \A k \in 1 .. Len(d) : h[k] = h[k - 1] + d[k].chars
    <3> SUFFICES ASSUME NEW k \in 1 .. Len(d)
                 PROVE  h[k] = h[k - 1] + d[k].chars
      OBVIOUS
    <3>1. k - 1 \in 0 .. Len(d) /\ k - 1 # Len(d) /\ k \in 0 .. Len(d)
      BY <1>3, <2>1
    <3>2. h[k - 1] = g[k - 1]
      BY <3>1
    <3>3. CASE k = Len(d)
      BY <1>3, <2>1, <3>1, <3>2, <3>3
    <3>4. CASE k # Len(d)
      <4>1. k \in 1 .. Len(c)
        BY <1>3, <2>1, <3>4
      <4>2. h[k] = g[k] /\ d[k] = c[k]
        BY <1>3, <3>1, <3>4, <4>1
      <4>3. g[k] = g[k - 1] + c[k].chars
        BY <1>1, <4>1 DEF Sums
      <4>4. QED
        BY <3>2, <4>2, <4>3
    <3>5. QED
      BY <3>3, <3>4
  <2>5. QED
    BY <2>2, <2>3, <2>4 DEF Sums
<1>6. Chars(d) = h[Len(d)]
  BY <1>3, <1>5, SumIs
<1>7. h[Len(d)] = Chars(c) + e.chars
  BY <1>2, <1>3
<1>8. QED
  BY <1>2, <1>6, <1>7 DEF d

(* The sums of the rest are those of the whole, less the part cut off. *)
LEMMA CharsSuffix ==
    ASSUME NEW c \in Seq(Entries), NEW n \in 0 .. Len(c)
    PROVE  /\ Chars(SubSeq(c, 1, n)) \in Int
           /\ Chars(SubSeq(c, n + 1, Len(c))) = Chars(c) - Chars(SubSeq(c, 1, n))
<1>1. PICK g : Sums(c, g)
  BY SumsExist
<1>2. Chars(c) = g[Len(c)] /\ \A k \in 0 .. Len(c) : g[k] \in Int
  BY <1>1, SumIs DEF Sums
<1>3. Chars(SubSeq(c, 1, n)) = g[n]
  <2> DEFINE d == SubSeq(c, 1, n)
             h == [k \in 0 .. Len(d) |-> g[k]]
  <2>1. d \in Seq(Entries) /\ Len(d) = n /\ \A k \in 1 .. n : d[k] = c[k]
    OBVIOUS
  <2> HIDE DEF d
  <2>2. Sums(d, h)
    <3>1. h \in [0 .. Len(d) -> Int] /\ h[0] = 0
      BY <1>1, <1>2, <2>1 DEF Sums
    <3>2. \A k \in 1 .. Len(d) : h[k] = h[k - 1] + d[k].chars
      BY <1>1, <2>1 DEF Sums
    <3>3. QED
      BY <3>1, <3>2 DEF Sums
  <2>3. Chars(d) = h[Len(d)]
    BY <2>1, <2>2, SumIs
  <2>4. QED
    BY <2>1, <2>3 DEF d
<1>4. Chars(SubSeq(c, n + 1, Len(c))) = g[Len(c)] - g[n]
  <2> DEFINE d == SubSeq(c, n + 1, Len(c))
             h == [k \in 0 .. Len(d) |-> g[n + k] - g[n]]
  <2>1. d \in Seq(Entries) /\ Len(d) = Len(c) - n /\ \A k \in 1 .. Len(d) : d[k] = c[n + k]
    OBVIOUS
  <2> HIDE DEF d
  <2>2. Sums(d, h)
    <3>1. h \in [0 .. Len(d) -> Int] /\ h[0] = 0
      <4>1. n \in Nat /\ Len(d) \in Nat /\ \A k \in 0 .. Len(d) : n + k \in 0 .. Len(c)
        BY <2>1
      <4>2. \A k \in 0 .. Len(d) : g[n + k] - g[n] \in Int
        BY <1>2, <4>1
      <4>3. 0 \in 0 .. Len(d) /\ n + 0 = n /\ g[n] \in Int
        BY <1>2, <4>1
      <4>4. QED
        BY <4>2, <4>3
    <3>2. ASSUME NEW k \in 1 .. Len(d) PROVE h[k] = h[k - 1] + d[k].chars
      <4>1. /\ n + k \in 1 .. Len(c) /\ n + (k - 1) = (n + k) - 1
            /\ n + k \in 0 .. Len(c) /\ (n + k) - 1 \in 0 .. Len(c)
        BY <2>1
      <4>2. g[n + k] = g[(n + k) - 1] + c[n + k].chars
        BY <1>1, <4>1 DEF Sums
      <4>3. h[k] = g[n + k] - g[n] /\ h[k - 1] = g[(n + k) - 1] - g[n]
        BY <2>1, <4>1
      <4>4. g[n + k] \in Int /\ g[(n + k) - 1] \in Int /\ g[n] \in Int /\ c[n + k].chars \in Int
        <5>1. \A j \in 0 .. Len(c) : g[j] \in Int
          BY <1>2
        <5>2. PICK e : e = c[n + k]
          OBVIOUS
        <5>3. e \in Entries
          BY <4>1, <5>2
        <5>4. c[n + k].chars \in Int
          BY <5>2, <5>3 DEF Entries
        <5>5. QED
          BY <4>1, <5>1, <5>4
      <4>5. QED
        BY SMTT(30), <2>1, <4>2, <4>3, <4>4
    <3>3. QED
      BY <3>1, <3>2 DEF Sums
  <2>3. Chars(d) = h[Len(d)]
    BY <2>1, <2>2, SumIs
  <2>4. QED
    BY <2>1, <2>3 DEF d
<1>5. QED
  BY <1>2, <1>3, <1>4

LEMMA RemoveAtParts ==
    ASSUME NEW c \in Seq(Entries), NEW i \in 1 .. Len(c)
    PROVE  /\ RemoveAt(c, i) \in Seq(Entries)
           /\ Len(RemoveAt(c, i)) = Len(c) - 1
           /\ \A k \in 1 .. Len(c) - 1 : RemoveAt(c, i)[k] = c[IF k < i THEN k ELSE k + 1]
<1> DEFINE a == SubSeq(c, 1, i - 1)
           b == SubSeq(c, i + 1, Len(c))
<1>1. /\ a \in Seq(Entries) /\ Len(a) = i - 1
      /\ \A k \in 1 .. i - 1 : a[k] = c[k]
  OBVIOUS
<1>2. /\ b \in Seq(Entries) /\ Len(b) = Len(c) - i
      /\ \A k \in 1 .. Len(c) - i : b[k] = c[i + k]
  OBVIOUS
<1>3. RemoveAt(c, i) = a \o b
  BY DEF RemoveAt
<1>0. Len(c) \in Nat /\ i \in Nat /\ i <= Len(c)
  OBVIOUS
<1> HIDE DEF a, b
<1>4. a \o b \in Seq(Entries) /\ Len(a \o b) = Len(c) - 1
  <2>1. a \o b \in Seq(Entries) /\ Len(a \o b) = Len(a) + Len(b)
    <3>1. a \in Seq(Entries) /\ b \in Seq(Entries)
      BY <1>1, <1>2
    <3>2. QED
      BY <3>1
  <2>2. QED
    BY <1>0, <1>1, <1>2, <2>1
<1>5. ASSUME NEW k \in 1 .. Len(c) - 1
      PROVE  (a \o b)[k] = c[IF k < i THEN k ELSE k + 1]
  <2>1. CASE k < i
    <3>1. k \in 1 .. Len(a)
      BY <1>1, <2>1
    <3>2. (a \o b)[k] = a[k]
      BY <1>1, <1>2, <3>1
    <3>3. QED
      BY <1>1, <2>1, <3>1, <3>2
  <2>2. CASE k >= i
    <3>1. k - (i - 1) \in 1 .. Len(c) - i /\ i + (k - (i - 1)) = k + 1 /\ ~(k < i)
      BY <2>2
    <3>2. (a \o b)[k] = b[k - (i - 1)]
      BY <1>1, <1>2, <2>2
    <3>3. b[k - (i - 1)] = c[k + 1]
      BY <1>2, <3>1
    <3>4. QED
      BY <3>1, <3>2, <3>3
  <2>3. k < i \/ k >= i
    BY <1>0
  <2>4. QED
    BY <2>1, <2>2, <2>3
<1>6. QED
  BY <1>3, <1>4, <1>5

LEMMA CharsRemove ==
    ASSUME NEW c \in Seq(Entries), NEW i \in 1 .. Len(c)
    PROVE  Chars(RemoveAt(c, i)) = Chars(c) - c[i].chars
<1>1. PICK g : Sums(c, g)
  BY SumsExist
<1>2. Chars(c) = g[Len(c)] /\ \A k \in 0 .. Len(c) : g[k] \in Int
  BY <1>1, SumIs DEF Sums
<1>3. \A k \in 1 .. Len(c) : c[k].chars \in Int
  <2>1. \A k \in 1 .. Len(c) : c[k] \in Entries
    OBVIOUS
  <2>2. QED
    BY <2>1 DEF Entries
<1> DEFINE d == RemoveAt(c, i)
           h == [k \in 0 .. Len(d) |-> IF k < i THEN g[k] ELSE g[k + 1] - c[i].chars]
<1>4. d \in Seq(Entries) /\ Len(d) = Len(c) - 1
      /\ \A k \in 1 .. Len(c) - 1 : d[k] = c[IF k < i THEN k ELSE k + 1]
  BY RemoveAtParts
<1> HIDE DEF d
<1>5. Sums(d, h)
  <2>1. h \in [0 .. Len(d) -> Int] /\ h[0] = 0
    BY SMTT(30), <1>1, <1>2, <1>3, <1>4 DEF Sums
  <2>2. ASSUME NEW k \in 1 .. Len(d) PROVE h[k] = h[k - 1] + d[k].chars
    <3>1. k \in 1 .. Len(c) /\ k + 1 \in 1 .. Len(c) /\ k - 1 \in 0 .. Len(d) /\ k \in 0 .. Len(d)
      BY <1>4
    <3>2. g[k] = g[k - 1] + c[k].chars /\ g[k + 1] = g[k] + c[k + 1].chars
      <4>1. (k + 1) - 1 = k
        BY <3>1
      <4>2. QED
        BY <1>1, <3>1, <4>1 DEF Sums
    <3>3. g[k] \in Int /\ g[k - 1] \in Int /\ g[k + 1] \in Int
          /\ c[k].chars \in Int /\ c[k + 1].chars \in Int /\ c[i].chars \in Int
      BY <1>2, <1>3, <3>1
    <3>4. CASE k < i
      BY <1>4, <3>1, <3>2, <3>4
    <3>5. CASE k = i
      <4>1. h[k] = g[k + 1] - c[k].chars /\ h[k - 1] = g[k - 1] /\ d[k] = c[k + 1]
        <5>1. d[k] = c[k + 1] /\ ~(k < i) /\ k - 1 < i
          BY <1>4, <3>5
        <5>2. QED
          BY <3>1, <3>5, <5>1
      <4> HIDE DEF h
      <4>2. d[k].chars = c[k + 1].chars /\ h[k] = (g[k] + c[k + 1].chars) - c[k].chars
        BY <3>2, <4>1
      <4>3. QED
        BY SMTT(30), <3>2, <3>3, <4>1, <4>2
    <3>6. CASE k > i
      <4>1. h[k] = g[k + 1] - c[i].chars /\ h[k - 1] = g[k] - c[i].chars /\ d[k] = c[k + 1]
        BY <1>4, <3>1, <3>6
      <4>2. QED
        BY SMTT(30), <3>2, <3>3, <4>1
    <3>7. QED
      BY <3>1, <3>4, <3>5, <3>6
  <2>3. QED
    BY <2>1, <2>2 DEF Sums
<1>6. Chars(d) = h[Len(d)]
  BY <1>4, <1>5, SumIs
<1>7. h[Len(d)] = g[Len(c)] - c[i].chars
  <2>1. CASE i <= Len(d)
    BY <1>4, <2>1
  <2>2. CASE i = Len(c)
    <3>1. g[Len(c)] = g[Len(c) - 1] + c[Len(c)].chars
      BY <1>1 DEF Sums
    <3>2. g[Len(c)] \in Int /\ g[Len(c) - 1] \in Int /\ c[Len(c)].chars \in Int
      BY <1>2, <1>3
    <3>3. h[Len(d)] = g[Len(c) - 1]
      BY <1>4, <2>2
    <3>4. QED
      BY <2>2, <3>1, <3>2, <3>3
  <2>3. QED
    BY <1>4, <2>1, <2>2
<1>8. QED
  BY <1>2, <1>6, <1>7 DEF d

(* An entry that was not counted yet is. *)
LEMMA CharsNoted ==
    ASSUME NEW c \in Seq(Entries), NEW d \in Seq(Entries), NEW i \in 1 .. Len(c),
           Len(d) = Len(c), c[i].chars = 0,
           \A k \in 1 .. Len(c) : k # i => d[k] = c[k]
    PROVE  Chars(d) = Chars(c) + d[i].chars
<1>1. PICK g : Sums(c, g)
  BY SumsExist
<1>2. Chars(c) = g[Len(c)] /\ \A k \in 0 .. Len(c) : g[k] \in Int
  BY <1>1, SumIs DEF Sums
<1>3. \A k \in 1 .. Len(c) : c[k].chars \in Int /\ d[k].chars \in Int
  <2>1. \A k \in 1 .. Len(c) : c[k] \in Entries /\ d[k] \in Entries
    OBVIOUS
  <2>2. QED
    BY SMTT(30), <2>1 DEF Entries
<1> DEFINE h == [k \in 0 .. Len(d) |-> IF k < i THEN g[k] ELSE g[k] + d[i].chars]
<1>4. Sums(d, h)
  <2>1. h \in [0 .. Len(d) -> Int] /\ h[0] = 0
    BY <1>1, <1>2, <1>3 DEF Sums
  <2>2. ASSUME NEW k \in 1 .. Len(d) PROVE h[k] = h[k - 1] + d[k].chars
    <3>1. g[k] = g[k - 1] + c[k].chars
      BY <1>1 DEF Sums
    <3>2. g[k] \in Int /\ g[k - 1] \in Int /\ c[k].chars \in Int /\ d[k].chars \in Int /\ d[i].chars \in Int
      BY <1>2, <1>3
    <3>3. CASE k < i
      BY <3>1, <3>3
    <3>4. CASE k = i
      <4>1. h[k] = g[k] + d[i].chars /\ h[k - 1] = g[k - 1]
        BY <3>4
      <4>2. QED
        BY <3>1, <3>2, <3>4, <4>1
    <3>5. CASE k > i
      <4>1. h[k] = g[k] + d[i].chars /\ h[k - 1] = g[k - 1] + d[i].chars /\ d[k] = c[k]
        BY <3>5
      <4>2. QED
        BY <3>1, <3>2, <4>1
    <3>6. QED
      BY <3>3, <3>4, <3>5
  <2>3. QED
    BY <2>1, <2>2 DEF Sums
<1>5. Chars(d) = h[Len(d)]
  BY <1>4, SumIs
<1>6. h[Len(d)] = g[Len(c)] + d[i].chars
  OBVIOUS
<1>7. QED
  BY <1>2, <1>5, <1>6

-----------------------------------------------------------------------------
(* The inductive invariant *)

Fetched == [hash : Hashes, state : {"pending", "resolved", "rejected"}]

(* The cache is a map: one entry of a hash at most. *)
Keyed(c) == \A i, j \in DOMAIN c : c[i].hash = c[j].hash => i = j

(* An entry is of a request for its hash that has not failed; it counts    *)
(* nothing while the request is out.                                       *)
Tracked(c, sent) ==
    \A i \in DOMAIN c :
        /\ c[i].id \in DOMAIN sent
        /\ sent[c[i].id].hash = c[i].hash
        /\ sent[c[i].id].state # "rejected"
        /\ sent[c[i].id].state = "pending" => c[i].chars = 0

Held(c, sent) == c \in Seq(Entries) /\ sent \in Seq(Fetched) /\ Keyed(c) /\ Tracked(c, sent)

HookTypeOK ==
    hook \in [hash : Hashes \cup {NoHash}, awaits : Nat,
              shows : Hashes \cup {NoHash, "nothing", "loading", "error"}]

(* The promise a chip awaits is of the hash it has. *)
Awaited == hook.awaits # 0 => /\ hook.awaits \in DOMAIN fetches
                              /\ fetches[hook.awaits].hash = hook.hash

BodyInv == Held(bodyCache, fetches) /\ CacheAccounts /\ HookTypeOK /\ Awaited /\ RightBody

LEMMA Kept ==
    ASSUME NEW c, NEW sent, Held(c, sent), NEW n \in 0 .. Len(c)
    PROVE  Held(SubSeq(c, n + 1, Len(c)), sent)
<1> DEFINE d == SubSeq(c, n + 1, Len(c))
<1>1. c \in Seq(Entries) /\ DOMAIN c = 1 .. Len(c) /\ Len(c) \in Nat
  BY DEF Held
<1>2. /\ d \in Seq(Entries) /\ Len(d) = Len(c) - n /\ DOMAIN d = 1 .. Len(d)
      /\ \A k \in 1 .. Len(d) : d[k] = c[n + k]
  <2>1. c \in Seq(Entries)
    BY <1>1
  <2>2. d \in Seq(Entries) /\ Len(d) = Len(c) - n /\ \A k \in 1 .. Len(d) : d[k] = c[n + k]
    BY <2>1
  <2>3. QED
    BY <2>2
<1> HIDE DEF d
<1>3. ASSUME NEW k \in DOMAIN d PROVE n + k \in DOMAIN c /\ d[k] = c[n + k]
  BY <1>1, <1>2
<1>4. Keyed(d)
  <2>1. SUFFICES ASSUME NEW i \in DOMAIN d, NEW j \in DOMAIN d, d[i].hash = d[j].hash PROVE i = j
    BY DEF Keyed
  <2>2. n + i = n + j
    BY <1>3, <2>1 DEF Held, Keyed
  <2>3. QED
    BY <1>2, <2>2
<1>5. Tracked(d, sent)
  BY <1>3 DEF Held, Tracked
<1>6. QED
  BY <1>2, <1>4, <1>5 DEF d, Held

LEMMA Removed ==
    ASSUME NEW c, NEW sent, Held(c, sent), NEW i \in DOMAIN c
    PROVE  /\ Held(RemoveAt(c, i), sent)
           /\ \A k \in DOMAIN RemoveAt(c, i) : \E j \in DOMAIN c : j # i /\ RemoveAt(c, i)[k] = c[j]
           /\ Len(RemoveAt(c, i)) = Len(c) - 1
<1> DEFINE d == RemoveAt(c, i)
           At(k) == IF k < i THEN k ELSE k + 1
<1>1. c \in Seq(Entries) /\ DOMAIN c = 1 .. Len(c) /\ Len(c) \in Nat
  BY DEF Held
<1>2. /\ d \in Seq(Entries) /\ Len(d) = Len(c) - 1
      /\ \A k \in 1 .. Len(c) - 1 : d[k] = c[At(k)]
  BY <1>1, RemoveAtParts
<1>3. DOMAIN d = 1 .. Len(c) - 1
  BY <1>1, <1>2
<1> HIDE DEF d
<1>4. ASSUME NEW k \in DOMAIN d PROVE At(k) \in DOMAIN c /\ At(k) # i /\ d[k] = c[At(k)]
  BY <1>1, <1>2, <1>3
<1>5. Keyed(d)
  <2>1. SUFFICES ASSUME NEW k \in DOMAIN d, NEW j \in DOMAIN d, d[k].hash = d[j].hash PROVE k = j
    BY DEF Keyed
  <2>2. At(k) = At(j)
    BY <1>4, <2>1 DEF Held, Keyed
  <2>3. QED
    BY <1>1, <1>3, <2>2
<1>6. Tracked(d, sent)
  BY <1>4 DEF Held, Tracked
<1>7. Held(d, sent)
  BY <1>2, <1>5, <1>6 DEF Held
<1>8. \A k \in DOMAIN d : \E j \in DOMAIN c : j # i /\ d[k] = c[j]
  BY <1>4
<1>9. QED
  BY <1>2, <1>7, <1>8 DEF d

LEMMA JoinedEntry ==
    ASSUME NEW c, NEW sent, Held(c, sent), NEW e \in Entries,
           \A i \in DOMAIN c : c[i].hash # e.hash,
           e.id \in DOMAIN sent, sent[e.id].hash = e.hash, sent[e.id].state # "rejected",
           sent[e.id].state = "pending" => e.chars = 0
    PROVE  Held(Append(c, e), sent)
<1> DEFINE d == Append(c, e)
<1>1. c \in Seq(Entries) /\ DOMAIN c = 1 .. Len(c) /\ Len(c) \in Nat
  BY DEF Held
<1>2. /\ d \in Seq(Entries) /\ DOMAIN d = 1 .. Len(c) + 1 /\ d[Len(c) + 1] = e
      /\ \A k \in 1 .. Len(c) : d[k] = c[k]
  BY <1>1
<1> HIDE DEF d
<1>3. ASSUME NEW k \in DOMAIN d PROVE (k \in DOMAIN c /\ d[k] = c[k]) \/ (k = Len(c) + 1 /\ d[k] = e)
  BY <1>1, <1>2
<1>4. Keyed(d)
  <2>1. SUFFICES ASSUME NEW i \in DOMAIN d, NEW j \in DOMAIN d, d[i].hash = d[j].hash PROVE i = j
    BY DEF Keyed
  <2>2. CASE i \in DOMAIN c /\ j \in DOMAIN c
    BY <1>3, <2>1, <2>2, <1>1, <1>2 DEF Held, Keyed
  <2>3. CASE i = Len(c) + 1 /\ d[i] = e
    BY <1>3, <2>1, <2>3
  <2>4. CASE j = Len(c) + 1 /\ d[j] = e
    BY <1>3, <2>1, <2>4
  <2>5. QED
    BY <1>3, <2>2, <2>3, <2>4
<1>5. Tracked(d, sent)
  BY <1>3 DEF Held, Tracked
<1>6. QED
  BY <1>2, <1>4, <1>5 DEF d, Held

(* Whatever Evict leaves is within the bounds and counted. *)
LEMMA Evicted ==
    ASSUME NEW c, NEW sent, Held(c, sent), NEW total, total = Chars(c), Evict(c, total)
    PROVE  Held(bodyCache', sent) /\ CacheAccounts'
<1> DEFINE Remains(n) == total - Chars(SubSeq(c, 1, n))
<1>1. PICK n \in 0 .. Len(c) :
          /\ (Len(c) - n <= MaxEntries /\ Remains(n) <= MaxTotalChars) \/ n = Len(c)
          /\ bodyCache' = SubSeq(c, n + 1, Len(c))
          /\ totalChars' = Remains(n)
  BY DEF Evict
<1>2. Held(bodyCache', sent)
  BY <1>1, Kept
<1>3. c \in Seq(Entries) /\ Len(c) \in Nat
  BY DEF Held
<1>4. totalChars' = Chars(bodyCache')
  BY <1>1, <1>3, CharsSuffix
<1>5. Len(bodyCache') = Len(c) - n
  BY <1>1, <1>3
<1>6. MaxEntries \in Nat /\ MaxTotalChars \in Nat
  BY BodyAssumption
<1>7. CASE n = Len(c)
  <2>1. bodyCache' = <<>> /\ Len(bodyCache') = 0
    BY <1>1, <1>3, <1>5, <1>7
  <2>2. totalChars' = 0
    BY <1>4, <2>1, CharsOfNone
  <2>3. QED
    BY <1>2, <1>4, <1>6, <2>1, <2>2 DEF CacheAccounts
<1>8. CASE n # Len(c)
  BY <1>1, <1>2, <1>4, <1>5, <1>8 DEF CacheAccounts
<1>9. QED
  BY <1>7, <1>8

-----------------------------------------------------------------------------
(* The steps *)

LEMMA BodyInitially == BodyInit => BodyInv
<1>1. SUFFICES ASSUME BodyInit PROVE BodyInv
  OBVIOUS
<1>2. bodyCache = <<>> /\ totalChars = 0 /\ fetches = <<>>
      /\ hook = [hash |-> NoHash, awaits |-> 0, shows |-> "nothing"]
  BY <1>1 DEF BodyInit
<1>3. Held(bodyCache, fetches)
  BY <1>2 DEF Held, Keyed, Tracked
<1>4. CacheAccounts
  BY <1>2, CharsOfNone, BodyAssumption DEF CacheAccounts
<1>5. HookTypeOK /\ Awaited /\ RightBody
  BY <1>2 DEF HookTypeOK, Awaited, RightBody
<1>6. QED
  BY <1>3, <1>4, <1>5 DEF BodyInv

LEMMA HookFields ==
    ASSUME HookTypeOK
    PROVE  /\ hook.hash \in Hashes \cup {NoHash} /\ hook.awaits \in Nat
           /\ hook.shows \in Hashes \cup {NoHash, "nothing", "loading", "error"}
  BY DEF HookTypeOK

(* A hit moves its entry to the end; a miss appends one and may evict.     *)
LEMMA FetchKeeps ==
    ASSUME BodyInv, NEW hash \in Hashes, NEW id \in 1 .. Len(fetches) + 1, FetchBody(hash, id)
    PROVE  /\ Held(bodyCache', fetches') /\ CacheAccounts'
           /\ id \in DOMAIN fetches' /\ fetches'[id].hash = hash
<1>1. /\ Held(bodyCache, fetches) /\ CacheAccounts
      /\ bodyCache \in Seq(Entries) /\ fetches \in Seq(Fetched)
      /\ DOMAIN bodyCache = 1 .. Len(bodyCache) /\ Len(bodyCache) \in Nat
      /\ DOMAIN fetches = 1 .. Len(fetches) /\ Len(fetches) \in Nat
  BY DEF BodyInv, Held
<1>2. CASE PlacesOf(hash) # {}
  <2>1. PICK i \in PlacesOf(hash) : /\ id = bodyCache[i].id
                                    /\ bodyCache' = Append(RemoveAt(bodyCache, i), bodyCache[i])
                                    /\ UNCHANGED <<totalChars, fetches>>
    BY <1>2 DEF FetchBody
  <2> DEFINE e == bodyCache[i]
             rest == RemoveAt(bodyCache, i)
  <2>2. i \in DOMAIN bodyCache /\ e \in Entries /\ e.hash = hash
    BY <1>1, <2>1 DEF PlacesOf
  <2>3. /\ Held(rest, fetches)
        /\ \A k \in DOMAIN rest : \E j \in DOMAIN bodyCache : j # i /\ rest[k] = bodyCache[j]
        /\ Len(rest) = Len(bodyCache) - 1
    BY <1>1, <2>2, Removed
  <2>4. \A k \in DOMAIN rest : rest[k].hash # e.hash
    BY <1>1, <2>2, <2>3 DEF Held, Keyed
  <2>5. /\ e.id \in DOMAIN fetches /\ fetches[e.id].hash = e.hash
        /\ fetches[e.id].state # "rejected"
        /\ fetches[e.id].state = "pending" => e.chars = 0
    BY <1>1, <2>2 DEF Held, Tracked
  <2>6. rest \in Seq(Entries)
    BY <2>3 DEF Held
  <2>7. Chars(bodyCache) = Chars(Append(rest, e))
    <3>1. Chars(rest) = Chars(bodyCache) - e.chars
      BY <1>1, <2>2, CharsRemove
    <3>2. Chars(Append(rest, e)) = Chars(rest) + e.chars
      BY <2>2, <2>6, CharsAppend
    <3> HIDE DEF e, rest
    <3>3. Chars(bodyCache) \in Int /\ e.chars \in Int
      <4>1. Chars(bodyCache) \in Int
        BY <1>1, <2>2, CharsAppend
      <4>2. e.chars \in Int
        BY <2>2 DEF Entries
      <4>3. QED
        BY <4>1, <4>2
    <3>4. QED
      BY <3>1, <3>2, <3>3
  <2> HIDE DEF e, rest
  <2>8. Held(Append(rest, e), fetches)
    BY <2>2, <2>3, <2>4, <2>5, JoinedEntry
  <2>9. bodyCache' = Append(rest, e) /\ fetches' = fetches /\ totalChars' = totalChars
    BY <2>1 DEF e, rest
  <2>10. Len(bodyCache') = Len(bodyCache)
    <3>1. Len(Append(rest, e)) = Len(rest) + 1
      BY <2>2, <2>6
    <3>2. QED
      BY <1>1, <2>3, <2>9, <3>1
  <2>11. CacheAccounts'
    BY <1>1, <2>7, <2>9, <2>10 DEF CacheAccounts
  <2>12. id = e.id
    BY <2>1 DEF e
  <2>13. QED
    BY <2>2, <2>5, <2>8, <2>9, <2>11, <2>12
<1>3. CASE PlacesOf(hash) = {}
  <2> DEFINE e == [hash |-> hash, id |-> id, chars |-> 0]
             f == [hash |-> hash, state |-> "pending"]
  <2>1. id = Len(fetches) + 1 /\ fetches' = Append(fetches, f)
        /\ Evict(Append(bodyCache, e), totalChars)
    BY <1>3 DEF FetchBody
  <2>2. e \in Entries /\ e.hash = hash /\ e.id = id /\ e.chars = 0 /\ f \in Fetched
    BY <1>1, <2>1 DEF Entries, Fetched
  <2>3. f.hash = hash /\ f.state = "pending"
    OBVIOUS
  <2> HIDE DEF e, f
  <2>4. /\ fetches' \in Seq(Fetched) /\ DOMAIN fetches' = 1 .. Len(fetches) + 1
        /\ fetches'[id] = f /\ \A k \in DOMAIN fetches : fetches'[k] = fetches[k]
    BY <1>1, <2>1, <2>2
  <2>5. DOMAIN fetches \subseteq DOMAIN fetches' /\ id \in DOMAIN fetches'
    BY <1>1, <2>1, <2>4
  <2>6. Held(bodyCache, fetches')
    BY <1>1, <2>4, <2>5 DEF Held, Tracked
  <2>7. \A i \in DOMAIN bodyCache : bodyCache[i].hash # e.hash
    BY <1>3, <2>2 DEF PlacesOf
  <2>8. Held(Append(bodyCache, e), fetches')
    BY <2>2, <2>3, <2>4, <2>5, <2>6, <2>7, JoinedEntry
  <2>9. totalChars = Chars(Append(bodyCache, e))
    BY <1>1, <2>2, CharsAppend DEF CacheAccounts
  <2>10. Held(bodyCache', fetches') /\ CacheAccounts'
    BY <2>1, <2>8, <2>9, Evicted
  <2>11. QED
    BY <2>3, <2>4, <2>5, <2>10
<1>4. QED
  BY <1>2, <1>3

LEMMA ChipKeeps ==
    ASSUME BodyInv, NEW hash \in Hashes \cup {NoHash}, UseContentBody(hash)
    PROVE  BodyInv'
<1>1. CASE hash = NoHash
  <2>1. /\ hook' = [hash |-> NoHash, awaits |-> 0, shows |-> "nothing"]
        /\ UNCHANGED <<bodyCache, totalChars, fetches>>
    BY <1>1 DEF UseContentBody
  <2>2. HookTypeOK' /\ Awaited' /\ RightBody'
    BY <2>1 DEF HookTypeOK, Awaited, RightBody
  <2>3. Held(bodyCache, fetches)' /\ CacheAccounts'
    BY <2>1 DEF BodyInv, CacheAccounts
  <2>4. QED
    BY <2>2, <2>3 DEF BodyInv
<1>2. CASE hash # NoHash
  <2>1. PICK id \in 1 .. Len(fetches) + 1 :
            FetchBody(hash, id) /\ hook' = [hash |-> hash, awaits |-> id, shows |-> "loading"]
    BY <1>2 DEF UseContentBody
  <2>2. /\ Held(bodyCache', fetches') /\ CacheAccounts'
        /\ id \in DOMAIN fetches' /\ fetches'[id].hash = hash
    BY <1>2, <2>1, FetchKeeps
  <2>3. id \in Nat
    BY DEF BodyInv, Held
  <2>4. HookTypeOK' /\ Awaited' /\ RightBody'
    BY <1>2, <2>1, <2>2, <2>3 DEF HookTypeOK, Awaited, RightBody
  <2>5. QED
    BY <2>2, <2>4 DEF BodyInv
<1>3. QED
  BY <1>1, <1>2

(* An answer, of either kind, ends one request, and is heard by the chip   *)
(* that awaits it.                                                         *)
LEMMA AnswerHeard ==
    ASSUME BodyInv, NEW id \in DOMAIN fetches, NEW state \in {"resolved", "rejected"},
           NEW display \in {fetches[id].hash, "error"},
           fetches' = [fetches EXCEPT ![id].state = state],
           hook' = IF Hears(id) THEN [hook EXCEPT !.awaits = 0, !.shows = display] ELSE hook
    PROVE  /\ HookTypeOK' /\ Awaited' /\ RightBody'
           /\ fetches' \in Seq(Fetched) /\ DOMAIN fetches' = DOMAIN fetches
           /\ \A k \in DOMAIN fetches : fetches'[k].hash = fetches[k].hash
           /\ \A k \in DOMAIN fetches \ {id} : fetches'[k] = fetches[k]
           /\ fetches'[id].state = state
<1>1. fetches \in Seq(Fetched) /\ HookTypeOK /\ Awaited /\ RightBody
  BY DEF BodyInv, Held
<1>2. fetches[id] \in Fetched
  BY <1>1
<1>3. /\ [fetches[id] EXCEPT !.state = state] \in Fetched
      /\ [fetches[id] EXCEPT !.state = state].hash = fetches[id].hash
      /\ [fetches[id] EXCEPT !.state = state].state = state
  BY <1>2 DEF Fetched
<1>4. /\ fetches' \in Seq(Fetched) /\ DOMAIN fetches' = DOMAIN fetches
      /\ fetches'[id] = [fetches[id] EXCEPT !.state = state]
      /\ \A k \in DOMAIN fetches \ {id} : fetches'[k] = fetches[k]
  BY <1>1, <1>3
<1>5. \A k \in DOMAIN fetches : fetches'[k].hash = fetches[k].hash
  BY <1>3, <1>4
<1>6. HookTypeOK' /\ Awaited' /\ RightBody'
  <2>1. CASE Hears(id)
    <3>1. id # 0 /\ hook.awaits = id
      BY <1>1, <2>1 DEF Hears
    <3>2. fetches[id].hash = hook.hash
      BY <1>1, <3>1 DEF Awaited
    <3>3. hook.hash \in Hashes \cup {NoHash} /\ fetches[id].hash \in Hashes
      BY <1>1, <1>2, HookFields DEF Fetched
    <3>4. hook' = [hash |-> hook.hash, awaits |-> 0, shows |-> display]
      BY <1>1, <2>1 DEF HookTypeOK
    <3>5. display \in {hook.hash, "error"} /\ display \in Hashes \cup {"error"}
      BY <3>2, <3>3
    <3>6. HookTypeOK'
      <4>1. [hash |-> hook.hash, awaits |-> 0, shows |-> display]
              \in [hash : Hashes \cup {NoHash}, awaits : Nat,
                   shows : Hashes \cup {NoHash, "nothing", "loading", "error"}]
        BY <3>3, <3>5
      <4>2. QED
        BY <3>4, <4>1 DEF HookTypeOK
    <3>7. Awaited' /\ RightBody'
      <4>1. hook'.awaits = 0 /\ hook'.hash = hook.hash /\ hook'.shows = display
        BY <3>4
      <4>2. QED
        BY <3>5, <4>1 DEF Awaited, RightBody
    <3>8. QED
      BY <3>6, <3>7
  <2>2. CASE ~Hears(id)
    BY <1>1, <1>4, <1>5, <2>2 DEF HookTypeOK, Awaited, RightBody
  <2>3. QED
    BY <2>1, <2>2
<1>7. QED
  BY <1>3, <1>4, <1>5, <1>6

LEMMA ResolveKeeps == ASSUME BodyInv, NEW id \in DOMAIN fetches, Resolve(id) PROVE BodyInv'
<1>1. /\ Held(bodyCache, fetches) /\ CacheAccounts
      /\ bodyCache \in Seq(Entries) /\ fetches \in Seq(Fetched)
      /\ DOMAIN bodyCache = 1 .. Len(bodyCache) /\ Len(bodyCache) \in Nat
  BY DEF BodyInv, Held
<1>2. fetches[id].state = "pending" /\ fetches' = [fetches EXCEPT ![id].state = "resolved"]
  BY DEF Resolve
<1>3. /\ HookTypeOK' /\ Awaited' /\ RightBody'
      /\ fetches' \in Seq(Fetched) /\ DOMAIN fetches' = DOMAIN fetches
      /\ \A k \in DOMAIN fetches : fetches'[k].hash = fetches[k].hash
      /\ \A k \in DOMAIN fetches \ {id} : fetches'[k] = fetches[k]
      /\ fetches'[id].state = "resolved"
  BY <1>2, AnswerHeard DEF Resolve
<1>4. CASE ~Counted(id)
  <2>1. UNCHANGED <<bodyCache, totalChars>>
    BY <1>4 DEF Resolve
  <2>2. Tracked(bodyCache, fetches')
    BY <1>1, <1>3, <1>4 DEF Held, Tracked, Counted
  <2>3. QED
    BY <1>1, <1>3, <2>1, <2>2 DEF BodyInv, Held, CacheAccounts
<1>5. CASE Counted(id)
  <2>1. PICK i \in DOMAIN bodyCache : bodyCache[i].id = id
    BY <1>5 DEF Counted
  <2>2. \A k \in DOMAIN bodyCache : bodyCache[k].id = id => k = i
    BY <1>1, <2>1 DEF Held, Tracked, Keyed
  <2>3. bodyCache[i].hash = fetches[id].hash /\ bodyCache[i].chars = 0
    BY <1>1, <1>2, <2>1 DEF Held, Tracked
  <2> DEFINE length == CharsOf[fetches[id].hash]
             d == [k \in DOMAIN bodyCache |->
                     IF bodyCache[k].id = id THEN [bodyCache[k] EXCEPT !.chars = length]
                     ELSE bodyCache[k]]
  <2>4. Evict(d, totalChars + length)
    BY <1>5 DEF Resolve
  <2>5. length \in Nat
    <3>1. fetches[id] \in Fetched
      BY <1>1
    <3>2. QED
      BY <3>1, BodyAssumption DEF Fetched
  <2> HIDE DEF length
  <2>6. \A k \in DOMAIN bodyCache : bodyCache[k] \in Entries
    BY <1>1
  <2>7. /\ [bodyCache[i] EXCEPT !.chars = length] \in Entries
        /\ [bodyCache[i] EXCEPT !.chars = length].chars = length
        /\ [bodyCache[i] EXCEPT !.chars = length].hash = bodyCache[i].hash
        /\ [bodyCache[i] EXCEPT !.chars = length].id = id
    BY <2>1, <2>5, <2>6 DEF Entries
  <2>8. /\ DOMAIN d = DOMAIN bodyCache
        /\ d[i] = [bodyCache[i] EXCEPT !.chars = length]
        /\ \A k \in DOMAIN bodyCache : k # i => d[k] = bodyCache[k]
    BY <2>1, <2>2
  <2>9. d \in [1 .. Len(bodyCache) -> Entries]
    BY <1>1, <2>1, <2>2, <2>6, <2>7
  <2> HIDE DEF d
  <2>10. d \in Seq(Entries) /\ Len(d) = Len(bodyCache)
    BY <1>1, <2>9
  <2>11. d[i].chars = length /\ d[i].hash = bodyCache[i].hash /\ d[i].id = id
    BY <2>7, <2>8
  <2>12. Keyed(d)
    <3>1. \A k \in DOMAIN d : d[k].hash = bodyCache[k].hash
      BY <2>8, <2>11
    <3>2. QED
      BY <1>1, <2>8, <3>1 DEF Held, Keyed
  <2>13. Tracked(d, fetches')
    <3>1. SUFFICES ASSUME NEW k \in DOMAIN d
                   PROVE  /\ d[k].id \in DOMAIN fetches' /\ fetches'[d[k].id].hash = d[k].hash
                          /\ fetches'[d[k].id].state # "rejected"
                          /\ fetches'[d[k].id].state = "pending" => d[k].chars = 0
      BY DEF Tracked
    <3>2. CASE k = i
      BY <1>3, <2>3, <2>11, <3>2
    <3>3. CASE k # i
      <4>1. d[k] = bodyCache[k] /\ d[k].id # id
        BY <2>2, <2>8, <3>3
      <4>2. QED
        BY <1>1, <1>3, <2>8, <4>1 DEF Held, Tracked
    <3>4. QED
      BY <3>2, <3>3
  <2>14. Held(d, fetches')
    BY <1>3, <2>10, <2>12, <2>13 DEF Held
  <2>15. Chars(d) = Chars(bodyCache) + length
    <3>1. i \in 1 .. Len(bodyCache) /\ \A k \in 1 .. Len(bodyCache) : k # i => d[k] = bodyCache[k]
      BY <1>1, <2>8
    <3>2. Chars(d) = Chars(bodyCache) + d[i].chars
      BY <1>1, <2>3, <2>10, <3>1, CharsNoted
    <3>3. QED
      BY <2>11, <3>2
  <2>16. totalChars + length = Chars(d)
    BY <1>1, <2>15 DEF CacheAccounts
  <2>17. Held(bodyCache', fetches') /\ CacheAccounts'
    BY <2>4, <2>14, <2>16, Evicted
  <2>18. QED
    BY <1>3, <2>17 DEF BodyInv
<1>6. QED
  BY <1>4, <1>5

LEMMA RejectKeeps == ASSUME BodyInv, NEW id \in DOMAIN fetches, Reject(id) PROVE BodyInv'
<1> DEFINE hash == fetches[id].hash
<1>1. /\ Held(bodyCache, fetches) /\ CacheAccounts
      /\ bodyCache \in Seq(Entries) /\ fetches \in Seq(Fetched)
      /\ DOMAIN bodyCache = 1 .. Len(bodyCache) /\ Len(bodyCache) \in Nat
  BY DEF BodyInv, Held
<1>2. fetches' = [fetches EXCEPT ![id].state = "rejected"] /\ Drop(hash)
  BY DEF Reject
<1>3. /\ HookTypeOK' /\ Awaited' /\ RightBody'
      /\ fetches' \in Seq(Fetched) /\ DOMAIN fetches' = DOMAIN fetches
      /\ \A k \in DOMAIN fetches : fetches'[k].hash = fetches[k].hash
      /\ \A k \in DOMAIN fetches \ {id} : fetches'[k] = fetches[k]
  BY <1>2, AnswerHeard DEF Reject
<1> HIDE DEF hash
<1>4. CASE PlacesOf(hash) = {}
  <2>1. UNCHANGED <<bodyCache, totalChars>>
    BY <1>2, <1>4 DEF Drop
  <2>2. \A k \in DOMAIN bodyCache : bodyCache[k].id # id
    BY <1>1, <1>4 DEF Held, Tracked, PlacesOf, hash
  <2>3. Tracked(bodyCache, fetches')
    BY <1>1, <1>3, <2>2 DEF Held, Tracked
  <2>4. QED
    BY <1>1, <1>3, <2>1, <2>3 DEF BodyInv, Held, CacheAccounts
<1>5. CASE PlacesOf(hash) # {}
  <2>1. PICK i \in PlacesOf(hash) : /\ bodyCache' = RemoveAt(bodyCache, i)
                                    /\ totalChars' = totalChars - bodyCache[i].chars
    BY <1>2, <1>5 DEF Drop
  <2>2. i \in DOMAIN bodyCache /\ bodyCache[i].hash = hash
    BY <2>1 DEF PlacesOf
  <2>3. /\ Held(bodyCache', fetches)
        /\ \A k \in DOMAIN bodyCache' : \E j \in DOMAIN bodyCache : j # i /\ bodyCache'[k] = bodyCache[j]
        /\ Len(bodyCache') = Len(bodyCache) - 1
    <3> DEFINE d == RemoveAt(bodyCache, i)
    <3>1. /\ Held(d, fetches)
          /\ \A k \in DOMAIN d : \E j \in DOMAIN bodyCache : j # i /\ d[k] = bodyCache[j]
          /\ Len(d) = Len(bodyCache) - 1
      BY <1>1, <2>2, Removed
    <3>2. bodyCache' = d
      BY <2>1
    <3> HIDE DEF d
    <3>3. QED
      BY <3>1, <3>2
  <2>4. \A k \in DOMAIN bodyCache' : bodyCache'[k].id # id
    BY <1>1, <2>2, <2>3 DEF Held, Tracked, Keyed, hash
  <2>5. Tracked(bodyCache', fetches')
    BY <1>3, <2>3, <2>4 DEF Held, Tracked
  <2>6. Held(bodyCache', fetches')
    BY <1>3, <2>3, <2>5 DEF Held
  <2>7. totalChars' = Chars(bodyCache')
    BY <1>1, <2>1, <2>2, CharsRemove DEF CacheAccounts
  <2>8. totalChars' <= MaxTotalChars
    <3>1. bodyCache[i] \in Entries
      BY <1>1, <2>2
    <3>2. bodyCache[i].chars \in Nat
      BY <3>1 DEF Entries
    <3>3. totalChars \in Int
      BY <1>1, <3>1, CharsAppend DEF CacheAccounts
    <3>4. QED
      BY <1>1, <2>1, <3>2, <3>3, BodyAssumption DEF CacheAccounts
  <2>9. Len(bodyCache') <= MaxEntries
    BY <1>1, <2>3, BodyAssumption DEF CacheAccounts
  <2>10. QED
    BY <1>3, <2>6, <2>7, <2>8, <2>9 DEF BodyInv, CacheAccounts
<1>6. QED
  BY <1>4, <1>5

LEMMA SettledKeeps == ASSUME BodyInv, HearSettled PROVE BodyInv'
<1>1. hook.awaits # 0 /\ UNCHANGED <<bodyCache, totalChars, fetches>>
  BY DEF HearSettled
<1> DEFINE display == IF fetches[hook.awaits].state = "resolved" THEN hook.hash ELSE "error"
<1>2. hook' = [hash |-> hook.hash, awaits |-> 0, shows |-> display]
  BY DEF HearSettled, BodyInv, HookTypeOK
<1>3. display \in {hook.hash, "error"} /\ hook.hash \in Hashes \cup {NoHash}
  BY HookFields DEF BodyInv
<1> HIDE DEF display
<1>4. HookTypeOK' /\ Awaited' /\ RightBody'
  BY <1>2, <1>3 DEF HookTypeOK, Awaited, RightBody
<1>5. Held(bodyCache, fetches)' /\ CacheAccounts'
  BY <1>1 DEF BodyInv, CacheAccounts
<1>6. QED
  BY <1>4, <1>5 DEF BodyInv

LEMMA BodyStep == BodyInv /\ [BodyNext]_bodyVars => BodyInv'
<1>1. SUFFICES ASSUME BodyInv, [BodyNext]_bodyVars PROVE BodyInv'
  OBVIOUS
<1>2. CASE UNCHANGED bodyVars
  BY <1>1, <1>2 DEF bodyVars, BodyInv, CacheAccounts, HookTypeOK, Awaited, RightBody
<1>3. ASSUME NEW hash \in Hashes \cup {NoHash}, UseContentBody(hash) PROVE BodyInv'
  BY <1>1, <1>3, ChipKeeps
<1>4. ASSUME NEW id \in DOMAIN fetches, Resolve(id) PROVE BodyInv'
  BY <1>1, <1>4, ResolveKeeps
<1>5. ASSUME NEW id \in DOMAIN fetches, Reject(id) PROVE BodyInv'
  BY <1>1, <1>5, RejectKeeps
<1>6. CASE HearSettled
  BY <1>1, <1>6, SettledKeeps
<1>7. QED
  BY <1>1, <1>2, <1>3, <1>4, <1>5, <1>6 DEF BodyNext

(* The trace page's cache of bodies is sound, for every number and length  *)
(* of bodies and any bounds (use-content-body.ts: evict, drop, fetchBody,  *)
(* useContentBody): it holds no more entries and characters than it may,   *)
(* counts exactly what it holds although answers come after evictions and  *)
(* replacements, serves no failure again, and a chip shows its own body.   *)
THEOREM CacheIsSound == BodySpec => []BodiesSound
<1>1. BodyInit => BodyInv
  BY BodyInitially
<1>2. BodyInv /\ [BodyNext]_bodyVars => BodyInv'
  BY BodyStep
<1>3. BodyInv => BodiesSound
  BY DEF BodyInv, BodiesSound, FailuresRetried, Held, Tracked
<1>4. QED
  BY <1>1, <1>2, <1>3, PTL DEF BodySpec

=============================================================================
