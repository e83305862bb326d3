---------------------------- MODULE QuestionForms ----------------------------
(***************************************************************************)
(* The question panel (session/question): a queue of requests, one form    *)
(* for the oldest, a walk through its questions, and an answer posted for  *)
(* all of them.  A picked option advances by itself after a beat, on a     *)
(* timer that remembers the question it was armed for.  What is picked or  *)
(* typed is remembered as <<request, question, label>>: where the reader   *)
(* was when it was chosen.                                                 *)
(***************************************************************************)
EXTENDS Integers, Sequences, FiniteSets, SequencesExt

CONSTANTS Questions,        \* Questions[id][i]: question i is multi-select
          Labels,           \* usable options of a question
          NoRequest,
          MaxPicks          \* bound: choices of the reader

ASSUME QuestionAssumption ==
    /\ NoRequest \notin DOMAIN Questions
    /\ \A id \in DOMAIN Questions : Len(Questions[id]) > 0 /\ Questions[id] \in Seq(BOOLEAN)

VARIABLES askedOf,          \* question items of the conversation, in order
          waiting,          \* requests the engine waits for
          closedItems,      \* items answered or withdrawn in the transcript
          submitted,        \* requests this panel knows to be accepted
          form,             \* QuestionForm of the head: WalkState and timer
          posts,            \* answers in flight
          picks

questionVars == <<askedOf, waiting, closedItems, submitted, form, posts, picks>>

(* questionQueue: where the open items are; the form is for the oldest.    *)
QueueOf(items, shut, sent) == {i \in DOMAIN items : items[i] \notin shut \cup sent}
HeadOf(items, shut, sent) ==
    LET queue == QueueOf(items, shut, sent)
    IN  IF queue = {} THEN NoRequest ELSE items[Min(queue)]

InitialWalk(id) == [id |-> id, index |-> 1, answers |-> << >>, selection |-> {},
                    freeform |-> {}, timer |-> 0]
(* The form is keyed by its request: another head is another form, and the *)
(* timer of the old one is cleared as it unmounts.                         *)
FormFor(id) == IF id = form.id THEN form ELSE InitialWalk(id)

Shows == form.id # NoRequest
Total == Len(Questions[form.id])
(* questions[walk.index] ?? the last one.                                  *)
Showing == IF form.index <= Total THEN form.index ELSE Total
IsLastQuestion == form.index >= Total
CurrentAnswer == form.selection \cup form.freeform
AutoAdvances == ~IsLastQuestion /\ ~Questions[form.id][Showing]
Busy == \E p \in posts : p.id = form.id

AnswerAt(answers, i, value) == [k \in DOMAIN answers \cup {i} |-> IF k = i THEN value ELSE answers[k]]
(* questionWalk 'commit', for the question the dispatcher captured.        *)
CommitWalk(question) ==
    IF CurrentAnswer = {} THEN form
    ELSE [form EXCEPT !.index = @ + 1, !.selection = {}, !.freeform = {},
                      !.answers = AnswerAt(@, question, CurrentAnswer)]

---------------------------------------------------------------------------
QuestionInit ==
    /\ askedOf = <<>> /\ waiting = {} /\ closedItems = {} /\ submitted = {}
    /\ form = InitialWalk(NoRequest) /\ posts = {} /\ picks = 0

(* UserQuestionRequested lands in the transcript.                          *)
Ask == \E id \in DOMAIN Questions :
    /\ id \notin ToSet(askedOf)
    /\ askedOf' = Append(askedOf, id) /\ waiting' = waiting \cup {id}
    /\ form' = FormFor(HeadOf(askedOf', closedItems, submitted))
    /\ UNCHANGED <<closedItems, submitted, posts, picks>>

PickOption == \E label \in Labels :
    /\ Shows /\ ~Busy /\ picks < MaxPicks /\ picks' = picks + 1
    /\ LET tag == <<form.id, Showing, label>>
           multi == Questions[form.id][Showing]
           same == form.selection = {tag}
           chosen == CASE multi /\ tag \in form.selection -> form.selection \ {tag}
                       [] multi -> form.selection \cup {tag}
                       [] same -> {}
                       [] OTHER -> {tag}
       IN  form' = [form EXCEPT !.selection = chosen,
                        !.timer = IF AutoAdvances /\ form.freeform = {} /\ ~same
                                  THEN Showing ELSE @]
    /\ UNCHANGED <<askedOf, waiting, closedItems, submitted, posts>>

TypeNote == /\ Shows /\ ~Busy /\ picks < MaxPicks /\ picks' = picks + 1
            /\ form.freeform = {}
            /\ form' = [form EXCEPT !.freeform = {<<form.id, Showing, "note">>}]
            /\ UNCHANGED <<askedOf, waiting, closedItems, submitted, posts>>

(* The button or Enter: the next question, or the whole answer.            *)
CommitAnswer ==
    /\ Shows /\ ~Busy /\ CurrentAnswer # {}
    /\ IF ~IsLastQuestion
       THEN form' = CommitWalk(Showing) /\ UNCHANGED posts
       ELSE /\ posts' = posts \cup {[id |-> form.id, handled |-> "no",
                                     answers |-> AnswerAt(form.answers, Showing, CurrentAnswer)]}
            /\ UNCHANGED form
    /\ UNCHANGED <<askedOf, waiting, closedItems, submitted, picks>>

(* The beat after a pick ends.                                             *)
AdvanceFires == /\ Shows /\ form.timer # 0
                /\ form' = [CommitWalk(form.timer) EXCEPT !.timer = 0]
                /\ UNCHANGED <<askedOf, waiting, closedItems, submitted, posts, picks>>

(* POST /answer: accepted while the engine waits for it, else a 409; or    *)
(* the call fails before it gets there.                                    *)
HandleAnswer == \E p \in posts :
    /\ p.handled = "no"
    /\ \E got \in BOOLEAN :
         LET ok == got /\ p.id \in waiting
         IN  /\ waiting' = IF ok THEN waiting \ {p.id} ELSE waiting
             /\ posts' = (posts \ {p}) \cup {[p EXCEPT !.handled = IF ok THEN "ok" ELSE "refused"]}
    /\ UNCHANGED <<askedOf, closedItems, submitted, form, picks>>

NotedAlways(p) == submitted \cup {p.id}
(* onSuccess -> onAnswered, unless the form is gone by then.               *)
Noted(p) == IF p.handled = "ok" /\ form.id = p.id THEN submitted \cup {p.id} ELSE submitted

(* The response arrives, or is lost and reads as a failure.                *)
AnswerReturns == \E p \in posts, lost \in BOOLEAN :
    /\ p.handled # "no" /\ posts' = posts \ {p}
    /\ submitted' = Noted(IF lost THEN [p EXCEPT !.handled = "refused"] ELSE p)
    /\ form' = FormFor(HeadOf(askedOf, closedItems, submitted'))
    /\ UNCHANGED <<askedOf, waiting, closedItems, picks>>

(* Stop while a question waits: the engine withdraws it.                   *)
WithdrawQuestion == \E id \in waiting :
    /\ waiting' = waiting \ {id}
    /\ UNCHANGED <<askedOf, closedItems, submitted, form, posts, picks>>

(* question_answered or question_withdrawn reaches the fold.               *)
ItemCloses == \E id \in ToSet(askedOf) \ (waiting \cup closedItems) :
    /\ closedItems' = closedItems \cup {id}
    /\ form' = FormFor(HeadOf(askedOf, closedItems', submitted))
    /\ UNCHANGED <<askedOf, waiting, submitted, posts, picks>>

QuestionNext == \/ Ask \/ PickOption \/ TypeNote \/ CommitAnswer \/ AdvanceFires
                \/ HandleAnswer \/ AnswerReturns \/ WithdrawQuestion \/ ItemCloses

QuestionSpec == QuestionInit /\ [][QuestionNext]_questionVars

---------------------------------------------------------------------------
(* A request the engine is parked on can always be reached: it is in the   *)
(* queue whatever was posted, refused, lost or withdrawn meanwhile.        *)
QuestionReachable ==
    \A id \in waiting : \E i \in QueueOf(askedOf, closedItems, submitted) : askedOf[i] = id

(* What is posted for a request was chosen while that request was shown:   *)
(* neither the walk nor the timer of the last form leaks into the next.    *)
AnswersOfOneRequest ==
    \A p \in posts : \A i \in DOMAIN p.answers : \A tag \in p.answers[i] : tag[1] = p.id

(* An answer reaches the question it was given to: a waiting request can   *)
(* always be reached, and nothing chosen for another is posted for it.     *)
AnswersReach == QuestionReachable /\ AnswersOfOneRequest
=============================================================================
