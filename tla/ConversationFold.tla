-------------------------- MODULE ConversationFold --------------------------
(***************************************************************************)
(* The client's conversation: envelopes of one session's stream and of its *)
(* subtasks are translated to frames (translator.py), replayed or pushed   *)
(* to the browser (hub.py), and folded into the transcript                 *)
(* (app/fold/conversation.ts).  The composer's optimistic send, and the    *)
(* request handler that answers it, run beside the stream.                 *)
(*                                                                         *)
(* SessionStream models how frames travel and get lost; here a connection  *)
(* delivers in order until it breaks.  Frames whose only effect is one     *)
(* appended item are one kind, the streaming preview and the title are     *)
(* left out, and the stream has one task tag, so the cursor map of the     *)
(* fold has one entry.                                                     *)
(***************************************************************************)
EXTENDS Integers, Sequences, FiniteSets, SequencesExt

CONSTANTS
    Texts,          \* user messages; equal texts are what the echo matches on
    Calls,          \* tool call ids
    Subtasks,       \* subtask ids
    Questions,      \* question ids
    Inherited,      \* frames of a fork's inherited prefix
    MaxLog,         \* bound on the session's stream
    MaxSublog,      \* bound on a subtask's stream
    MaxPipe,        \* bound on frames in flight when the engine commits
    MaxPosts,       \* bound on sends from this browser
    MaxDrops        \* bound on broken connections

None == "none"

ASSUME Bounds ==
    /\ {Inherited, MaxLog, MaxSublog, MaxPipe, MaxPosts, MaxDrops} \subseteq Nat
    /\ None \notin Texts \cup Calls \cup Subtasks \cup Questions

VARIABLES
    log,        \* the session's own stream; the envelope with seq s is log[s + 1]
    sublog,     \* each subtask's stream
    turn,       \* "idle", "running", "waiting" on a question, or "over"
    injected,   \* steering messages the engine has not drained, in order
    conv,       \* ConversationState
    online,     \* a stream is attached
    pipe,       \* frames on their way to the browser
    post,       \* the composer's request and the handler's place in it
    refused,    \* some send was answered with an error after the status check
    doubled,    \* ghost: texts sent while a bubble of the same words was pending
    posts, drops

engineVars == <<log, sublog, turn, injected>>
vars == <<engineVars, conv, online, pipe, post, refused, doubled, posts, drops>>

-----------------------------------------------------------------------------
(* Envelopes and frames *)

NoSeq == -1

Env(t, x) == [type |-> t, id |-> x, at |-> 0]
TaskRewound(s) == [type |-> "TaskRewound", id |-> None, at |-> s]
Frame(s, t, x, sub) == [seq |-> s, type |-> t, id |-> x, sub |-> sub, at |-> 0]

Newest == Len(log) - 1

(* The envelope types that become one frame of their own. *)
FrameType == [
    UserMessage           |-> "user_message",
    AssistantMessage      |-> "append",
    ToolCallStarted       |-> "tool_call",
    ToolResultRecorded    |-> "tool_result",
    TaskStatePatched      |-> "todo_update",
    UserQuestionRequested |-> "question",
    UserQuestionAnswered  |-> "question_answered",
    UserQuestionWithdrawn |-> "question_withdrawn",
    SubtaskSpawned        |-> "subtask_started",
    SubtaskCompleted      |-> "subtask_finished",
    TaskWoken             |-> "turn_started"]

(* Mutant of FromSuspend: a question's suspension ends the turn too. *)
FromSuspendAnyWake(s, wake) ==
    IF wake = "barrier" THEN <<>> ELSE <<Frame(s, "turn_finished", wake, None)>>

(* A suspension ends the turn unless it waits for subtasks or an answer. *)
FromSuspend(s, wake) ==
    IF wake \in {"barrier", "question"} THEN <<>>
    ELSE <<Frame(s, "turn_finished", wake, None)>>

TranslateRoot(e, s) ==
    IF e.type = "TaskSuspended" THEN FromSuspend(s, e.id)
    ELSE IF e.type = "TaskCancelled"
         THEN <<Frame(s, "turn_finished", "cancelled", None)>>
    ELSE IF e.type = "TaskCompleted"
         THEN <<Frame(s, "turn_finished", "completed", None)>>
    ELSE IF e.type = "TaskFailed"
         THEN <<Frame(s, "error", None, None), Frame(s, "turn_finished", "failed", None)>>
    ELSE IF e.type = "TaskRewound"
         THEN <<[Frame(s, "rewind", None, None) EXCEPT !.at = e.at]>>
    ELSE IF e.type \in DOMAIN FrameType
         THEN <<Frame(s, FrameType[e.type], e.id, None)>>
    ELSE <<>>

(* Mutant of TranslateSubtask: the frames carry their own stream's seq,     *)
(* which counts a few envelopes before the first tool call.                 *)
TranslateSubtaskWithSeq(e, sub) ==
    IF e.type = "TaskCancelled"
    THEN <<Frame(Len(sublog[sub]) + 3, "subtask_finished", sub, "cancelled")>>
    ELSE IF e.type \in {"ToolCallStarted", "ToolResultRecorded"}
    THEN <<Frame(Len(sublog[sub]) + 3, FrameType[e.type], e.id, sub)>>
    ELSE <<>>

(* The narrow vocabulary: tool activity and the wrap-up of a cancel, no seq. *)
TranslateSubtask(e, sub) ==
    IF e.type = "TaskCancelled"
    THEN <<Frame(NoSeq, "subtask_finished", sub, "cancelled")>>
    ELSE IF e.type \in {"ToolCallStarted", "ToolResultRecorded"}
    THEN <<Frame(NoSeq, FrameType[e.type], e.id, sub)>>
    ELSE <<>>

(* hub.replay: since_seq above 0 is a floor, anything else a full replay,  *)
(* which alone carries the inherited prefix and the subtasks' frames.      *)
InheritedPrefix == [i \in 1 .. Inherited |-> Frame(NoSeq, "append", "inherited", None)]

ReplaySubtask(sub) ==
    FlattenSeq([i \in DOMAIN sublog[sub] |-> TranslateSubtask(sublog[sub][i], sub)])

ReplayEnvelope(s, full) ==
    LET e == log[s + 1]
    IN  TranslateRoot(e, s)
        \o (IF full /\ e.type = "SubtaskSpawned" THEN ReplaySubtask(e.id) ELSE <<>>)

Replay(since) ==
    LET full  == since <= 0
        first == IF full THEN 0 ELSE since + 1
    IN  (IF full THEN InheritedPrefix ELSE <<>>)
        \o FlattenSeq([i \in 1 .. Len(log) - first |-> ReplayEnvelope(first + i - 1, full)])

-----------------------------------------------------------------------------
(* The fold *)

Item(kind, key, x, status, sub, ver) ==
    [kind |-> kind, key |-> key, id |-> x, status |-> status, sub |-> sub, ver |-> ver]

InitialConversationState ==
    [items |-> <<>>, running |-> FALSE, cursor |-> NoSeq, question |-> None,
     outcome |-> None, nextKey |-> -1, sending |-> FALSE]

Key(c, f) == IF f.seq # NoSeq THEN f.seq ELSE c.nextKey
NextKey(c, f) == IF f.seq # NoSeq THEN c.nextKey ELSE c.nextKey - 1

(* append: one more item, taking a synthetic key when the frame has no seq. *)
Push(c, f, kind, x, status, sub) ==
    [c EXCEPT !.items = Append(@, Item(kind, Key(c, f), x, status, sub, 0)),
              !.nextKey = NextKey(c, f)]

Has(c, kind, x) == \E i \in DOMAIN c.items : c.items[i].kind = kind /\ c.items[i].id = x

(* Where the items of a kind are that have a status. *)
Where(c, kind, status) ==
    {i \in DOMAIN c.items : c.items[i].kind = kind /\ c.items[i].status = status}
WhereId(c, kind, x) ==
    {i \in DOMAIN c.items : c.items[i].kind = kind /\ c.items[i].id = x}

(* replaceLast's scan from the tail: the last of these positions, or 0. *)
LastOf(hits) == IF hits = {} THEN 0 ELSE Max(hits)

Mark(c, hits, status) ==
    [c EXCEPT !.items = [i \in DOMAIN @ |->
        IF i \in hits THEN [@[i] EXCEPT !.status = status] ELSE @[i]]]

MarkLast(c, hits, status) == Mark(c, {LastOf(hits)}, status)

(* Mutant of FoldUserMessage: only the last item can be the bubble. *)
FoldUserMessageAtTail(c, f) ==
    LET item  == Item("user", Key(c, f), f.id, "sent", None, 0)
        n     == Len(c.items)
        echo  == n > 0 /\ c.items[n].status = "pending" /\ c.items[n].id = f.id
        items == IF echo THEN [c.items EXCEPT ![n] = item] ELSE Append(c.items, item)
    IN  [c EXCEPT !.items = items, !.nextKey = NextKey(c, f)]

(* The durable message takes the place of the bubble that announced it. *)
FoldUserMessage(c, f) ==
    LET item  == Item("user", Key(c, f), f.id, "sent", None, 0)
        i     == LastOf(Where(c, "user", "pending") \cap WhereId(c, "user", f.id))
        items == IF i = 0 THEN Append(c.items, item) ELSE [c.items EXCEPT ![i] = item]
    IN  [c EXCEPT !.items = items, !.nextKey = NextKey(c, f)]

(* A call seen before is a frame sent again. *)
FoldToolCall(c, f) ==
    IF Has(c, "step", f.id) THEN c ELSE Push(c, f, "step", f.id, "running", f.sub)

FoldToolResult(c, f) ==
    MarkLast(c, Where(c, "step", "running") \cap WhereId(c, "step", f.id), "success")

(* One checklist a turn: the card after the last user bubble is updated. *)
FoldTodoUpdate(c, f) ==
    LET LastItem(kind) == LastOf({i \in DOMAIN c.items : c.items[i].kind = kind})
        i == LastItem("todos")
    IN  IF i > LastItem("user")
        THEN [c EXCEPT !.items[i].ver = f.seq]
        ELSE [c EXCEPT !.items = Append(@, Item("todos", f.seq, None, None, None, f.seq))]

FoldSubtaskStarted(c, f) ==
    IF Has(c, "subtask", f.id) THEN c ELSE Push(c, f, "subtask", f.id, "running", None)

(* With no running card to close, the outcome gets a card of its own. *)
FoldSubtaskFinished(c, f) ==
    LET status == IF f.sub = "cancelled" THEN "cancelled" ELSE "completed"
        open   == Where(c, "subtask", "running") \cap WhereId(c, "subtask", f.id)
    IN  IF open # {} THEN MarkLast(c, open, status)
        ELSE Push(c, f, "subtask", f.id, status, None)

FoldQuestion(c, f) ==
    [Push(c, f, "question", f.id, "open", None) EXCEPT !.question = f.id]

FoldQuestionClosed(c, f, status) ==
    [MarkLast(c, WhereId(c, "question", f.id), status)
        EXCEPT !.question = IF @ = f.id THEN None ELSE @]

(* Mutant: only a failed turn closes the steps it left open. *)
CloseStepsOnFailure(c, status) ==
    IF status = "failed" THEN Mark(c, Where(c, "step", "running"), "failure") ELSE c

CloseSteps(c, status) ==
    LET open == Where(c, "step", "running")
    IN  CASE status = "cancelled" -> Mark(c, open, "cancelled")
          [] status = "failed"    -> Mark(c, open, "failure")
          [] OTHER                -> c

CloseSubtasks(c, status) ==
    IF status = "cancelled" THEN Mark(c, Where(c, "subtask", "running"), "cancelled") ELSE c

FoldTurnFinished(c, f) ==
    LET closed == Mark(CloseSubtasks(CloseSteps(c, f.id), f.id),
                       Where(c, "question", "open"), "withdrawn")
    IN  [closed EXCEPT !.running = FALSE, !.question = None, !.outcome = f.id]

(* Mutant: an error leaves the turn to turn_finished. *)
FoldErrorKeepsRunning(c, f) == Push(c, f, "error", None, None, None)

FoldError(c, f) == [Push(c, f, "error", None, None, None) EXCEPT !.running = FALSE]

(* The items that are kept, in their order. *)
Filter(items, kept) ==
    LET upto[i \in 0 .. Len(items)] ==
            IF i = 0 THEN <<>>
            ELSE IF items[i] \in kept THEN Append(upto[i - 1], items[i]) ELSE upto[i - 1]
    IN  upto[Len(items)]

(* Rewind, part 1: durable items past the boundary are dead history. *)
Survives(it, target) == it.key <= target

FoldRewind(c, f) ==
    LET past       == {it \in ToSet(c.items) : Survives(it, f.at)}
        live       == {it.id : it \in {sub \in past : sub.kind = "subtask"}}
        Orphan(it) == it.key < 0 /\ it.kind = "step" /\ it.sub # None /\ it.sub \notin live
        Bubble(it) == it.kind = "user" /\ it.status = "pending"
    IN  [c EXCEPT !.items = Filter(@, {it \in past : ~Orphan(it) /\ ~Bubble(it)}),
                  !.running = FALSE, !.question = None, !.outcome = None]

FoldItemEvent(c, f) ==
    CASE f.type = "user_message"       -> FoldUserMessage(c, f)
      [] f.type = "append"             -> Push(c, f, "append", f.id, None, None)
      [] f.type = "tool_call"          -> FoldToolCall(c, f)
      [] f.type = "tool_result"        -> FoldToolResult(c, f)
      [] f.type = "todo_update"        -> FoldTodoUpdate(c, f)
      [] f.type = "subtask_started"    -> FoldSubtaskStarted(c, f)
      [] f.type = "subtask_finished"   -> FoldSubtaskFinished(c, f)
      [] f.type = "question"           -> FoldQuestion(c, f)
      [] f.type = "question_answered"  -> FoldQuestionClosed(c, f, "answered")
      [] f.type = "question_withdrawn" -> FoldQuestionClosed(c, f, "withdrawn")
      [] f.type = "turn_started"       -> [c EXCEPT !.running = TRUE, !.outcome = None]
      [] f.type = "turn_finished"      -> FoldTurnFinished(c, f)
      [] f.type = "error"              -> FoldError(c, f)
      [] f.type = "rewind"             -> FoldRewind(c, f)

(* foldEvent: dedup on the stream's cursor first, then advance it. *)
FoldEvent(c, f) ==
    IF f.seq # NoSeq /\ f.seq <= c.cursor THEN c
    ELSE FoldItemEvent(IF f.seq = NoSeq THEN c ELSE [c EXCEPT !.cursor = f.seq], f)

FoldEvents(c, fs) ==
    LET upto[i \in 0 .. Len(fs)] == IF i = 0 THEN c ELSE FoldEvent(upto[i - 1], fs[i])
    IN  upto[Len(fs)]

(* The store's apply: any sign of life retires the optimistic flag. *)
Apply(c, f) ==
    LET d == FoldEvent(c, f)
    IN  [d EXCEPT !.sending = @ /\ ~d.running /\ d.items = c.items /\ d.outcome = c.outcome]

-----------------------------------------------------------------------------
(* The engine (external): what it commits, and the hub's fan-out of it. *)

Send(fs) == pipe' = IF online THEN pipe \o fs ELSE pipe

Publish(es) ==
    /\ Len(log) + Len(es) <= MaxLog /\ Len(pipe) <= MaxPipe
    /\ log' = log \o es
    /\ Send(FlattenSeq([i \in DOMAIN es |-> TranslateRoot(es[i], Newest + i)]))

PublishSub(sub, e) ==
    /\ Len(sublog[sub]) < MaxSublog /\ Len(pipe) <= MaxPipe
    /\ sublog' = [sublog EXCEPT ![sub] = Append(@, e)]
    /\ Send(TranslateSubtask(e, sub))

Logged(t, x) == \E i \in DOMAIN log : log[i] = Env(t, x)
SubLogged(t, x) == \E s \in Subtasks : \E i \in DOMAIN sublog[s] : sublog[s][i] = Env(t, x)

OpenCalls == {c \in Calls : Logged("ToolCallStarted", c) /\ ~Logged("ToolResultRecorded", c)}
FreshCalls == {c \in Calls : ~Logged("ToolCallStarted", c) /\ ~SubLogged("ToolCallStarted", c)}
CancelledSub(s) == \E i \in DOMAIN sublog[s] : sublog[s][i].type = "TaskCancelled"
LiveSubtasks ==
    {s \in Subtasks : /\ Logged("SubtaskSpawned", s)
                      /\ ~Logged("SubtaskCompleted", s)
                      /\ ~CancelledSub(s)}
OpenQuestions ==
    {q \in Questions : /\ Logged("UserQuestionRequested", q)
                       /\ ~Logged("UserQuestionAnswered", q)
                       /\ ~Logged("UserQuestionWithdrawn", q)}

clientVars == <<conv, online, post, refused, doubled, posts, drops>>

(* One envelope of a running turn that does not end it. *)
Progress ==
    /\ turn = "running"
    /\ \/ Publish(<<Env("AssistantMessage", "answer")>>)
       \/ \E c \in FreshCalls : Publish(<<Env("ToolCallStarted", c)>>)
       \/ \E c \in OpenCalls : Publish(<<Env("ToolResultRecorded", c)>>)
       \/ Publish(<<Env("TaskStatePatched", "todos")>>)
       \/ \E s \in Subtasks : /\ ~Logged("SubtaskSpawned", s)
                              /\ Publish(<<Env("SubtaskSpawned", s)>>)
       \/ LiveSubtasks # {} /\ Publish(<<Env("TaskSuspended", "barrier")>>)
    /\ UNCHANGED <<sublog, turn, injected, clientVars>>

(* A background subagent delivers, whether or not its parent is in a turn. *)
Deliver ==
    /\ turn # "over"
    /\ \E s \in LiveSubtasks : Publish(<<Env("SubtaskCompleted", s)>>)
    /\ UNCHANGED <<sublog, turn, injected, clientVars>>

Ask ==
    /\ turn = "running"
    /\ \E q \in Questions :
           /\ ~Logged("UserQuestionRequested", q)
           /\ Publish(<<Env("UserQuestionRequested", q), Env("TaskSuspended", "question")>>)
    /\ turn' = "waiting"
    /\ UNCHANGED <<sublog, injected, clientVars>>

Answer ==
    /\ turn = "waiting"
    /\ \E q \in OpenQuestions :
           Publish(<<Env("UserQuestionAnswered", q), Env("TaskWoken", None)>>)
    /\ turn' = "running"
    /\ UNCHANGED <<sublog, injected, clientVars>>

(* Stop while a question is pending withdraws it and parks the turn. *)
Withdraw ==
    /\ turn = "waiting"
    /\ \E q \in OpenQuestions :
           Publish(<<Env("UserQuestionWithdrawn", q), Env("TaskSuspended", "interrupted")>>)
    /\ turn' = "idle"
    /\ UNCHANGED <<sublog, injected, clientVars>>

(* The turn parks; its tool calls have their results by then. *)
Park ==
    /\ turn = "running"
    /\ OpenCalls = {}
    /\ injected = <<>>
    /\ \E why \in {"awaiting_input", "interrupted", "turn_failed"} :
           Publish(<<Env("TaskSuspended", why)>>)
    /\ turn' = "idle"
    /\ UNCHANGED <<sublog, injected, clientVars>>

(* The task ends for good, with calls, subtasks and questions still open. *)
End ==
    /\ turn # "over"
    /\ \E t \in {"TaskCancelled", "TaskFailed", "TaskCompleted"} :
           /\ t # "TaskCancelled" => turn = "running"
           /\ t = "TaskCompleted" => OpenCalls = {}
           /\ Publish(<<Env(t, None)>>)
    /\ turn' = "over"
    /\ UNCHANGED <<sublog, injected, clientVars>>

(* A steering message is drained at a boundary inside the turn. *)
Drain ==
    /\ turn = "running"
    /\ injected # <<>>
    /\ Publish(<<Env("UserMessage", Head(injected))>>)
    /\ injected' = Tail(injected)
    /\ UNCHANGED <<sublog, turn, clientVars>>

(* A turn somebody else opens: another tab of the same session. *)
OtherSend ==
    /\ turn = "idle"
    /\ \E t \in Texts : Publish(<<Env("UserMessage", t), Env("TaskWoken", None)>>)
    /\ turn' = "running"
    /\ UNCHANGED <<sublog, injected, clientVars>>

(* Undo: the stream is re-based to before a user message. *)
Rewind ==
    /\ turn = "idle"
    /\ \E s \in 0 .. Newest :
           /\ log[s + 1].type = "UserMessage"
           /\ Publish(<<TaskRewound(s - 1)>>)
    /\ UNCHANGED <<sublog, turn, injected, clientVars>>

(* A subtask works on, and is cancelled by its own driver after its root. *)
SubtaskStep ==
    /\ \E s \in LiveSubtasks :
           \/ \E c \in FreshCalls : PublishSub(s, Env("ToolCallStarted", c))
           \/ \E c \in Calls : /\ \E i \in DOMAIN sublog[s] : sublog[s][i] = Env("ToolCallStarted", c)
                               /\ ~SubLogged("ToolResultRecorded", c)
                               /\ PublishSub(s, Env("ToolResultRecorded", c))
           \/ /\ \E i \in DOMAIN log : log[i].type = "TaskCancelled"
              /\ PublishSub(s, Env("TaskCancelled", None))
    /\ UNCHANGED <<log, turn, injected, clientVars>>

-----------------------------------------------------------------------------
(* The browser's stream *)

(* A mount or a reconnect resumes from the fold's own cursor. *)
Connect ==
    /\ ~online
    /\ online' = TRUE
    /\ pipe' = Replay(conv.cursor)
    /\ UNCHANGED <<engineVars, conv, post, refused, doubled, posts, drops>>

Receive ==
    /\ pipe # <<>>
    /\ conv' = Apply(conv, Head(pipe))
    /\ pipe' = Tail(pipe)
    /\ UNCHANGED <<engineVars, online, post, refused, doubled, posts, drops>>

(* A network break, or the session is left and its state kept. *)
Disconnect ==
    /\ online
    /\ drops < MaxDrops
    /\ online' = FALSE
    /\ pipe' = <<>>
    /\ drops' = drops + 1
    /\ UNCHANGED <<engineVars, conv, post, refused, doubled, posts>>

-----------------------------------------------------------------------------
(* Sending *)

NoPost == [stage |-> "none", text |-> None, key |-> 0]

(* Composer deliver: the bubble and the flag go in before the request. *)
DeliverMessage ==
    /\ post.stage = "none"
    /\ posts < MaxPosts
    /\ conv.question = None
    /\ \E t \in Texts :
           /\ conv' = [conv EXCEPT
                  !.items = Append(@, Item("user", conv.nextKey, t, "pending", None, 0)),
                  !.nextKey = @ - 1,
                  !.sending = TRUE]
           /\ post' = [stage |-> "request", text |-> t, key |-> conv.nextKey]
           /\ doubled' = IF Where(conv, "user", "pending") \cap WhereId(conv, "user", t) = {}
                         THEN doubled ELSE doubled \cup {t}
    /\ posts' = posts + 1
    /\ UNCHANGED <<engineVars, online, pipe, refused, drops>>

(* send_message reads the status once: a waiting session refuses, a running *)
(* one is steered, an idle one, which a finished one also reads as, driven. *)
SendMessage ==
    /\ post.stage = "request"
    /\ post' = [post EXCEPT !.stage =
                   IF turn = "waiting" THEN "error"
                   ELSE IF turn = "running" THEN "steer" ELSE "prepared"]
    /\ UNCHANGED <<engineVars, conv, online, pipe, refused, doubled, posts, drops>>

(* The attachments are stored and the title written before the push. *)
PushTurnStarted ==
    /\ post.stage = "prepared"
    /\ Send(<<Frame(NoSeq, "turn_started", None, None)>>)
    /\ post' = [post EXCEPT !.stage = "drive"]
    /\ UNCHANGED <<engineVars, conv, online, refused, doubled, posts, drops>>

(* inject_goal or send_goal takes the message; the response goes back. *)
Accept ==
    /\ post.stage \in {"steer", "drive"}
    /\ \/ /\ turn = "idle"
          /\ Publish(<<Env("UserMessage", post.text), Env("TaskWoken", None)>>)
          /\ turn' = "running"
          /\ UNCHANGED injected
       \/ /\ post.stage = "steer"
          /\ turn = "running"
          /\ injected' = Append(injected, post.text)
          /\ UNCHANGED <<log, turn, pipe>>
    /\ post' = NoPost
    /\ UNCHANGED <<sublog, conv, online, refused, doubled, posts, drops>>

(* The verb raises.  A refusal the caller is told of (a model outside the   *)
(* catalogue, a task whose wake is not the next goal) says nothing on the   *)
(* stream; any other exception pushes error and turn_finished.              *)
Refuse ==
    /\ post.stage \in {"steer", "drive"}
    /\ \/ UNCHANGED pipe
       \/ Send(<<Frame(NoSeq, "error", None, None),
                 Frame(NoSeq, "turn_finished", "failed", None)>>)
    /\ refused' = TRUE
    /\ post' = [post EXCEPT !.stage = "error"]
    /\ UNCHANGED <<engineVars, conv, online, doubled, posts, drops>>

(* The error response: the bubble is taken back and the flag cleared. *)
DropPending ==
    LET Mine(it) == it.key = post.key /\ it.kind = "user" /\ it.status = "pending"
    IN  /\ post.stage = "error"
        /\ conv' = [conv EXCEPT !.items = Filter(@, {it \in ToSet(@) : ~Mine(it)}), !.sending = FALSE]
        /\ post' = NoPost
        /\ UNCHANGED <<engineVars, online, pipe, refused, doubled, posts, drops>>

-----------------------------------------------------------------------------
Init ==
    /\ log = <<Env("TaskCreated", None)>>
    /\ sublog = [s \in Subtasks |-> <<>>]
    /\ turn = "idle"
    /\ injected = <<>>
    /\ conv = InitialConversationState
    /\ online = FALSE
    /\ pipe = <<>>
    /\ post = NoPost
    /\ refused = FALSE
    /\ doubled = {}
    /\ posts = 0
    /\ drops = 0

Next ==
    \/ Progress \/ Deliver \/ Ask \/ Answer \/ Withdraw \/ Park \/ End \/ Drain
    \/ OtherSend \/ Rewind \/ SubtaskStep
    \/ Connect \/ Receive \/ Disconnect
    \/ DeliverMessage \/ SendMessage \/ PushTurnStarted \/ Accept \/ Refuse
    \/ DropPending

Spec == Init /\ [][Next]_vars

-----------------------------------------------------------------------------
(* Properties *)

Items == {conv.items[i] : i \in DOMAIN conv.items}

CaughtUp == online /\ pipe = <<>>

(* What a reload would show. *)
Fresh == FoldEvents(InitialConversationState, Replay(NoSeq))

DurableItems(c, kinds) ==
    {it \in {c.items[i] : i \in DOMAIN c.items} : it.key >= 0 /\ it.kind \in kinds}

Kinds == {"user", "append", "step", "subtask", "question", "error"}

(* A client that folded live frames, resumed over gaps and echoed its own   *)
(* accepted sends holds, once caught up, exactly the durable items and the  *)
(* pending question that a reload re-derives from the log.                  *)
RefreshSame ==
    CaughtUp /\ ~refused =>
        /\ DurableItems(conv, Kinds) = DurableItems(Fresh, Kinds)
        /\ conv.question = Fresh.question

(* As long as every send was accepted, a caught-up client with no request   *)
(* outstanding says "running" exactly when the session has a turn in        *)
(* flight, although the send path pushes turn_started on a status it read   *)
(* earlier and the failed turn's turn_finished is dropped by the cursor.    *)
RunningIsReal ==
    CaughtUp /\ post.stage = "none" /\ ~refused =>
        (conv.running <=> turn \in {"running", "waiting"})

(* The same with refused sends: the composer is never left on a turn that   *)
(* was never accepted.                                                      *)
ComposerUnlocked ==
    CaughtUp /\ post.stage = "none" =>
        (conv.running <=> turn \in {"running", "waiting"})

(* Every send settles: once the engine has drained it and the client has    *)
(* caught up, its bubble is a durable message or gone, and the "sending"    *)
(* flag is down.  Only where the same words were sent over their own        *)
(* bubble may one stay: the first message takes the place of the last      *)
(* bubble, and when the second is then refused nothing is left to take back. *)
SendSettles ==
    CaughtUp /\ post.stage = "none" /\ injected = <<>> =>
        /\ ~conv.sending
        /\ \A it \in Items : it.kind = "user" /\ it.status # "sent" => it.id \in doubled

(* After a cancel nothing of the session's own stream is left running.      *)
CancelCloses ==
    CaughtUp /\ log[Len(log)].type = "TaskCancelled" =>
        \A it \in Items : it.key >= 0 => it.status \notin {"running", "open"}

(* The answer panel is shown for a question the engine waits on, and for    *)
(* nothing else; no other question's card is open.                          *)
QuestionGate ==
    CaughtUp /\ ~refused =>
        /\ (conv.question # None) <=> (turn = "waiting")
        /\ \A it \in Items : it.kind = "question" /\ it.status = "open" => it.id = conv.question

(* A failed turn closes the steps it left open, as a cancelled one does.    *)
FailureCloses ==
    CaughtUp /\ log[Len(log)].type = "TaskFailed" =>
        \A it \in Items : it.kind = "step" /\ it.sub = None => it.status # "running"

=============================================================================
