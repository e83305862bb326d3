------------------------------ MODULE TurnRows ------------------------------
(***************************************************************************)
(* The transcript as rows (web/src/app/fold/aggregate.ts and the           *)
(* components that mount them).  The fold's flat list of items grows at    *)
(* its end while a turn runs; every change projects it anew into turn      *)
(* blocks, runs of calls and subtask nodes.  The reader opens groups while *)
(* this goes on, so the identity of a row matters as much as its content.  *)
(***************************************************************************)
EXTENDS Integers, Sequences, SequencesExt, FiniteSets

CONSTANTS NoTask,           \* the subtask of a root step: null
          Subtask,          \* the one subtask of the instance
          Shapes,           \* the items a turn may append, see MCSession
          Inherited,        \* items of an ancestor stream in a branch view
          MaxItems          \* bound: items of a transcript

VARIABLES items,            \* ConversationState.items
          inFlight,         \* ConversationState.running
          blocks,           \* the turn blocks of the last render
          opened            \* groups the reader has expanded

rowVars == <<items, inFlight, blocks, opened>>

Each(Op(_), s) == FoldLeft(LAMBDA done, e : Append(done, Op(e)), <<>>, s)

AggregateMinRun == 2

WorkKinds == {"step", "memory", "skill", "todos", "subtask", "thinking", "recall"}
NoticeKinds == {"error", "question", "compaction"}
Families == {"command", "edit", "read", "search"}

IsWork(item) == item.kind \in WorkKinds
IsNotice(item) == item.kind \in NoticeKinds
ToolFamily(item) == IF item.kind = "step" THEN item.tool ELSE "none"

(* isAggregatable on the top level, isAggregatableStep inside a node.      *)
Aggregatable(item, inside) ==
    ToolFamily(item) \in Families /\ (inside \/ item.sub = NoTask)

(* A seq counts within its stream, so a row is named by its stream too.    *)
RowKey(item) == <<item.task, item.key>>

(* The first call names a run: it does not change as the run grows.        *)
GroupKeyByLength(run) == <<"agg", run[1].task, run[1].key, Len(run)>>
GroupKey(run) == <<"agg", run[1].task, run[1].key>>

(* buildRows: each maximal run of aggregatable calls is one row, every     *)
(* other item a row of its own.                                            *)
BuildRows(s, inside) ==
    LET Join(runs, item) ==
            IF runs # <<>> /\ Aggregatable(item, inside) /\ Aggregatable(Last(Last(runs)), inside)
            THEN ReplaceAt(runs, Len(runs), Append(Last(runs), item))
            ELSE Append(runs, <<item>>)
        runs == FoldLeft(Join, <<>>, s)
        Row(run) == IF Len(run) < AggregateMinRun
                    THEN [kind |-> "item", key |-> RowKey(run[1]), run |-> run, children |-> <<>>]
                    ELSE [kind |-> "aggregate", key |-> GroupKey(run), run |-> run, children |-> <<>>]
    IN  Each(Row, runs)

Anchors(s) == {s[i].sub : i \in {j \in DOMAIN s : s[j].kind = "subtask"}}
NestedLive(item, anchors) == item.kind = "step" /\ item.sub # NoTask
Nested(item, anchors) == item.kind = "step" /\ item.sub \in anchors

(* buildGroupedRows: the calls of an anchored subtask move under its node. *)
BuildGroupedRows(s) ==
    LET anchors == Anchors(s)
        Top(item) == ~Nested(item, anchors)
        Group(row) ==
            IF row.kind = "item" /\ row.run[1].kind = "subtask"
            THEN LET Own(item) == Nested(item, anchors) /\ item.sub = row.run[1].sub
                 IN  [row EXCEPT !.kind = "subtask-group",
                                 !.children = BuildRows(SelectSeq(s, Own), TRUE)]
            ELSE row
    IN  Each(Group, BuildRows(SelectSeq(s, Top), FALSE))

SumOver(f, S) == FoldSet(LAMBDA k, n : n + f[k], 0, S)
RowWeight(row) == IF row.kind = "aggregate" THEN Len(row.run) ELSE 1
Weight(rows) == SumOver([k \in DOMAIN rows |-> RowWeight(rows[k])], DOMAIN rows)

(* countStepRows: a node counts itself and the work inside it.             *)
CountStepRows(rows) == Weight(rows)
    + SumOver([k \in DOMAIN rows |-> Weight(rows[k].children)], DOMAIN rows)

(* answerStart: the index before which everything is work.                 *)
AnswerStart(body) ==
    LET work == {i \in DOMAIN body : IsWork(body[i])}
        notices == {i \in DOMAIN body : IsNotice(body[i])}
        start == IF work = {} THEN 1 ELSE Max(work) + 1
    IN  IF notices = {} THEN start ELSE Min({start, Min(notices)})

Turns(s) ==
    FoldLeft(LAMBDA groups, item :
                IF groups = <<>> \/ item.kind = "user" THEN Append(groups, <<item>>)
                ELSE ReplaceAt(groups, Len(groups), Append(Last(groups), item)), <<>>, s)

(* buildTurns: one block per user message.                                 *)
BuildTurns(s, isRunning) ==
    LET groups == Turns(s)
        Block(group) ==
            LET opens == group[1].kind = "user"
                body == IF opens THEN Tail(group) ELSE group
                cut == AnswerStart(body)
                work == SubSeq(body, 1, cut - 1)
                steps == BuildGroupedRows(SelectSeq(work, LAMBDA i : i.kind # "thinking"))
                live == isRunning /\ group = Last(groups)
            IN  [key |-> IF opens THEN RowKey(group[1]) ELSE <<"turn">> \o RowKey(group[1]),
                 user |-> IF opens THEN <<group[1]>> ELSE <<>>,
                 thinking |-> SelectSeq(work, LAMBDA i : i.kind = "thinking"),
                 steps |-> steps,
                 answer |-> BuildRows(SubSeq(body, cut, Len(body)), FALSE),
                 stepRowCount |-> CountStepRows(steps),
                 live |-> live]
    IN  Each(Block, groups)

---------------------------------------------------------------------------
(* What is mounted.  React keeps the state of a component while its key    *)
(* stays in the same list of siblings.                                     *)

RowsIn(rows, place) ==
    {[place |-> place, row |-> rows[k]] : k \in DOMAIN rows}
      \cup UNION {{[place |-> Append(place, rows[k].key), row |-> rows[k].children[c]] :
                      c \in DOMAIN rows[k].children} : k \in DOMAIN rows}

Mounted(bs) == UNION {RowsIn(b.steps, <<b.key, "steps">>)
                        \cup RowsIn(b.answer, <<b.key, "answer">>) : b \in ToSet(bs)}

Aggregates(bs) == {m \in Mounted(bs) : m.row.kind = "aggregate"}
Handle(m) == <<m.place, m.row.key>>
StillMounted(handles, bs) == handles \cap {Handle(m) : m \in Aggregates(bs)}

(* aggregateTense, aggregateNowLabel: a run reads in the present, naming   *)
(* its latest call in flight, while this set has a member.                 *)
RunningIn(run) == {i \in DOMAIN run : run[i].status = "running"}

(* countFiles: distinct paths of the calls, and one for each unnamed call. *)
CountFiles(run, family) ==
    LET own == {i \in DOMAIN run : run[i].tool = family}
    IN  Cardinality({run[i].path : i \in {j \in own : run[j].path # NoTask}})
        + Cardinality({i \in own : run[i].path = NoTask})

(* aggregateSummary: files are counted by path, the rest by call.          *)
AggregateSummary(run) ==
    [f \in {run[i].tool : i \in DOMAIN run} |->
        IF f \in {"edit", "read"} THEN CountFiles(run, f)
        ELSE Cardinality({i \in DOMAIN run : run[i].tool = f})]

---------------------------------------------------------------------------
RowInit == /\ items \in {<<>>, Inherited}
           /\ inFlight = FALSE /\ opened = {} /\ blocks = BuildTurns(items, FALSE)

(* MessageList: a changed list is projected anew; a group whose component  *)
(* unmounts forgets that it was open.                                      *)
Render(list, isRunning) == /\ blocks' = BuildTurns(list, isRunning)
                           /\ opened' = StillMounted(opened, blocks')

(* The fold pushes an item of this session's own stream; a subtask has one *)
(* item, which later frames of it update in place.                         *)
Append1 == \E shape \in Shapes :
    LET own == {i \in DOMAIN items : items[i].task = "own"}
        item == [kind |-> shape.kind, task |-> "own", key |-> Cardinality(own),
                 tool |-> shape.tool, sub |-> shape.sub, path |-> shape.path,
                 status |-> IF shape.kind = "step" THEN "running" ELSE "none"]
    IN  /\ Len(items) < MaxItems
        /\ shape.kind = "subtask" => shape.sub \notin Anchors(items)
        /\ items' = Append(items, item)
        /\ inFlight' = (shape.kind = "user" \/ inFlight)
        /\ Render(items', inFlight')

(* A call's result updates the item in place.                              *)
FinishStep == \E i \in DOMAIN items, outcome \in {"success", "failure"} :
    /\ items[i].status = "running"
    /\ items' = [items EXCEPT ![i].status = outcome]
    /\ Render(items', inFlight) /\ UNCHANGED inFlight

ParkTurn == /\ inFlight /\ inFlight' = FALSE
            /\ Render(items, FALSE) /\ UNCHANGED items

(* Disclosure: a click, or a find that hits inside, opens a group.         *)
OpenGroup == \E m \in Aggregates(blocks) :
    /\ Handle(m) \notin opened
    /\ opened' = opened \cup {Handle(m)} /\ UNCHANGED <<items, inFlight, blocks>>

RowNext == Append1 \/ FinishStep \/ ParkTurn \/ OpenGroup

---------------------------------------------------------------------------
Items(rows) == UNION {{<<k, i>> : i \in DOMAIN rows[k].run} : k \in DOMAIN rows}
Holds(rows, item) ==
    Cardinality({p \in Items(rows) : rows[p[1]].run[p[2]] = item})
HeldInside(rows, item) ==
    SumOver([k \in DOMAIN rows |-> Holds(rows[k].children, item)], DOMAIN rows)
Placed(b, item) ==
    (IF item \in ToSet(b.user) THEN 1 ELSE 0) + (IF item \in ToSet(b.thinking) THEN 1 ELSE 0)
    + Holds(b.steps, item) + HeldInside(b.steps, item) + Holds(b.answer, item)

(* Every item of the transcript has exactly one place in exactly one block *)
(* (message, reasoning, work, node of a subtask, answer): buildGroupedRows *)
(* moves calls between lists and neither loses nor repeats one, also when  *)
(* a call arrives before the node it belongs to.                           *)
EveryItemOnce == \A i \in DOMAIN items :
    SumOver([k \in DOMAIN blocks |-> Placed(blocks[k], items[i])], DOMAIN blocks) = 1

(* Nothing after the first notice of a turn is behind its fold, and no     *)
(* notice is ever inside the work (isNotice: "never folded away").         *)
NoticesInSight == \A k \in DOMAIN blocks :
    LET group == Turns(items)[k]
    IN  \A i, j \in DOMAIN group :
            IsNotice(group[i]) /\ j >= i => Holds(blocks[k].answer, group[j]) = 1

(* The work of two agents is never merged: a run on the top level holds    *)
(* calls of the root alone, a node the calls of its own subtask alone, and *)
(* within the work of a turn no call stays outside a node it has.          *)
WorkAttributed == \A b \in ToSet(blocks) :
    /\ \A r \in ToSet(b.steps) \cup ToSet(b.answer) :
          r.kind = "aggregate" => \A i \in DOMAIN r.run : r.run[i].sub = NoTask
    /\ \A r \in ToSet(b.steps) : r.kind = "subtask-group" =>
          /\ \A c \in ToSet(r.children) : \A i \in DOMAIN c.run : c.run[i].sub = r.run[1].sub
          /\ \A o \in ToSet(b.steps) : o.run[1].kind = "step" => o.run[1].sub # r.run[1].sub

(* Siblings have distinct keys, also where a branch shows the items of an  *)
(* ancestor next to its own and both streams count from zero.              *)
KeysDistinct ==
    LET mounted == Mounted(blocks)
    IN  /\ \A k, l \in DOMAIN blocks : k # l => blocks[k].key # blocks[l].key
        /\ \A m, n \in mounted : Handle(m) = Handle(n) => m = n

(* The count on the fold is the work behind it: one for every item of the  *)
(* work that is not reasoning, however it was grouped or nested.           *)
CountsAgree == \A b \in ToSet(blocks) :
    b.stepRowCount = Cardinality({i \in DOMAIN items :
        Holds(b.steps, items[i]) + HeldInside(b.steps, items[i]) > 0})

LateAnchor == /\ Len(items') > Len(items) /\ items'[Len(items')].kind = "subtask"
              /\ \E i \in DOMAIN items : items[i].kind = "step" /\ items[i].sub = items'[Len(items')].sub

(* A group the reader opened stays open while the turn goes on: calls are  *)
(* added to it, others follow, it parks.  Only the late node of a call     *)
(* that had split a run may merge the run into the one before it.          *)
OpenedStays == [][opened \subseteq opened' \/ LateAnchor]_rowVars

(* The summary of a run counts work done: it never falls while the run     *)
(* grows and its calls finish.                                             *)
SummaryGrows == [][\A m \in Aggregates(blocks) : \A n \in Aggregates(blocks') :
    Handle(m) = Handle(n) =>
        \A f \in DOMAIN AggregateSummary(m.row.run) :
            /\ f \in DOMAIN AggregateSummary(n.row.run)
            /\ AggregateSummary(n.row.run)[f] >= AggregateSummary(m.row.run)[f]]_rowVars

(* The rows of a transcript tell it whole: nothing lost, doubled, hidden,  *)
(* attributed to another agent or miscounted.                              *)
TranscriptWhole == EveryItemOnce /\ NoticesInSight /\ WorkAttributed /\ CountsAgree

(* A group is the same group from one render to the next: its key is its   *)
(* own, what the reader opened stays open, its summary never runs back.    *)
GroupsSteady == /\ []KeysDistinct
                /\ OpenedStays
                /\ SummaryGrows
=============================================================================
