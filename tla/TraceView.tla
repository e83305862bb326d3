----------------------------- MODULE TraceView -----------------------------
(***************************************************************************)
(* The trace page: a poll loop that pages raw envelopes of all the task    *)
(* streams of a session through a cursor per stream, the endpoint that     *)
(* discovers subtasks while it reads, and the views the page derives from  *)
(* what it holds: turns, LLM rounds, tool pairs and compactions.  Streams  *)
(* grow while they are read, a request may fail or be outlived by a change *)
(* of session, of the live switch or by a refresh.                         *)
(***************************************************************************)
EXTENDS Integers, Sequences, SequencesExt, FiniteSets, FiniteSetsExt, TLC

CONSTANTS
    TraceSessions,
    RootOf,     \* the task of each session
    ChildOf,    \* the subtask each root may spawn
    Nil,
    MaxLog,     \* bound: envelopes in a stream, by task
    MaxMoves    \* bound: failures, refreshes, live switches and changes of session

Roots == {RootOf[s] : s \in TraceSessions}
Tasks == Roots \cup {ChildOf[r] : r \in Roots}

VARIABLES
    log,        \* the envelopes committed to each stream
    now,        \* how many were committed: the clock of occurred_at
    session,    \* the session the page is on
    cursor, events,     \* TraceStreamState
    status, live, timer,
    request,    \* the request under way, or None
    scope, selectedSeq,
    picked,     \* ghost: the session the selection was made in
    moves

traceVars == <<log, now, session, cursor, events, status, live, timer, request,
               scope, selectedSeq, picked, moves>>

-----------------------------------------------------------------------------
(* The engine's streams *)

(* What a task's stream may hold after an envelope of a type. *)
Following(type, t) ==
    CASE type = "none"                -> {"TaskStarted"}
      [] type = "TaskStarted"         -> {"LLMRequestStarted"}
      [] type = "LLMRequestStarted"   -> {"LLMRequestFinished"}
      [] type = "LLMRequestFinished"  -> {"ToolCallStarted", "CompactionRequested", "TaskCompleted"}
                                            \cup (IF t \in Roots THEN {"SubtaskSpawned"} ELSE {})
      [] type = "ToolCallStarted"     -> {"ToolResultRecorded"}
      [] type = "CompactionRequested" -> {"Compacted", "LLMRequestStarted"}
      [] type = "TaskCompleted"       -> {}
      [] OTHER                        -> {"LLMRequestStarted"}

Opens(type) == type \in {"LLMRequestStarted", "ToolCallStarted", "CompactionRequested"}

(* A task commits an envelope; call is the id that ties it to an earlier one. *)
Emit(t, type) ==
    LET stream == log[t]
        last == IF stream = <<>> THEN [type |-> "none", call |-> 0] ELSE Last(stream)
    IN  /\ Len(stream) < MaxLog[t]
        /\ t \in Roots \/ \E r \in Roots : ChildOf[r] = t /\
              \E i \in DOMAIN log[r] : log[r][i].type = "SubtaskSpawned"
        /\ type \in Following(last.type, t)
        /\ type = "SubtaskSpawned" => \A i \in DOMAIN stream : stream[i].type # type
        /\ now' = now + 1
        /\ log' = [log EXCEPT ![t] = Append(@,
                     [task |-> t, seq |-> Len(stream), type |-> type, at |-> now',
                      call |-> IF Opens(type) THEN Len(stream) ELSE last.call])]
        /\ UNCHANGED <<session, cursor, events, status, live, timer, request, scope,
                       selectedSeq, picked, moves>>

-----------------------------------------------------------------------------
(* The raw-events endpoint (trace.py) *)

After(from, t) == IF t \in DOMAIN from THEN from[t] ELSE -1

(* Subtasks whose spawn marker is in the increment are read in this round. *)
Discovered(increment, seen) ==
    LET spawns == SelectSeq(increment, LAMBDA e : e.type = "SubtaskSpawned" /\ ChildOf[e.task] \notin seen)
    IN  [i \in DOMAIN spawns |-> ChildOf[spawns[i].task]]

(* One stream past its own cursor, at the moment it is read. *)
CollectStream ==
    /\ request # Nil /\ request.pending # <<>>
    /\ LET t == Head(request.pending)
           increment == SelectSeq(log[t], LAMBDA e : e.seq > After(request.from, t))
           seen == request.seen \cup {t}
       IN  request' = IF t \in request.seen THEN [request EXCEPT !.pending = Tail(@)]
                      ELSE [request EXCEPT !.pending = Tail(@) \o Discovered(increment, seen),
                                           !.seen = seen,
                                           !.got = @ \o increment]
    /\ UNCHANGED <<log, now, session, cursor, events, status, live, timer, scope,
                   selectedSeq, picked, moves>>

-----------------------------------------------------------------------------
(* use-trace-stream.ts *)

(* The session's streams, then the subtasks the caller already knows. *)
NewRequest(s, from) ==
    [from |-> from, seen |-> {}, got |-> <<>>,
     pending |-> <<RootOf[s]>> \o SetToSeq(DOMAIN from \ {RootOf[s]})]

(* Mutant of ApplyRawEventsPage: one number for all streams. *)
ApplyRawEventsPageScalar(got, read) ==
    LET high == IF events = <<>> THEN -1 ELSE Last(events).seq
        sorted == SortSeq(got, LAMBDA a, b : a.at < b.at)
    IN  /\ events' = events \o SelectSeq(sorted, LAMBDA e : e.seq > high)
        /\ cursor' = [t \in DOMAIN cursor \cup read |->
                         LET seqs == {e.seq : e \in {f \in ToSet(got) : f.task = t}}
                         IN  Max(seqs \cup {After(cursor, t)})]

(* A page: known envelopes are dropped and cursors only grow, per stream.   *)
(* The page is time-ordered by the endpoint.                                *)
ApplyRawEventsPage(got, read) ==
    LET sorted == SortSeq(got, LAMBDA a, b : a.at < b.at)
    IN  /\ events' = events \o SelectSeq(sorted, LAMBDA e : e.seq > After(cursor, e.task))
        /\ cursor' = [t \in DOMAIN cursor \cup read |->
                         LET seqs == {e.seq : e \in {f \in ToSet(got) : f.task = t}}
                         IN  Max(seqs \cup {After(cursor, t)})]

(* Mutant of TickAnswered: the loop is left without a timer. *)
TickAnsweredOnce ==
    /\ request # Nil /\ request.pending = <<>>
    /\ ApplyRawEventsPage(request.got, request.seen)
    /\ request' = Nil /\ status' = "ready" /\ timer' = FALSE
    /\ UNCHANGED <<log, now, session, live, scope, selectedSeq, picked, moves>>

TickAnswered ==
    /\ request # Nil /\ request.pending = <<>>
    /\ ApplyRawEventsPage(request.got, request.seen)
    /\ request' = Nil
    /\ status' = "ready"
    /\ timer' = live
    /\ UNCHANGED <<log, now, session, live, scope, selectedSeq, picked, moves>>

Move == moves < MaxMoves /\ moves' = moves + 1

(* The loop stops on a failure. *)
TickFailed ==
    /\ Move
    /\ request # Nil
    /\ request' = Nil
    /\ status' = "error"
    /\ UNCHANGED <<log, now, session, cursor, events, live, timer, scope, selectedSeq, picked>>

(* The cursor is read at request time. *)
TimerFires ==
    /\ timer
    /\ timer' = FALSE
    /\ request' = NewRequest(session, cursor)
    /\ UNCHANGED <<log, now, session, cursor, events, status, live, scope, selectedSeq,
                   picked, moves>>

(* The effect re-runs: the request under way is aborted, the timer cleared. *)
SetLive ==
    /\ Move
    /\ live' = ~live
    /\ request' = NewRequest(session, cursor)
    /\ timer' = FALSE
    /\ UNCHANGED <<log, now, session, cursor, events, status, scope, selectedSeq, picked>>

Refresh ==
    /\ Move
    /\ status' = IF status = "error" THEN "loading" ELSE status
    /\ request' = NewRequest(session, cursor)
    /\ timer' = FALSE
    /\ UNCHANGED <<log, now, session, cursor, events, live, scope, selectedSeq, picked>>

Nothing == [t \in {} |-> 0]

(* Another session in the same page: the accumulator is reset before the    *)
(* fetch effect reads it; the timeline's scope and selection are kept.      *)
OpenTrace(s) ==
    /\ Move
    /\ s # session
    /\ session' = s
    /\ cursor' = Nothing /\ events' = <<>> /\ status' = "loading"
    /\ request' = NewRequest(s, Nothing)
    /\ timer' = FALSE
    /\ UNCHANGED <<log, now, live, scope, selectedSeq, picked>>

-----------------------------------------------------------------------------
(* model.ts and trace-page.tsx: the views *)

MainTaskId == IF events = <<>> THEN Nil ELSE events[1].task

SubagentIds == {ChildOf[e.task] : e \in {f \in ToSet(events) : f.type = "SubtaskSpawned"}}

(* The timeline looks at one stream at a time. *)
Scoped(task) ==
    LET tid == IF task = Nil THEN MainTaskId ELSE task
    IN  SelectSeq(events, LAMBDA e : tid = Nil \/ e.task = tid)

(* Where turns begin: at LLM requests, or at wakeups when there are none. *)
TurnStarts(evs) ==
    LET at(types) == {i \in DOMAIN evs : evs[i].type \in types}
    IN  IF at({"LLMRequestStarted"}) # {} THEN at({"LLMRequestStarted"}) ELSE at({"TaskStarted"})

(* The envelopes of the turn that begins at i. *)
GroupByTurn(evs, i) ==
    LET later == {j \in TurnStarts(evs) : j > i}
    IN  SubSeq(evs, i, IF later = {} THEN Len(evs) ELSE Min(later) - 1)

(* An envelope of the group that closes what another opened. *)
Pair(group, opener, type) ==
    \E i \in DOMAIN group : group[i].type = type /\ group[i].call = opener.call
                            /\ group[i].task = opener.task

(* Tool calls of a group by id, with what the group holds of each: a result *)
(* whose start is elsewhere is a pair as well.                              *)
PairTools(group) ==
    LET ids(type) == {e.call : e \in {f \in ToSet(group) : f.type = type}}
    IN  {[call |-> id, started |-> id \in ids("ToolCallStarted"),
          answered |-> id \in ids("ToolResultRecorded")] :
            id \in ids("ToolCallStarted") \cup ids("ToolResultRecorded")}

(* What the panel of a turn says of its round and its tool calls. *)
TurnView(group) ==
    [inProgress |-> ~Pair(group, group[1], "LLMRequestFinished"),
     tools |-> PairTools(group)]

(* The figures of the whole session. *)
TraceTotals ==
    LET ofType(types) == Cardinality({i \in DOMAIN events : events[i].type \in types})
    IN  [events |-> Len(events), rounds |-> ofType({"LLMRequestStarted"}),
         subagents |-> Cardinality(SubagentIds),
         compactions |-> ofType({"CompactionRequested", "Compacted"}),
         summaryCompactions |-> ofType({"Compacted"})]

(* Requests paired with what landed, per task; a request that a second one  *)
(* supersedes, or that nothing follows, is a card of its own.               *)
CollectCompactions ==
    LET open(i) == {j \in 1 .. i - 1 : events[j].task = events[i].task
                       /\ events[j].type = "CompactionRequested"
                       /\ ~\E k \in j + 1 .. i - 1 : events[k].task = events[i].task
                             /\ events[k].type \in {"CompactionRequested", "Compacted"}}
        landed == {i \in DOMAIN events : events[i].type = "Compacted"}
        alone == {i \in DOMAIN events : events[i].type = "CompactionRequested"
                                        /\ \A j \in landed : i \notin open(j)}
    IN  {[task |-> events[i].task, seq |-> events[IF open(i) = {} THEN i ELSE Max(open(i))].seq,
          landed |-> events[i].seq] : i \in landed}
        \cup {[task |-> events[i].task, seq |-> events[i].seq, landed |-> -1] : i \in alone}

FirstTurnSeq(evs) == IF evs = <<>> THEN Nil ELSE
    LET llm == {i \in DOMAIN evs : evs[i].type = "LLMRequestStarted"}
    IN  evs[IF llm = {} THEN 1 ELSE Min(llm)].seq

(* The selection survives a change of scope only if it is in the new one. *)
ScopeSelection(evs) ==
    IF \E i \in DOMAIN evs : evs[i].seq = selectedSeq THEN selectedSeq ELSE FirstTurnSeq(evs)

SelectScope(task) ==
    /\ task \in SubagentIds \cup {Nil}
    /\ scope' = task
    /\ selectedSeq' = ScopeSelection(Scoped(task))
    /\ picked' = session
    /\ UNCHANGED <<log, now, session, cursor, events, status, live, timer, request, moves>>

SelectEvent(e) ==
    /\ e \in ToSet(Scoped(scope))
    /\ selectedSeq' = e.seq
    /\ picked' = session
    /\ UNCHANGED <<log, now, session, cursor, events, status, live, timer, request, scope, moves>>

(* A compaction card of the inspector opens its event, in its stream. *)
CompactionJump(card) ==
    /\ scope' = IF card.task = MainTaskId THEN Nil ELSE card.task
    /\ selectedSeq' = card.seq
    /\ picked' = session
    /\ UNCHANGED <<log, now, session, cursor, events, status, live, timer, request, moves>>

-----------------------------------------------------------------------------
TraceInit ==
    /\ log = [t \in Tasks |-> <<>>] /\ now = 0
    /\ session \in TraceSessions
    /\ cursor = Nothing /\ events = <<>> /\ status = "loading"
    /\ live = TRUE /\ timer = FALSE
    /\ request = NewRequest(session, cursor)
    /\ scope = Nil /\ selectedSeq = Nil /\ picked = session
    /\ moves = 0

TraceNext ==
    \/ \E t \in Tasks : \E type \in Following(IF log[t] = <<>> THEN "none" ELSE Last(log[t]).type, t) :
          Emit(t, type)
    \/ CollectStream \/ TickAnswered \/ TickFailed \/ TimerFires
    \/ SetLive \/ Refresh
    \/ \E s \in TraceSessions : OpenTrace(s)
    \/ \E task \in SubagentIds \cup {Nil} : SelectScope(task)
    \/ \E e \in ToSet(events) : SelectEvent(e)
    \/ \E card \in CollectCompactions : CompactionJump(card)

TraceFairness ==
    WF_traceVars(CollectStream) /\ WF_traceVars(TickAnswered) /\ WF_traceVars(TimerFires)

-----------------------------------------------------------------------------
OnPage(t) == SelectSeq(events, LAMBDA e : e.task = t)

(* No gaps, no repeats, and nothing of another session: the page holds of    *)
(* every stream exactly what was committed up to its cursor, in order, for   *)
(* a subtask too, whose numbers start again at 0 and whose stream grew while *)
(* the endpoint was reading its parent (applyRawEventsPage, _collect, the    *)
(* reset and abort of useTraceStream).                                       *)
NoGapNoRepeat ==
    /\ \A t \in Tasks : OnPage(t) = SubSeq(log[t], 1, After(cursor, t) + 1)
    /\ \A i \in DOMAIN events : events[i].task \in {RootOf[session], ChildOf[RootOf[session]]}

(* A subtask whose spawn is on the page has its stream read with it: its     *)
(* cursor is known, so that no later page forgets it (trace.py _collect).    *)
SubtasksFollowed == SubagentIds \subseteq DOMAIN cursor

(* On a timeline, an LLM round or a tool call is shown as unfinished only    *)
(* while the page does not hold its end, and no result stands without its    *)
(* call: ends fall in the turn of their beginning although another stream's  *)
(* turns run at the same time                                                *)
(* (groupByTurn, pairRound, pairTools, the scope of TracePage).              *)
RoundsPaired ==
    \A task \in SubagentIds \cup {Nil} : LET evs == Scoped(task) IN
        \A i \in TurnStarts(evs) : LET view == TurnView(GroupByTurn(evs, i)) IN
            /\ evs[i].type = "LLMRequestStarted" /\ view.inProgress => ~Pair(evs, evs[i], "LLMRequestFinished")
            /\ \A tool \in view.tools :
                  /\ tool.started
                  /\ ~tool.answered => ~\E k \in DOMAIN evs :
                        evs[k].type = "ToolResultRecorded" /\ evs[k].call = tool.call

(* The totals agree with the views: the timelines the execution tree offers  *)
(* show between them every envelope and every round counted, each once, one  *)
(* subagent's for each counted, and the compaction cards stand for as many   *)
(* envelopes and landings as were counted (traceTotals, collectTaskExecution,*)
(* collectCompactions).                                                      *)
TotalsAgree ==
    LET timelines == {Scoped(task) : task \in SubagentIds \cup {Nil}}
        turns(evs) == Cardinality({i \in TurnStarts(evs) : evs[i].type = "LLMRequestStarted"})
        landed == {c \in CollectCompactions : c.landed # -1}
        sides(c) == Cardinality({c.seq, c.landed} \ {-1})
    IN  /\ TraceTotals.events = MapThenSumSet(Len, timelines)
        /\ TraceTotals.rounds = MapThenSumSet(turns, timelines)
        /\ TraceTotals.subagents = Cardinality({RootOf[session]} \cup DOMAIN cursor) - 1
        /\ TraceTotals.summaryCompactions = Cardinality(landed)
        /\ TraceTotals.compactions = MapThenSumSet(sides, CollectCompactions)

(* Every compaction envelope on the page is on exactly one card, alone or as *)
(* the request or the landing of a pair (collectCompactions).                *)
CompactionsCounted ==
    \A e \in ToSet(events) : e.type \in {"CompactionRequested", "Compacted"} =>
        Cardinality({c \in CollectCompactions : c.task = e.task /\ e.seq \in {c.seq, c.landed}}) = 1

(* What is selected stays in the stream the timeline shows, until another    *)
(* session is opened (handleScopeSelect, handleCompactionJump).              *)
SelectionShown ==
    picked = session /\ selectedSeq # Nil /\ events # <<>> =>
        \E e \in ToSet(Scoped(scope)) : e.seq = selectedSeq

(* A page left live, whose requests stop failing, comes to hold everything   *)
(* the session's streams hold (the poll loop of useTraceStream).             *)
TraceCatchesUp ==
    <>[](live /\ status # "error")
        => <>[](\A t \in {RootOf[session], ChildOf[RootOf[session]]} : OnPage(t) = log[t])

(* The page is faithful to the streams it polls: complete, followed into   *)
(* the subtasks, paired, counted and selected within what it shows.        *)
TraceFaithful == /\ NoGapNoRepeat /\ SubtasksFollowed /\ RoundsPaired
                 /\ TotalsAgree /\ CompactionsCounted /\ SelectionShown
=============================================================================
