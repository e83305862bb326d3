---------------------------- MODULE SessionTurns ----------------------------
(***************************************************************************)
(* One session's turns: the verbs of the HTTP API (send, answer,           *)
(* interrupt, cancel, rewind), the engine tasks they drive, and the        *)
(* session row (`status`, `last_seq`, its task streams) that is derived    *)
(* from the envelopes the tasks commit.                                    *)
(*                                                                         *)
(* A request handler reads the row, resolves the stream and calls the      *)
(* engine in separate steps.  An envelope is committed first; the thread   *)
(* that committed it then runs the hub's hook, which asks the status       *)
(* machine and writes the row in two further steps.  Request threads and   *)
(* the worker of a task interleave between any two of these steps.         *)
(***************************************************************************)
EXTENDS Integers, FiniteSets

CONSTANTS
    Requests,   \* request threads; each serves one call at a time
    Tasks,      \* engine task ids; a task also names the worker driving it
    MaxSeq,     \* bound: a task's log length after which no new step starts
    MaxFaults   \* bound: process deaths and failed stream bindings

ASSUME ConstantsAssumption ==
    /\ MaxSeq \in Nat
    /\ MaxFaults \in Nat
    /\ Requests \cap Tasks = {}

VARIABLES
    task,       \* the engine's state of each task
    stop,       \* the engine's interrupt registry
    late,       \* tasks whose worker has not noticed a cancel yet
    nextSeq,    \* per task: the seq of its next envelope
    hook,       \* per thread: the envelope its post-commit hook is handling
    closed,     \* StatusMachine._closed
    routed,     \* EventHub._tasks
    status,     \* sessions.status
    lastSeq,    \* sessions.last_seq
    streams,    \* session_task_streams
    req,        \* per request thread: the handler it is in
    stale,      \* auxiliary: two hooks overlapped, or one died, and no
                \*   undisturbed write has followed
    faults

engineVars == <<task, stop, late>>
rowVars == <<status, lastSeq, streams>>
hubVars == <<closed, routed>>
vars == <<engineVars, nextSeq, hook, hubVars, rowVars, req, stale, faults>>

Threads == Requests \cup Tasks

-----------------------------------------------------------------------------
(* Envelopes and the status they imply *)

Unchanged == "unchanged"

TERMINAL_TYPES == {"TaskCancelled", "TaskFailed"}

SuspendTypes == {"SuspendedBarrier", "SuspendedQuestion", "SuspendedIdle"}

Types == {"TaskStarted", "TaskWoken", "UserQuestionRequested",
          "UserQuestionWithdrawn", "TurnInterrupted", "Other"}
             \cup SuspendTypes \cup TERMINAL_TYPES

(* Mutant of StatusFor: a suspend without a question handle reads as rest. *)
BarrierIsIdle(e) ==
    CASE e \in {"UserQuestionRequested", "SuspendedQuestion"} -> "waiting"
      [] e \in {"TaskStarted", "TaskWoken"}                   -> "running"
      [] e \in {"SuspendedIdle", "SuspendedBarrier"} \cup TERMINAL_TYPES -> "idle"
      [] OTHER                                                -> Unchanged

StatusFor(e) ==
    CASE e \in {"UserQuestionRequested", "SuspendedQuestion"}         -> "waiting"
      [] e \in {"TaskStarted", "TaskWoken", "SuspendedBarrier"}       -> "running"
      [] e \in {"SuspendedIdle"} \cup TERMINAL_TYPES                  -> "idle"
      [] OTHER                                                        -> Unchanged

NoHook == [stage |-> "none"]
NoReq == [verb |-> "none"]

Moves(h) == h # NoHook /\ StatusFor(h.type) # Unchanged

(* Thread th commits an envelope of task t and enters its hook.  A hook is *)
(* `solo` while no other thread's hook is moving the status as well.       *)
Commit(th, t, type) ==
    LET moving == StatusFor(type) # Unchanged
        rivals == {x \in Threads \ {th} : moving /\ Moves(hook[x])}
    IN  /\ hook[th] = NoHook
        /\ nextSeq' = [nextSeq EXCEPT ![t] = @ + 1]
        /\ hook' = [x \in Threads |->
              IF x = th
              THEN [stage |-> "observe", type |-> type, task |-> t,
                    seq |-> nextSeq[t], status |-> Unchanged,
                    solo |-> rivals = {}]
              ELSE IF x \in rivals THEN [hook[x] EXCEPT !.solo = FALSE]
              ELSE hook[x]]
        /\ stale' = (stale \/ rivals # {})

(* Bound: whether task t may take another step that lengthens its turn. *)
Room(t) == nextSeq[t] < MaxSeq

-----------------------------------------------------------------------------
Init ==
    /\ task = [t \in Tasks |-> "none"]
    /\ stop = [t \in Tasks |-> FALSE]
    /\ late = [t \in Tasks |-> FALSE]
    /\ nextSeq = [t \in Tasks |-> 0]
    /\ hook = [th \in Threads |-> NoHook]
    /\ closed = {}
    /\ routed = {}
    /\ status = "idle"
    /\ lastSeq = -1
    /\ streams = {}
    /\ req = [r \in Requests |-> NoReq]
    /\ stale = FALSE
    /\ faults = 0

-----------------------------------------------------------------------------
(* The hub's post-commit hook *)

(* An envelope of a task no session owns is dropped; otherwise the status  *)
(* machine is asked, under its lock.                                       *)
Observe(th) ==
    LET h == hook[th]
    IN  /\ h.stage = "observe"
        /\ IF h.task \notin routed
           THEN hook' = [hook EXCEPT ![th] = NoHook] /\ UNCHANGED closed
           ELSE /\ hook' = [hook EXCEPT ![th].stage = "write",
                                        ![th].status = IF h.task \in closed
                                                       THEN Unchanged
                                                       ELSE StatusFor(h.type)]
                /\ closed' = IF h.type \in TERMINAL_TYPES
                             THEN closed \cup {h.task} ELSE closed
        /\ UNCHANGED <<engineVars, nextSeq, routed, rowVars, req, stale, faults>>

(* Mutant of AdvanceSession: the last writer's seq is the mark. *)
AdvanceSessionNoMax(th) ==
    LET h == hook[th]
    IN  /\ h.stage = "write"
        /\ status' = IF h.status = Unchanged THEN status ELSE h.status
        /\ lastSeq' = h.seq
        /\ stale' = (stale /\ ~(h.solo /\ h.status # Unchanged))
        /\ hook' = [hook EXCEPT ![th] = NoHook]
        /\ UNCHANGED <<engineVars, nextSeq, hubVars, streams, req, faults>>

(* The row is written with what the status machine said. *)
AdvanceSession(th) ==
    LET h == hook[th]
    IN  /\ h.stage = "write"
        /\ status' = IF h.status = Unchanged THEN status ELSE h.status
        /\ lastSeq' = IF h.seq > lastSeq THEN h.seq ELSE lastSeq
        /\ stale' = (stale /\ ~(h.solo /\ h.status # Unchanged))
        /\ hook' = [hook EXCEPT ![th] = NoHook]
        /\ UNCHANGED <<engineVars, nextSeq, hubVars, streams, req, faults>>

-----------------------------------------------------------------------------
(* Request handlers *)

Free(r) == req[r] = NoReq /\ hook[r] = NoHook

At(r, verb, pc) == req[r] # NoReq /\ req[r].verb = verb /\ req[r].pc = pc

Handler(verb) == [verb |-> verb, pc |-> "resolve"]

Enter(r, q) ==
    /\ req' = [req EXCEPT ![r] = q]
    /\ UNCHANGED <<engineVars, nextSeq, hook, hubVars, rowVars, stale, faults>>

Refuse(r) == Enter(r, NoReq)

(* send_message reads the row once: waiting is a 409, running a steer. *)
SendMessage(r) ==
    /\ Free(r)
    /\ status # "waiting"
    /\ Enter(r, Handler(IF status = "running" THEN "steer" ELSE "send"))

(* answer, interrupt and cancel only require that the session exists. *)
AnswerOrStop(r) ==
    /\ Free(r)
    /\ \E verb \in {"answer", "interrupt", "cancel"} : Enter(r, Handler(verb))

(* rewind refuses anything but an idle session. *)
RewindRequest(r) ==
    /\ Free(r)
    /\ status = "idle"
    /\ Enter(r, Handler("rewind"))

(* The stream a verb addresses: the one the body names, or the newest.     *)
(* Without one only a plain send goes on, to seed the first.               *)
ResolveTaskId(r) ==
    /\ req[r] # NoReq
    /\ req[r].pc = "resolve"
    /\ \/ \E t \in streams :
             Enter(r, [verb |-> req[r].verb, pc |-> "act", task |-> t])
       \/ streams = {} /\ req[r].verb = "send"
             /\ Enter(r, [verb |-> "send", pc |-> "seed"])
       \/ streams = {} /\ req[r].verb # "send" /\ Refuse(r)

(* seed_start: the first envelopes of a new task, inside the seed window.  *)
SeedStart(r) ==
    /\ At(r, "send", "seed")
    /\ \E t \in Tasks :
          /\ task[t] = "none"
          /\ task' = [task EXCEPT ![t] = "seeded"]
          /\ Commit(r, t, "TaskStarted")
          /\ routed' = routed \cup {t}
          /\ req' = [req EXCEPT ![r] = [verb |-> "send", pc |-> "bind", task |-> t]]
    /\ UNCHANGED <<stop, late, closed, rowVars, faults>>

(* Mutant of Bind: a bookkeeping error propagates out of send_goal. *)
BindStrands(r) ==
    /\ At(r, "send", "bind")
    /\ hook[r] = NoHook
    /\ \/ /\ streams' = streams \cup {req[r].task}
          /\ req' = [req EXCEPT ![r].pc = "dispatch"]
          /\ UNCHANGED faults
       \/ /\ faults < MaxFaults
          /\ faults' = faults + 1
          /\ req' = [req EXCEPT ![r] = NoReq]
          /\ UNCHANGED streams
    /\ UNCHANGED <<engineVars, nextSeq, hook, hubVars, status, lastSeq, stale>>

(* The stream row is written; a failure to write it is swallowed. *)
Bind(r) ==
    /\ At(r, "send", "bind")
    /\ hook[r] = NoHook
    /\ \/ streams' = streams \cup {req[r].task} /\ UNCHANGED faults
       \/ faults < MaxFaults /\ faults' = faults + 1 /\ UNCHANGED streams
    /\ req' = [req EXCEPT ![r].pc = "dispatch"]
    /\ UNCHANGED <<engineVars, nextSeq, hook, hubVars, status, lastSeq, stale>>

(* dispatch_seeded: a worker picks the seeded turn up. *)
Dispatch(r) ==
    /\ req[r] # NoReq
    /\ req[r].pc = "dispatch"
    /\ hook[r] = NoHook
    /\ LET t == req[r].task
       IN  task' = [task EXCEPT ![t] = IF @ = "seeded" THEN "running" ELSE @]
    /\ req' = [req EXCEPT ![r] = NoReq]
    /\ UNCHANGED <<stop, late, nextSeq, hook, hubVars, rowVars, stale, faults>>

(* The engine wakes a suspended task; its turn is seeded on this thread.   *)
Resume(r, t) ==
    /\ Room(t)
    /\ task' = [task EXCEPT ![t] = "seeded"]
    /\ Commit(r, t, "TaskWoken")
    /\ req' = [req EXCEPT ![r].pc = "dispatch"]
    /\ UNCHANGED <<stop, late, hubVars, rowVars, faults>>

(* An envelope that moves no engine state: a marker. *)
Mark(r, t, type) ==
    /\ Commit(r, t, type)
    /\ req' = [req EXCEPT ![r] = NoReq]
    /\ UNCHANGED <<task, late, hubVars, rowVars, faults>>

(* The engine states in which a turn is executing. *)
InFlight == {"seeded", "running", "asking", "barrier"}

SendGoal(r) ==
    /\ At(r, "send", "act")
    /\ LET t == req[r].task
       IN  \/ task[t] = "parked" /\ Resume(r, t)
           \/ task[t] # "parked" /\ Refuse(r)

(* inject_goal is dispatched on the task's own state, not on the row. *)
InjectGoal(r) ==
    /\ At(r, "steer", "act")
    /\ LET t == req[r].task
       IN  \/ task[t] \in InFlight /\ Room(t) /\ Mark(r, t, "Other") /\ UNCHANGED stop
           \/ task[t] = "parked" /\ Resume(r, t)
           \/ task[t] \notin InFlight \cup {"parked"} /\ Refuse(r)

Answer(r) ==
    /\ At(r, "answer", "act")
    /\ LET t == req[r].task
       IN  \/ task[t] = "question" /\ Resume(r, t)
           \/ task[t] # "question" /\ Refuse(r)

(* A marker for the worker to find; on a question, a withdrawal.  The      *)
(* registry is armed only when a turn is in flight.                        *)
Interrupt(r) ==
    /\ At(r, "interrupt", "act")
    /\ LET t == req[r].task
       IN  \/ task[t] = "dead" /\ Refuse(r)
           \/ /\ task[t] = "question"
              /\ Room(t)
              /\ task' = [task EXCEPT ![t] = "withdrawing"]
              /\ Commit(r, t, "TaskWoken")
              /\ req' = [req EXCEPT ![r].pc = "withdraw"]
              /\ UNCHANGED <<stop, late, hubVars, rowVars, faults>>
           \/ /\ task[t] \notin {"dead", "question"}
              /\ Room(t)
              /\ Mark(r, t, "TurnInterrupted")
              /\ stop' = [stop EXCEPT ![t] = task[t] \in InFlight]

(* The two envelopes that finish a withdrawal, unless a cancel came first. *)
Withdraw(r) ==
    /\ At(r, "interrupt", "withdraw")
    /\ LET t == req[r].task
       IN  \/ /\ task[t] = "withdrawing"
              /\ Commit(r, t, "UserQuestionWithdrawn")
              /\ req' = [req EXCEPT ![r].pc = "settle"]
              /\ UNCHANGED <<engineVars, hubVars, rowVars, faults>>
           \/ task[t] # "withdrawing" /\ hook[r] = NoHook /\ Refuse(r)

Settle(r) ==
    /\ At(r, "interrupt", "settle")
    /\ LET t == req[r].task
       IN  \/ /\ task[t] = "withdrawing"
              /\ task' = [task EXCEPT ![t] = "parked"]
              /\ Commit(r, t, "SuspendedIdle")
              /\ req' = [req EXCEPT ![r] = NoReq]
              /\ UNCHANGED <<stop, late, hubVars, rowVars, faults>>
           \/ task[t] # "withdrawing" /\ hook[r] = NoHook /\ Refuse(r)

Cancel(r) ==
    /\ At(r, "cancel", "act")
    /\ LET t == req[r].task
       IN  \/ task[t] = "dead" /\ Refuse(r)
           \/ /\ task[t] # "dead"
              /\ task' = [task EXCEPT ![t] = "dead"]
              /\ late' = [late EXCEPT ![t] = task[t] \in {"running", "asking"}]
              /\ Commit(r, t, "TaskCancelled")
              /\ req' = [req EXCEPT ![r] = NoReq]
              /\ UNCHANGED <<stop, hubVars, rowVars, faults>>

(* The engine appends a TaskRewound marker and restores the files. *)
Rewind(r) ==
    /\ At(r, "rewind", "act")
    /\ LET t == req[r].task
       IN  Room(t) /\ Mark(r, t, "Other") /\ UNCHANGED stop

-----------------------------------------------------------------------------
(* The worker driving a task *)

(* The worker moves its task from one state to another with an envelope. *)
Drive(t, from, to, type) ==
    /\ task[t] = from
    /\ task' = [task EXCEPT ![t] = to]
    /\ Commit(t, t, type)
    /\ UNCHANGED <<late, hubVars, rowVars, req, faults>>

Ask(t) == Room(t) /\ Drive(t, "running", "asking", "UserQuestionRequested") /\ UNCHANGED stop
SuspendQuestion(t) == Drive(t, "asking", "question", "SuspendedQuestion") /\ UNCHANGED stop
SuspendBarrier(t) == Room(t) /\ Drive(t, "running", "barrier", "SuspendedBarrier")
                         /\ UNCHANGED stop
SubtasksDone(t) == Drive(t, "barrier", "running", "TaskWoken") /\ UNCHANGED stop

(* The turn ends: finished, interrupted, or failed and resumable. *)
EndTurn(t) ==
    /\ Drive(t, "running", "parked", "SuspendedIdle")
    /\ stop' = [stop EXCEPT ![t] = FALSE]

(* The task ends for good. *)
Fail(t) == Drive(t, "running", "dead", "TaskFailed") /\ UNCHANGED stop

(* The suspend a worker still writes after its task was cancelled. *)
LateSuspend(t) ==
    /\ late[t]
    /\ late' = [late EXCEPT ![t] = FALSE]
    /\ \E type \in SuspendTypes : Commit(t, t, type)
    /\ UNCHANGED <<task, stop, hubVars, rowVars, req, faults>>

-----------------------------------------------------------------------------
(* The status an engine state should read as. *)
StatusOf(s) ==
    CASE s \in {"seeded", "running", "barrier", "withdrawing"} -> "running"
      [] s \in {"asking", "question"}                          -> "waiting"
      [] s \in {"none", "parked", "dead"}                      -> "idle"

(* The process dies and comes back: the routing is rebuilt from the        *)
(* stream rows and every leased task is requeued.                          *)
Restart ==
    /\ faults < MaxFaults
    /\ faults' = faults + 1
    /\ task' = [t \in Tasks |-> IF task[t] \in {"seeded", "asking", "withdrawing"}
                                THEN "running" ELSE task[t]]
    /\ stop' = [t \in Tasks |-> FALSE]
    /\ late' = [t \in Tasks |-> FALSE]
    /\ hook' = [th \in Threads |-> NoHook]
    /\ closed' = {}
    /\ routed' = streams
    /\ req' = [r \in Requests |-> NoReq]
    /\ stale' = (stale \/ (\E th \in Threads : Moves(hook[th]))
                       \/ (\E t \in Tasks : StatusOf(task'[t]) # StatusOf(task[t])))
    /\ UNCHANGED <<nextSeq, rowVars>>

-----------------------------------------------------------------------------
Hook(th) == Observe(th) \/ AdvanceSession(th)
Arrive(r) == SendMessage(r) \/ AnswerOrStop(r) \/ RewindRequest(r)
Serve(r) == ResolveTaskId(r) \/ SeedStart(r) \/ Bind(r) \/ Dispatch(r) \/ SendGoal(r)
                \/ InjectGoal(r) \/ Answer(r) \/ Interrupt(r) \/ Withdraw(r)
                \/ Settle(r) \/ Cancel(r) \/ Rewind(r)
Worker(t) == Ask(t) \/ SuspendQuestion(t) \/ SuspendBarrier(t) \/ SubtasksDone(t)
                 \/ EndTurn(t) \/ Fail(t) \/ LateSuspend(t)

Next ==
    \/ \E th \in Threads : Hook(th)
    \/ \E r \in Requests : Arrive(r) \/ Serve(r)
    \/ \E t \in Tasks : Worker(t)
    \/ Restart

Spec == Init /\ [][Next]_vars

(* A hook returns, a handler runs to its end and a leased turn is driven.  *)
(* Nothing is assumed of the user: no request has to arrive.               *)
Fairness ==
    /\ \A th \in Threads : WF_vars(Hook(th))
    /\ \A r \in Requests : WF_vars(Serve(r))
    /\ \A t \in Tasks : WF_vars(Worker(t))

FairSpec == Spec /\ Fairness

-----------------------------------------------------------------------------
(* Properties *)

Quiet == \A th \in Threads : hook[th] = NoHook

TaskStates == {"none", "seeded", "running", "asking", "barrier", "question",
               "withdrawing", "parked", "dead"}

Statuses == {"idle", "running", "waiting"}

Envelopes == [stage : {"observe", "write"}, type : Types, task : Tasks, seq : Nat,
              status : Statuses \cup {Unchanged}, solo : BOOLEAN]

Handlers ==
    LET verbs == {"send", "steer", "answer", "interrupt", "cancel", "rewind"}
    IN  [verb : verbs, pc : {"resolve", "seed"}]
            \cup [verb : verbs, task : Tasks,
                  pc : {"act", "bind", "dispatch", "withdraw", "settle"}]

(* Every variable has its type. *)
TypeOK ==
    /\ task \in [Tasks -> TaskStates]
    /\ stop \in [Tasks -> BOOLEAN]
    /\ late \in [Tasks -> BOOLEAN]
    /\ nextSeq \in [Tasks -> Nat]
    /\ hook \in [Threads -> Envelopes \cup {NoHook}]
    /\ closed \subseteq Tasks
    /\ routed \subseteq Tasks
    /\ status \in Statuses
    /\ lastSeq \in Nat \cup {-1}
    /\ streams \subseteq Tasks
    /\ req \in [Requests -> Handlers \cup {NoReq}]
    /\ stale \in BOOLEAN
    /\ faults \in Nat

(* The session row's activity mark (advance_session's MAX) loses nothing:  *)
(* once the hooks are quiet it is the newest envelope of the session's     *)
(* tasks, in whatever order the hooks wrote it.                            *)
HighWater ==
    Quiet /\ faults = 0 =>
        /\ \A t \in Tasks : nextSeq[t] - 1 <= lastSeq
        /\ lastSeq >= 0 => \E t \in Tasks : lastSeq = nextSeq[t] - 1

(* The stored status is the one the engine is in whenever the hooks are    *)
(* quiet, unless two hooks overlapped or one died with the process; and    *)
(* then the next undisturbed write repairs it.  A barrier reads running,   *)
(* an interrupt moves nothing, a cancelled task never speaks again.        *)
StatusTracks ==
    Quiet /\ ~stale => \A t \in streams : status = StatusOf(task[t])

(* status.py: a late suspend must never "wedge the session permanently",   *)
(* that is leave it waiting with no question anybody can answer.           *)
NotWedged ==
    Quiet /\ status = "waiting" /\ faults = 0 =>
        \E t \in streams : StatusOf(task[t]) = "waiting"

(* Every seeded turn is driven to a rest, although the process may die     *)
(* between the seed and the dispatch and although the stream row may fail  *)
(* to be written (_bind: "a lost binding is logged and the turn drives     *)
(* anyway").                                                               *)
TurnsEnd ==
    \A t \in Tasks :
        task[t] = "seeded" ~> task[t] \in {"parked", "question", "dead"}

(* The session row is sound: every variable has its type and the activity  *)
(* mark loses no envelope.                                                 *)
RowSound == TypeOK /\ HighWater
=============================================================================
