----------------------------- MODULE TurnProofs -----------------------------
(***************************************************************************)
(* The session row, for every number of request threads and tasks.  Its    *)
(* activity mark loses no envelope (HighWater): whatever a task has        *)
(* committed is below the mark or still in the hands of a hook that has    *)
(* yet to write it, and a hook drops no envelope because a task is in the  *)
(* routing before it commits, until a process death rebuilds the routing.  *)
(***************************************************************************)
EXTENDS SessionTurns, TLAPS

(* Handlers that have resolved their stream know its task.                 *)
Resolved(q) == q # NoReq /\ q.pc \notin {"resolve", "seed"}

(* Every task that has committed, or is about to, is in the hub's routing. *)
Routed ==
    faults = 0 =>
        /\ \A t \in Tasks : task[t] # "none" \/ late[t] => t \in routed
        /\ streams \subseteq routed
        /\ \A r \in Requests : Resolved(req[r]) => req[r].task \in routed
        /\ \A th \in Threads : hook[th] # NoHook => hook[th].task \in routed

(* A hook handles an envelope that has been committed.                     *)
Committed == \A th \in Threads : hook[th] # NoHook => hook[th].seq < nextSeq[hook[th].task]

InHand(t, s) == \E th \in Threads : hook[th] # NoHook /\ hook[th].task = t /\ hook[th].seq = s

(* No envelope gets lost on its way to the mark, and the mark is one's seq. *)
Marked ==
    faults = 0 =>
        /\ \A t \in Tasks : \A s \in 0 .. nextSeq[t] - 1 : s <= lastSeq \/ InHand(t, s)
        /\ lastSeq = -1 \/ \E t \in Tasks : lastSeq < nextSeq[t]

RowInv == TypeOK /\ Routed /\ Committed /\ Marked

-----------------------------------------------------------------------------
(* Envelopes, handlers and commits *)

LEMMA StatusForType ==
    ASSUME NEW e \in Types PROVE StatusFor(e) \in Statuses \cup {Unchanged}
  BY DEF StatusFor, Statuses

(* An envelope in a hook is not the absence of one.                        *)
LEMMA EnvelopeFields ==
    ASSUME NEW h \in Envelopes \cup {NoHook}
    PROVE  /\ h # NoHook <=> h \in Envelopes
           /\ h.stage \in {"observe", "write"} => h \in Envelopes
           /\ h \in Envelopes =>
                /\ h.stage \in {"observe", "write"} /\ h.type \in Types /\ h.task \in Tasks
                /\ h.seq \in Nat /\ h.status \in Statuses \cup {Unchanged}
                /\ h.solo \in BOOLEAN
<1>1. NoHook.stage = "none"
  BY DEF NoHook
<1>2. \A g \in Envelopes : g.stage \in {"observe", "write"}
  BY DEF Envelopes
<1>3. QED
  BY <1>1, <1>2 DEF Envelopes

(* A handler's record, and what a step of it makes of it.                  *)
LEMMA HandlerFields ==
    ASSUME NEW q \in Handlers \cup {NoReq}
    PROVE  /\ q # NoReq /\ q.pc \in {"act", "bind", "dispatch", "withdraw", "settle"} =>
                /\ q.task \in Tasks
                /\ \A p \in {"act", "bind", "dispatch", "withdraw", "settle"} :
                     [q EXCEPT !.pc = p] \in Handlers
           /\ Resolved(q) => q.task \in Tasks
           /\ q # NoReq => q.verb \in {"send", "steer", "answer", "interrupt", "cancel", "rewind"}
  BY DEF Handlers, NoReq, Resolved

(* Commit puts one new envelope, the task's next, in the hook of its       *)
(* thread, and of the others at most `solo` changes.                       *)
LEMMA CommitEffect ==
    ASSUME TypeOK, NEW th \in Threads, NEW t \in Tasks, NEW type \in Types,
           Commit(th, t, type)
    PROVE  /\ nextSeq' \in [Tasks -> Nat] /\ stale' \in BOOLEAN
           /\ nextSeq' = [nextSeq EXCEPT ![t] = nextSeq[t] + 1]
           /\ hook' \in [Threads -> Envelopes \cup {NoHook}]
           /\ hook[th] = NoHook
           /\ hook'[th] \in Envelopes /\ hook'[th].task = t /\ hook'[th].seq = nextSeq[t]
           /\ hook'[th].stage = "observe" /\ hook'[th].type = type
           /\ \A x \in Threads \ {th} :
                /\ hook'[x] = NoHook <=> hook[x] = NoHook
                /\ hook[x] # NoHook =>
                     /\ hook'[x].task = hook[x].task /\ hook'[x].seq = hook[x].seq
                     /\ hook'[x].stage = hook[x].stage /\ hook'[x].type = hook[x].type
                     /\ hook'[x].status = hook[x].status
<1> DEFINE moving == StatusFor(type) # Unchanged
           rivals == {x \in Threads \ {th} : moving /\ Moves(hook[x])}
           new == [stage |-> "observe", type |-> type, task |-> t, seq |-> nextSeq[t],
                   status |-> Unchanged, solo |-> rivals = {}]
<1>1. /\ nextSeq \in [Tasks -> Nat] /\ hook \in [Threads -> Envelopes \cup {NoHook}]
      /\ stale \in BOOLEAN /\ nextSeq[t] \in Nat
  BY DEF TypeOK
<1>2. /\ hook[th] = NoHook
      /\ nextSeq' = [nextSeq EXCEPT ![t] = nextSeq[t] + 1]
      /\ hook' = [x \in Threads |-> IF x = th THEN new
                                   ELSE IF x \in rivals THEN [hook[x] EXCEPT !.solo = FALSE]
                                   ELSE hook[x]]
      /\ stale' = (stale \/ rivals # {})
  BY DEF Commit
<1>3. new \in Envelopes /\ new # NoHook
  BY <1>1 DEF Envelopes, NoHook
<1>4. ASSUME NEW x \in Threads \ {th}
      PROVE  /\ hook'[x] \in Envelopes \cup {NoHook}
             /\ hook'[x] = NoHook <=> hook[x] = NoHook
             /\ hook[x] # NoHook =>
                  /\ hook'[x].task = hook[x].task /\ hook'[x].seq = hook[x].seq
                  /\ hook'[x].stage = hook[x].stage /\ hook'[x].type = hook[x].type
                  /\ hook'[x].status = hook[x].status
  <2>1. CASE x \in rivals
    <3>1. hook[x] # NoHook /\ hook[x] \in Envelopes
      BY <1>1, <2>1 DEF Moves
    <3>2. hook'[x] = [hook[x] EXCEPT !.solo = FALSE]
      BY <1>2, <2>1
    <3>3. hook'[x] \in Envelopes /\ hook'[x] # NoHook
      BY <3>1, <3>2, EnvelopeFields DEF Envelopes
    <3>4. QED
      BY <3>1, <3>2, <3>3 DEF Envelopes
  <2>2. CASE x \notin rivals
    BY <1>1, <1>2, <2>2
  <2>3. QED
    BY <2>1, <2>2
<1> HIDE DEF new, rivals
<1>5. hook'[th] = new
  BY <1>2
<1>6. hook' \in [Threads -> Envelopes \cup {NoHook}]
  <2>1. \A x \in Threads : hook'[x] \in Envelopes \cup {NoHook}
    BY <1>3, <1>4, <1>5
  <2>2. hook' = [x \in Threads |-> hook'[x]]
    BY <1>2
  <2>3. QED
    BY <2>1, <2>2
<1>7. new.task = t /\ new.seq = nextSeq[t] /\ new.stage = "observe" /\ new.type = type
  BY DEF new
<1>8. QED
  BY <1>1, <1>2, <1>3, <1>4, <1>5, <1>6, <1>7

-----------------------------------------------------------------------------
(* Types *)

LEMMA TypeInit == Init => TypeOK
<1>1. SUFFICES ASSUME Init PROVE TypeOK
  OBVIOUS
<1>2. /\ task \in [Tasks -> TaskStates] /\ stop \in [Tasks -> BOOLEAN]
      /\ late \in [Tasks -> BOOLEAN] /\ nextSeq \in [Tasks -> Nat]
  BY <1>1 DEF Init, TaskStates
<1>3. hook \in [Threads -> Envelopes \cup {NoHook}] /\ req \in [Requests -> Handlers \cup {NoReq}]
  BY <1>1 DEF Init
<1>4. /\ closed \subseteq Tasks /\ routed \subseteq Tasks /\ status \in Statuses
      /\ lastSeq \in Nat \cup {-1} /\ streams \subseteq Tasks /\ stale \in BOOLEAN /\ faults \in Nat
  BY <1>1 DEF Init, Statuses
<1>5. QED
  BY <1>2, <1>3, <1>4 DEF TypeOK

(* The two steps of the hub's hook.                                        *)
LEMMA HookType ==
    ASSUME TypeOK, NEW th \in Threads, Hook(th)
    PROVE  TypeOK' /\ hook[th] \in Envelopes
<1>1. /\ hook \in [Threads -> Envelopes \cup {NoHook}] /\ closed \subseteq Tasks
      /\ status \in Statuses /\ lastSeq \in Nat \cup {-1} /\ stale \in BOOLEAN
  BY DEF TypeOK
<1>2. hook[th] \in Envelopes
  BY <1>1, EnvelopeFields DEF Hook, Observe, AdvanceSession
<1>3. StatusFor(hook[th].type) \in Statuses \cup {Unchanged}
  BY <1>2, EnvelopeFields, StatusForType
<1>4. CASE Observe(th)
  <2>1. closed' \subseteq Tasks
    BY <1>1, <1>2, <1>4, EnvelopeFields DEF Observe
  <2>2. hook' \in [Threads -> Envelopes \cup {NoHook}]
    <3>1. CASE hook[th].task \notin routed
      BY <1>1, <1>4, <3>1 DEF Observe
    <3>2. CASE hook[th].task \in routed
      <4> DEFINE new == [hook[th] EXCEPT !.stage = "write",
                            !.status = IF hook[th].task \in closed THEN Unchanged
                                       ELSE StatusFor(hook[th].type)]
      <4>1. new \in Envelopes
        BY <1>2, <1>3 DEF Envelopes
      <4>2. hook' = [hook EXCEPT ![th] = new]
        BY <1>1, <1>4, <3>2 DEF Observe
      <4> HIDE DEF new
      <4>3. QED
        BY <1>1, <4>1, <4>2
    <3>3. QED
      BY <3>1, <3>2
  <2>3. QED
    BY <1>2, <1>4, <2>1, <2>2 DEF Observe, TypeOK, engineVars, rowVars
<1>5. CASE AdvanceSession(th)
  <2>1. status' \in Statuses /\ lastSeq' \in Nat \cup {-1} /\ stale' \in BOOLEAN
    BY <1>1, <1>2, <1>5, EnvelopeFields DEF AdvanceSession
  <2>2. hook' \in [Threads -> Envelopes \cup {NoHook}]
    BY <1>1, <1>5 DEF AdvanceSession
  <2>3. QED
    BY <1>2, <1>5, <2>1, <2>2 DEF AdvanceSession, TypeOK, engineVars, hubVars
<1>6. QED
  BY <1>4, <1>5 DEF Hook

(* A handler that moves on, or is done, and changes nothing else.          *)
LEMMA EnterType ==
    ASSUME TypeOK, NEW r \in Requests, NEW q \in Handlers \cup {NoReq}, Enter(r, q)
    PROVE  TypeOK'
<1>1. req' \in [Requests -> Handlers \cup {NoReq}]
  BY DEF Enter, TypeOK
<1>2. QED
  BY <1>1 DEF Enter, TypeOK, engineVars, hubVars, rowVars

LEMMA RefuseType ==
    ASSUME TypeOK, NEW r \in Requests, Refuse(r)
    PROVE  TypeOK'
  BY EnterType DEF Refuse

(* A handler that addresses a task knows it.                               *)
LEMMA Addressed ==
    ASSUME TypeOK, NEW r \in Requests, NEW p \in {"act", "bind", "dispatch", "withdraw", "settle"},
           req[r] # NoReq, req[r].pc = p
    PROVE  /\ req[r].task \in Tasks /\ r \in Threads
           /\ \A n \in {"act", "bind", "dispatch", "withdraw", "settle"} :
                [req EXCEPT ![r].pc = n] \in [Requests -> Handlers \cup {NoReq}]
           /\ [req EXCEPT ![r] = NoReq] \in [Requests -> Handlers \cup {NoReq}]
<1>1. req \in [Requests -> Handlers \cup {NoReq}]
  BY DEF TypeOK
<1>2. req[r].task \in Tasks
  BY <1>1, HandlerFields
<1>3. ASSUME NEW n \in {"act", "bind", "dispatch", "withdraw", "settle"}
      PROVE  [req EXCEPT ![r].pc = n] \in [Requests -> Handlers \cup {NoReq}]
  <2> DEFINE q == [req[r] EXCEPT !.pc = n]
  <2>1. q \in Handlers
    BY <1>1, HandlerFields
  <2>2. [req EXCEPT ![r].pc = n] = [req EXCEPT ![r] = q]
    OBVIOUS
  <2> HIDE DEF q
  <2>3. QED
    BY <1>1, <2>1, <2>2
<1>4. QED
  BY <1>1, <1>2, <1>3 DEF Threads

LEMMA TypeNames ==
    /\ {"TaskStarted", "TaskWoken", "UserQuestionRequested", "UserQuestionWithdrawn",
        "TurnInterrupted", "Other", "TaskCancelled", "TaskFailed"} \cup SuspendTypes \subseteq Types
    /\ {"SuspendedBarrier", "SuspendedQuestion", "SuspendedIdle"} \subseteq Types
  BY DEF Types, SuspendTypes, TERMINAL_TYPES

(* The request handlers.                                                   *)
LEMMA ResumeType ==
    ASSUME TypeOK, NEW r \in Requests, req[r] # NoReq, req[r].pc = "act", Resume(r, req[r].task)
    PROVE  TypeOK'
<1> DEFINE t == req[r].task
<1>1. t \in Tasks /\ r \in Threads
  BY Addressed
<1>2. nextSeq' \in [Tasks -> Nat] /\ stale' \in BOOLEAN /\ hook' \in [Threads -> Envelopes \cup {NoHook}]
  BY <1>1, CommitEffect, TypeNames DEF Resume
<1>3. req' \in [Requests -> Handlers \cup {NoReq}]
  BY Addressed DEF Resume
<1>4. task' \in [Tasks -> TaskStates]
  BY <1>1 DEF Resume, TypeOK, TaskStates
<1>5. QED
  BY <1>2, <1>3, <1>4 DEF Resume, TypeOK, hubVars, rowVars

LEMMA MarkType ==
    ASSUME TypeOK, NEW r \in Requests, req[r] # NoReq, req[r].pc = "act",
           NEW type \in Types, Mark(r, req[r].task, type), stop' \in [Tasks -> BOOLEAN]
    PROVE  TypeOK'
<1> DEFINE t == req[r].task
<1>1. t \in Tasks /\ r \in Threads
  BY Addressed
<1>2. nextSeq' \in [Tasks -> Nat] /\ stale' \in BOOLEAN /\ hook' \in [Threads -> Envelopes \cup {NoHook}]
  BY <1>1, CommitEffect DEF Mark
<1>3. req' \in [Requests -> Handlers \cup {NoReq}]
  BY Addressed DEF Mark
<1>4. QED
  BY <1>2, <1>3 DEF Mark, TypeOK, hubVars, rowVars

LEMMA ServeType ==
    ASSUME TypeOK, NEW r \in Requests, Arrive(r) \/ Serve(r)
    PROVE  TypeOK'
<1> DEFINE t == req[r].task
<1>1. /\ task \in [Tasks -> TaskStates] /\ stop \in [Tasks -> BOOLEAN]
      /\ late \in [Tasks -> BOOLEAN] /\ streams \subseteq Tasks /\ faults \in Nat
      /\ r \in Threads
  BY DEF TypeOK, Threads
<1>2. CASE Arrive(r)
  <2>1. \A verb \in {"send", "steer", "answer", "interrupt", "cancel", "rewind"} :
            Handler(verb) \in Handlers
    BY DEF Handler, Handlers
  <2>2. \E verb \in {"send", "steer", "answer", "interrupt", "cancel", "rewind"} :
            Enter(r, Handler(verb))
    BY <1>2 DEF Arrive, SendMessage, AnswerOrStop, RewindRequest
  <2>3. QED
    BY <2>1, <2>2, EnterType
<1>3. CASE ResolveTaskId(r)
  <2>1. req[r] # NoReq /\ req[r] \in Handlers \cup {NoReq}
    BY <1>3 DEF ResolveTaskId, TypeOK
  <2>2. \A u \in Tasks : [verb |-> req[r].verb, pc |-> "act", task |-> u] \in Handlers
    BY <2>1, HandlerFields DEF Handlers
  <2>3. [verb |-> "send", pc |-> "seed"] \in Handlers
    BY DEF Handlers
  <2>4. QED
    BY <1>1, <1>3, <2>2, <2>3, EnterType, RefuseType DEF ResolveTaskId
<1>4. CASE SeedStart(r)
  <2>1. PICK u \in Tasks :
          /\ task' = [task EXCEPT ![u] = "seeded"]
          /\ Commit(r, u, "TaskStarted")
          /\ routed' = routed \cup {u}
          /\ req' = [req EXCEPT ![r] = [verb |-> "send", pc |-> "bind", task |-> u]]
    BY <1>4 DEF SeedStart
  <2>2. nextSeq' \in [Tasks -> Nat] /\ stale' \in BOOLEAN /\ hook' \in [Threads -> Envelopes \cup {NoHook}]
    BY <1>1, <2>1, CommitEffect, TypeNames
  <2>3. [verb |-> "send", pc |-> "bind", task |-> u] \in Handlers
    BY DEF Handlers
  <2>4. req' \in [Requests -> Handlers \cup {NoReq}]
    BY <2>1, <2>3 DEF TypeOK
  <2>5. task' \in [Tasks -> TaskStates] /\ routed' \subseteq Tasks
    BY <2>1 DEF TypeOK, TaskStates
  <2>6. QED
    BY <1>4, <2>2, <2>4, <2>5 DEF SeedStart, TypeOK, rowVars
<1>5. CASE Bind(r)
  <2>1. req[r] # NoReq /\ req[r].pc = "bind"
    BY <1>5 DEF Bind, At
  <2>2. t \in Tasks /\ req' \in [Requests -> Handlers \cup {NoReq}]
    BY <1>5, <2>1, Addressed DEF Bind
  <2>3. streams' \subseteq Tasks /\ faults' \in Nat
    BY <1>1, <1>5, <2>2 DEF Bind
  <2>4. QED
    BY <1>5, <2>2, <2>3 DEF Bind, TypeOK, engineVars, hubVars
<1>6. CASE Dispatch(r)
  <2>1. t \in Tasks /\ req' \in [Requests -> Handlers \cup {NoReq}]
    BY <1>6, Addressed DEF Dispatch
  <2>2. task' \in [Tasks -> TaskStates]
    BY <1>1, <1>6, <2>1 DEF Dispatch, TaskStates
  <2>3. QED
    BY <1>6, <2>1, <2>2 DEF Dispatch, TypeOK, hubVars, rowVars
<1>7. CASE SendGoal(r) \/ Answer(r)
  BY <1>7, ResumeType, RefuseType DEF SendGoal, Answer, At
<1>8. CASE InjectGoal(r)
  BY <1>1, <1>8, ResumeType, RefuseType, MarkType, TypeNames DEF InjectGoal, At
<1>9. CASE Interrupt(r)
  <2>1. req[r] # NoReq /\ req[r].pc = "act" /\ t \in Tasks
    BY <1>9, Addressed DEF Interrupt, At
  <2>2. CASE task[t] = "dead" /\ Refuse(r)
    BY <2>2, RefuseType
  <2>3. CASE task[t] = "question"
    <3>1. /\ task' = [task EXCEPT ![t] = "withdrawing"] /\ Commit(r, t, "TaskWoken")
          /\ req' = [req EXCEPT ![r].pc = "withdraw"]
          /\ UNCHANGED <<stop, late, hubVars, rowVars, faults>>
      BY <1>9, <2>3 DEF Interrupt
    <3>2. nextSeq' \in [Tasks -> Nat] /\ stale' \in BOOLEAN /\ hook' \in [Threads -> Envelopes \cup {NoHook}]
      BY <1>1, <2>1, <3>1, CommitEffect, TypeNames
    <3>3. req' \in [Requests -> Handlers \cup {NoReq}]
      BY <2>1, <3>1, Addressed
    <3>4. task' \in [Tasks -> TaskStates]
      BY <1>1, <2>1, <3>1 DEF TaskStates
    <3>5. QED
      BY <3>1, <3>2, <3>3, <3>4 DEF TypeOK, hubVars, rowVars
  <2>4. CASE Mark(r, t, "TurnInterrupted") /\ stop' = [stop EXCEPT ![t] = task[t] \in InFlight]
    <3>1. stop' \in [Tasks -> BOOLEAN]
      <4>1. PICK b \in BOOLEAN : b = (task[t] \in InFlight)
        <5>1. (task[t] \in InFlight) = TRUE \/ (task[t] \in InFlight) = FALSE
          OBVIOUS
        <5>2. QED
          BY <5>1
      <4>2. stop' = [stop EXCEPT ![t] = b]
        BY <2>4, <4>1
      <4>3. QED
        BY <1>1, <4>2
    <3>2. QED
      BY <2>1, <2>4, <3>1, MarkType, TypeNames
  <2>5. QED
    BY <1>9, <2>2, <2>3, <2>4 DEF Interrupt
<1>10. CASE Withdraw(r) \/ Settle(r)
  <2>1. /\ req[r] # NoReq /\ req[r].pc \in {"withdraw", "settle"} /\ t \in Tasks
        /\ [req EXCEPT ![r] = NoReq] \in [Requests -> Handlers \cup {NoReq}]
        /\ [req EXCEPT ![r].pc = "settle"] \in [Requests -> Handlers \cup {NoReq}]
    <3>1. req[r] # NoReq /\ req[r].pc \in {"withdraw", "settle"}
      BY <1>10 DEF Withdraw, Settle, At
    <3>2. QED
      BY <3>1, Addressed
  <2>2. CASE Refuse(r)
    BY <2>2, RefuseType
  <2>3. CASE ~Refuse(r)
    <3>1. /\ \E type \in {"UserQuestionWithdrawn", "SuspendedIdle"} : Commit(r, t, type)
          /\ req' \in {[req EXCEPT ![r] = NoReq], [req EXCEPT ![r].pc = "settle"]}
          /\ task' = task \/ task' = [task EXCEPT ![t] = "parked"]
          /\ UNCHANGED <<stop, late, hubVars, rowVars, faults>>
      BY <1>10, <2>3 DEF Withdraw, Settle, engineVars
    <3>2. nextSeq' \in [Tasks -> Nat] /\ stale' \in BOOLEAN /\ hook' \in [Threads -> Envelopes \cup {NoHook}]
      BY <1>1, <2>1, <3>1, CommitEffect, TypeNames
    <3>3. task' \in [Tasks -> TaskStates]
      BY <1>1, <2>1, <3>1 DEF TaskStates
    <3>4. QED
      BY <2>1, <3>1, <3>2, <3>3 DEF TypeOK, hubVars, rowVars
  <2>4. QED
    BY <2>2, <2>3
<1>11. CASE Cancel(r)
  <2>1. /\ req[r] # NoReq /\ req[r].pc = "act" /\ t \in Tasks
        /\ [req EXCEPT ![r] = NoReq] \in [Requests -> Handlers \cup {NoReq}]
    BY <1>11, Addressed DEF Cancel, At
  <2>2. CASE Refuse(r)
    BY <2>2, RefuseType
  <2>3. CASE ~Refuse(r)
    <3>1. /\ task' = [task EXCEPT ![t] = "dead"]
          /\ late' = [late EXCEPT ![t] = task[t] \in {"running", "asking"}]
          /\ Commit(r, t, "TaskCancelled")
          /\ req' = [req EXCEPT ![r] = NoReq]
          /\ UNCHANGED <<stop, hubVars, rowVars, faults>>
      BY <1>11, <2>3 DEF Cancel
    <3>2. nextSeq' \in [Tasks -> Nat] /\ stale' \in BOOLEAN /\ hook' \in [Threads -> Envelopes \cup {NoHook}]
      BY <1>1, <2>1, <3>1, CommitEffect, TypeNames
    <3>3. task' \in [Tasks -> TaskStates] /\ late' \in [Tasks -> BOOLEAN]
      BY <1>1, <2>1, <3>1 DEF TaskStates
    <3>4. QED
      BY <2>1, <3>1, <3>2, <3>3 DEF TypeOK, hubVars, rowVars
  <2>4. QED
    BY <2>2, <2>3
<1>12. CASE Rewind(r)
  BY <1>1, <1>12, MarkType, TypeNames DEF Rewind, At
<1>13. QED
  BY <1>2, <1>3, <1>4, <1>5, <1>6, <1>7, <1>8, <1>9, <1>10, <1>11, <1>12 DEF Serve

(* A worker's step is a commit by the thread that drives the task.         *)
LEMMA WorkerEffect ==
    ASSUME TypeOK, NEW t \in Tasks, Worker(t)
    PROVE  /\ \E type \in Types : Commit(t, t, type)
           /\ \/ /\ task[t] \in {"running", "asking", "barrier"} /\ late' = late
                 /\ \E s \in {"running", "asking", "barrier", "question", "parked", "dead"} :
                      task' = [task EXCEPT ![t] = s]
              \/ late[t] /\ late' = [late EXCEPT ![t] = FALSE] /\ task' = task
           /\ stop' \in [Tasks -> BOOLEAN]
           /\ UNCHANGED <<hubVars, rowVars, req, faults>>
<1>1. stop \in [Tasks -> BOOLEAN]
  BY DEF TypeOK
<1>2. CASE LateSuspend(t)
  BY <1>1, <1>2, TypeNames DEF LateSuspend
<1>3. CASE ~LateSuspend(t)
  BY <1>1, <1>3, TypeNames
     DEF Worker, Ask, SuspendQuestion, SuspendBarrier, SubtasksDone, EndTurn, Fail, Drive
<1>4. QED
  BY <1>2, <1>3

LEMMA WorkerType ==
    ASSUME TypeOK, NEW t \in Tasks, Worker(t)
    PROVE  TypeOK'
<1>1. t \in Threads
  BY DEF Threads
<1>2. nextSeq' \in [Tasks -> Nat] /\ stale' \in BOOLEAN /\ hook' \in [Threads -> Envelopes \cup {NoHook}]
  BY <1>1, WorkerEffect, CommitEffect
<1>3. task' \in [Tasks -> TaskStates] /\ late' \in [Tasks -> BOOLEAN]
  BY WorkerEffect DEF TypeOK, TaskStates
<1>4. QED
  BY <1>2, <1>3, WorkerEffect DEF TypeOK, hubVars, rowVars

LEMMA RestartType ==
    ASSUME TypeOK, Restart
    PROVE  TypeOK'
<1>1. task' \in [Tasks -> TaskStates]
  BY DEF TypeOK, Restart, TaskStates
<1>2. /\ stop' \in [Tasks -> BOOLEAN] /\ late' \in [Tasks -> BOOLEAN]
      /\ hook' \in [Threads -> Envelopes \cup {NoHook}] /\ req' \in [Requests -> Handlers \cup {NoReq}]
  BY DEF Restart
<1>3. closed' \subseteq Tasks /\ routed' \subseteq Tasks /\ faults' \in Nat /\ stale' \in BOOLEAN
  BY DEF TypeOK, Restart
<1>4. QED
  BY <1>1, <1>2, <1>3 DEF TypeOK, Restart, rowVars

LEMMA TypeStep ==
    ASSUME TypeOK, [Next]_vars PROVE TypeOK'
<1>1. CASE UNCHANGED vars
  BY <1>1 DEF TypeOK, vars, engineVars, hubVars, rowVars
<1>2. QED
  BY <1>1, HookType, ServeType, WorkerType, RestartType DEF Next

-----------------------------------------------------------------------------
(* The activity mark *)

(* A commit hands the task's next envelope to a hook.                      *)
LEMMA MarkCommit ==
    ASSUME TypeOK, Committed, Marked, lastSeq' = lastSeq, faults' = faults,
           NEW th \in Threads, NEW t \in Tasks, NEW type \in Types, Commit(th, t, type)
    PROVE  Committed' /\ Marked'
<1>1. /\ nextSeq \in [Tasks -> Nat] /\ nextSeq' = [nextSeq EXCEPT ![t] = nextSeq[t] + 1]
      /\ hook[th] = NoHook /\ hook'[th] \in Envelopes /\ hook'[th] # NoHook
      /\ hook'[th].task = t /\ hook'[th].seq = nextSeq[t]
      /\ hook \in [Threads -> Envelopes \cup {NoHook}]
  BY CommitEffect, EnvelopeFields DEF TypeOK
<1>2. \A x \in Threads \ {th} :
          /\ hook'[x] = NoHook <=> hook[x] = NoHook
          /\ hook[x] # NoHook => hook'[x].task = hook[x].task /\ hook'[x].seq = hook[x].seq
  BY CommitEffect
<1>3. \A u \in Tasks : nextSeq[u] \in Nat /\ nextSeq'[u] = IF u = t THEN nextSeq[u] + 1 ELSE nextSeq[u]
  BY <1>1
<1>4. Committed'
  <2>1. ASSUME NEW x \in Threads, hook'[x] # NoHook
        PROVE  hook'[x].seq < nextSeq'[hook'[x].task]
    <3>1. CASE x = th
      BY <1>1, <1>3, <3>1
    <3>2. CASE x # th
      <4>1. hook[x] # NoHook /\ hook'[x].task = hook[x].task /\ hook'[x].seq = hook[x].seq
        BY <1>2, <2>1, <3>2
      <4>2. hook[x].seq \in Nat /\ hook[x].task \in Tasks
        BY <1>1, <4>1, EnvelopeFields
      <4>3. hook[x].seq < nextSeq[hook[x].task]
        BY <4>1 DEF Committed
      <4>4. QED
        BY <1>3, <4>1, <4>2, <4>3
    <3>3. QED
      BY <3>1, <3>2
  <2>2. QED
    BY <2>1 DEF Committed
<1>5. Marked'
  <2>1. SUFFICES ASSUME faults = 0
                 PROVE  /\ \A u \in Tasks : \A s \in 0 .. nextSeq'[u] - 1 : s <= lastSeq \/ InHand(u, s)'
                        /\ lastSeq = -1 \/ \E u \in Tasks : lastSeq < nextSeq'[u]
    BY DEF Marked
  <2>2. ASSUME NEW u \in Tasks, NEW s \in 0 .. nextSeq'[u] - 1, ~(s <= lastSeq)
        PROVE  InHand(u, s)'
    <3>1. CASE s \in 0 .. nextSeq[u] - 1
      <4>1. InHand(u, s)
        BY <2>1, <2>2, <3>1 DEF Marked
      <4>2. PICK x \in Threads : hook[x] # NoHook /\ hook[x].task = u /\ hook[x].seq = s
        BY <4>1 DEF InHand
      <4>3. hook'[x] # NoHook /\ hook'[x].task = u /\ hook'[x].seq = s
        BY <1>1, <1>2, <4>2
      <4>4. QED
        BY <4>3 DEF InHand
    <3>2. CASE s \notin 0 .. nextSeq[u] - 1
      <4>1. u = t /\ s = nextSeq[t]
        BY <1>3, <2>2, <3>2
      <4>2. QED
        BY <1>1, <4>1 DEF InHand
    <3>3. QED
      BY <3>1, <3>2
  <2>3. lastSeq = -1 \/ \E u \in Tasks : lastSeq < nextSeq'[u]
    <3>1. SUFFICES ASSUME NEW u \in Tasks, lastSeq < nextSeq[u] PROVE lastSeq < nextSeq'[u]
      BY <2>1 DEF Marked
    <3>2. lastSeq \in Int
      BY DEF TypeOK
    <3>3. QED
      BY <1>3, <3>1, <3>2
  <2>4. QED
    BY <2>2, <2>3
<1>6. QED
  BY <1>4, <1>5

(* A step of one thread that commits at most one envelope, of a task that  *)
(* is in the routing by then, and keeps everything it addresses in there.  *)
LEMMA RowStep ==
    ASSUME RowInv, TypeOK', NEW th \in Threads, lastSeq' = lastSeq,
           faults' = faults \/ faults' = faults + 1,
           \/ nextSeq' = nextSeq /\ hook' = hook
           \/ faults' = faults /\ \E t \in Tasks, type \in Types :
                 Commit(th, t, type) /\ (faults = 0 => t \in routed'),
           faults = 0 =>
               /\ routed \subseteq routed' /\ streams' \subseteq routed'
               /\ \A t \in Tasks : task'[t] # "none" \/ late'[t] => t \in routed'
               /\ \A r \in Requests : Resolved(req'[r]) => req'[r].task \in routed'
    PROVE  RowInv'
<1>1. TypeOK /\ Routed /\ Committed /\ Marked /\ faults \in Nat /\ faults' \in Nat
  BY DEF RowInv, TypeOK
<1>2. faults' = 0 => faults = 0
  BY <1>1
<1>3. Committed' /\ Marked'
  <2>1. CASE nextSeq' = nextSeq /\ hook' = hook
    BY <1>1, <1>2, <2>1 DEF Committed, Marked, InHand
  <2>2. CASE ~(nextSeq' = nextSeq /\ hook' = hook)
    BY <1>1, <2>2, MarkCommit
  <2>3. QED
    BY <2>1, <2>2
<1>4. ASSUME faults = 0, NEW x \in Threads, hook'[x] # NoHook
      PROVE  hook'[x].task \in routed'
  <2>1. hook[x] # NoHook => hook[x].task \in routed'
    BY <1>1, <1>4 DEF Routed
  <2>2. CASE hook' = hook
    BY <1>4, <2>1, <2>2
  <2>3. CASE hook' # hook
    <3>1. PICK t \in Tasks, type \in Types : Commit(th, t, type) /\ t \in routed'
      BY <1>4, <2>3
    <3>2. QED
      BY <1>1, <1>4, <2>1, <3>1, CommitEffect
  <2>4. QED
    BY <2>2, <2>3
<1>5. Routed'
  BY <1>2, <1>4 DEF Routed
<1>6. QED
  BY <1>3, <1>5 DEF RowInv

(* The hook drops no envelope and raises the mark to the one it writes.    *)
LEMMA RowHook ==
    ASSUME RowInv, TypeOK', NEW th \in Threads, Hook(th)
    PROVE  RowInv'
<1>1. /\ TypeOK /\ Routed /\ Committed /\ Marked /\ hook \in [Threads -> Envelopes \cup {NoHook}]
      /\ nextSeq \in [Tasks -> Nat] /\ lastSeq \in Int
  BY DEF RowInv, TypeOK
<1>2. hook[th] \in Envelopes /\ hook[th] # NoHook
  BY <1>1, HookType, EnvelopeFields
<1>3. hook[th].task \in Tasks /\ hook[th].seq \in Nat /\ hook[th].seq < nextSeq[hook[th].task]
  BY <1>1, <1>2, EnvelopeFields DEF Committed
<1>4. UNCHANGED <<task, late, nextSeq, routed, streams, req, faults>>
  BY DEF Hook, Observe, AdvanceSession, engineVars, rowVars, hubVars
<1>5. ASSUME NEW x \in Threads, x # th
      PROVE  hook'[x] = hook[x]
  BY <1>1, <1>5 DEF Hook, Observe, AdvanceSession
<1>6. hook'[th] # NoHook => hook'[th].task = hook[th].task /\ hook'[th].seq = hook[th].seq
  <2>1. CASE Observe(th) /\ hook[th].task \in routed
    <3>1. hook' = [hook EXCEPT ![th].stage = "write",
                              ![th].status = IF hook[th].task \in closed THEN Unchanged
                                             ELSE StatusFor(hook[th].type)]
      BY <2>1 DEF Observe
    <3>2. QED
      BY <1>1, <1>2, <3>1 DEF Envelopes
  <2>2. CASE ~(Observe(th) /\ hook[th].task \in routed)
    <3>1. hook'[th] = NoHook
      BY <1>1, <2>2 DEF Hook, Observe, AdvanceSession
    <3>2. QED
      BY <3>1
  <2>3. QED
    BY <2>1, <2>2
<1>7. Routed' /\ Committed'
  BY <1>1, <1>2, <1>4, <1>5, <1>6 DEF Routed, Committed
<1>8. Marked'
  <2>1. SUFFICES ASSUME faults = 0
                 PROVE  /\ \A u \in Tasks : \A s \in 0 .. nextSeq[u] - 1 : s <= lastSeq' \/ InHand(u, s)'
                        /\ lastSeq' = -1 \/ \E u \in Tasks : lastSeq' < nextSeq[u]
    BY <1>4 DEF Marked
  <2>2. \A u \in Tasks : \A s \in 0 .. nextSeq[u] - 1 : s <= lastSeq \/ InHand(u, s)
    BY <1>1, <2>1 DEF Marked
  <2>3. CASE Observe(th)
    <3>1. lastSeq' = lastSeq /\ hook[th].task \in routed
      BY <1>1, <1>2, <2>1, <2>3 DEF Observe, rowVars, Routed
    <3>2. hook'[th] # NoHook
      <4>1. hook' = [hook EXCEPT ![th].stage = "write",
                                ![th].status = IF hook[th].task \in closed THEN Unchanged
                                               ELSE StatusFor(hook[th].type)]
        BY <2>3, <3>1 DEF Observe
      <4>2. hook'[th].stage = "write"
        BY <1>1, <1>2, <4>1 DEF Envelopes
      <4>3. QED
        BY <4>2 DEF NoHook
    <3>3. \A u \in Tasks, s \in Nat : InHand(u, s) => InHand(u, s)'
      BY <1>5, <1>6, <3>2 DEF InHand
    <3>4. QED
      BY <1>1, <2>1, <2>2, <3>1, <3>3 DEF Marked
  <2>4. CASE AdvanceSession(th)
    <3>1. lastSeq' = IF hook[th].seq > lastSeq THEN hook[th].seq ELSE lastSeq
      BY <2>4 DEF AdvanceSession
    <3>2. lastSeq <= lastSeq' /\ hook[th].seq <= lastSeq' /\ lastSeq' \in Int
      BY <1>1, <1>3, <3>1
    <3>3. ASSUME NEW u \in Tasks, NEW s \in 0 .. nextSeq[u] - 1, ~(s <= lastSeq')
          PROVE  InHand(u, s)'
      <4>1. ~(s <= lastSeq)
        BY <1>1, <3>2, <3>3
      <4>2. PICK x \in Threads : hook[x] # NoHook /\ hook[x].task = u /\ hook[x].seq = s
        BY <2>2, <4>1 DEF InHand
      <4>3. x # th
        BY <3>2, <3>3, <4>2
      <4>4. QED
        BY <1>5, <4>2, <4>3 DEF InHand
    <3>4. lastSeq' = -1 \/ \E u \in Tasks : lastSeq' < nextSeq[u]
      BY <1>1, <1>3, <2>1, <3>1 DEF Marked
    <3>5. QED
      BY <3>3, <3>4
  <2>5. QED
    BY <2>3, <2>4 DEF Hook
<1>9. QED
  BY <1>7, <1>8 DEF RowInv

(* What a handler addresses is in the routing, and what it may reach too.  *)
LEMMA ServeEffect ==
    ASSUME TypeOK, NEW r \in Requests, Arrive(r) \/ Serve(r)
    PROVE  /\ lastSeq' = lastSeq /\ routed \subseteq routed'
           /\ faults' = faults \/ faults' = faults + 1
           /\ \A x \in Requests \ {r} : req'[x] = req[x]
           /\ \/ nextSeq' = nextSeq /\ hook' = hook
              \/ faults' = faults /\ \E t \in Tasks, type \in Types :
                    /\ Commit(r, t, type)
                    /\ t \in routed' \/ (Resolved(req[r]) /\ t = req[r].task)
           /\ Resolved(req'[r]) =>
                \/ req'[r].task \in streams \cup routed'
                \/ Resolved(req[r]) /\ req'[r].task = req[r].task
           /\ \A t \in Tasks : task'[t] # "none" \/ late'[t] =>
                \/ task[t] # "none" \/ late[t] \/ t \in routed'
                \/ Resolved(req[r]) /\ t = req[r].task
           /\ \A t \in streams' : t \in streams \/ (Resolved(req[r]) /\ t = req[r].task)
<1> DEFINE t == req[r].task
<1>1. /\ task \in [Tasks -> TaskStates] /\ late \in [Tasks -> BOOLEAN] /\ streams \subseteq Tasks
      /\ req \in [Requests -> Handlers \cup {NoReq}]
  BY DEF TypeOK
<1>2. ~Resolved(NoReq)
  BY DEF Resolved
<1>3. ASSUME NEW p \in {"act", "bind", "dispatch", "withdraw", "settle"},
             req[r] # NoReq, req[r].pc = p
      PROVE  /\ Resolved(req[r]) /\ t \in Tasks
             /\ \A n \in {"act", "bind", "dispatch", "withdraw", "settle"} :
                  req' = [req EXCEPT ![r].pc = n] => req'[r].task = t
             /\ req' = [req EXCEPT ![r] = NoReq] => ~Resolved(req'[r])
  <2>1. t \in Tasks /\ Resolved(req[r])
    BY <1>1, <1>3, HandlerFields DEF Resolved
  <2>2. ASSUME NEW n \in {"act", "bind", "dispatch", "withdraw", "settle"},
               req' = [req EXCEPT ![r].pc = n]
        PROVE  req'[r].task = t
    <3>1. req'[r] = [req[r] EXCEPT !.pc = n]
      BY <1>1, <2>2
    <3>2. req[r] \in Handlers
      BY <1>1, <1>3
    <3>3. QED
      BY <1>3, <3>1, <3>2 DEF Handlers
  <2>3. QED
    BY <1>1, <1>2, <2>1, <2>2
<1>4. ASSUME NEW q, Enter(r, q),
             Resolved(q) => q.task \in streams \/ (Resolved(req[r]) /\ q.task = t)
      PROVE  /\ UNCHANGED <<lastSeq, routed, faults, nextSeq, hook, task, late, streams>>
             /\ \A x \in Requests \ {r} : req'[x] = req[x]
             /\ Resolved(req'[r]) =>
                  \/ req'[r].task \in streams \cup routed'
                  \/ Resolved(req[r]) /\ req'[r].task = t
  BY <1>1, <1>4 DEF Enter, engineVars, hubVars, rowVars
<1>5. CASE Arrive(r)
  <2>1. PICK verb \in {"send", "steer", "answer", "interrupt", "cancel", "rewind"} :
            Enter(r, Handler(verb))
    BY <1>5 DEF Arrive, SendMessage, AnswerOrStop, RewindRequest
  <2>2. ~Resolved(Handler(verb))
    BY DEF Handler, Resolved
  <2>3. QED
    BY <1>4, <2>1, <2>2
<1>6. CASE Refuse(r)
  BY <1>2, <1>4, <1>6 DEF Refuse
<1>7. CASE ResolveTaskId(r)
  <2>1. PICK q : /\ Enter(r, q)
                 /\ \/ \E u \in streams : q = [verb |-> req[r].verb, pc |-> "act", task |-> u]
                    \/ q = [verb |-> "send", pc |-> "seed"]
                    \/ q = NoReq
    BY <1>7 DEF ResolveTaskId, Refuse
  <2>2. Resolved(q) => q.task \in streams
    BY <2>1 DEF Resolved
  <2>3. QED
    BY <1>4, <2>1, <2>2
<1>8. CASE SeedStart(r)
  <2>1. PICK u \in Tasks :
          /\ task' = [task EXCEPT ![u] = "seeded"]
          /\ Commit(r, u, "TaskStarted")
          /\ routed' = routed \cup {u}
          /\ req' = [req EXCEPT ![r] = [verb |-> "send", pc |-> "bind", task |-> u]]
    BY <1>8 DEF SeedStart
  <2>2. UNCHANGED <<lastSeq, streams, late, faults>>
    BY <1>8 DEF SeedStart, rowVars
  <2>3. \A x \in Tasks : task'[x] # "none" => task[x] # "none" \/ x \in routed'
    BY <1>1, <2>1
  <2>4. /\ req'[r].task = u /\ \A x \in Requests \ {r} : req'[x] = req[x]
    BY <1>1, <2>1
  <2>5. \E v \in Tasks, type \in Types : Commit(r, v, type) /\ v \in routed'
    BY <2>1, TypeNames
  <2>6. QED
    BY <2>1, <2>2, <2>3, <2>4, <2>5
<1>9. CASE Bind(r)
  <2>1. req[r] # NoReq /\ req[r].pc = "bind"
    BY <1>9 DEF Bind, At
  <2>2. /\ UNCHANGED <<lastSeq, routed, nextSeq, hook, task, late>>
        /\ req' = [req EXCEPT ![r].pc = "dispatch"]
        /\ streams' \in {streams, streams \cup {t}} /\ faults' \in {faults, faults + 1}
    BY <1>9 DEF Bind, engineVars, hubVars
  <2>3. Resolved(req[r]) /\ req'[r].task = t /\ \A x \in Requests \ {r} : req'[x] = req[x]
    BY <1>1, <1>3, <2>1, <2>2
  <2>4. QED
    BY <2>2, <2>3
<1>10. CASE Dispatch(r)
  <2>1. /\ UNCHANGED <<lastSeq, routed, nextSeq, hook, late, streams, faults>>
        /\ req' = [req EXCEPT ![r] = NoReq]
        /\ task' = [task EXCEPT ![t] = IF @ = "seeded" THEN "running" ELSE @]
    BY <1>10 DEF Dispatch, hubVars, rowVars
  <2>2. ~Resolved(req'[r]) /\ \A x \in Requests \ {r} : req'[x] = req[x]
    BY <1>1, <1>2, <2>1
  <2>3. \A u \in Tasks : task'[u] # "none" => task[u] # "none"
    BY <1>1, <2>1
  <2>4. QED
    BY <2>1, <2>2, <2>3
<1>11. ASSUME NEW p \in {"act", "withdraw", "settle"}, req[r] # NoReq, req[r].pc = p,
              NEW type \in Types, Commit(r, t, type),
              UNCHANGED <<lastSeq, routed, streams, faults>>,
              \/ req' = [req EXCEPT ![r] = NoReq]
              \/ \E n \in {"dispatch", "withdraw", "settle"} : req' = [req EXCEPT ![r].pc = n],
              task' = task \/ \E s \in TaskStates : task' = [task EXCEPT ![t] = s],
              late' = late \/ \E b \in BOOLEAN : late' = [late EXCEPT ![t] = b]
       PROVE  /\ \A x \in Requests \ {r} : req'[x] = req[x]
              /\ \E u \in Tasks, e \in Types : Commit(r, u, e) /\ Resolved(req[r]) /\ u = t
              /\ Resolved(req'[r]) => Resolved(req[r]) /\ req'[r].task = t
              /\ \A u \in Tasks : task'[u] # "none" \/ late'[u] =>
                    task[u] # "none" \/ late[u] \/ (Resolved(req[r]) /\ u = t)
              /\ UNCHANGED <<lastSeq, routed, streams, faults>>
  <2>1. Resolved(req[r]) /\ t \in Tasks
    BY <1>3, <1>11
  <2>2. \A x \in Requests \ {r} : req'[x] = req[x]
    BY <1>1, <1>11
  <2>3. Resolved(req'[r]) => req'[r].task = t
    BY <1>3, <1>11
  <2>4. \A u \in Tasks \ {t} : task'[u] = task[u] /\ late'[u] = late[u]
    BY <1>1, <1>11
  <2>5. QED
    BY <1>11, <2>1, <2>2, <2>3, <2>4
<1>12. CASE Resume(r, t) /\ req[r] # NoReq /\ req[r].pc = "act"
  <2>1. /\ Commit(r, t, "TaskWoken") /\ task' = [task EXCEPT ![t] = "seeded"]
        /\ req' = [req EXCEPT ![r].pc = "dispatch"]
        /\ UNCHANGED <<lastSeq, routed, streams, faults, late>>
    BY <1>12 DEF Resume, hubVars, rowVars
  <2>2. "seeded" \in TaskStates
    BY DEF TaskStates
  <2>3. QED
    BY <1>11, <1>12, <2>1, <2>2, TypeNames
<1>13. CASE /\ \E type \in {"Other", "TurnInterrupted"} : Mark(r, t, type)
            /\ req[r] # NoReq /\ req[r].pc = "act"
  <2>1. PICK type \in Types : Commit(r, t, type)
    BY <1>13, TypeNames DEF Mark
  <2>2. req' = [req EXCEPT ![r] = NoReq] /\ UNCHANGED <<lastSeq, routed, streams, faults, late, task>>
    BY <1>13 DEF Mark, hubVars, rowVars
  <2>3. QED
    BY <1>11, <1>13, <2>1, <2>2
<1>14. CASE SendGoal(r) \/ InjectGoal(r) \/ Answer(r) \/ Rewind(r)
  BY <1>6, <1>12, <1>13, <1>14 DEF SendGoal, InjectGoal, Answer, Rewind, At
<1>15. CASE Interrupt(r)
  <2>1. req[r] # NoReq /\ req[r].pc = "act"
    BY <1>15 DEF Interrupt, At
  <2>2. CASE /\ Commit(r, t, "TaskWoken") /\ task' = [task EXCEPT ![t] = "withdrawing"]
             /\ req' = [req EXCEPT ![r].pc = "withdraw"]
             /\ UNCHANGED <<stop, late, hubVars, rowVars, faults>>
    <3>1. "withdrawing" \in TaskStates /\ UNCHANGED <<lastSeq, routed, streams, faults, late>>
      BY <2>2 DEF TaskStates, hubVars, rowVars
    <3>2. QED
      BY <1>11, <2>1, <2>2, <3>1, TypeNames
  <2>3. QED
    BY <1>6, <1>13, <1>15, <2>1, <2>2 DEF Interrupt
<1>16. CASE (Withdraw(r) \/ Settle(r)) /\ ~Refuse(r)
  <2>1. req[r] # NoReq /\ req[r].pc \in {"withdraw", "settle"}
    BY <1>16 DEF Withdraw, Settle, At
  <2>2. /\ \E type \in {"UserQuestionWithdrawn", "SuspendedIdle"} : Commit(r, t, type)
        /\ req' \in {[req EXCEPT ![r] = NoReq], [req EXCEPT ![r].pc = "settle"]}
        /\ task' = task \/ task' = [task EXCEPT ![t] = "parked"]
        /\ UNCHANGED <<lastSeq, routed, streams, faults, late>>
    BY <1>16 DEF Withdraw, Settle, engineVars, hubVars, rowVars
  <2>3. PICK type \in Types : Commit(r, t, type)
    BY <2>2, TypeNames
  <2>4. "parked" \in TaskStates
    BY DEF TaskStates
  <2>5. QED
    BY <1>11, <2>1, <2>2, <2>3, <2>4
<1>17. CASE Cancel(r) /\ ~Refuse(r)
  <2>1. req[r] # NoReq /\ req[r].pc = "act"
    BY <1>17 DEF Cancel, At
  <2>2. /\ Commit(r, t, "TaskCancelled") /\ task' = [task EXCEPT ![t] = "dead"]
        /\ req' = [req EXCEPT ![r] = NoReq]
        /\ late' = [late EXCEPT ![t] = task[t] \in {"running", "asking"}]
        /\ UNCHANGED <<lastSeq, routed, streams, faults>>
    BY <1>17 DEF Cancel, hubVars, rowVars
  <2>3. \E b \in BOOLEAN : late' = [late EXCEPT ![t] = b]
    <3>1. \E b \in BOOLEAN : b = (task[t] \in {"running", "asking"})
      <4>1. \/ (task[t] \in {"running", "asking"}) = TRUE
            \/ (task[t] \in {"running", "asking"}) = FALSE
        OBVIOUS
      <4>2. QED
        BY <4>1
    <3>2. QED
      BY <2>2, <3>1
  <2>4. "dead" \in TaskStates
    BY DEF TaskStates
  <2>5. QED
    BY <1>11, <2>1, <2>2, <2>3, <2>4, TypeNames
<1>18. QED
  BY <1>5, <1>6, <1>7, <1>8, <1>9, <1>10, <1>14, <1>15, <1>16, <1>17 DEF Serve

LEMMA RowServe ==
    ASSUME RowInv, TypeOK', NEW r \in Requests, Arrive(r) \/ Serve(r)
    PROVE  RowInv'
<1>1. TypeOK /\ Routed /\ r \in Threads
  BY DEF RowInv, Threads
<1>2. faults = 0 /\ Resolved(req[r]) => req[r].task \in routed /\ req[r].task \in routed'
  BY <1>1, ServeEffect DEF Routed
<1>3. ASSUME faults = 0
      PROVE  /\ routed \subseteq routed' /\ streams' \subseteq routed'
             /\ \A t \in Tasks : task'[t] # "none" \/ late'[t] => t \in routed'
             /\ \A x \in Requests : Resolved(req'[x]) => req'[x].task \in routed'
  <2>1. routed \subseteq routed' /\ streams \subseteq routed'
    BY <1>1, <1>3, ServeEffect DEF Routed
  <2>2. streams' \subseteq routed'
    BY <1>1, <1>2, <1>3, <2>1, ServeEffect
  <2>3. \A t \in Tasks : task[t] # "none" \/ late[t] => t \in routed'
    BY <1>1, <1>3, <2>1 DEF Routed
  <2>4. \A t \in Tasks : task'[t] # "none" \/ late'[t] => t \in routed'
    BY <1>1, <1>2, <1>3, <2>3, ServeEffect
  <2>5. \A x \in Requests : Resolved(req[x]) => req[x].task \in routed'
    BY <1>1, <1>3, <2>1 DEF Routed
  <2>6. \A x \in Requests : Resolved(req'[x]) => req'[x].task \in routed'
    BY <1>1, <1>2, <1>3, <2>1, <2>5, ServeEffect
  <2>7. QED
    BY <2>1, <2>2, <2>4, <2>6
<1>4. \/ nextSeq' = nextSeq /\ hook' = hook
      \/ faults' = faults /\ \E t \in Tasks, type \in Types :
            Commit(r, t, type) /\ (faults = 0 => t \in routed')
  BY <1>1, <1>2, ServeEffect
<1>5. lastSeq' = lastSeq /\ (faults' = faults \/ faults' = faults + 1)
  BY <1>1, ServeEffect
<1>6. QED
  BY <1>1, <1>3, <1>4, <1>5, RowStep

LEMMA RowWorker ==
    ASSUME RowInv, TypeOK', NEW t \in Tasks, Worker(t)
    PROVE  RowInv'
<1>1. TypeOK /\ Routed /\ t \in Threads
  BY DEF RowInv, Threads
<1>2. UNCHANGED <<routed, streams, req, faults, lastSeq>>
  BY <1>1, WorkerEffect DEF hubVars, rowVars
<1>3. \A u \in Tasks : task'[u] # "none" \/ late'[u] => task[u] # "none" \/ late[u]
  BY <1>1, WorkerEffect DEF TypeOK
<1>4. faults = 0 => t \in routed
  BY <1>1, WorkerEffect DEF Routed
<1>5. \E type \in Types : Commit(t, t, type)
  BY <1>1, WorkerEffect
<1>6. QED
  BY <1>1, <1>2, <1>3, <1>4, <1>5, RowStep DEF Routed

(* The session row is sound for every number of requests and tasks: every  *)
(* variable has its type, and advance_session's MAX leaves the activity    *)
(* mark at the newest envelope committed once the hooks are quiet, in      *)
(* whatever order their writes came, as long as no process dies.           *)
THEOREM MarkLosesNothing == Spec => []RowSound
<1>1. Init => RowInv
  <2>1. SUFFICES ASSUME Init PROVE RowInv
    OBVIOUS
  <2>2. /\ nextSeq = [t \in Tasks |-> 0] /\ hook = [th \in Threads |-> NoHook] /\ lastSeq = -1
        /\ task = [t \in Tasks |-> "none"] /\ late = [t \in Tasks |-> FALSE]
        /\ streams = {} /\ req = [r \in Requests |-> NoReq]
    BY <2>1 DEF Init
  <2>3. Routed /\ Committed
    BY <2>2 DEF Routed, Committed, Resolved
  <2>4. Marked
    BY <2>2 DEF Marked
  <2>5. QED
    BY <2>1, <2>3, <2>4, TypeInit DEF RowInv
<1>2. RowInv /\ [Next]_vars => RowInv'
  <2>1. SUFFICES ASSUME RowInv, [Next]_vars PROVE RowInv'
    OBVIOUS
  <2>2. TypeOK /\ TypeOK' /\ faults \in Nat
    BY <2>1, TypeStep DEF RowInv, TypeOK
  <2>3. CASE UNCHANGED vars
    BY <2>1, <2>2, <2>3 DEF vars, engineVars, hubVars, rowVars, RowInv, Routed, Committed,
                            Marked, InHand
  <2>4. CASE Restart
    <3>1. faults' # 0 /\ \A th \in Threads : hook'[th] = NoHook
      BY <2>2, <2>4 DEF Restart
    <3>2. QED
      BY <2>2, <3>1 DEF RowInv, Routed, Committed, Marked
  <2>5. QED
    BY <2>1, <2>2, <2>3, <2>4, RowHook, RowServe, RowWorker DEF Next
<1>3. RowInv => RowSound
  <2>1. SUFFICES ASSUME RowInv, Quiet, faults = 0
                 PROVE  /\ \A t \in Tasks : nextSeq[t] - 1 <= lastSeq
                        /\ lastSeq >= 0 => \E t \in Tasks : lastSeq = nextSeq[t] - 1
    BY DEF RowSound, HighWater, RowInv
  <2>2. nextSeq \in [Tasks -> Nat] /\ lastSeq \in Nat \cup {-1} /\ Marked
    BY <2>1 DEF RowInv, TypeOK
  <2>3. \A t \in Tasks : nextSeq[t] - 1 <= lastSeq
    <3>1. ASSUME NEW t \in Tasks PROVE nextSeq[t] - 1 <= lastSeq
      <4>1. CASE nextSeq[t] = 0
        BY <2>2, <4>1
      <4>2. CASE nextSeq[t] # 0
        <5>1. nextSeq[t] - 1 \in 0 .. nextSeq[t] - 1
          BY <2>2, <4>2
        <5>2. ~InHand(t, nextSeq[t] - 1)
          BY <2>1 DEF InHand, Quiet
        <5>3. QED
          BY <2>1, <2>2, <5>1, <5>2 DEF Marked
      <4>3. QED
        BY <4>1, <4>2
    <3>2. QED
      BY <3>1
  <2>4. lastSeq >= 0 => \E t \in Tasks : lastSeq = nextSeq[t] - 1
    <3>1. SUFFICES ASSUME lastSeq >= 0, NEW t \in Tasks, lastSeq < nextSeq[t]
                   PROVE  lastSeq = nextSeq[t] - 1
      BY <2>1, <2>2 DEF Marked
    <3>2. QED
      BY <2>2, <2>3, <3>1
  <2>5. QED
    BY <2>3, <2>4
<1>4. QED
  BY <1>1, <1>2, <1>3, PTL DEF Spec

-----------------------------------------------------------------------------
(* The stored status *)

(* What the status machine says, or will say, of the envelope in a hook.   *)
Said(h) ==
    IF h.stage = "write" THEN h.status
    ELSE IF h.task \in closed THEN Unchanged ELSE StatusFor(h.type)

(* What a handler addresses, and what has a stream row, is in the routing. *)
Reached ==
    /\ streams \subseteq routed
    /\ \A r \in Requests : Resolved(req[r]) => req[r].task \in routed

Ending(h) == h # NoHook /\ h.type \in TERMINAL_TYPES

(* A task the status machine has closed, or is about to, is dead for good; *)
(* so is one whose worker still has a late suspend to write, and by then   *)
(* the machine has closed it or the hook that will is running.             *)
Closing ==
    /\ \A t \in closed : task[t] = "dead"
    /\ \A th \in Threads : Ending(hook[th]) => task[hook[th].task] = "dead"
    /\ \A t \in Tasks : late[t] => task[t] = "dead"
    /\ \A t \in Tasks : late[t] /\ t \in routed =>
          t \in closed \/ \E th \in Threads : Ending(hook[th]) /\ hook[th].stage = "observe"

Answered ==
    \A th \in Threads : hook[th].stage = "write" =>
        hook[th].status \in {Unchanged, StatusFor(hook[th].type)}

(* Of two hooks that move the status neither is solo, and the row is stale. *)
Overlaps ==
    /\ \A x, y \in Threads : x # y /\ Moves(hook[x]) /\ Moves(hook[y]) => ~hook[x].solo
    /\ \A x \in Threads : Moves(hook[x]) /\ ~stale => hook[x].solo

(* An undisturbed hook says what the engine is in, or has nothing to say   *)
(* where the row is right already.                                         *)
SaidIsRight ==
    \A t \in routed, th \in Threads :
        Moves(hook[th]) /\ hook[th].solo =>
            /\ Said(hook[th]) \in {Unchanged, StatusOf(task[t])}
            /\ Said(hook[th]) = Unchanged /\ ~stale => status = StatusOf(task[t])

RowIsRight ==
    \A t \in routed :
        ~stale /\ (\A th \in Threads : ~Moves(hook[th])) => status = StatusOf(task[t])

StatusInv ==
    TypeOK /\ Reached /\ Closing /\ Answered /\ Overlaps /\ SaidIsRight /\ RowIsRight

LEMMA StatusNames ==
    /\ \A s \in TaskStates : StatusOf(s) \in Statuses
    /\ Unchanged \notin Statuses
    /\ \A s \in {"seeded", "running", "barrier", "withdrawing"} : StatusOf(s) = "running"
    /\ \A s \in {"asking", "question"} : StatusOf(s) = "waiting"
    /\ \A s \in {"none", "parked", "dead"} : StatusOf(s) = "idle"
    /\ \A e \in {"TaskStarted", "TaskWoken", "SuspendedBarrier"} : StatusFor(e) = "running"
    /\ \A e \in {"UserQuestionRequested", "SuspendedQuestion"} : StatusFor(e) = "waiting"
    /\ \A e \in {"SuspendedIdle"} \cup TERMINAL_TYPES : StatusFor(e) = "idle"
    /\ \A e \in {"UserQuestionWithdrawn", "TurnInterrupted", "Other"} : StatusFor(e) = Unchanged
    /\ TERMINAL_TYPES = {"TaskCancelled", "TaskFailed"}
    /\ TERMINAL_TYPES \subseteq Types
  BY DEF TaskStates, StatusOf, Statuses, Unchanged, StatusFor, TERMINAL_TYPES, Types

(* What a commit does to the hooks that are moving the status.             *)
LEMMA CommitMoves ==
    ASSUME TypeOK, NEW th \in Threads, NEW t \in Tasks, NEW type \in Types,
           Commit(th, t, type)
    PROVE  /\ ~Moves(hook[th])
           /\ StatusFor(type) # Unchanged =>
                /\ Moves(hook'[th])
                /\ \A x \in Threads \ {th} : Moves(hook'[x]) => ~hook'[x].solo /\ Moves(hook[x])
                /\ \A x \in Threads \ {th} : Moves(hook[x]) => ~hook'[th].solo /\ stale' = TRUE
                /\ (\A x \in Threads \ {th} : ~Moves(hook[x])) => hook'[th].solo /\ stale' = stale
           /\ StatusFor(type) = Unchanged =>
                /\ ~Moves(hook'[th]) /\ stale' = stale
                /\ \A x \in Threads \ {th} : hook'[x] = hook[x]
<1> DEFINE moving == StatusFor(type) # Unchanged
           rivals == {x \in Threads \ {th} : moving /\ Moves(hook[x])}
           new == [stage |-> "observe", type |-> type, task |-> t, seq |-> nextSeq[t],
                   status |-> Unchanged, solo |-> rivals = {}]
<1>1. /\ hook[th] = NoHook /\ hook \in [Threads -> Envelopes \cup {NoHook}]
      /\ hook' = [x \in Threads |-> IF x = th THEN new
                                   ELSE IF x \in rivals THEN [hook[x] EXCEPT !.solo = FALSE]
                                   ELSE hook[x]]
      /\ stale' = (stale \/ rivals # {}) /\ stale \in BOOLEAN
  BY DEF Commit, TypeOK
<1>2. hook'[th] = new /\ new.type = type /\ new # NoHook /\ (new.solo <=> rivals = {})
  BY <1>1 DEF NoHook
<1>3. \A x \in rivals : hook[x] \in Envelopes /\ hook'[x] = [hook[x] EXCEPT !.solo = FALSE]
  BY <1>1 DEF Moves
<1>4. \A x \in rivals : ~hook'[x].solo
  BY <1>3 DEF Envelopes
<1>5. \A x \in Threads \ {th} : x \notin rivals => hook'[x] = hook[x]
  BY <1>1
<1>6. ~Moves(hook[th])
  BY <1>1 DEF Moves
<1>7. ASSUME moving
      PROVE  /\ Moves(hook'[th])
             /\ \A x \in Threads \ {th} : Moves(hook'[x]) => ~hook'[x].solo /\ Moves(hook[x])
             /\ \A x \in Threads \ {th} : Moves(hook[x]) => ~hook'[th].solo /\ stale' = TRUE
             /\ (\A x \in Threads \ {th} : ~Moves(hook[x])) => hook'[th].solo /\ stale' = stale
  <2>1. Moves(hook'[th])
    BY <1>2, <1>7 DEF Moves
  <2>2. \A x \in Threads \ {th} : Moves(hook[x]) <=> x \in rivals
    BY <1>7
  <2>3. \A x \in Threads \ {th} : Moves(hook'[x]) => ~hook'[x].solo /\ Moves(hook[x])
    BY <1>4, <1>5, <2>2
  <2>4. \A x \in Threads \ {th} : Moves(hook[x]) => ~hook'[th].solo /\ stale' = TRUE
    <3>1. SUFFICES ASSUME NEW x \in Threads \ {th}, x \in rivals
                   PROVE  ~hook'[th].solo /\ stale' = TRUE
      BY <2>2
    <3>2. rivals # {}
      BY <3>1
    <3> HIDE DEF rivals
    <3>3. QED
      BY <1>1, <1>2, <3>2
  <2>5. (\A x \in Threads \ {th} : ~Moves(hook[x])) => hook'[th].solo /\ stale' = stale
    <3>1. SUFFICES ASSUME rivals = {} PROVE hook'[th].solo /\ stale' = stale
      BY <2>2
    <3> HIDE DEF rivals
    <3>2. QED
      BY <1>1, <1>2, <3>1
  <2>6. QED
    BY <2>1, <2>3, <2>4, <2>5
<1>8. ASSUME ~moving
      PROVE  /\ ~Moves(hook'[th]) /\ stale' = stale
             /\ \A x \in Threads \ {th} : hook'[x] = hook[x]
  <2>1. rivals = {}
    BY <1>8
  <2>2. ~Moves(hook'[th])
    BY <1>2, <1>8 DEF Moves
  <2> HIDE DEF rivals
  <2>3. QED
    BY <1>1, <1>5, <2>1, <2>2
<1>9. QED
  BY <1>6, <1>7, <1>8

(* An envelope that moves the status to what the engine is in by then.     *)
LEMMA MovingCommit ==
    ASSUME NEW T, Tasks = {T}, StatusInv, TypeOK', Reached',
           NEW th \in Threads, NEW type \in Types, Commit(th, T, type),
           StatusFor(type) = StatusOf(task'[T]), task[T] # "dead",
           type \in TERMINAL_TYPES => task'[T] = "dead",
           late'[T] => late[T] \/ type \in TERMINAL_TYPES,
           closed' = closed
    PROVE  StatusInv'
<1>1. TypeOK /\ Closing /\ Answered /\ T \in Tasks
  BY DEF StatusInv
<1>2. /\ hook' \in [Threads -> Envelopes \cup {NoHook}] /\ task'[T] \in TaskStates
      /\ closed \subseteq {T} /\ routed' \subseteq {T}
  BY <1>1 DEF TypeOK
<1>3. StatusFor(type) # Unchanged /\ closed = {} /\ ~late[T]
  BY <1>1, <1>2, StatusNames DEF Closing
<1>4. /\ hook'[th] \in Envelopes /\ hook'[th] # NoHook /\ hook'[th].task = T
      /\ hook'[th].stage = "observe" /\ hook'[th].type = type
  BY <1>1, <1>2, CommitEffect, EnvelopeFields
<1>5. \A x \in Threads \ {th} :
          /\ hook'[x] = NoHook <=> hook[x] = NoHook
          /\ hook[x] # NoHook =>
               /\ hook'[x].task = hook[x].task /\ hook'[x].stage = hook[x].stage
               /\ hook'[x].type = hook[x].type /\ hook'[x].status = hook[x].status
  BY <1>1, CommitEffect
<1>6. \A x \in Threads : hook[x] # NoHook => hook[x].task = T
  BY <1>1, EnvelopeFields DEF TypeOK
<1>7. \A x \in Threads \ {th} : ~Ending(hook'[x])
  BY <1>1, <1>5, <1>6 DEF Ending, Closing
<1>8. Closing'
  <2>1. \A x \in Threads : Ending(hook'[x]) => task'[hook'[x].task] = "dead"
    BY <1>4, <1>7 DEF Ending
  <2>2. \A t \in Tasks : late'[t] => task'[t] = "dead" /\ Ending(hook'[th]) /\ hook'[th].stage = "observe"
    BY <1>3, <1>4 DEF Ending
  <2>3. QED
    BY <1>3, <2>1, <2>2 DEF Closing
<1>9. Answered'
  <2>1. ASSUME NEW x \in Threads, hook'[x].stage = "write"
        PROVE  hook'[x].status \in {Unchanged, StatusFor(hook'[x].type)}
    <3>1. x # th /\ hook'[x] # NoHook
      BY <1>2, <1>4, <2>1, EnvelopeFields
    <3>2. hook[x].stage = "write" /\ hook'[x].type = hook[x].type /\ hook'[x].status = hook[x].status
      BY <1>5, <2>1, <3>1
    <3>3. QED
      BY <1>1, <3>2 DEF Answered
  <2>2. QED
    BY <2>1 DEF Answered
<1>10. Overlaps'
  BY <1>1, <1>3, CommitMoves DEF Overlaps
<1>11. SaidIsRight' /\ RowIsRight'
  <2>1. \A x \in Threads : Moves(hook'[x]) /\ hook'[x].solo => x = th
    BY <1>1, <1>3, CommitMoves
  <2>2. Said(hook[th])' = StatusOf(task'[T])
    BY <1>3, <1>4 DEF Said
  <2>3. StatusOf(task'[T]) # Unchanged
    BY <1>2, StatusNames
  <2>4. Moves(hook'[th])
    BY <1>1, <1>3, CommitMoves
  <2>5. QED
    BY <1>2, <2>1, <2>2, <2>3, <2>4 DEF SaidIsRight, RowIsRight
<1>12. QED
  BY <1>8, <1>9, <1>10, <1>11 DEF StatusInv

(* An envelope the status machine has nothing to say of.                   *)
LEMMA MarkerCommit ==
    ASSUME NEW T, Tasks = {T}, StatusInv, TypeOK', Reached',
           NEW th \in Threads, NEW type \in Types, Commit(th, T, type),
           StatusFor(type) = Unchanged,
           UNCHANGED <<task, late, closed, routed, status>>
    PROVE  StatusInv'
<1>1. /\ TypeOK /\ Closing /\ Answered /\ Overlaps /\ SaidIsRight /\ RowIsRight /\ T \in Tasks
  BY DEF StatusInv
<1>2. /\ hook[th] = NoHook /\ hook'[th] \in Envelopes /\ hook'[th].type = type
      /\ hook'[th].stage = "observe" /\ ~Moves(hook'[th]) /\ stale' = stale
      /\ \A x \in Threads \ {th} : hook'[x] = hook[x]
  BY ZenonT(60), <1>1, CommitEffect, CommitMoves
<1>3. ~Ending(hook'[th]) /\ ~Ending(hook[th]) /\ ~Moves(hook[th])
  <2>1. type \notin TERMINAL_TYPES
    BY StatusNames DEF Unchanged
  <2>2. QED
    BY <1>2, <2>1 DEF Ending, Moves
<1>4. Closing'
  BY <1>1, <1>2, <1>3 DEF Closing
<1>5. Answered'
  BY <1>1, <1>2 DEF Answered
<1>6. Overlaps'
  BY <1>1, <1>2, <1>3 DEF Overlaps
<1>7. SaidIsRight' /\ RowIsRight'
  BY <1>1, <1>2, <1>3 DEF SaidIsRight, RowIsRight, Said
<1>8. QED
  BY <1>4, <1>5, <1>6, <1>7 DEF StatusInv

(* The suspend of a worker whose task has been cancelled: either the       *)
(* machine has closed the task, or the hooks overlap and the row is stale. *)
LEMMA LateCommit ==
    ASSUME NEW T, Tasks = {T}, StatusInv, TypeOK', Reached', LateSuspend(T)
    PROVE  StatusInv'
<1>1. /\ TypeOK /\ Closing /\ Answered /\ Overlaps /\ SaidIsRight /\ RowIsRight
      /\ T \in Tasks /\ T \in Threads /\ late[T] /\ routed \subseteq {T} /\ closed \subseteq {T}
  BY DEF StatusInv, TypeOK, Threads, LateSuspend
<1>2. PICK type \in SuspendTypes : Commit(T, T, type)
  BY DEF LateSuspend
<1>3. UNCHANGED <<task, closed, routed, status>> /\ ~late'[T]
  BY <1>1 DEF LateSuspend, hubVars, rowVars, TypeOK
<1>4. type \in Types /\ type \notin TERMINAL_TYPES /\ StatusFor(type) # Unchanged
  BY TypeNames, StatusNames DEF SuspendTypes, Unchanged
<1>5. /\ hook[T] = NoHook /\ hook'[T] \in Envelopes /\ hook'[T].type = type
      /\ hook'[T].stage = "observe" /\ hook'[T].task = T
      /\ \A x \in Threads \ {T} :
           /\ hook'[x] = NoHook <=> hook[x] = NoHook
           /\ hook[x] # NoHook =>
               /\ hook'[x].task = hook[x].task /\ hook'[x].stage = hook[x].stage
               /\ hook'[x].type = hook[x].type /\ hook'[x].status = hook[x].status
  BY <1>1, <1>2, <1>4, CommitEffect
<1>6. task[T] = "dead"
  BY <1>1 DEF Closing
<1>7. Closing'
  <2>1. ASSUME NEW x \in Threads, Ending(hook'[x])
        PROVE  task'[hook'[x].task] = "dead"
    <3>1. x # T
      BY <1>4, <1>5, <2>1 DEF Ending
    <3>2. Ending(hook[x]) /\ hook'[x].task = hook[x].task
      BY <1>5, <2>1, <3>1 DEF Ending
    <3>3. QED
      BY <1>1, <1>3, <3>2 DEF Closing
  <2>2. QED
    BY <1>1, <1>3, <2>1 DEF Closing
<1>8. Answered'
  <2>1. ASSUME NEW x \in Threads, hook'[x].stage = "write"
        PROVE  hook'[x].status \in {Unchanged, StatusFor(hook'[x].type)}
    <3>1. x # T /\ hook'[x] # NoHook
      BY <1>5, <2>1 DEF NoHook
    <3>2. hook[x].stage = "write" /\ hook'[x].type = hook[x].type /\ hook'[x].status = hook[x].status
      BY <1>5, <2>1, <3>1
    <3>3. QED
      BY <1>1, <3>2 DEF Answered
  <2>2. QED
    BY <2>1 DEF Answered
<1>9. Overlaps'
  BY <1>1, <1>2, <1>4, CommitMoves DEF Overlaps
<1>10. Moves(hook'[T]) /\ \A x \in Threads : Moves(hook'[x]) /\ hook'[x].solo => x = T
  BY <1>1, <1>2, <1>4, CommitMoves
<1>11. SaidIsRight'
  <2>1. SUFFICES ASSUME T \in routed, hook'[T].solo
                 PROVE  Said(hook[T])' = Unchanged /\ (~stale' => status = StatusOf(task[T]))
    BY <1>1, <1>3, <1>10 DEF SaidIsRight
  <2>2. \A x \in Threads : ~Moves(hook[x])
    BY <1>1, <1>2, <1>4, <2>1, CommitMoves
  <2>3. T \in closed
    <3>1. \A x \in Threads : ~Ending(hook[x])
      <4>1. \A e \in TERMINAL_TYPES : StatusFor(e) # Unchanged
        BY StatusNames DEF Unchanged
      <4>2. QED
        BY <2>2, <4>1 DEF Moves, Ending
    <3>2. QED
      BY <1>1, <2>1, <3>1 DEF Closing
  <2>4. stale' = stale
    BY <1>1, <1>2, <1>4, <2>2, CommitMoves
  <2>5. ~stale => status = StatusOf(task[T])
    BY <1>1, <2>1, <2>2 DEF RowIsRight
  <2>6. QED
    BY <1>3, <1>5, <2>3, <2>4, <2>5 DEF Said
<1>12. RowIsRight'
  BY <1>1, <1>10 DEF RowIsRight
<1>13. QED
  BY <1>7, <1>8, <1>9, <1>11, <1>12 DEF StatusInv

(* A step that commits nothing and after which the engine reads the same.  *)
LEMMA CalmStep ==
    ASSUME NEW T, Tasks = {T}, StatusInv, TypeOK', Reached',
           UNCHANGED <<hook, stale, closed, status, late, routed>>,
           StatusOf(task'[T]) = StatusOf(task[T]), task[T] = "dead" => task'[T] = "dead"
    PROVE  StatusInv'
<1>1. /\ TypeOK /\ Closing /\ Answered /\ Overlaps /\ SaidIsRight /\ RowIsRight
      /\ routed \subseteq {T} /\ closed \subseteq {T}
      /\ \A th \in Threads : hook[th] # NoHook => hook[th].task = T
  BY EnvelopeFields DEF StatusInv, TypeOK
<1>2. Closing'
  BY <1>1 DEF Closing, Ending
<1>3. Answered' /\ Overlaps'
  BY <1>1 DEF Answered, Overlaps
<1>4. SaidIsRight' /\ RowIsRight'
  BY <1>1 DEF SaidIsRight, RowIsRight, Said
<1>5. QED
  BY <1>2, <1>3, <1>4 DEF StatusInv

(* The status machine is asked.                                            *)
LEMMA ObserveStep ==
    ASSUME NEW T, Tasks = {T}, StatusInv, TypeOK', NEW th \in Threads, Observe(th)
    PROVE  StatusInv'
<1> DEFINE h == hook[th]
<1>1. /\ TypeOK /\ Reached /\ Closing /\ Answered /\ Overlaps /\ SaidIsRight /\ RowIsRight
      /\ T \in Tasks /\ routed \subseteq {T} /\ closed \subseteq {T}
      /\ hook \in [Threads -> Envelopes \cup {NoHook}]
  BY DEF StatusInv, TypeOK
<1>2. /\ h.stage = "observe" /\ h \in Envelopes /\ h # NoHook /\ h.task = T
  BY <1>1, EnvelopeFields DEF Observe
<1>3. UNCHANGED <<task, late, routed, status, streams, req, stale>>
  BY DEF Observe, engineVars, rowVars
<1>4. \A x \in Threads \ {th} : hook'[x] = hook[x]
  BY <1>1 DEF Observe
<1>5. \A x \in Threads : hook[x] # NoHook => hook[x].task = T
  BY <1>1, EnvelopeFields
<1>6. Reached'
  BY <1>1, <1>3 DEF Reached
<1>7. CASE T \notin routed
  <2>1. hook'[th] = NoHook /\ closed' = closed
    BY <1>1, <1>2, <1>7 DEF Observe
  <2>2. NoHook.stage # "write" /\ ~Ending(NoHook) /\ ~Moves(NoHook)
    BY DEF NoHook, Ending, Moves
  <2>3. Closing'
    BY <1>1, <1>3, <1>4, <1>7, <2>1, <2>2 DEF Closing
  <2>4. Answered'
    BY <1>1, <1>4, <2>1, <2>2 DEF Answered
  <2>5. Overlaps'
    BY <1>1, <1>3, <1>4, <2>1, <2>2 DEF Overlaps
  <2>6. SaidIsRight' /\ RowIsRight'
    BY <1>1, <1>3, <1>7 DEF SaidIsRight, RowIsRight
  <2>7. QED
    BY <1>6, <2>3, <2>4, <2>5, <2>6 DEF StatusInv
<1>8. CASE T \in routed
  <2>1. /\ hook' = [hook EXCEPT ![th].stage = "write",
                                ![th].status = IF h.task \in closed THEN Unchanged
                                               ELSE StatusFor(h.type)]
        /\ closed' = IF h.type \in TERMINAL_TYPES THEN closed \cup {h.task} ELSE closed
    BY <1>2, <1>8 DEF Observe
  <2>2. /\ hook'[th].stage = "write" /\ hook'[th].task = T /\ hook'[th].type = h.type
        /\ hook'[th].solo = h.solo /\ hook'[th] # NoHook /\ hook'[th].status = Said(h)
    <3>1. /\ hook'[th].stage = "write" /\ hook'[th].task = h.task /\ hook'[th].type = h.type
          /\ hook'[th].solo = h.solo
          /\ hook'[th].status = IF h.task \in closed THEN Unchanged ELSE StatusFor(h.type)
      BY <1>1, <1>2, <2>1 DEF Envelopes
    <3>2. QED
      BY <1>2, <3>1 DEF Said, NoHook
  <2>3. \A x \in Threads : (Moves(hook'[x]) <=> Moves(hook[x])) /\ (Ending(hook'[x]) <=> Ending(hook[x]))
    BY <1>2, <1>4, <2>2 DEF Moves, Ending
  <2>4. \A x \in Threads : hook[x] # NoHook => hook'[x].solo = hook[x].solo /\ hook'[x].task = hook[x].task
    BY <1>2, <1>4, <2>2
  <2>5. h.type \in TERMINAL_TYPES => task[T] = "dead"
    BY <1>1, <1>2 DEF Closing, Ending
  <2>6. Closing'
    <3>1. \A t \in closed' : task'[t] = "dead"
      BY <1>1, <1>2, <1>3, <2>1, <2>5 DEF Closing
    <3>2. \A x \in Threads : Ending(hook'[x]) => task'[hook'[x].task] = "dead"
      BY <1>1, <1>3, <2>3, <2>4 DEF Closing, Ending
    <3>3. ASSUME NEW t \in Tasks, late[t]
          PROVE  t \in closed' \/ \E x \in Threads : Ending(hook'[x]) /\ hook'[x].stage = "observe"
      <4>1. t = T /\ (T \in closed \/ \E x \in Threads : Ending(hook[x]) /\ hook[x].stage = "observe")
        BY <1>1, <1>8, <3>3 DEF Closing
      <4>2. CASE h.type \in TERMINAL_TYPES
        BY <1>2, <2>1, <4>1, <4>2
      <4>3. CASE h.type \notin TERMINAL_TYPES
        BY <1>4, <2>1, <4>1, <4>3 DEF Ending
      <4>4. QED
        BY <4>2, <4>3
    <3>4. QED
      BY <1>1, <1>3, <3>1, <3>2, <3>3 DEF Closing
  <2>7. Answered'
    <3>1. Said(h) \in {Unchanged, StatusFor(h.type)}
      BY <1>2 DEF Said
    <3>2. QED
      BY <1>1, <1>4, <2>2, <3>1 DEF Answered
  <2>8. Overlaps'
    <3>1. \A x \in Threads : Moves(hook[x]) => hook[x] # NoHook
      BY DEF Moves
    <3>2. QED
      BY <1>1, <1>3, <2>3, <2>4, <3>1 DEF Overlaps
  <2>9. SaidIsRight'
    <3>1. SUFFICES ASSUME NEW x \in Threads, Moves(hook'[x]), hook'[x].solo
                   PROVE  /\ Said(hook[x])' \in {Unchanged, StatusOf(task[T])}
                          /\ Said(hook[x])' = Unchanged /\ ~stale => status = StatusOf(task[T])
      BY <1>1, <1>3 DEF SaidIsRight
    <3>2. Moves(hook[x]) /\ hook[x].solo /\ hook[x] # NoHook
      BY <2>3, <2>4, <3>1 DEF Moves
    <3>3. Said(hook[x])' = Said(hook[x])
      <4>1. CASE x = th
        BY <2>2, <4>1 DEF Said
      <4>2. CASE x # th
        <5>1. ~Moves(h)
          BY <1>1, <3>2, <4>2 DEF Overlaps
        <5>2. h.type \notin TERMINAL_TYPES
          BY <1>2, <5>1, StatusNames DEF Moves, Unchanged
        <5>3. closed' = closed /\ hook'[x] = hook[x]
          BY <1>4, <2>1, <4>2, <5>2
        <5>4. QED
          BY <5>3 DEF Said
      <4>3. QED
        BY <4>1, <4>2
    <3>4. QED
      BY <1>1, <1>8, <3>2, <3>3 DEF SaidIsRight
  <2>10. RowIsRight'
    BY <1>1, <1>3, <2>3 DEF RowIsRight
  <2>11. QED
    BY <1>6, <2>6, <2>7, <2>8, <2>9, <2>10 DEF StatusInv
<1>9. QED
  BY <1>7, <1>8

(* The row is written; an undisturbed write repairs it.                    *)
LEMMA AdvanceStep ==
    ASSUME NEW T, Tasks = {T}, StatusInv, TypeOK', NEW th \in Threads, AdvanceSession(th)
    PROVE  StatusInv'
<1> DEFINE h == hook[th]
<1>1. /\ TypeOK /\ Reached /\ Closing /\ Answered /\ Overlaps /\ SaidIsRight /\ RowIsRight
      /\ T \in Tasks /\ routed \subseteq {T} /\ closed \subseteq {T} /\ stale \in BOOLEAN
      /\ hook \in [Threads -> Envelopes \cup {NoHook}]
  BY DEF StatusInv, TypeOK
<1>2. h.stage = "write" /\ h \in Envelopes /\ h # NoHook /\ h.solo \in BOOLEAN
  BY <1>1, EnvelopeFields DEF AdvanceSession
<1>3. /\ UNCHANGED <<task, late, closed, routed, streams, req>>
      /\ status' = IF h.status = Unchanged THEN status ELSE h.status
      /\ stale' = (stale /\ ~(h.solo /\ h.status # Unchanged))
  BY DEF AdvanceSession, engineVars, hubVars
<1>4. hook'[th] = NoHook /\ \A x \in Threads \ {th} : hook'[x] = hook[x]
  BY <1>1 DEF AdvanceSession
<1>5. NoHook.stage # "write" /\ ~Ending(NoHook) /\ ~Moves(NoHook)
  BY DEF NoHook, Ending, Moves
<1>6. Reached'
  BY <1>1, <1>3 DEF Reached
<1>7. Closing'
  <2>1. \A x \in Threads : Ending(hook'[x]) => x # th
    BY <1>4, <1>5
  <2>2. \A x \in Threads : Ending(hook[x]) /\ hook[x].stage = "observe" => x # th
    BY <1>2
  <2>3. QED
    BY <1>1, <1>3, <1>4, <2>1, <2>2 DEF Closing
<1>8. Answered'
  BY <1>1, <1>4, <1>5 DEF Answered
<1>9. h.status # Unchanged => Moves(h)
  BY <1>1, <1>2 DEF Answered, Moves
<1>10. Said(h) = h.status
  BY <1>2 DEF Said
<1>11. Overlaps'
  <2>1. \A x \in Threads : Moves(hook'[x]) => x # th /\ Moves(hook[x]) /\ hook'[x] = hook[x]
    BY <1>4, <1>5
  <2>2. ASSUME NEW x \in Threads, Moves(hook'[x]), ~stale'
        PROVE  hook'[x].solo
    <3>1. CASE ~stale
      BY <1>1, <2>1, <2>2, <3>1 DEF Overlaps
    <3>2. CASE stale
      <4>1. h.solo /\ Moves(h)
        BY <1>2, <1>3, <1>9, <2>2, <3>2
      <4>2. QED
        BY <1>1, <2>1, <2>2, <4>1 DEF Overlaps
    <3>3. QED
      BY <3>1, <3>2
  <2>3. QED
    BY <1>1, <2>1, <2>2 DEF Overlaps
<1>12. ASSUME T \in routed, ~stale', \A x \in Threads : ~Moves(hook'[x])
       PROVE  status' = StatusOf(task[T])
  <2>1. CASE Moves(h)
    <3>1. h.solo
      BY <1>1, <1>2, <1>3, <1>12, <2>1 DEF Overlaps
    <3>2. /\ h.status \in {Unchanged, StatusOf(task[T])}
          /\ h.status = Unchanged /\ ~stale => status = StatusOf(task[T])
      BY <1>1, <1>10, <1>12, <2>1, <3>1 DEF SaidIsRight
    <3>3. CASE h.status = Unchanged
      BY <1>1, <1>3, <1>12, <3>2, <3>3
    <3>4. CASE h.status # Unchanged
      BY <1>3, <3>2, <3>4
    <3>5. QED
      BY <3>3, <3>4
  <2>2. CASE ~Moves(h)
    <3>1. h.status = Unchanged /\ ~stale
      BY <1>1, <1>3, <1>9, <1>12, <2>2
    <3>2. \A x \in Threads : ~Moves(hook[x])
      BY <1>4, <1>12, <2>2
    <3>3. QED
      BY <1>1, <1>3, <1>12, <3>1, <3>2 DEF RowIsRight
  <2>3. QED
    BY <2>1, <2>2
<1>13. SaidIsRight'
  <2>1. SUFFICES ASSUME T \in routed, NEW x \in Threads, Moves(hook'[x]), hook'[x].solo
                 PROVE  /\ Said(hook[x])' \in {Unchanged, StatusOf(task[T])}
                        /\ Said(hook[x])' = Unchanged /\ ~stale' => status' = StatusOf(task[T])
    BY <1>1, <1>3 DEF SaidIsRight
  <2>2. x # th /\ hook'[x] = hook[x] /\ Moves(hook[x]) /\ hook[x].solo
    BY <1>4, <1>5, <2>1
  <2>3. ~Moves(h)
    BY <1>1, <2>2 DEF Overlaps
  <2>4. h.status = Unchanged
    BY <1>9, <2>3
  <2>5. status' = status /\ stale' = stale /\ Said(hook[x])' = Said(hook[x])
    BY <1>1, <1>3, <2>2, <2>4 DEF Said
  <2>6. QED
    BY <1>1, <2>1, <2>2, <2>5 DEF SaidIsRight
<1>14. RowIsRight'
  BY <1>1, <1>3, <1>12 DEF RowIsRight
<1>15. QED
  BY <1>6, <1>7, <1>8, <1>11, <1>13, <1>14 DEF StatusInv

(* What the handlers address stays in the routing.                         *)
LEMMA ReachedServe ==
    ASSUME TypeOK, Reached, NEW r \in Requests, Arrive(r) \/ Serve(r)
    PROVE  Reached'
<1>1. Resolved(req[r]) => req[r].task \in routed
  BY DEF Reached
<1>2. streams \subseteq routed' /\ routed \subseteq routed'
  BY ServeEffect DEF Reached
<1>3. streams' \subseteq routed'
  BY <1>1, <1>2, ServeEffect
<1>4. \A x \in Requests : Resolved(req'[x]) => req'[x].task \in routed'
  BY <1>1, <1>2, ServeEffect DEF Reached
<1>5. QED
  BY <1>3, <1>4 DEF Reached

(* The status follows whatever a handler does to the task.                 *)
LEMMA ServeStatus ==
    ASSUME NEW T, Tasks = {T}, StatusInv, TypeOK', NEW r \in Requests, Arrive(r) \/ Serve(r)
    PROVE  StatusInv'
<1> DEFINE t == req[r].task
<1>1. /\ TypeOK /\ Reached /\ r \in Threads /\ T \in Tasks /\ closed \subseteq Tasks
      /\ task \in [Tasks -> TaskStates] /\ late \in [Tasks -> BOOLEAN]
      /\ req \in [Requests -> Handlers \cup {NoReq}]
  BY DEF StatusInv, TypeOK, Threads
<1>2. Reached'
  BY <1>1, ReachedServe
<1>3. ASSUME NEW p \in {"act", "bind", "dispatch", "withdraw", "settle"},
             req[r] # NoReq, req[r].pc = p
      PROVE  t = T /\ T \in routed
  BY <1>1, <1>3, HandlerFields DEF Reached, Resolved
<1>4. ASSUME NEW q, Enter(r, q)
      PROVE  StatusInv'
  <2>1. UNCHANGED <<hook, stale, closed, status, late, routed, task>>
    BY <1>4 DEF Enter, engineVars, hubVars, rowVars
  <2>2. QED
    BY <1>2, <2>1, CalmStep
<1>5. CASE Arrive(r) \/ ResolveTaskId(r) \/ Refuse(r)
  BY <1>4, <1>5 DEF Arrive, SendMessage, AnswerOrStop, RewindRequest, ResolveTaskId, Refuse
<1>6. CASE SeedStart(r)
  <2>1. /\ task[T] = "none" /\ task' = [task EXCEPT ![T] = "seeded"] /\ Commit(r, T, "TaskStarted")
        /\ UNCHANGED <<late, closed>>
    BY <1>6 DEF SeedStart
  <2>2. /\ task'[T] = "seeded" /\ "TaskStarted" \in Types /\ "TaskStarted" \notin TERMINAL_TYPES
        /\ StatusFor("TaskStarted") = StatusOf(task'[T])
    BY <1>1, <2>1, StatusNames, TypeNames
  <2>3. QED
    BY <1>1, <1>2, <2>1, <2>2, MovingCommit
<1>7. CASE Bind(r)
  <2>1. UNCHANGED <<hook, stale, closed, status, late, routed, task>>
    BY <1>7 DEF Bind, engineVars, hubVars
  <2>2. QED
    BY <1>2, <2>1, CalmStep
<1>8. CASE Dispatch(r)
  <2>1. /\ UNCHANGED <<hook, stale, closed, status, late, routed>>
        /\ req[r] # NoReq /\ req[r].pc = "dispatch"
        /\ task' = [task EXCEPT ![t] = IF @ = "seeded" THEN "running" ELSE @]
    BY <1>8 DEF Dispatch, hubVars, rowVars
  <2>2. t = T
    BY <1>3, <2>1
  <2>3. task'[T] = task[T] \/ (task[T] = "seeded" /\ task'[T] = "running")
    BY <1>1, <2>1, <2>2
  <2>4. StatusOf(task'[T]) = StatusOf(task[T]) /\ (task[T] = "dead" => task'[T] = "dead")
    BY <2>3, StatusNames
  <2>5. QED
    BY <1>2, <2>1, <2>4, CalmStep
<1>9. ASSUME t = T, NEW s \in {"seeded", "withdrawing"}, task[T] \notin {"dead"},
             task' = [task EXCEPT ![t] = s], Commit(r, t, "TaskWoken"),
             UNCHANGED <<late, hubVars>>
      PROVE  StatusInv'
  <2>1. /\ task'[T] = s /\ "TaskWoken" \in Types /\ "TaskWoken" \notin TERMINAL_TYPES
        /\ StatusFor("TaskWoken") = StatusOf(task'[T])
    BY <1>1, <1>9, StatusNames, TypeNames
  <2>2. QED
    BY <1>1, <1>2, <1>9, <2>1, MovingCommit DEF hubVars
<1>10. ASSUME t = T, NEW type \in {"Other", "TurnInterrupted", "UserQuestionWithdrawn"},
              Commit(r, t, type), UNCHANGED <<task, late, hubVars, rowVars>>
       PROVE  StatusInv'
  <2>1. type \in Types /\ StatusFor(type) = Unchanged
    BY StatusNames, TypeNames
  <2>2. UNCHANGED <<task, late, closed, routed, status>>
    BY <1>10 DEF hubVars, rowVars
  <2>3. QED
    BY <1>1, <1>2, <1>10, <2>1, <2>2, MarkerCommit
<1>11. CASE SendGoal(r) \/ Answer(r)
  <2>1. req[r] # NoReq /\ req[r].pc = "act"
    BY <1>11 DEF SendGoal, Answer, At
  <2>2. Refuse(r) \/ (task[t] \in {"parked", "question"} /\ Resume(r, t))
    BY <1>11 DEF SendGoal, Answer
  <2>3. QED
    BY <1>3, <1>5, <1>9, <2>1, <2>2 DEF Resume
<1>12. CASE InjectGoal(r) \/ Rewind(r)
  <2>1. req[r] # NoReq /\ req[r].pc = "act"
    BY <1>12 DEF InjectGoal, Rewind, At
  <2>2. Refuse(r) \/ (task[t] = "parked" /\ Resume(r, t)) \/ Mark(r, t, "Other")
    BY <1>12 DEF InjectGoal, Rewind
  <2>3. QED
    BY <1>3, <1>5, <1>9, <1>10, <2>1, <2>2 DEF Resume, Mark
<1>13. CASE Interrupt(r)
  <2>1. req[r] # NoReq /\ req[r].pc = "act"
    BY <1>13 DEF Interrupt, At
  <2>2. \/ Refuse(r) \/ Mark(r, t, "TurnInterrupted")
        \/ /\ task[t] = "question" /\ task' = [task EXCEPT ![t] = "withdrawing"]
           /\ Commit(r, t, "TaskWoken") /\ UNCHANGED <<late, hubVars>>
    BY <1>13 DEF Interrupt
  <2>3. QED
    BY <1>3, <1>5, <1>9, <1>10, <2>1, <2>2 DEF Mark
<1>14. CASE Withdraw(r)
  <2>1. req[r] # NoReq /\ req[r].pc = "withdraw"
    BY <1>14 DEF Withdraw, At
  <2>2. \/ Refuse(r)
        \/ Commit(r, t, "UserQuestionWithdrawn") /\ UNCHANGED <<task, late, hubVars, rowVars>>
    BY <1>14 DEF Withdraw, engineVars
  <2>3. QED
    BY <1>3, <1>5, <1>10, <2>1, <2>2
<1>15. CASE Settle(r) /\ ~Refuse(r)
  <2>1. req[r] # NoReq /\ req[r].pc = "settle"
    BY <1>15 DEF Settle, At
  <2>2. t = T
    BY <1>3, <2>1
  <2>3. /\ task[T] = "withdrawing" /\ task' = [task EXCEPT ![T] = "parked"]
        /\ Commit(r, T, "SuspendedIdle") /\ UNCHANGED <<late, closed>>
    BY <1>15, <2>2 DEF Settle, hubVars
  <2>4. /\ task'[T] = "parked" /\ "SuspendedIdle" \in Types /\ "SuspendedIdle" \notin TERMINAL_TYPES
        /\ StatusFor("SuspendedIdle") = StatusOf(task'[T])
    BY <1>1, <2>3, StatusNames, TypeNames
  <2>5. QED
    BY <1>1, <1>2, <2>3, <2>4, MovingCommit
<1>16. CASE Cancel(r) /\ ~Refuse(r)
  <2>1. req[r] # NoReq /\ req[r].pc = "act"
    BY <1>16 DEF Cancel, At
  <2>2. t = T
    BY <1>3, <2>1
  <2>3. /\ task[T] # "dead" /\ task' = [task EXCEPT ![T] = "dead"]
        /\ Commit(r, T, "TaskCancelled") /\ UNCHANGED closed
    BY <1>16, <2>2 DEF Cancel, hubVars
  <2>4. /\ task'[T] = "dead" /\ "TaskCancelled" \in Types /\ "TaskCancelled" \in TERMINAL_TYPES
        /\ StatusFor("TaskCancelled") = StatusOf(task'[T])
    BY <1>1, <2>3, StatusNames, TypeNames
  <2>5. QED
    BY <1>1, <1>2, <2>3, <2>4, MovingCommit
<1>17. QED
  BY <1>5, <1>6, <1>7, <1>8, <1>11, <1>12, <1>13, <1>14, <1>15, <1>16 DEF Serve

(* The status follows whatever the worker does to its task.                *)
LEMMA WorkerStatus ==
    ASSUME NEW T, Tasks = {T}, StatusInv, TypeOK', Worker(T)
    PROVE  StatusInv'
<1>1. /\ TypeOK /\ Reached /\ T \in Threads /\ T \in Tasks /\ task \in [Tasks -> TaskStates]
  BY DEF StatusInv, TypeOK, Threads
<1>2. UNCHANGED <<hubVars, rowVars, req>>
  BY <1>1, WorkerEffect
<1>3. Reached'
  BY <1>1, <1>2 DEF Reached, hubVars, rowVars
<1>4. CASE LateSuspend(T)
  BY <1>3, <1>4, LateCommit
<1>5. ASSUME NEW from \in TaskStates \ {"dead"}, NEW to \in TaskStates, NEW type \in Types,
             Drive(T, from, to, type), StatusFor(type) = StatusOf(to),
             type \in TERMINAL_TYPES => to = "dead"
      PROVE  StatusInv'
  <2>1. /\ task[T] # "dead" /\ task'[T] = to /\ Commit(T, T, type) /\ UNCHANGED <<late, closed>>
    BY <1>1, <1>5 DEF Drive, hubVars
  <2>2. QED
    BY <1>1, <1>3, <1>5, <2>1, MovingCommit
<1>6. /\ {"running", "asking", "barrier", "question", "parked"} \subseteq TaskStates \ {"dead"}
      /\ "dead" \in TaskStates
  BY DEF TaskStates
<1>7. CASE Ask(T) \/ SuspendQuestion(T)
  BY <1>5, <1>6, <1>7, StatusNames, TypeNames DEF Ask, SuspendQuestion
<1>8. CASE SuspendBarrier(T) \/ SubtasksDone(T)
  BY <1>5, <1>6, <1>8, StatusNames, TypeNames DEF SuspendBarrier, SubtasksDone
<1>9. CASE EndTurn(T) \/ Fail(T)
  BY <1>5, <1>6, <1>9, StatusNames, TypeNames DEF EndTurn, Fail
<1>10. QED
  BY <1>4, <1>7, <1>8, <1>9 DEF Worker

(* A restart forgets the hooks: if one was moving the status, or if the    *)
(* requeued task reads otherwise, the row is stale until the next write.   *)
LEMMA RestartStatus ==
    ASSUME NEW T, Tasks = {T}, StatusInv, TypeOK', Restart
    PROVE  StatusInv'
<1>1. /\ TypeOK /\ Reached /\ RowIsRight /\ T \in Tasks /\ stale \in BOOLEAN
      /\ task \in [Tasks -> TaskStates] /\ routed \subseteq {T}
  BY DEF StatusInv, TypeOK
<1>2. /\ hook' = [th \in Threads |-> NoHook] /\ closed' = {} /\ routed' = streams
      /\ req' = [r \in Requests |-> NoReq] /\ late' = [t \in Tasks |-> FALSE]
      /\ UNCHANGED <<status, streams>>
      /\ stale' = (stale \/ (\E th \in Threads : Moves(hook[th]))
                         \/ (\E t \in Tasks : StatusOf(task'[t]) # StatusOf(task[t])))
  BY DEF Restart, rowVars
<1>3. ~Ending(NoHook) /\ ~Moves(NoHook) /\ NoHook.stage # "write" /\ ~Resolved(NoReq)
  BY DEF Ending, Moves, NoHook, NoReq, Resolved
<1>4. Reached'
  BY <1>2, <1>3 DEF Reached
<1>5. Closing' /\ Answered' /\ Overlaps' /\ SaidIsRight'
  BY <1>2, <1>3 DEF Closing, Answered, Overlaps, SaidIsRight
<1>6. RowIsRight'
  <2>1. SUFFICES ASSUME T \in streams, ~stale' PROVE status = StatusOf(task'[T])
    BY <1>1, <1>2 DEF RowIsRight, Reached
  <2>2. ~stale /\ (\A th \in Threads : ~Moves(hook[th])) /\ StatusOf(task'[T]) = StatusOf(task[T])
    BY <1>1, <1>2, <2>1
  <2>3. QED
    BY <1>1, <2>1, <2>2 DEF RowIsRight, Reached
<1>7. QED
  BY <1>4, <1>5, <1>6 DEF StatusInv

(* In a session of one task the stored status is the one the engine is in  *)
(* whenever the hooks are quiet, unless hooks overlapped or one died with  *)
(* the process and nothing has been written since: for every number of     *)
(* concurrent requests, in every order of their commits and row writes,    *)
(* and across restarts.  (The rows of several tasks share one status, so   *)
(* with more the last writer wins and the property is not claimed.)        *)
THEOREM StatusFollowsTheEngine ==
    ASSUME NEW T, Tasks = {T}
    PROVE  Spec => []StatusTracks
<1>1. Init => StatusInv
  <2>1. SUFFICES ASSUME Init PROVE StatusInv
    OBVIOUS
  <2>2. /\ hook = [th \in Threads |-> NoHook] /\ closed = {} /\ routed = {} /\ streams = {}
        /\ late = [t \in Tasks |-> FALSE] /\ req = [r \in Requests |-> NoReq]
    BY <2>1 DEF Init
  <2>3. ~Ending(NoHook) /\ ~Moves(NoHook) /\ NoHook.stage # "write" /\ ~Resolved(NoReq)
    BY DEF Ending, Moves, NoHook, NoReq, Resolved
  <2>4. Reached /\ Closing /\ Answered /\ Overlaps /\ SaidIsRight /\ RowIsRight
    BY <2>2, <2>3 DEF Reached, Closing, Answered, Overlaps, SaidIsRight, RowIsRight
  <2>5. QED
    BY <2>1, <2>4, TypeInit DEF StatusInv
<1>2. StatusInv /\ [Next]_vars => StatusInv'
  <2>1. SUFFICES ASSUME StatusInv, [Next]_vars PROVE StatusInv'
    OBVIOUS
  <2>2. TypeOK /\ TypeOK' /\ Reached
    BY <2>1, TypeStep DEF StatusInv
  <2>3. CASE UNCHANGED vars
    <3>1. /\ UNCHANGED <<hook, stale, closed, status, late, routed, task, streams, req>>
      BY <2>3 DEF vars, engineVars, hubVars, rowVars
    <3>2. Reached'
      BY <2>2, <3>1 DEF Reached
    <3>3. QED
      BY <2>1, <2>2, <3>1, <3>2, CalmStep
  <2>4. CASE \E th \in Threads : Hook(th)
    BY <2>1, <2>2, <2>4, ObserveStep, AdvanceStep DEF Hook
  <2>5. CASE \E r \in Requests : Arrive(r) \/ Serve(r)
    BY <2>1, <2>2, <2>5, ServeStatus
  <2>6. CASE \E t \in Tasks : Worker(t)
    BY <2>1, <2>2, <2>6, WorkerStatus
  <2>7. CASE Restart
    BY <2>1, <2>2, <2>7, RestartStatus
  <2>8. QED
    BY <2>1, <2>3, <2>4, <2>5, <2>6, <2>7 DEF Next
<1>3. StatusInv => StatusTracks
  <2>1. SUFFICES ASSUME StatusInv, Quiet, ~stale, NEW t \in streams
                 PROVE  status = StatusOf(task[t])
    BY DEF StatusTracks
  <2>2. t \in routed /\ \A th \in Threads : ~Moves(hook[th])
    BY <2>1 DEF StatusInv, Reached, Quiet, Moves
  <2>3. QED
    BY <2>1, <2>2 DEF StatusInv, RowIsRight
<1>4. QED
  BY <1>1, <1>2, <1>3, PTL DEF Spec

=============================================================================
