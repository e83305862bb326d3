------------------------------ MODULE HubProofs ------------------------------
(***************************************************************************)
(* Proofs about HubRouting: for every number of sessions, tasks, request   *)
(* threads and process deaths, no frame reaches a session that does not    *)
(* own its task, no task resolves another project's memory, and the        *)
(* subtasks of a routed stream are routed and stamped with their root.     *)
(*                                                                         *)
(* The argument is one of ownership.  A task is created for a session once *)
(* and for all (`owner`), a subtask for its parent's.  Every map the hub   *)
(* and the store keep, and every hook on its way, agrees with the owner    *)
(* wherever it says anything; a thread-local window is open only while its *)
(* thread is in the handler of the session it was opened for.              *)
(***************************************************************************)
EXTENDS HubRouting, TLAPS

-----------------------------------------------------------------------------
(* The inductive invariant *)

Kinds == {"root", "spawn", "genesis", "plain"}

Hooks ==
    [stage : {"route"}, task : Tasks, kind : Kinds, child : Tasks \cup {None}]
        \cup [stage : {"deliver"}, task : Tasks, kind : Kinds, child : Tasks \cup {None},
              session : Sessions, sub : BOOLEAN]

Handlers ==
    [pc : {"seed"}, session : Sessions]
        \cup [pc : {"row", "close", "bind", "child", "adopt"}, session : Sessions, task : Tasks]

(* The records in the hooks and in the handlers. *)
Records ==
    /\ hook \in [Threads -> Hooks \cup {NoHook}]
    /\ req \in [Requests -> Handlers \cup {NoReq}]

Owned(s) == \E t \in Tasks : owner[t] = s

(* A subtask belongs to its parent's session and root; what is not a       *)
(* subtask is its own root and owes no marker.                             *)
Family ==
    \A t \in Tasks :
        IF parent[t] = None THEN rootOf[t] = t /\ todo[t] = {}
        ELSE /\ owner[t] # None
             /\ owner[t] = owner[parent[t]]
             /\ rootOf[t] = rootOf[parent[t]]

Mapped(t) ==
    /\ tasks[t] # None => tasks[t] = owner[t] /\ parent[t] = None
    /\ streams[t] # None => streams[t] = owner[t] /\ parent[t] = None
    /\ subtasks[t] # NoSubtask =>
          subtasks[t].session = owner[t] /\ subtasks[t].root = rootOf[t] /\ parent[t] # None

(* The hub's maps and the store's rows agree with the owners. *)
Mappings == \A t \in Tasks : Mapped(t)

(* The envelope a hook is at is of an owned task: on a task's own thread,  *)
(* or the genesis of a root on a request's.                                *)
Envelope(th) ==
    LET h == hook[th]
    IN  h # NoHook =>
        /\ owner[h.task] # None
        /\ th \in Tasks => h.task = th
        /\ th \in Requests => h.kind = "root" /\ parent[h.task] = None
        /\ h.kind = "spawn" => h.child \in Tasks /\ parent[h.child] = h.task
        /\ h.stage = "deliver" =>
              /\ h.session = owner[h.task]
              /\ h.sub <=> parent[h.task] # None
              /\ h.sub => subtasks[h.task] # NoSubtask \/ h.session \notin alive

InHooks == \A th \in Threads : Envelope(th)

Windowed == {"seed", "row", "close"}

(* A window is open exactly while its thread is in the handler of the      *)
(* session it was opened for, and the only envelope committed meanwhile is *)
(* of the task that handler seeds.                                         *)
Handler(r) ==
    LET q == req[r]
    IN  /\ claim[r] = IF q.pc \in Windowed THEN q.session ELSE None
        /\ window[r] = IF q.pc \in Windowed THEN ProjectOf[q.session] ELSE None
        /\ q.pc \notin {"none", "row", "child"} => hook[r] = NoHook
        /\ q.pc \in {"row", "child"} => hook[r] = NoHook \/ hook[r].task = q.task
        /\ q.pc \notin {"none", "seed"} => owner[q.task] = q.session /\ parent[q.task] = None

InHandlers == \A r \in Requests : Handler(r)

(* A session id is used once: one that is not alive yet is only known to   *)
(* the fork that minted its first task.                                    *)
Lifetimes ==
    /\ \A s \in alive \cup deleted : s \in Opened \/ Owned(s)
    /\ alive \cap deleted = {}
    /\ \A r \in Requests : req[r].pc = "seed" =>
          req[r].session \in Opened \/ Owned(req[r].session)
    /\ \A r \in Requests : req[r].pc = "child" =>
          LET s == req[r].session
          IN  /\ s \notin Opened \cup alive \cup deleted
              /\ \A t \in Tasks : owner[t] = s => t = req[r].task
              /\ \A x \in Requests \ {r} : req[x].pc \in {"seed", "child"} => req[x].session # s

(* What has been fanned out and resolved. *)
Sent ==
    /\ \A f \in frames : f.to = owner[f.task]
    /\ \A m \in pools : /\ owner[m.task] # None
                        /\ m.project \in {ProjectOf[owner[m.task]], Quarantine}

(* A root the hub has not been told of yet. *)
Fresh(t) ==
    \E r \in Requests :
        /\ req[r].pc \in {"row", "child", "adopt"} /\ req[r].task = t
        /\ req[r].pc = "row" => hook[r] # NoHook /\ hook[r].stage = "route"

Announcing(c) ==
    \/ "genesis" \in todo[c]
    \/ hook[c] # NoHook /\ hook[c].stage = "route" /\ hook[c].kind = "genesis"

(* While no process has died, the hub knows every stream of a session that *)
(* is alive, and every subtask that has announced itself.                  *)
Known ==
    faults = 0 =>
        \A t \in Tasks : owner[t] \in alive =>
            IF parent[t] = None THEN tasks[t] # None \/ Fresh(t)
            ELSE /\ Belongs(parent[t]) # NoSubtask
                 /\ subtasks[t] # NoSubtask \/ Announcing(t)

HubInv ==
    /\ TypeOK /\ Records /\ Family /\ Mappings /\ InHooks /\ InHandlers
    /\ Lifetimes /\ Sent /\ StampIsRoot /\ Known

-----------------------------------------------------------------------------
(* What the records are made of *)

LEMMA HookFields ==
    /\ NoHook.stage = "none"
    /\ \A h \in Hooks :
          /\ h # NoHook /\ h.stage \in {"route", "deliver"}
          /\ h.task \in Tasks /\ h.kind \in Kinds /\ h.child \in Tasks \cup {None}
          /\ h.stage = "deliver" => h.session \in Sessions /\ h.sub \in BOOLEAN
  BY DEF Hooks, NoHook

LEMMA HandlerFields ==
    /\ NoReq.pc = "none"
    /\ \A q \in Handlers :
          /\ q # NoReq /\ q.pc \in {"seed", "row", "close", "bind", "child", "adopt"}
          /\ q.session \in Sessions
          /\ q.pc # "seed" => q.task \in Tasks
  BY DEF Handlers, NoReq

(* A handler goes on to its next step. *)
LEMMA HandlerMoves ==
    ASSUME Records, NEW r \in Requests, req[r] # NoReq, req[r].pc # "seed",
           NEW p \in {"row", "close", "bind", "child", "adopt"},
           req' = [req EXCEPT ![r].pc = p]
    PROVE  /\ req'[r] \in Handlers /\ req'[r].pc = p
           /\ req'[r].session = req[r].session /\ req'[r].task = req[r].task
           /\ \A x \in Requests \ {r} : req'[x] = req[x]
           /\ req' \in [Requests -> Handlers \cup {NoReq}]
<1>1. req \in [Requests -> Handlers \cup {NoReq}] /\ req[r] \in Handlers
  BY DEF Records
<1>2. req'[r] = [req[r] EXCEPT !.pc = p] /\ \A x \in Requests \ {r} : req'[x] = req[x]
  BY <1>1
<1>3. req[r] \in [pc : {"row", "close", "bind", "child", "adopt"}, session : Sessions, task : Tasks]
  BY <1>1 DEF Handlers
<1>4. /\ req'[r] \in [pc : {"row", "close", "bind", "child", "adopt"}, session : Sessions, task : Tasks]
      /\ req'[r].pc = p /\ req'[r].session = req[r].session /\ req'[r].task = req[r].task
  BY <1>2, <1>3
<1>5. req'[r] \in Handlers
  BY <1>4 DEF Handlers
<1>6. QED
  BY <1>1, <1>2, <1>4, <1>5

LEMMA CommitHook ==
    ASSUME Records, NEW th \in Threads, NEW t \in Tasks, NEW kind \in Kinds,
           NEW c \in Tasks \cup {None}, Commit(th, t, kind, c)
    PROVE  /\ hook[th] = NoHook /\ hook'[th] # NoHook
           /\ hook'[th].stage = "route" /\ hook'[th].task = t
           /\ hook'[th].kind = kind /\ hook'[th].child = c
           /\ \A x \in Threads \ {th} : hook'[x] = hook[x]
           /\ hook' \in [Threads -> Hooks \cup {NoHook}]
<1> DEFINE h == [stage |-> "route", task |-> t, kind |-> kind, child |-> c]
<1>1. h \in Hooks
  BY DEF Hooks
<1>2. hook[th] = NoHook /\ hook' = [hook EXCEPT ![th] = h]
  BY DEF Commit
<1>3. h.stage = "route" /\ h.task = t /\ h.kind = kind /\ h.child = c
  OBVIOUS
<1> HIDE DEF h
<1>4. QED
  BY <1>1, <1>2, <1>3, HookFields DEF Records

LEMMA Named ==
    /\ None \notin Sessions /\ None \notin Tasks
    /\ Requests \subseteq Threads /\ Tasks \subseteq Threads
    /\ \A th \in Threads : th \in Requests <=> th \notin Tasks
    /\ NoSubtask.session = None
    /\ Kinds = {"root", "spawn", "genesis", "plain"}
  BY ConstantsAssumption DEF Threads, NoSubtask, Kinds

-----------------------------------------------------------------------------
(* The hook *)

(* Where a task with parent p is put agrees with the owners. *)
LEMMA BelongsRight ==
    ASSUME HubInv, NEW t \in Tasks, parent[t] # None, Belongs(parent[t]) # NoSubtask
    PROVE  /\ Belongs(parent[t]).session = owner[t] /\ owner[t] \in Sessions
           /\ Belongs(parent[t]).root = rootOf[t]
           /\ Belongs(parent[t]) \in [session : MaybeSession, root : Tasks \cup {None}]
<1> DEFINE p == parent[t]
<1>1. TypeOK /\ Family /\ Mapped(p) /\ p \in Tasks
  BY DEF HubInv, Mappings, TypeOK
<1>2. owner[t] = owner[p] /\ rootOf[t] = rootOf[p] /\ owner[t] \in Sessions
  BY <1>1 DEF Family, TypeOK, MaybeSession
<1>3. CASE tasks[p] # None
  <2>1. Belongs(p) = [session |-> tasks[p], root |-> p]
    BY <1>3 DEF Belongs
  <2>2. tasks[p] = owner[p] /\ rootOf[p] = p
    BY <1>1, <1>3 DEF Mapped, Family
  <2>3. QED
    BY <1>1, <1>2, <2>1, <2>2 DEF MaybeSession
<1>4. CASE tasks[p] = None
  <2>1. Belongs(p) = subtasks[p] /\ subtasks[p] # NoSubtask
    BY <1>4 DEF Belongs
  <2>2. QED
    BY <1>1, <1>2, <2>1 DEF Mapped, TypeOK
<1>5. QED
  BY <1>3, <1>4

(* What routing an envelope comes to: dropped, or found for its owner.     *)
LEMMA RouteOutcome ==
    ASSUME HubInv, NEW th \in Threads, Route(th)
    PROVE  LET h == hook[th]
               t == h.task
               n == hook'[th]
           IN  /\ h \in Hooks /\ h.stage = "route" /\ t \in Tasks /\ owner[t] \in Sessions
               /\ \A x \in Threads \ {th} : hook'[x] = hook[x]
               /\ hook' \in [Threads -> Hooks \cup {NoHook}]
               /\ \/ n = NoHook
                  \/ /\ n \in Hooks /\ n.stage = "deliver" /\ n.task = t
                     /\ n.kind = h.kind /\ n.child = h.child
                     /\ n.session = owner[t] /\ (n.sub <=> parent[t] # None)
                     /\ n.sub => subtasks'[t] # NoSubtask
               /\ tasks' \in [Tasks -> MaybeSession]
               /\ subtasks' \in [Tasks -> [session : MaybeSession, root : Tasks \cup {None}]]
               /\ \A x \in Tasks : /\ tasks[x] # None => tasks'[x] = tasks[x]
                                   /\ subtasks[x] # NoSubtask => subtasks'[x] = subtasks[x]
                                   /\ Mapped(x)'
               /\ parent[t] # None /\ h.kind = "genesis" /\ Belongs(parent[t]) # NoSubtask =>
                     subtasks'[t] # NoSubtask
               /\ th \in Requests /\ req[th].pc = "row" => tasks'[t] # None
<1> DEFINE h == hook[th]
           t == h.task
           p == IF h.kind = "genesis" THEN parent[t] ELSE None
           F(s, sub) == [stage |-> "deliver", task |-> t, kind |-> h.kind,
                         child |-> h.child, session |-> s, sub |-> sub]
<1>1. /\ TypeOK /\ Records /\ Family /\ Mappings /\ Envelope(th)
      /\ h \in Hooks \cup {NoHook} /\ h.stage = "route"
  BY DEF HubInv, InHooks, Records, Route
<1>2. h \in Hooks /\ h # NoHook /\ t \in Tasks /\ h.kind \in Kinds /\ h.child \in Tasks \cup {None}
  BY <1>1, HookFields
<1>3. /\ owner[t] # None /\ owner[t] \in Sessions /\ Mapped(t)
      /\ owner \in [Tasks -> MaybeSession] /\ parent \in [Tasks -> Tasks \cup {None}]
      /\ tasks \in [Tasks -> MaybeSession]
      /\ subtasks \in [Tasks -> [session : MaybeSession, root : Tasks \cup {None}]]
  BY <1>1, <1>2 DEF Envelope, Mappings, TypeOK, MaybeSession
<1>4. UNCHANGED <<owner, parent, rootOf, streams>>
  BY DEF Route, engineVars, storeVars
<1>5. ASSUME NEW s \in Sessions, NEW b \in BOOLEAN, hook' = [hook EXCEPT ![th] = F(s, b)]
      PROVE  /\ hook'[th] = F(s, b) /\ F(s, b) \in Hooks
             /\ \A x \in Threads \ {th} : hook'[x] = hook[x]
             /\ hook' \in [Threads -> Hooks \cup {NoHook}]
             /\ hook'[th].stage = "deliver" /\ hook'[th].task = t /\ hook'[th].kind = h.kind
             /\ hook'[th].child = h.child /\ hook'[th].session = s /\ hook'[th].sub = b
  <2>1. F(s, b) \in Hooks
    BY <1>2 DEF Hooks
  <2>2. /\ F(s, b).stage = "deliver" /\ F(s, b).task = t /\ F(s, b).kind = h.kind
        /\ F(s, b).child = h.child /\ F(s, b).session = s /\ F(s, b).sub = b
    OBVIOUS
  <2> HIDE DEF F
  <2>3. QED
    BY <1>1, <1>5, <2>1, <2>2 DEF Records
<1>6. ASSUME hook' = [hook EXCEPT ![th] = NoHook]
      PROVE  /\ hook'[th] = NoHook /\ \A x \in Threads \ {th} : hook'[x] = hook[x]
             /\ hook' \in [Threads -> Hooks \cup {NoHook}]
  BY <1>1, <1>6 DEF Records
<1>7. ASSUME UNCHANGED hubVars
      PROVE  \A x \in Tasks : Mapped(x)' /\ tasks'[x] = tasks[x] /\ subtasks'[x] = subtasks[x]
  BY <1>1, <1>4, <1>7 DEF hubVars, Mappings, Mapped
<1>8. th \in Requests /\ req[th].pc = "row" =>
          claim[th] = owner[t] /\ parent[t] = None /\ p = None
  <2>1. SUFFICES ASSUME th \in Requests, req[th].pc = "row"
                 PROVE  claim[th] = owner[t] /\ parent[t] = None /\ p = None
    OBVIOUS
  <2>2. Handler(th)
    BY <2>1 DEF HubInv, InHandlers
  <2>3. t = req[th].task
    BY <1>2, <2>1, <2>2 DEF Handler
  <2>4. QED
    BY <1>1, <1>2, <2>1, <2>2, <2>3 DEF Handler, Windowed, Envelope
<1>9. CASE tasks[t] # None
  <2>1. hook' = [hook EXCEPT ![th] = F(tasks[t], FALSE)] /\ UNCHANGED hubVars
    BY <1>9 DEF Route
  <2>2. tasks[t] = owner[t] /\ parent[t] = None
    BY <1>3, <1>9 DEF Mapped
  <2>3. QED
    BY <1>1, <1>2, <1>3, <1>5, <1>7, <1>9, <2>1, <2>2 DEF hubVars
<1>10. CASE tasks[t] = None /\ subtasks[t] # NoSubtask
  <2>1. hook' = [hook EXCEPT ![th] = F(subtasks[t].session, TRUE)] /\ UNCHANGED hubVars
    BY <1>10 DEF Route
  <2>2. subtasks[t].session = owner[t] /\ parent[t] # None
    BY <1>3, <1>10 DEF Mapped
  <2>3. QED
    BY <1>1, <1>2, <1>3, <1>5, <1>7, <1>8, <1>10, <2>1, <2>2 DEF hubVars
<1>11. CASE tasks[t] = None /\ subtasks[t] = NoSubtask /\ p # None
  <2>1. /\ tasks' = tasks /\ p = parent[t] /\ parent[t] # None
        /\ subtasks' = [subtasks EXCEPT ![t] = Belongs(p)]
        /\ IF Belongs(p) # NoSubtask
           THEN hook' = [hook EXCEPT ![th] = F(Belongs(p).session, TRUE)]
           ELSE hook' = [hook EXCEPT ![th] = NoHook]
    BY <1>11 DEF Route
  <2>2. CASE Belongs(p) # NoSubtask
    <3>1. /\ Belongs(p).session = owner[t] /\ Belongs(p).root = rootOf[t]
          /\ Belongs(p) \in [session : MaybeSession, root : Tasks \cup {None}]
      BY <1>2, <2>1, <2>2, BelongsRight
    <3>2. subtasks'[t] = Belongs(p) /\ \A x \in Tasks \ {t} : subtasks'[x] = subtasks[x]
      BY <1>2, <1>3, <2>1
    <3>3. \A x \in Tasks : Mapped(x)'
      BY <1>1, <1>3, <1>4, <2>1, <3>1, <3>2 DEF Mappings, Mapped
    <3>4. subtasks' \in [Tasks -> [session : MaybeSession, root : Tasks \cup {None}]]
      BY <1>3, <2>1, <3>1
    <3>5. hook' = [hook EXCEPT ![th] = F(owner[t], TRUE)]
      BY <2>1, <2>2, <3>1
    <3>6. /\ subtasks'[t] # NoSubtask
          /\ \A x \in Tasks : /\ tasks[x] # None => tasks'[x] = tasks[x]
                              /\ subtasks[x] # NoSubtask => subtasks'[x] = subtasks[x]
      BY <1>11, <2>1, <2>2, <3>2
    <3>7. /\ hook'[th] \in Hooks /\ hook'[th].stage = "deliver" /\ hook'[th].task = t
          /\ hook'[th].kind = h.kind /\ hook'[th].child = h.child
          /\ hook'[th].session = owner[t] /\ (hook'[th].sub <=> parent[t] # None)
          /\ \A x \in Threads \ {th} : hook'[x] = hook[x]
          /\ hook' \in [Threads -> Hooks \cup {NoHook}]
      BY <1>3, <1>5, <2>1, <3>5
    <3>8. ~(th \in Requests /\ req[th].pc = "row")
      BY <1>8, <1>11
    <3> HIDE DEF F, p
    <3>9. QED
      BY <1>1, <1>2, <1>3, <2>1, <3>3, <3>4, <3>6, <3>7, <3>8
  <2>3. CASE Belongs(p) = NoSubtask
    <3>1. subtasks' = subtasks
      BY <1>2, <1>3, <1>11, <2>1, <2>3
    <3>2. QED
      BY <1>1, <1>2, <1>3, <1>6, <1>7, <1>8, <1>11, <2>1, <2>3, <3>1 DEF hubVars
  <2>4. QED
    BY <2>2, <2>3
<1>12. CASE tasks[t] = None /\ subtasks[t] = NoSubtask /\ p = None
  <2>1. /\ subtasks' = subtasks /\ tasks' = [tasks EXCEPT ![t] = ClaimOf(th)]
        /\ IF ClaimOf(th) # None
           THEN hook' = [hook EXCEPT ![th] = F(ClaimOf(th), FALSE)]
           ELSE hook' = [hook EXCEPT ![th] = NoHook]
    BY <1>12 DEF Route
  <2>2. ~(parent[t] # None /\ h.kind = "genesis")
    BY <1>12
  <2>3. CASE ClaimOf(th) = None
    <3>1. tasks' = tasks
      BY <1>2, <1>3, <1>12, <2>1, <2>3
    <3>2. ~(th \in Requests /\ req[th].pc = "row")
      BY <1>3, <1>8, <2>3 DEF ClaimOf
    <3>3. QED
      BY <1>1, <1>2, <1>3, <1>6, <1>7, <2>1, <2>2, <2>3, <3>1, <3>2 DEF hubVars
  <2>4. CASE ClaimOf(th) # None
    <3>1. th \in Requests /\ ClaimOf(th) = claim[th] /\ Handler(th)
      BY <2>4 DEF ClaimOf, HubInv, InHandlers
    <3>2. req[th] \in Handlers \cup {NoReq}
      BY <1>1, <3>1 DEF Records
    <3>3. req[th].pc = "row"
      BY <1>2, <2>4, <3>1, <3>2, HandlerFields DEF Handler, Windowed
    <3>4. ClaimOf(th) = owner[t] /\ parent[t] = None
      BY <1>8, <3>1, <3>3
    <3>5. tasks'[t] = owner[t] /\ \A x \in Tasks \ {t} : tasks'[x] = tasks[x]
      BY <1>2, <1>3, <2>1, <3>4
    <3>6. \A x \in Tasks : Mapped(x)'
      BY <1>1, <1>3, <1>4, <2>1, <3>4, <3>5 DEF Mappings, Mapped
    <3>7. tasks' \in [Tasks -> MaybeSession]
      BY <1>3, <2>1, <3>4
    <3>8. hook' = [hook EXCEPT ![th] = F(owner[t], FALSE)]
      BY <2>1, <2>4, <3>4
    <3>9. QED
      BY ZenonT(60), <1>1, <1>2, <1>3, <1>5, <1>12, <2>1, <2>2, <3>4, <3>5, <3>6, <3>7, <3>8
  <2>5. QED
    BY <2>3, <2>4
<1>13. QED
  BY <1>9, <1>10, <1>11, <1>12

(* A place stays one while neither map forgets it. *)
LEMMA BelongsKept ==
    ASSUME NEW p \in Tasks, Belongs(p) # NoSubtask,
           tasks[p] # None => tasks'[p] # None,
           subtasks[p] # NoSubtask => subtasks'[p] # NoSubtask
    PROVE  Belongs(p)' # NoSubtask
<1>1. CASE tasks'[p] # None
  <2>1. Belongs(p)' = [session |-> tasks'[p], root |-> p]
    BY <1>1 DEF Belongs
  <2>2. QED
    BY <1>1, <2>1 DEF NoSubtask
<1>2. CASE tasks'[p] = None
  BY <1>2 DEF Belongs
<1>3. QED
  BY <1>1, <1>2

LEMMA RouteStep ==
    ASSUME HubInv, NEW th \in Threads, Route(th)
    PROVE  HubInv'
<1> DEFINE h == hook[th]
           t == h.task
           n == hook'[th]
<1>1. /\ TypeOK /\ Records /\ Family /\ Mappings /\ InHooks /\ InHandlers
      /\ Lifetimes /\ Sent /\ StampIsRoot /\ Known
  BY DEF HubInv
<1>2. UNCHANGED <<owner, parent, rootOf, todo, claim, window, alive, streams, req, deleted,
                  frames, pools, faults>>
  BY DEF Route, engineVars, localVars, storeVars
<1>3. /\ h \in Hooks /\ h.stage = "route" /\ t \in Tasks /\ owner[t] \in Sessions
      /\ \A x \in Threads \ {th} : hook'[x] = hook[x]
      /\ hook' \in [Threads -> Hooks \cup {NoHook}]
      /\ \/ n = NoHook
         \/ /\ n \in Hooks /\ n.stage = "deliver" /\ n.task = t
            /\ n.kind = h.kind /\ n.child = h.child
            /\ n.session = owner[t] /\ (n.sub <=> parent[t] # None)
            /\ n.sub => subtasks'[t] # NoSubtask
  BY RouteOutcome
<1>4. /\ tasks' \in [Tasks -> MaybeSession]
      /\ subtasks' \in [Tasks -> [session : MaybeSession, root : Tasks \cup {None}]]
      /\ \A x \in Tasks : /\ tasks[x] # None => tasks'[x] = tasks[x]
                          /\ subtasks[x] # NoSubtask => subtasks'[x] = subtasks[x]
                          /\ Mapped(x)'
  BY RouteOutcome
<1>5. /\ parent[t] # None /\ h.kind = "genesis" /\ Belongs(parent[t]) # NoSubtask =>
             subtasks'[t] # NoSubtask
      /\ th \in Requests /\ req[th].pc = "row" => tasks'[t] # None
  BY RouteOutcome
<1>6. h # NoHook /\ n.stage # "route"
  BY <1>3, HookFields
<1>7. TypeOK' /\ Records' /\ Family' /\ Mappings'
  <2>1. TypeOK'
    BY <1>1, <1>2, <1>3, <1>4 DEF TypeOK
  <2>2. Records' /\ Family' /\ Mappings'
    BY <1>1, <1>2, <1>3, <1>4 DEF Records, Family, Mappings
  <2>3. QED
    BY <2>1, <2>2
<1>8. InHooks'
  <2>1. ASSUME NEW x \in Threads \ {th} PROVE Envelope(x)'
    <3>1. hook'[x] = hook[x] /\ Envelope(x) /\ hook[x] \in Hooks \cup {NoHook}
      BY <1>1, <1>3 DEF InHooks, Records
    <3>2. hook[x] # NoHook => hook[x].task \in Tasks
      BY <3>1, HookFields
    <3>3. QED
      BY <1>1, <1>2, <1>4, <3>1, <3>2, HookFields DEF Envelope, TypeOK
  <2>2. Envelope(th)'
    <3>1. Envelope(th)
      BY <1>1 DEF InHooks
    <3>2. CASE n = NoHook
      BY <3>2 DEF Envelope
    <3>3. CASE n # NoHook
      BY <1>2, <1>3, <1>6, <3>1, <3>3 DEF Envelope
    <3>4. QED
      BY <3>2, <3>3
  <2>3. QED
    BY <2>1, <2>2 DEF InHooks
<1>9. InHandlers'
  <2>1. SUFFICES ASSUME NEW r \in Requests PROVE Handler(r)'
    BY DEF InHandlers
  <2>2. Handler(r) /\ r \in Threads
    BY <1>1, Named DEF InHandlers
  <2>3. hook'[r] = hook[r] \/ (hook[r] # NoHook /\ (hook'[r] = NoHook \/ hook'[r].task = hook[r].task))
    BY <1>3, <1>6, <2>2
  <2>4. QED
    BY <1>2, <2>2, <2>3 DEF Handler
<1>10. Lifetimes' /\ Sent' /\ StampIsRoot'
  BY <1>1, <1>2 DEF Lifetimes, Owned, Sent, StampIsRoot
<1>11. Known'
  <2>1. SUFFICES ASSUME faults = 0, NEW x \in Tasks, owner[x] \in alive
                 PROVE  IF parent[x] = None THEN tasks'[x] # None \/ Fresh(x)'
                        ELSE /\ Belongs(parent[x])' # NoSubtask
                             /\ subtasks'[x] # NoSubtask \/ Announcing(x)'
    BY <1>2 DEF Known
  <2>2. IF parent[x] = None THEN tasks[x] # None \/ Fresh(x)
        ELSE /\ Belongs(parent[x]) # NoSubtask
             /\ subtasks[x] # NoSubtask \/ Announcing(x)
    BY <1>1, <2>1 DEF Known
  <2>3. CASE parent[x] = None /\ ~(tasks[x] # None)
    <3>1. PICK r \in Requests :
             /\ req[r].pc \in {"row", "child", "adopt"} /\ req[r].task = x
             /\ req[r].pc = "row" => hook[r] # NoHook /\ hook[r].stage = "route"
      BY <2>2, <2>3 DEF Fresh
    <3>2. r \in Threads /\ Handler(r)
      BY <1>1, Named DEF InHandlers
    <3>3. CASE r = th /\ req[r].pc = "row"
      <4>1. t = x
        BY <1>6, <3>1, <3>2, <3>3 DEF Handler
      <4>2. QED
        BY <1>5, <2>3, <3>3, <4>1
    <3>4. CASE ~(r = th /\ req[r].pc = "row")
      <4>1. req[r].pc = "row" => hook'[r] # NoHook /\ hook'[r].stage = "route"
        BY <1>3, <3>1, <3>2, <3>4
      <4>2. QED
        BY <1>2, <2>3, <3>1, <4>1 DEF Fresh
    <3>5. QED
      BY <3>3, <3>4
  <2>4. CASE parent[x] # None
    <3>1. parent[x] \in Tasks
      BY <1>1, <2>4 DEF TypeOK
    <3>2. Belongs(parent[x])' # NoSubtask
      BY <1>2, <1>4, <2>2, <2>4, <3>1, BelongsKept
    <3>3. subtasks'[x] # NoSubtask \/ Announcing(x)'
      <4>1. CASE subtasks[x] # NoSubtask
        BY <1>4, <4>1
      <4>2. CASE "genesis" \in todo[x]
        BY <1>2, <4>2 DEF Announcing
      <4>3. CASE hook[x] # NoHook /\ hook[x].stage = "route" /\ hook[x].kind = "genesis"
        <5>1. CASE x = th
          <6>1. t = x
            BY <1>1, <1>6, <5>1, Named DEF InHooks, Envelope
          <6>2. QED
            BY <1>5, <2>2, <2>4, <4>3, <5>1, <6>1
        <5>2. CASE x # th
          BY <1>3, <4>3, <5>2, Named DEF Announcing
        <5>3. QED
          BY <5>1, <5>2
      <4>4. QED
        BY <2>2, <2>4, <4>1, <4>2, <4>3 DEF Announcing
    <3>4. QED
      BY <2>4, <3>2, <3>3
  <2>5. QED
    BY <1>4, <2>2, <2>3, <2>4
<1>12. QED
  BY <1>7, <1>8, <1>9, <1>10, <1>11 DEF HubInv

LEMMA DeliverStep ==
    ASSUME HubInv, NEW th \in Threads, Deliver(th)
    PROVE  HubInv'
<1> DEFINE h == hook[th]
           t == h.task
           stamp == IF ~h.sub THEN t
                    ELSE IF subtasks[t] # NoSubtask THEN subtasks[t].root ELSE t
           entry == [session |-> h.session, root |-> t]
<1>1. /\ TypeOK /\ Records /\ Family /\ Mappings /\ InHooks /\ InHandlers
      /\ Lifetimes /\ Sent /\ StampIsRoot /\ Known
  BY DEF HubInv
<1>2. UNCHANGED <<owner, parent, rootOf, todo, tasks, claim, window, alive, streams, req,
                  deleted, pools, faults>>
  BY DEF Deliver, engineVars, localVars, storeVars
<1>3. /\ h.stage = "deliver" /\ h \in Hooks /\ h # NoHook /\ t \in Tasks
      /\ h.session \in Sessions /\ h.sub \in BOOLEAN /\ Envelope(th)
  BY <1>1, HookFields DEF Deliver, Records, InHooks
<1>4. /\ h.session = owner[t] /\ (h.sub <=> parent[t] # None)
      /\ h.sub => subtasks[t] # NoSubtask \/ h.session \notin alive
      /\ h.kind = "spawn" => h.child \in Tasks /\ parent[h.child] = t
  BY <1>3 DEF Envelope
<1>5. /\ hook'[th] = NoHook /\ \A x \in Threads \ {th} : hook'[x] = hook[x]
      /\ hook' \in [Threads -> Hooks \cup {NoHook}]
  BY <1>1 DEF Deliver, Records
<1>6. /\ subtasks \in [Tasks -> [session : MaybeSession, root : Tasks \cup {None}]]
      /\ entry \in [session : MaybeSession, root : Tasks \cup {None}]
      /\ entry # NoSubtask /\ entry.session = h.session /\ entry.root = t
  <2>1. entry.session # NoSubtask.session
    BY <1>3, Named
  <2>2. QED
    BY <1>1, <1>3, <2>1 DEF TypeOK, MaybeSession
<1>7. /\ subtasks' \in [Tasks -> [session : MaybeSession, root : Tasks \cup {None}]]
      /\ \A x \in Tasks : subtasks[x] # NoSubtask => subtasks'[x] # NoSubtask
      /\ \A x \in Tasks : Mapped(x)'
  <2>1. CASE ~h.sub /\ h.kind = "spawn"
    <3> PICK c \in Tasks : c = h.child
      BY <1>4, <2>1
    <3>1. subtasks' = [subtasks EXCEPT ![c] = entry]
      BY <2>1 DEF Deliver
    <3>2. /\ owner[c] = owner[t] /\ rootOf[c] = t /\ parent[c] # None
      BY <1>1, <1>3, <1>4, <2>1, Named DEF Family
    <3> HIDE DEF entry
    <3>3. subtasks'[c] = entry /\ \A x \in Tasks \ {c} : subtasks'[x] = subtasks[x]
      BY <1>4, <1>6, <2>1, <3>1
    <3>4. Mapped(c)'
      BY <1>1, <1>2, <1>4, <1>6, <2>1, <3>2, <3>3 DEF Mappings, Mapped
    <3>5. \A x \in Tasks \ {c} : Mapped(x)'
      BY <1>1, <1>2, <3>3 DEF Mappings, Mapped
    <3>6. subtasks' \in [Tasks -> [session : MaybeSession, root : Tasks \cup {None}]]
      BY <1>6, <3>1
    <3>7. QED
      BY <1>6, <3>3, <3>4, <3>5, <3>6
  <2>2. CASE ~(~h.sub /\ h.kind = "spawn")
    <3>1. subtasks' = subtasks
      BY <2>2 DEF Deliver
    <3>2. QED
      BY <1>1, <1>2, <1>6, <3>1 DEF Mappings, Mapped
  <2>3. QED
    BY <2>1, <2>2
<1>8. /\ frames' = frames \cup {[task |-> t, to |-> h.session, stamp |-> stamp]}
      /\ stamp \in Tasks /\ (stamp = rootOf[t] \/ (stamp = t /\ h.session \notin alive))
  <2>1. frames' = frames \cup {[task |-> t, to |-> h.session, stamp |-> stamp]}
    BY DEF Deliver
  <2>2. CASE ~h.sub
    <3>1. stamp = t /\ parent[t] = None
      BY <1>4, <2>2
    <3>2. rootOf[t] = t
      BY <1>1, <1>3, <3>1 DEF Family
    <3> HIDE DEF stamp
    <3>3. QED
      BY <1>3, <2>1, <3>1, <3>2
  <2>3. CASE h.sub /\ subtasks[t] # NoSubtask
    <3>1. stamp = subtasks[t].root /\ subtasks[t].root = rootOf[t]
      BY <1>1, <1>3, <2>3 DEF Mappings, Mapped
    <3>2. rootOf[t] \in Tasks
      BY <1>1, <1>3 DEF TypeOK
    <3> HIDE DEF stamp
    <3>3. QED
      BY <2>1, <3>1, <3>2
  <2>4. CASE h.sub /\ subtasks[t] = NoSubtask
    <3>1. stamp = t /\ h.session \notin alive
      BY <1>4, <2>4
    <3> HIDE DEF stamp
    <3>2. QED
      BY <1>3, <2>1, <3>1
  <2>5. QED
    BY <2>2, <2>3, <2>4
<1> HIDE DEF stamp, entry
<1>9. TypeOK' /\ Records' /\ Family' /\ Mappings'
  <2>1. frames' \subseteq [task : Tasks, to : Sessions, stamp : Tasks]
    BY <1>1, <1>3, <1>8 DEF TypeOK
  <2>2. TypeOK'
    BY <1>1, <1>2, <1>5, <1>7, <2>1 DEF TypeOK
  <2>3. QED
    BY <1>1, <1>2, <1>5, <1>7, <2>2 DEF Records, Family, Mappings
<1>10. InHooks'
  <2>1. ASSUME NEW x \in Threads \ {th} PROVE Envelope(x)'
    <3>1. hook'[x] = hook[x] /\ Envelope(x) /\ hook[x] \in Hooks \cup {NoHook}
      BY <1>1, <1>5 DEF InHooks, Records
    <3>2. hook[x] # NoHook => hook[x].task \in Tasks
      BY <3>1, HookFields
    <3>3. QED
      BY <1>2, <1>7, <3>1, <3>2 DEF Envelope
  <2>2. Envelope(th)'
    BY <1>5 DEF Envelope
  <2>3. QED
    BY <2>1, <2>2 DEF InHooks
<1>11. InHandlers'
  <2>1. \A r \in Requests : Handler(r) /\ (hook'[r] = hook[r] \/ hook'[r] = NoHook)
    BY <1>1, <1>5, Named DEF InHandlers
  <2>2. QED
    BY <1>2, <2>1 DEF InHandlers, Handler
<1>12. Lifetimes'
  BY <1>1, <1>2 DEF Lifetimes, Owned
<1>13. Sent'
  BY <1>1, <1>2, <1>4, <1>8 DEF Sent
<1>14. StampIsRoot'
  BY <1>1, <1>2, <1>8 DEF StampIsRoot
<1>15. Known'
  <2>1. SUFFICES ASSUME faults = 0, NEW x \in Tasks, owner[x] \in alive
                 PROVE  IF parent[x] = None THEN tasks[x] # None \/ Fresh(x)'
                        ELSE /\ Belongs(parent[x])' # NoSubtask
                             /\ subtasks'[x] # NoSubtask \/ Announcing(x)'
    BY <1>2 DEF Known
  <2>2. IF parent[x] = None THEN tasks[x] # None \/ Fresh(x)
        ELSE /\ Belongs(parent[x]) # NoSubtask
             /\ subtasks[x] # NoSubtask \/ Announcing(x)
    BY <1>1, <2>1 DEF Known
  <2>3. Fresh(x) => Fresh(x)'
    <3>1. \A r \in Requests : hook[r] # NoHook /\ hook[r].stage = "route" => hook'[r] = hook[r]
      BY <1>3, <1>5, Named
    <3>2. QED
      BY <1>2, <3>1 DEF Fresh
  <2>4. Announcing(x) => Announcing(x)'
    BY <1>2, <1>3, <1>5, Named DEF Announcing
  <2>5. parent[x] # None => Belongs(parent[x])' # NoSubtask
    BY <1>1, <1>2, <1>7, <2>2, BelongsKept DEF TypeOK
  <2>6. QED
    BY <1>7, <2>2, <2>3, <2>4, <2>5
<1>16. QED
  BY <1>9, <1>10, <1>11, <1>12, <1>13, <1>14, <1>15 DEF HubInv

-----------------------------------------------------------------------------
(* The request handlers *)

(* Tasks keep the owner and the parent they have. *)
Ages ==
    \A x \in Tasks : owner[x] # None => owner'[x] = owner[x] /\ parent'[x] = parent[x]

(* The step of one handler leaves every other handler as it is. *)
LEMMA OtherHandlers ==
    ASSUME HubInv, NEW r \in Requests, Ages,
           \A x \in Requests \ {r} : /\ req'[x] = req[x] /\ claim'[x] = claim[x]
                                     /\ window'[x] = window[x] /\ hook'[x] = hook[x],
           Handler(r)'
    PROVE  InHandlers'
<1>1. ASSUME NEW x \in Requests \ {r} PROVE Handler(x)'
  <2>1. Handler(x) /\ req[x] \in Handlers \cup {NoReq}
    BY DEF HubInv, InHandlers, Records
  <2>2. req[x].pc \notin {"none", "seed"} =>
            owner'[req[x].task] = req[x].session /\ parent'[req[x].task] = None
    BY <2>1, HandlerFields, Named DEF Handler, Ages
  <2>3. QED
    BY <1>1, <2>1, <2>2 DEF Handler
<1>2. QED
  BY <1>1 DEF InHandlers

(* The hook a commit begins is one of an owned task, and the others stay.  *)
LEMMA CommittedHooks ==
    ASSUME HubInv, Ages, UNCHANGED <<subtasks, alive>>,
           NEW th \in Threads, NEW t \in Tasks, NEW kind \in Kinds,
           NEW c \in Tasks \cup {None}, Commit(th, t, kind, c),
           owner'[t] # None,
           th \in Tasks => t = th,
           th \in Requests => kind = "root" /\ parent'[t] = None,
           kind = "spawn" => c \in Tasks /\ parent'[c] = t
    PROVE  InHooks'
<1>1. Records /\ InHooks /\ Family
  BY DEF HubInv
<1>2. Envelope(th)'
  BY <1>1, CommitHook DEF Envelope
<1>3. ASSUME NEW x \in Threads \ {th} PROVE Envelope(x)'
  <2>1. SUFFICES ASSUME hook[x] # NoHook PROVE Envelope(x)'
    BY <1>1, CommitHook DEF Envelope
  <2>2. hook'[x] = hook[x] /\ Envelope(x) /\ hook[x].task \in Tasks
    BY <1>1, <2>1, CommitHook, HookFields DEF InHooks, Records
  <2>3. owner'[hook[x].task] = owner[hook[x].task] /\ parent'[hook[x].task] = parent[hook[x].task]
    BY <2>1, <2>2 DEF Ages, Envelope
  <2>4. hook[x].kind = "spawn" => parent'[hook[x].child] = parent[hook[x].child]
    BY <1>1, <2>1, <2>2, Named DEF Ages, Envelope, Family
  <2>5. QED
    BY <2>2, <2>3, <2>4 DEF Envelope
<1>4. QED
  BY <1>2, <1>3 DEF InHooks

LEMMA OpenStep ==
    ASSUME HubInv, NEW r \in Requests, OpenWindows(r)
    PROVE  HubInv'
<1>1. /\ TypeOK /\ Records /\ Family /\ Mappings /\ InHooks /\ InHandlers
      /\ Lifetimes /\ Sent /\ StampIsRoot /\ Known
  BY DEF HubInv
<1>2. PICK s \in alive :
        /\ req[r] = NoReq /\ hook[r] = NoHook
        /\ claim' = [claim EXCEPT ![r] = s]
        /\ window' = [window EXCEPT ![r] = ProjectOf[s]]
        /\ req' = [req EXCEPT ![r] = [pc |-> "seed", session |-> s]]
  BY DEF OpenWindows
<1>3. UNCHANGED <<owner, parent, rootOf, todo, hook, tasks, subtasks, alive, streams, deleted,
                  frames, pools, faults>>
  BY DEF OpenWindows, engineVars, hubVars, storeVars
<1>4. /\ s \in Sessions /\ ProjectOf[s] \in Projects
      /\ [pc |-> "seed", session |-> s] \in Handlers
  BY <1>1, ConstantsAssumption DEF TypeOK, Handlers, Projects
<1>5. /\ req'[r].pc = "seed" /\ req'[r].session = s /\ claim'[r] = s /\ window'[r] = ProjectOf[s]
      /\ \A x \in Requests \ {r} : req'[x] = req[x] /\ claim'[x] = claim[x] /\ window'[x] = window[x]
      /\ req[r].pc = "none"
  BY <1>1, <1>2, HandlerFields DEF TypeOK, Records
<1>6. TypeOK' /\ Records'
  <2>1. /\ claim' \in [Requests -> MaybeSession] /\ window' \in [Requests -> Projects \cup {None}]
        /\ req' \in [Requests -> Handlers \cup {NoReq}]
    BY <1>1, <1>2, <1>4 DEF TypeOK, Records, MaybeSession
  <2>2. QED
    BY <1>1, <1>3, <2>1 DEF TypeOK, Records
<1>7. Family' /\ Mappings' /\ InHooks' /\ Sent' /\ StampIsRoot'
  BY <1>1, <1>3 DEF Family, Mappings, Mapped, InHooks, Envelope, Sent, StampIsRoot
<1>8. InHandlers'
  <2>1. Handler(r)'
    BY <1>2, <1>3, <1>5 DEF Handler, Windowed
  <2>2. QED
    BY <1>3, <1>5, <2>1, OtherHandlers DEF Ages
<1>9. Lifetimes'
  <2>1. Owned(s) \/ s \in Opened
    BY <1>1, <1>4 DEF Lifetimes
  <2>2. ASSUME NEW c \in Requests, req'[c].pc = "child"
        PROVE  /\ c # r /\ req'[c] = req[c] /\ req[c].session # s
    BY <1>1, <1>5, <2>2 DEF Lifetimes
  <2>3. QED
    BY <1>1, <1>3, <1>5, <2>1, <2>2 DEF Lifetimes, Owned
<1>10. Known'
  <2>1. \A x \in Tasks : Fresh(x) => Fresh(x)'
    <3>1. \A c \in Requests : req[c].pc \in {"row", "child", "adopt"} => c # r
      BY <1>5
    <3>2. QED
      BY <1>3, <1>5, <3>1 DEF Fresh
  <2>2. QED
    BY <1>1, <1>3, <2>1 DEF Known, Belongs, Announcing
<1>11. QED
  BY <1>6, <1>7, <1>8, <1>9, <1>10 DEF HubInv

LEMMA BindRowStep ==
    ASSUME HubInv, NEW r \in Requests, BindRow(r)
    PROVE  HubInv'
<1> DEFINE t == req[r].task
           s == req[r].session
<1>1. /\ TypeOK /\ Records /\ Family /\ Mappings /\ InHooks /\ InHandlers
      /\ Lifetimes /\ Sent /\ StampIsRoot /\ Known
  BY DEF HubInv
<1>2. /\ req[r].pc = "row" /\ hook[r] = NoHook /\ req' = [req EXCEPT ![r].pc = "close"]
      /\ streams' = IF s \in alive THEN [streams EXCEPT ![t] = s] ELSE streams
  BY DEF BindRow, At
<1>3. UNCHANGED <<owner, parent, rootOf, todo, hook, tasks, subtasks, claim, window, alive,
                  deleted, frames, pools, faults>>
  BY DEF BindRow, engineVars, hubVars, localVars
<1>4. /\ t \in Tasks /\ s \in Sessions /\ owner[t] = s /\ parent[t] = None /\ Handler(r)
  BY <1>1, <1>2, HandlerFields DEF Records, InHandlers, Handler
<1>5. /\ req'[r].pc = "close" /\ req'[r].session = s /\ req'[r].task = t
      /\ \A x \in Requests \ {r} : req'[x] = req[x]
      /\ req' \in [Requests -> Handlers \cup {NoReq}]
  BY <1>1, <1>2, HandlerFields, HandlerMoves
<1>6. /\ streams' \in [Tasks -> MaybeSession] /\ \A x \in Tasks : streams'[x] \in {streams[x], IF x = t THEN s ELSE streams[x]}
  BY <1>1, <1>2, <1>4 DEF TypeOK, MaybeSession
<1>7. TypeOK' /\ Records' /\ Family' /\ InHooks' /\ Sent' /\ StampIsRoot'
  <2>1. TypeOK' /\ Records'
    BY <1>1, <1>3, <1>5, <1>6 DEF TypeOK, Records
  <2>2. Family' /\ InHooks' /\ Sent' /\ StampIsRoot'
    BY <1>1, <1>3 DEF Family, InHooks, Envelope, Sent, StampIsRoot
  <2>3. QED
    BY <2>1, <2>2
<1>8. Mappings'
  BY <1>1, <1>3, <1>4, <1>6 DEF Mappings, Mapped
<1>9. InHandlers'
  <2>1. Handler(r)'
    BY <1>2, <1>3, <1>4, <1>5 DEF Handler, Windowed
  <2>2. QED
    BY <1>3, <1>5, <2>1, OtherHandlers DEF Ages
<1>10. Lifetimes'
  <2>1. \A c \in Requests : req'[c].pc \in {"seed", "child"} => c # r /\ req'[c] = req[c]
    BY <1>5
  <2>2. QED
    BY <1>1, <1>3, <2>1 DEF Lifetimes, Owned
<1>11. Known'
  <2>1. ASSUME NEW x \in Tasks, Fresh(x) PROVE Fresh(x)'
    <3>1. PICK c \in Requests :
             /\ req[c].pc \in {"row", "child", "adopt"} /\ req[c].task = x
             /\ req[c].pc = "row" => hook[c] # NoHook /\ hook[c].stage = "route"
      BY <2>1 DEF Fresh
    <3>2. c # r /\ req'[c] = req[c]
      BY <1>2, <1>5, <3>1
    <3>3. QED
      BY <1>3, <3>1, <3>2 DEF Fresh
  <2>2. QED
    BY <1>1, <1>3, <2>1 DEF Known, Belongs, Announcing
<1>12. QED
  BY <1>7, <1>8, <1>9, <1>10, <1>11 DEF HubInv

LEMMA CloseStep ==
    ASSUME HubInv, NEW r \in Requests, CloseWindows(r)
    PROVE  HubInv'
<1>1. /\ TypeOK /\ Records /\ Family /\ Mappings /\ InHooks /\ InHandlers
      /\ Lifetimes /\ Sent /\ StampIsRoot /\ Known
  BY DEF HubInv
<1>2. /\ req[r].pc = "close" /\ hook[r] = NoHook /\ req' = [req EXCEPT ![r].pc = "bind"]
      /\ claim' = [claim EXCEPT ![r] = None] /\ window' = [window EXCEPT ![r] = None]
  BY DEF CloseWindows, At
<1>3. UNCHANGED <<owner, parent, rootOf, todo, hook, tasks, subtasks, alive, streams, deleted,
                  frames, pools, faults>>
  BY DEF CloseWindows, engineVars, hubVars, storeVars
<1>4. /\ req'[r].pc = "bind" /\ req'[r].session = req[r].session /\ req'[r].task = req[r].task
      /\ \A x \in Requests \ {r} : req'[x] = req[x]
      /\ req' \in [Requests -> Handlers \cup {NoReq}]
  BY <1>1, <1>2, HandlerFields, HandlerMoves
<1>5. /\ claim'[r] = None /\ window'[r] = None
      /\ \A x \in Requests \ {r} : claim'[x] = claim[x] /\ window'[x] = window[x]
      /\ claim' \in [Requests -> MaybeSession] /\ window' \in [Requests -> Projects \cup {None}]
  BY <1>1, <1>2 DEF TypeOK, MaybeSession
<1>6. TypeOK' /\ Records' /\ Family' /\ Mappings' /\ InHooks' /\ Sent' /\ StampIsRoot'
  <2>1. TypeOK' /\ Records'
    BY <1>1, <1>3, <1>4, <1>5 DEF TypeOK, Records
  <2>2. Family' /\ Mappings' /\ InHooks' /\ Sent' /\ StampIsRoot'
    BY <1>1, <1>3 DEF Family, Mappings, Mapped, InHooks, Envelope, Sent, StampIsRoot
  <2>3. QED
    BY <2>1, <2>2
<1>7. InHandlers'
  <2>1. Handler(r)
    BY <1>1 DEF InHandlers
  <2>2. Handler(r)'
    BY <1>2, <1>3, <1>4, <1>5, <2>1 DEF Handler, Windowed
  <2>3. QED
    BY <1>3, <1>4, <1>5, <2>2, OtherHandlers DEF Ages
<1>8. Lifetimes'
  <2>1. \A c \in Requests : req'[c].pc \in {"seed", "child"} => c # r /\ req'[c] = req[c]
    BY <1>4
  <2>2. QED
    BY <1>1, <1>3, <2>1 DEF Lifetimes, Owned
<1>9. Known'
  <2>1. \A c \in Requests : req[c].pc \in {"row", "child", "adopt"} => c # r /\ req'[c] = req[c]
    BY <1>2, <1>4
  <2>2. \A x \in Tasks : Fresh(x) => Fresh(x)'
    BY <1>3, <2>1 DEF Fresh
  <2>3. QED
    BY <1>1, <1>3, <2>2 DEF Known, Belongs, Announcing
<1>10. QED
  BY <1>6, <1>7, <1>8, <1>9 DEF HubInv

LEMMA HubBindStep ==
    ASSUME HubInv, NEW r \in Requests, HubBind(r)
    PROVE  HubInv'
<1> DEFINE t == req[r].task
           s == req[r].session
<1>1. /\ TypeOK /\ Records /\ Family /\ Mappings /\ InHooks /\ InHandlers
      /\ Lifetimes /\ Sent /\ StampIsRoot /\ Known
  BY DEF HubInv
<1>2. /\ req[r].pc \in {"bind", "adopt"} /\ hook[r] = NoHook /\ req' = [req EXCEPT ![r] = NoReq]
      /\ tasks' = [tasks EXCEPT ![t] = s]
  BY DEF HubBind, At
<1>3. UNCHANGED <<owner, parent, rootOf, todo, hook, subtasks, claim, window, alive, streams,
                  deleted, frames, pools, faults>>
  BY DEF HubBind, engineVars, localVars, storeVars
<1>4. /\ t \in Tasks /\ s \in Sessions /\ owner[t] = s /\ parent[t] = None /\ Handler(r)
  BY <1>1, <1>2, HandlerFields DEF Records, InHandlers, Handler
<1>5. /\ req'[r].pc = "none"
      /\ \A x \in Requests \ {r} : req'[x] = req[x]
      /\ req' \in [Requests -> Handlers \cup {NoReq}]
      /\ tasks'[t] = s /\ (\A x \in Tasks \ {t} : tasks'[x] = tasks[x])
      /\ tasks' \in [Tasks -> MaybeSession]
  BY <1>1, <1>2, <1>4, HandlerFields DEF Records, TypeOK, MaybeSession
<1>6. TypeOK' /\ Records' /\ Family' /\ InHooks' /\ Sent' /\ StampIsRoot'
  <2>1. TypeOK' /\ Records'
    BY <1>1, <1>3, <1>5 DEF TypeOK, Records
  <2>2. Family' /\ InHooks' /\ Sent' /\ StampIsRoot'
    BY <1>1, <1>3 DEF Family, InHooks, Envelope, Sent, StampIsRoot
  <2>3. QED
    BY <2>1, <2>2
<1>7. Mappings'
  <2>1. \A x \in Tasks : tasks'[x] # None => tasks'[x] = owner[x] /\ parent[x] = None
    BY <1>1, <1>4, <1>5 DEF Mappings, Mapped
  <2>2. QED
    BY <1>1, <1>3, <2>1 DEF Mappings, Mapped
<1>8. InHandlers'
  <2>1. Handler(r)'
    BY <1>2, <1>3, <1>4, <1>5 DEF Handler, Windowed
  <2>2. QED
    BY <1>3, <1>5, <2>1, OtherHandlers DEF Ages
<1>9. Lifetimes'
  <2>1. \A c \in Requests : req'[c].pc \in {"seed", "child"} => c # r /\ req'[c] = req[c]
    BY <1>5
  <2>2. QED
    BY <1>1, <1>3, <2>1 DEF Lifetimes, Owned
<1>10. Known'
  <2>1. \A x \in Tasks : tasks[x] # None => tasks'[x] # None
    BY <1>4, <1>5, Named
  <2>2. ASSUME NEW x \in Tasks, Fresh(x) PROVE tasks'[x] # None \/ Fresh(x)'
    <3>1. PICK c \in Requests :
             /\ req[c].pc \in {"row", "child", "adopt"} /\ req[c].task = x
             /\ req[c].pc = "row" => hook[c] # NoHook /\ hook[c].stage = "route"
      BY <2>2 DEF Fresh
    <3>2. CASE c = r
      BY <1>4, <1>5, <3>1, <3>2, Named
    <3>3. CASE c # r
      BY <1>3, <1>5, <3>1, <3>3 DEF Fresh
    <3>4. QED
      BY <3>2, <3>3
  <2>3. \A p \in Tasks : Belongs(p) # NoSubtask => Belongs(p)' # NoSubtask
    BY <1>3, <2>1, BelongsKept
  <2>4. QED
    BY <1>1, <1>3, <2>1, <2>2, <2>3 DEF Known, Announcing, TypeOK
<1>11. QED
  BY <1>6, <1>7, <1>8, <1>9, <1>10 DEF HubInv

LEMMA CreateChildStep ==
    ASSUME HubInv, NEW r \in Requests, CreateChild(r)
    PROVE  HubInv'
<1> DEFINE t == req[r].task
           s == req[r].session
<1>1. /\ TypeOK /\ Records /\ Family /\ Mappings /\ InHooks /\ InHandlers
      /\ Lifetimes /\ Sent /\ StampIsRoot /\ Known
  BY DEF HubInv
<1>2. /\ req[r].pc = "child" /\ hook[r] = NoHook /\ req' = [req EXCEPT ![r].pc = "adopt"]
      /\ alive' = alive \cup {s} /\ streams' = [streams EXCEPT ![t] = s]
  BY DEF CreateChild, At
<1>3. UNCHANGED <<owner, parent, rootOf, todo, hook, tasks, subtasks, claim, window,
                  deleted, frames, pools, faults>>
  BY DEF CreateChild, engineVars, hubVars, localVars
<1>4. /\ t \in Tasks /\ s \in Sessions /\ owner[t] = s /\ parent[t] = None /\ Handler(r)
  BY <1>1, <1>2, HandlerFields DEF Records, InHandlers, Handler
<1>5. /\ req'[r].pc = "adopt" /\ req'[r].session = s /\ req'[r].task = t
      /\ \A x \in Requests \ {r} : req'[x] = req[x]
      /\ req' \in [Requests -> Handlers \cup {NoReq}]
  BY <1>1, <1>2, HandlerFields, HandlerMoves
<1>6. /\ streams' \in [Tasks -> MaybeSession]
      /\ streams'[t] = s /\ \A x \in Tasks \ {t} : streams'[x] = streams[x]
  BY <1>1, <1>2, <1>4 DEF TypeOK, MaybeSession
<1>7. /\ s \notin Opened \cup alive \cup deleted
      /\ \A x \in Tasks : owner[x] = s => x = t
      /\ \A x \in Requests \ {r} : req[x].pc \in {"seed", "child"} => req[x].session # s
  BY <1>1, <1>2 DEF Lifetimes
<1>8. TypeOK' /\ Records' /\ Family' /\ Sent' /\ Mappings'
  <2>1. TypeOK' /\ Records'
    BY <1>1, <1>2, <1>3, <1>4, <1>5, <1>6 DEF TypeOK, Records
  <2>2. Family' /\ Sent'
    BY <1>1, <1>3 DEF Family, Sent
  <2>3. Mappings'
    BY <1>1, <1>3, <1>4, <1>6 DEF Mappings, Mapped
  <2>4. QED
    BY <2>1, <2>2, <2>3
<1>9. InHooks'
  <2>1. ASSUME NEW x \in Threads PROVE Envelope(x)'
    <3>1. Envelope(x) /\ hook[x] \in Hooks \cup {NoHook}
      BY <1>1 DEF InHooks, Records
    <3>2. hook[x] # NoHook /\ hook[x].stage = "deliver" /\ hook[x].sub => hook[x].session # s
      BY <1>4, <1>7, <3>1, HookFields DEF Envelope
    <3>3. QED
      BY <1>2, <1>3, <3>1, <3>2 DEF Envelope
  <2>2. QED
    BY <2>1 DEF InHooks
<1>10. StampIsRoot'
  <2>1. ASSUME NEW f \in frames
        PROVE  f.stamp = rootOf[f.task] \/ (f.stamp = f.task /\ f.to \notin alive')
    <3>1. f.task \in Tasks /\ f.to = owner[f.task]
      BY <1>1 DEF TypeOK, Sent
    <3>2. CASE f.to = s
      BY <1>1, <1>4, <1>7, <3>1, <3>2 DEF StampIsRoot, Family
    <3>3. CASE f.to # s
      BY <1>1, <1>2, <3>3 DEF StampIsRoot
    <3>4. QED
      BY <3>2, <3>3
  <2>2. QED
    BY <1>3, <2>1 DEF StampIsRoot
<1>11. InHandlers'
  <2>1. Handler(r)'
    BY <1>2, <1>3, <1>4, <1>5 DEF Handler, Windowed
  <2>2. QED
    BY <1>3, <1>5, <2>1, OtherHandlers DEF Ages
<1>12. Lifetimes'
  <2>1. \A c \in Requests : req'[c].pc \in {"seed", "child"} => c # r /\ req'[c] = req[c]
    BY <1>5
  <2>2. Owned(s)
    BY <1>4 DEF Owned
  <2>3. \A c \in Requests : req'[c].pc = "child" => req[c].session # s
    BY <1>7, <2>1
  <2>4. QED
    BY <1>1, <1>2, <1>3, <1>7, <2>1, <2>2, <2>3 DEF Lifetimes, Owned
<1>13. Known'
  <2>1. \A x \in Tasks : Fresh(x) => Fresh(x)'
    BY <1>3, <1>5 DEF Fresh
  <2>2. \A x \in Tasks : x = t => Fresh(x)'
    BY <1>5 DEF Fresh
  <2>3. \A x \in Tasks : owner[x] \in alive' => owner[x] \in alive \/ x = t
    BY <1>2, <1>7
  <2>4. QED
    BY <1>1, <1>3, <1>4, <2>1, <2>2, <2>3 DEF Known, Belongs, Announcing
<1>14. QED
  BY <1>8, <1>9, <1>10, <1>11, <1>12, <1>13 DEF HubInv

(* A root is minted for session s on request thread r.                     *)
LEMMA Minted ==
    ASSUME HubInv, NEW r \in Requests, NEW t \in Tasks, NEW s \in Sessions,
           owner[t] = None, owner' = [owner EXCEPT ![t] = s],
           Resolved(r, t), Resolve(r, t) \in {ProjectOf[s], Quarantine},
           Commit(r, t, "root", None), req[r].pc \in {"none", "seed"},
           NEW p \in {"row", "child"},
           req' = [req EXCEPT ![r] = [pc |-> p, session |-> s, task |-> t]],
           UNCHANGED <<parent, rootOf, todo, tasks, subtasks, claim, window, alive, streams,
                       deleted, frames, faults>>
    PROVE  /\ TypeOK' /\ Records' /\ Family' /\ Mappings' /\ InHooks' /\ Sent' /\ StampIsRoot'
           /\ Known' /\ Ages /\ owner'[t] = s /\ parent[t] = None
           /\ req'[r].pc = p /\ req'[r].session = s /\ req'[r].task = t
           /\ \A x \in Requests \ {r} : req'[x] = req[x] /\ hook'[x] = hook[x]
           /\ hook'[r] # NoHook /\ hook'[r].task = t /\ hook'[r].stage = "route"
<1> DEFINE q == [pc |-> p, session |-> s, task |-> t]
<1>1. /\ TypeOK /\ Records /\ Family /\ Mappings /\ InHooks /\ InHandlers
      /\ Lifetimes /\ Sent /\ StampIsRoot /\ Known
  BY DEF HubInv
<1>2. /\ r \in Threads /\ r \notin Tasks /\ "root" \in Kinds /\ None \in Tasks \cup {None}
      /\ s # None /\ \A x \in Requests : x \in Threads
  BY Named
<1>3. /\ hook[r] = NoHook /\ hook'[r] # NoHook /\ hook'[r].stage = "route" /\ hook'[r].task = t
      /\ \A x \in Threads \ {r} : hook'[x] = hook[x]
      /\ hook' \in [Threads -> Hooks \cup {NoHook}]
  BY <1>1, <1>2, CommitHook
<1>4. q \in Handlers /\ q.pc = p /\ q.session = s /\ q.task = t
  BY DEF Handlers
<1>5. /\ req'[r].pc = p /\ req'[r].session = s /\ req'[r].task = t
      /\ \A x \in Requests \ {r} : req'[x] = req[x]
      /\ req' \in [Requests -> Handlers \cup {NoReq}]
  <2> HIDE DEF q
  <2>1. req' = [req EXCEPT ![r] = q]
    BY DEF q
  <2>2. QED
    BY <1>1, <1>4, <2>1 DEF Records
<1>6. /\ owner'[t] = s /\ (\A x \in Tasks \ {t} : owner'[x] = owner[x])
      /\ owner' \in [Tasks -> MaybeSession]
  BY <1>1 DEF TypeOK, MaybeSession
<1>7. Ages
  BY <1>6 DEF Ages
<1>8. parent[t] = None /\ \A x \in Tasks : parent[x] # t \/ parent[x] = None
  BY <1>1 DEF Family
<1>9. pools' \subseteq [task : Tasks, project : Projects \cup {Quarantine}]
  <2>1. ProjectOf[s] \in Projects
    BY DEF Projects
  <2>2. QED
    BY <1>1, <2>1 DEF TypeOK, Resolved
<1>10. TypeOK' /\ Records'
  BY <1>1, <1>3, <1>5, <1>6, <1>9 DEF TypeOK, Records
<1>11. Family' /\ Mappings'
  <2>1. Family'
    <3>1. ASSUME NEW x \in Tasks, parent[x] # None
          PROVE  /\ owner'[x] # None /\ owner'[x] = owner'[parent[x]]
                 /\ rootOf[x] = rootOf[parent[x]]
      <4>1. /\ owner[x] # None /\ owner[x] = owner[parent[x]] /\ rootOf[x] = rootOf[parent[x]]
            /\ parent[x] \in Tasks /\ x # t /\ parent[x] # t
        BY <1>1, <1>8, <3>1 DEF Family, TypeOK
      <4>2. QED
        BY <1>6, <4>1
    <3>2. QED
      BY <1>1, <3>1 DEF Family
  <2>2. Mappings'
    BY <1>1, <1>2, <1>6, <1>8 DEF Mappings, Mapped
  <2>3. QED
    BY <2>1, <2>2
<1>12. InHooks'
  BY <1>2, <1>6, <1>7, <1>8, CommittedHooks DEF Kinds
<1>13. Sent'
  <2>1. \A f \in frames : f.task \in Tasks /\ owner[f.task] # None
    BY <1>1, Named DEF TypeOK, Sent
  <2>2. pools' = pools \cup {[task |-> t, project |-> Resolve(r, t)]}
    BY DEF Resolved
  <2>3. \A m \in pools : m.task \in Tasks /\ m.task # t
    BY <1>1 DEF TypeOK, Sent
  <2>4. \A m \in pools' : /\ owner'[m.task] # None
                          /\ m.project \in {ProjectOf[owner'[m.task]], Quarantine}
    BY <1>1, <1>2, <1>6, <2>2, <2>3 DEF Sent
  <2>5. QED
    BY <1>1, <1>6, <2>1, <2>4 DEF Sent
<1>14. StampIsRoot'
  BY <1>1 DEF StampIsRoot
<1>15. Known'
  <2>1. Fresh(t)'
    BY <1>3, <1>5 DEF Fresh
  <2>2. \A x \in Tasks : Fresh(x) => Fresh(x)'
    <3>1. \A c \in Requests : req[c].pc \in {"row", "child", "adopt"} => c # r
      OBVIOUS
    <3>2. QED
      BY <1>2, <1>3, <1>5, <3>1 DEF Fresh
  <2>3. \A x \in Tasks : Announcing(x) => Announcing(x)'
    BY <1>2, <1>3, Named DEF Announcing
  <2>4. QED
    BY <1>1, <1>6, <1>8, <2>1, <2>2, <2>3 DEF Known, Belongs
<1>16. QED
  BY <1>2, <1>3, <1>5, <1>6, <1>7, <1>8, <1>10, <1>11, <1>12, <1>13, <1>14, <1>15

LEMMA SeedStep ==
    ASSUME HubInv, NEW r \in Requests, SeedStart(r)
    PROVE  HubInv'
<1> DEFINE s == req[r].session
<1>1. Records /\ InHandlers /\ Lifetimes /\ Mappings /\ Handler(r) /\ req[r].pc = "seed"
  BY DEF HubInv, InHandlers, SeedStart, At
<1>2. s \in Sessions
  BY <1>1, HandlerFields DEF Records
<1>3. PICK t \in Tasks :
        /\ owner[t] = None /\ owner' = [owner EXCEPT ![t] = s]
        /\ Resolved(r, t) /\ Commit(r, t, "root", None)
        /\ req' = [req EXCEPT ![r] = [pc |-> "row", session |-> s, task |-> t]]
  BY DEF SeedStart, Unborn
<1>4. UNCHANGED <<parent, rootOf, todo, tasks, subtasks, claim, window, alive, streams,
                  deleted, frames, faults>>
  BY DEF SeedStart, hubVars, localVars, storeVars
<1>5. streams[t] = None /\ Resolve(r, t) \in {ProjectOf[s], Quarantine}
  <2>1. streams[t] = None
    BY <1>1, <1>3 DEF Mappings, Mapped
  <2>2. window[r] = ProjectOf[s]
    BY <1>1 DEF Handler, Windowed
  <2>3. QED
    BY <2>1, <2>2 DEF Resolve
<1>6. /\ TypeOK' /\ Records' /\ Family' /\ Mappings' /\ InHooks' /\ Sent' /\ StampIsRoot'
      /\ Known' /\ Ages /\ owner'[t] = s /\ parent[t] = None
      /\ req'[r].pc = "row" /\ req'[r].session = s /\ req'[r].task = t
      /\ \A x \in Requests \ {r} : req'[x] = req[x] /\ hook'[x] = hook[x]
      /\ hook'[r] # NoHook /\ hook'[r].task = t /\ hook'[r].stage = "route"
  BY <1>1, <1>2, <1>3, <1>4, <1>5, Minted
<1>7. InHandlers'
  <2>1. Handler(r)'
    BY <1>1, <1>4, <1>6 DEF Handler, Windowed
  <2>2. QED
    BY <1>4, <1>6, <2>1, OtherHandlers
<1>8. Lifetimes'
  <2>1. \A x \in Tasks \ {t} : owner'[x] = owner[x]
    BY <1>3
  <2>2. \A x \in Sessions : Owned(x) => Owned(x)'
    BY <1>6, Named DEF Owned, Ages
  <2>3. ASSUME NEW c \in Requests, req'[c].pc = "child"
        PROVE  /\ c # r /\ req'[c] = req[c] /\ req[c].session # s
    BY <1>1, <1>6, <2>3 DEF Lifetimes
  <2>4. \A c \in Requests : req'[c].pc = "seed" => c # r /\ req'[c] = req[c] /\ req[c].session \in Sessions
    BY <1>1, <1>6, HandlerFields DEF Records
  <2>5. alive \cup deleted \subseteq Sessions
    BY DEF HubInv, TypeOK
  <2>6. \A x \in alive' \cup deleted' : x \in Opened \/ Owned(x)'
    BY <1>1, <1>4, <2>2, <2>5 DEF Lifetimes
  <2>7. \A c \in Requests : req'[c].pc = "seed" =>
            req'[c].session \in Opened \/ \E x \in Tasks : owner'[x] = req'[c].session
    <3>1. ASSUME NEW c \in Requests, req'[c].pc = "seed"
          PROVE  req[c].session \in Opened \/ \E x \in Tasks : owner'[x] = req[c].session
      BY <1>1, <1>6, <2>4, <3>1, Named DEF Lifetimes, Owned, Ages
    <3>2. QED
      BY <2>4, <3>1
  <2>8. \A c \in Requests : req'[c].pc = "child" =>
          /\ req'[c].session \notin Opened \cup alive \cup deleted
          /\ \A x \in Tasks : owner'[x] = req'[c].session => x = req'[c].task
          /\ \A x \in Requests \ {c} :
                req'[x].pc \in {"seed", "child"} => req'[x].session # req'[c].session
    BY <1>1, <1>6, <2>1, <2>3 DEF Lifetimes
  <2>9. QED
    BY <1>1, <1>4, <2>6, <2>7, <2>8 DEF Lifetimes, Owned
<1>9. QED
  BY <1>6, <1>7, <1>8 DEF HubInv

LEMMA ForkStep ==
    ASSUME HubInv, NEW r \in Requests, Fork(r)
    PROVE  HubInv'
<1>1. /\ Records /\ InHandlers /\ Lifetimes /\ Mappings /\ Handler(r)
      /\ req[r] = NoReq /\ req[r].pc = "none"
  BY HandlerFields DEF HubInv, InHandlers, Fork
<1>2. PICK t \in Tasks, s \in Sessions \ (Opened \cup alive) :
        /\ owner[t] = None /\ (\A x \in Tasks : owner[x] # s)
        /\ owner' = [owner EXCEPT ![t] = s]
        /\ Resolved(r, t) /\ Commit(r, t, "root", None)
        /\ req' = [req EXCEPT ![r] = [pc |-> "child", session |-> s, task |-> t]]
  BY DEF Fork, Unborn
<1>3. UNCHANGED <<parent, rootOf, todo, tasks, subtasks, claim, window, alive, streams,
                  deleted, frames, faults>>
  BY DEF Fork, hubVars, localVars, storeVars
<1>4. Resolve(r, t) \in {ProjectOf[s], Quarantine}
  <2>1. streams[t] = None
    BY <1>1, <1>2 DEF Mappings, Mapped
  <2>2. window[r] = None
    BY <1>1 DEF Handler, Windowed
  <2>3. QED
    BY <2>1, <2>2 DEF Resolve
<1>5. /\ TypeOK' /\ Records' /\ Family' /\ Mappings' /\ InHooks' /\ Sent' /\ StampIsRoot'
      /\ Known' /\ Ages /\ owner'[t] = s /\ parent[t] = None
      /\ req'[r].pc = "child" /\ req'[r].session = s /\ req'[r].task = t
      /\ \A x \in Requests \ {r} : req'[x] = req[x] /\ hook'[x] = hook[x]
      /\ hook'[r] # NoHook /\ hook'[r].task = t /\ hook'[r].stage = "route"
  BY <1>1, <1>2, <1>3, <1>4, Minted
<1>6. InHandlers'
  <2>1. Handler(r)'
    BY <1>1, <1>3, <1>5 DEF Handler, Windowed
  <2>2. QED
    BY <1>3, <1>5, <2>1, OtherHandlers
<1>7. Lifetimes'
  <2>1. /\ owner'[t] = s /\ \A x \in Tasks \ {t} : owner'[x] = owner[x]
    BY <1>2, <1>5
  <2>2. ~Owned(s) /\ s \notin Opened \cup alive \cup deleted
    BY <1>1, <1>2 DEF Lifetimes, Owned
  <2>3. ASSUME NEW c \in Requests \ {r}, req[c].pc \in {"seed", "child"}
        PROVE  req[c].session # s /\ req[c].session \in Sessions
    <3>1. req[c].session \in Sessions
      BY <1>1, <2>3, HandlerFields DEF Records
    <3>2. CASE req[c].pc = "seed"
      BY <1>1, <2>2, <3>1, <3>2 DEF Lifetimes
    <3>3. CASE req[c].pc = "child"
      <4>1. Handler(c) /\ req[c].task \in Tasks
        BY <1>1, <3>3, HandlerFields DEF Records, InHandlers
      <4>2. Owned(req[c].session)
        BY <3>3, <4>1 DEF Handler, Owned
      <4>3. QED
        BY <2>2, <3>1, <4>2
    <3>4. QED
      BY <2>3, <3>2, <3>3
  <2>4. \A x \in Sessions : Owned(x) => Owned(x)'
    BY <1>5, Named DEF Owned, Ages
  <2>5. alive \cup deleted \subseteq Sessions
    BY DEF HubInv, TypeOK
  <2>6. \A x \in alive' \cup deleted' : x \in Opened \/ Owned(x)'
    BY <1>1, <1>3, <2>4, <2>5 DEF Lifetimes
  <2>7. \A c \in Requests : req'[c].pc = "seed" =>
            req'[c].session \in Opened \/ \E x \in Tasks : owner'[x] = req'[c].session
    <3>1. ASSUME NEW c \in Requests, req'[c].pc = "seed"
          PROVE  req'[c] = req[c] /\ (req[c].session \in Opened \/ Owned(req[c].session))
      BY <1>1, <1>5, <3>1 DEF Lifetimes
    <3>2. QED
      BY <1>5, <2>3, <3>1, Named DEF Owned, Ages
  <2>8. ASSUME NEW c \in Requests, req'[c].pc = "child"
        PROVE  /\ req'[c].session \notin Opened \cup alive \cup deleted
               /\ \A x \in Tasks : owner'[x] = req'[c].session => x = req'[c].task
               /\ \A x \in Requests \ {c} :
                     req'[x].pc \in {"seed", "child"} => req'[x].session # req'[c].session
    <3>1. CASE c = r
      BY <1>2, <1>5, <2>1, <2>2, <2>3, <3>1
    <3>2. CASE c # r
      BY <1>1, <1>5, <2>1, <2>3, <2>8, <3>2 DEF Lifetimes
    <3>3. QED
      BY <3>1, <3>2
  <2>9. QED
    BY <1>1, <1>3, <2>6, <2>7, <2>8 DEF Lifetimes, Owned
<1>8. QED
  BY <1>5, <1>6, <1>7 DEF HubInv

LEMMA DeleteStep ==
    ASSUME HubInv, NEW s \in Sessions, DeleteSession(s)
    PROVE  HubInv'
<1>1. /\ TypeOK /\ Records /\ Family /\ Mappings /\ InHooks /\ InHandlers
      /\ Lifetimes /\ Sent /\ StampIsRoot /\ Known
  BY DEF HubInv
<1>2. /\ s \in alive /\ alive' = alive \ {s} /\ deleted' = deleted \cup {s}
      /\ streams' = [t \in Tasks |-> IF streams[t] = s THEN None ELSE streams[t]]
  BY DEF DeleteSession
<1>3. UNCHANGED <<owner, parent, rootOf, todo, hook, tasks, subtasks, claim, window, req,
                  frames, pools, faults>>
  BY DEF DeleteSession, engineVars, hubVars, localVars
<1>4. TypeOK' /\ Records' /\ Family' /\ Sent'
  BY <1>1, <1>2, <1>3 DEF TypeOK, Records, Family, Sent, MaybeSession
<1>5. Mappings'
  BY <1>1, <1>2, <1>3 DEF Mappings, Mapped
<1>6. InHooks' /\ InHandlers' /\ StampIsRoot'
  BY <1>1, <1>2, <1>3 DEF InHooks, Envelope, InHandlers, Handler, StampIsRoot
<1>7. Lifetimes'
  BY <1>1, <1>2, <1>3 DEF Lifetimes, Owned
<1>8. Known'
  BY <1>1, <1>2, <1>3 DEF Known, Belongs, Announcing, Fresh
<1>9. QED
  BY <1>4, <1>5, <1>6, <1>7, <1>8 DEF HubInv

LEMMA ForgetStep ==
    ASSUME HubInv, NEW s \in Sessions, ForgetSession(s)
    PROVE  HubInv'
<1>1. /\ TypeOK /\ Records /\ Family /\ Mappings /\ InHooks /\ InHandlers
      /\ Lifetimes /\ Sent /\ StampIsRoot /\ Known
  BY DEF HubInv
<1>2. /\ s \in deleted /\ deleted' = deleted \ {s}
      /\ tasks' = [t \in Tasks |-> IF tasks[t] = s THEN None ELSE tasks[t]]
      /\ subtasks' = [t \in Tasks |-> IF subtasks[t].session = s THEN NoSubtask ELSE subtasks[t]]
  BY DEF ForgetSession
<1>3. UNCHANGED <<owner, parent, rootOf, todo, hook, claim, window, alive, streams, req,
                  frames, pools, faults>>
  BY DEF ForgetSession, engineVars, localVars, storeVars
<1>4. NoSubtask \in [session : MaybeSession, root : Tasks \cup {None}]
  BY DEF NoSubtask, MaybeSession
<1>5. TypeOK' /\ Records' /\ Family' /\ Sent' /\ StampIsRoot'
  <2>1. tasks' \in [Tasks -> MaybeSession]
    BY <1>1, <1>2 DEF TypeOK, MaybeSession
  <2>2. subtasks' \in [Tasks -> [session : MaybeSession, root : Tasks \cup {None}]]
    BY <1>1, <1>2, <1>4 DEF TypeOK
  <2>3. QED
    BY <1>1, <1>2, <1>3, <2>1, <2>2 DEF TypeOK, Records, Family, Sent, StampIsRoot
<1>6. Mappings'
  BY <1>1, <1>2, <1>3 DEF Mappings, Mapped
<1>7. s \notin alive
  BY <1>1, <1>2 DEF Lifetimes
<1>8. \A x \in Tasks : owner[x] # s =>
          /\ tasks[x] # None => tasks'[x] # None
          /\ subtasks[x] # NoSubtask => subtasks'[x] # NoSubtask
  BY <1>1, <1>2 DEF Mappings, Mapped
<1>9. InHooks'
  <2>1. ASSUME NEW x \in Threads PROVE Envelope(x)'
    <3>1. Envelope(x) /\ (hook[x] # NoHook => hook[x].task \in Tasks)
      BY <1>1, HookFields DEF InHooks, Records
    <3>2. QED
      BY <1>3, <1>7, <1>8, <3>1 DEF Envelope
  <2>2. QED
    BY <2>1 DEF InHooks
<1>10. InHandlers'
  BY <1>1, <1>3 DEF InHandlers, Handler
<1>11. Lifetimes'
  BY <1>1, <1>2, <1>3 DEF Lifetimes, Owned
<1>12. Known'
  <2>1. SUFFICES ASSUME faults = 0, NEW x \in Tasks, owner[x] \in alive
                 PROVE  IF parent[x] = None THEN tasks'[x] # None \/ Fresh(x)'
                        ELSE /\ Belongs(parent[x])' # NoSubtask
                             /\ subtasks'[x] # NoSubtask \/ Announcing(x)'
    BY <1>3 DEF Known
  <2>2. /\ IF parent[x] = None THEN tasks[x] # None \/ Fresh(x)
           ELSE /\ Belongs(parent[x]) # NoSubtask
                /\ subtasks[x] # NoSubtask \/ Announcing(x)
        /\ owner[x] # s
    BY <1>1, <1>7, <2>1 DEF Known
  <2>3. (Fresh(x) => Fresh(x)') /\ (Announcing(x) => Announcing(x)')
    BY <1>3 DEF Fresh, Announcing
  <2>4. parent[x] # None => parent[x] \in Tasks /\ owner[parent[x]] # s
    BY <1>1, <2>2 DEF Family, TypeOK
  <2>5. parent[x] # None => Belongs(parent[x])' # NoSubtask
    BY <1>3, <1>8, <2>2, <2>4, BelongsKept
  <2>6. QED
    BY <1>8, <2>2, <2>3, <2>5
<1>13. QED
  BY <1>5, <1>6, <1>9, <1>10, <1>11, <1>12 DEF HubInv

-----------------------------------------------------------------------------
(* The workers *)

(* Off the request threads the resolvers know the row or nothing.          *)
LEMMA ResolvedByRow ==
    ASSUME HubInv, NEW t \in Tasks, owner[t] # None, UNCHANGED <<owner, frames>>,
           Resolved(t, t) \/ UNCHANGED pools
    PROVE  Sent' /\ pools' \subseteq [task : Tasks, project : Projects \cup {Quarantine}]
<1>1. TypeOK /\ Mappings /\ Sent /\ owner[t] \in Sessions /\ t \notin Requests
  BY Named DEF HubInv, TypeOK, MaybeSession
<1>2. Resolve(t, t) \in {ProjectOf[owner[t]], Quarantine}
  BY <1>1 DEF Resolve, Mappings, Mapped
<1>3. ProjectOf[owner[t]] \in Projects
  BY <1>1 DEF Projects
<1>4. pools' \subseteq pools \cup {[task |-> t, project |-> Resolve(t, t)]}
  BY DEF Resolved
<1>5. QED
  BY <1>1, <1>2, <1>3, <1>4 DEF Sent, TypeOK

(* A worker commits an envelope of its own task.                           *)
LEMMA WorkerCommits ==
    ASSUME HubInv, NEW t \in Tasks, owner[t] # None,
           NEW kind \in Kinds, NEW c \in Tasks \cup {None}, Commit(t, t, kind, c),
           kind = "spawn" => c \in Tasks /\ parent[c] = t,
           Resolved(t, t) \/ UNCHANGED pools,
           todo' \in [Tasks -> SUBSET {"marker", "genesis"}],
           \A x \in Tasks : /\ todo[x] = {} => todo'[x] = {}
                            /\ "genesis" \in todo[x] => "genesis" \in todo'[x] \/ (x = t /\ kind = "genesis"),
           UNCHANGED <<owner, parent, rootOf, tasks, subtasks, claim, window, alive, streams,
                       req, deleted, frames, faults>>
    PROVE  HubInv'
<1>1. /\ TypeOK /\ Records /\ Family /\ Mappings /\ InHooks /\ InHandlers
      /\ Lifetimes /\ Sent /\ StampIsRoot /\ Known
  BY DEF HubInv
<1>2. t \in Threads /\ t \notin Requests /\ \A r \in Requests : r \in Threads \ {t}
  BY Named
<1>3. /\ hook[t] = NoHook /\ hook'[t] # NoHook /\ hook'[t].stage = "route" /\ hook'[t].kind = kind
      /\ \A x \in Threads \ {t} : hook'[x] = hook[x]
      /\ hook' \in [Threads -> Hooks \cup {NoHook}]
  BY <1>1, <1>2, CommitHook
<1>4. Sent' /\ pools' \subseteq [task : Tasks, project : Projects \cup {Quarantine}]
  BY ResolvedByRow
<1>5. TypeOK' /\ Records' /\ Mappings' /\ StampIsRoot'
  <2>1. TypeOK'
    BY <1>1, <1>3, <1>4 DEF TypeOK
  <2>2. QED
    BY <1>1, <1>3, <2>1 DEF Records, Mappings, Mapped, StampIsRoot
<1>6. Family'
  BY <1>1 DEF Family
<1>7. InHooks'
  BY <1>2, CommittedHooks DEF Ages
<1>8. InHandlers'
  BY <1>1, <1>2, <1>3 DEF InHandlers, Handler
<1>9. Lifetimes'
  BY <1>1 DEF Lifetimes, Owned
<1>10. Known'
  <2>1. \A x \in Tasks : Fresh(x) => Fresh(x)'
    BY <1>2, <1>3 DEF Fresh
  <2>2. \A x \in Tasks : Announcing(x) => Announcing(x)'
    <3>1. ASSUME NEW x \in Tasks, Announcing(x) PROVE Announcing(x)'
      <4>1. CASE "genesis" \in todo[x]
        BY <1>3, <4>1 DEF Announcing
      <4>2. CASE "genesis" \notin todo[x]
        BY <1>2, <1>3, <3>1, <4>2, Named DEF Announcing
      <4>3. QED
        BY <4>1, <4>2
    <3>2. QED
      BY <3>1
  <2>3. QED
    BY <1>1, <2>1, <2>2 DEF Known, Belongs
<1>11. QED
  BY <1>4, <1>5, <1>6, <1>7, <1>8, <1>9, <1>10 DEF HubInv

LEMMA EnvelopeStep ==
    ASSUME HubInv, NEW t \in Tasks, Marker(t) \/ Genesis(t) \/ Emit(t)
    PROVE  HubInv'
<1>1. TypeOK /\ Family /\ todo \in [Tasks -> SUBSET {"marker", "genesis"}]
  BY DEF HubInv, TypeOK
<1>2. UNCHANGED <<owner, parent, rootOf, tasks, subtasks, claim, window, alive, streams,
                  req, deleted, frames, faults>>
  BY DEF Marker, Genesis, Emit, engineVars, hubVars, localVars, storeVars
<1>3. todo[t] # {} => parent[t] \in Tasks /\ owner[t] # None /\ owner[parent[t]] # None
  BY <1>1 DEF Family, TypeOK
<1>4. CASE Marker(t)
  <2>1. /\ parent[t] \in Tasks /\ owner[parent[t]] # None
        /\ Commit(parent[t], parent[t], "spawn", t) /\ UNCHANGED pools
        /\ todo' = [todo EXCEPT ![t] = @ \ {"marker"}]
    BY <1>3, <1>4 DEF Marker
  <2>2. /\ todo' \in [Tasks -> SUBSET {"marker", "genesis"}]
        /\ \A x \in Tasks : /\ todo[x] = {} => todo'[x] = {}
                            /\ "genesis" \in todo[x] => "genesis" \in todo'[x]
    BY <1>1, <2>1
  <2>3. "spawn" \in Kinds /\ t \in Tasks \cup {None}
    BY DEF Kinds
  <2>4. QED
    BY <1>2, <2>1, <2>2, <2>3, WorkerCommits
<1>5. CASE Genesis(t)
  <2>1. /\ owner[t] # None /\ Commit(t, t, "genesis", None) /\ Resolved(t, t)
        /\ todo' = [todo EXCEPT ![t] = @ \ {"genesis"}]
    BY <1>3, <1>5 DEF Genesis
  <2>2. /\ todo' \in [Tasks -> SUBSET {"marker", "genesis"}]
        /\ \A x \in Tasks : /\ todo[x] = {} => todo'[x] = {}
                            /\ "genesis" \in todo[x] => "genesis" \in todo'[x] \/ x = t
    BY <1>1, <2>1
  <2>3. "genesis" \in Kinds
    BY DEF Kinds
  <2>4. QED
    BY <1>2, <2>1, <2>2, <2>3, WorkerCommits
<1>6. CASE Emit(t)
  <2>1. owner[t] # None /\ Commit(t, t, "plain", None) /\ Resolved(t, t) /\ todo' = todo
    BY <1>6 DEF Emit, Driven, engineVars
  <2>2. "plain" \in Kinds
    BY DEF Kinds
  <2>3. QED
    BY <1>1, <1>2, <2>1, <2>2, WorkerCommits
<1>7. QED
  BY <1>4, <1>5, <1>6

(* A driven task is one the hub knows, so its subtasks will find a place.  *)
LEMMA SpawnStep ==
    ASSUME HubInv, NEW t \in Tasks, Spawn(t)
    PROVE  HubInv'
<1>1. /\ TypeOK /\ Records /\ Family /\ Mappings /\ InHooks /\ InHandlers
      /\ Lifetimes /\ Sent /\ StampIsRoot /\ Known
  BY DEF HubInv
<1>2. PICK c \in Tasks :
        /\ owner[c] = None /\ owner' = [owner EXCEPT ![c] = owner[t]]
        /\ parent' = [parent EXCEPT ![c] = t] /\ rootOf' = [rootOf EXCEPT ![c] = rootOf[t]]
        /\ todo' = [todo EXCEPT ![c] = {"marker", "genesis"}]
  BY DEF Spawn, Unborn
<1>3. /\ owner[t] # None /\ "genesis" \notin todo[t] /\ hook[t] = NoHook
      /\ \A r \in Requests : ~(req[r].pc \in {"row", "child", "adopt"} /\ req[r].task = t)
  BY DEF Spawn, Driven
<1>4. UNCHANGED <<hook, tasks, subtasks, claim, window, alive, streams, req, deleted, frames,
                  pools, faults>>
  BY DEF Spawn, hubVars, localVars, storeVars
<1>5. /\ c # t /\ t # None /\ owner[t] \in Sessions
      /\ owner'[c] = owner[t] /\ parent'[c] = t /\ rootOf'[c] = rootOf[t]
      /\ todo'[c] = {"marker", "genesis"}
      /\ \A x \in Tasks \ {c} : /\ owner'[x] = owner[x] /\ parent'[x] = parent[x]
                                /\ rootOf'[x] = rootOf[x] /\ todo'[x] = todo[x]
  BY <1>1, <1>2, <1>3, Named DEF TypeOK, MaybeSession
<1>6. Ages
  BY <1>2, <1>5 DEF Ages
<1>7. parent[c] = None /\ \A x \in Tasks : parent[x] # c
  BY <1>1, <1>2, Named DEF Family
<1>8. TypeOK' /\ Records'
  <2>1. /\ owner' \in [Tasks -> MaybeSession] /\ parent' \in [Tasks -> Tasks \cup {None}]
        /\ rootOf' \in [Tasks -> Tasks] /\ todo' \in [Tasks -> SUBSET {"marker", "genesis"}]
    BY <1>1, <1>2 DEF TypeOK
  <2>2. QED
    BY <1>1, <1>4, <2>1 DEF TypeOK, Records
<1>9. Family'
  <2>1. ASSUME NEW x \in Tasks \ {c}
        PROVE  IF parent'[x] = None THEN rootOf'[x] = x /\ todo'[x] = {}
               ELSE /\ owner'[x] # None /\ owner'[x] = owner'[parent'[x]]
                    /\ rootOf'[x] = rootOf'[parent'[x]]
    <3>1. CASE parent[x] = None
      BY <1>1, <1>5, <3>1 DEF Family
    <3>2. CASE parent[x] # None
      <4>1. /\ owner[x] # None /\ owner[x] = owner[parent[x]] /\ rootOf[x] = rootOf[parent[x]]
            /\ parent[x] \in Tasks \ {c}
        BY <1>1, <1>7, <3>2 DEF Family, TypeOK
      <4>2. QED
        BY <1>5, <3>2, <4>1
    <3>3. QED
      BY <3>1, <3>2
  <2>2. QED
    BY <1>3, <1>5, <2>1 DEF Family
<1>10. Mappings'
  BY <1>1, <1>2, <1>4, <1>5, <1>7 DEF Mappings, Mapped
<1>11. InHooks'
  <2>1. ASSUME NEW x \in Threads, hook[x] # NoHook PROVE Envelope(x)'
    <3>1. Envelope(x) /\ hook[x].task \in Tasks /\ hook[x].task # c
      BY <1>1, <1>2, <2>1, HookFields DEF InHooks, Records, Envelope
    <3>2. hook[x].kind = "spawn" => hook[x].child # c
      BY <1>7, <2>1, <3>1, Named DEF Envelope
    <3>3. QED
      BY <1>4, <1>5, <3>1, <3>2 DEF Envelope
  <2>2. QED
    BY <1>4, <2>1 DEF InHooks, Envelope
<1>12. InHandlers'
  <2>1. ASSUME NEW r \in Requests PROVE Handler(r)'
    <3>1. Handler(r) /\ req[r] \in Handlers \cup {NoReq}
      BY <1>1 DEF InHandlers, Records
    <3>2. req[r].pc \notin {"none", "seed"} => req[r].task \in Tasks \ {c}
      BY <1>2, <3>1, HandlerFields, Named DEF Handler
    <3>3. QED
      BY <1>4, <1>5, <3>1, <3>2 DEF Handler
  <2>2. QED
    BY <2>1 DEF InHandlers
<1>13. Sent'
  <2>1. (\A f \in frames : f.task \in Tasks \ {c}) /\ (\A m \in pools : m.task \in Tasks \ {c})
    BY <1>1, <1>2, Named DEF TypeOK, Sent
  <2>2. QED
    BY <1>1, <1>4, <1>5, <2>1 DEF Sent
<1>14. StampIsRoot'
  <2>1. \A f \in frames : f.task \in Tasks \ {c}
    BY <1>1, <1>2, Named DEF TypeOK, Sent
  <2>2. QED
    BY <1>1, <1>4, <1>5, <2>1 DEF StampIsRoot
<1>15. Lifetimes'
  <2>1. \A s \in Sessions : Owned(s) => Owned(s)'
    BY <1>6, Named DEF Owned, Ages
  <2>2. alive \cup deleted \subseteq Sessions
    BY <1>1 DEF TypeOK
  <2>3. \A s \in alive \cup deleted : s \in Opened \/ Owned(s)'
    BY <1>1, <2>1, <2>2 DEF Lifetimes
  <2>4. ASSUME NEW r \in Requests, req[r].pc = "seed"
        PROVE  req[r].session \in Opened \/ \E x \in Tasks : owner'[x] = req[r].session
    BY <1>1, <1>6, <2>4, HandlerFields, Named DEF Lifetimes, Owned, Ages, Records
  <2>5. ASSUME NEW r \in Requests, req[r].pc = "child"
        PROVE  \A x \in Tasks : owner'[x] = req[r].session => x = req[r].task
    <3>1. owner[t] # req[r].session
      BY <1>1, <1>3, <2>5 DEF Lifetimes
    <3>2. QED
      BY <1>1, <1>5, <2>5, <3>1 DEF Lifetimes
  <2>6. QED
    BY <1>1, <1>4, <2>3, <2>4, <2>5 DEF Lifetimes, Owned
<1>16. Known'
  <2>1. \A x \in Tasks : Fresh(x)' <=> Fresh(x)
    BY <1>4 DEF Fresh
  <2>2. \A x \in Tasks \ {c} : Announcing(x)' <=> Announcing(x)
    BY <1>4, <1>5 DEF Announcing
  <2>3. faults = 0 /\ owner[t] \in alive => Belongs(t) # NoSubtask
    <3>1. SUFFICES ASSUME faults = 0, owner[t] \in alive PROVE Belongs(t) # NoSubtask
      OBVIOUS
    <3>2. ~Fresh(t) /\ ~Announcing(t)
      BY <1>3 DEF Fresh, Announcing
    <3>3. CASE tasks[t] # None
      BY <3>3 DEF Belongs, NoSubtask
    <3>4. CASE tasks[t] = None
      BY <1>1, <3>1, <3>2, <3>4 DEF Known, Belongs
    <3>5. QED
      BY <3>3, <3>4
  <2>4. Announcing(c)'
    BY <1>5 DEF Announcing
  <2>5. ASSUME faults = 0, NEW x \in Tasks \ {c}, owner[x] \in alive
        PROVE  IF parent[x] = None THEN tasks[x] # None \/ Fresh(x)'
               ELSE /\ Belongs(parent[x])' # NoSubtask
                    /\ subtasks[x] # NoSubtask \/ Announcing(x)'
    <3>1. parent[x] # None => parent[x] \in Tasks
      BY <1>1 DEF TypeOK
    <3>2. Belongs(parent[x])' = Belongs(parent[x])
      BY <1>4, <1>5, <2>5 DEF Belongs
    <3>3. QED
      BY <1>1, <2>1, <2>2, <2>5, <3>1, <3>2 DEF Known
  <2>6. SUFFICES ASSUME faults = 0, NEW x \in Tasks, owner'[x] \in alive
                 PROVE  IF parent'[x] = None THEN tasks[x] # None \/ Fresh(x)'
                        ELSE /\ Belongs(parent[x])' # NoSubtask
                             /\ subtasks[x] # NoSubtask \/ Announcing(x)'
    BY <1>4 DEF Known
  <2>7. CASE x = c
    <3>1. Belongs(parent[x])' = Belongs(t)
      BY <1>4, <1>5, <2>7 DEF Belongs
    <3>2. QED
      BY <1>5, <2>3, <2>4, <2>6, <2>7, <3>1
  <2>8. CASE x # c
    <3>1. parent'[x] = parent[x] /\ owner'[x] = owner[x]
      BY <1>5, <2>8
    <3>2. QED
      BY <2>5, <2>6, <2>8, <3>1
  <2>9. QED
    BY <2>7, <2>8
<1>17. QED
  BY <1>8, <1>9, <1>10, <1>11, <1>12, <1>13, <1>14, <1>15, <1>16 DEF HubInv

-----------------------------------------------------------------------------
(* The process dies: the maps are what the rows say, the threads are gone. *)
LEMMA RebuildStep ==
    ASSUME HubInv, Rebuild
    PROVE  HubInv'
<1>1. /\ TypeOK /\ Records /\ Family /\ Mappings /\ Lifetimes /\ Sent /\ StampIsRoot
  BY DEF HubInv
<1>2. /\ faults' = faults + 1 /\ hook' = [th \in Threads |-> NoHook] /\ tasks' = streams
      /\ subtasks' = [t \in Tasks |-> NoSubtask] /\ claim' = [r \in Requests |-> None]
      /\ window' = [r \in Requests |-> None] /\ req' = [r \in Requests |-> NoReq] /\ deleted' = {}
  BY DEF Rebuild
<1>3. UNCHANGED <<owner, parent, rootOf, todo, alive, streams, frames, pools>>
  BY DEF Rebuild, engineVars, storeVars
<1>4. NoSubtask \in [session : MaybeSession, root : Tasks \cup {None}] /\ NoReq.pc = "none"
  BY HandlerFields DEF NoSubtask, MaybeSession
<1>5. TypeOK' /\ Records'
  <2>1. subtasks' \in [Tasks -> [session : MaybeSession, root : Tasks \cup {None}]]
    BY <1>2, <1>4
  <2>2. claim' \in [Requests -> MaybeSession] /\ window' \in [Requests -> Projects \cup {None}]
    BY <1>2 DEF MaybeSession
  <2>3. QED
    BY <1>1, <1>2, <1>3, <2>1, <2>2 DEF TypeOK, Records
<1>6. Family' /\ Mappings' /\ Sent' /\ StampIsRoot'
  BY <1>1, <1>2, <1>3 DEF Family, Mappings, Mapped, Sent, StampIsRoot
<1>7. InHooks' /\ InHandlers'
  BY <1>2, <1>4 DEF InHooks, Envelope, InHandlers, Handler, Windowed
<1>8. Lifetimes'
  BY <1>1, <1>2, <1>3, <1>4 DEF Lifetimes, Owned
<1>9. Known'
  BY <1>1, <1>2 DEF Known, TypeOK
<1>10. QED
  BY <1>5, <1>6, <1>7, <1>8, <1>9 DEF HubInv

LEMMA HubInit == Init => HubInv
<1>1. SUFFICES ASSUME Init PROVE HubInv
  OBVIOUS
<1>2. /\ owner = [t \in Tasks |-> None] /\ parent = [t \in Tasks |-> None]
      /\ rootOf = [t \in Tasks |-> t] /\ todo = [t \in Tasks |-> {}]
      /\ hook = [th \in Threads |-> NoHook] /\ tasks = [t \in Tasks |-> None]
      /\ subtasks = [t \in Tasks |-> NoSubtask] /\ claim = [r \in Requests |-> None]
      /\ window = [r \in Requests |-> None] /\ alive = Opened
      /\ streams = [t \in Tasks |-> None] /\ req = [r \in Requests |-> NoReq]
      /\ deleted = {} /\ frames = {} /\ pools = {} /\ faults = 0
  BY <1>1 DEF Init
<1>3. NoSubtask \in [session : MaybeSession, root : Tasks \cup {None}] /\ NoReq.pc = "none"
  BY HandlerFields DEF NoSubtask, MaybeSession
<1>4. TypeOK /\ Records
  <2>1. /\ owner \in [Tasks -> MaybeSession] /\ parent \in [Tasks -> Tasks \cup {None}]
        /\ rootOf \in [Tasks -> Tasks] /\ todo \in [Tasks -> SUBSET {"marker", "genesis"}]
        /\ tasks \in [Tasks -> MaybeSession] /\ streams \in [Tasks -> MaybeSession]
    BY <1>2 DEF MaybeSession
  <2>2. subtasks \in [Tasks -> [session : MaybeSession, root : Tasks \cup {None}]]
    BY <1>2, <1>3
  <2>3. claim \in [Requests -> MaybeSession] /\ window \in [Requests -> Projects \cup {None}]
    BY <1>2 DEF MaybeSession
  <2>4. TypeOK
    BY <1>2, <2>1, <2>2, <2>3, ConstantsAssumption DEF TypeOK
  <2>5. QED
    BY <1>2, <2>4 DEF Records
<1>5. Family /\ Mappings
  BY <1>2 DEF Family, Mappings, Mapped
<1>6. InHooks /\ InHandlers
  BY <1>2, <1>3 DEF InHooks, Envelope, InHandlers, Handler, Windowed
<1>7. Lifetimes /\ Sent /\ StampIsRoot
  BY <1>2, <1>3 DEF Lifetimes, Owned, Sent, StampIsRoot
<1>8. Known
  BY <1>2, ConstantsAssumption DEF Known
<1>9. QED
  BY <1>4, <1>5, <1>6, <1>7, <1>8 DEF HubInv

LEMMA HubStep == HubInv /\ [Next]_vars => HubInv'
<1>1. SUFFICES ASSUME HubInv, [Next]_vars PROVE HubInv'
  OBVIOUS
<1>2. CASE UNCHANGED vars
  <2>1. UNCHANGED <<owner, parent, rootOf, todo, hook, tasks, subtasks, claim, window, alive,
                    streams, req, deleted, frames, pools, faults>>
    BY <1>2 DEF vars, engineVars, hubVars, localVars, storeVars
  <2>2. TypeOK' /\ Records' /\ Family' /\ Mappings' /\ StampIsRoot'
    BY <1>1, <2>1 DEF HubInv, TypeOK, Records, Family, Mappings, Mapped, StampIsRoot
  <2>3. InHooks' /\ InHandlers'
    BY <1>1, <2>1 DEF HubInv, InHooks, Envelope, InHandlers, Handler
  <2>4. Lifetimes' /\ Sent'
    BY <1>1, <2>1 DEF HubInv, Lifetimes, Owned, Sent
  <2>5. Known'
    BY <1>1, <2>1 DEF HubInv, Known, Belongs, Announcing, Fresh
  <2>6. QED
    BY <2>2, <2>3, <2>4, <2>5 DEF HubInv
<1>3. CASE \E th \in Threads : Route(th) \/ Deliver(th)
  BY <1>1, <1>3, RouteStep, DeliverStep
<1>4. CASE \E r \in Requests : Serve(r)
  BY <1>1, <1>4, OpenStep, SeedStep, BindRowStep, CloseStep, HubBindStep, ForkStep,
     CreateChildStep DEF Serve
<1>5. CASE \E s \in Sessions : DeleteSession(s) \/ ForgetSession(s)
  BY <1>1, <1>5, DeleteStep, ForgetStep
<1>6. CASE \E t \in Tasks : Spawn(t) \/ Marker(t) \/ Genesis(t) \/ Emit(t)
  BY <1>1, <1>6, SpawnStep, EnvelopeStep
<1>7. CASE Rebuild
  BY <1>1, <1>7, RebuildStep
<1>8. QED
  BY <1>1, <1>2, <1>3, <1>4, <1>5, <1>6, <1>7 DEF Next

-----------------------------------------------------------------------------
(* The theorems *)

(* No conversation is spliced into another: EventHub._route, whatever      *)
(* thread runs the hook and whatever it served before, fans every frame    *)
(* out to the session its task was created for, for every number of        *)
(* sessions, tasks, pooled request threads, deletions and process deaths.  *)
THEOREM FramesReachTheirOwner == Spec => []NoCrossTalk
<1>1. HubInv => NoCrossTalk
  BY DEF HubInv, Sent, NoCrossTalk
<1>2. QED
  BY <1>1, HubInit, HubStep, PTL DEF Spec

(* The memory resolver gives a task its own project's memory or nobody's:  *)
(* a seeding window left open on a pooled thread cannot leak into the next *)
(* session that thread serves, nor a row of one session into another's.    *)
THEOREM MemoryStaysInItsProject == Spec => []MemoryIsolated
<1>1. HubInv => MemoryIsolated
  BY DEF HubInv, Sent, MemoryIsolated
<1>2. QED
  BY <1>1, HubInit, HubStep, PTL DEF Spec

(* Routing is sound at every depth of nesting and in either order of spawn *)
(* marker and genesis: frames carry their root's stream, unless the        *)
(* session was deleted under the hook, and until a process death every     *)
(* subtask that has announced itself is routed to its owner (_ingest,      *)
(* _route and _learn_subtasks).                                            *)
THEOREM SubtasksFollowTheirRoot == Spec => []RoutingSound
<1>1. HubInv => RoutingSound
  <2>1. SUFFICES ASSUME HubInv, NEW c \in Tasks, parent[c] # None, "genesis" \notin todo[c],
                        hook[c] = NoHook, faults = 0, owner[c] \in alive
                 PROVE  subtasks[c].session = owner[c]
    BY DEF HubInv, RoutingSound, SubtasksRouted
  <2>2. subtasks[c] # NoSubtask
    BY <2>1 DEF HubInv, Known, Announcing
  <2>3. QED
    BY <2>1, <2>2 DEF HubInv, Mappings, Mapped
<1>2. QED
  BY <1>1, HubInit, HubStep, PTL DEF Spec

=============================================================================
