----------------------------- MODULE HubRouting -----------------------------
(***************************************************************************)
(* Which session an envelope belongs to, and which project a task may      *)
(* remember for.  The hub routes by a map of root streams mirrored from    *)
(* the store, a map of subtasks learned from the envelopes themselves, and *)
(* a thread-local claim for a task that is being seeded; the memory and    *)
(* container resolvers read the stream rows and a thread-local project.    *)
(* Request threads come from a pool: a thread serves one session after     *)
(* another.                                                                *)
(***************************************************************************)
EXTENDS Integers, FiniteSets

CONSTANTS
    Sessions,   \* session ids
    Opened,     \* the sessions that exist at the start; forks make the others
    Tasks,      \* engine task ids; a task also names the thread driving it
    Requests,   \* request threads
    ProjectOf,  \* the project of each session
    None,       \* no session, task or project
    MaxFaults   \* bound: process deaths

Quarantine == "quarantine"

ASSUME ConstantsAssumption ==
    /\ Opened \subseteq Sessions
    /\ None \notin Sessions \cup Tasks
    /\ Requests \cap Tasks = {}
    /\ DOMAIN ProjectOf = Sessions
    /\ Quarantine \notin {ProjectOf[s] : s \in Sessions}
    /\ MaxFaults \in Nat

VARIABLES
    owner,    \* ghost: the session a task was created for
    parent,   \* the task that spawned a subtask, None for a root
    rootOf,   \* ghost: the root a task descends from, itself for a root
    todo,     \* envelopes a spawned task still owes: marker, genesis
    hook,     \* per thread: the envelope its post-commit hook is at
    tasks,    \* EventHub._tasks
    subtasks, \* EventHub._subtasks
    claim,    \* per request thread: EventHub._seeding.session_id
    window,   \* per request thread: SeedingWindow project
    alive,    \* sessions rows
    streams,  \* session_task_streams
    req,      \* per request thread: the handler it is in
    deleted,  \* sessions whose row is gone and whose routing is not yet
    frames,   \* what was fanned out: task, session, stamp
    pools,    \* which project each task's memory resolved to
    faults

engineVars == <<owner, parent, rootOf, todo>>
hubVars == <<tasks, subtasks>>
storeVars == <<alive, streams>>
localVars == <<claim, window>>
vars == <<engineVars, hook, hubVars, localVars, storeVars, req, deleted, frames,
          pools, faults>>

Threads == Requests \cup Tasks
NoHook == [stage |-> "none"]
NoReq == [pc |-> "none"]
NoSubtask == [session |-> None, root |-> None]

(* An envelope of task t on thread th; `child` is what a spawn marker names. *)
Commit(th, t, kind, child) ==
    /\ hook[th] = NoHook
    /\ hook' = [hook EXCEPT ![th] = [stage |-> "route", task |-> t, kind |-> kind,
                                     child |-> child]]

-----------------------------------------------------------------------------
Init ==
    /\ owner = [t \in Tasks |-> None]
    /\ parent = [t \in Tasks |-> None]
    /\ rootOf = [t \in Tasks |-> t]
    /\ todo = [t \in Tasks |-> {}]
    /\ hook = [th \in Threads |-> NoHook]
    /\ tasks = [t \in Tasks |-> None]
    /\ subtasks = [t \in Tasks |-> NoSubtask]
    /\ claim = [r \in Requests |-> None]
    /\ window = [r \in Requests |-> None]
    /\ alive = Opened
    /\ streams = [t \in Tasks |-> None]
    /\ req = [r \in Requests |-> NoReq]
    /\ deleted = {}
    /\ frames = {}
    /\ pools = {}
    /\ faults = 0

-----------------------------------------------------------------------------
(* The hub's hook *)

(* Mutant of Belongs: a nested subtask hangs under the task that spawned it. *)
BelongsToParent(p) ==
    IF tasks[p] # None THEN [session |-> tasks[p], root |-> p]
    ELSE IF subtasks[p] # NoSubtask THEN [session |-> subtasks[p].session, root |-> p]
    ELSE NoSubtask

(* Where a genesis that names its parent p puts the new subtask. *)
Belongs(p) ==
    IF tasks[p] # None THEN [session |-> tasks[p], root |-> p] ELSE subtasks[p]

(* Mutant of ClaimOf: the window is one slot for the whole process. *)
ClaimOfProcess(th) ==
    IF \E r \in Requests : claim[r] # None
    THEN claim[CHOOSE r \in Requests : claim[r] # None] ELSE None

(* The seed window of the thread that runs the hook. *)
ClaimOf(th) == IF th \in Requests THEN claim[th] ELSE None

(* _route, under the lock: known root, known subtask, announced subtask,   *)
(* seed window, or nobody's.                                               *)
Route(th) ==
    LET h == hook[th]
        t == h.task
        p == IF h.kind = "genesis" THEN parent[t] ELSE None
        found(s, sub) == hook' = [hook EXCEPT ![th] =
                             [stage |-> "deliver", task |-> t, kind |-> h.kind,
                              child |-> h.child, session |-> s, sub |-> sub]]
        dropped == hook' = [hook EXCEPT ![th] = NoHook]
    IN  /\ h.stage = "route"
        /\ \/ /\ tasks[t] # None
              /\ found(tasks[t], FALSE)
              /\ UNCHANGED hubVars
           \/ /\ tasks[t] = None /\ subtasks[t] # NoSubtask
              /\ found(subtasks[t].session, TRUE)
              /\ UNCHANGED hubVars
           \/ /\ tasks[t] = None /\ subtasks[t] = NoSubtask /\ p # None
              /\ subtasks' = [subtasks EXCEPT ![t] = Belongs(p)]
              /\ IF Belongs(p) # NoSubtask
                 THEN found(Belongs(p).session, TRUE) ELSE dropped
              /\ UNCHANGED tasks
           \/ /\ tasks[t] = None /\ subtasks[t] = NoSubtask /\ p = None
              /\ tasks' = [tasks EXCEPT ![t] = ClaimOf(th)]
              /\ IF ClaimOf(th) # None THEN found(ClaimOf(th), FALSE) ELSE dropped
              /\ UNCHANGED subtasks
        /\ UNCHANGED <<engineVars, localVars, storeVars, req, deleted, frames,
                       pools, faults>>

(* _learn_subtasks for a root's spawn marker, then the fan-out, stamped    *)
(* with the root stream.                                                   *)
Deliver(th) ==
    LET h == hook[th]
        stamp == IF ~h.sub THEN h.task
                 ELSE IF subtasks[h.task] # NoSubtask THEN subtasks[h.task].root
                 ELSE h.task
    IN  /\ h.stage = "deliver"
        /\ subtasks' = IF ~h.sub /\ h.kind = "spawn"
                       THEN [subtasks EXCEPT ![h.child] = [session |-> h.session,
                                                           root |-> h.task]]
                       ELSE subtasks
        /\ frames' = frames \cup {[task |-> h.task, to |-> h.session, stamp |-> stamp]}
        /\ hook' = [hook EXCEPT ![th] = NoHook]
        /\ UNCHANGED <<engineVars, tasks, localVars, storeVars, req, deleted, pools,
                       faults>>

-----------------------------------------------------------------------------
(* The resolvers *)

(* memory root and container id: the stream row, then the seeding window,  *)
(* then the quarantine.                                                    *)
Resolve(th, t) ==
    IF streams[t] # None THEN ProjectOf[streams[t]]
    ELSE IF th \in Requests /\ window[th] # None THEN window[th]
    ELSE Quarantine

Resolved(th, t) == pools' = pools \cup {[task |-> t, project |-> Resolve(th, t)]}

-----------------------------------------------------------------------------
(* Request handlers *)

Unborn(t) == owner[t] = None

At(r, pc) == req[r].pc = pc /\ hook[r] = NoHook

(* The first message of a session: both windows open on this thread. *)
OpenWindows(r) ==
    /\ req[r] = NoReq /\ hook[r] = NoHook
    /\ \E s \in alive :
          /\ \A t \in Tasks : streams[t] # s
          /\ claim' = [claim EXCEPT ![r] = s]
          /\ window' = [window EXCEPT ![r] = ProjectOf[s]]
          /\ req' = [req EXCEPT ![r] = [pc |-> "seed", session |-> s]]
    /\ UNCHANGED <<engineVars, hook, hubVars, storeVars, deleted, frames, pools, faults>>

(* seed_start: the task is minted, resolvers and hooks run on this thread. *)
SeedStart(r) ==
    /\ At(r, "seed")
    /\ \E t \in Tasks :
          /\ Unborn(t)
          /\ owner' = [owner EXCEPT ![t] = req[r].session]
          /\ Resolved(r, t)
          /\ Commit(r, t, "root", None)
          /\ req' = [req EXCEPT ![r] = [pc |-> "row", session |-> req[r].session,
                                        task |-> t]]
    /\ UNCHANGED <<parent, rootOf, todo, hubVars, localVars, storeVars, deleted, frames, faults>>

(* The stream row; for a session deleted meanwhile the failure is logged. *)
BindRow(r) ==
    /\ At(r, "row")
    /\ streams' = IF req[r].session \in alive
                  THEN [streams EXCEPT ![req[r].task] = req[r].session] ELSE streams
    /\ req' = [req EXCEPT ![r].pc = "close"]
    /\ UNCHANGED <<engineVars, hook, hubVars, localVars, alive, deleted, frames,
                   pools, faults>>

(* Mutant of CloseWindows: only the hub's window is restored. *)
CloseClaimOnly(r) ==
    /\ At(r, "close")
    /\ claim' = [claim EXCEPT ![r] = None]
    /\ req' = [req EXCEPT ![r].pc = "bind"]
    /\ UNCHANGED <<engineVars, hook, hubVars, window, storeVars, deleted, frames,
                   pools, faults>>

CloseWindows(r) ==
    /\ At(r, "close")
    /\ claim' = [claim EXCEPT ![r] = None]
    /\ window' = [window EXCEPT ![r] = None]
    /\ req' = [req EXCEPT ![r].pc = "bind"]
    /\ UNCHANGED <<engineVars, hook, hubVars, storeVars, deleted, frames, pools, faults>>

(* hub.bind, once the verb has returned. *)
HubBind(r) ==
    /\ At(r, "bind") \/ At(r, "adopt")
    /\ tasks' = [tasks EXCEPT ![req[r].task] = req[r].session]
    /\ req' = [req EXCEPT ![r] = NoReq]
    /\ UNCHANGED <<engineVars, hook, subtasks, localVars, storeVars, deleted, frames,
                   pools, faults>>

(* fork: the engine mints the branch outside any window ... *)
Fork(r) ==
    /\ req[r] = NoReq
    /\ \E t \in Tasks, source \in Tasks, s \in Sessions \ (Opened \cup alive) :
          /\ Unborn(t) /\ streams[source] # None
          /\ \A x \in Tasks : owner[x] # s
          /\ owner' = [owner EXCEPT ![t] = s]
          /\ Resolved(r, t)
          /\ Commit(r, t, "root", None)
          /\ req' = [req EXCEPT ![r] = [pc |-> "child", session |-> s, task |-> t]]
    /\ UNCHANGED <<parent, rootOf, todo, hubVars, localVars, storeVars, deleted, frames, faults>>

(* ... then the child session and its stream row are written. *)
CreateChild(r) ==
    /\ At(r, "child")
    /\ alive' = alive \cup {req[r].session}
    /\ streams' = [streams EXCEPT ![req[r].task] = req[r].session]
    /\ req' = [req EXCEPT ![r].pc = "adopt"]
    /\ UNCHANGED <<engineVars, hook, hubVars, localVars, deleted, frames, pools, faults>>

(* Deleting a session: the row first, the routing after. *)
DeleteSession(s) ==
    /\ s \in alive
    /\ alive' = alive \ {s}
    /\ streams' = [t \in Tasks |-> IF streams[t] = s THEN None ELSE streams[t]]
    /\ deleted' = deleted \cup {s}
    /\ UNCHANGED <<engineVars, hook, hubVars, localVars, req, frames, pools, faults>>

ForgetSession(s) ==
    /\ s \in deleted
    /\ deleted' = deleted \ {s}
    /\ tasks' = [t \in Tasks |-> IF tasks[t] = s THEN None ELSE tasks[t]]
    /\ subtasks' = [t \in Tasks |-> IF subtasks[t].session = s
                                    THEN NoSubtask ELSE subtasks[t]]
    /\ UNCHANGED <<engineVars, hook, localVars, storeVars, req, frames, pools, faults>>

-----------------------------------------------------------------------------
(* Workers *)

(* A worker drives t from its dispatch on, after the stream row; a branch  *)
(* waits for its first message.                                            *)
Driven(t) ==
    /\ owner[t] # None
    /\ "genesis" \notin todo[t]
    /\ ~(\E r \in Requests : req[r].pc \in {"row", "child", "adopt"} /\ req[r].task = t)

(* A task spawns a subtask; its marker and the child's genesis will commit *)
(* in either order.                                                        *)
Spawn(t) ==
    /\ Driven(t) /\ hook[t] = NoHook
    /\ \E c \in Tasks :
          /\ Unborn(c)
          /\ owner' = [owner EXCEPT ![c] = owner[t]]
          /\ parent' = [parent EXCEPT ![c] = t]
          /\ rootOf' = [rootOf EXCEPT ![c] = rootOf[t]]
          /\ todo' = [todo EXCEPT ![c] = {"marker", "genesis"}]
    /\ UNCHANGED <<hook, hubVars, localVars, storeVars, req, deleted, frames, pools,
                   faults>>

Marker(c) ==
    /\ "marker" \in todo[c]
    /\ Commit(parent[c], parent[c], "spawn", c)
    /\ todo' = [todo EXCEPT ![c] = @ \ {"marker"}]
    /\ UNCHANGED <<owner, parent, rootOf, hubVars, localVars, storeVars, req, deleted, frames,
                   pools, faults>>

Genesis(c) ==
    /\ "genesis" \in todo[c]
    /\ Commit(c, c, "genesis", None)
    /\ Resolved(c, c)
    /\ todo' = [todo EXCEPT ![c] = @ \ {"genesis"}]
    /\ UNCHANGED <<owner, parent, rootOf, hubVars, localVars, storeVars, req, deleted, frames,
                   faults>>

(* Any other envelope of a task that is being driven. *)
Emit(t) ==
    /\ Driven(t)
    /\ Commit(t, t, "plain", None)
    /\ Resolved(t, t)
    /\ UNCHANGED <<engineVars, hubVars, localVars, storeVars, req, deleted, frames,
                   faults>>

(* The process dies; rebuild reloads the root streams, never the subtasks. *)
Rebuild ==
    /\ faults < MaxFaults
    /\ faults' = faults + 1
    /\ hook' = [th \in Threads |-> NoHook]
    /\ tasks' = streams
    /\ subtasks' = [t \in Tasks |-> NoSubtask]
    /\ claim' = [r \in Requests |-> None]
    /\ window' = [r \in Requests |-> None]
    /\ req' = [r \in Requests |-> NoReq]
    /\ deleted' = {}
    /\ UNCHANGED <<engineVars, storeVars, frames, pools>>

-----------------------------------------------------------------------------
Serve(r) == OpenWindows(r) \/ SeedStart(r) \/ BindRow(r) \/ CloseWindows(r)
                \/ HubBind(r) \/ Fork(r) \/ CreateChild(r)

Next ==
    \/ \E th \in Threads : Route(th) \/ Deliver(th)
    \/ \E r \in Requests : Serve(r)
    \/ \E s \in Sessions : DeleteSession(s) \/ ForgetSession(s)
    \/ \E t \in Tasks : Spawn(t) \/ Marker(t) \/ Genesis(t) \/ Emit(t)
    \/ Rebuild

Spec == Init /\ [][Next]_vars

-----------------------------------------------------------------------------
(* Properties *)

MaybeSession == Sessions \cup {None}
Projects == {ProjectOf[s] : s \in Sessions}

(* Every variable has its type. *)
TypeOK ==
    /\ owner \in [Tasks -> MaybeSession]
    /\ parent \in [Tasks -> Tasks \cup {None}]
    /\ rootOf \in [Tasks -> Tasks]
    /\ todo \in [Tasks -> SUBSET {"marker", "genesis"}]
    /\ DOMAIN hook = Threads
    /\ tasks \in [Tasks -> MaybeSession]
    /\ subtasks \in [Tasks -> [session : MaybeSession, root : Tasks \cup {None}]]
    /\ claim \in [Requests -> MaybeSession]
    /\ window \in [Requests -> Projects \cup {None}]
    /\ alive \subseteq Sessions
    /\ streams \in [Tasks -> MaybeSession]
    /\ DOMAIN req = Requests
    /\ deleted \subseteq Sessions
    /\ frames \subseteq [task : Tasks, to : Sessions, stamp : Tasks]
    /\ pools \subseteq [task : Tasks, project : Projects \cup {Quarantine}]
    /\ faults \in Nat

(* No conversation is spliced into another: every frame is fanned out to   *)
(* the session its task was created for, whatever thread ran the hook and  *)
(* whatever that thread served before.                                     *)
NoCrossTalk == \A f \in frames : f.to = owner[f.task]

(* A subtask's frames are stamped with a stream its session's clients      *)
(* filter on, its root, at any depth and whichever of the spawn marker and *)
(* the genesis came first; only a deletion under the hook leaves the       *)
(* subtask's own id.                                                       *)
StampIsRoot ==
    \A f \in frames : f.stamp = rootOf[f.task] \/ (f.stamp = f.task /\ f.to \notin alive)

(* A subtask of a routed stream is routed itself once it has announced     *)
(* itself: none of its frames are lost to an order of commits.             *)
SubtasksRouted ==
    \A c \in Tasks :
        /\ parent[c] # None /\ "genesis" \notin todo[c] /\ hook[c] = NoHook
        /\ faults = 0 /\ owner[c] \in alive
        => subtasks[c].session = owner[c]

(* A task reads and writes its own project's memory or nobody's: "better   *)
(* no memory than the wrong memory".                                       *)
MemoryIsolated ==
    \A m \in pools :
        m.project \in {ProjectOf[owner[m.task]], Quarantine}

(* Routing is sound: every variable has its type, a subtask of a routed    *)
(* stream is routed to the same session and its frames carry its root.     *)
RoutingSound == TypeOK /\ StampIsRoot /\ SubtasksRouted
=============================================================================
