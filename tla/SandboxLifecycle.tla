-------------------------- MODULE SandboxLifecycle --------------------------
(***************************************************************************)
(* The sandbox tier: one Docker container per project, shared by the root  *)
(* tasks of the project's sessions.  The first turn of a root task         *)
(* allocates, every later one attaches to the (port, name) its durable ref *)
(* recorded; a terminal task releases; a patrol thread stops and later     *)
(* removes the containers of idle projects.  Docker calls are made outside *)
(* the provider's lock, each a step of its own.                            *)
(***************************************************************************)
EXTENDS Integers, FiniteSets

CONSTANTS
    Projects,     \* containers are named after projects
    Roots,        \* root tasks, one per session
    Layouts,      \* the ways sessions may be spread over projects
    Ports,        \* host ports
    StopLevel,    \* reaper level 1 is on (sandbox idle stop hours > 0)
    RemoveLevel,  \* reaper level 2 is on
    MaxOutages     \* bound: failed probes and process deaths

ASSUME SandboxAssumption ==
    /\ Projects # {}
    /\ Layouts \subseteq [Roots -> Projects]
    /\ Ports \subseteq Nat \ {0}
    /\ StopLevel \in BOOLEAN /\ RemoveLevel \in BOOLEAN
    /\ MaxOutages \in Nat

VARIABLES
    projectOf, \* sessions.project_id: the project of each root task, for good
    ctr,     \* Docker's containers: state and published port
    roots,   \* _roots_by_cid: the refcount
    handle,  \* _handle_by_cid: the cached port, 0 for none
    ref,     \* the port in a root's durable exec_env_ref, 0 for none
    life,    \* where each root task is in its life
    op,      \* the provider call a root's thread is in
    age,     \* how overdue a project's newest activity is
    reaper,  \* the patrol thread
    outages

providerVars == <<roots, handle>>
rootVars == <<ref, life, op>>
sandboxVars == <<projectOf, ctr, providerVars, rootVars, age, reaper, outages>>

-----------------------------------------------------------------------------
Absent == [state |-> "absent", port |-> 0]
Running(p) == [state |-> "running", port |-> p]
Stopped(p) == [state |-> "stopped", port |-> p]

NoOp == [pc |-> "none", kind |-> "none", port |-> 0]
Op(pc, kind, p) == [pc |-> pc, kind |-> kind, port |-> p]

Patrolling == [pc |-> "wait", project |-> CHOOSE c \in Projects : TRUE]

(* A running container publishes port p. *)
Published(p) == \E c \in Projects : ctr[c] = Running(p)

(* The readiness probe asks whoever answers on the port. *)
Probe(p) == Published(p)

(* Ports of every sandbox container, the stopped ones too. *)
ReservedPorts == {ctr[c].port : c \in {d \in Projects : ctr[d] # Absent}}

(* The session status the reaper's read model has for a root's session. *)
SandboxBusy(c) == \E r \in Roots : projectOf[r] = c /\ life[r] \in {"resuming", "turn"}
HasStream(c) == \E r \in Roots :
                    projectOf[r] = c /\ life[r] \notin {"new", "seeding"}

Becomes(c, s) == ctr' = [ctr EXCEPT ![c] = s]

SandboxInit ==
    /\ projectOf \in Layouts
    /\ ctr = [c \in Projects |-> Absent]
    /\ roots = [c \in Projects |-> {}]
    /\ handle = [c \in Projects |-> 0]
    /\ ref = [r \in Roots |-> 0]
    /\ life = [r \in Roots |-> "new"]
    /\ op = [r \in Roots |-> NoOp]
    /\ age = [c \in Projects |-> "fresh"]
    /\ reaper = Patrolling
    /\ outages = 0

-----------------------------------------------------------------------------
(* allocate, attach and the steps they share *)

(* The call returns a handle on port p, and the turn goes on with it. *)
Granted(r, p) ==
    /\ ref' = [ref EXCEPT ![r] = p]
    /\ life' = [life EXCEPT ![r] = "turn"]
    /\ op' = [op EXCEPT ![r] = NoOp]
    /\ age' = [age EXCEPT ![projectOf[r]] = "fresh"]

(* The call raises: a seed is over, a resumed turn parks. *)
Raises(r) ==
    /\ life' = [life EXCEPT ![r] = IF @ = "seeding" THEN "ending" ELSE "rest"]
    /\ op' = [op EXCEPT ![r] = NoOp]
    /\ UNCHANGED <<ref, age>>

Step(r, o) ==
    /\ op' = [op EXCEPT ![r] = o]
    /\ UNCHANGED <<ref, life, age>>

(* allocate counts the root, under the lock, before it looks at Docker. *)
Allocate(r) ==
    LET c == projectOf[r]
    IN  /\ life[r] = "new"
        /\ life' = [life EXCEPT ![r] = "seeding"]
        /\ roots' = [roots EXCEPT ![c] = @ \cup {r}]
        /\ op' = [op EXCEPT ![r] = Op("inspect", "allocate", handle[c])]
        /\ UNCHANGED <<projectOf, ctr, handle, ref, age, reaper, outages>>

(* Reuse a running container through the cached or the recovered port if   *)
(* it answers; otherwise go on to build one.                               *)
ReuseOrBuild(r) ==
    LET c == projectOf[r]
        p == IF op[r].port # 0 THEN op[r].port ELSE ctr[c].port
    IN  /\ op[r].pc = "inspect"
        /\ \/ /\ ctr[c].state = "running"
              /\ Probe(p)
              /\ handle' = [handle EXCEPT ![c] = p]
              /\ Granted(r, p)
              /\ UNCHANGED outages
           \/ /\ ctr[c].state # "running" \/ ~Probe(p)
              /\ Step(r, Op("pick", "allocate", 0))
              /\ UNCHANGED <<handle, outages>>
           \/ /\ ctr[c].state = "running"
              /\ outages < MaxOutages
              /\ outages' = outages + 1
              /\ Step(r, Op("pick", "allocate", 0))
              /\ UNCHANGED handle
        /\ UNCHANGED <<projectOf, ctr, roots, reaper>>

(* A port nobody has bound and no stopped container will need again. *)
PickUnreservedPort(r) ==
    LET free == {p \in Ports : ~Published(p)} \ ReservedPorts
    IN  /\ op[r].pc = "pick"
        /\ \/ \E p \in free : Step(r, Op("rm", "allocate", p))
           \/ free = {} /\ Raises(r)
        /\ UNCHANGED <<projectOf, ctr, providerVars, reaper, outages>>

(* Mutant of Attach: an absent container is built afresh, on any port. *)
AttachPicksPort(r) ==
    LET c == projectOf[r]
    IN  /\ op[r].pc = "attach"
        /\ \/ /\ ctr[c].state = "absent"
              /\ \E p \in Ports : Step(r, Op("rm", "rebuild", p))
           \/ /\ ctr[c].state = "stopped"
              /\ Step(r, Op("start", "restart", ref[r]))
           \/ /\ ctr[c].state = "running"
              /\ Granted(r, ref[r])
        /\ UNCHANGED <<projectOf, ctr, providerVars, reaper, outages>>

(* attach trusts the ref's port: it rebuilds an absent container there,    *)
(* starts a stopped one, and asks nothing of a running one.                *)
Attach(r) ==
    LET c == projectOf[r]
    IN  /\ op[r].pc = "attach"
        /\ \/ /\ ctr[c].state = "absent"
              /\ Step(r, Op("rm", "rebuild", ref[r]))
           \/ /\ ctr[c].state = "stopped"
              /\ Step(r, Op("start", "restart", ref[r]))
           \/ /\ ctr[c].state = "running"
              /\ Granted(r, ref[r])
        /\ UNCHANGED <<projectOf, ctr, providerVars, reaper, outages>>

RemoveStale(r) ==
    /\ op[r].pc = "rm"
    /\ Becomes(projectOf[r], Absent)
    /\ Step(r, [op[r] EXCEPT !.pc = "run"])
    /\ UNCHANGED <<projectOf, providerVars, reaper, outages>>

(* docker run fails on a name or a port that is taken. *)
DockerRun(r) ==
    LET c == projectOf[r]
        p == op[r].port
    IN  /\ op[r].pc = "run"
        /\ \/ /\ ctr[c] = Absent
              /\ ~Published(p)
              /\ Becomes(c, Running(p))
              /\ Step(r, [op[r] EXCEPT !.pc = "ready"])
           \/ /\ ctr[c] # Absent \/ Published(p)
              /\ Raises(r)
              /\ UNCHANGED ctr
        /\ UNCHANGED <<projectOf, providerVars, reaper, outages>>

(* docker start restores the mapping the container was created with. *)
DockerStart(r) ==
    LET c == projectOf[r]
    IN  /\ op[r].pc = "start"
        /\ \/ /\ ctr[c].state = "running"
              /\ Step(r, [op[r] EXCEPT !.pc = "ready"])
              /\ UNCHANGED ctr
           \/ /\ ctr[c].state = "stopped"
              /\ ~Published(ctr[c].port)
              /\ Becomes(c, Running(ctr[c].port))
              /\ Step(r, [op[r] EXCEPT !.pc = "ready"])
           \/ /\ ctr[c].state = "absent" \/ (ctr[c].state = "stopped" /\ Published(ctr[c].port))
              /\ Raises(r)
              /\ UNCHANGED ctr
        /\ UNCHANGED <<projectOf, providerVars, reaper, outages>>

(* The port answers and the call returns.  Only allocate caches a handle. *)
AwaitReady(r) ==
    /\ op[r].pc = "ready"
    /\ Probe(op[r].port)
    /\ handle' = IF op[r].kind = "allocate"
                 THEN [handle EXCEPT ![projectOf[r]] = op[r].port] ELSE handle
    /\ Granted(r, op[r].port)
    /\ UNCHANGED <<projectOf, ctr, roots, reaper, outages>>

(* It does not answer in time: a container just made is removed, one that  *)
(* was restarted is stopped again.                                         *)
ReadyTimeout(r) ==
    LET c == projectOf[r]
    IN  /\ op[r].pc = "ready"
        /\ \/ ~Probe(op[r].port) /\ UNCHANGED outages
           \/ outages < MaxOutages /\ outages' = outages + 1
        /\ Becomes(c, IF op[r].kind # "restart" THEN Absent
                      ELSE IF ctr[c].state = "running" THEN Stopped(ctr[c].port)
                      ELSE ctr[c])
        /\ Raises(r)
        /\ UNCHANGED <<projectOf, providerVars, reaper>>

-----------------------------------------------------------------------------
(* A root task's turns and its end *)

EndTurn(r) ==
    /\ life[r] = "turn"
    /\ life' = [life EXCEPT ![r] = "rest"]
    /\ age' = [age EXCEPT ![projectOf[r]] = "fresh"]
    /\ UNCHANGED <<projectOf, ctr, providerVars, ref, op, reaper, outages>>

(* The next turn resumes: the driver attaches and never allocates. *)
Resume(r) ==
    /\ life[r] = "rest"
    /\ ref[r] # 0
    /\ life' = [life EXCEPT ![r] = "resuming"]
    /\ op' = [op EXCEPT ![r] = Op("attach", "attach", ref[r])]
    /\ age' = [age EXCEPT ![projectOf[r]] = "fresh"]
    /\ UNCHANGED <<projectOf, ctr, providerVars, ref, reaper, outages>>

Terminate(r) ==
    /\ life[r] \in {"turn", "rest"}
    /\ life' = [life EXCEPT ![r] = "ending"]
    /\ age' = [age EXCEPT ![projectOf[r]] = "fresh"]
    /\ UNCHANGED <<projectOf, ctr, providerVars, ref, op, reaper, outages>>

(* release: only the last counted root goes on to remove the container. *)
Release(r) ==
    LET c == projectOf[r]
    IN  /\ life[r] = "ending"
        /\ life' = [life EXCEPT ![r] = "dead"]
        /\ roots' = [roots EXCEPT ![c] = @ \ {r}]
        /\ IF roots[c] \ {r} # {}
           THEN UNCHANGED <<handle, op>>
           ELSE /\ handle' = [handle EXCEPT ![c] = 0]
                /\ op' = [op EXCEPT ![r] = Op("release_rm", "release", 0)]
        /\ UNCHANGED <<projectOf, ctr, ref, age, reaper, outages>>

ReleaseRemoves(r) ==
    /\ op[r].pc = "release_rm"
    /\ Becomes(projectOf[r], Absent)
    /\ op' = [op EXCEPT ![r] = NoOp]
    /\ UNCHANGED <<projectOf, providerVars, ref, life, age, reaper, outages>>

-----------------------------------------------------------------------------
(* The idle reaper *)

(* Time passes over a project that has a stream and no turn in flight; no  *)
(* other has an age the reaper reads.                                      *)
Tick(c) ==
    /\ HasStream(c) /\ ~SandboxBusy(c)
    /\ age[c] # "remove"
    /\ age' = [age EXCEPT ![c] = IF @ = "fresh" THEN "stop" ELSE "remove"]
    /\ UNCHANGED <<projectOf, ctr, providerVars, rootVars, reaper, outages>>

(* Mutant of Sweep: level 1 is checked before level 2. *)
SweepStopFirst(c) ==
    /\ reaper.pc = "wait"
    /\ HasStream(c) /\ ~SandboxBusy(c)
    /\ \/ /\ StopLevel /\ age[c] # "fresh"
          /\ reaper' = [pc |-> "stop", project |-> c]
       \/ /\ RemoveLevel /\ age[c] = "remove" /\ ~StopLevel
          /\ reaper' = [pc |-> "force", project |-> c]
    /\ UNCHANGED <<projectOf, ctr, providerVars, rootVars, age, outages>>

(* sweep reads the sessions' rows and decides; level 2 is checked first. *)
Sweep(c) ==
    /\ reaper.pc = "wait"
    /\ HasStream(c) /\ ~SandboxBusy(c)
    /\ \/ /\ RemoveLevel /\ age[c] = "remove"
          /\ reaper' = [pc |-> "force", project |-> c]
       \/ /\ StopLevel /\ age[c] # "fresh" /\ ~(RemoveLevel /\ age[c] = "remove")
          /\ reaper' = [pc |-> "stop", project |-> c]
    /\ UNCHANGED <<projectOf, ctr, providerVars, rootVars, age, outages>>

ForceRelease ==
    LET c == reaper.project
    IN  /\ reaper.pc = "force"
        /\ roots' = [roots EXCEPT ![c] = {}]
        /\ handle' = [handle EXCEPT ![c] = 0]
        /\ reaper' = [reaper EXCEPT !.pc = "force_rm"]
        /\ UNCHANGED <<projectOf, ctr, rootVars, age, outages>>

ForceRemoves ==
    /\ reaper.pc = "force_rm"
    /\ Becomes(reaper.project, Absent)
    /\ reaper' = [reaper EXCEPT !.pc = "wait"]
    /\ UNCHANGED <<projectOf, providerVars, rootVars, age, outages>>

StopIdle ==
    LET c == reaper.project
    IN  /\ reaper.pc = "stop"
        /\ IF ctr[c].state = "running"
           THEN /\ handle' = [handle EXCEPT ![c] = 0]
                /\ reaper' = [reaper EXCEPT !.pc = "docker_stop"]
           ELSE /\ reaper' = [reaper EXCEPT !.pc = "wait"]
                /\ UNCHANGED handle
        /\ UNCHANGED <<projectOf, ctr, roots, rootVars, age, outages>>

DockerStop ==
    LET c == reaper.project
    IN  /\ reaper.pc = "docker_stop"
        /\ Becomes(c, IF ctr[c].state = "running" THEN Stopped(ctr[c].port) ELSE ctr[c])
        /\ reaper' = [reaper EXCEPT !.pc = "wait"]
        /\ UNCHANGED <<projectOf, providerVars, rootVars, age, outages>>

(* The process dies: counts, handles and calls in progress are gone, the   *)
(* containers are not.  A leased turn is requeued and attaches.            *)
SandboxRestart ==
    /\ outages < MaxOutages
    /\ outages' = outages + 1
    /\ roots' = [c \in Projects |-> {}]
    /\ handle' = [c \in Projects |-> 0]
    /\ life' = [r \in Roots |->
          CASE life[r] = "seeding"             -> "dead"
            [] life[r] = "turn"                -> "resuming"
            [] OTHER                           -> life[r]]
    /\ op' = [r \in Roots |-> IF life[r] \in {"turn", "resuming"}
                              THEN Op("attach", "attach", ref[r]) ELSE NoOp]
    /\ reaper' = Patrolling
    /\ UNCHANGED <<projectOf, ctr, ref, age>>

-----------------------------------------------------------------------------
Provision(r) == Allocate(r) \/ ReuseOrBuild(r) \/ PickUnreservedPort(r) \/ Attach(r)
                    \/ RemoveStale(r) \/ DockerRun(r) \/ DockerStart(r)
                    \/ AwaitReady(r) \/ ReadyTimeout(r)
Task(r) == EndTurn(r) \/ Resume(r) \/ Terminate(r)
Releasing(r) == Release(r) \/ ReleaseRemoves(r)
Patrol == (\E c \in Projects : Sweep(c)) \/ ForceRelease \/ ForceRemoves \/ StopIdle
              \/ DockerStop

SandboxNext ==
    \/ \E r \in Roots : Provision(r) \/ Task(r) \/ Releasing(r)
    \/ \E c \in Projects : Tick(c)
    \/ Patrol
    \/ SandboxRestart

SandboxSpec == SandboxInit /\ [][SandboxNext]_sandboxVars

(* The patrol thread keeps ticking and time passes. *)
SandboxFairness == WF_sandboxVars(Patrol) /\ \A c \in Projects : WF_sandboxVars(Tick(c)) /\ SF_sandboxVars(Sweep(c))

SandboxFairSpec == SandboxSpec /\ SandboxFairness

-----------------------------------------------------------------------------
(* Properties *)

(* Every variable has its type. *)
SandboxTypeOK ==
    /\ projectOf \in Layouts
    /\ ctr \in [Projects -> {Absent} \cup [state : {"running", "stopped"}, port : Ports]]
    /\ roots \in [Projects -> SUBSET Roots]
    /\ handle \in [Projects -> Ports \cup {0}]
    /\ ref \in [Roots -> Ports \cup {0}]
    /\ life \in [Roots -> {"new", "seeding", "turn", "rest", "resuming", "ending",
                           "dead"}]
    /\ op \in [Roots -> [pc : {"none", "inspect", "pick", "attach", "rm", "run",
                               "start", "ready", "release_rm"},
                         kind : {"none", "allocate", "attach", "rebuild", "restart",
                                 "release"},
                         port : Ports \cup {0}]]
    /\ age \in [Projects -> {"fresh", "stop", "remove"}]
    /\ reaper \in [pc : {"wait", "force", "force_rm", "stop", "docker_stop"},
                   project : Projects]
    /\ outages \in Nat

Alone(r) == \A q \in Roots \ {r} : projectOf[q] # projectOf[r]

(* The handle of a session that has its project to itself addresses the    *)
(* project's container: whenever that is running, it publishes the port    *)
(* the turn uses (attach: the base_url "inside the ref needs no            *)
(* re-resolution"), over reaps, rebuilds, restarts and timeouts, and with  *)
(* the sessions of other projects competing for the ports.                 *)
RightContainer ==
    \A r \in Roots :
        Alone(r) /\ life[r] = "turn" /\ ctr[projectOf[r]].state = "running"
            => ctr[projectOf[r]].port = ref[r]

(* A project whose sessions rest for good has its container removed: both  *)
(* levels converge, over races with calls, restarts and failed probes.     *)
Reclaimed ==
    RemoveLevel =>
        \A c \in Projects :
            <>[](\A r \in Roots : projectOf[r] = c =>
                    life[r] \in {"rest", "dead"} /\ op[r] = NoOp)
                => []<>(ctr[c] = Absent)

(* Sandboxes are sound: every variable has its type and a turn talks to    *)
(* the container of its own project.                                       *)
SandboxSound == SandboxTypeOK /\ RightContainer
=============================================================================
