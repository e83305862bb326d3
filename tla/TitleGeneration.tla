-------------------------- MODULE TitleGeneration --------------------------
(***************************************************************************)
(* A session's title: the fallback a send writes, the one the user types,  *)
(* and the one a background thread asks a model for at the end of a turn.  *)
(* Each reads the row, thinks, and writes it later.                        *)
(***************************************************************************)
EXTENDS Integers, FiniteSets

CONSTANTS
    Boundaries,  \* threads on which the hub reports a turn's end
    Workers,     \* title threads that may be started
    MaxRestarts  \* bound: process restarts

ASSUME TitleAssumption == MaxRestarts \in Nat

VARIABLES
    exists,     \* the session row
    title,      \* who wrote sessions.title: none, fallback, user or model
    generated,  \* sessions.title_generated
    boundary,   \* per hub thread: where maybe_generate is
    worker,     \* per title thread: where _run is
    send,       \* the send handler: the title it has read
    failed,     \* TitleService._failed
    inFlight,   \* TitleService._in_flight
    failures,   \* auxiliary: generations that failed
    restarts

rowVars == <<exists, title, generated>>
serviceVars == <<failed, inFlight>>
titleVars == <<rowVars, boundary, worker, send, serviceVars, failures, restarts>>

TitleInit ==
    /\ exists = TRUE
    /\ title = "none"
    /\ generated = FALSE
    /\ boundary = [b \in Boundaries |-> "idle"]
    /\ worker = [w \in Workers |-> "unborn"]
    /\ send = "idle"
    /\ failed = FALSE
    /\ inFlight = FALSE
    /\ failures = 0
    /\ restarts = 0

-----------------------------------------------------------------------------
(* maybe_generate: the row is read first ... *)
ReadSession(b) ==
    /\ boundary[b] = "idle"
    /\ exists /\ ~generated
    /\ boundary' = [boundary EXCEPT ![b] = "read"]
    /\ UNCHANGED <<rowVars, worker, send, serviceVars, failures, restarts>>

(* Mutant of Start: a thread that is already at it is not noticed. *)
StartAnyway(b) ==
    /\ boundary[b] = "read"
    /\ boundary' = [boundary EXCEPT ![b] = "idle"]
    /\ IF failed THEN UNCHANGED <<worker, inFlight>>
       ELSE \E w \in Workers :
               /\ worker[w] = "unborn"
               /\ worker' = [worker EXCEPT ![w] = "think"]
               /\ inFlight' = TRUE
    /\ UNCHANGED <<rowVars, send, failed, failures, restarts>>

(* ... then, under the lock, one thread is started unless one is at it or  *)
(* one has failed in this process.                                         *)
Start(b) ==
    /\ boundary[b] = "read"
    /\ boundary' = [boundary EXCEPT ![b] = "idle"]
    /\ IF failed \/ inFlight THEN UNCHANGED <<worker, inFlight>>
       ELSE \E w \in Workers :
               /\ worker[w] = "unborn"
               /\ worker' = [worker EXCEPT ![w] = "think"]
               /\ inFlight' = TRUE
    /\ UNCHANGED <<rowVars, send, failed, failures, restarts>>

(* The model is asked: no usable answer marks the session failed. *)
Generate(w) ==
    /\ worker[w] = "think"
    /\ \/ /\ worker' = [worker EXCEPT ![w] = "answered"]
          /\ UNCHANGED <<failed, failures>>
       \/ /\ worker' = [worker EXCEPT ![w] = "finally"]
          /\ failed' = TRUE
          /\ failures' = failures + 1
    /\ UNCHANGED <<rowVars, boundary, send, inFlight, restarts>>

(* The thread looks whether the session is still there. *)
Recheck(w) ==
    /\ worker[w] = "answered"
    /\ worker' = [worker EXCEPT ![w] = IF exists THEN "save" ELSE "finally"]
    /\ UNCHANGED <<rowVars, boundary, send, serviceVars, failures, restarts>>

(* update_session: title and flag in one statement, nothing on no row. *)
SaveTitle(w) ==
    /\ worker[w] = "save"
    /\ worker' = [worker EXCEPT ![w] = "finally"]
    /\ IF exists THEN title' = "model" /\ generated' = TRUE
       ELSE UNCHANGED <<title, generated>>
    /\ UNCHANGED <<exists, boundary, send, serviceVars, failures, restarts>>

(* Mutant of Finally: an answered thread leaves its slot taken. *)
FinallyKeepsSlot(w) ==
    /\ worker[w] = "finally"
    /\ worker' = [worker EXCEPT ![w] = "done"]
    /\ UNCHANGED <<rowVars, boundary, send, serviceVars, failures, restarts>>

Finally(w) ==
    /\ worker[w] = "finally"
    /\ worker' = [worker EXCEPT ![w] = "done"]
    /\ inFlight' = FALSE
    /\ UNCHANGED <<rowVars, boundary, send, failed, failures, restarts>>

-----------------------------------------------------------------------------
(* send_message reads the row and later labels an untitled session. *)
SendReads ==
    /\ send = "idle"
    /\ exists
    /\ send' = IF title = "none" THEN "untitled" ELSE "idle"
    /\ UNCHANGED <<rowVars, boundary, worker, serviceVars, failures, restarts>>

ApplyFallbackTitle ==
    /\ send = "untitled"
    /\ send' = "idle"
    /\ title' = IF exists THEN "fallback" ELSE title
    /\ UNCHANGED <<exists, generated, boundary, worker, serviceVars, failures, restarts>>

(* A PATCH with a title: hand-typed is final. *)
UserTitle ==
    /\ exists
    /\ title' = "user"
    /\ generated' = TRUE
    /\ UNCHANGED <<exists, boundary, worker, send, serviceVars, failures, restarts>>

TitleSessionDeleted ==
    /\ exists
    /\ exists' = FALSE
    /\ title' = "none"
    /\ UNCHANGED <<generated, boundary, worker, send, serviceVars, failures, restarts>>

(* A restart forgets failures and threads; the row stays. *)
TitleRestart ==
    /\ restarts < MaxRestarts
    /\ restarts' = restarts + 1
    /\ boundary' = [b \in Boundaries |-> "idle"]
    /\ worker' = [w \in Workers |-> IF worker[w] = "unborn" THEN "unborn" ELSE "done"]
    /\ send' = "idle"
    /\ failed' = FALSE
    /\ inFlight' = FALSE
    /\ UNCHANGED <<rowVars, failures>>

-----------------------------------------------------------------------------
Run(w) == Generate(w) \/ Recheck(w) \/ SaveTitle(w) \/ Finally(w)

TitleNext ==
    \/ \E b \in Boundaries : ReadSession(b) \/ Start(b)
    \/ \E w \in Workers : Run(w)
    \/ SendReads \/ ApplyFallbackTitle \/ UserTitle \/ TitleSessionDeleted \/ TitleRestart

TitleSpec == TitleInit /\ [][TitleNext]_titleVars

(* Daemon threads run, and the model call times out if nothing else. *)
TitleFairness == \A w \in Workers : WF_titleVars(Run(w))

TitleFairSpec == TitleSpec /\ TitleFairness

-----------------------------------------------------------------------------
(* Properties *)

TitleBusy == {w \in Workers : worker[w] \notin {"unborn", "done"}}

(* One title thread per session at a time, although turn boundaries are    *)
(* reported on several threads at once.                                    *)
OneAtATime == Cardinality(TitleBusy) <= 1

(* A failed generation is not tried again before the process restarts, not *)
(* even by a boundary that read the row while it was still running.        *)
FailureSticks == failures <= 1 + restarts

(* The slot is given back: a thread in flight ends whatever the model      *)
(* answers, so a later boundary can try again.                             *)
SlotReturned == inFlight ~> ~inFlight

(* The model is asked for titles neither in parallel nor in a loop: one    *)
(* thread at a time, and no retry of a failure before a restart.           *)
NoRetryStorm == OneAtATime /\ FailureSticks
=============================================================================
