------------------------------- MODULE MCHost -------------------------------
(* The host process for TLC: the sandboxes and their reaper, the         *)
(* titles, or the edited file.  One part runs in each behaviour.           *)
EXTENDS SandboxLifecycle, TitleGeneration, FileEditing, TLC

CONSTANTS p1, p2, r1, r2

VARIABLE part

(* Two sessions in projects of their own, and two that share one. *)
SeparateOrShared == {r1 :> p1 @@ r2 :> p2, r1 :> p1 @@ r2 :> p1}

notSandbox == <<titleVars, fileVars>>
notTitle == <<sandboxVars, fileVars>>
notFile == <<sandboxVars, titleVars>>
hostVars == <<sandboxVars, notSandbox, part>>

(* A part that does not run has one initial state. *)
HostInit == /\ part \in {"sandbox", "title", "file"}
            /\ TitleInit /\ FileInit
            /\ SandboxInit /\ (part # "sandbox" => projectOf = r1 :> p1 @@ r2 :> p2)

HostNext == \/ part = "sandbox" /\ SandboxNext /\ UNCHANGED <<notSandbox, part>>
            \/ part = "title" /\ TitleNext /\ UNCHANGED <<notTitle, part>>
            \/ part = "file" /\ FileNext /\ UNCHANGED <<notFile, part>>

(* SandboxFairness and TitleFairness, each in its own part.                *)
HostFairness ==
    /\ WF_sandboxVars(part = "sandbox" /\ Patrol)
    /\ \A c \in Projects : WF_sandboxVars(part = "sandbox" /\ Tick(c))
                           /\ SF_sandboxVars(part = "sandbox" /\ Sweep(c))
    /\ \A w \in Workers : WF_titleVars(part = "title" /\ Run(w))

HostSpec == HostInit /\ [][HostNext]_hostVars /\ HostFairness
=============================================================================
