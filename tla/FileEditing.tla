----------------------------- MODULE FileEditing -----------------------------
(***************************************************************************)
(* One workspace file, written by the agent and saved through the API: the *)
(* read takes the modification time and the bytes in two steps, the save   *)
(* checks the time and replaces the file in two more, and answers with a   *)
(* read of its own.  Every write makes a version with a time of its own.   *)
(***************************************************************************)
EXTENDS Integers, FiniteSets

CONSTANTS
    Editors,        \* clients of the file API
    MaxVersion      \* bound: writes of the file

VARIABLES
    file,           \* the version in the file; 0 when there is none
    versions,       \* versions written so far
    hand,           \* each client's copy: its modification time and its bytes
    call,           \* each client's request and how far the server is with it
    unseen          \* ghost: versions a save replaced though complete before its check

fileVars == <<file, versions, hand, call, unseen>>

NoCall == [at |-> "none", mtime |-> 0, body |-> 0, tracked |-> FALSE, behind |-> 0]

Write == versions < MaxVersion /\ versions' = versions + 1 /\ file' = versions + 1

AgentWrites == Write /\ UNCHANGED <<hand, call, unseen>>

AgentDeletes ==
    /\ file # 0 /\ file' = 0 /\ UNCHANGED <<versions, hand, call, unseen>>

-----------------------------------------------------------------------------
(* GET /files/content *)

Open(e) ==
    /\ call[e].at = "none" /\ file # 0
    /\ call' = [call EXCEPT ![e] = [NoCall EXCEPT !.at = "stat"]]
    /\ UNCHANGED <<file, versions, hand, unseen>>

(* Mutant of ReadStat: the bytes are read before the time is. *)
ReadStatLast(e) ==
    /\ call[e].at = "stat" /\ file # 0
    /\ call' = [call EXCEPT ![e].at = "bytes", ![e].body = file]
    /\ UNCHANGED <<file, versions, hand, unseen>>

(* read_text: the time first. *)
ReadStat(e) ==
    /\ call[e].at = "stat" /\ file # 0
    /\ call' = [call EXCEPT ![e].at = "bytes", ![e].mtime = file]
    /\ UNCHANGED <<file, versions, hand, unseen>>

ReadBytes(e) ==
    LET time == IF call[e].mtime = 0 THEN file ELSE call[e].mtime
        bytes == IF call[e].body = 0 THEN file ELSE call[e].body
    IN  /\ call[e].at = "bytes" /\ file # 0
        /\ hand' = [hand EXCEPT ![e] = [mtime |-> time, body |-> bytes]]
        /\ call' = [call EXCEPT ![e] = NoCall]
        /\ UNCHANGED <<file, versions, unseen>>

(* The file is gone in the middle of the read: an error. *)
ReadFails(e) ==
    /\ call[e].at \in {"stat", "bytes"} /\ file = 0
    /\ call' = [call EXCEPT ![e] = NoCall]
    /\ UNCHANGED <<file, versions, hand, unseen>>

-----------------------------------------------------------------------------
(* PUT /files/content: with the time of the client's copy, or with none when *)
(* it does not track versions.                                               *)

Save(e, tracked) ==
    /\ call[e].at = "none"
    /\ tracked => hand[e].mtime # 0
    /\ call' = [call EXCEPT ![e] = [NoCall EXCEPT !.at = "check", !.tracked = tracked,
                                                  !.mtime = hand[e].mtime, !.body = hand[e].body]]
    /\ UNCHANGED <<file, versions, hand, unseen>>

(* write_text's check: no file, or no time to compare, is no conflict. *)
WriteCheck(e) ==
    /\ call[e].at = "check"
    /\ call' = [call EXCEPT ![e].at = IF file # 0 /\ call[e].tracked /\ file # call[e].mtime
                                      THEN "conflict" ELSE "replace",
                            ![e].behind = file]
    /\ UNCHANGED <<file, versions, hand, unseen>>

(* The answer is a conflict, which carries the time of what is there now. *)
Conflict(e) ==
    /\ call[e].at = "conflict" /\ call' = [call EXCEPT ![e] = NoCall]
    /\ UNCHANGED <<file, versions, hand, unseen>>

(* The replacement, and the read whose answer is the client's next copy. *)
WriteReplace(e) ==
    /\ call[e].at = "replace" /\ Write
    /\ unseen' = IF /\ call[e].tracked /\ call[e].behind # 0
                    /\ file = call[e].behind /\ file # call[e].body
                 THEN unseen \cup {file} ELSE unseen
    /\ call' = [call EXCEPT ![e] = [NoCall EXCEPT !.at = "stat"]]
    /\ UNCHANGED hand

FileInit ==
    /\ file = 1 /\ versions = 1 /\ unseen = {}
    /\ hand = [e \in Editors |-> [mtime |-> 0, body |-> 0]]
    /\ call = [e \in Editors |-> NoCall]

FileNext ==
    \/ AgentWrites \/ AgentDeletes
    \/ \E e \in Editors : \/ Open(e) \/ ReadStat(e) \/ ReadBytes(e) \/ ReadFails(e)
                          \/ Save(e, TRUE) \/ Save(e, FALSE)
                          \/ WriteCheck(e) \/ Conflict(e) \/ WriteReplace(e)

FileSpec == FileInit /\ [][FileNext]_fileVars

-----------------------------------------------------------------------------
(* A save with a version replaces only what its author had read, unless it   *)
(* was written between the check and the replacement: no interleaving of     *)
(* reads, saves and the agent's writes hands out a time newer than the bytes *)
(* it came with (read_text and write_text).                                  *)
NothingUnseenReplaced == unseen = {}
=============================================================================
