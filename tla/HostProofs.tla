----------------------------- MODULE HostProofs -----------------------------
(***************************************************************************)
(* Proofs about three services of the host: the title threads of a session *)
(* (TitleGeneration), for every number of turn boundaries, threads and     *)
(* restarts; the editing of a workspace file (FileEditing), for every      *)
(* number of clients and writes; and the sandboxes (SandboxLifecycle): for *)
(* every number of projects, root tasks and ports, every spread of the     *)
(* sessions over the projects, either reaper level on or off and any       *)
(* number of failed probes and process deaths, the handle of a session     *)
(* that has its project to itself addresses the project's container.       *)
(***************************************************************************)
EXTENDS TitleGeneration, FileEditing, SandboxLifecycle, FiniteSetTheorems, TLAPS

-----------------------------------------------------------------------------
(* Titles: the slot is taken while a thread is at it, so there is one; and *)
(* a thread that still may fail was started when none had failed.          *)

TitleTypeOK ==
    /\ boundary \in [Boundaries -> {"idle", "read"}]
    /\ worker \in [Workers -> {"unborn", "think", "answered", "save", "finally", "done"}]
    /\ failed \in BOOLEAN /\ inFlight \in BOOLEAN
    /\ failures \in Nat /\ restarts \in Nat

OneSlot ==
    /\ \A w \in TitleBusy : inFlight
    /\ \A v, w \in TitleBusy : v = w

Counted ==
    /\ \A w \in Workers : worker[w] = "think" => ~failed
    /\ failures <= restarts + (IF failed THEN 1 ELSE 0)

TitleInv == TitleTypeOK /\ OneSlot /\ Counted

-----------------------------------------------------------------------------
(* Files: the file is the newest version or absent, and the time of a copy *)
(* is never newer than its bytes.  So a save that finds the time it knows  *)
(* in the file knows the bytes as well.                                    *)

Calls == [at : {"none", "stat", "bytes", "check", "conflict", "replace"}, mtime : Nat,
          body : Nat, tracked : BOOLEAN, behind : Nat]

FileTypeOK ==
    /\ file \in Nat /\ versions \in Nat
    /\ hand \in [Editors -> [mtime : Nat, body : Nat]]
    /\ call \in [Editors -> Calls]

Newest == file \in {0, versions}

Copies == \A e \in Editors : hand[e].mtime <= hand[e].body /\ hand[e].body <= versions

InCall ==
    \A e \in Editors :
        LET c == call[e]
        IN  /\ c.at = "stat" => c.body = 0 /\ c.mtime = 0
            /\ c.at = "bytes" => c.body = 0 /\ c.mtime # 0 /\ c.mtime <= versions
            /\ c.at \in {"check", "replace"} => c.mtime <= c.body /\ c.body <= versions
            /\ c.at = "replace" /\ c.tracked /\ c.behind # 0 => c.behind = c.body

FileInv == FileTypeOK /\ Newest /\ Copies /\ InCall /\ NothingUnseenReplaced

-----------------------------------------------------------------------------
LEMMA TitleInitially == TitleInit => TitleInv
<1> SUFFICES ASSUME TitleInit PROVE TitleInv
    OBVIOUS
<1> USE DEF TitleInit
<1>1. TitleTypeOK
    BY DEF TitleTypeOK
<1>2. OneSlot
    BY DEF OneSlot, TitleBusy
<1>3. Counted
    BY DEF Counted
<1> QED
    BY <1>1, <1>2, <1>3 DEF TitleInv

LEMMA TitleTypeStep == TitleInv /\ [TitleNext]_titleVars => TitleTypeOK'
<1> SUFFICES ASSUME TitleInv, [TitleNext]_titleVars PROVE TitleTypeOK'
    OBVIOUS
<1> USE DEF TitleInv, TitleTypeOK, rowVars, serviceVars
<1>1. ASSUME NEW b \in Boundaries, ReadSession(b) PROVE TitleTypeOK'
    BY <1>1 DEF ReadSession
<1>2. ASSUME NEW b \in Boundaries, Start(b) PROVE TitleTypeOK'
    BY <1>2 DEF Start
<1>3. ASSUME NEW w \in Workers, Generate(w) PROVE TitleTypeOK'
  <2>1. worker' \in [Workers -> {"unborn", "think", "answered", "save", "finally", "done"}]
      BY <1>3 DEF Generate
  <2>2. CASE UNCHANGED <<failed, failures>>
      BY <1>3, <2>1, <2>2 DEF Generate
  <2>3. CASE failed' = TRUE /\ failures' = failures + 1
    <3>1. failed' \in BOOLEAN
        BY <2>3
    <3>2. failures' \in Nat
        BY <2>3
    <3> QED
        BY <1>3, <2>1, <3>1, <3>2 DEF Generate
  <2> QED
      BY <1>3, <2>2, <2>3 DEF Generate
<1>4. ASSUME NEW w \in Workers, Recheck(w) PROVE TitleTypeOK'
    BY <1>4 DEF Recheck
<1>5. ASSUME NEW w \in Workers, SaveTitle(w) PROVE TitleTypeOK'
    BY <1>5 DEF SaveTitle
<1>6. ASSUME NEW w \in Workers, Finally(w) PROVE TitleTypeOK'
    BY <1>6 DEF Finally
<1>7. ASSUME SendReads \/ ApplyFallbackTitle \/ UserTitle \/ TitleSessionDeleted
      PROVE  TitleTypeOK'
    BY <1>7 DEF SendReads, ApplyFallbackTitle, UserTitle, TitleSessionDeleted
<1>8. ASSUME TitleRestart PROVE TitleTypeOK'
  <2>1. worker' \in [Workers -> {"unborn", "think", "answered", "save", "finally", "done"}]
      BY <1>8 DEF TitleRestart
  <2>2. restarts' \in Nat
      BY <1>8 DEF TitleRestart
  <2>3. boundary' \in [Boundaries -> {"idle", "read"}]
      BY <1>8 DEF TitleRestart
  <2> QED
      BY <1>8, <2>1, <2>2, <2>3 DEF TitleRestart
<1>9. ASSUME UNCHANGED titleVars PROVE TitleTypeOK'
    BY <1>9 DEF titleVars
<1> QED
    BY <1>1, <1>2, <1>3, <1>4, <1>5, <1>6, <1>7, <1>8, <1>9 DEF TitleNext, Run

(* A thread that goes on, or is done, leaves the others where they are. *)
LEMMA TitleSlotStep == TitleInv /\ [TitleNext]_titleVars => OneSlot'
<1> SUFFICES ASSUME TitleInv, [TitleNext]_titleVars PROVE OneSlot'
    OBVIOUS
<1> USE DEF TitleInv, TitleTypeOK, OneSlot, TitleBusy, rowVars, serviceVars
<1>1. ASSUME NEW b \in Boundaries, ReadSession(b) PROVE OneSlot'
    BY <1>1 DEF ReadSession
<1>2. ASSUME NEW b \in Boundaries, Start(b) PROVE OneSlot'
  <2>1. CASE failed \/ inFlight
      BY <1>2, <2>1 DEF Start
  <2>2. CASE ~(failed \/ inFlight)
    <3>1. PICK w \in Workers : worker[w] = "unborn"
                               /\ worker' = [worker EXCEPT ![w] = "think"] /\ inFlight' = TRUE
        BY <1>2, <2>2 DEF Start
    <3>2. \A v \in Workers : v # w => worker'[v] \in {"unborn", "done"}
        BY <3>1, <2>2
    <3> QED
        BY <3>1, <3>2
  <2> QED
      BY <2>1, <2>2
<1>3. ASSUME NEW w \in Workers, Generate(w) PROVE OneSlot'
    BY <1>3 DEF Generate
<1>4. ASSUME NEW w \in Workers, Recheck(w) PROVE OneSlot'
    BY <1>4 DEF Recheck
<1>5. ASSUME NEW w \in Workers, SaveTitle(w) PROVE OneSlot'
    BY <1>5 DEF SaveTitle
<1>6. ASSUME NEW w \in Workers, Finally(w) PROVE OneSlot'
  <2>1. \A v \in Workers : worker'[v] \in {"unborn", "done"}
      BY <1>6 DEF Finally
  <2> QED
      BY <2>1
<1>7. ASSUME SendReads \/ ApplyFallbackTitle \/ UserTitle \/ TitleSessionDeleted
      PROVE  OneSlot'
    BY <1>7 DEF SendReads, ApplyFallbackTitle, UserTitle, TitleSessionDeleted
<1>8. ASSUME TitleRestart PROVE OneSlot'
  <2>1. \A v \in Workers : worker'[v] \in {"unborn", "done"}
      BY <1>8 DEF TitleRestart
  <2> QED
      BY <2>1
<1>9. ASSUME UNCHANGED titleVars PROVE OneSlot'
    BY <1>9 DEF titleVars
<1> QED
    BY <1>1, <1>2, <1>3, <1>4, <1>5, <1>6, <1>7, <1>8, <1>9 DEF TitleNext, Run

LEMMA TitleCountStep == TitleInv /\ [TitleNext]_titleVars => Counted'
<1> SUFFICES ASSUME TitleInv, [TitleNext]_titleVars PROVE Counted'
    OBVIOUS
<1> USE DEF TitleInv, TitleTypeOK, Counted, rowVars, serviceVars
<1>1. ASSUME NEW b \in Boundaries, ReadSession(b) PROVE Counted'
    BY <1>1 DEF ReadSession
<1>2. ASSUME NEW b \in Boundaries, Start(b) PROVE Counted'
    BY <1>2 DEF Start
<1>3. ASSUME NEW w \in Workers, Generate(w) PROVE Counted'
  <2>1. CASE worker' = [worker EXCEPT ![w] = "answered"] /\ UNCHANGED <<failed, failures>>
      BY <1>3, <2>1 DEF Generate
  <2>2. CASE worker' = [worker EXCEPT ![w] = "finally"] /\ failed' = TRUE
             /\ failures' = failures + 1
    <3>1. ~failed
        BY <1>3 DEF Generate
    <3>2. \A v \in Workers : worker'[v] # "think"
        BY <1>3, <2>2 DEF Generate, OneSlot, TitleBusy
    <3>3. failures' <= restarts' + 1
        BY <1>3, <2>2, <3>1 DEF Generate
    <3> QED
        BY <3>2, <3>3, <2>2
  <2> QED
      BY <1>3, <2>1, <2>2 DEF Generate
<1>4. ASSUME NEW w \in Workers, Recheck(w) PROVE Counted'
    BY <1>4 DEF Recheck
<1>5. ASSUME NEW w \in Workers, SaveTitle(w) PROVE Counted'
    BY <1>5 DEF SaveTitle
<1>6. ASSUME NEW w \in Workers, Finally(w) PROVE Counted'
    BY <1>6 DEF Finally
<1>7. ASSUME SendReads \/ ApplyFallbackTitle \/ UserTitle \/ TitleSessionDeleted
      PROVE  Counted'
    BY <1>7 DEF SendReads, ApplyFallbackTitle, UserTitle, TitleSessionDeleted
<1>8. ASSUME TitleRestart PROVE Counted'
  <2>1. failures' <= restarts' /\ failed' = FALSE
      BY <1>8 DEF TitleRestart
  <2>2. \A w \in Workers : worker'[w] # "think"
      BY <1>8 DEF TitleRestart
  <2> QED
      BY <1>8, <2>1, <2>2 DEF TitleRestart
<1>9. ASSUME UNCHANGED titleVars PROVE Counted'
    BY <1>9 DEF titleVars
<1> QED
    BY <1>1, <1>2, <1>3, <1>4, <1>5, <1>6, <1>7, <1>8, <1>9 DEF TitleNext, Run

LEMMA TitleSafe == TitleInv => NoRetryStorm
<1> SUFFICES ASSUME TitleInv PROVE NoRetryStorm
    OBVIOUS
<1>1. Cardinality(TitleBusy) <= 1
  <2>1. CASE TitleBusy = {}
      BY <2>1, FS_EmptySet
  <2>2. CASE TitleBusy # {}
    <3>1. PICK w : w \in TitleBusy
        BY <2>2
    <3>2. TitleBusy = {w}
        BY <3>1 DEF TitleInv, OneSlot
    <3>3. Cardinality({w}) = 1
        BY FS_Singleton
    <3> QED
        BY <3>2, <3>3
  <2> QED
      BY <2>1, <2>2
<1>2. failures <= 1 + restarts
    BY DEF TitleInv, TitleTypeOK, Counted
<1> QED
    BY <1>1, <1>2 DEF NoRetryStorm, OneAtATime, FailureSticks

(* A model is asked for a session's title by one thread at a time and is   *)
(* not asked again after a failure until the process restarts, whatever    *)
(* boundaries report the turn's end at once (TitleService.maybe_generate   *)
(* and _run).                                                              *)
THEOREM NoTitleStorm == TitleSpec => []NoRetryStorm
<1>1. TitleInit => TitleInv
    BY TitleInitially
<1>2. TitleInv /\ [TitleNext]_titleVars => TitleInv'
    BY TitleTypeStep, TitleSlotStep, TitleCountStep DEF TitleInv
<1>3. TitleInv => NoRetryStorm
    BY TitleSafe
<1> QED
    BY <1>1, <1>2, <1>3, PTL DEF TitleSpec

-----------------------------------------------------------------------------
LEMMA FileInitially == FileInit => FileInv
<1> SUFFICES ASSUME FileInit PROVE FileInv
    OBVIOUS
<1> USE DEF FileInit, NoCall
<1>1. NoCall \in Calls
    BY DEF Calls
<1>2. FileTypeOK
    BY <1>1 DEF FileTypeOK
<1>3. Newest /\ Copies /\ NothingUnseenReplaced
    BY DEF Newest, Copies, NothingUnseenReplaced
<1>4. InCall
    BY DEF InCall
<1> QED
    BY <1>2, <1>3, <1>4 DEF FileInv

(* Each step of a request leaves the request of its client in a known form. *)
LEMMA FileTypeStep == FileInv /\ [FileNext]_fileVars => FileTypeOK'
<1> SUFFICES ASSUME FileInv, [FileNext]_fileVars PROVE FileTypeOK'
    OBVIOUS
<1> USE DEF FileInv, FileTypeOK
<1>0. NoCall \in Calls
    BY DEF Calls, NoCall
<1>1. CASE AgentWrites \/ AgentDeletes
    BY <1>1 DEF AgentWrites, AgentDeletes, Write
<1>2. ASSUME NEW e \in Editors,
             \/ Open(e) \/ ReadStat(e) \/ ReadBytes(e) \/ ReadFails(e) \/ Save(e, TRUE)
             \/ Save(e, FALSE) \/ WriteCheck(e) \/ Conflict(e) \/ WriteReplace(e)
      PROVE  FileTypeOK'
  <2>1. call[e] \in Calls /\ hand[e] \in [mtime : Nat, body : Nat]
      OBVIOUS
  <2>2. CASE Open(e)
    <3>1. [NoCall EXCEPT !.at = "stat"] \in Calls
        BY DEF NoCall, Calls
    <3> QED
        BY <2>2, <3>1 DEF Open
  <2>3. CASE ReadStat(e)
    <3>1. [call[e] EXCEPT !.at = "bytes", !.mtime = file] \in Calls
        BY <2>1 DEF Calls
    <3>2. call' = [call EXCEPT ![e] = [call[e] EXCEPT !.at = "bytes", !.mtime = file]]
        BY <2>3 DEF ReadStat
    <3> QED
        BY <2>3, <3>1, <3>2 DEF ReadStat
  <2>4. CASE ReadBytes(e)
    <3> DEFINE copy == [mtime |-> IF call[e].mtime = 0 THEN file ELSE call[e].mtime,
                        body |-> IF call[e].body = 0 THEN file ELSE call[e].body]
    <3>1. copy \in [mtime : Nat, body : Nat]
        BY <2>1 DEF Calls
    <3>2. hand' = [hand EXCEPT ![e] = copy]
        BY <2>4 DEF ReadBytes
    <3> HIDE DEF copy
    <3> QED
        BY <2>4, <1>0, <3>1, <3>2 DEF ReadBytes
  <2>5. CASE ReadFails(e) \/ Conflict(e)
      BY <2>5, <1>0 DEF ReadFails, Conflict
  <2>6. ASSUME NEW tracked \in BOOLEAN, Save(e, tracked) PROVE FileTypeOK'
    <3>1. [NoCall EXCEPT !.at = "check", !.tracked = tracked, !.mtime = hand[e].mtime,
                         !.body = hand[e].body] \in Calls
        BY <2>1 DEF NoCall, Calls
    <3> QED
        BY <2>6, <3>1 DEF Save
  <2>7. CASE WriteCheck(e)
    <3> DEFINE next == IF file # 0 /\ call[e].tracked /\ file # call[e].mtime
                       THEN "conflict" ELSE "replace"
    <3>1. call' = [call EXCEPT ![e] = [call[e] EXCEPT !.at = next, !.behind = file]]
        BY <2>7 DEF WriteCheck
    <3>2. next \in {"conflict", "replace"}
        OBVIOUS
    <3> HIDE DEF next
    <3>3. [call[e] EXCEPT !.at = next, !.behind = file] \in Calls
        BY <2>1, <3>2 DEF Calls
    <3> QED
        BY <2>7, <3>1, <3>3 DEF WriteCheck
  <2>8. CASE WriteReplace(e)
    <3>1. [NoCall EXCEPT !.at = "stat"] \in Calls
        BY DEF NoCall, Calls
    <3> QED
        BY <2>8, <3>1 DEF WriteReplace, Write
  <2> QED
      BY <1>2, <2>2, <2>3, <2>4, <2>5, <2>6, <2>7, <2>8
<1>3. CASE UNCHANGED fileVars
    BY <1>3 DEF fileVars
<1> QED
    BY <1>1, <1>2, <1>3 DEF FileNext

LEMMA FileCopiesStep == FileInv /\ [FileNext]_fileVars => Newest' /\ Copies'
<1> SUFFICES ASSUME FileInv, [FileNext]_fileVars PROVE Newest' /\ Copies'
    OBVIOUS
<1> USE DEF FileInv, FileTypeOK, Newest, Copies
<1>1. CASE AgentWrites \/ AgentDeletes
    BY <1>1 DEF AgentWrites, AgentDeletes, Write
<1>2. ASSUME NEW e \in Editors, ReadBytes(e) PROVE Newest' /\ Copies'
  <2>1. call[e] \in Calls /\ call[e].at = "bytes"
      BY <1>2 DEF ReadBytes
  <2>2. call[e].body = 0 /\ call[e].mtime # 0 /\ call[e].mtime <= versions
      BY <2>1 DEF InCall
  <2>3. file # 0 /\ file = versions
      BY <1>2 DEF ReadBytes
  <2>4. hand' = [hand EXCEPT ![e] = [mtime |-> call[e].mtime, body |-> file]]
      BY <1>2, <2>2 DEF ReadBytes
  <2>5. versions' = versions /\ file' = file
      BY <1>2 DEF ReadBytes
  <2>6. \A f \in Editors : hand'[f].mtime <= hand'[f].body /\ hand'[f].body <= versions
      BY <2>2, <2>3, <2>4
  <2> QED
      BY <2>5, <2>6
<1>3. ASSUME NEW e \in Editors,
             \/ Open(e) \/ ReadStat(e) \/ ReadFails(e) \/ Save(e, TRUE)
             \/ Save(e, FALSE) \/ WriteCheck(e) \/ Conflict(e)
      PROVE  Newest' /\ Copies'
    BY <1>3 DEF Open, ReadStat, ReadFails, Save, WriteCheck, Conflict
<1>4. ASSUME NEW e \in Editors, WriteReplace(e) PROVE Newest' /\ Copies'
    BY <1>4 DEF WriteReplace, Write
<1>5. CASE UNCHANGED fileVars
    BY <1>5 DEF fileVars
<1> QED
    BY <1>1, <1>2, <1>3, <1>4, <1>5 DEF FileNext

LEMMA FileCallsStep == FileInv /\ [FileNext]_fileVars => InCall'
<1> SUFFICES ASSUME FileInv, [FileNext]_fileVars PROVE InCall'
    OBVIOUS
<1> USE DEF FileInv, FileTypeOK, InCall
<1>0. \A e \in Editors : call[e] \in Calls /\ hand[e] \in [mtime : Nat, body : Nat]
    OBVIOUS
<1>00. versions \in Nat /\ versions' \in Nat /\ versions <= versions'
  <2> DEFINE Grows == versions' = versions \/ versions' = versions + 1
  <2>1. ASSUME NEW e \in Editors, WriteReplace(e) PROVE Grows
      BY <2>1 DEF WriteReplace, Write
  <2>2. ASSUME NEW e \in Editors, Open(e) \/ ReadStat(e) \/ ReadBytes(e) \/ ReadFails(e)
        PROVE  Grows
      BY <2>2 DEF Open, ReadStat, ReadBytes, ReadFails
  <2>3. ASSUME NEW e \in Editors,
               Save(e, TRUE) \/ Save(e, FALSE) \/ WriteCheck(e) \/ Conflict(e)
        PROVE  Grows
      BY <2>3 DEF Save, WriteCheck, Conflict
  <2>4. versions \in Nat
      OBVIOUS
  <2> HIDE DEF FileInv, FileTypeOK, InCall
  <2>5. AgentWrites => Grows
      BY DEF AgentWrites, Write
  <2>6. AgentDeletes \/ UNCHANGED fileVars => Grows
      BY DEF AgentDeletes, fileVars
  <2> HIDE DEF Grows
  <2>7. Grows
      BY <2>1, <2>2, <2>3, <2>5, <2>6 DEF FileNext
  <2> QED
      BY <2>4, <2>7 DEF Grows
<1>1. CASE AgentWrites \/ AgentDeletes
    BY <1>0, <1>00, <1>1 DEF AgentWrites, AgentDeletes, Calls
(* A request that ends, and one that starts to read. *)
<1>2. ASSUME NEW e \in Editors, NEW o \in {"none", "stat"},
             call' = [call EXCEPT ![e] = [NoCall EXCEPT !.at = o]]
      PROVE  InCall'
    BY <1>0, <1>00, <1>2 DEF NoCall, Calls
<1>3. ASSUME NEW e \in Editors, Open(e) \/ WriteReplace(e) PROVE InCall'
    BY <1>2, <1>3 DEF Open, WriteReplace
<1>4. ASSUME NEW e \in Editors, ReadBytes(e) \/ ReadFails(e) \/ Conflict(e) PROVE InCall'
  <2>1. NoCall = [NoCall EXCEPT !.at = "none"]
      BY DEF NoCall
  <2>2. call' = [call EXCEPT ![e] = NoCall]
      BY <1>4 DEF ReadBytes, ReadFails, Conflict
  <2> QED
      BY <1>2, <2>1, <2>2
<1>5. ASSUME NEW e \in Editors, ReadStat(e) PROVE InCall'
  <2>1. call[e].at = "stat" /\ file # 0 /\ versions' = versions
        /\ call' = [call EXCEPT ![e].at = "bytes", ![e].mtime = file]
      BY <1>5 DEF ReadStat
  <2>2. file = versions /\ call[e].body = 0
      BY <2>1 DEF Newest
  <2>3. call'[e].at = "bytes" /\ call'[e].mtime = file /\ call'[e].body = 0
      BY <1>0, <2>1, <2>2 DEF Calls
  <2>4. \A f \in Editors : f # e => call'[f] = call[f]
      BY <2>1
  <2> QED
      BY <1>0, <2>1, <2>2, <2>3, <2>4 DEF Calls
<1>6. ASSUME NEW e \in Editors, NEW tracked \in BOOLEAN, Save(e, tracked) PROVE InCall'
  <2>1. versions' = versions /\ \A f \in Editors : f # e => call'[f] = call[f]
      BY <1>6 DEF Save
  <2>2. call'[e].at = "check" /\ call'[e].mtime = hand[e].mtime /\ call'[e].body = hand[e].body
      BY <1>6 DEF Save, NoCall
  <2> QED
      BY <1>0, <2>1, <2>2 DEF Copies
<1>7. ASSUME NEW e \in Editors, WriteCheck(e) PROVE InCall'
  <2> DEFINE next == IF file # 0 /\ call[e].tracked /\ file # call[e].mtime
                     THEN "conflict" ELSE "replace"
  <2>1. call' = [call EXCEPT ![e] = [call[e] EXCEPT !.at = next, !.behind = file]]
      BY <1>7 DEF WriteCheck
  <2>2. versions' = versions /\ call[e].at = "check"
        /\ \A f \in Editors : f # e => call'[f] = call[f]
      BY <1>7, <2>1 DEF WriteCheck
  <2>3. call'[e].at = next /\ call'[e].behind = file /\ call'[e].mtime = call[e].mtime
        /\ call'[e].body = call[e].body /\ call'[e].tracked = call[e].tracked
      BY <1>0, <2>1 DEF Calls
  <2>4. call[e].mtime <= call[e].body /\ call[e].body <= versions
      BY <2>2
  <2>5. next \in {"conflict", "replace"}
      OBVIOUS
  <2>6. next = "replace" /\ call[e].tracked /\ file # 0 => file = call[e].body
    <3> SUFFICES ASSUME next = "replace", call[e].tracked, file # 0 PROVE file = call[e].body
        OBVIOUS
    <3>1. file = call[e].mtime /\ file = versions
        BY DEF Newest
    <3>2. call[e].mtime \in Nat /\ call[e].body \in Nat
        BY <1>0 DEF Calls
    <3>3. versions \in Nat
        OBVIOUS
    <3> HIDE DEF next, FileInv, FileTypeOK, InCall
    <3> QED
        BY <3>1, <3>2, <3>3, <2>4
  <2> HIDE DEF next
  <2> QED
      BY <1>0, <2>2, <2>3, <2>4, <2>5, <2>6
<1>8. CASE UNCHANGED fileVars
    BY <1>8 DEF fileVars
<1> QED
    BY <1>1, <1>3, <1>4, <1>5, <1>6, <1>7, <1>8 DEF FileNext

LEMMA FileSafeStep == FileInv /\ [FileNext]_fileVars => NothingUnseenReplaced'
<1> SUFFICES ASSUME FileInv, [FileNext]_fileVars PROVE NothingUnseenReplaced'
    OBVIOUS
<1> USE DEF FileInv, NothingUnseenReplaced
<1>1. ASSUME NEW e \in Editors, WriteReplace(e) PROVE NothingUnseenReplaced'
    BY <1>1 DEF WriteReplace, InCall
<1>2. CASE UNCHANGED unseen
    BY <1>2
<1> QED
    BY <1>1, <1>2 DEF FileNext, AgentWrites, AgentDeletes, Open, ReadStat, ReadBytes, ReadFails,
       Save, WriteCheck, Conflict, fileVars

(* A save that carries the time of its author's copy replaces only bytes   *)
(* the author had read, unless they were written between the check and the *)
(* replacement (read_text takes the time before the bytes, write_text      *)
(* compares it), for any number of clients and writes.                     *)
THEOREM NoEditLost == FileSpec => []NothingUnseenReplaced
<1>1. FileInit => FileInv
    BY FileInitially
<1>2. FileInv /\ [FileNext]_fileVars => FileInv'
    BY FileTypeStep, FileCopiesStep, FileCallsStep, FileSafeStep DEF FileInv
<1>3. FileInv => NothingUnseenReplaced
    BY DEF FileInv
<1> QED
    BY <1>1, <1>2, <1>3, PTL DEF FileSpec
-----------------------------------------------------------------------------
(* Sandboxes: nobody but the lone root builds a container of its project,  *)
(* and it does so twice, once at a port it then records as its ref, and    *)
(* afterwards at that ref only.  The reaper and the timeouts stop and      *)
(* remove, and docker start keeps the port; so whatever container there is *)
(* has the port.                                                           *)

(* What the calls of a root are about, by where it is in its life. *)
InLife(r) ==
    LET c == projectOf[r]
        o == op[r]
    IN  /\ life[r] = "new" => o = NoOp /\ ref[r] = 0 /\ ctr[c] = Absent /\ handle[c] = 0
        /\ life[r] = "seeding" =>
              /\ ref[r] = 0 /\ o.kind = "allocate"
              /\ o.pc \in {"inspect", "pick", "rm", "run", "ready"}
              /\ o.pc = "inspect" => o.port = 0 /\ ctr[c] = Absent
              /\ o.pc \notin {"inspect", "pick"} => o.port # 0
              /\ o.pc = "ready" => ctr[c] = Absent \/ ctr[c].port = o.port
        /\ life[r] = "resuming" =>
              /\ o.kind \in {"attach", "rebuild", "restart"} /\ o.port = ref[r]
              /\ o.pc \in {"attach", "rm", "run", "start", "ready"}
        /\ life[r] \in {"turn", "rest"} => o = NoOp
        /\ life[r] \in {"ending", "dead"} => o.pc \in {"none", "release_rm"}
        /\ life[r] \in {"turn", "rest", "resuming"} =>
              ref[r] # 0 /\ (ctr[c] = Absent \/ ctr[c].port = ref[r])

Lone == \A r \in Roots : Alone(r) => InLife(r)

(* A call that publishes or records a port has one. *)
PortInCall(r) ==
    /\ op[r].pc \in {"rm", "run", "start", "ready"} => op[r].port # 0
    /\ op[r].pc = "attach" \/ life[r] \in {"turn", "resuming"} => ref[r] # 0

Ported == \A r \in Roots : PortInCall(r)

SandboxInv == SandboxTypeOK /\ Ported /\ Lone

Ops == [pc : {"none", "inspect", "pick", "attach", "rm", "run", "start", "ready", "release_rm"},
        kind : {"none", "allocate", "attach", "rebuild", "restart", "release"},
        port : Ports \cup {0}]

Containers == {Absent} \cup [state : {"running", "stopped"}, port : Ports]

(* The part of the type invariant that a root's own call changes. *)
RootTyped ==
    /\ ref \in [Roots -> Ports \cup {0}]
    /\ life \in [Roots -> {"new", "seeding", "turn", "rest", "resuming", "ending", "dead"}]
    /\ op \in [Roots -> Ops]
    /\ age \in [Projects -> {"fresh", "stop", "remove"}]

-----------------------------------------------------------------------------
(* Types of what the calls make *)

LEMMA Typed == SandboxTypeOK <=>
    /\ RootTyped
    /\ projectOf \in Layouts
    /\ ctr \in [Projects -> Containers]
    /\ roots \in [Projects -> SUBSET Roots]
    /\ handle \in [Projects -> Ports \cup {0}]
    /\ reaper \in [pc : {"wait", "force", "force_rm", "stop", "docker_stop"}, project : Projects]
    /\ outages \in Nat
BY DEF SandboxTypeOK, RootTyped, Ops, Containers

LEMMA TypedNext == SandboxTypeOK' <=>
    /\ RootTyped'
    /\ projectOf' \in Layouts
    /\ ctr' \in [Projects -> Containers]
    /\ roots' \in [Projects -> SUBSET Roots]
    /\ handle' \in [Projects -> Ports \cup {0}]
    /\ reaper' \in [pc : {"wait", "force", "force_rm", "stop", "docker_stop"}, project : Projects]
    /\ outages' \in Nat
BY DEF SandboxTypeOK, RootTyped, Ops, Containers

LEMMA Publishes == \A p \in Ports : Running(p) \in Containers /\ Stopped(p) \in Containers
BY DEF Running, Stopped, Containers

LEMMA PortsOfContainers ==
    ASSUME NEW s \in Containers, s # Absent \/ s.state # "absent"
    PROVE  s.port \in Ports /\ s.port # 0 /\ s.state \in {"running", "stopped"}
BY SandboxAssumption DEF Containers, Absent

LEMMA Answers ==
    ASSUME SandboxTypeOK, NEW p, Published(p)
    PROVE  p \in Ports /\ p # 0
<1>1. PICK c \in Projects : ctr[c] = Running(p)
    BY DEF Published
<1>2. ctr[c] \in Containers
    BY Typed
<1>3. ctr[c].port = p /\ ctr[c].state = "running"
    BY <1>1 DEF Running
<1> QED
    BY <1>2, <1>3, PortsOfContainers

LEMMA ProjectsOfRoots ==
    ASSUME SandboxTypeOK, NEW r \in Roots
    PROVE  projectOf[r] \in Projects /\ ctr[projectOf[r]] \in Containers /\ op[r] \in Ops
           /\ ref[r] \in Ports \cup {0} /\ handle[projectOf[r]] \in Ports \cup {0}
<1>1. projectOf \in [Roots -> Projects]
    BY Typed, SandboxAssumption
<1> QED
    BY <1>1, Typed DEF RootTyped

LEMMA StepTyped ==
    ASSUME SandboxTypeOK, NEW r \in Roots, NEW o \in Ops, Step(r, o)
    PROVE  RootTyped'
BY Typed DEF RootTyped, Step

LEMMA GrantTyped ==
    ASSUME SandboxTypeOK, NEW r \in Roots, NEW p \in Ports \cup {0}, Granted(r, p)
    PROVE  RootTyped'
<1>1. NoOp \in Ops
    BY DEF NoOp, Ops
<1> QED
    BY <1>1, Typed DEF RootTyped, Granted

LEMMA RaiseTyped ==
    ASSUME SandboxTypeOK, NEW r \in Roots, Raises(r)
    PROVE  RootTyped'
<1>1. NoOp \in Ops
    BY DEF NoOp, Ops
<1> QED
    BY <1>1, Typed DEF RootTyped, Raises

LEMMA OpTyped ==
    ASSUME NEW p \in Ports \cup {0},
           NEW pc \in {"none", "inspect", "pick", "attach", "rm", "run", "start", "ready", "release_rm"},
           NEW kind \in {"none", "allocate", "attach", "rebuild", "restart", "release"}
    PROVE  Op(pc, kind, p) \in Ops
BY DEF Op, Ops

-----------------------------------------------------------------------------
(* Every step keeps the types and the ports of the calls *)

LEMMA SandboxInitially == SandboxInit => SandboxInv
<1> SUFFICES ASSUME SandboxInit PROVE SandboxInv
    OBVIOUS
<1> USE DEF SandboxInit
<1>1. Patrolling \in [pc : {"wait", "force", "force_rm", "stop", "docker_stop"},
                      project : Projects]
    BY SandboxAssumption DEF Patrolling
<1>2. NoOp \in Ops
    BY DEF NoOp, Ops
<1>3. RootTyped
    BY <1>2 DEF RootTyped
<1>4. SandboxTypeOK
    BY <1>1, <1>3, Typed DEF Containers
<1>5. Ported
    BY DEF Ported, PortInCall, NoOp
<1>6. Lone
  <2>1. \A r \in Roots : projectOf[r] \in Projects
      BY <1>4, ProjectsOfRoots
  <2> QED
      BY <2>1 DEF Lone, InLife, NoOp
<1> QED
    BY <1>4, <1>5, <1>6 DEF SandboxInv

LEMMA ProvisionTyped ==
    ASSUME SandboxTypeOK, Ported, NEW r \in Roots, Provision(r)
    PROVE  SandboxTypeOK'
<1> DEFINE c == projectOf[r]
<1>1. c \in Projects /\ ctr[c] \in Containers /\ op[r] \in Ops /\ ref[r] \in Ports \cup {0}
      /\ handle[c] \in Ports \cup {0}
    BY ProjectsOfRoots
<1>2. op[r].port \in Ports \cup {0}
    BY <1>1 DEF Ops
<1>3. PortInCall(r)
    BY DEF Ported
<1>4. Absent \in Containers
    BY DEF Containers
<1>5. \A x \in Ops : [x EXCEPT !.pc = "run"] \in Ops /\ [x EXCEPT !.pc = "ready"] \in Ops
    BY DEF Ops
<1> HIDE DEF c
<1>6. CASE Allocate(r)
  <2>1. Op("inspect", "allocate", handle[c]) \in Ops
      BY <1>1, OpTyped
  <2>2. RootTyped'
      BY <1>6, <2>1, Typed DEF Allocate, RootTyped, c
  <2>3. roots' \in [Projects -> SUBSET Roots]
      BY <1>6, Typed DEF Allocate
  <2> QED
      BY <1>6, <2>2, <2>3, Typed, TypedNext DEF Allocate
<1>7. CASE ReuseOrBuild(r)
  <2> DEFINE p == IF op[r].port # 0 THEN op[r].port ELSE ctr[c].port
  <2>1. CASE ctr[c].state = "running" /\ Probe(p) /\ handle' = [handle EXCEPT ![c] = p]
             /\ Granted(r, p) /\ UNCHANGED outages
    <3>1. p \in Ports
        BY <2>1, Answers DEF Probe
    <3>2. RootTyped'
        BY <2>1, <3>1, GrantTyped
    <3> HIDE DEF p
    <3> QED
        BY <1>7, <2>1, <3>1, <3>2, Typed, TypedNext DEF ReuseOrBuild
  <2>2. CASE Step(r, Op("pick", "allocate", 0)) /\ handle' = handle /\ outages' \in Nat
    <3>1. Op("pick", "allocate", 0) \in Ops
        BY OpTyped
    <3>2. RootTyped'
        BY <2>2, <3>1, StepTyped
    <3> QED
        BY <1>7, <2>2, <3>2, Typed, TypedNext DEF ReuseOrBuild
  <2> QED
      BY <1>7, <2>1, <2>2, Typed, TypedNext DEF ReuseOrBuild, c
<1>8. CASE PickUnreservedPort(r)
  <2>1. ASSUME NEW p \in Ports, Step(r, Op("rm", "allocate", p)) PROVE RootTyped'
    <3>1. Op("rm", "allocate", p) \in Ops
        BY OpTyped
    <3> QED
        BY <2>1, <3>1, StepTyped
  <2>2. RootTyped'
      BY <1>8, <2>1, RaiseTyped DEF PickUnreservedPort
  <2> QED
      BY <1>8, <2>2, Typed, TypedNext DEF PickUnreservedPort, providerVars
<1>9. CASE Attach(r)
  <2>1. Op("rm", "rebuild", ref[r]) \in Ops /\ Op("start", "restart", ref[r]) \in Ops
      BY <1>1, OpTyped
  <2>2. RootTyped'
      BY <1>1, <1>9, <2>1, StepTyped, GrantTyped DEF Attach
  <2> QED
      BY <1>9, <2>2, Typed, TypedNext DEF Attach, providerVars
<1>10. CASE RemoveStale(r)
  <2>1. RootTyped'
      BY <1>1, <1>5, <1>10, StepTyped DEF RemoveStale
  <2>2. ctr' \in [Projects -> Containers]
      BY <1>4, <1>10, Typed DEF RemoveStale, Becomes
  <2> QED
      BY <1>10, <2>1, <2>2, Typed, TypedNext DEF RemoveStale, providerVars
<1>11. CASE DockerRun(r)
  <2>1. RootTyped'
      BY <1>1, <1>5, <1>11, StepTyped, RaiseTyped DEF DockerRun
  <2>2. Running(op[r].port) \in Containers
      BY <1>2, <1>3, <1>11, Publishes DEF DockerRun, PortInCall
  <2>3. ctr' \in [Projects -> Containers]
      BY <1>11, <2>2, Typed DEF DockerRun, Becomes
  <2> QED
      BY <1>11, <2>1, <2>3, Typed, TypedNext DEF DockerRun, providerVars
<1>12. CASE DockerStart(r)
  <2>1. RootTyped'
      BY <1>1, <1>5, <1>12, StepTyped, RaiseTyped DEF DockerStart
  <2>2. ctr[c].state = "stopped" => Running(ctr[c].port) \in Containers
      BY <1>1, PortsOfContainers, Publishes DEF Absent
  <2>3. ctr' \in [Projects -> Containers]
      BY <1>12, <2>2, Typed DEF DockerStart, Becomes, c
  <2> QED
      BY <1>12, <2>1, <2>3, Typed, TypedNext DEF DockerStart, providerVars
<1>13. CASE AwaitReady(r)
  <2>1. RootTyped'
      BY <1>2, <1>13, GrantTyped DEF AwaitReady
  <2>2. handle' \in [Projects -> Ports \cup {0}]
      BY <1>2, <1>13, Typed DEF AwaitReady
  <2> QED
      BY <1>13, <2>1, <2>2, Typed, TypedNext DEF AwaitReady
<1>14. CASE ReadyTimeout(r)
  <2> DEFINE s == IF op[r].kind # "restart" THEN Absent
                  ELSE IF ctr[c].state = "running" THEN Stopped(ctr[c].port) ELSE ctr[c]
  <2>1. RootTyped'
      BY <1>14, RaiseTyped DEF ReadyTimeout
  <2>2. ctr[c].state = "running" => Stopped(ctr[c].port) \in Containers
      BY <1>1, PortsOfContainers, Publishes DEF Absent
  <2>3. s \in Containers
      BY <1>1, <1>4, <2>2
  <2>4. ctr' = [ctr EXCEPT ![c] = s]
      BY <1>14 DEF ReadyTimeout, Becomes, c
  <2> HIDE DEF s
  <2>5. ctr' \in [Projects -> Containers]
      BY <2>3, <2>4, Typed
  <2>6. outages' \in Nat
      BY <1>14, Typed DEF ReadyTimeout
  <2> QED
      BY <1>14, <2>1, <2>5, <2>6, Typed, TypedNext DEF ReadyTimeout, providerVars
<1> QED
    BY <1>6, <1>7, <1>8, <1>9, <1>10, <1>11, <1>12, <1>13, <1>14 DEF Provision

LEMMA TaskTyped ==
    ASSUME SandboxTypeOK, NEW r \in Roots, Task(r) \/ Releasing(r)
    PROVE  SandboxTypeOK'
<1> DEFINE c == projectOf[r]
<1>1. c \in Projects /\ ref[r] \in Ports \cup {0}
    BY ProjectsOfRoots
<1>2. Op("attach", "attach", ref[r]) \in Ops /\ Op("release_rm", "release", 0) \in Ops
      /\ NoOp \in Ops /\ Absent \in Containers
    BY <1>1, OpTyped DEF NoOp, Ops, Containers
<1>3. CASE EndTurn(r)
  <2>1. RootTyped'
      BY <1>3, Typed DEF EndTurn, RootTyped
  <2> QED
      BY <1>3, <2>1, Typed, TypedNext DEF EndTurn, providerVars
<1>4. CASE Resume(r)
  <2>1. RootTyped'
      BY <1>2, <1>4, Typed DEF Resume, RootTyped
  <2> QED
      BY <1>4, <2>1, Typed, TypedNext DEF Resume, providerVars
<1>5. CASE Terminate(r)
  <2>1. RootTyped'
      BY <1>5, Typed DEF Terminate, RootTyped
  <2> QED
      BY <1>5, <2>1, Typed, TypedNext DEF Terminate, providerVars
<1>6. CASE Release(r)
  <2>1. RootTyped'
      BY <1>2, <1>6, Typed DEF Release, RootTyped
  <2>2. roots' \in [Projects -> SUBSET Roots] /\ handle' \in [Projects -> Ports \cup {0}]
      BY <1>6, Typed DEF Release
  <2> QED
      BY <1>6, <2>1, <2>2, Typed, TypedNext DEF Release
<1>7. CASE ReleaseRemoves(r)
  <2>1. RootTyped'
      BY <1>2, <1>7, Typed DEF ReleaseRemoves, RootTyped
  <2>2. ctr' \in [Projects -> Containers]
      BY <1>2, <1>7, Typed DEF ReleaseRemoves, Becomes
  <2> QED
      BY <1>7, <2>1, <2>2, Typed, TypedNext DEF ReleaseRemoves, providerVars
<1> QED
    BY <1>3, <1>4, <1>5, <1>6, <1>7 DEF Task, Releasing

(* What the patrol and the clock leave of a container and its port. *)
Fades(c) ==
    /\ \/ ctr'[c] = ctr[c]
       \/ ctr'[c] = Absent
       \/ ctr[c].state = "running" /\ ctr'[c] = Stopped(ctr[c].port)
    /\ handle'[c] \in {handle[c], 0}

LEMMA PatrolSteps ==
    ASSUME SandboxTypeOK, Patrol \/ (\E c \in Projects : Tick(c)) \/ UNCHANGED sandboxVars
    PROVE  /\ SandboxTypeOK'
           /\ UNCHANGED <<projectOf, ref, life, op>>
           /\ \A c \in Projects : Fades(c)
<1> USE DEF sandboxVars, providerVars, rootVars
<1> DEFINE Rs == [pc : {"wait", "force", "force_rm", "stop", "docker_stop"}, project : Projects]
<1>0. RootTyped /\ ctr \in [Projects -> Containers] /\ reaper \in Rs
      /\ handle \in [Projects -> Ports \cup {0}] /\ Absent \in Containers
      /\ roots \in [Projects -> SUBSET Roots]
    BY Typed DEF Containers
<1>1. ASSUME NEW c \in Projects, Sweep(c)
      PROVE  reaper' \in Rs /\ UNCHANGED <<projectOf, ctr, roots, handle, rootVars, age, outages>>
    BY <1>1 DEF Sweep
<1>2. CASE \E c \in Projects : Sweep(c)
    BY <1>0, <1>1, <1>2, Typed, TypedNext DEF RootTyped, Fades
<1>3. CASE ForceRelease
  <2>1. handle' = [handle EXCEPT ![reaper.project] = 0] /\ handle' \in [Projects -> Ports \cup {0}]
        /\ roots' \in [Projects -> SUBSET Roots]
      BY <1>0, <1>3 DEF ForceRelease
  <2>2. reaper' \in Rs
      BY <1>0, <1>3 DEF ForceRelease
  <2> QED
      BY <1>0, <1>3, <2>1, <2>2, Typed, TypedNext DEF ForceRelease, RootTyped, Fades
<1>4. CASE ForceRemoves
  <2>1. ctr' = [ctr EXCEPT ![reaper.project] = Absent] /\ ctr' \in [Projects -> Containers]
      BY <1>0, <1>4 DEF ForceRemoves, Becomes
  <2>2. reaper' \in Rs
      BY <1>0, <1>4 DEF ForceRemoves
  <2> QED
      BY <1>0, <1>4, <2>1, <2>2, Typed, TypedNext DEF ForceRemoves, RootTyped, Fades
<1>5. CASE StopIdle
  <2>1. handle' \in [Projects -> Ports \cup {0}] /\ \A c \in Projects : handle'[c] \in {handle[c], 0}
      BY <1>0, <1>5 DEF StopIdle
  <2>2. reaper' \in Rs
      BY <1>0, <1>5 DEF StopIdle
  <2> QED
      BY <1>0, <1>5, <2>1, <2>2, Typed, TypedNext DEF StopIdle, RootTyped, Fades
<1>6. CASE DockerStop
  <2> DEFINE d == reaper.project
             s == IF ctr[d].state = "running" THEN Stopped(ctr[d].port) ELSE ctr[d]
  <2>1. d \in Projects /\ ctr[d] \in Containers
      BY <1>0
  <2>2. s \in Containers
      BY <2>1, PortsOfContainers, Publishes DEF Absent
  <2>3. ctr' = [ctr EXCEPT ![d] = s]
      BY <1>6 DEF DockerStop, Becomes
  <2>4. s = ctr[d] \/ (ctr[d].state = "running" /\ s = Stopped(ctr[d].port))
      OBVIOUS
  <2>5. reaper' \in Rs
      BY <1>0, <1>6 DEF DockerStop
  <2> HIDE DEF s
  <2>6. ctr' \in [Projects -> Containers]
      BY <1>0, <2>2, <2>3
  <2>7. \A c \in Projects : Fades(c)
      BY <1>0, <1>6, <2>3, <2>4 DEF DockerStop, Fades
  <2> QED
      BY <1>0, <1>6, <2>5, <2>6, <2>7, Typed, TypedNext DEF DockerStop, RootTyped
<1>7. ASSUME NEW c \in Projects, Tick(c)
      PROVE  age' \in [Projects -> {"fresh", "stop", "remove"}]
             /\ UNCHANGED <<projectOf, ctr, roots, handle, rootVars, reaper, outages>>
    BY <1>0, <1>7 DEF Tick, RootTyped
<1>8. CASE \E c \in Projects : Tick(c)
    BY <1>0, <1>7, <1>8, Typed, TypedNext DEF RootTyped, Fades
<1>9. CASE UNCHANGED sandboxVars
    BY <1>0, <1>9, Typed, TypedNext DEF RootTyped, Fades
<1> QED
    BY <1>2, <1>3, <1>4, <1>5, <1>6, <1>8, <1>9 DEF Patrol

LEMMA RestartTyped == ASSUME SandboxTypeOK, SandboxRestart PROVE SandboxTypeOK'
<1> USE DEF SandboxRestart
<1>1. \A r \in Roots : Op("attach", "attach", ref[r]) \in Ops
    BY Typed, OpTyped DEF RootTyped
<1>2. NoOp \in Ops
    BY DEF NoOp, Ops
<1>3. op' \in [Roots -> Ops]
    BY <1>1, <1>2
<1>4. life' \in [Roots -> {"new", "seeding", "turn", "rest", "resuming", "ending", "dead"}]
    BY Typed DEF RootTyped
<1>5. Patrolling \in [pc : {"wait", "force", "force_rm", "stop", "docker_stop"},
                      project : Projects]
    BY SandboxAssumption DEF Patrolling
<1>6. roots' \in [Projects -> SUBSET Roots] /\ handle' \in [Projects -> Ports \cup {0}]
    OBVIOUS
<1>7. outages' \in Nat
    BY Typed
<1> QED
    BY <1>3, <1>4, <1>5, <1>6, <1>7, Typed, TypedNext DEF RootTyped

-----------------------------------------------------------------------------
(* A root's call leaves the other roots and the other projects alone *)

LEMMA OthersStay ==
    ASSUME SandboxTypeOK, NEW r \in Roots, Provision(r) \/ Task(r) \/ Releasing(r)
    PROVE  /\ projectOf' = projectOf
           /\ \A q \in Roots : q # r => op'[q] = op[q] /\ ref'[q] = ref[q] /\ life'[q] = life[q]
           /\ \A c \in Projects : c # projectOf[r] => ctr'[c] = ctr[c] /\ handle'[c] = handle[c]
<1>0. RootTyped /\ ctr \in [Projects -> Containers] /\ handle \in [Projects -> Ports \cup {0}]
    BY Typed
<1> USE <1>0 DEF RootTyped, providerVars, Becomes
<1>1. CASE Allocate(r)
    BY <1>1 DEF Allocate
<1>2. CASE ReuseOrBuild(r)
    BY <1>2 DEF ReuseOrBuild, Granted, Step
<1>3. CASE PickUnreservedPort(r)
    BY <1>3 DEF PickUnreservedPort, Step, Raises
<1>4. CASE Attach(r)
    BY <1>4 DEF Attach, Step, Granted
<1>5. CASE RemoveStale(r)
    BY <1>5 DEF RemoveStale, Step
<1>6. CASE DockerRun(r)
    BY <1>6 DEF DockerRun, Step, Raises
<1>7. CASE DockerStart(r)
    BY <1>7 DEF DockerStart, Step, Raises
<1>8. CASE AwaitReady(r)
    BY <1>8 DEF AwaitReady, Granted
<1>9. CASE ReadyTimeout(r)
    BY <1>9 DEF ReadyTimeout, Raises
<1>10. CASE EndTurn(r) \/ Resume(r) \/ Terminate(r)
    BY <1>10 DEF EndTurn, Resume, Terminate
<1>11. CASE Release(r)
    BY <1>11 DEF Release
<1>12. CASE ReleaseRemoves(r)
    BY <1>12 DEF ReleaseRemoves
<1> QED
    BY <1>1, <1>2, <1>3, <1>4, <1>5, <1>6, <1>7, <1>8, <1>9, <1>10, <1>11, <1>12
       DEF Provision, Task, Releasing

(* What the three ends of a step of a call do to the root. *)
LEMMA Ends ==
    ASSUME SandboxTypeOK, NEW r \in Roots
    PROVE  /\ \A o : Step(r, o) => op'[r] = o /\ life'[r] = life[r] /\ ref'[r] = ref[r]
           /\ \A p : Granted(r, p) => op'[r] = NoOp /\ life'[r] = "turn" /\ ref'[r] = p
           /\ Raises(r) => /\ op'[r] = NoOp /\ ref'[r] = ref[r]
                           /\ life'[r] = IF life[r] = "seeding" THEN "ending" ELSE "rest"
<1>1. RootTyped
    BY Typed
<1> QED
    BY <1>1 DEF RootTyped, Step, Granted, Raises

LEMMA OpFields ==
    /\ NoOp.pc = "none" /\ NoOp.port = 0 /\ NoOp.kind = "none"
    /\ \A pc, kind, p : /\ Op(pc, kind, p).pc = pc /\ Op(pc, kind, p).kind = kind
                        /\ Op(pc, kind, p).port = p
BY DEF NoOp, Op

LEMMA OpMoves ==
    ASSUME NEW o \in Ops, NEW pc
    PROVE  LET n == [o EXCEPT !.pc = pc] IN n.pc = pc /\ n.kind = o.kind /\ n.port = o.port
BY DEF Ops

-----------------------------------------------------------------------------
(* The ports of the calls *)

LEMMA OwnPort ==
    ASSUME SandboxTypeOK, Ported, NEW r \in Roots, Provision(r) \/ Task(r) \/ Releasing(r)
    PROVE  PortInCall(r)'
<1> DEFINE c == projectOf[r]
<1>0. RootTyped /\ op[r] \in Ops /\ ctr[c] \in Containers /\ PortInCall(r)
    BY Typed, ProjectsOfRoots DEF Ported
<1>p. \A p \in Ports : p # 0
    BY SandboxAssumption
<1> USE <1>0, OpFields, Ends DEF PortInCall
<1>1. CASE Allocate(r)
    BY <1>1 DEF Allocate, RootTyped
<1>2. CASE ReuseOrBuild(r)
  <2> DEFINE p == IF op[r].port # 0 THEN op[r].port ELSE ctr[c].port
  <2>1. CASE Probe(p) /\ Granted(r, p)
    <3>1. p # 0
        BY <2>1, Answers DEF Probe
    <3> HIDE DEF p
    <3> QED
        BY <2>1, <3>1
  <2>2. CASE Step(r, Op("pick", "allocate", 0))
      BY <2>2, <1>2 DEF ReuseOrBuild
  <2> QED
      BY <1>2, <2>1, <2>2 DEF ReuseOrBuild
<1>3. CASE PickUnreservedPort(r)
  <2>1. CASE Raises(r)
      BY <2>1
  <2>2. CASE \E p \in Ports : Step(r, Op("rm", "allocate", p))
    <3>1. PICK p \in Ports : Step(r, Op("rm", "allocate", p))
        BY <2>2
    <3> QED
        BY <3>1, <1>p, <1>3
  <2> QED
      BY <1>3, <2>1, <2>2 DEF PickUnreservedPort
<1>4. CASE Attach(r)
    BY <1>4 DEF Attach
<1>m. ASSUME op[r].port # 0, NEW pc \in {"run", "ready"}, Step(r, [op[r] EXCEPT !.pc = pc])
      PROVE  PortInCall(r)'
  <2> DEFINE n == [op[r] EXCEPT !.pc = pc]
  <2>1. n.pc = pc /\ n.port = op[r].port
      BY OpMoves
  <2> HIDE DEF n
  <2>2. op'[r] = n /\ life'[r] = life[r] /\ ref'[r] = ref[r]
      BY <1>m DEF n
  <2> QED
      BY <1>m, <2>1, <2>2
<1>5. CASE RemoveStale(r)
    BY <1>5, <1>m DEF RemoveStale
<1>r. CASE Raises(r)
    BY <1>r
<1>6. CASE DockerRun(r)
    BY <1>6, <1>m, <1>r DEF DockerRun
<1>7. CASE DockerStart(r)
    BY <1>7, <1>m, <1>r DEF DockerStart
<1>8. CASE AwaitReady(r)
    BY <1>8, Answers DEF AwaitReady, Probe
<1>9. CASE ReadyTimeout(r)
    BY <1>9 DEF ReadyTimeout
<1>10. CASE EndTurn(r) \/ Resume(r) \/ Terminate(r)
    BY <1>10 DEF EndTurn, Resume, Terminate, RootTyped
<1>11. CASE Release(r)
    BY <1>11 DEF Release, RootTyped
<1>12. CASE ReleaseRemoves(r)
    BY <1>12 DEF ReleaseRemoves, RootTyped
<1> QED
    BY <1>1, <1>2, <1>3, <1>4, <1>5, <1>6, <1>7, <1>8, <1>9, <1>10, <1>11, <1>12
       DEF Provision, Task, Releasing

-----------------------------------------------------------------------------
(* The container of a root that has its project to itself *)

(* Containers that only fade leave a lone root what it knows. *)
LEMMA LoneStays ==
    ASSUME NEW r \in Roots, InLife(r), projectOf' = projectOf, Fades(projectOf[r]),
           op'[r] = op[r], life'[r] = life[r], ref'[r] = ref[r]
    PROVE  InLife(r)'
BY DEF InLife, Fades, Absent, Stopped

LEMMA OwnLife ==
    ASSUME SandboxTypeOK, Ported, NEW r \in Roots, InLife(r),
           Provision(r) \/ Task(r) \/ Releasing(r)
    PROVE  InLife(r)'
<1> DEFINE c == projectOf[r]
<1>0. /\ RootTyped /\ op[r] \in Ops /\ ctr[c] \in Containers /\ PortInCall(r)
      /\ c \in Projects /\ ctr \in [Projects -> Containers]
      /\ life[r] \in {"new", "seeding", "turn", "rest", "resuming", "ending", "dead"}
    BY Typed, ProjectsOfRoots DEF Ported, RootTyped
<1>p. projectOf' = projectOf
    BY OthersStay
<1>a. \A p \in Ports : p # 0
    BY SandboxAssumption
<1>f. Absent.state = "absent" /\ \A p : /\ Running(p).state = "running" /\ Running(p).port = p
                                        /\ Stopped(p).state = "stopped" /\ Stopped(p).port = p
                                        /\ Running(p) # Absent
    BY DEF Absent, Running, Stopped
(* A call that moves on, and one that raises. *)
<1>m. ASSUME NEW pc \in {"run", "ready"}, Step(r, [op[r] EXCEPT !.pc = pc]),
             life[r] \in {"seeding", "resuming"}, op[r].pc # "inspect", op[r].port # 0,
             ctr'[c] = Absent \/ ctr'[c].port = op[r].port
      PROVE  InLife(r)'
  <2> DEFINE n == [op[r] EXCEPT !.pc = pc]
  <2>1. n.pc = pc /\ n.port = op[r].port /\ n.kind = op[r].kind
      BY <1>0, OpMoves
  <2> HIDE DEF n
  <2>2. op'[r] = n /\ life'[r] = life[r] /\ ref'[r] = ref[r]
      BY <1>m, Ends DEF n
  <2> QED
      BY <1>m, <1>p, <2>1, <2>2 DEF InLife
<1>r. ASSUME Raises(r), life[r] \in {"seeding", "resuming"},
             ctr'[c] = ctr[c] \/ ctr'[c] = Absent
             \/ (ctr[c].state = "running" /\ ctr'[c] = Stopped(ctr[c].port))
      PROVE  InLife(r)'
    BY <1>p, <1>r, <1>f, Ends, OpFields DEF InLife
<1>g. ASSUME NEW p, Granted(r, p), p # 0, ctr'[c] = Absent \/ ctr'[c].port = p
      PROVE  InLife(r)'
    BY <1>p, <1>g, Ends, OpFields DEF InLife
<1>1. CASE Allocate(r)
  <2>1. life[r] = "new" /\ handle[c] = 0 /\ ctr[c] = Absent /\ ref[r] = 0
      BY <1>1 DEF Allocate, InLife
  <2>2. life'[r] = "seeding" /\ op'[r] = Op("inspect", "allocate", 0) /\ ref'[r] = 0
        /\ ctr'[c] = Absent
      BY <1>0, <1>1, <2>1 DEF Allocate, RootTyped
  <2> QED
      BY <1>p, <2>2, OpFields DEF InLife
<1>2. CASE ReuseOrBuild(r)
  <2>1. life[r] = "seeding" /\ op[r].pc = "inspect" /\ ctr[c] = Absent /\ ctr' = ctr
        /\ ref[r] = 0
      BY <1>0, <1>2, OpFields DEF ReuseOrBuild, InLife
  <2>2. Step(r, Op("pick", "allocate", 0))
      BY <1>2, <2>1, <1>f DEF ReuseOrBuild
  <2>3. op'[r] = Op("pick", "allocate", 0) /\ life'[r] = "seeding" /\ ref'[r] = 0
      BY <2>1, <2>2, Ends
  <2> QED
      BY <1>p, <2>1, <2>3, OpFields DEF InLife
<1>3. CASE PickUnreservedPort(r)
  <2>1. life[r] = "seeding" /\ op[r].pc = "pick" /\ ctr' = ctr /\ ref[r] = 0
      BY <1>0, <1>3, OpFields DEF PickUnreservedPort, InLife
  <2>2. CASE Raises(r)
      BY <1>r, <2>1, <2>2
  <2>3. CASE \E p \in Ports : Step(r, Op("rm", "allocate", p))
    <3>1. PICK p \in Ports : Step(r, Op("rm", "allocate", p))
        BY <2>3
    <3>2. op'[r] = Op("rm", "allocate", p) /\ life'[r] = "seeding" /\ ref'[r] = 0 /\ p # 0
        BY <2>1, <3>1, <1>a, Ends
    <3> QED
        BY <1>p, <3>2, OpFields DEF InLife
  <2> QED
      BY <1>3, <2>2, <2>3 DEF PickUnreservedPort
<1>4. CASE Attach(r)
  <2>1. life[r] = "resuming" /\ op[r].pc = "attach" /\ ctr' = ctr
      BY <1>0, <1>4, OpFields DEF Attach, InLife, providerVars
  <2>2. ref[r] # 0 /\ (ctr[c] = Absent \/ ctr[c].port = ref[r])
      BY <2>1 DEF InLife
  <2>3. ASSUME NEW pc \in {"rm", "start"}, NEW kind \in {"rebuild", "restart"},
               Step(r, Op(pc, kind, ref[r]))
        PROVE  InLife(r)'
    <3>1. op'[r] = Op(pc, kind, ref[r]) /\ life'[r] = "resuming" /\ ref'[r] = ref[r]
        BY <2>1, <2>3, Ends
    <3> QED
        BY <1>p, <2>1, <2>2, <3>1, OpFields DEF InLife
  <2> QED
      BY <1>4, <1>g, <2>1, <2>2, <2>3 DEF Attach
<1>5. CASE RemoveStale(r)
  <2>1. life[r] \in {"seeding", "resuming"} /\ op[r].pc = "rm" /\ op[r].port # 0
      BY <1>0, <1>5, OpFields DEF RemoveStale, InLife, PortInCall
  <2>2. ctr'[c] = Absent
      BY <1>0, <1>5 DEF RemoveStale, Becomes
  <2> QED
      BY <1>5, <1>m, <2>1, <2>2 DEF RemoveStale
<1>6. CASE DockerRun(r)
  <2>1. life[r] \in {"seeding", "resuming"} /\ op[r].pc = "run" /\ op[r].port # 0
      BY <1>0, <1>6, OpFields DEF DockerRun, InLife, PortInCall
  <2>2. CASE Becomes(c, Running(op[r].port)) /\ Step(r, [op[r] EXCEPT !.pc = "ready"])
    <3>1. ctr'[c].port = op[r].port
        BY <1>0, <1>f, <2>2 DEF Becomes
    <3> QED
        BY <1>m, <2>1, <2>2, <3>1
  <2>3. CASE Raises(r) /\ UNCHANGED ctr
      BY <1>r, <2>1, <2>3
  <2> QED
      BY <1>6, <2>2, <2>3 DEF DockerRun
<1>7. CASE DockerStart(r)
  <2>1. life[r] = "resuming" /\ op[r].pc = "start" /\ op[r].port # 0
      BY <1>0, <1>7, OpFields DEF DockerStart, InLife, PortInCall
  <2>2. op[r].port = ref[r] /\ (ctr[c] = Absent \/ ctr[c].port = ref[r])
      BY <2>1 DEF InLife
  <2>3. CASE Step(r, [op[r] EXCEPT !.pc = "ready"]) /\ UNCHANGED ctr
      BY <1>m, <2>1, <2>2, <2>3
  <2>4. CASE ctr[c].state = "stopped" /\ Becomes(c, Running(ctr[c].port))
             /\ Step(r, [op[r] EXCEPT !.pc = "ready"])
    <3>1. ctr'[c].port = op[r].port
        BY <1>0, <1>f, <2>2, <2>4 DEF Becomes
    <3> QED
        BY <1>m, <2>1, <2>4, <3>1
  <2>5. CASE Raises(r) /\ UNCHANGED ctr
      BY <1>r, <2>1, <2>5
  <2> QED
      BY <1>7, <2>3, <2>4, <2>5 DEF DockerStart
<1>8. CASE AwaitReady(r)
  <2>1. life[r] \in {"seeding", "resuming"} /\ op[r].pc = "ready" /\ op[r].port # 0 /\ ctr' = ctr
      BY <1>0, <1>8, OpFields DEF AwaitReady, InLife, PortInCall
  <2>2. ctr[c] = Absent \/ ctr[c].port = op[r].port
      BY <2>1 DEF InLife
  <2> QED
      BY <1>8, <1>g, <2>1, <2>2 DEF AwaitReady
<1>9. CASE ReadyTimeout(r)
  <2>1. life[r] \in {"seeding", "resuming"} /\ op[r].pc = "ready" /\ Raises(r)
      BY <1>0, <1>9, OpFields DEF ReadyTimeout, InLife
  <2>2. ctr'[c] = ctr[c] \/ ctr'[c] = Absent
        \/ (ctr[c].state = "running" /\ ctr'[c] = Stopped(ctr[c].port))
      BY <1>0, <1>9 DEF ReadyTimeout, Becomes
  <2> QED
      BY <1>r, <2>1, <2>2
<1>10. CASE EndTurn(r) \/ Terminate(r)
    BY <1>0, <1>p, <1>10, OpFields DEF EndTurn, Terminate, InLife, RootTyped
<1>11. CASE Resume(r)
  <2>1. op'[r] = Op("attach", "attach", ref[r]) /\ life'[r] = "resuming" /\ ref' = ref
        /\ ctr' = ctr /\ life[r] = "rest"
      BY <1>0, <1>11 DEF Resume, RootTyped
  <2> QED
      BY <1>p, <2>1, OpFields DEF InLife
<1>12. CASE Release(r)
  <2>1. life'[r] = "dead" /\ life[r] = "ending"
        /\ (op'[r] = op[r] \/ op'[r] = Op("release_rm", "release", 0))
      BY <1>0, <1>12 DEF Release, RootTyped
  <2> QED
      BY <2>1, OpFields DEF InLife
<1>13. CASE ReleaseRemoves(r)
  <2>1. life[r] \in {"ending", "dead"} /\ op'[r] = NoOp /\ life' = life
      BY <1>0, <1>13, OpFields DEF ReleaseRemoves, InLife, RootTyped
  <2> QED
      BY <2>1, OpFields DEF InLife
<1> QED
    BY <1>1, <1>2, <1>3, <1>4, <1>5, <1>6, <1>7, <1>8, <1>9, <1>10, <1>11, <1>12, <1>13
       DEF Provision, Task, Releasing

LEMMA RestartLife ==
    ASSUME SandboxTypeOK, Ported, NEW r \in Roots, SandboxRestart
    PROVE  PortInCall(r)' /\ (InLife(r) => InLife(r)')
<1>1. /\ projectOf' = projectOf /\ ctr' = ctr /\ ref'[r] = ref[r] /\ handle'[projectOf[r]] = 0
      /\ life'[r] = CASE life[r] = "seeding" -> "dead" [] life[r] = "turn" -> "resuming"
                      [] OTHER -> life[r]
      /\ op'[r] = IF life[r] \in {"turn", "resuming"} THEN Op("attach", "attach", ref[r]) ELSE NoOp
    BY ProjectsOfRoots DEF SandboxRestart
<1>2. PortInCall(r)
    BY DEF Ported
<1>3. life[r] \in {"new", "seeding", "turn", "rest", "resuming", "ending", "dead"}
    BY Typed DEF RootTyped
<1>4. PortInCall(r)'
    BY <1>1, <1>2, <1>3, OpFields DEF PortInCall
<1>5. ASSUME InLife(r) PROVE InLife(r)'
    BY <1>1, <1>3, <1>5, OpFields DEF InLife
<1> QED
    BY <1>4, <1>5

(* A step of a call changes its own root, whose project a lone root has to *)
(* itself; the patrol, the clock and the restart change no root's ref.     *)
LEMMA SandboxStep == SandboxInv /\ [SandboxNext]_sandboxVars => SandboxInv'
<1> SUFFICES ASSUME SandboxInv, [SandboxNext]_sandboxVars PROVE SandboxInv'
    OBVIOUS
<1> USE DEF SandboxInv
<1>1. ASSUME NEW r \in Roots, Provision(r) \/ Task(r) \/ Releasing(r)
      PROVE  SandboxInv'
  <2>1. SandboxTypeOK'
      BY <1>1, ProvisionTyped, TaskTyped
  <2>2. /\ projectOf' = projectOf
        /\ \A q \in Roots : q # r => op'[q] = op[q] /\ ref'[q] = ref[q] /\ life'[q] = life[q]
        /\ \A c \in Projects : c # projectOf[r] => ctr'[c] = ctr[c] /\ handle'[c] = handle[c]
      BY <1>1, OthersStay
  <2>3. ASSUME NEW q \in Roots PROVE PortInCall(q)'
    <3>1. CASE q = r
        BY <1>1, <3>1, OwnPort
    <3>2. CASE q # r
        BY <2>2, <3>2 DEF Ported, PortInCall
    <3> QED
        BY <3>1, <3>2
  <2>4. ASSUME NEW q \in Roots, Alone(q) PROVE InLife(q)'
    <3>1. InLife(q)
        BY <2>4 DEF Lone
    <3>2. CASE q = r
        BY <1>1, <3>1, <3>2, OwnLife
    <3>3. CASE q # r
      <4>1. projectOf[q] # projectOf[r] /\ projectOf[q] \in Projects
          BY <2>4, <3>3, ProjectsOfRoots DEF Alone
      <4>2. Fades(projectOf[q])
          BY <2>2, <4>1 DEF Fades
      <4> QED
          BY <2>2, <3>1, <3>3, <4>2, LoneStays
    <3> QED
        BY <3>2, <3>3
  <2> QED
      BY <2>1, <2>2, <2>3, <2>4 DEF Ported, Lone, Alone
<1>2. ASSUME Patrol \/ (\E c \in Projects : Tick(c)) \/ UNCHANGED sandboxVars
      PROVE  SandboxInv'
  <2>1. /\ SandboxTypeOK' /\ UNCHANGED <<projectOf, ref, life, op>>
        /\ \A c \in Projects : Fades(c)
      BY <1>2, PatrolSteps
  <2>2. Ported'
      BY <2>1 DEF Ported, PortInCall
  <2>3. ASSUME NEW q \in Roots, Alone(q) PROVE InLife(q)'
      BY <2>1, <2>3, LoneStays, ProjectsOfRoots DEF Lone
  <2> QED
      BY <2>1, <2>2, <2>3 DEF Lone, Alone
<1>3. CASE SandboxRestart
  <2>1. SandboxTypeOK' /\ projectOf' = projectOf
      BY <1>3, RestartTyped DEF SandboxRestart
  <2>2. Ported'
      BY <1>3, RestartLife DEF Ported
  <2>3. ASSUME NEW q \in Roots, Alone(q) PROVE InLife(q)'
      BY <1>3, <2>3, RestartLife DEF Lone
  <2> QED
      BY <2>1, <2>2, <2>3 DEF Lone, Alone
<1> QED
    BY <1>1, <1>2, <1>3 DEF SandboxNext

LEMMA SandboxSafe == SandboxInv => SandboxSound
<1> SUFFICES ASSUME SandboxInv PROVE SandboxSound
    OBVIOUS
<1>1. Absent.state # "running"
    BY DEF Absent
<1>2. RightContainer
    BY <1>1 DEF SandboxInv, Lone, InLife, RightContainer
<1> QED
    BY <1>2 DEF SandboxInv, SandboxSound

(* The handle a turn uses addresses the container of its own project, for  *)
(* a session that has the project to itself, over every interleaving of    *)
(* allocate, attach, release, the reaper's two levels, readiness timeouts  *)
(* and process deaths (DockerProjectExecEnvProvider and SandboxReaper).    *)
THEOREM HandleStaysRight == SandboxSpec => []SandboxSound
<1>1. SandboxInit => SandboxInv
    BY SandboxInitially
<1>2. SandboxInv /\ [SandboxNext]_sandboxVars => SandboxInv'
    BY SandboxStep
<1>3. SandboxInv => SandboxSound
    BY SandboxSafe
<1> QED
    BY <1>1, <1>2, <1>3, PTL DEF SandboxSpec
=============================================================================
