---------------------------- MODULE ArtifactPanel ----------------------------
(***************************************************************************)
(* The panel dock: the files a conversation mentions are guessed from its  *)
(* transcript, confirmed by the server, offered in a menu, and their texts *)
(* re-read when a confirmation shows that the bytes changed.  Every session *)
(* of the project shares the directory, the transcript grows while a       *)
(* confirmation is on its way, and the dock is not keyed by session.       *)
(***************************************************************************)
EXTENDS Integers, Sequences, SequencesExt, FiniteSets, FiniteSetsExt, TLC

CONSTANTS
    PanelSessions,
    Files,        \* workspace-relative paths, as numbers
    Collectible,  \* the files whose type is worth offering as an artifact
    Remarks,      \* the transcript items that may be said
    ResolveCap,   \* ARTIFACT_RESOLVE_CAP
    NoFile,
    Unknown,      \* no data yet; a target that was not resolved
    Idle, Sent,   \* a request that is not out, and one that is
    MaxVersion,   \* bound: writes of files
    MaxRemarks,   \* bound: items of the transcripts
    MaxClicks     \* bound: what the user does

(* Nothing known of a file is neither that it is there nor that it is not. *)
ASSUME PanelAssumption == Unknown \notin BOOLEAN /\ Idle # Sent

VARIABLES
    disk,         \* the directory: a version per file, 0 when absent
    transcript,   \* the items of each session
    openPanels,       \* the sessions whose panel is open
    onScreen,     \* the session on screen
    resolution,   \* the resolve query of each session's current fingerprint
    asked,        \* its request: Idle, Sent, or what the server answered
    previous,     \* the dock's previousTargets ref
    targets,      \* the store's targets by session
    listing,      \* the files query of each session
    selection,    \* the dock's selectedPath
    texts,        \* the content queries
    textRequest,      \* the read of the selected file: Idle, Sent or its answer
    clicks,
    existed,      \* ghost: the files that were ever there
    noticed       \* ghost: the version of a file a second confirmation brought

panelVars == <<disk, transcript, openPanels, onScreen, resolution, asked, previous, targets,
               listing, selection, texts, textRequest, clicks, existed, noticed>>

PanelShown == onScreen \in openPanels

-----------------------------------------------------------------------------
(* app/artifacts: guessing                                                  *)

ArtifactConfidence == [writeMetadata |-> 95, writeOutput |-> 90, toolPayload |-> 75,
                       assistantProse |-> 65, userText |-> 40]

(* A path is kept relative to the workspace root; outside it, climbing out   *)
(* of it, or without an extension it is not a file of the project.           *)
CandidateFromFile(written) ==
    IF written.form \in {"relative", "dotted", "underRoot"} THEN {written.file} ELSE {}

(* Which of an item's paths count as files, and with which confidence: a     *)
(* write tool's always, prose only when it speaks of making something, a     *)
(* user's or another tool's never, a search's not at all.                    *)
ScanItem(item) ==
    LET files == CandidateFromFile(item)
        found(confidence) == [f \in files |-> confidence]
    IN  CASE item.kind = "write"  -> found(ArtifactConfidence.writeMetadata)
          [] item.kind = "output" -> found(ArtifactConfidence.writeOutput)
          [] item.kind = "made"   -> found(ArtifactConfidence.assistantProse)
          [] OTHER                -> [f \in {} |-> 0]

(* What the items say of a file: a confidence for each that names it. *)
Evidence(items, f) ==
    {ScanItem(items[i])[f] : i \in {j \in DOMAIN items : f \in DOMAIN ScanItem(items[j])}}

(* Equal or better evidence replaces, weaker does not: the strongest stays. *)
DeriveArtifactCandidates(items) ==
    [f \in {g \in Files : Evidence(items, g) # {}} |-> Max(Evidence(items, f))]

(* The strongest candidates, as many as one request may carry; the order of  *)
(* equals is their order in the transcript, abstracted to any.               *)
ResolvablePaths(candidates, S) ==
    /\ S \subseteq DOMAIN candidates
    /\ Cardinality(S) = IF Cardinality(DOMAIN candidates) < ResolveCap
                        THEN Cardinality(DOMAIN candidates) ELSE ResolveCap
    /\ \A f \in S, g \in DOMAIN candidates \ S : candidates[g] <= candidates[f]

(* What a resolution says of a file: whether it is there, and its stamp. *)
Stat(f) == [exists |-> disk[f] > 0, size |-> IF disk[f] > 0 THEN 1 ELSE 0, updatedAt |-> disk[f]]
Unresolved == [exists |-> Unknown, size |-> 0, updatedAt |-> 0]

ApplyResolution(candidates, S) ==
    [f \in DOMAIN candidates |-> IF f \in S THEN Stat(f) ELSE Unresolved]
DegradeUnresolved(candidates) == [f \in DOMAIN candidates |-> Unresolved]

IsCollectibleArtifact(f, target) == target.exists = TRUE /\ f \in Collectible

(* Mutant of ArtifactChanged: the sizes are compared, the stamps are not. *)
ArtifactChangedSize(before, after) ==
    before.exists # after.exists \/ before.size # after.size

ArtifactChanged(before, after) ==
    \/ before.exists # after.exists
    \/ before.size # after.size
    \/ before.updatedAt # after.updatedAt

Menu(s) == {f \in DOMAIN targets[s] : IsCollectibleArtifact(f, targets[s][f])}

-----------------------------------------------------------------------------
(* queries/artifact-queries.ts and panel-dock.tsx                           *)

(* The text of the selected file is observed while it is in the listing. *)
Observed(s, f) == /\ s \in openPanels /\ s = onScreen /\ f = selection
                  /\ listing[s] # Unknown /\ f \in listing[s]

(* useArtifactFreshness: what differs from the targets seen last, whoever's  *)
(* they were, is to be read again.                                           *)
Changed(ref, next) == {f \in DOMAIN ref \cap DOMAIN next : ArtifactChanged(ref[f], next[f])}

Invalidated(s, S) ==
    [texts EXCEPT ![s] = [f \in Files |-> IF f \in S /\ texts[s][f] # Unknown
                                          THEN [texts[s][f] EXCEPT !.invalid = TRUE]
                                          ELSE texts[s][f]]]

(* The dock's effect on new data: freshness against the ref, the ref moves, *)
(* the store adopts the targets.                                            *)
SyncTargets(s, next) ==
    /\ texts' = Invalidated(s, Changed(previous, next))
    /\ textRequest' = IF \E f \in Changed(previous, next) : Observed(s, f) THEN Sent ELSE textRequest
    /\ previous' = next
    /\ targets' = [targets EXCEPT ![s] = next]
    /\ noticed' = [noticed EXCEPT ![s] = [f \in Files |->
            IF f \in DOMAIN targets[s] \cap DOMAIN next /\ previous = targets[s]
               /\ next[f].exists = TRUE /\ targets[s][f].exists = TRUE
               /\ next[f].updatedAt # targets[s][f].updatedAt
            THEN next[f].updatedAt ELSE noticed[s][f]]]

(* A resolution reaches the dock it was asked for. *)
Adopt(data) == /\ asked = data /\ data # Idle /\ data # Sent
               /\ resolution' = [resolution EXCEPT ![onScreen] = data]
               /\ asked' = Idle
               /\ SyncTargets(onScreen, data)
               /\ UNCHANGED <<disk, transcript, openPanels, onScreen, listing, selection,
                              clicks, existed>>

ResolveArrives == PanelShown /\ Adopt(asked)

(* The server stats the paths it was sent; a failure resolves nothing. *)
ResolveServed ==
    LET candidates == DeriveArtifactCandidates(transcript[onScreen])
    IN  /\ asked = Sent
        /\ \/ \E S \in SUBSET DOMAIN candidates :
                  ResolvablePaths(candidates, S) /\ asked' = ApplyResolution(candidates, S)
           \/ asked' = DegradeUnresolved(candidates)
        /\ UNCHANGED <<disk, transcript, openPanels, onScreen, resolution, previous, targets, listing,
                       selection, texts, textRequest, clicks, existed, noticed>>

(* An item joins a transcript: a new candidate set is a new query key, the   *)
(* request of the old key is aborted and the new one is sent.                *)
Says(s, item) ==
    LET after == Append(transcript[s], item)
        changed == DeriveArtifactCandidates(after) # DeriveArtifactCandidates(transcript[s])
    IN  /\ FoldSet(LAMBDA u, n : Len(transcript[u]) + n, 0, PanelSessions) < MaxRemarks
        /\ transcript' = [transcript EXCEPT ![s] = after]
        /\ IF changed
           THEN /\ resolution' = [resolution EXCEPT ![s] = Unknown]
                /\ asked' = IF PanelShown /\ s = onScreen THEN Sent ELSE asked
           ELSE UNCHANGED <<resolution, asked>>
        /\ UNCHANGED <<disk, openPanels, onScreen, previous, targets, listing, selection, texts, textRequest,
                       clicks, existed, noticed>>

(* Any session's agent, or the user's own editor, writes a file. *)
WritesFile(f) ==
    /\ FoldSet(LAMBDA g, n : disk[g] + n, 0, Files) < MaxVersion
    /\ disk' = [disk EXCEPT ![f] = @ + 1]
    /\ existed' = existed \cup {f}
    /\ UNCHANGED <<transcript, openPanels, onScreen, resolution, asked, previous, targets, listing, selection,
                   texts, textRequest, clicks, noticed>>

(* Mounting, or showing another session in a dock that stays mounted: cached *)
(* data is served at once and is asked for again once it is stale; the ref   *)
(* survives a change of session and not a remount.                           *)
ShowDock(s, mounting, stale) ==
    LET data == resolution[s]
        ref == IF mounting THEN [f \in {} |-> 0] ELSE previous
    IN  /\ asked' = IF data = Unknown \/ stale THEN Sent ELSE Idle
        /\ IF data = Unknown
           THEN previous' = ref /\ UNCHANGED <<targets, texts>>
           ELSE /\ previous' = data
                /\ targets' = [targets EXCEPT ![s] = data]
                /\ texts' = Invalidated(s, Changed(ref, data))
        /\ textRequest' = Idle
        /\ \/ ~stale /\ listing[s] # Unknown /\ UNCHANGED listing
           \/ (stale \/ listing[s] = Unknown)
              /\ listing' = [listing EXCEPT ![s] = {f \in Files : disk[f] > 0}]

Click == clicks < MaxClicks /\ clicks' = clicks + 1

(* Another session is selected in the rail. *)
SwitchSession(s) ==
    /\ Click /\ s # onScreen /\ onScreen' = s
    /\ selection' = NoFile
    /\ IF s \in openPanels
       THEN \E stale \in BOOLEAN : ShowDock(s, onScreen \notin openPanels, stale)
       ELSE /\ previous' = [f \in {} |-> 0] /\ asked' = Idle /\ textRequest' = Idle
            /\ UNCHANGED <<targets, texts, listing>>
    /\ UNCHANGED <<disk, transcript, openPanels, resolution, existed, noticed>>

(* PanelToggle, or the dock's close button: the dock is mounted only open. *)
TogglePanel ==
    /\ Click
    /\ selection' = NoFile
    /\ IF PanelShown
       THEN /\ openPanels' = openPanels \ {onScreen}
            /\ previous' = [f \in {} |-> 0] /\ asked' = Idle /\ textRequest' = Idle
            /\ UNCHANGED <<targets, texts, listing>>
       ELSE /\ openPanels' = openPanels \cup {onScreen}
            /\ \E stale \in BOOLEAN : ShowDock(onScreen, TRUE, stale)
    /\ UNCHANGED <<disk, transcript, onScreen, resolution, existed, noticed>>

(* A file is picked in the tree or in the artifacts menu: its text is read   *)
(* when it is text-like, listed, and not cached fresh.                       *)
Select(f) ==
    LET cached == texts[onScreen][f]
    IN  /\ Click /\ PanelShown /\ listing[onScreen] # Unknown
        /\ f \in listing[onScreen] \cup Menu(onScreen)
        /\ selection' = f
        /\ \E stale \in BOOLEAN :
              textRequest' = IF /\ f \in listing[onScreen]
                                /\ cached = Unknown \/ cached.invalid \/ stale
                             THEN Sent ELSE Idle
        /\ UNCHANGED <<disk, transcript, openPanels, onScreen, resolution, asked, previous, targets, listing,
                       texts, existed, noticed>>

(* The window regains focus: the text on screen is asked for again once stale. *)
FocusWindow ==
    /\ Click /\ Observed(onScreen, selection) /\ textRequest = Idle /\ textRequest' = Sent
    /\ UNCHANGED <<disk, transcript, openPanels, onScreen, resolution, asked, previous, targets, listing,
                   selection, texts, existed, noticed>>

ReadServed ==
    /\ textRequest = Sent /\ textRequest' = disk[selection]
    /\ UNCHANGED <<disk, transcript, openPanels, onScreen, resolution, asked, previous, targets, listing,
                   selection, texts, clicks, existed, noticed>>

ReadArrives ==
    /\ textRequest # Idle /\ textRequest # Sent
    /\ texts' = [texts EXCEPT ![onScreen][selection] = [version |-> textRequest, invalid |-> FALSE]]
    /\ textRequest' = Idle
    /\ UNCHANGED <<disk, transcript, openPanels, onScreen, resolution, asked, previous, targets, listing,
                   selection, clicks, existed, noticed>>

PanelInit ==
    /\ disk = [f \in Files |-> 0] /\ existed = {}
    /\ transcript = [s \in PanelSessions |-> <<>>]
    /\ openPanels = {} /\ onScreen \in PanelSessions
    /\ resolution = [s \in PanelSessions |-> Unknown] /\ asked = Idle
    /\ previous = [f \in {} |-> 0]
    /\ targets = [s \in PanelSessions |-> [f \in {} |-> 0]]
    /\ listing = [s \in PanelSessions |-> Unknown]
    /\ selection = NoFile
    /\ texts = [s \in PanelSessions |-> [f \in Files |-> Unknown]] /\ textRequest = Idle
    /\ clicks = 0
    /\ noticed = [s \in PanelSessions |-> [f \in Files |-> 0]]

PanelNext ==
    \/ \E s \in PanelSessions, item \in Remarks : Says(s, item)
    \/ \E f \in Files : WritesFile(f)
    \/ \E s \in PanelSessions : SwitchSession(s)
    \/ TogglePanel
    \/ \E f \in Files : Select(f)
    \/ ResolveServed \/ ResolveArrives
    \/ FocusWindow \/ ReadServed \/ ReadArrives

PanelSpec == PanelInit /\ [][PanelNext]_panelVars

-----------------------------------------------------------------------------
(* A file a write tool named is asked about before any file that was only    *)
(* talked about: when the cap leaves it out, only files with evidence as     *)
(* strong are asked about, however often prose repeated the others, and      *)
(* prose said later does not take a written file's standing away             *)
(* (addCandidate and the sort of deriveArtifactCandidates).                  *)
WrittenFirst ==
    \A s \in PanelSessions :
        LET candidates == DeriveArtifactCandidates(transcript[s])
            written == {f \in Files : \E i \in DOMAIN transcript[s] :
                            /\ transcript[s][i].kind = "write" /\ transcript[s][i].file = f
                            /\ CandidateFromFile(transcript[s][i]) # {}}
        IN  \A S \in SUBSET DOMAIN candidates : ResolvablePaths(candidates, S) =>
                (written \subseteq S \/ S \subseteq written)

(* The menu of a session offers only files its own transcript named as made, *)
(* and that the server found: a guess it could not reach, or another         *)
(* session's targets, are not offered (isCollectibleArtifact, syncTargets).  *)
OffersConfirmed ==
    \A s \in PanelSessions : \A f \in Menu(s) :
        /\ f \in existed
        /\ \E i \in DOMAIN transcript[s] : transcript[s][i].file = f

(* Once two confirmations of a session in a row brought two versions of a    *)
(* file, a text of the first is not what its preview rests on: it has been   *)
(* read again, is being read, or is marked (useArtifactFreshness).           *)
TextFollows ==
    \A s \in PanelSessions, f \in Files :
        LET text == texts[s][f]
        IN  text = Unknown \/ text.invalid \/ text.version >= noticed[s][f]

(* The dock can be trusted: it asks first about what was written, offers   *)
(* what exists, and its text keeps up with the file.                       *)
ArtifactsTrusted == WrittenFirst /\ OffersConfirmed /\ TextFollows
=============================================================================
