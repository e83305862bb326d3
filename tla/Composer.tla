------------------------------ MODULE Composer ------------------------------
(***************************************************************************)
(* What the reader writes, from the first keystroke to the accepted turn   *)
(* (session/composer): a draft per session in memory and in localStorage,  *)
(* pasted blocks held beside it, images read in the background, a send     *)
(* that clears the box before it is answered and gives the words back when *)
(* it is refused.  A draft is a sequence of chunks, each a phrase entered  *)
(* once, or the token of a pasted block.                                   *)
(***************************************************************************)
EXTENDS Integers, Sequences, FiniteSets, SequencesExt

CONSTANTS Chats,            \* session ids
          NewKey,           \* '@new': the draft of no session yet
          Existing,         \* sessions that exist at the start
          Chunks, Pasted,   \* phrases, and those pasted as a block
          BareToken,        \* what the server gets of a block whose part is gone
          Pictures,         \* image files
          MaxStored,        \* MAX_STORED_DRAFTS
          MaxWrites         \* bound: acts of the reader

ASSUME ComposerAssumption ==
    /\ NewKey \notin Chats /\ Existing \subseteq Chats
    /\ Pasted \subseteq Chunks /\ BareToken \notin Chunks
    /\ MaxStored \in Nat \ {0} /\ MaxWrites \in Nat

Keys == Chats \cup {NewKey}

VARIABLES at,               \* the key of the mounted composer
          drafts, pastes,   \* useComposerStore, by key
          pictures,         \* images by key, each <<where it was pasted, file>>
          steering,
          storage,          \* localStorage: <<key, draft>>, oldest first
          reading,          \* images being read
          sends,            \* sends under way
          accepted,         \* chunks of the turns the server accepted
          made,             \* sessions that exist
          phase,            \* what each transcript says of its turn
          entered,          \* chunks entered so far
          excused,          \* chunks the reader or a known race took away
          writes

composerVars == <<at, drafts, pastes, pictures, steering, storage, reading, sends, accepted,
                  made, phase, entered, excused, writes>>

Said(draft) == ToSet(draft)
(* resolvePastedText: what arrives in words; the token of a block whose     *)
(* part is gone stands for itself.                                         *)
Resolve(draft, parts) ==
    [i \in DOMAIN draft |-> IF draft[i] \in Pasted \ parts THEN BareToken ELSE draft[i]]

(* saveDraft: re-inserted at the end, the oldest dropped beyond the limit. *)
Slots(store, key) == {i \in DOMAIN store : store[i][1] = key}
Without(store, key) ==
    IF Slots(store, key) = {} THEN store ELSE RemoveAt(store, CHOOSE i \in Slots(store, key) : TRUE)
SaveDraft(store, key, draft) ==
    LET others == Without(store, key)
        longer == IF draft = <<>> THEN others ELSE Append(others, <<key, draft>>)
    IN  IF Len(longer) > MaxStored THEN Tail(longer) ELSE longer
LoadDraft(store, key) ==
    IF Slots(store, key) = {} THEN <<>> ELSE store[CHOOSE i \in Slots(store, key) : TRUE][2]

(* The subscription of the mounted composer saves its own key only.        *)
Persist(key, draft) == IF key = at /\ draft # drafts[key] THEN SaveDraft(storage, key, draft) ELSE storage
Evicted == UNION {Said(LoadDraft(storage, key)) : key \in {k \in Keys \ {at} : Slots(storage', k) = {}}}

(* retainReferencedPastes: a part whose token is gone is gone.             *)
Prune(parts, draft) == parts \cap Said(draft)

(* sendState: a busy session steers, one that waits for an answer neither. *)
Engaged(key) == phase[key] # "idle" \/ \E s \in sends : s.target = key /\ s.stage # "creating"
CanSubmit(key) == drafts[key] # <<>> /\ phase[key] # "waiting"

(* Sends that will write into the box of a key, and what they carry: an    *)
(* edit under them prunes their blocks, their refusal overwrites it.       *)
Sharing(key) == {s \in sends : key \in {s.from, s.target}}
Contested(key) == UNION {Said(s.raw) : s \in Sharing(key)}

---------------------------------------------------------------------------
ComposerInit ==
    /\ at \in {NewKey} \cup Existing
    /\ drafts = [k \in Keys |-> <<>>] /\ pastes = [k \in Keys |-> {}]
    /\ pictures = [k \in Keys |-> {}] /\ steering = [k \in Keys |-> FALSE]
    /\ storage = <<>> /\ reading = {} /\ sends = {} /\ accepted = <<>> /\ made = Existing
    /\ phase = [k \in Keys |-> "idle"]
    /\ entered = {} /\ excused = {} /\ writes = 0

Writing == writes < MaxWrites /\ writes' = writes + 1

(* Typing, or pasting a long block: rememberPaste, then its token.         *)
EnterChunk == \E c \in Chunks \ entered :
    /\ Writing /\ entered' = entered \cup {c}
    /\ drafts' = [drafts EXCEPT ![at] = Append(@, c)]
    /\ pastes' = [pastes EXCEPT ![at] = Prune(@ \cup ({c} \cap Pasted), drafts'[at])]
    /\ storage' = Persist(at, drafts'[at])
    /\ excused' = excused \cup Evicted
                  \cup (IF Sharing(at) = {} THEN {} ELSE {c} \cup Contested(at))
    /\ UNCHANGED <<at, pictures, steering, reading, sends, accepted, made, phase>>

DeleteChunk ==
    /\ Writing /\ drafts[at] # <<>>
    /\ drafts' = [drafts EXCEPT ![at] = Front(@)]
    /\ pastes' = [pastes EXCEPT ![at] = Prune(@, drafts'[at])]
    /\ storage' = Persist(at, drafts'[at])
    /\ excused' = excused \cup Evicted \cup {Last(drafts[at])} \cup Contested(at)
    /\ UNCHANGED <<at, pictures, steering, reading, sends, accepted, made, phase, entered>>

(* An image is pasted; intakeImageFile reads it and may refuse it.         *)
PastePicture == \E p \in Pictures :
    /\ Writing
    /\ reading' = reading \cup {<<at, p>>}
    /\ UNCHANGED <<at, drafts, pastes, pictures, steering, storage, sends, accepted, made, phase,
                   entered, excused>>

(* The key captured by the paste handler, whatever is on screen now.       *)
IntakeKey(r) == r[1]
PictureRead == \E r \in reading, ok \in BOOLEAN :
    /\ reading' = reading \ {r}
    /\ pictures' = IF ok THEN [pictures EXCEPT ![IntakeKey(r)] = @ \cup {r}] ELSE pictures
    /\ UNCHANGED <<at, drafts, pastes, steering, storage, sends, accepted, made, phase,
                   entered, excused, writes>>

(* clearDraft.                                                             *)
ClearDraft(key) == [drafts EXCEPT ![key] = <<>>]

(* send up to its first await.  To an existing session: the box is cleared *)
(* and the message posted, steering a busy turn.  To none: one is created. *)
Submit ==
    /\ Writing /\ CanSubmit(at)
    /\ sends' = sends \cup {[n |-> writes, from |-> at, target |-> at,
                             stage |-> IF at = NewKey THEN "creating" ELSE "posting",
                             raw |-> drafts[at], said |-> Resolve(drafts[at], pastes[at]),
                             shown |-> pictures[at], ok |-> FALSE]}
    /\ IF at = NewKey
       THEN /\ excused' = excused \cup Said(drafts[at])
            /\ UNCHANGED <<drafts, pictures, steering, storage>>
       ELSE /\ drafts' = ClearDraft(at) /\ storage' = Persist(at, drafts'[at])
            /\ pictures' = [pictures EXCEPT ![at] = {}]
            /\ steering' = [steering EXCEPT ![at] = @ \/ Engaged(at)]
            /\ excused' = IF Sharing(at) = {} THEN excused
                          ELSE excused \cup Said(drafts[at]) \cup Contested(at)
    /\ UNCHANGED <<at, pastes, reading, accepted, made, phase, entered>>

(* The session of a first message is made: clear, move there, post.        *)
Created == \E s \in sends, c \in Chats \ made :
    /\ s.stage = "creating" /\ made' = made \cup {c} /\ at' = c
    /\ sends' = (sends \ {s}) \cup {[s EXCEPT !.target = c, !.stage = "posting"]}
    /\ excused' = excused \cup Said(drafts[NewKey])
    /\ drafts' = ClearDraft(NewKey) /\ storage' = Persist(NewKey, drafts'[NewKey])
    /\ pictures' = [pictures EXCEPT ![NewKey] = {}]
    /\ UNCHANGED <<pastes, steering, reading, accepted, phase, entered, writes>>

NotCreated == \E s \in sends :
    /\ s.stage = "creating" /\ sends' = sends \ {s}
    /\ UNCHANGED <<at, drafts, pastes, pictures, steering, storage, reading, accepted, made, phase,
                   entered, excused, writes>>

(* POST /messages at the server: accepted, or refused while it waits.      *)
ServeSend == \E s \in sends :
    /\ s.stage = "posting"
    /\ \E ok \in BOOLEAN :
         /\ ok => phase[s.target] # "waiting"
         /\ sends' = (sends \ {s}) \cup {[s EXCEPT !.stage = "served", !.ok = ok]}
         /\ accepted' = IF ok THEN accepted \o s.said ELSE accepted
         /\ phase' = IF ok THEN [phase EXCEPT ![s.target] = "running"] ELSE phase
    /\ UNCHANGED <<at, drafts, pastes, pictures, steering, storage, reading, made,
                   entered, excused, writes>>

Discarded(s) == drafts
(* A refused send gives the draft and the images back to its session.      *)
Restored(s) == [drafts EXCEPT ![s.target] = s.raw]

(* The answer, or the failure an answer lost on the way reads as.          *)
SendReturns == \E s \in sends, lost \in BOOLEAN :
    /\ s.stage = "served" /\ sends' = sends \ {s}
    /\ IF s.ok /\ ~lost
       THEN UNCHANGED <<drafts, pastes, pictures, storage, excused>>
       ELSE /\ drafts' = Restored(s)
            /\ pastes' = [pastes EXCEPT ![s.target] = Prune(@, s.raw)]
            /\ storage' = Persist(s.target, drafts'[s.target])
            /\ pictures' = [pictures EXCEPT ![s.target] = @ \cup s.shown]
            /\ excused' = excused \cup Evicted
                          \cup (IF s.ok \/ at # s.target THEN Said(s.raw) ELSE {})
    /\ UNCHANGED <<at, steering, reading, accepted, made, phase, entered, writes>>

(* useDraftPersistence on another key: stored words, into an empty box.    *)
Mount(key, boxes) ==
    drafts' = IF boxes[key] = <<>> THEN [boxes EXCEPT ![key] = LoadDraft(storage, key)] ELSE boxes

SwitchTo == \E key \in made \cup {NewKey} :
    /\ Writing /\ key # at /\ at' = key /\ Mount(key, drafts)
    /\ UNCHANGED <<pastes, pictures, steering, storage, reading, sends, accepted, made, phase,
                   entered, excused>>

(* The tab reloads: memory goes, blocks, images and sends under way with   *)
(* it; drafts come back from storage as their keys are mounted.            *)
Reload ==
    /\ Writing
    /\ Mount(at, [k \in Keys |-> <<>>])
    /\ pastes' = [k \in Keys |-> {}] /\ pictures' = [k \in Keys |-> {}]
    /\ steering' = [k \in Keys |-> FALSE] /\ reading' = {} /\ sends' = {}
    /\ excused' = excused \cup Pasted \cup UNION {Said(s.raw) : s \in sends}
    /\ UNCHANGED <<at, storage, accepted, made, phase, entered>>

(* The stream moves the turn; steering ends with it on the next render.    *)
TurnMoves == \E c \in made, p \in {"idle", "waiting"} :
    /\ phase[c] = "running" /\ phase' = [phase EXCEPT ![c] = p]
    /\ UNCHANGED <<at, drafts, pastes, pictures, steering, storage, reading, sends, accepted, made,
                   entered, excused, writes>>
TurnResumes == \E c \in made :
    /\ phase[c] = "waiting" /\ phase' = [phase EXCEPT ![c] = "running"]
    /\ UNCHANGED <<at, drafts, pastes, pictures, steering, storage, reading, sends, accepted, made,
                   entered, excused, writes>>
Unsteer == /\ steering[at] /\ ~Engaged(at) /\ steering' = [steering EXCEPT ![at] = FALSE]
           /\ UNCHANGED <<at, drafts, pastes, pictures, storage, reading, sends, accepted, made,
                          phase, entered, excused, writes>>

ComposerNext == \/ EnterChunk \/ DeleteChunk \/ PastePicture \/ PictureRead \/ Submit \/ Created
                \/ NotCreated \/ ServeSend \/ SendReturns \/ SwitchTo \/ Reload \/ TurnMoves
                \/ TurnResumes \/ Unsteer

---------------------------------------------------------------------------
(* Where a chunk is: in a box (or stored for one that is empty), under way *)
(* or, in words, in a turn the server accepted.                            *)
Box(key) == IF drafts[key] = <<>> THEN LoadDraft(storage, key) ELSE drafts[key]
Places(c) == Cardinality({k \in Keys : c \in Said(Box(k))})
             + Cardinality({s \in sends : c \in Said(s.raw) /\ ~s.ok})
             + Cardinality({i \in DOMAIN accepted : accepted[i] = c})

(* Words are kept exactly once through sends, refusals, switches of        *)
(* session and reloads, unless the reader deleted them, wrote under a send *)
(* of the same box, sent them as the first message of a session, or lost   *)
(* an answer, a block or a stored draft to the named limits.               *)
WordsKeptOnce == \A c \in entered \ excused : Places(c) = 1

(* An image is sent from the session it was pasted into, however late it   *)
(* was read and wherever the reader went meanwhile.                        *)
PicturesStay == \A s \in sends : \A p \in s.shown : p[1] \in {s.from, NewKey}

(* What the reader composed is not lost, doubled or sent elsewhere: words  *)
(* by the first part, images by the second.                                *)
NothingLost == WordsKeptOnce /\ PicturesStay
=============================================================================
