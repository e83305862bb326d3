--------------------------- MODULE ComposerProofs ---------------------------
(***************************************************************************)
(* Proofs about what the reader composes (ComposedMessage).                *)
(***************************************************************************)
EXTENDS ComposedMessage, FiniteSetTheorems, WellFoundedInduction, TLAPS

-----------------------------------------------------------------------------
(* What is pasted.  A paste is counted before it lands, so a new one is    *)
(* none of those that have; an image on the strip is one both sides take.  *)

Sound(image) ==
    /\ image.media \in AllowedImageTypes
    /\ image.bytes \in Nat \ {0} /\ image.bytes <= MaxImageBytes
    /\ image.bytes <= image.of.size
    /\ NormalizeMediaType(image.of.type) = "image/gif" => image.frames = image.of.frames

IntakeInv ==
    /\ pasted \in Nat
    /\ \A b \in incoming : b.paste \in 1 .. pasted /\ b.files \subseteq PastedFiles
    /\ \A a \in attached \cup stored : a[1] \in 1 .. pasted /\ Sound(a[2])
    /\ \A p \in inBox : p[1] \in 1 .. pasted
    /\ verdict # "invalid_image"
    /\ PasteLandsOnce

(* What is sent of a file: the file or, never of an animation, less of it. *)
LEMMA CompressedIsLess ==
    ASSUME NEW f \in PastedFiles
    PROVE  LET prepared == CompressImageFile(f)
           IN  /\ prepared.size \in Nat /\ prepared.size <= f.size
               /\ f.size # 0 => prepared.size # 0
               /\ prepared.type \in {f.type, "image/jpeg"}
               /\ NormalizeMediaType(f.type) = "image/gif" => prepared.frames = f.frames
<1> DEFINE encoded == [f EXCEPT !.type = "image/jpeg", !.size = f.encoded, !.frames = 1]
<1>1. f.size \in Nat /\ f.encoded \in Nat
  BY DEF PastedFiles
<1>2. encoded.size = f.encoded /\ encoded.type = "image/jpeg"
  BY DEF PastedFiles
<1>3. CASE /\ NormalizeMediaType(f.type) # "image/gif" /\ ~(f.size <= CompressThreshold)
           /\ f.decodes /\ f.encoded # 0 /\ f.encoded < f.size
  <2>1. CompressImageFile(f) = encoded
    BY <1>3 DEF CompressImageFile
  <2> HIDE DEF encoded
  <2>2. QED
    BY <1>1, <1>2, <1>3, <2>1
<1>4. CASE ~(/\ NormalizeMediaType(f.type) # "image/gif" /\ ~(f.size <= CompressThreshold)
             /\ f.decodes /\ f.encoded # 0 /\ f.encoded < f.size)
  <2>1. CompressImageFile(f) = f
    BY <1>4 DEF CompressImageFile
  <2>2. QED
    BY <1>1, <2>1
<1>5. QED
  BY <1>3, <1>4

(* An image that is not rejected is sound.                                 *)
LEMMA TakenIsSound ==
    ASSUME NEW f \in PastedFiles, Rejection(f) = "none"
    PROVE  Sound(IntakeImageFile(f))
<1> DEFINE prepared == CompressImageFile(f)
<1>1. /\ prepared.size \in Nat /\ prepared.size <= f.size
      /\ f.size # 0 => prepared.size # 0
      /\ prepared.type \in {f.type, "image/jpeg"}
      /\ NormalizeMediaType(f.type) = "image/gif" => prepared.frames = f.frames
  BY CompressedIsLess
<1>2. /\ f.size # 0 /\ NormalizeMediaType(f.type) \in AllowedImageTypes
      /\ ~(prepared.size > MaxImageBytes)
  BY DEF Rejection
<1>3. NormalizeMediaType("image/jpeg") = "image/jpeg" /\ "image/jpeg" \in AllowedImageTypes
  BY DEF NormalizeMediaType, AllowedImageTypes
<1>4. LET image == IntakeImageFile(f)
      IN  /\ image.media = NormalizeMediaType(prepared.type) /\ image.bytes = prepared.size
          /\ image.frames = prepared.frames /\ image.of = f
  BY DEF IntakeImageFile
<1> HIDE DEF prepared
<1>5. prepared.size <= MaxImageBytes
  BY <1>1, <1>2, IntakeAssumption
<1>6. QED
  BY <1>1, <1>2, <1>3, <1>4, <1>5 DEF Sound

(* What the composer refuses for its type or its size, the server would.   *)
LEMMA RefusedByBoth ==
    ASSUME NEW f \in PastedFiles, Rejection(f) \in {"type", "size"}
    PROVE  Refused([media |-> NormalizeMediaType(f.type), bytes |-> f.size])
<1> DEFINE prepared == CompressImageFile(f)
<1>1. prepared.size \in Nat /\ prepared.size <= f.size /\ f.size \in Nat
  BY CompressedIsLess DEF PastedFiles
<1>2. NormalizeMediaType(f.type) \notin AllowedImageTypes \/ prepared.size > MaxImageBytes
  BY DEF Rejection
<1> HIDE DEF prepared
<1>3. NormalizeMediaType(f.type) \notin AllowedImageTypes \/ f.size > MaxImageBytes
  BY <1>1, <1>2, IntakeAssumption
<1>4. QED
  BY <1>3 DEF Refused

LEMMA IntakeInitially == IntakeInit => IntakeInv
BY DEF IntakeInit, IntakeInv, PasteLandsOnce

LEMMA PasteStep ==
    ASSUME IntakeInv, NEW transfer \in Transfers, HandleComposerPaste(transfer)
    PROVE  IntakeInv'
<1>1. /\ pasted \in Nat /\ pasted' = pasted + 1 /\ attached' = attached /\ stored' = stored
      /\ verdict' = verdict
  BY DEF HandleComposerPaste, IntakeInv
<1>2. pasted' \in 1 .. pasted' /\ pasted' \notin 1 .. pasted /\ 1 .. pasted \subseteq 1 .. pasted'
  BY <1>1
<1>3. CASE ClassifyPaste(transfer) = "files"
  <2>1. incoming' = incoming \cup {[paste |-> pasted', files |-> transfer.files]} /\ inBox' = inBox
    BY <1>3 DEF HandleComposerPaste
  <2>2. transfer.files \subseteq PastedFiles
    BY IntakeAssumption
  <2>3. \A b \in incoming' : b.paste \in 1 .. pasted' /\ b.files \subseteq PastedFiles
    BY <1>2, <2>1, <2>2 DEF IntakeInv
  <2>4. PasteLandsOnce'
    BY <1>1, <1>2, <2>1 DEF IntakeInv, PasteLandsOnce
  <2>5. QED
    BY <1>1, <1>2, <2>1, <2>3, <2>4 DEF IntakeInv
<1>4. CASE ClassifyPaste(transfer) # "files"
  <2> DEFINE mark == IF ClassifyPaste(transfer) = "links" THEN "links"
                     ELSE IF ShouldCollapsePaste(transfer.text) THEN "chip" ELSE "inline"
             what == IF ClassifyPaste(transfer) = "links" THEN transfer.links ELSE {transfer.text}
  <2>1. inBox' = inBox \cup {<<pasted', mark, what>>} /\ incoming' = incoming
    BY <1>4 DEF HandleComposerPaste, ClassifyPaste
  <2>2. mark = "chip" => \A t \in what : ~t.url
    BY DEF ShouldCollapsePaste
  <2> HIDE DEF mark, what
  <2>3. \A p \in inBox : p[1] # pasted'
    BY <1>2 DEF IntakeInv
  <2>4. /\ \A b \in incoming : b.paste # pasted'
        /\ \A a \in attached \cup stored : a[1] # pasted'
    BY <1>2 DEF IntakeInv
  <2>5. PasteLandsOnce'
    BY <1>1, <2>1, <2>2, <2>3, <2>4 DEF IntakeInv, PasteLandsOnce
  <2>6. QED
    BY <1>1, <1>2, <2>1, <2>5 DEF IntakeInv
<1>5. QED
  BY <1>3, <1>4

LEMMA BatchStep ==
    ASSUME IntakeInv, NEW batch \in incoming, BatchPrepared(batch)
    PROVE  IntakeInv'
<1> DEFINE taken == {<<batch.paste, IntakeImageFile(f)>> : f \in {g \in batch.files : Rejection(g) = "none"}}
<1>1. /\ incoming' = incoming \ {batch} /\ attached' = attached \cup taken
      /\ UNCHANGED <<inBox, stored, verdict, pasted>>
  BY DEF BatchPrepared
<1>2. \A a \in taken : a[1] = batch.paste /\ Sound(a[2])
  <2>1. batch.files \subseteq PastedFiles
    BY DEF IntakeInv
  <2>2. QED
    BY <2>1, TakenIsSound
<1> HIDE DEF taken
<1>3. PasteLandsOnce'
  BY <1>1, <1>2 DEF IntakeInv, PasteLandsOnce
<1>4. QED
  BY <1>1, <1>2, <1>3 DEF IntakeInv

LEMMA SendStep ==
    ASSUME IntakeInv, SendAttached
    PROVE  IntakeInv'
<1>1. /\ stored' \subseteq stored \cup attached /\ attached' = {}
      /\ UNCHANGED <<incoming, inBox, pasted>>
  BY DEF SendAttached
<1>2. verdict' # "invalid_image"
  <2>1. \A a \in attached : ~Refused(a[2])
    <3> SUFFICES ASSUME NEW a \in attached PROVE ~Refused(a[2])
      OBVIOUS
    <3>1. Sound(a[2])
      BY DEF IntakeInv
    <3>2. a[2].media \in AllowedImageTypes /\ a[2].bytes \in Nat \ {0} /\ a[2].bytes <= MaxImageBytes
      BY <3>1 DEF Sound
    <3>3. QED
      BY <3>2, IntakeAssumption DEF Refused
  <2>2. QED
    BY <2>1 DEF SendAttached, DecodeImages
<1>3. PasteLandsOnce'
  BY <1>1 DEF IntakeInv, PasteLandsOnce
<1>4. QED
  BY <1>1, <1>2, <1>3 DEF IntakeInv

LEMMA IntakeStep == IntakeInv /\ [IntakeNext]_intakeVars => IntakeInv'
<1> SUFFICES ASSUME IntakeInv, [IntakeNext]_intakeVars PROVE IntakeInv'
  OBVIOUS
<1>1. ASSUME NEW image \in attached, RemoveImage(image) PROVE IntakeInv'
  <2>1. attached' \subseteq attached /\ UNCHANGED <<incoming, refusals, inBox, stored, verdict, pasted>>
    BY <1>1 DEF RemoveImage
  <2>2. PasteLandsOnce'
    BY <2>1 DEF IntakeInv, PasteLandsOnce
  <2>3. QED
    BY <2>1, <2>2 DEF IntakeInv
<1>2. CASE UNCHANGED intakeVars
  BY <1>2 DEF intakeVars, IntakeInv, PasteLandsOnce
<1>3. QED
  BY <1>1, <1>2, PasteStep, BatchStep, SendStep DEF IntakeNext

LEMMA IntakeIsSound == IntakeInv => AttachmentsTaken
<1> SUFFICES ASSUME IntakeInv PROVE AttachmentsTaken
  OBVIOUS
<1>1. SidesAgree
  BY RefusedByBoth DEF IntakeInv, SidesAgree
<1>2. CompressionSafe
  BY DEF IntakeInv, CompressionSafe, Sound
<1>3. QED
  BY <1>1, <1>2 DEF IntakeInv, AttachmentsTaken

-----------------------------------------------------------------------------
(* The model and the effort.  What a message carries was offered by the    *)
(* catalogue it was resolved against (Offers), and while it waits for its   *)
(* session the same holds of what it would carry.                          *)

LEMMA LeastNatural ==
    ASSUME NEW T \in SUBSET Nat, T # {}
    PROVE  \E n \in T : \A m \in T : n <= m
<1> DEFINE R == {p \in Nat \X Nat : p[1] < p[2]}
<1>1. IsWellFoundedOn(R, Nat)
  BY NatLessThanWellFounded DEF OpToRel
<1> HIDE DEF R
<1>2. PICK x \in T : \A y \in T : ~(<<y, x>> \in R)
  BY <1>1, WFMin
<1>3. ASSUME NEW y \in T PROVE x <= y
  <2>1. x \in Nat /\ y \in Nat
    OBVIOUS
  <2>2. y < x => <<y, x>> \in R
    BY <2>1 DEF R
  <2>3. QED
    BY <1>2, <2>1, <2>2
<1>4. QED
  BY <1>3

LEMMA DefaultIsListed ==
    ASSUME NEW models \in Catalogues
    PROVE  \E i \in DOMAIN models : DefaultModel(models) = models[i]
<1> DEFINE marked == {i \in DOMAIN models : models[i].default}
<1>1. marked \in SUBSET Nat /\ 1 \in DOMAIN models
  BY ChoiceAssumption
<1>2. CASE marked = {}
  <2>1. DefaultModel(models) = models[1]
    BY <1>2 DEF DefaultModel
  <2>2. QED
    BY <1>1, <2>1
<1>3. CASE marked # {}
  <2> DEFINE least == CHOOSE i \in marked : \A j \in marked : i <= j
  <2>1. DefaultModel(models) = models[least]
    BY <1>3 DEF DefaultModel
  <2>2. least \in marked
    <3> HIDE DEF marked
    <3>1. \E i \in marked : \A j \in marked : i <= j
      BY <1>1, <1>3, LeastNatural
    <3>2. QED
      BY <3>1
  <2>3. QED
    BY <2>1, <2>2
<1>4. QED
  BY <1>2, <1>3

LEMMA DefinitionIsListed ==
    ASSUME NEW models, NEW id \in ModelIds(models)
    PROVE  \E i \in DOMAIN models : Definition(models, id) = models[i] /\ models[i].id = id
<1>1. PICK i \in DOMAIN models : models[i].id = id
  BY DEF ModelIds
<1>2. models[i] \in ToSet(models)
  BY DEF ToSet
<1>3. Definition(models, id) \in ToSet(models) /\ Definition(models, id).id = id
  BY <1>1, <1>2 DEF Definition
<1>4. QED
  BY <1>3 DEF ToSet

(* Nothing is named, or a model of the file with an effort of its ladder.  *)
Named(models, pick) == Offers(models, pick) /\ (pick.model = Unset => pick.effort = Unset)

LEMMA SelectionIsOffered ==
    ASSUME NEW models \in Catalogues \cup {<<>>}, NEW chosen
    PROVE  Named(models, ResolveSelection(models, chosen))
<1> DEFINE pick == ResolveSelection(models, chosen)
           model == IF chosen.model \in ModelIds(models) THEN Definition(models, chosen.model)
                    ELSE DefaultModel(models)
<1>1. CASE models = <<>>
  <2>1. pick.model = Unset /\ pick.effort = Unset
    BY <1>1 DEF ResolveSelection, NoSelection
  <2>2. QED
    BY <2>1 DEF Named, Offers
<1>2. CASE models # <<>>
  <2>1. models \in Catalogues
    BY <1>2
  <2>2. pick.model = model.id /\ (pick.effort \in model.efforts \/ pick.effort = Unset)
    BY <1>2 DEF ResolveSelection
  <2>3. PICK i \in DOMAIN models : model = models[i]
    BY <2>1, DefaultIsListed, DefinitionIsListed
  <2>4. model.id \in ModelIds(models) /\ model.id # Unset
    BY <2>1, <2>3, ChoiceAssumption DEF ModelIds
  <2>5. Ladder(models, model.id) = model.efforts
    <3>1. PICK j \in DOMAIN models : Definition(models, model.id) = models[j] /\ models[j].id = model.id
      BY <2>4, DefinitionIsListed
    <3>2. i = j
      BY <2>1, <2>3, <3>1, ChoiceAssumption
    <3>3. QED
      BY <2>3, <2>4, <3>1, <3>2 DEF Ladder
  <2>6. QED
    BY <2>2, <2>4, <2>5 DEF Named, Offers
<1>3. QED
  BY <1>1, <1>2

(* The model shown depends on the model chosen only.                       *)
LEMMA SelectionModel ==
    ASSUME NEW models, NEW c, NEW d, c.model = d.model
    PROVE  ResolveSelection(models, c).model = ResolveSelection(models, d).model
BY DEF ResolveSelection

Waits(p) == p.stage = "creating"

Letter(p) ==
    /\ p = [n |-> p.n, to |-> p.to, stage |-> p.stage, sent |-> p.sent, offered |-> p.offered,
            held |-> p.held, left |-> p.left, rides |-> p.rides, end |-> p.end, ran |-> p.ran,
            known |-> p.known]
    /\ p.stage \in {"creating", "posting", "landing", "landed"}
    /\ p.end \in {"ran", "refused"} => p.stage = "landed"
    /\ ~Waits(p) => Named(p.offered, p.sent) /\ p.sent.model \notin p.left
    /\ Waits(p) /\ p.held = Unset => Selection(Opener).model \notin p.left
    /\ Waits(p) /\ p.held # Unset => Named(p.offered, p.held) /\ p.held.model \notin p.left

Right(p) ==
    /\ p.end = "ran" /\ p.sent.model # Unset =>
          /\ p.ran.model = p.sent.model
          /\ p.sent.effort # Unset => p.ran.effort = p.sent.effort
          /\ p.ran.effort = Unset \/ p.ran.effort \in Ladder(p.known, p.ran.model)
    /\ p.end = "refused" => p.offered # p.known /\ ~Offers(p.known, p.sent)

Boxed == Talks \cup {Opener}

ChoiceInv ==
    /\ catalogue \in Catalogues /\ menu \in Catalogues \cup {<<>>}
    /\ choices = [k \in Boxed |-> [model |-> choices[k].model, effort |-> choices[k].effort]]
    /\ page \in Boxed /\ started \subseteq Talks
    /\ \A p \in outbox : Letter(p) /\ Right(p)

LEMMA ChoiceInitially == ChoiceInit => ChoiceInv
<1> SUFFICES ASSUME ChoiceInit PROVE ChoiceInv
  OBVIOUS
<1>1. \A k \in Boxed : choices[k] = [model |-> choices[k].model, effort |-> choices[k].effort]
  BY DEF ChoiceInit, NoSelection, Boxed
<1>2. choices = [k \in Boxed |-> choices[k]]
  BY DEF ChoiceInit, Boxed
<1>3. choices = [k \in Boxed |-> [model |-> choices[k].model, effort |-> choices[k].effort]]
  BY <1>1, <1>2
<1>4. QED
  BY <1>3, ChoiceAssumption DEF ChoiceInit, ChoiceInv, Boxed

(* A message as it is, while the selection on the opener does not change.  *)
LEMMA LetterKept ==
    ASSUME NEW p, Letter(p), Selection(Opener)'.model = Selection(Opener).model
    PROVE  Letter(p)'
BY DEF Letter, Waits

LEMMA SelectionKept ==
    ASSUME menu' = menu, choices' = choices
    PROVE  Selection(Opener)' = Selection(Opener)
BY DEF Selection

LEMMA ArriveStep == ChoiceInv /\ ModelsArrive => ChoiceInv'
<1> SUFFICES ASSUME ChoiceInv, ModelsArrive PROVE ChoiceInv'
  OBVIOUS
<1>1. /\ menu' = catalogue /\ outbox' = {[p EXCEPT !.left = {}] : p \in outbox}
      /\ UNCHANGED <<catalogue, choices, page, started>>
  BY DEF ModelsArrive
<1>2. ASSUME NEW p \in outbox, NEW q, q = [p EXCEPT !.left = {}] PROVE Letter(q)' /\ Right(q)'
  <2>1. Letter(p) /\ Right(p)
    BY DEF ChoiceInv
  <2>2. q = [n |-> p.n, to |-> p.to, stage |-> p.stage, sent |-> p.sent, offered |-> p.offered,
             held |-> p.held, left |-> {}, rides |-> p.rides, end |-> p.end, ran |-> p.ran,
             known |-> p.known]
    BY <1>2, <2>1 DEF Letter
  <2>3. QED
    BY <2>1, <2>2 DEF Letter, Right, Waits
<1>3. QED
  BY <1>1, <1>2 DEF ChoiceInv

LEMMA PickModelStep == ChoiceInv /\ PickModel => ChoiceInv'
<1> SUFFICES ASSUME ChoiceInv, PickModel PROVE ChoiceInv'
  OBVIOUS
<1>1. PICK pick : /\ \E id : pick = [model |-> id, effort |-> Unset]
                  /\ choices' = [choices EXCEPT ![page] = pick] /\ outbox' = Repicked(pick)
                  /\ UNCHANGED <<catalogue, menu, page, started>>
  BY DEF PickModel
<1>2. choices' = [k \in Boxed |-> [model |-> choices'[k].model, effort |-> choices'[k].effort]]
  BY <1>1 DEF ChoiceInv
<1>3. ASSUME NEW p \in outbox, NEW q,
             q = IF p.stage = "creating" /\ p.held = Unset /\ page = Opener
                 THEN [p EXCEPT !.left = (@ \cup {Selection(page).model})
                                         \ {ResolveSelection(menu, pick).model}]
                 ELSE p
      PROVE  Letter(q)' /\ Right(q)'
  <2>1. Letter(p) /\ Right(p) /\ Opener \in Boxed
    BY DEF ChoiceInv, Boxed
  <2>2. CASE p.stage = "creating" /\ p.held = Unset /\ page = Opener
    <3>1. q = [p EXCEPT !.left = (p.left \cup {Selection(page).model})
                                 \ {ResolveSelection(menu, pick).model}]
      BY <1>3, <2>2
    <3>2. PICK left : /\ left = (p.left \cup {Selection(page).model}) \ {ResolveSelection(menu, pick).model}
                      /\ q = [n |-> p.n, to |-> p.to, stage |-> p.stage, sent |-> p.sent,
                              offered |-> p.offered, held |-> p.held, left |-> left,
                              rides |-> p.rides, end |-> p.end, ran |-> p.ran, known |-> p.known]
      BY <2>1, <3>1 DEF Letter
    <3>3. Selection(Opener)'.model \notin left
      <4>1. choices'[Opener] = pick
        BY <1>1, <2>1, <2>2 DEF ChoiceInv
      <4>2. Selection(Opener)' = ResolveSelection(menu, pick)
        BY <1>1, <4>1 DEF Selection
      <4>3. QED
        BY <3>2, <4>2
    <3>4. QED
      BY <2>1, <2>2, <3>2, <3>3 DEF Letter, Right, Waits
  <2>3. CASE ~(p.stage = "creating" /\ p.held = Unset /\ page = Opener)
    <3>1. page # Opener => Selection(Opener)' = Selection(Opener)
      BY <1>1, <2>1 DEF Selection, ChoiceInv
    <3>2. Letter(p)'
      BY <2>1, <2>3, <3>1 DEF Letter, Waits
    <3>3. q = p
      BY <1>3, <2>3
    <3>4. QED
      BY <2>1, <3>2, <3>3 DEF Right
  <2>4. QED
    BY <2>2, <2>3
<1>4. \A q \in outbox' : Letter(q)' /\ Right(q)'
  BY <1>1, <1>3 DEF Repicked
<1>5. QED
  BY <1>1, <1>2, <1>4 DEF ChoiceInv

LEMMA PickEffortStep == ChoiceInv /\ PickEffort => ChoiceInv'
<1> SUFFICES ASSUME ChoiceInv, PickEffort PROVE ChoiceInv'
  OBVIOUS
<1>1. PICK effort : /\ choices' = [choices EXCEPT ![page].effort = effort]
                    /\ UNCHANGED <<catalogue, menu, page, started, outbox>>
  BY DEF PickEffort
<1>2. /\ choices' = [k \in Boxed |-> [model |-> choices'[k].model, effort |-> choices'[k].effort]]
      /\ \A k \in Boxed : choices'[k].model = choices[k].model
  BY <1>1 DEF ChoiceInv
<1>3. Selection(Opener)'.model = Selection(Opener).model
  BY <1>1, <1>2, SelectionModel DEF Selection, Boxed
<1>4. QED
  BY <1>1, <1>2, <1>3, LetterKept DEF ChoiceInv, Right

(* Unmounting the composer leaves each message what was shown last.        *)
LEMMA LeaveKeeps ==
    ASSUME ChoiceInv, menu' = menu, choices' = choices, NEW under, under \subseteq outbox
    PROVE  \A q \in Leave(under) : Letter(q)' /\ Right(q)'
<1> SUFFICES ASSUME NEW p \in outbox, NEW q,
                    q = IF page = Opener /\ p.stage = "creating" /\ p.held = Unset
                        THEN [p EXCEPT !.held = Selection(Opener), !.offered = menu] ELSE p
             PROVE  Letter(q)' /\ Right(q)'
  BY DEF Leave
<1>1. Letter(p) /\ Right(p) /\ Selection(Opener)' = Selection(Opener)
  BY SelectionKept DEF ChoiceInv
<1>2. CASE q = p
  BY <1>1, <1>2, LetterKept DEF Right
<1>3. CASE p.stage = "creating" /\ p.held = Unset /\ q = [p EXCEPT !.held = Selection(Opener), !.offered = menu]
  <2>1. q = [n |-> p.n, to |-> p.to, stage |-> p.stage, sent |-> p.sent, offered |-> menu,
             held |-> Selection(Opener), left |-> p.left, rides |-> p.rides, end |-> p.end,
             ran |-> p.ran, known |-> p.known]
    BY <1>1, <1>3 DEF Letter
  <2>2. Named(menu, Selection(Opener))
    BY SelectionIsOffered DEF Selection, ChoiceInv
  <2>3. QED
    BY <1>1, <1>3, <2>1, <2>2 DEF Letter, Right, Waits
<1>4. QED
  BY <1>2, <1>3

LEMMA MadeStep == ChoiceInv /\ SessionMade => ChoiceInv'
<1> SUFFICES ASSUME ChoiceInv, SessionMade PROVE ChoiceInv'
  OBVIOUS
<1>1. PICK p \in outbox, c \in Talks \ started :
         /\ p.stage = "creating" /\ started' = started \cup {c} /\ page' = c
         /\ outbox' = Leave(outbox \ {p})
                \cup {[p EXCEPT !.to = c, !.stage = "posting", !.sent = Carried(p),
                                !.offered = IF p.held = Unset THEN menu ELSE p.offered]}
         /\ UNCHANGED <<catalogue, menu, choices>>
  BY DEF SessionMade
<1>2. Letter(p) /\ Right(p) /\ menu \in Catalogues \cup {<<>>}
  BY DEF ChoiceInv
<1>3. PICK q, offered : /\ offered = IF p.held = Unset THEN menu ELSE p.offered
                        /\ q = [p EXCEPT !.to = c, !.stage = "posting", !.sent = Carried(p),
                                         !.offered = IF p.held = Unset THEN menu ELSE p.offered]
  OBVIOUS
<1>4. q = [n |-> p.n, to |-> c, stage |-> "posting", sent |-> Carried(p), offered |-> offered,
           held |-> p.held, left |-> p.left, rides |-> p.rides, end |-> p.end, ran |-> p.ran,
           known |-> p.known]
  BY <1>2, <1>3 DEF Letter
<1>5. Named(offered, Carried(p)) /\ Carried(p).model \notin p.left
  <2>1. CASE p.held = Unset
    <3>1. Carried(p) = Selection(Opener) /\ offered = menu
      BY <1>3, <2>1 DEF Carried
    <3>2. QED
      BY <1>1, <1>2, <2>1, <3>1, SelectionIsOffered DEF Letter, Waits, Selection
  <2>2. CASE p.held # Unset
    BY <1>1, <1>2, <1>3, <2>2 DEF Carried, Letter, Waits
  <2>3. QED
    BY <2>1, <2>2
<1>6. Letter(q)' /\ Right(q)'
  BY <1>1, <1>2, <1>4, <1>5 DEF Letter, Right, Waits
<1>7. \A r \in Leave(outbox \ {p}) : Letter(r)' /\ Right(r)'
  BY <1>1, LeaveKeeps
<1>8. \A r \in outbox' : Letter(r)' /\ Right(r)'
  BY <1>1, <1>3, <1>6, <1>7
<1>9. QED
  BY <1>1, <1>8 DEF ChoiceInv, Boxed

LEMMA PressStep == ChoiceInv /\ PressSend => ChoiceInv'
<1> SUFFICES ASSUME ChoiceInv, PressSend PROVE ChoiceInv'
  OBVIOUS
<1>1. /\ outbox' = outbox \cup {NewMessage(page)}
      /\ UNCHANGED <<catalogue, menu, choices, page, started>>
  BY DEF PressSend
<1>2. PICK q : q = NewMessage(page)
  OBVIOUS
<1>3. Named(menu, Selection(page))
  BY SelectionIsOffered DEF Selection, ChoiceInv
<1>4. Letter(q)' /\ Right(q)'
  <2>1. q.end = Unset /\ q.sent = Selection(page) /\ q.offered = menu /\ q.left = {} /\ q.held = Unset
    BY <1>2 DEF NewMessage
  <2>2. q.stage = IF page = Opener THEN "creating" ELSE "posting"
    BY <1>2 DEF NewMessage
  <2>3. q.end \notin {"ran", "refused"}
    BY <2>1, ChoiceAssumption
  <2>4. Right(q)'
    BY <2>3 DEF Right
  <2>5. q = [n |-> q.n, to |-> q.to, stage |-> q.stage, sent |-> q.sent, offered |-> q.offered,
             held |-> q.held, left |-> q.left, rides |-> q.rides, end |-> q.end, ran |-> q.ran,
             known |-> q.known]
    BY <1>2 DEF NewMessage
  <2>6. Letter(q)'
    BY <1>1, <1>3, <2>1, <2>2, <2>3, <2>5 DEF Letter, Waits
  <2>7. QED
    BY <2>4, <2>6
<1>5. \A p \in outbox : Letter(p)' /\ Right(p)'
  BY <1>1, SelectionKept, LetterKept DEF ChoiceInv, Right
<1>6. QED
  BY <1>1, <1>2, <1>3, <1>4, <1>5 DEF ChoiceInv

(* A message is read, lands or is answered: one letter becomes another.    *)
LEMMA Replaced ==
    ASSUME ChoiceInv, menu' = menu, choices' = choices, page' \in Boxed, started' \subseteq Talks,
           catalogue' \in Catalogues, outbox' \subseteq outbox
    PROVE  ChoiceInv'
<1>1. \A p \in outbox : Letter(p)' /\ Right(p)'
  BY SelectionKept, LetterKept DEF ChoiceInv, Right
<1>2. QED
  BY <1>1 DEF ChoiceInv

(* What a message names runs as named, or is refused for what is not listed. *)
LEMMA ResolvedAsNamed ==
    ASSUME NEW named, named.model = Unset => named.effort = Unset
    PROVE  LET turn == ResolveModel(named)
           IN  /\ turn.ok /\ named.model # Unset =>
                     /\ turn.model = named.model
                     /\ named.effort # Unset => turn.effort = named.effort
                     /\ turn.effort = Unset \/ turn.effort \in Ladder(catalogue, turn.model)
               /\ ~turn.ok => ~Offers(catalogue, named)
<1> DEFINE asked == IF named.model # Unset THEN named.model ELSE preset.model
           selector == IF asked \in ModelIds(catalogue) THEN asked ELSE Unset
           checked == IF selector = Unset THEN DefaultModel(catalogue).id ELSE selector
           ladder == Ladder(catalogue, checked)
           effort == IF named.effort # Unset THEN named.effort ELSE preset.effort
           ok == /\ named.model # Unset => selector = named.model
                 /\ named.effort # Unset => named.effort \in ladder
<1>1. ResolveModel(named) = [ok |-> ok, model |-> IF selector = Unset THEN hostModel ELSE selector,
                             effort |-> IF effort \in ladder THEN effort ELSE Unset]
  BY DEF ResolveModel
<1>2. ok /\ named.model # Unset =>
         /\ selector = named.model /\ checked = named.model
         /\ named.effort # Unset => effort = named.effort /\ effort \in ladder
  OBVIOUS
<1>3. ASSUME Offers(catalogue, named) PROVE ok
  <2>1. CASE named.model = Unset
    BY <2>1
  <2>2. CASE named.model # Unset
    <3>1. selector = named.model /\ checked = named.model
      BY <1>3, <2>2 DEF Offers
    <3>2. QED
      BY <1>3, <3>1 DEF Offers
  <2>3. QED
    BY <2>1, <2>2
<1> HIDE DEF ok, checked, selector, effort
<1>4. ASSUME ok, named.model # Unset
      PROVE  /\ ResolveModel(named).model = named.model
             /\ named.effort # Unset => ResolveModel(named).effort = named.effort
             /\ \/ ResolveModel(named).effort = Unset
                \/ ResolveModel(named).effort \in Ladder(catalogue, ResolveModel(named).model)
  <2>1. selector = named.model /\ checked = named.model
    BY <1>2, <1>4
  <2>2. ResolveModel(named).model = named.model
    BY <1>1, <1>4, <2>1
  <2>3. ResolveModel(named).effort = IF effort \in Ladder(catalogue, named.model) THEN effort ELSE Unset
    BY <1>1, <2>1
  <2>4. QED
    BY <1>2, <1>4, <2>1, <2>2, <2>3
<1>5. ResolveModel(named).ok = ok
  BY <1>1
<1>6. QED
  BY <1>3, <1>4, <1>5

LEMMA ReadStep == ChoiceInv /\ ReadStatus => ChoiceInv'
<1> SUFFICES ASSUME ChoiceInv, ReadStatus PROVE ChoiceInv'
  OBVIOUS
<1>1. PICK p \in outbox :
         /\ p.stage = "posting"
         /\ outbox' = (outbox \ {p})
                      \cup {[p EXCEPT !.stage = "landing", !.rides = live[p.to] # Unset]}
         /\ UNCHANGED <<catalogue, menu, choices, page, started>>
  BY DEF ReadStatus
<1>2. Letter(p) /\ Right(p)
  BY DEF ChoiceInv
<1>3. PICK q, rides : /\ rides = (live[p.to] # Unset)
                      /\ q = [p EXCEPT !.stage = "landing", !.rides = live[p.to] # Unset]
  OBVIOUS
<1>4. q = [n |-> p.n, to |-> p.to, stage |-> "landing", sent |-> p.sent, offered |-> p.offered,
           held |-> p.held, left |-> p.left, rides |-> rides, end |-> p.end, ran |-> p.ran,
           known |-> p.known]
  BY <1>2, <1>3 DEF Letter
<1>5. Letter(q)' /\ Right(q)'
  BY <1>1, <1>2, <1>4 DEF Letter, Right, Waits
<1>6. \A r \in outbox : Letter(r)' /\ Right(r)'
  BY <1>1, SelectionKept, LetterKept DEF ChoiceInv, Right
<1>7. QED
  BY <1>1, <1>3, <1>5, <1>6 DEF ChoiceInv

LEMMA LandStep == ChoiceInv /\ LandMessage => ChoiceInv'
<1> SUFFICES ASSUME ChoiceInv, LandMessage PROVE ChoiceInv'
  OBVIOUS
<1>1. PICK p \in outbox :
         /\ p.stage = "landing"
         /\ outbox' = (outbox \ {p}) \cup {[p EXCEPT !.stage = "landed", !.end = Landing(p).end,
                                                     !.ran = Landing(p).ran, !.known = catalogue]}
         /\ UNCHANGED <<catalogue, menu, choices, page, started>>
  BY DEF LandMessage
<1>2. Letter(p) /\ Right(p)
  BY DEF ChoiceInv
<1>3. PICK q : q = [p EXCEPT !.stage = "landed", !.end = Landing(p).end, !.ran = Landing(p).ran,
                             !.known = catalogue]
  OBVIOUS
<1>4. q = [n |-> p.n, to |-> p.to, stage |-> "landed", sent |-> p.sent, offered |-> p.offered,
           held |-> p.held, left |-> p.left, rides |-> p.rides, end |-> Landing(p).end,
           ran |-> Landing(p).ran, known |-> catalogue]
  BY <1>2, <1>3 DEF Letter
<1>5. Named(p.offered, p.sent) /\ p.sent.model \notin p.left
  BY <1>1, <1>2 DEF Letter, Waits
<1>6. Letter(q)'
  BY <1>1, <1>4, <1>5 DEF Letter, Waits
<1>7. Right(q)
  <2>1. CASE Landing(p).end \notin {"ran", "refused"}
    BY <1>4, <2>1 DEF Right
  <2>2. CASE Landing(p).end \in {"ran", "refused"}
    <3> DEFINE turn == ResolveModel(p.sent)
    <3>1. /\ Landing(p).end = IF turn.ok THEN "ran" ELSE "refused"
          /\ Landing(p).ran = [model |-> turn.model, effort |-> turn.effort]
      BY <2>2 DEF Landing
    <3>2. /\ turn.ok /\ p.sent.model # Unset =>
                /\ turn.model = p.sent.model
                /\ p.sent.effort # Unset => turn.effort = p.sent.effort
                /\ turn.effort = Unset \/ turn.effort \in Ladder(catalogue, turn.model)
          /\ ~turn.ok => ~Offers(catalogue, p.sent)
      BY <1>5, ResolvedAsNamed DEF Named
    <3> HIDE DEF turn
    <3>3. q.known = catalogue /\ q.sent = p.sent /\ q.offered = p.offered
          /\ q.end = (IF turn.ok THEN "ran" ELSE "refused")
          /\ q.ran.model = turn.model /\ q.ran.effort = turn.effort
      BY <1>4, <3>1
    <3>4. ~turn.ok => p.offered # catalogue
      BY <1>5, <3>2 DEF Named
    <3>5. QED
      BY <3>2, <3>3, <3>4 DEF Right
  <2>3. QED
    BY <2>1, <2>2
<1>8. \A r \in outbox : Letter(r)' /\ Right(r)'
  BY <1>1, SelectionKept, LetterKept DEF ChoiceInv, Right
<1>9. QED
  BY <1>1, <1>3, <1>6, <1>7, <1>8 DEF ChoiceInv, Right

LEMMA ChoiceStep == ChoiceInv /\ [ChoiceNext]_choiceVars => ChoiceInv'
<1> SUFFICES ASSUME ChoiceInv, [ChoiceNext]_choiceVars PROVE ChoiceInv'
  OBVIOUS
<1>1. CASE EditModels
  BY <1>1, Replaced DEF EditModels, ChoiceInv
<1>2. CASE GoTo
  <2>1. PICK key \in started \cup {Opener} :
           page' = key /\ outbox' = Leave(outbox) /\ UNCHANGED <<catalogue, menu, choices, started>>
    BY <1>2 DEF GoTo
  <2>2. \A q \in outbox' : Letter(q)' /\ Right(q)'
    BY <2>1, LeaveKeeps
  <2>3. QED
    BY <2>1, <2>2 DEF ChoiceInv, Boxed
<1>3. CASE SessionNotMade \/ MessageAnswered
  BY <1>3, Replaced DEF SessionNotMade, MessageAnswered, ChoiceInv
<1>4. CASE TurnOver \/ StreamTells \/ Thaw \/ UNCHANGED choiceVars
  BY <1>4, Replaced DEF TurnOver, StreamTells, Thaw, choiceVars, ChoiceInv
<1>5. QED
  BY <1>1, <1>2, <1>3, <1>4, ArriveStep, PickModelStep, PickEffortStep, MadeStep, PressStep,
     ReadStep, LandStep DEF ChoiceNext

LEMMA ChoiceIsRight == ChoiceInv => PickRuns
<1> SUFFICES ASSUME ChoiceInv PROVE PickRuns
  OBVIOUS
<1>1. ShownRuns
  BY DEF ChoiceInv, Right, ShownRuns
<1>2. RefusedOnlyStale
  BY DEF ChoiceInv, Right, RefusedOnlyStale
<1>3. ChangedAwayStays
  BY DEF ChoiceInv, Letter, Waits, ChangedAwayStays
<1>4. QED
  BY <1>1, <1>2, <1>3 DEF PickRuns

-----------------------------------------------------------------------------
(* Drafts and where they are stored.                                       *)

Draft(d) == d \in Seq(Chunks) /\ \A i, j \in DOMAIN d : d[i] = d[j] => i = j

(* localStorage: a draft at most of each key, none of them empty.          *)
Store(st) ==
    /\ st \in Seq(Keys \X Seq(Chunks))
    /\ \A i \in DOMAIN st : Draft(st[i][2]) /\ st[i][2] # <<>>
    /\ \A i, j \in DOMAIN st : st[i][1] = st[j][1] => i = j

LEMMA SaidAppend ==
    ASSUME NEW d \in Seq(Chunks), NEW c
    PROVE  Said(Append(d, c)) = Said(d) \cup {c}
<1>1. /\ DOMAIN d = 1 .. Len(d) /\ DOMAIN Append(d, c) = 1 .. Len(d) + 1 /\ Len(d) \in Nat
      /\ Append(d, c)[Len(d) + 1] = c /\ \A i \in 1 .. Len(d) : Append(d, c)[i] = d[i]
  OBVIOUS
<1>2. QED
  BY <1>1 DEF Said, ToSet

LEMMA DraftFront ==
    ASSUME NEW d, Draft(d), d # <<>>
    PROVE  /\ Draft(Front(d)) /\ Said(Front(d)) \subseteq Said(d)
           /\ Said(d) = Said(Front(d)) \cup {Last(d)}
<1>1. d \in Seq(Chunks) /\ Len(d) \in Nat \ {0} /\ DOMAIN d = 1 .. Len(d)
  BY DEF Draft
<1>2. /\ Front(d) \in Seq(Chunks) /\ DOMAIN Front(d) = 1 .. Len(d) - 1
      /\ \A i \in 1 .. Len(d) - 1 : Front(d)[i] = d[i]
  BY <1>1 DEF Front
<1>3. Draft(Front(d))
  BY <1>1, <1>2 DEF Draft
<1>4. Last(d) = d[Len(d)]
  BY <1>1 DEF Last
<1>5. QED
  BY <1>1, <1>2, <1>3, <1>4 DEF Said, ToSet

LEMMA DraftAppend ==
    ASSUME NEW d, Draft(d), NEW c \in Chunks, c \notin Said(d)
    PROVE  Draft(Append(d, c))
<1>1. /\ d \in Seq(Chunks) /\ DOMAIN d = 1 .. Len(d) /\ Len(d) \in Nat
      /\ DOMAIN Append(d, c) = 1 .. Len(d) + 1 /\ Append(d, c) \in Seq(Chunks)
      /\ Append(d, c)[Len(d) + 1] = c /\ \A i \in 1 .. Len(d) : Append(d, c)[i] = d[i]
  BY DEF Draft
<1>2. \A i \in 1 .. Len(d) : d[i] # c
  BY <1>1 DEF Said, ToSet
<1>3. QED
  BY <1>1, <1>2 DEF Draft

LEMMA NothingDrafted == Draft(<<>>) /\ Said(<<>>) = {}
BY DEF Draft, Said, ToSet

LEMMA Loaded ==
    ASSUME NEW st, Store(st), NEW key
    PROVE  /\ Draft(LoadDraft(st, key))
           /\ Slots(st, key) = {} <=> LoadDraft(st, key) = <<>>
           /\ \A i \in DOMAIN st : st[i][1] = key => LoadDraft(st, key) = st[i][2]
<1>1. CASE Slots(st, key) = {}
  BY <1>1, NothingDrafted DEF LoadDraft, Slots
<1>2. CASE Slots(st, key) # {}
  <2>1. PICK i \in Slots(st, key) : LoadDraft(st, key) = st[i][2]
    BY <1>2 DEF LoadDraft
  <2>2. i \in DOMAIN st /\ st[i][1] = key
    BY <2>1 DEF Slots
  <2>3. QED
    BY <1>2, <2>1, <2>2 DEF Store
<1>3. QED
  BY <1>1, <1>2

LEMMA Removed ==
    ASSUME NEW S, NEW st \in Seq(S), NEW i \in DOMAIN st
    PROVE  /\ RemoveAt(st, i) \in Seq(S) /\ Len(RemoveAt(st, i)) = Len(st) - 1
           /\ \A j \in 1 .. Len(st) - 1 :
                 RemoveAt(st, i)[j] = IF j < i THEN st[j] ELSE st[j + 1]
<1> DEFINE low == SubSeq(st, 1, i - 1)
           high == SubSeq(st, i + 1, Len(st))
<1>1. i \in 1 .. Len(st) /\ Len(st) \in Nat
  OBVIOUS
<1>2. low \in Seq(S) /\ Len(low) = i - 1 /\ \A j \in 1 .. i - 1 : low[j] = st[j]
  BY <1>1
<1>3. high \in Seq(S) /\ Len(high) = Len(st) - i /\ \A j \in 1 .. Len(st) - i : high[j] = st[i + j]
  BY <1>1
<1>4. RemoveAt(st, i) = low \o high
  BY DEF RemoveAt
<1> HIDE DEF low, high
<1>5. /\ low \o high \in Seq(S) /\ Len(low \o high) = Len(st) - 1
      /\ \A j \in 1 .. Len(st) - 1 : (low \o high)[j] = IF j < i THEN low[j] ELSE high[j - (i - 1)]
  BY SMTT(30), <1>1, <1>2, <1>3
<1>6. ASSUME NEW j \in 1 .. Len(st) - 1
      PROVE  RemoveAt(st, i)[j] = IF j < i THEN st[j] ELSE st[j + 1]
  <2>1. CASE j < i
    BY <1>1, <1>2, <1>4, <1>5, <2>1
  <2>2. CASE ~(j < i)
    <3>1. j - (i - 1) \in 1 .. Len(st) - i /\ i + (j - (i - 1)) = j + 1
      BY <1>1, <2>2
    <3>2. high[j - (i - 1)] = st[j + 1]
      BY <1>3, <3>1
    <3>3. QED
      BY <1>4, <1>5, <2>2, <3>2
  <2>3. QED
    BY <2>1, <2>2
<1>7. QED
  BY <1>4, <1>5, <1>6

(* A store whose entries are entries of another keeps their drafts.        *)
LEMMA FewerStored ==
    ASSUME NEW st, Store(st), NEW new \in Seq(Keys \X Seq(Chunks)), NEW f,
           \A j \in DOMAIN new : f[j] \in DOMAIN st /\ new[j] = st[f[j]],
           \A j, k \in DOMAIN new : f[j] = f[k] => j = k
    PROVE  /\ Store(new)
           /\ \A key : Slots(new, key) # {} => LoadDraft(new, key) = LoadDraft(st, key)
<1>1. Store(new)
  <2>1. ASSUME NEW j \in DOMAIN new PROVE Draft(new[j][2]) /\ new[j][2] # <<>>
    <3>1. \A i \in DOMAIN st : Draft(st[i][2]) /\ st[i][2] # <<>>
      BY DEF Store
    <3>2. f[j] \in DOMAIN st /\ new[j] = st[f[j]]
      OBVIOUS
    <3>3. QED
      BY <3>1, <3>2
  <2>2. ASSUME NEW j \in DOMAIN new, NEW k \in DOMAIN new, new[j][1] = new[k][1] PROVE j = k
    <3>1. f[j] \in DOMAIN st /\ f[k] \in DOMAIN st /\ st[f[j]][1] = st[f[k]][1]
      BY <2>2
    <3>2. f[j] = f[k]
      BY <3>1 DEF Store
    <3>3. QED
      BY <3>2
  <2>3. QED
    BY <2>1, <2>2 DEF Store
<1>2. ASSUME NEW key, Slots(new, key) # {}
      PROVE  LoadDraft(new, key) = LoadDraft(st, key)
  <2>1. PICK j \in DOMAIN new : new[j][1] = key
    BY <1>2 DEF Slots
  <2>2. LoadDraft(new, key) = new[j][2]
    BY <1>1, <2>1, Loaded
  <2>3. f[j] \in DOMAIN st /\ st[f[j]][1] = key /\ st[f[j]][2] = new[j][2]
    BY <2>1
  <2>4. LoadDraft(st, key) = st[f[j]][2]
    BY <2>3, Loaded
  <2>5. QED
    BY <2>2, <2>3, <2>4
<1>3. QED
  BY <1>1, <1>2

LEMMA WithoutKey ==
    ASSUME NEW st, Store(st), NEW key \in Keys
    PROVE  /\ Store(Without(st, key)) /\ Slots(Without(st, key), key) = {}
           /\ Len(Without(st, key)) <= Len(st)
           /\ \A k \in Keys \ {key} : LoadDraft(Without(st, key), k) = LoadDraft(st, k)
<1> DEFINE new == Without(st, key)
<1>1. CASE Slots(st, key) = {}
  <2>1. new = st
    BY <1>1 DEF Without
  <2>2. Len(st) \in Nat
    BY DEF Store
  <2>3. QED
    BY <1>1, <2>1, <2>2
<1>2. CASE Slots(st, key) # {}
  <2>1. PICK i : i \in Slots(st, key) /\ new = RemoveAt(st, i)
    BY <1>2 DEF Without
  <2>2. i \in DOMAIN st /\ st[i][1] = key /\ st \in Seq(Keys \X Seq(Chunks))
    BY <2>1 DEF Slots, Store
  <2> HIDE DEF new
  <2>3. /\ new \in Seq(Keys \X Seq(Chunks)) /\ Len(new) = Len(st) - 1
        /\ \A j \in 1 .. Len(st) - 1 : new[j] = IF j < i THEN st[j] ELSE st[j + 1]
    BY <2>1, <2>2, Removed
  <2> DEFINE f == [j \in DOMAIN new |-> IF j < i THEN j ELSE j + 1]
  <2>4. /\ DOMAIN new = 1 .. Len(st) - 1 /\ DOMAIN st = 1 .. Len(st) /\ Len(st) \in Nat /\ i \in Nat
    BY <2>2, <2>3
  <2>5. /\ \A j \in DOMAIN new : f[j] \in DOMAIN st /\ new[j] = st[f[j]] /\ f[j] # i
        /\ \A j, k \in DOMAIN new : f[j] = f[k] => j = k
    BY SMTT(30), <2>3, <2>4
  <2>6. \A m \in DOMAIN st \ {i} : \E j \in DOMAIN new : f[j] = m
    <3> SUFFICES ASSUME NEW m \in DOMAIN st \ {i} PROVE \E j \in DOMAIN new : f[j] = m
      OBVIOUS
    <3>1. CASE m < i
      BY <2>2, <2>4, <3>1
    <3>2. CASE m > i
      <4>1. m - 1 \in DOMAIN new /\ f[m - 1] = m
        BY <2>2, <2>4, <3>2
      <4>2. QED
        BY <4>1
    <3>3. QED
      BY <2>2, <2>4, <3>1, <3>2
  <2> HIDE DEF f
  <2>7. Store(new) /\ \A k : Slots(new, k) # {} => LoadDraft(new, k) = LoadDraft(st, k)
    BY <2>3, <2>5, FewerStored
  <2>8. Slots(new, key) = {}
    BY <2>2, <2>5 DEF Slots, Store
  <2>9. ASSUME NEW k \in Keys \ {key} PROVE LoadDraft(new, k) = LoadDraft(st, k)
    <3>1. CASE Slots(new, k) # {}
      BY <2>7, <3>1
    <3>2. CASE Slots(new, k) = {}
      <4>1. Slots(st, k) = {}
        <5> SUFFICES ASSUME NEW m \in DOMAIN st, st[m][1] = k PROVE FALSE
          BY DEF Slots
        <5>1. PICK j \in DOMAIN new : f[j] = m
          BY <2>2, <2>6
        <5>2. new[j][1] = k
          BY <2>5, <5>1
        <5>3. QED
          BY <3>2, <5>2 DEF Slots
      <4>2. QED
        BY <2>7, <3>2, <4>1, Loaded
    <3>3. QED
      BY <3>1, <3>2
  <2>10. QED
    BY <2>3, <2>4, <2>7, <2>8, <2>9 DEF new
<1>3. QED
  BY <1>1, <1>2

(* saveDraft stores the draft, or nothing for an empty one, and drops the  *)
(* oldest of the others at most.                                           *)
LEMMA SavedDraft ==
    ASSUME NEW st, Store(st), Len(st) <= MaxStored, NEW key \in Keys, NEW draft, Draft(draft)
    PROVE  LET new == SaveDraft(st, key, draft)
           IN  /\ Store(new) /\ Len(new) <= MaxStored /\ LoadDraft(new, key) = draft
               /\ \A k \in Keys \ {key} : \/ LoadDraft(new, k) = LoadDraft(st, k)
                                          \/ Slots(new, k) = {} /\ draft # <<>>
<1> DEFINE others == Without(st, key)
           new == SaveDraft(st, key, draft)
<1>1. /\ Store(others) /\ Slots(others, key) = {} /\ Len(others) <= Len(st)
      /\ \A k \in Keys \ {key} : LoadDraft(others, k) = LoadDraft(st, k)
  BY WithoutKey
<1>2. /\ new = LET longer == IF draft = <<>> THEN others ELSE Append(others, <<key, draft>>)
               IN  IF Len(longer) > MaxStored THEN Tail(longer) ELSE longer
  BY DEF SaveDraft
<1> HIDE DEF others, new
<1>3. Len(others) \in Nat /\ Len(st) \in Nat /\ MaxStored \in Nat \ {0}
  BY <1>1, ComposerAssumption DEF Store
<1>4. CASE draft = <<>>
  <2>1. new = others
    BY <1>1, <1>2, <1>3, <1>4
  <2>2. QED
    BY <1>1, <1>3, <1>4, <2>1, Loaded DEF new
<1>5. CASE draft # <<>>
  <2>1. PICK longer : longer = Append(others, <<key, draft>>)
    OBVIOUS
  <2>2. others \in Seq(Keys \X Seq(Chunks)) /\ <<key, draft>> \in Keys \X Seq(Chunks)
    BY <1>1 DEF Store, Draft
  <2>3. /\ longer \in Seq(Keys \X Seq(Chunks)) /\ Len(longer) = Len(others) + 1
        /\ DOMAIN longer = 1 .. Len(others) + 1 /\ DOMAIN others = 1 .. Len(others)
        /\ longer[Len(others) + 1] = <<key, draft>>
        /\ \A i \in 1 .. Len(others) : longer[i] = others[i]
    BY <1>3, <2>1, <2>2
  <2>4. \A i \in 1 .. Len(others) : others[i][1] # key
    BY <1>1, <2>3 DEF Slots
  <2>5. \A i \in DOMAIN longer : \/ i \in 1 .. Len(others) /\ longer[i] = others[i]
                                 \/ i = Len(others) + 1 /\ longer[i] = <<key, draft>>
    BY <1>3, <2>3
  <2>6. Store(longer)
    <3>1. \A i \in DOMAIN longer : Draft(longer[i][2]) /\ longer[i][2] # <<>>
      BY <1>1, <1>5, <2>3, <2>5 DEF Store
    <3>2. \A i, j \in DOMAIN longer : longer[i][1] = longer[j][1] => i = j
      BY SMTT(30), <1>1, <2>3, <2>4, <2>5 DEF Store
    <3>3. QED
      BY <2>3, <3>1, <3>2 DEF Store
  <2>7. LoadDraft(longer, key) = draft
    <3>1. PICK n \in DOMAIN longer : longer[n] = <<key, draft>>
      <4>1. Len(others) + 1 \in DOMAIN longer
        BY <1>3, <2>3
      <4>2. QED
        BY <2>3, <4>1
    <3>2. longer[n][1] = key /\ longer[n][2] = draft
      BY <3>1
    <3>3. QED
      BY <2>6, <3>2, Loaded
  <2>8. ASSUME NEW k \in Keys \ {key} PROVE LoadDraft(longer, k) = LoadDraft(others, k)
    <3>1. CASE Slots(others, k) = {}
      <4>1. Slots(longer, k) = {}
        BY <2>3, <2>5, <3>1 DEF Slots
      <4>2. QED
        BY <1>1, <2>6, <3>1, <4>1, Loaded
    <3>2. CASE Slots(others, k) # {}
      <4>1. PICK i \in 1 .. Len(others) : others[i][1] = k
        BY <2>3, <3>2 DEF Slots
      <4>2. i \in DOMAIN longer /\ longer[i] = others[i]
        BY <1>3, <2>3
      <4>3. QED
        BY SMTT(30), <1>1, <2>3, <2>6, <4>1, <4>2, Loaded
    <3>3. QED
      BY <3>1, <3>2
  <2>9. CASE ~(Len(longer) > MaxStored)
    <3>1. new = longer
      BY <1>2, <1>5, <2>1, <2>9
    <3>2. QED
      BY <1>1, <1>3, <2>3, <2>6, <2>7, <2>8, <2>9, <3>1 DEF new
  <2>10. CASE Len(longer) > MaxStored
    <3>1. new = Tail(longer)
      BY <1>2, <1>5, <2>1, <2>10
    <3>2. Len(longer) \in Nat /\ Len(longer) >= 2
      BY <1>3, <2>3, <2>10
    <3>3. /\ new \in Seq(Keys \X Seq(Chunks)) /\ Len(new) = Len(longer) - 1
          /\ DOMAIN new = 1 .. Len(longer) - 1
          /\ \A j \in 1 .. Len(longer) - 1 : new[j] = longer[j + 1]
      BY <2>3, <3>1, <3>2
    <3> DEFINE f == [j \in DOMAIN new |-> j + 1]
    <3>4. /\ \A j \in DOMAIN new : f[j] \in DOMAIN longer /\ new[j] = longer[f[j]]
          /\ \A j, k \in DOMAIN new : f[j] = f[k] => j = k
      BY SMTT(30), <2>3, <3>2, <3>3
    <3> HIDE DEF f
    <3>5. Store(new) /\ \A k : Slots(new, k) # {} => LoadDraft(new, k) = LoadDraft(longer, k)
      BY ZenonT(60), <2>6, <3>3, <3>4, FewerStored
    <3>6. PICK n \in DOMAIN new : new[n] = <<key, draft>>
      <4>1. Len(longer) - 1 \in DOMAIN new /\ (Len(longer) - 1) + 1 = Len(others) + 1
        BY <1>3, <2>3, <3>2, <3>3
      <4>2. new[Len(longer) - 1] = longer[Len(others) + 1]
        BY <3>3, <4>1
      <4>3. QED
        BY <2>3, <4>1, <4>2
    <3>7. LoadDraft(new, key) = draft
      <4>1. new[n][1] = key /\ new[n][2] = draft
        BY <3>6
      <4>2. QED
        BY <3>5, <3>6, <4>1, Loaded
    <3>8. Len(new) <= MaxStored
      BY <1>1, <1>3, <2>3, <3>3
    <3>9. QED
      BY <1>1, <1>5, <2>8, <3>5, <3>7, <3>8 DEF new
  <2>11. QED
    BY <2>9, <2>10
<1>6. QED
  BY <1>4, <1>5

-----------------------------------------------------------------------------
(* Where a phrase is.  Types first: drafts of phrases entered, a message    *)
(* under way as send leaves it, and nothing kept for a session not made.   *)

Sending(s) ==
    /\ s = [n |-> s.n, from |-> s.from, target |-> s.target, stage |-> s.stage, raw |-> s.raw,
            said |-> s.said, shown |-> s.shown, ok |-> s.ok]
    /\ s.target \in made \cup {NewKey} /\ s.from \in {s.target, NewKey}
    /\ s.stage = "creating" => s.target = NewKey
    /\ s.stage # "served" => ~s.ok
    /\ Draft(s.raw) /\ s.raw # <<>> /\ Said(s.raw) \subseteq entered
    /\ s.said \in Seq(Chunks \cup {BareToken}) /\ Said(s.said) \subseteq Said(s.raw) \cup {BareToken}
    /\ s.from = NewKey => Said(s.raw) \subseteq excused
    /\ \A p \in s.shown : p[1] \in {s.from, NewKey}

Typed ==
    /\ made \subseteq Chats /\ at \in made \cup {NewKey}
    /\ drafts = [k \in Keys |-> drafts[k]] /\ pastes = [k \in Keys |-> pastes[k]]
    /\ pictures = [k \in Keys |-> pictures[k]]
    /\ Store(storage) /\ Len(storage) <= MaxStored
    /\ entered \subseteq Chunks
    /\ accepted \in Seq(Chunks \cup {BareToken}) /\ Said(accepted) \subseteq entered \cup {BareToken}

Kept(k) ==
    /\ Draft(drafts[k]) /\ Said(drafts[k]) \subseteq entered
    /\ Said(LoadDraft(storage, k)) \subseteq entered
    /\ k \in Chats \ made => drafts[k] = <<>> /\ LoadDraft(storage, k) = <<>>

PicturesOf(k) == \A p \in pictures[k] : p[1] \in {k, NewKey}

(* The words on screen are in the box, stored or not.                      *)
Mounted == drafts[at] = <<>> => LoadDraft(storage, at) = <<>>

(* A phrase on screen or in a box is stored; a pasted block has its part;   *)
(* a box and the sends that would write into it do not hold it twice.      *)
Backed(c) == \A k \in Keys : c \in Said(Box(k)) <=> c \in Said(LoadDraft(storage, k))
Whole(c) ==
    /\ c \in Pasted => /\ \A k \in Keys : c \in Said(Box(k)) => c \in pastes[k]
                       /\ \A s \in sends : c \in Said(s.raw) => c \in pastes[s.target]
    /\ \A s \in sends : c \in Said(s.raw) =>
          \E i \in DOMAIN s.said : \A j \in DOMAIN s.said : s.said[j] = c <=> j = i
Alone(c) == \A s \in sends :
    /\ c \notin Said(Box(s.target))
    /\ \A x \in sends : x.target = s.target /\ x # s => c \notin Said(s.raw)

InBoxes(c) == {k \in Keys : c \in Said(Box(k))}
InSends(c) == {s \in sends : c \in Said(s.raw) /\ ~s.ok}
InTurns(c) == {i \in DOMAIN accepted : accepted[i] = c}
OncePlaced(c) ==
    \/ \E k \in Keys : InBoxes(c) = {k} /\ InSends(c) = {} /\ InTurns(c) = {}
    \/ \E s \in sends : InBoxes(c) = {} /\ InSends(c) = {s} /\ InTurns(c) = {}
    \/ \E i \in DOMAIN accepted : InBoxes(c) = {} /\ InSends(c) = {} /\ InTurns(c) = {i}

Word(c) == Backed(c) /\ Whole(c) /\ Alone(c) /\ OncePlaced(c)

ComposerInv ==
    /\ Typed /\ Mounted
    /\ \A k \in Keys : Kept(k) /\ PicturesOf(k)
    /\ \A r \in reading : r[1] \in Keys
    /\ \A s \in sends : Sending(s)
    /\ \A c \in entered \ excused : Word(c)

LEMMA ComposerIsRight == ComposerInv => NothingLost
<1> SUFFICES ASSUME ComposerInv PROVE NothingLost
  OBVIOUS
<1>1. ASSUME NEW c \in entered \ excused PROVE Places(c) = 1
  <2>1. Cardinality({}) = 0 /\ \A x : Cardinality({x}) = 1
    BY FS_EmptySet, FS_Singleton
  <2>2. Places(c) = Cardinality(InBoxes(c)) + Cardinality(InSends(c)) + Cardinality(InTurns(c))
    BY DEF Places, InBoxes, InSends, InTurns
  <2>3. OncePlaced(c)
    BY DEF ComposerInv, Word
  <2>4. CASE \E k \in Keys : InBoxes(c) = {k} /\ InSends(c) = {} /\ InTurns(c) = {}
    <3>1. Cardinality(InBoxes(c)) = 1 /\ Cardinality(InSends(c)) = 0 /\ Cardinality(InTurns(c)) = 0
      BY <2>1, <2>4
    <3>2. QED
      BY <2>2, <3>1
  <2>5. CASE \E s \in sends : InBoxes(c) = {} /\ InSends(c) = {s} /\ InTurns(c) = {}
    <3>1. Cardinality(InBoxes(c)) = 0 /\ Cardinality(InSends(c)) = 1 /\ Cardinality(InTurns(c)) = 0
      BY <2>1, <2>5
    <3>2. QED
      BY <2>2, <3>1
  <2>6. CASE \E i \in DOMAIN accepted : InBoxes(c) = {} /\ InSends(c) = {} /\ InTurns(c) = {i}
    <3>1. Cardinality(InBoxes(c)) = 0 /\ Cardinality(InSends(c)) = 0 /\ Cardinality(InTurns(c)) = 1
      BY <2>1, <2>6
    <3>2. QED
      BY <2>2, <3>1
  <2>7. QED
    BY <2>3, <2>4, <2>5, <2>6 DEF OncePlaced
<1>2. PicturesStay
  BY DEF ComposerInv, Sending, PicturesStay
<1>3. QED
  BY <1>1, <1>2 DEF NothingLost, WordsKeptOnce

LEMMA ComposerInitially == ComposerInit => ComposerInv
<1> SUFFICES ASSUME ComposerInit PROVE ComposerInv
  OBVIOUS
<1>1. Store(<<>>) /\ \A k : LoadDraft(<<>>, k) = <<>>
  BY DEF Store, LoadDraft, Slots
<1>2. Typed
  BY <1>1, ComposerAssumption DEF ComposerInit, Typed, Said, ToSet
<1>3. \A k \in Keys : Kept(k) /\ PicturesOf(k)
  BY <1>1, NothingDrafted DEF ComposerInit, Kept, PicturesOf
<1>4. Mounted
  BY <1>1 DEF ComposerInit, Mounted
<1>5. QED
  BY <1>2, <1>3, <1>4 DEF ComposerInit, ComposerInv

LEMMA SendingKept ==
    ASSUME NEW s, Sending(s), made \subseteq made', entered \subseteq entered', excused \subseteq excused'
    PROVE  Sending(s)'
BY DEF Sending

LEMMA KeptWhenSame ==
    ASSUME NEW k, Kept(k), drafts'[k] = drafts[k],
           LoadDraft(storage, k)' = LoadDraft(storage, k) \/ LoadDraft(storage, k)' = <<>>,
           made \subseteq made', entered \subseteq entered'
    PROVE  Kept(k)'
BY NothingDrafted DEF Kept

LEMMA BoxOnScreen == Mounted => Box(at) = drafts[at]
BY DEF Mounted, Box

(* The draft of the mounted composer is edited and saved.                  *)
LEMMA Edited ==
    ASSUME ComposerInv, NEW d, Draft(d), Said(d) \subseteq entered',
           drafts' = [drafts EXCEPT ![at] = d], storage' = Persist(at, d), at' = at, made' = made,
           entered \subseteq entered'
    PROVE  /\ drafts' = [k \in Keys |-> drafts'[k]] /\ Store(storage') /\ Len(storage') <= MaxStored
           /\ Mounted' /\ \A k \in Keys : Kept(k)'
           /\ Box(at)' = d
           /\ \A k \in Keys \ {at} :
                 /\ drafts'[k] = drafts[k]
                 /\ \/ LoadDraft(storage, k)' = LoadDraft(storage, k)
                    \/ Slots(storage, k)' = {} /\ d # <<>>
           /\ LoadDraft(storage, at)' = IF d # drafts[at] THEN d ELSE LoadDraft(storage, at)
<1>1. /\ Typed /\ Mounted /\ at \in Keys /\ \A k \in Keys : Kept(k)
  BY DEF ComposerInv, Typed, Keys
<1>2. drafts' = [k \in Keys |-> drafts'[k]] /\ drafts'[at] = d
      /\ \A k \in Keys \ {at} : drafts'[k] = drafts[k]
  BY <1>1 DEF Typed
<1>3. /\ Store(storage') /\ Len(storage') <= MaxStored
      /\ LoadDraft(storage', at) = IF d # drafts[at] THEN d ELSE LoadDraft(storage, at)
      /\ \A k \in Keys \ {at} : \/ LoadDraft(storage', k) = LoadDraft(storage, k)
                                \/ Slots(storage', k) = {} /\ d # <<>>
  <2>1. CASE d # drafts[at]
    <3>1. storage' = SaveDraft(storage, at, d)
      BY <2>1 DEF Persist
    <3>2. QED
      BY <1>1, <2>1, <3>1, SavedDraft DEF Typed
  <2>2. CASE d = drafts[at]
    <3>1. storage' = storage
      BY <2>2 DEF Persist
    <3>2. QED
      BY <1>1, <2>2, <3>1 DEF Typed
  <2>3. QED
    BY <2>1, <2>2
<1>4. Mounted' /\ Box(at)' = d
  BY <1>1, <1>2, <1>3 DEF Mounted, Box
<1>5. ASSUME NEW k \in Keys PROVE Kept(k)'
  <2>1. CASE k = at
    <3>1. LoadDraft(storage', at) = d \/ LoadDraft(storage', at) = LoadDraft(storage, at)
      BY <1>3
    <3>2. k \notin Chats \ made
      BY <1>1, <2>1, ComposerAssumption DEF Typed
    <3>3. Said(LoadDraft(storage', at)) \subseteq entered'
      BY <1>1, <3>1 DEF Kept
    <3>4. QED
      BY <1>2, <2>1, <3>2, <3>3 DEF Kept
  <2>2. CASE k # at
    <3>1. LoadDraft(storage', k) = LoadDraft(storage, k) \/ LoadDraft(storage', k) = <<>>
      BY <1>3, <2>2, Loaded
    <3>2. QED
      BY <1>1, <1>2, <2>2, <3>1, KeptWhenSame
  <2>3. QED
    BY <2>1, <2>2
<1>6. QED
  BY <1>2, <1>3, <1>4, <1>5

(* A phrase no other slot of which was evicted by the edit.                *)
LEMMA EditedWord ==
    ASSUME ComposerInv, NEW d, Draft(d), Said(d) \subseteq entered',
           drafts' = [drafts EXCEPT ![at] = d], storage' = Persist(at, d), at' = at, made' = made,
           entered \subseteq entered', NEW c, Backed(c),
           \A k \in Keys \ {at} : Slots(storage, k)' = {} /\ d # <<>> => c \notin Said(LoadDraft(storage, k))
    PROVE  /\ Backed(c)'
           /\ \A k \in Keys : c \in Said(Box(k)') <=> IF k = at THEN c \in Said(d) ELSE c \in Said(Box(k))
<1>1. /\ Typed /\ Mounted /\ at \in Keys
      /\ Store(storage') /\ Box(at)' = d
      /\ \A k \in Keys \ {at} :
            /\ drafts'[k] = drafts[k]
            /\ \/ LoadDraft(storage, k)' = LoadDraft(storage, k)
               \/ Slots(storage, k)' = {} /\ d # <<>>
      /\ LoadDraft(storage, at)' = IF d # drafts[at] THEN d ELSE LoadDraft(storage, at)
  BY Edited DEF ComposerInv, Typed, Keys
<1>2. ASSUME NEW k \in Keys \ {at}
      PROVE  /\ c \in Said(LoadDraft(storage, k)') <=> c \in Said(LoadDraft(storage, k))
             /\ c \in Said(Box(k)') <=> c \in Said(Box(k))
  <2>1. c \in Said(LoadDraft(storage, k)') <=> c \in Said(LoadDraft(storage, k))
    <3>1. CASE LoadDraft(storage, k)' = LoadDraft(storage, k)
      BY <3>1
    <3>2. CASE Slots(storage, k)' = {} /\ d # <<>>
      <4>1. LoadDraft(storage, k)' = <<>>
        BY <1>1, <3>2, Loaded
      <4>2. QED
        BY <3>2, <4>1, NothingDrafted
    <3>3. QED
      BY <1>1, <3>1, <3>2
  <2>2. Box(k) = (IF drafts[k] = <<>> THEN LoadDraft(storage, k) ELSE drafts[k])
        /\ Box(k)' = (IF drafts[k] = <<>> THEN LoadDraft(storage, k)' ELSE drafts[k])
    BY <1>1 DEF Box
  <2>3. QED
    BY <2>1, <2>2
<1>3. \A k \in Keys : c \in Said(Box(k)') <=> IF k = at THEN c \in Said(d) ELSE c \in Said(Box(k))
  BY <1>1, <1>2
<1>4. c \in Said(d) <=> c \in Said(LoadDraft(storage, at)')
  <2>1. CASE d # drafts[at]
    BY <1>1, <2>1
  <2>2. CASE d = drafts[at]
    <3>1. Box(at) = d
      BY <1>1, <2>2, BoxOnScreen
    <3>2. QED
      BY <1>1, <2>2, <3>1 DEF Backed
  <2>3. QED
    BY <2>1, <2>2
<1>5. Backed(c)'
  <2>1. \A k \in Keys : c \in Said(Box(k)') <=> c \in Said(LoadDraft(storage, k)')
    BY <1>1, <1>2, <1>4 DEF Backed
  <2>2. QED
    BY <2>1 DEF Backed
<1>6. QED
  BY <1>3, <1>5

(* A phrase that stays where it is, while no message moves.                *)
LEMMA StillWord ==
    ASSUME NEW c, Word(c), sends' = sends, accepted' = accepted, Backed(c)',
           \A k \in Keys : c \in Said(Box(k)') <=> c \in Said(Box(k)),
           \A k \in Keys : /\ c \in pastes[k]
                           /\ c \in Said(Box(k)) \/ \E s \in sends : s.target = k /\ c \in Said(s.raw)
                           => c \in pastes'[k],
           \A s \in sends : s.target \in Keys
    PROVE  Word(c)'
<1>1. Backed(c) /\ Whole(c) /\ Alone(c) /\ OncePlaced(c)
  BY DEF Word
<1>2. Whole(c)'
  BY <1>1 DEF Whole
<1>3. Alone(c)'
  BY <1>1 DEF Alone
<1>4. InBoxes(c)' = InBoxes(c) /\ InSends(c)' = InSends(c) /\ InTurns(c)' = InTurns(c)
  BY DEF InBoxes, InSends, InTurns
<1>5. OncePlaced(c)'
  BY <1>1, <1>4 DEF OncePlaced
<1>6. QED
  BY <1>2, <1>3, <1>5 DEF Word

LEMMA Targets ==
    ASSUME ComposerInv
    PROVE  /\ at \in Keys /\ made \subseteq Keys
           /\ \A s \in sends : s.target \in Keys /\ s.from \in Keys
BY DEF ComposerInv, Typed, Sending, Keys

LEMMA EnterStep == ComposerInv /\ EnterChunk => ComposerInv'
<1> SUFFICES ASSUME ComposerInv, EnterChunk PROVE ComposerInv'
  OBVIOUS
<1>1. PICK e \in Chunks \ entered :
         /\ entered' = entered \cup {e}
         /\ drafts' = [drafts EXCEPT ![at] = Append(@, e)]
         /\ pastes' = [pastes EXCEPT ![at] = Prune(@ \cup ({e} \cap Pasted), drafts'[at])]
         /\ storage' = Persist(at, drafts'[at])
         /\ excused' = excused \cup Evicted
                       \cup (IF Sharing(at) = {} THEN {} ELSE {e} \cup Contested(at))
         /\ UNCHANGED <<at, pictures, reading, sends, accepted, made>>
  BY DEF EnterChunk
<1>2. /\ Typed /\ Mounted /\ \A k \in Keys : Kept(k) /\ PicturesOf(k)
      /\ \A s \in sends : Sending(s)
  BY DEF ComposerInv
<1>3. at \in Keys /\ Draft(drafts[at]) /\ Said(drafts[at]) \subseteq entered
  BY <1>2, Targets DEF Kept
<1>4. PICK d : d = Append(drafts[at], e)
  OBVIOUS
<1>5. /\ drafts' = [drafts EXCEPT ![at] = d] /\ drafts'[at] = d /\ storage' = Persist(at, d)
      /\ Draft(d) /\ Said(d) = Said(drafts[at]) \cup {e}
  <2>1. drafts' = [drafts EXCEPT ![at] = d]
    BY <1>1, <1>4
  <2>2. drafts'[at] = d
    BY <1>2, <1>3, <2>1 DEF Typed
  <2>3. Draft(d) /\ Said(d) = Said(drafts[at]) \cup {e}
    BY <1>3, <1>4, DraftAppend, SaidAppend DEF Draft
  <2>4. QED
    BY <1>1, <2>1, <2>2, <2>3
<1>6. /\ drafts' = [k \in Keys |-> drafts'[k]] /\ Store(storage') /\ Len(storage') <= MaxStored
      /\ Mounted' /\ \A k \in Keys : Kept(k)'
  BY <1>1, <1>3, <1>5, Edited
<1>7. \A k \in Keys : pastes'[k] = IF k = at THEN Prune(pastes[at] \cup ({e} \cap Pasted), d) ELSE pastes[k]
  BY <1>1, <1>2, <1>3, <1>5 DEF Typed
<1>8. Typed'
  <2>1. pastes' = [k \in Keys |-> pastes'[k]]
    BY <1>1, <1>2 DEF Typed
  <2>2. QED
    BY <1>1, <1>2, <1>6, <2>1 DEF Typed
<1>9. \A k \in Keys \ {at} : Slots(storage, k)' = {} => Said(LoadDraft(storage, k)) \subseteq Evicted
  BY DEF Evicted, Slots
<1>10. ASSUME NEW c \in entered \ excused' PROVE Word(c)'
  <2>1. c \notin excused /\ c \notin Evicted /\ c # e /\ (Sharing(at) # {} => c \notin Contested(at))
    BY <1>1
  <2>2. Word(c) /\ Backed(c)
    BY <2>1 DEF ComposerInv, Word
  <2>3. \A k \in Keys : c \in Said(Box(k)') <=> c \in Said(Box(k))
    <3>1. Box(at) = drafts[at]
      BY <1>2, BoxOnScreen
    <3>2. \A k \in Keys : c \in Said(Box(k)') <=> IF k = at THEN c \in Said(d) ELSE c \in Said(Box(k))
      BY <1>1, <1>3, <1>5, <1>9, <2>1, <2>2, EditedWord
    <3>3. QED
      BY <1>5, <2>1, <3>1, <3>2
  <2>4. Backed(c)'
    BY <1>1, <1>3, <1>5, <1>9, <2>1, <2>2, EditedWord
  <2>5. ASSUME NEW s \in sends, s.target = at PROVE c \notin Said(s.raw)
    BY <2>1, <2>5 DEF Sharing, Contested
  <2>6. c \in Said(Box(at)) => c \in Said(d)
    BY <1>2, <1>5, BoxOnScreen
  <2>7. \A k \in Keys : /\ c \in pastes[k]
                        /\ c \in Said(Box(k)) \/ \E s \in sends : s.target = k /\ c \in Said(s.raw)
                        => c \in pastes'[k]
    BY <1>7, <2>5, <2>6 DEF Prune
  <2>8. QED
    BY <1>1, <2>2, <2>3, <2>4, <2>7, StillWord, Targets
<1>11. ASSUME e \notin excused' PROVE Word(e)'
  <2>1. Sharing(at) = {}
    BY <1>1, <1>11
  <2>2. /\ \A k \in Keys : e \notin Said(Box(k)) /\ e \notin Said(LoadDraft(storage, k))
        /\ \A s \in sends : e \notin Said(s.raw)
        /\ \A i \in DOMAIN accepted : accepted[i] # e
    <3>1. e # BareToken
      BY ComposerAssumption
    <3>2. QED
      BY <1>2, <3>1 DEF Kept, Box, Sending, Typed, Said, ToSet
  <2>3. Backed(e)
    BY <2>2 DEF Backed
  <2>4. /\ Backed(e)'
        /\ \A k \in Keys : e \in Said(Box(k)') <=> IF k = at THEN e \in Said(d) ELSE e \in Said(Box(k))
    BY <1>1, <1>3, <1>5, <2>2, <2>3, EditedWord
  <2>5. \A k \in Keys : e \in Said(Box(k)') <=> k = at
    BY <1>5, <2>2, <2>4
  <2>6. Whole(e)'
    BY <1>1, <1>5, <1>7, <2>2, <2>5 DEF Whole, Prune
  <2>7. Alone(e)'
    <3>1. \A s \in sends : s.target # at /\ s.target \in Keys
      BY <2>1, Targets DEF Sharing
    <3>2. QED
      BY <1>1, <2>2, <2>5, <3>1 DEF Alone
  <2>8. InBoxes(e)' = {at} /\ InSends(e)' = {} /\ InTurns(e)' = {}
    BY <1>1, <1>3, <2>2, <2>5 DEF InBoxes, InSends, InTurns
  <2>9. OncePlaced(e)'
    BY <1>3, <2>8 DEF OncePlaced
  <2>10. QED
    BY <2>4, <2>6, <2>7, <2>9 DEF Word
<1>12. \A s \in sends' : Sending(s)'
  BY <1>1, <1>2, SendingKept
<1>13. QED
  BY <1>1, <1>2, <1>6, <1>8, <1>10, <1>11, <1>12 DEF ComposerInv, PicturesOf

LEMMA DeleteStep == ComposerInv /\ DeleteChunk => ComposerInv'
<1> SUFFICES ASSUME ComposerInv, DeleteChunk PROVE ComposerInv'
  OBVIOUS
<1>1. /\ drafts[at] # <<>>
      /\ drafts' = [drafts EXCEPT ![at] = Front(@)]
      /\ pastes' = [pastes EXCEPT ![at] = Prune(@, drafts'[at])]
      /\ storage' = Persist(at, drafts'[at])
      /\ excused' = excused \cup Evicted \cup {Last(drafts[at])} \cup Contested(at)
      /\ UNCHANGED <<at, pictures, reading, sends, accepted, made, entered>>
  BY DEF DeleteChunk
<1>2. /\ Typed /\ Mounted /\ \A k \in Keys : Kept(k) /\ PicturesOf(k)
      /\ \A s \in sends : Sending(s)
  BY DEF ComposerInv
<1>3. at \in Keys /\ Draft(drafts[at]) /\ Said(drafts[at]) \subseteq entered
  BY <1>2, Targets DEF Kept
<1>4. PICK d : d = Front(drafts[at])
  OBVIOUS
<1>5. /\ drafts' = [drafts EXCEPT ![at] = d] /\ drafts'[at] = d /\ storage' = Persist(at, d)
      /\ Draft(d) /\ Said(d) \subseteq Said(drafts[at])
      /\ Said(drafts[at]) = Said(d) \cup {Last(drafts[at])}
  <2>1. drafts' = [drafts EXCEPT ![at] = d]
    BY <1>1, <1>4
  <2>2. drafts'[at] = d
    BY <1>2, <1>3, <2>1 DEF Typed
  <2>3. QED
    BY <1>1, <1>3, <1>4, <2>1, <2>2, DraftFront
<1>6. /\ drafts' = [k \in Keys |-> drafts'[k]] /\ Store(storage') /\ Len(storage') <= MaxStored
      /\ Mounted' /\ \A k \in Keys : Kept(k)'
  BY <1>1, <1>3, <1>5, Edited
<1>7. \A k \in Keys : pastes'[k] = IF k = at THEN Prune(pastes[at], d) ELSE pastes[k]
  BY <1>1, <1>2, <1>3, <1>5 DEF Typed
<1>8. Typed'
  <2>1. pastes' = [k \in Keys |-> pastes'[k]]
    BY <1>1, <1>2 DEF Typed
  <2>2. QED
    BY <1>1, <1>2, <1>6, <2>1 DEF Typed
<1>9. \A k \in Keys \ {at} : Slots(storage, k)' = {} => Said(LoadDraft(storage, k)) \subseteq Evicted
  BY DEF Evicted, Slots
<1>10. ASSUME NEW c \in entered \ excused' PROVE Word(c)'
  <2>1. c \notin excused /\ c \notin Evicted /\ c # Last(drafts[at]) /\ c \notin Contested(at)
    BY <1>1
  <2>2. Word(c) /\ Backed(c)
    BY <2>1 DEF ComposerInv, Word
  <2>3. \A k \in Keys : c \in Said(Box(k)') <=> c \in Said(Box(k))
    <3>1. Box(at) = drafts[at]
      BY <1>2, BoxOnScreen
    <3>2. \A k \in Keys : c \in Said(Box(k)') <=> IF k = at THEN c \in Said(d) ELSE c \in Said(Box(k))
      BY <1>1, <1>3, <1>5, <1>9, <2>1, <2>2, EditedWord
    <3>3. QED
      BY <1>5, <2>1, <3>1, <3>2
  <2>4. Backed(c)'
    BY <1>1, <1>3, <1>5, <1>9, <2>1, <2>2, EditedWord
  <2>5. ASSUME NEW s \in sends, s.target = at PROVE c \notin Said(s.raw)
    BY <2>1, <2>5 DEF Sharing, Contested
  <2>6. c \in Said(Box(at)) => c \in Said(d)
    BY <1>2, <1>5, <2>1, BoxOnScreen
  <2>7. \A k \in Keys : /\ c \in pastes[k]
                        /\ c \in Said(Box(k)) \/ \E s \in sends : s.target = k /\ c \in Said(s.raw)
                        => c \in pastes'[k]
    BY <1>7, <2>5, <2>6 DEF Prune
  <2>8. QED
    BY <1>1, <2>2, <2>3, <2>4, <2>7, StillWord, Targets
<1>11. \A s \in sends' : Sending(s)'
  BY <1>1, <1>2, SendingKept
<1>12. QED
  BY <1>1, <1>2, <1>6, <1>8, <1>10, <1>11 DEF ComposerInv, PicturesOf

(* Nothing of the words moves.                                             *)
LEMMA WordsStill ==
    ASSUME ComposerInv, UNCHANGED <<at, drafts, pastes, storage, sends, accepted, made, entered, excused>>,
           pictures' = [k \in Keys |-> pictures'[k]], \A k \in Keys : PicturesOf(k)',
           \A r \in reading' : r[1] \in Keys
    PROVE  ComposerInv'
<1>1. Typed' /\ Mounted'
  BY DEF ComposerInv, Typed, Mounted
<1>2. \A k \in Keys : Kept(k)'
  BY DEF ComposerInv, Kept
<1>3. \A s \in sends' : Sending(s)'
  BY SendingKept DEF ComposerInv
<1>4. \A k \in Keys : Box(k)' = Box(k) /\ LoadDraft(storage, k)' = LoadDraft(storage, k)
  BY DEF Box
<1>5. ASSUME NEW c \in entered \ excused PROVE Word(c)'
  <2>1. Word(c) /\ Backed(c)
    BY DEF ComposerInv, Word
  <2>2. Backed(c)'
    BY <1>4, <2>1 DEF Backed
  <2>3. QED
    BY <1>4, <2>1, <2>2, StillWord, Targets
<1>6. QED
  BY <1>1, <1>2, <1>3, <1>5 DEF ComposerInv

LEMMA ReadPictureStep == ComposerInv /\ PictureRead => ComposerInv'
<1> SUFFICES ASSUME ComposerInv, PictureRead PROVE ComposerInv'
  OBVIOUS
<1>1. PICK r \in reading :
         /\ reading' = reading \ {r}
         /\ \/ pictures' = [pictures EXCEPT ![r[1]] = @ \cup {r}]
            \/ pictures' = pictures
         /\ UNCHANGED <<at, drafts, pastes, storage, sends, accepted, made, entered, excused>>
  BY DEF PictureRead, IntakeKey
<1>2. /\ pictures = [k \in Keys |-> pictures[k]] /\ \A k \in Keys : PicturesOf(k)
      /\ \A q \in reading : q[1] \in Keys
  BY DEF ComposerInv, Typed
<1>3. pictures' = [k \in Keys |-> pictures'[k]] /\ \A k \in Keys : PicturesOf(k)'
  BY <1>1, <1>2 DEF PicturesOf
<1>4. QED
  BY <1>1, <1>2, <1>3, WordsStill

LEMMA QuietStep ==
    ComposerInv /\ (PastePicture \/ TurnMoves \/ TurnResumes \/ Unsteer \/ UNCHANGED composerVars)
    => ComposerInv'
<1> SUFFICES ASSUME ComposerInv, PastePicture \/ TurnMoves \/ TurnResumes \/ Unsteer \/ UNCHANGED composerVars
             PROVE  ComposerInv'
  OBVIOUS
<1>1. /\ UNCHANGED <<at, drafts, pastes, storage, sends, accepted, made, entered, excused, pictures>>
      /\ \A r \in reading' : r \in reading \/ r[1] = at
  BY DEF PastePicture, TurnMoves, TurnResumes, Unsteer, composerVars
<1>2. pictures' = [k \in Keys |-> pictures'[k]] /\ \A k \in Keys : PicturesOf(k)'
  BY <1>1 DEF ComposerInv, Typed, PicturesOf
<1>3. \A r \in reading' : r[1] \in Keys
  BY <1>1, Targets DEF ComposerInv
<1>4. QED
  BY <1>1, <1>2, <1>3, WordsStill

(* Stored words come back into an empty box: what the box holds is the     *)
(* same before and after.                                                  *)
LEMMA SwitchStep == ComposerInv /\ SwitchTo => ComposerInv'
<1> SUFFICES ASSUME ComposerInv, SwitchTo PROVE ComposerInv'
  OBVIOUS
<1>1. PICK key \in made \cup {NewKey} :
         /\ at' = key /\ Mount(key, drafts)
         /\ UNCHANGED <<pastes, pictures, storage, reading, sends, accepted, made, entered, excused>>
  BY DEF SwitchTo
<1>2. /\ Typed /\ \A k \in Keys : Kept(k) /\ PicturesOf(k)
      /\ \A s \in sends : Sending(s)
  BY DEF ComposerInv
<1>3. key \in Keys /\ key \notin Chats \ made
  BY <1>2, ComposerAssumption DEF Typed, Keys
<1>4. /\ drafts' = [k \in Keys |-> drafts'[k]]
      /\ drafts'[key] = Box(key) /\ \A k \in Keys \ {key} : drafts'[k] = drafts[k]
  BY <1>1, <1>2, <1>3 DEF Mount, Box, Typed
<1>5. \A k \in Keys : Box(k)' = Box(k) /\ LoadDraft(storage, k)' = LoadDraft(storage, k)
  <2>1. \A k \in Keys \ {key} : Box(k)' = Box(k)
    BY <1>1, <1>4 DEF Box
  <2>2. Box(key)' = Box(key)
    BY <1>1, <1>4 DEF Box
  <2>3. QED
    BY <1>1, <2>1, <2>2
<1>6. Typed' /\ Mounted'
  <2>1. Typed'
    BY <1>1, <1>2, <1>4 DEF Typed
  <2>2. drafts'[key] = <<>> => LoadDraft(storage, key) = <<>>
    BY <1>4 DEF Box
  <2>3. QED
    BY <1>1, <2>1, <2>2 DEF Mounted
<1>7. ASSUME NEW k \in Keys PROVE Kept(k)'
  <2>1. CASE k = key
    <3>1. Draft(Box(key)) /\ Said(Box(key)) \subseteq entered
      BY <1>2, <1>3, Loaded DEF Box, Kept, Typed
    <3>2. QED
      BY <1>1, <1>2, <1>3, <1>4, <2>1, <3>1 DEF Kept
  <2>2. CASE k # key
    BY <1>1, <1>2, <1>4, <2>2, KeptWhenSame
  <2>3. QED
    BY <2>1, <2>2
<1>8. ASSUME NEW c \in entered \ excused PROVE Word(c)'
  <2>1. Word(c) /\ Backed(c)
    BY DEF ComposerInv, Word
  <2>2. Backed(c)'
    BY <1>5, <2>1 DEF Backed
  <2>3. QED
    BY <1>1, <1>5, <2>1, <2>2, StillWord, Targets
<1>9. \A s \in sends' : Sending(s)'
  BY <1>1, <1>2, SendingKept
<1>10. QED
  BY <1>1, <1>2, <1>6, <1>7, <1>8, <1>9 DEF ComposerInv, PicturesOf

(* After a reload the boxes hold what was stored of them.                  *)
LEMMA ReloadStep == ComposerInv /\ Reload => ComposerInv'
<1> SUFFICES ASSUME ComposerInv, Reload PROVE ComposerInv'
  OBVIOUS
<1>1. /\ Mount(at, [k \in Keys |-> <<>>])
      /\ pastes' = [k \in Keys |-> {}] /\ pictures' = [k \in Keys |-> {}]
      /\ reading' = {} /\ sends' = {}
      /\ excused' = excused \cup Pasted \cup UNION {Said(s.raw) : s \in sends}
      /\ UNCHANGED <<at, storage, accepted, made, entered>>
  BY DEF Reload
<1>2. Typed /\ at \in Keys /\ \A k \in Keys : Kept(k)
  BY Targets DEF ComposerInv
<1>3. /\ drafts' = [k \in Keys |-> drafts'[k]]
      /\ drafts'[at] = LoadDraft(storage, at) /\ \A k \in Keys \ {at} : drafts'[k] = <<>>
  BY <1>1, <1>2 DEF Mount
<1>4. \A k \in Keys : Box(k)' = LoadDraft(storage, k)
  BY <1>1, <1>3 DEF Box
<1>5. Typed' /\ Mounted'
  BY <1>1, <1>2, <1>3 DEF Typed, Mounted
<1>6. \A k \in Keys : Kept(k)'
  BY <1>1, <1>2, <1>3, Loaded, NothingDrafted DEF Kept, Typed
<1>7. ASSUME NEW c \in entered \ excused' PROVE Word(c)'
  <2>1. c \in entered \ excused /\ c \notin Pasted /\ \A s \in sends : c \notin Said(s.raw)
    BY <1>1
  <2>2. Backed(c) /\ OncePlaced(c)
    BY <2>1 DEF ComposerInv, Word
  <2>3. \A k \in Keys : c \in Said(Box(k)') <=> c \in Said(Box(k))
    BY <1>4, <2>2 DEF Backed
  <2>4. Backed(c)'
    BY <1>1, <1>4 DEF Backed
  <2>5. InBoxes(c)' = InBoxes(c) /\ InSends(c)' = {} /\ InSends(c) = {} /\ InTurns(c)' = InTurns(c)
    BY <1>1, <2>1, <2>3 DEF InBoxes, InSends, InTurns
  <2>6. OncePlaced(c)'
    BY <1>1, <2>2, <2>5 DEF OncePlaced
  <2>7. QED
    BY <1>1, <2>1, <2>4, <2>6 DEF Word, Whole, Alone
<1>8. QED
  BY <1>1, <1>5, <1>6, <1>7 DEF ComposerInv, PicturesOf

(* A phrase that is in no message that comes or goes.                      *)
LEMMA SendsMove ==
    ASSUME NEW c, Word(c), InTurns(c)' = InTurns(c), Backed(c)',
           \A k \in Keys : c \in Said(Box(k)') <=> c \in Said(Box(k)),
           \A k \in Keys : /\ c \in pastes[k]
                           /\ c \in Said(Box(k)) \/ \E s \in sends : s.target = k /\ c \in Said(s.raw)
                           => c \in pastes'[k],
           \A s \in sends \cup sends' : s.target \in Keys,
           \A s \in sends : c \in Said(s.raw) /\ ~s.ok => s \in sends',
           \A t \in sends' \ sends : /\ c \notin Said(t.raw) /\ c \notin Said(Box(t.target))
                                     /\ \A x \in sends \cap sends' : x.target = t.target => c \notin Said(x.raw)
    PROVE  Word(c)'
<1>1. Backed(c) /\ Whole(c) /\ Alone(c) /\ OncePlaced(c)
  BY DEF Word
<1>2. Whole(c)'
  <2>1. ASSUME c \in Pasted
        PROVE  /\ \A k \in Keys : c \in Said(Box(k)') => c \in pastes'[k]
               /\ \A s \in sends' : c \in Said(s.raw) => c \in pastes'[s.target]
    BY <1>1, <2>1 DEF Whole
  <2>2. \A s \in sends' : c \in Said(s.raw) =>
          \E i \in DOMAIN s.said : \A j \in DOMAIN s.said : s.said[j] = c <=> j = i
    BY <1>1 DEF Whole
  <2>3. QED
    BY <2>1, <2>2 DEF Whole
<1>3. Alone(c)'
  <2>1. \A s \in sends' : c \notin Said(Box(s.target)')
    BY <1>1 DEF Alone
  <2>2. ASSUME NEW s \in sends', NEW x \in sends', x.target = s.target, x # s PROVE c \notin Said(s.raw)
    <3>1. CASE s \notin sends
      BY <3>1
    <3>2. CASE s \in sends /\ x \in sends
      BY <1>1, <2>2, <3>2 DEF Alone
    <3>3. CASE s \in sends /\ x \notin sends
      BY <2>2, <3>3
    <3>4. QED
      BY <3>1, <3>2, <3>3
  <2>3. QED
    BY <2>1, <2>2 DEF Alone
<1>4. InBoxes(c)' = InBoxes(c) /\ InSends(c)' = InSends(c)
  BY DEF InBoxes, InSends
<1>5. OncePlaced(c)'
  <2>1. \A s : s \in InSends(c) => s \in sends'
    BY DEF InSends
  <2>2. \A i : i \in InTurns(c)' => i \in DOMAIN accepted'
    BY DEF InTurns
  <2>3. QED
    BY <1>1, <1>4, <2>1, <2>2 DEF OncePlaced
<1>6. QED
  BY <1>1, <1>2, <1>3, <1>5 DEF Word

LEMMA NotMadeStep == ComposerInv /\ NotCreated => ComposerInv'
<1> SUFFICES ASSUME ComposerInv, NotCreated PROVE ComposerInv'
  OBVIOUS
<1>1. PICK s \in sends :
         /\ s.stage = "creating" /\ sends' = sends \ {s}
         /\ UNCHANGED <<at, drafts, pastes, pictures, storage, reading, accepted, made, entered, excused>>
  BY DEF NotCreated
<1>2. Typed' /\ Mounted' /\ \A k \in Keys : Kept(k)' /\ PicturesOf(k)'
  BY <1>1 DEF ComposerInv, Typed, Mounted, Kept, PicturesOf
<1>3. \A x \in sends' : Sending(x)'
  BY <1>1, SendingKept DEF ComposerInv
<1>4. ASSUME NEW c \in entered \ excused PROVE Word(c)'
  <2>1. Word(c) /\ Backed(c)
    BY DEF ComposerInv, Word
  <2>2. \A k \in Keys : Box(k)' = Box(k) /\ LoadDraft(storage, k)' = LoadDraft(storage, k)
    BY <1>1 DEF Box
  <2>3. Backed(c)' /\ InTurns(c)' = InTurns(c)
    BY <1>1, <2>1, <2>2 DEF Backed, InTurns
  <2>4. c \notin Said(s.raw)
    <3>1. Sending(s)
      BY DEF ComposerInv
    <3>2. s.from = NewKey
      BY <1>1, <3>1 DEF Sending
    <3>3. QED
      BY <3>1, <3>2 DEF Sending
  <2>5. QED
    BY <1>1, <2>1, <2>2, <2>3, <2>4, SendsMove, Targets
<1>5. QED
  BY <1>1, <1>2, <1>3, <1>4 DEF ComposerInv

LEMMA Resolved ==
    ASSUME NEW d, Draft(d), NEW parts
    PROVE  /\ Resolve(d, parts) \in Seq(Chunks \cup {BareToken})
           /\ Said(Resolve(d, parts)) \subseteq Said(d) \cup {BareToken}
           /\ \A c \in Said(d) : (c \in Pasted => c \in parts) =>
                 \E i \in DOMAIN Resolve(d, parts) :
                    \A j \in DOMAIN Resolve(d, parts) : Resolve(d, parts)[j] = c <=> j = i
<1> DEFINE r == Resolve(d, parts)
<1>1. DOMAIN r = DOMAIN d /\ \A i \in DOMAIN d : r[i] = IF d[i] \in Pasted \ parts THEN BareToken ELSE d[i]
  BY DEF Resolve
<1>2. d \in Seq(Chunks) /\ DOMAIN d = 1 .. Len(d) /\ Len(d) \in Nat /\ \A i \in DOMAIN d : d[i] \in Chunks
  BY DEF Draft
<1>3. r \in Seq(Chunks \cup {BareToken})
  <2>1. r = [i \in 1 .. Len(d) |-> IF d[i] \in Pasted \ parts THEN BareToken ELSE d[i]]
    BY <1>2 DEF Resolve
  <2> HIDE DEF r
  <2>2. r \in [1 .. Len(d) -> Chunks \cup {BareToken}]
    BY <1>2, <2>1
  <2>3. QED
    BY <1>2, <2>2
<1>4. Said(r) \subseteq Said(d) \cup {BareToken}
  BY <1>1 DEF Said, ToSet
<1>5. ASSUME NEW c \in Said(d), c \in Pasted => c \in parts
      PROVE  \E i \in DOMAIN r : \A j \in DOMAIN r : r[j] = c <=> j = i
  <2>1. PICK i \in DOMAIN d : d[i] = c
    BY DEF Said, ToSet
  <2>2. c # BareToken
    BY <1>2, <2>1, ComposerAssumption
  <2>3. ASSUME NEW j \in DOMAIN d PROVE r[j] = c <=> j = i
    BY <1>1, <1>5, <2>1, <2>2 DEF Draft
  <2>4. QED
    BY <1>1, <2>1, <2>3
<1>6. QED
  BY <1>3, <1>4, <1>5

(* A phrase in the box leaves it with the message.                         *)
LEMMA SubmittedWord ==
    ASSUME NEW c, Word(c), NEW new, sends' = sends \cup {new}, accepted' = accepted, pastes' = pastes,
           Backed(c)', new.target = at, ~new.ok,
           \A k \in Keys : c \in Said(Box(k)') <=> k # at /\ c \in Said(Box(k)),
           c \in Said(new.raw) <=> c \in Said(Box(at)),
           \A x \in sends : x.target = at => c \notin Said(new.raw) /\ c \notin Said(x.raw),
           c \in Said(new.raw) =>
              \E i \in DOMAIN new.said : \A j \in DOMAIN new.said : new.said[j] = c <=> j = i,
           at \in Keys, \A x \in sends : x.target \in Keys
    PROVE  Word(c)'
<1>1. Backed(c) /\ Whole(c) /\ Alone(c) /\ OncePlaced(c)
  BY DEF Word
<1>2. Whole(c)'
  BY <1>1 DEF Whole
<1>3. Alone(c)'
  BY <1>1 DEF Alone
<1>4. InTurns(c)' = InTurns(c)
  BY DEF InTurns
<1>5. CASE c \in Said(new.raw)
  <2>1. InBoxes(c) = {at} /\ InSends(c) = {} /\ InTurns(c) = {}
    <3>1. at \in InBoxes(c)
      BY <1>5 DEF InBoxes
    <3>2. QED
      BY <1>1, <3>1 DEF OncePlaced
  <2>2. InBoxes(c)' = {} /\ InSends(c)' = {new}
    BY <1>5, <2>1 DEF InBoxes, InSends
  <2>3. OncePlaced(c)'
    BY <1>4, <2>1, <2>2 DEF OncePlaced
  <2>4. QED
    BY <1>2, <1>3, <2>3 DEF Word
<1>6. CASE c \notin Said(new.raw)
  <2>1. InBoxes(c)' = InBoxes(c) /\ InSends(c)' = InSends(c)
    BY <1>6 DEF InBoxes, InSends
  <2>2. OncePlaced(c)'
    BY <1>1, <1>4, <2>1 DEF OncePlaced
  <2>3. QED
    BY <1>2, <1>3, <2>2 DEF Word
<1>7. QED
  BY <1>5, <1>6

LEMMA SubmitStep == ComposerInv /\ Submit => ComposerInv'
<1> SUFFICES ASSUME ComposerInv, Submit PROVE ComposerInv'
  OBVIOUS
<1>1. PICK new : /\ new = [n |-> writes, from |-> at, target |-> at,
                           stage |-> IF at = NewKey THEN "creating" ELSE "posting",
                           raw |-> drafts[at], said |-> Resolve(drafts[at], pastes[at]),
                           shown |-> pictures[at], ok |-> FALSE]
                 /\ sends' = sends \cup {new}
  BY DEF Submit
<1>2. drafts[at] # <<>> /\ UNCHANGED <<at, pastes, reading, accepted, made, entered>>
  BY DEF Submit, CanSubmit
<1>3. /\ Typed /\ Mounted /\ at \in Keys /\ \A k \in Keys : Kept(k) /\ PicturesOf(k)
      /\ \A s \in sends : Sending(s) /\ s.target \in Keys
  BY Targets DEF ComposerInv
<1>4. Draft(drafts[at]) /\ Said(drafts[at]) \subseteq entered /\ Box(at) = drafts[at]
  BY <1>3, BoxOnScreen DEF Kept
<1>5. excused \subseteq excused' /\ (at = NewKey => Said(drafts[at]) \subseteq excused')
  BY DEF Submit
<1>6. \A s \in sends' : Sending(s)'
  <2>1. \A s \in sends : Sending(s)'
    BY <1>2, <1>3, <1>5, SendingKept
  <2>2. at \in made \cup {NewKey} /\ \A p \in pictures[at] : p[1] \in {at, NewKey}
    BY <1>3 DEF Typed, PicturesOf
  <2>3. /\ Resolve(drafts[at], pastes[at]) \in Seq(Chunks \cup {BareToken})
        /\ Said(Resolve(drafts[at], pastes[at])) \subseteq Said(drafts[at]) \cup {BareToken}
    BY <1>4, Resolved
  <2>4. Sending(new)'
    BY <1>1, <1>2, <1>4, <1>5, <2>2, <2>3 DEF Sending
  <2>5. QED
    BY <1>1, <2>1, <2>4
<1>7. ASSUME NEW c \in entered \ excused, c \notin excused'
      PROVE  c \in Said(new.raw) =>
                \E i \in DOMAIN new.said : \A j \in DOMAIN new.said : new.said[j] = c <=> j = i
  <2>1. c \in Said(drafts[at]) => (c \in Pasted => c \in pastes[at])
    BY <1>3, <1>4 DEF ComposerInv, Word, Whole
  <2>2. new.raw = drafts[at] /\ new.said = Resolve(drafts[at], pastes[at])
    BY <1>1
  <2>3. QED
    BY <1>4, <2>1, <2>2, Resolved
<1>8. CASE at = NewKey
  <2>1. excused' = excused \cup Said(drafts[at]) /\ UNCHANGED <<drafts, pictures, storage>>
    BY <1>8 DEF Submit
  <2>2. Typed' /\ Mounted' /\ \A k \in Keys : Kept(k)' /\ PicturesOf(k)'
    BY <1>2, <1>3, <2>1 DEF Typed, Mounted, Kept, PicturesOf
  <2>3. ASSUME NEW c \in entered \ excused' PROVE Word(c)'
    <3>1. c \notin excused /\ c \notin Said(drafts[at])
      BY <2>1
    <3>2. Word(c) /\ Backed(c)
      BY <3>1 DEF ComposerInv, Word
    <3>3. \A k \in Keys : Box(k)' = Box(k) /\ LoadDraft(storage, k)' = LoadDraft(storage, k)
      BY <2>1 DEF Box
    <3>4. Backed(c)'
      BY <3>2, <3>3 DEF Backed
    <3>5. new.raw = drafts[at] /\ new.target = at /\ ~new.ok
      BY <1>1
    <3>6. ASSUME NEW x \in sends, x.target = at PROVE c \notin Said(x.raw)
      <4>1. x.from = NewKey
        BY <1>3, <1>8, <3>6 DEF Sending
      <4>2. QED
        BY <1>3, <3>1, <4>1 DEF Sending
    <3>7. sends' = sends \cup {new} /\ accepted' = accepted /\ pastes' = pastes
      BY <1>1, <1>2
    <3>8. \A k \in Keys : c \in Said(Box(k)') <=> k # at /\ c \in Said(Box(k))
      BY <1>4, <3>1, <3>3
    <3>9. c \notin Said(new.raw) /\ c \notin Said(Box(at))
      BY <1>4, <3>1, <3>5
    <3>10. at \in Keys /\ \A x \in sends : x.target \in Keys
      BY <1>3
    <3>11. QED
      BY <3>2, <3>4, <3>5, <3>6, <3>7, <3>8, <3>9, <3>10, SubmittedWord
  <2>4. QED
    BY <1>2, <1>6, <2>2, <2>3 DEF ComposerInv
<1>9. CASE at # NewKey
  <2>1. /\ drafts' = [drafts EXCEPT ![at] = <<>>] /\ storage' = Persist(at, drafts'[at])
        /\ pictures' = [pictures EXCEPT ![at] = {}]
        /\ excused' = IF Sharing(at) = {} THEN excused
                      ELSE excused \cup Said(drafts[at]) \cup Contested(at)
    BY <1>9 DEF Submit, ClearDraft
  <2>2. drafts'[at] = <<>> /\ Draft(<<>>) /\ Said(<<>>) = {}
    BY <1>3, <2>1, NothingDrafted DEF Typed
  <2>3. /\ drafts' = [k \in Keys |-> drafts'[k]] /\ Store(storage') /\ Len(storage') <= MaxStored
        /\ Mounted' /\ \A k \in Keys : Kept(k)'
    BY <1>2, <1>3, <2>1, <2>2, Edited
  <2>4. Typed' /\ \A k \in Keys : PicturesOf(k)'
    BY <1>2, <1>3, <2>1, <2>3 DEF Typed, PicturesOf
  <2>5. ASSUME NEW c \in entered \ excused' PROVE Word(c)'
    <3>1. c \notin excused /\ (Sharing(at) # {} => c \notin Said(drafts[at]) /\ c \notin Contested(at))
      BY <2>1
    <3>2. Word(c) /\ Backed(c)
      BY <3>1 DEF ComposerInv, Word
    <3>3. /\ Backed(c)'
          /\ \A k \in Keys : c \in Said(Box(k)') <=> IF k = at THEN c \in Said(<<>>) ELSE c \in Said(Box(k))
      BY <1>2, <2>1, <2>2, <3>2, EditedWord
    <3>4. \A k \in Keys : c \in Said(Box(k)') <=> k # at /\ c \in Said(Box(k))
      BY <2>2, <3>3
    <3>5. new.raw = drafts[at] /\ new.target = at /\ ~new.ok
      BY <1>1
    <3>6. \A x \in sends : x.target = at => c \notin Said(new.raw) /\ c \notin Said(x.raw)
      BY <3>1, <3>5 DEF Sharing, Contested
    <3>7. c \in Said(new.raw) =>
             \E i \in DOMAIN new.said : \A j \in DOMAIN new.said : new.said[j] = c <=> j = i
      BY <1>2, <1>7, <3>1
    <3>8. sends' = sends \cup {new} /\ accepted' = accepted /\ pastes' = pastes
      BY <1>1, <1>2
    <3>9. at \in Keys /\ (\A x \in sends : x.target \in Keys) /\ (c \in Said(new.raw) <=> c \in Said(Box(at)))
      BY <1>3, <1>4, <3>5
    <3>10. Backed(c)'
      BY <3>3
    <3>11. QED
      BY <3>2, <3>4, <3>5, <3>6, <3>7, <3>8, <3>9, <3>10, SubmittedWord
  <2>6. QED
    BY <1>2, <1>6, <2>3, <2>4, <2>5 DEF ComposerInv
<1>10. QED
  BY <1>8, <1>9

LEMMA CreatedStep == ComposerInv /\ Created => ComposerInv'
<1> SUFFICES ASSUME ComposerInv, Created PROVE ComposerInv'
  OBVIOUS
<1>1. PICK s \in sends, n \in Chats \ made :
         /\ s.stage = "creating" /\ made' = made \cup {n} /\ at' = n
         /\ sends' = (sends \ {s}) \cup {[s EXCEPT !.target = n, !.stage = "posting"]}
         /\ excused' = excused \cup Said(drafts[NewKey])
         /\ drafts' = [drafts EXCEPT ![NewKey] = <<>>] /\ storage' = Persist(NewKey, drafts'[NewKey])
         /\ pictures' = [pictures EXCEPT ![NewKey] = {}]
         /\ UNCHANGED <<pastes, reading, accepted, entered>>
  BY DEF Created, ClearDraft
<1>2. /\ Typed /\ Mounted /\ \A k \in Keys : Kept(k) /\ PicturesOf(k)
      /\ \A x \in sends : Sending(x) /\ x.target \in Keys
  BY Targets DEF ComposerInv
<1>3. NewKey \in Keys /\ n \in Keys /\ n # NewKey
  BY <1>1, ComposerAssumption DEF Keys
<1>4. s.target = NewKey /\ s.from = NewKey /\ s.ok # TRUE /\ Said(s.raw) \subseteq excused
  BY <1>1, <1>2 DEF Sending
<1>5. /\ drafts' = [k \in Keys |-> drafts'[k]] /\ drafts'[NewKey] = <<>>
      /\ \A k \in Keys \ {NewKey} : drafts'[k] = drafts[k]
  BY <1>1, <1>2, <1>3 DEF Typed
<1>6. /\ Store(storage') /\ Len(storage') <= MaxStored
      /\ \A k \in Keys \ {NewKey} : LoadDraft(storage', k) = LoadDraft(storage, k)
      /\ LoadDraft(storage', NewKey) \in {LoadDraft(storage, NewKey), <<>>}
  <2>1. CASE storage' = storage
    BY <1>2, <2>1 DEF Typed
  <2>2. CASE storage' = SaveDraft(storage, NewKey, <<>>)
    BY <1>2, <1>3, <2>2, SavedDraft, NothingDrafted DEF Typed
  <2>3. QED
    BY <1>1, <1>5, <2>1, <2>2 DEF Persist
<1>7. PICK t : t = [s EXCEPT !.target = n, !.stage = "posting"]
  OBVIOUS
<1>8. t = [n |-> s.n, from |-> s.from, target |-> n, stage |-> "posting", raw |-> s.raw,
           said |-> s.said, shown |-> s.shown, ok |-> s.ok]
  <2>1. Sending(s)
    BY <1>2
  <2>2. QED
    BY <1>7, <2>1 DEF Sending
<1>9. \A x \in sends' : Sending(x)'
  <2>1. \A x \in sends : Sending(x)'
    BY <1>1, <1>2, SendingKept
  <2>2. /\ s.raw # <<>> /\ Draft(s.raw) /\ Said(s.raw) \subseteq entered'
        /\ s.said \in Seq(Chunks \cup {BareToken}) /\ Said(s.said) \subseteq Said(s.raw) \cup {BareToken}
        /\ \A p \in s.shown : p[1] \in {s.from, NewKey}
        /\ ~s.ok
    BY <1>1, <1>2 DEF Sending
  <2>3. /\ t.n = s.n /\ t.from = NewKey /\ t.target = n /\ t.stage = "posting" /\ t.raw = s.raw
        /\ t.said = s.said /\ t.shown = s.shown /\ t.ok = s.ok
    BY <1>4, <1>8
  <2>4. Sending(t)'
    BY <1>1, <1>4, <1>8, <2>2, <2>3 DEF Sending
  <2>5. QED
    BY <1>1, <1>7, <2>1, <2>4
<1>10. Mounted' /\ drafts'[n] = <<>> /\ LoadDraft(storage', n) = <<>>
  BY <1>1, <1>2, <1>3, <1>5, <1>6 DEF Kept, Mounted
<1>11. Typed'
  <2>1. made' \subseteq Chats /\ at' \in made' \cup {NewKey}
    BY <1>1, <1>2 DEF Typed
  <2>2. pictures' = [k \in Keys |-> pictures'[k]]
    BY <1>1, <1>2 DEF Typed
  <2>3. QED
    BY <1>1, <1>2, <1>5, <1>6, <2>1, <2>2 DEF Typed
<1>12. ASSUME NEW k \in Keys PROVE Kept(k)' /\ PicturesOf(k)'
  <2>1. PicturesOf(k)'
    BY <1>1, <1>2 DEF PicturesOf, Typed
  <2>2. CASE k = NewKey
    <3>1. Said(LoadDraft(storage', NewKey)) \subseteq entered
      BY <1>2, <1>3, <1>6, NothingDrafted DEF Kept
    <3>2. QED
      BY <1>1, <1>5, <2>1, <2>2, <3>1, NothingDrafted, ComposerAssumption DEF Kept
  <2>3. CASE k # NewKey
    BY <1>1, <1>2, <1>5, <1>6, <2>1, <2>3, KeptWhenSame
  <2>4. QED
    BY <2>2, <2>3
<1>13. ASSUME NEW c \in entered \ excused' PROVE Word(c)'
  <2>1. c \notin excused /\ c \notin Said(s.raw)
    BY <1>1, <1>4
  <2>2. Word(c) /\ Backed(c) /\ Alone(c)
    BY <2>1 DEF ComposerInv, Word
  <2>3. c \notin Said(Box(NewKey)) /\ c \notin Said(LoadDraft(storage, NewKey))
    BY <1>3, <1>4, <2>2 DEF Alone, Backed
  <2>4. c \notin Said(LoadDraft(storage', NewKey))
    BY <1>6, <2>3, NothingDrafted
  <2>5. c \notin Said(Box(NewKey)')
    BY <1>5, <2>4 DEF Box
  <2>6. \A k \in Keys \ {NewKey} : Box(k)' = Box(k)
    BY <1>5, <1>6 DEF Box
  <2>7. \A k \in Keys : c \in Said(Box(k)') <=> c \in Said(Box(k))
    BY <2>3, <2>5, <2>6
  <2>8. Backed(c)'
    <3>1. \A k \in Keys : c \in Said(Box(k)') <=> c \in Said(LoadDraft(storage', k))
      BY <1>6, <2>2, <2>3, <2>4, <2>7 DEF Backed
    <3>2. QED
      BY <3>1 DEF Backed
  <2>9. InTurns(c)' = InTurns(c)
    BY <1>1 DEF InTurns
  <2>10. c \notin Said(t.raw) /\ t.target = n /\ c \notin Said(Box(n))
    BY <1>2, <1>3, <1>8, <2>1, NothingDrafted, ComposerAssumption DEF Kept, Box
  <2>11. \A x \in sends : x.target # n
    BY <1>1, <1>2, <1>3 DEF Sending
  <2>12. sends' = (sends \ {s}) \cup {t} /\ pastes' = pastes
    BY <1>1, <1>7
  <2>13. \A x \in sends \cup sends' : x.target \in Keys
    BY <1>2, <1>3, <2>10, <2>12
  <2>14. \A x \in sends : c \in Said(x.raw) /\ ~x.ok => x \in sends'
    BY <2>1, <2>12
  <2>15. \A y \in sends' \ sends : /\ c \notin Said(y.raw) /\ c \notin Said(Box(y.target))
                                   /\ \A x \in sends \cap sends' : x.target = y.target => c \notin Said(x.raw)
    BY <2>10, <2>11, <2>12
  <2>16. QED
    BY <2>2, <2>7, <2>8, <2>9, <2>12, <2>13, <2>14, <2>15, SendsMove
<1>14. QED
  BY <1>1, <1>9, <1>10, <1>11, <1>12, <1>13 DEF ComposerInv

LEMMA ServeStep == ComposerInv /\ ServeSend => ComposerInv'
<1> SUFFICES ASSUME ComposerInv, ServeSend PROVE ComposerInv'
  OBVIOUS
<1>1. PICK s \in sends, ok \in BOOLEAN :
         /\ s.stage = "posting"
         /\ sends' = (sends \ {s}) \cup {[s EXCEPT !.stage = "served", !.ok = ok]}
         /\ accepted' = IF ok THEN accepted \o s.said ELSE accepted
         /\ UNCHANGED <<at, drafts, pastes, pictures, storage, reading, made, entered, excused>>
  BY DEF ServeSend
<1>2. /\ Typed /\ \A x \in sends : Sending(x) /\ x.target \in Keys
  BY Targets DEF ComposerInv
<1>3. /\ Sending(s) /\ ~s.ok /\ s.said \in Seq(Chunks \cup {BareToken})
      /\ Said(s.said) \subseteq Said(s.raw) \cup {BareToken} /\ Said(s.raw) \subseteq entered
  BY <1>1, <1>2 DEF Sending
<1>4. PICK t : t = [s EXCEPT !.stage = "served", !.ok = ok]
  OBVIOUS
<1>5. t = [n |-> s.n, from |-> s.from, target |-> s.target, stage |-> "served", raw |-> s.raw,
           said |-> s.said, shown |-> s.shown, ok |-> ok]
  BY <1>3, <1>4 DEF Sending
<1>6. sends' = (sends \ {s}) \cup {t}
  BY <1>1, <1>4
<1>7. \A x \in sends' : Sending(x)'
  <2>1. \A x \in sends : Sending(x)'
    BY <1>1, <1>2, SendingKept
  <2>2. Sending(t)'
    BY <1>3, <1>5, <2>1 DEF Sending
  <2>3. QED
    BY <1>6, <2>1, <2>2
<1>8. accepted' \in Seq(Chunks \cup {BareToken}) /\ Said(accepted') \subseteq entered \cup {BareToken}
  <2>1. CASE ok
    <3>1. accepted \in Seq(Chunks \cup {BareToken}) /\ s.said \in Seq(Chunks \cup {BareToken})
      BY <1>2, <1>3 DEF Typed
    <3>2. accepted' = accepted \o s.said
      BY <1>1, <2>1
    <3>3. \A i \in DOMAIN accepted' : accepted'[i] \in Said(accepted) \cup Said(s.said)
      <4>1. ASSUME NEW i \in 1 .. Len(accepted) + Len(s.said)
            PROVE  accepted'[i] \in Said(accepted) \cup Said(s.said)
        <5>1. CASE i <= Len(accepted)
          <6>1. i \in DOMAIN accepted /\ accepted'[i] = accepted[i]
            BY <3>1, <3>2, <5>1
          <6>2. QED
            BY <6>1 DEF Said, ToSet
        <5>2. CASE i > Len(accepted)
          <6>1. i - Len(accepted) \in DOMAIN s.said /\ accepted'[i] = s.said[i - Len(accepted)]
            BY <3>1, <3>2, <5>2
          <6>2. QED
            BY <6>1 DEF Said, ToSet
        <5>3. QED
          BY <3>1, <5>1, <5>2
      <4>2. DOMAIN accepted' = 1 .. Len(accepted) + Len(s.said)
        BY <3>1, <3>2
      <4>3. QED
        BY <4>1, <4>2
    <3>4. Said(accepted') \subseteq Said(accepted) \cup Said(s.said)
      BY <3>3 DEF Said, ToSet
    <3>5. QED
      BY <1>2, <1>3, <3>1, <3>2, <3>4 DEF Typed
  <2>2. CASE ~ok
    BY <1>1, <1>2, <2>2 DEF Typed
  <2>3. QED
    BY <2>1, <2>2
<1>9. Typed' /\ Mounted' /\ \A k \in Keys : Kept(k)' /\ PicturesOf(k)'
  BY <1>1, <1>8 DEF ComposerInv, Typed, Mounted, Kept, PicturesOf
<1>10. \A k \in Keys : Box(k)' = Box(k) /\ LoadDraft(storage, k)' = LoadDraft(storage, k)
  BY <1>1 DEF Box
<1>11. ASSUME NEW c \in entered \ excused
       PROVE  /\ ok /\ c \in Said(s.raw) => \E i : InTurns(c)' = InTurns(c) \cup {i}
              /\ ~ok \/ c \notin Said(s.raw) => InTurns(c)' = InTurns(c)
  <2>1. CASE ~ok
    BY <1>1, <2>1 DEF InTurns
  <2>2. CASE ok
    <3>1. /\ accepted \in Seq(Chunks \cup {BareToken}) /\ s.said \in Seq(Chunks \cup {BareToken})
          /\ accepted' = accepted \o s.said
      BY <1>1, <1>2, <1>3, <2>2 DEF Typed
    <3>2. /\ DOMAIN accepted = 1 .. Len(accepted) /\ DOMAIN s.said = 1 .. Len(s.said)
          /\ Len(accepted) \in Nat /\ Len(s.said) \in Nat
          /\ DOMAIN accepted' = 1 .. Len(accepted) + Len(s.said)
          /\ \A i \in 1 .. Len(accepted) : accepted'[i] = accepted[i]
          /\ \A i \in 1 .. Len(s.said) : accepted'[Len(accepted) + i] = s.said[i]
      BY <3>1
    <3>3. CASE c \in Said(s.raw)
      <4>1. Whole(c)
        BY DEF ComposerInv, Word
      <4>2. PICK i \in DOMAIN s.said : \A j \in DOMAIN s.said : s.said[j] = c <=> j = i
        BY <3>3, <4>1 DEF Whole
      <4>3. ASSUME NEW m \in DOMAIN accepted'
            PROVE  accepted'[m] = c <=> m \in InTurns(c) \/ m = Len(accepted) + i
        <5>1. CASE m <= Len(accepted)
          BY <3>2, <5>1 DEF InTurns
        <5>2. CASE m > Len(accepted)
          <6>1. m - Len(accepted) \in DOMAIN s.said /\ accepted'[m] = s.said[m - Len(accepted)]
            BY <3>1, <3>2, <5>2
          <6>2. QED
            BY <3>2, <4>2, <5>2, <6>1 DEF InTurns
        <5>3. QED
          BY <3>2, <5>1, <5>2
      <4>4. Len(accepted) + i \in DOMAIN accepted' /\ InTurns(c) \subseteq DOMAIN accepted'
        BY <3>2 DEF InTurns
      <4>5. InTurns(c)' = InTurns(c) \cup {Len(accepted) + i}
        BY <4>3, <4>4 DEF InTurns
      <4>6. QED
        BY <2>2, <3>3, <4>5
    <3>4. CASE c \notin Said(s.raw)
      <4>1. c # BareToken
        BY <1>2, ComposerAssumption DEF Typed
      <4>2. \A j \in DOMAIN s.said : s.said[j] # c
        BY <1>3, <3>4, <4>1 DEF Said, ToSet
      <4>3. ASSUME NEW m \in DOMAIN accepted' PROVE accepted'[m] = c <=> m \in InTurns(c)
        <5>1. CASE m <= Len(accepted)
          BY <3>2, <5>1 DEF InTurns
        <5>2. CASE m > Len(accepted)
          <6>1. m - Len(accepted) \in DOMAIN s.said /\ accepted'[m] = s.said[m - Len(accepted)]
            BY <3>1, <3>2, <5>2
          <6>2. QED
            BY <3>2, <4>2, <5>2, <6>1 DEF InTurns
        <5>3. QED
          BY <3>2, <5>1, <5>2
      <4>4. InTurns(c) \subseteq DOMAIN accepted'
        BY <3>2 DEF InTurns
      <4>5. QED
        BY <3>4, <4>3, <4>4 DEF InTurns
    <3>5. QED
      BY <3>3, <3>4
  <2>3. QED
    BY <2>1, <2>2
<1>12. ASSUME NEW c \in entered \ excused PROVE Word(c)'
  <2>1. Word(c) /\ Backed(c) /\ Whole(c) /\ Alone(c) /\ OncePlaced(c)
    BY DEF ComposerInv, Word
  <2>2. Backed(c)'
    BY <1>10, <2>1 DEF Backed
  <2>3. t.target = s.target /\ t.raw = s.raw /\ t.said = s.said /\ t.ok = ok
    BY <1>5
  <2>4. CASE c \notin Said(s.raw)
    <3>1. InTurns(c)' = InTurns(c) /\ pastes' = pastes
      BY <1>1, <1>11, <2>4
    <3>2. \A x \in sends \cup sends' : x.target \in Keys
      BY <1>2, <1>6, <2>3
    <3>3. \A x \in sends : c \in Said(x.raw) /\ ~x.ok => x \in sends'
      BY <1>6, <2>4
    <3>4. \A y \in sends' \ sends : /\ c \notin Said(y.raw) /\ c \notin Said(Box(y.target))
                                    /\ \A x \in sends \cap sends' : x.target = y.target => c \notin Said(x.raw)
      <4>1. c \notin Said(Box(s.target)) /\ \A x \in sends : x.target = s.target => c \notin Said(x.raw)
        BY <2>1, <2>4 DEF Alone
      <4>2. QED
        BY <1>6, <2>3, <2>4, <4>1
    <3>5. QED
      BY <1>10, <2>1, <2>2, <3>1, <3>2, <3>3, <3>4, SendsMove
  <2>5. CASE c \in Said(s.raw)
    <3>1. InBoxes(c) = {} /\ InSends(c) = {s} /\ InTurns(c) = {}
      <4>1. s \in InSends(c)
        BY <1>3, <2>5 DEF InSends
      <4>2. QED
        BY <2>1, <4>1 DEF OncePlaced
    <3>2. Whole(c)'
      BY <1>1, <1>6, <1>10, <2>1, <2>3 DEF Whole
    <3>3. Alone(c)'
      <4>1. c \notin Said(Box(s.target)) /\ \A x \in sends : x.target = s.target => x = s
        BY <2>1, <2>5 DEF Alone
      <4>2. \A x \in sends' : x.target = s.target => x = t
        BY <1>6, <4>1
      <4>3. ASSUME NEW x \in sends', NEW y \in sends', y.target = x.target, y # x PROVE c \notin Said(x.raw)
        <5>1. x \in sends /\ y \in sends
          BY <1>6, <2>3, <4>2, <4>3
        <5>2. QED
          BY <2>1, <4>3, <5>1 DEF Alone
      <4>4. \A x \in sends' : c \notin Said(Box(x.target)')
        BY <1>2, <1>6, <1>10, <2>1, <2>3 DEF Alone
      <4>5. QED
        BY <4>3, <4>4 DEF Alone
    <3>4. InBoxes(c)' = {}
      BY <1>10, <3>1 DEF InBoxes
    <3>5. CASE ok
      <4>1. PICK i : InTurns(c)' = {i}
        BY <1>11, <2>5, <3>1, <3>5
      <4>2. InSends(c)' = {}
        BY <1>6, <2>3, <3>1, <3>5 DEF InSends
      <4>3. i \in DOMAIN accepted'
        BY <4>1 DEF InTurns
      <4>4. OncePlaced(c)'
        BY <3>4, <4>1, <4>2, <4>3 DEF OncePlaced
      <4>5. QED
        BY <2>2, <3>2, <3>3, <4>4 DEF Word
    <3>6. CASE ~ok
      <4>1. InTurns(c)' = {}
        BY <1>11, <3>1, <3>6
      <4>2. InSends(c)' = {t}
        BY <1>6, <2>3, <2>5, <3>1, <3>6 DEF InSends
      <4>3. t \in sends'
        BY <1>6
      <4>4. OncePlaced(c)'
        BY <3>4, <4>1, <4>2, <4>3 DEF OncePlaced
      <4>5. QED
        BY <2>2, <3>2, <3>3, <4>4 DEF Word
    <3>7. QED
      BY <3>5, <3>6
  <2>6. QED
    BY <2>4, <2>5
<1>13. QED
  BY <1>1, <1>7, <1>9, <1>12 DEF ComposerInv

(* A message that is answered, or refused and given back.                  *)
LEMMA ReturnStep == ComposerInv /\ SendReturns => ComposerInv'
<1> SUFFICES ASSUME ComposerInv, SendReturns PROVE ComposerInv'
  OBVIOUS
<1>1. PICK s \in sends, lost \in BOOLEAN :
         /\ sends' = sends \ {s}
         /\ IF s.ok /\ ~lost
            THEN UNCHANGED <<drafts, pastes, pictures, storage, excused>>
            ELSE /\ drafts' = Restored(s)
                 /\ pastes' = [pastes EXCEPT ![s.target] = Prune(@, s.raw)]
                 /\ storage' = Persist(s.target, drafts'[s.target])
                 /\ pictures' = [pictures EXCEPT ![s.target] = @ \cup s.shown]
                 /\ excused' = excused \cup Evicted
                               \cup (IF s.ok \/ at # s.target THEN Said(s.raw) ELSE {})
         /\ UNCHANGED <<at, reading, accepted, made, entered>>
  BY DEF SendReturns
<1>2. /\ Typed /\ Mounted /\ at \in Keys /\ \A k \in Keys : Kept(k) /\ PicturesOf(k)
      /\ \A x \in sends : Sending(x) /\ x.target \in Keys
  BY Targets DEF ComposerInv
<1>3. /\ Draft(s.raw) /\ s.raw # <<>> /\ Said(s.raw) \subseteq entered
      /\ s.target \in made \cup {NewKey} /\ s.from \in {s.target, NewKey}
      /\ \A p \in s.shown : p[1] \in {s.from, NewKey}
  BY <1>2 DEF Sending
<1>4. \A x \in sends' : Sending(x)'
  BY <1>1, <1>2, SendingKept
<1>5. ASSUME NEW c PROVE InTurns(c)' = InTurns(c)
  BY <1>1 DEF InTurns
(* A phrase that is not given back: the rest of its places stay.           *)
<1>6. ASSUME NEW c, Word(c), Backed(c)', \A k \in Keys : c \in Said(Box(k)') <=> c \in Said(Box(k)),
             c \notin Said(s.raw) \/ s.ok,
             \A k \in Keys : /\ c \in pastes[k]
                             /\ c \in Said(Box(k)) \/ \E x \in sends : x.target = k /\ c \in Said(x.raw)
                             => c \in pastes'[k]
      PROVE  Word(c)'
  <2>1. \A x \in sends \cup sends' : x.target \in Keys
    BY <1>1, <1>2
  <2>2. \A x \in sends : c \in Said(x.raw) /\ ~x.ok => x \in sends'
    BY <1>1, <1>6
  <2>3. sends' \ sends = {}
    BY <1>1
  <2>4. QED
    BY <1>5, <1>6, <2>1, <2>2, <2>3, SendsMove
<1>7. CASE s.ok /\ ~lost
  <2>1. UNCHANGED <<drafts, pastes, pictures, storage, excused>>
    BY <1>1, <1>7
  <2>2. Typed' /\ Mounted' /\ \A k \in Keys : Kept(k)' /\ PicturesOf(k)'
    BY <1>1, <1>2, <2>1 DEF Typed, Mounted, Kept, PicturesOf
  <2>3. ASSUME NEW c \in entered \ excused PROVE Word(c)'
    <3>1. Word(c) /\ Backed(c)
      BY DEF ComposerInv, Word
    <3>2. \A k \in Keys : Box(k)' = Box(k) /\ LoadDraft(storage, k)' = LoadDraft(storage, k)
      BY <2>1 DEF Box
    <3>3. Backed(c)'
      BY <3>1, <3>2 DEF Backed
    <3>4. QED
      BY <1>6, <1>7, <2>1, <3>1, <3>2, <3>3
  <2>4. QED
    BY <1>1, <1>2, <1>4, <2>1, <2>2, <2>3 DEF ComposerInv
<1>8. CASE ~(s.ok /\ ~lost)
  <2>1. /\ drafts' = [drafts EXCEPT ![s.target] = s.raw]
        /\ pastes' = [pastes EXCEPT ![s.target] = Prune(@, s.raw)]
        /\ storage' = Persist(s.target, drafts'[s.target])
        /\ pictures' = [pictures EXCEPT ![s.target] = @ \cup s.shown]
        /\ excused' = excused \cup Evicted \cup (IF s.ok \/ at # s.target THEN Said(s.raw) ELSE {})
    BY <1>1, <1>8 DEF Restored
  <2>2. /\ drafts' = [k \in Keys |-> drafts'[k]] /\ drafts'[s.target] = s.raw
        /\ \A k \in Keys \ {s.target} : drafts'[k] = drafts[k]
        /\ pastes' = [k \in Keys |-> pastes'[k]]
        /\ \A k \in Keys : pastes'[k] = IF k = s.target THEN Prune(pastes[k], s.raw) ELSE pastes[k]
    BY <1>2, <2>1 DEF Typed
  <2>3. pictures' = [k \in Keys |-> pictures'[k]] /\ \A k \in Keys : PicturesOf(k)'
    <3>1. pictures' = [k \in Keys |-> pictures'[k]]
      BY <1>2, <2>1 DEF Typed
    <3>2. \A k \in Keys : pictures'[k] = IF k = s.target THEN pictures[k] \cup s.shown ELSE pictures[k]
      BY <1>2, <2>1 DEF Typed
    <3>3. \A k \in Keys : PicturesOf(k)'
      BY <1>2, <1>3, <3>2 DEF PicturesOf
    <3>4. QED
      BY <3>1, <3>3
  <2>4. CASE s.target = at
    <3>1. drafts' = [drafts EXCEPT ![at] = s.raw] /\ storage' = Persist(at, s.raw)
      BY <2>1, <2>2, <2>4
    <3>2. /\ Store(storage') /\ Len(storage') <= MaxStored
          /\ Mounted' /\ \A k \in Keys : Kept(k)'
      BY <1>1, <1>3, <3>1, Edited
    <3>3. Typed'
      BY <1>1, <1>2, <2>2, <2>3, <3>2 DEF Typed
    <3>4. \A k \in Keys \ {at} : Slots(storage, k)' = {} => Said(LoadDraft(storage, k)) \subseteq Evicted
      BY DEF Evicted, Slots
    <3>5. ASSUME NEW c \in entered \ excused' PROVE Word(c)'
      <4>1. c \notin excused /\ c \notin Evicted /\ (s.ok => c \notin Said(s.raw))
        BY <2>1
      <4>2. Word(c) /\ Backed(c) /\ Whole(c) /\ Alone(c) /\ OncePlaced(c)
        BY <4>1 DEF ComposerInv, Word
      <4>3. /\ Backed(c)'
            /\ \A k \in Keys : c \in Said(Box(k)') <=> IF k = at THEN c \in Said(s.raw) ELSE c \in Said(Box(k))
        BY <1>1, <1>3, <3>1, <3>4, <4>1, <4>2, EditedWord
      <4>4. c \notin Said(Box(at)) /\ \A x \in sends : x.target = at /\ x # s => c \notin Said(s.raw) /\ c \notin Said(x.raw)
        BY <2>4, <4>2 DEF Alone
      <4>5. CASE c \notin Said(s.raw)
        <5>1. \A k \in Keys : c \in Said(Box(k)') <=> c \in Said(Box(k))
          BY <4>3, <4>4, <4>5
        <5>2. ASSUME NEW x \in sends, x.target = at PROVE c \notin Said(x.raw)
          BY <4>4, <4>5, <5>2
        <5>3. \A k \in Keys : /\ c \in pastes[k]
                              /\ c \in Said(Box(k)) \/ \E x \in sends : x.target = k /\ c \in Said(x.raw)
                              => c \in pastes'[k]
          BY <2>2, <2>4, <4>4, <5>2
        <5>4. Backed(c)'
          BY <4>3
        <5>5. QED
          BY <1>6, <4>2, <4>5, <5>1, <5>3, <5>4
      <4>6. CASE c \in Said(s.raw)
        <5>1. InBoxes(c) = {} /\ InSends(c) = {s} /\ InTurns(c) = {}
          <6>1. s \in InSends(c)
            BY <4>1, <4>6 DEF InSends
          <6>2. QED
            BY <4>2, <6>1 DEF OncePlaced
        <5>2. \A k \in Keys : c \in Said(Box(k)') <=> k = at
          <6>1. \A k \in Keys : c \notin Said(Box(k))
            BY <5>1 DEF InBoxes
          <6>2. QED
            BY <4>3, <4>6, <6>1
        <5>3. InBoxes(c)' = {at} /\ InSends(c)' = {} /\ InTurns(c)' = {}
          <6>1. InBoxes(c)' = {at}
            BY <1>2, <5>2 DEF InBoxes
          <6>2. InSends(c)' = {}
            BY <1>1, <5>1 DEF InSends
          <6>3. QED
            BY <1>5, <5>1, <6>1, <6>2
        <5>4. OncePlaced(c)'
          BY <1>2, <5>3 DEF OncePlaced
        <5>5. \A x \in sends' : x \in sends /\ x.target # at
          BY <1>1, <4>4, <4>6
        <5>6. Alone(c)'
          <6>1. \A x \in sends' : c \notin Said(Box(x.target)')
            BY <1>2, <5>2, <5>5
          <6>2. \A x, y \in sends' : y.target = x.target /\ y # x => c \notin Said(x.raw)
            BY <4>2, <5>5 DEF Alone
          <6>3. QED
            BY <6>1, <6>2 DEF Alone
        <5>7. Whole(c)'
          <6>1. c \in Pasted => c \in pastes'[at]
            BY <1>2, <2>2, <2>4, <4>2, <4>6 DEF Whole, Prune
          <6>2. \A x \in sends' : c \in Pasted /\ c \in Said(x.raw) => c \in pastes'[x.target]
            BY <1>2, <2>2, <2>4, <4>2, <5>5 DEF Whole
          <6>3. \A x \in sends' : c \in Said(x.raw) =>
                   \E i \in DOMAIN x.said : \A j \in DOMAIN x.said : x.said[j] = c <=> j = i
            BY <4>2, <5>5 DEF Whole
          <6>4. QED
            BY <5>2, <6>1, <6>2, <6>3 DEF Whole
        <5>8. QED
          BY <4>3, <5>4, <5>6, <5>7 DEF Word
      <4>7. QED
        BY <4>5, <4>6
    <3>6. QED
      BY <1>1, <1>2, <1>4, <2>3, <3>2, <3>3, <3>5 DEF ComposerInv
  <2>5. CASE s.target # at
    <3>1. storage' = storage /\ Said(s.raw) \subseteq excused'
      BY <2>1, <2>5 DEF Persist
    <3>2. Typed'
      BY <1>1, <1>2, <2>2, <2>3, <3>1 DEF Typed
    <3>3. Mounted'
      BY <1>1, <1>2, <2>2, <2>5, <3>1 DEF Mounted
    <3>4. ASSUME NEW k \in Keys PROVE Kept(k)'
      <4>1. CASE k = s.target
        <5>1. k \notin Chats \ made
          BY <1>2, <1>3, <4>1, ComposerAssumption DEF Typed
        <5>2. QED
          BY <1>1, <1>2, <1>3, <2>2, <3>1, <4>1, <5>1 DEF Kept
      <4>2. CASE k # s.target
        BY <1>1, <1>2, <2>2, <3>1, <4>2, KeptWhenSame
      <4>3. QED
        BY <4>1, <4>2
    <3>5. ASSUME NEW c \in entered \ excused' PROVE Word(c)'
      <4>1. c \notin excused /\ c \notin Said(s.raw)
        BY <2>1, <3>1
      <4>2. Word(c) /\ Backed(c) /\ Alone(c)
        BY <4>1 DEF ComposerInv, Word
      <4>3. c \notin Said(Box(s.target))
        BY <4>2 DEF Alone
      <4>4. \A k \in Keys : c \in Said(Box(k)') <=> c \in Said(Box(k))
        BY <1>2, <1>3, <2>2, <3>1, <4>1, <4>3 DEF Box
      <4>5. Backed(c)'
        <5>1. \A k \in Keys : c \in Said(Box(k)') <=> c \in Said(LoadDraft(storage', k))
          BY <3>1, <4>2, <4>4 DEF Backed
        <5>2. QED
          BY <5>1 DEF Backed
      <4>6. ASSUME NEW x \in sends, x.target = s.target PROVE c \notin Said(x.raw)
        BY <4>1, <4>2, <4>6 DEF Alone
      <4>7. \A k \in Keys : /\ c \in pastes[k]
                            /\ c \in Said(Box(k)) \/ \E x \in sends : x.target = k /\ c \in Said(x.raw)
                            => c \in pastes'[k]
        BY <2>2, <4>3, <4>6
      <4>8. QED
        BY <1>6, <4>1, <4>2, <4>4, <4>5, <4>7
    <3>6. QED
      BY <1>1, <1>2, <1>4, <2>3, <3>2, <3>3, <3>4, <3>5 DEF ComposerInv
  <2>6. QED
    BY <2>4, <2>5
<1>9. QED
  BY <1>7, <1>8

LEMMA ComposerStep == ComposerInv /\ [ComposerNext]_composerVars => ComposerInv'
BY EnterStep, DeleteStep, QuietStep, ReadPictureStep, SubmitStep, CreatedStep, NotMadeStep, ServeStep,
   ReturnStep, SwitchStep, ReloadStep DEF ComposerNext

-----------------------------------------------------------------------------
(* What the reader composes arrives, whatever the sessions, the phrases,    *)
(* the files pasted and the catalogues: no word is lost or doubled through  *)
(* sends, refusals, switches and reloads but for the excuses named, images *)
(* stay with the session they were pasted into, a paste lands once, and a   *)
(* turn runs on the model its reader saw.                                  *)
THEOREM Composed == ComposedSpec => []ComposedArrives
<1>1. ComposerInit /\ [][ComposerNext]_composerVars => []ComposerInv
  BY ComposerInitially, ComposerStep, PTL
<1>2. IntakeInit /\ [][IntakeNext]_intakeVars => []IntakeInv
  BY IntakeInitially, IntakeStep, PTL
<1>3. ChoiceInit /\ [][ChoiceNext]_choiceVars => []ChoiceInv
  BY ChoiceInitially, ChoiceStep, PTL
<1>4. ComposerInv /\ IntakeInv /\ ChoiceInv => ComposedArrives
  BY ComposerIsRight, IntakeIsSound, ChoiceIsRight DEF ComposedArrives
<1>5. QED
  BY <1>1, <1>2, <1>3, <1>4, PTL DEF ComposedSpec

=============================================================================
