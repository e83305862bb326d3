---------------------------- MODULE PasteIntake ----------------------------
(***************************************************************************)
(* What a paste becomes, decided once (app/paste.ts), and what a pasted    *)
(* file goes through before it may travel (app/images.ts): refused by type, *)
(* re-encoded when that makes it smaller, measured, read.  The server      *)
(* decodes and measures the batch again before it stores any of it         *)
(* (api/images.py).                                                        *)
(***************************************************************************)
EXTENDS Integers, Sequences, SequencesExt, FiniteSets

CONSTANTS
    Transfers,          \* what a clipboard may carry: [files, links, text]
    CompressThreshold,  \* IMAGE_COMPRESS_THRESHOLD_BYTES
    MaxImageBytes,      \* MAX_IMAGE_BYTES, stated on both sides
    MaxInlineLines,     \* MAX_INLINE_PASTE_LINES
    MaxPastes           \* bound: pastes

PastedFiles == [type : STRING, size : Nat, encoded : Nat, frames : Nat,
                decodes : BOOLEAN, reads : BOOLEAN]

ASSUME IntakeAssumption ==
    /\ CompressThreshold \in Nat /\ MaxImageBytes \in Nat
    /\ \A transfer \in Transfers : transfer.files \subseteq PastedFiles

VARIABLES incoming,     \* files being prepared, each with the paste it came in
          attached,     \* images on the composer's strip
          refusals,     \* why the last batch was not attached whole
          inBox,        \* what pastes of text and links put into the draft
          stored,       \* images in the content store
          verdict,      \* of the last send
          pasted

intakeVars == <<incoming, attached, refusals, inBox, stored, verdict, pasted>>

AllowedImageTypes == {"image/gif", "image/jpeg", "image/png", "image/webp"}

(* Parameters dropped, in lower case. *)
NormalizeMediaType(type) ==
    CASE type = "IMAGE/PNG" -> "image/png"
      [] type = "image/jpeg;q" -> "image/jpeg"
      [] OTHER -> type

-----------------------------------------------------------------------------
(* app/images.ts *)

(* A GIF, a small file, one that does not decode and one that would not be *)
(* smaller come back as they are.                                          *)
CompressImageFile(file) ==
    LET gif == NormalizeMediaType(file.type) = "image/gif"
        small == file.size <= CompressThreshold
        encoded == [file EXCEPT !.type = "image/jpeg", !.size = file.encoded, !.frames = 1]
    IN  IF ~gif /\ ~small /\ file.decodes /\ file.encoded # 0 /\ file.encoded < file.size
        THEN encoded ELSE file

(* Type by the original, size by what would be sent. *)
Rejection(file) ==
    LET prepared == CompressImageFile(file)
    IN  CASE file.size = 0                                                -> "missing"
          [] NormalizeMediaType(file.type) \notin AllowedImageTypes       -> "type"
          [] prepared.size > MaxImageBytes                                -> "size"
          [] ~file.reads                                                  -> "missing"
          [] OTHER                                                        -> "none"

(* Mutant of IntakeImageFile: the file as it was measured, sent as it was. *)
IntakeImageFileOriginal(file) ==
    [media |-> file.type, bytes |-> file.size, frames |-> file.frames, of |-> file]

(* An image on the strip. *)
IntakeImageFile(file) ==
    LET prepared == CompressImageFile(file)
    IN  [media |-> NormalizeMediaType(prepared.type), bytes |-> prepared.size,
         frames |-> prepared.frames, of |-> file]

-----------------------------------------------------------------------------
(* app/paste.ts *)

ClassifyPaste(transfer) ==
    CASE transfer.files # {} -> "files"
      [] transfer.links # {} -> "links"
      [] OTHER               -> "text"

(* Too tall where layout answered, or too many lines; a lone link stays a  *)
(* link.                                                                   *)
ShouldCollapsePaste(text) ==
    /\ ~text.blank /\ ~text.url
    /\ (text.height > 0 /\ text.tall) \/ text.lines > MaxInlineLines

HandleComposerPaste(transfer) ==
    /\ pasted < MaxPastes /\ pasted' = pasted + 1
    /\ CASE ClassifyPaste(transfer) = "files" ->
              /\ incoming' = incoming \cup {[paste |-> pasted', files |-> transfer.files]}
              /\ UNCHANGED inBox
         [] ClassifyPaste(transfer) = "links" ->
              /\ inBox' = inBox \cup {<<pasted', "links", transfer.links>>} /\ UNCHANGED incoming
         [] OTHER ->
              /\ inBox' = inBox \cup {<<pasted', IF ShouldCollapsePaste(transfer.text) THEN "chip" ELSE "inline",
                                       {transfer.text}>>}
              /\ UNCHANGED incoming
    /\ UNCHANGED <<attached, refusals, stored, verdict>>

(* Every file of one paste is through: the good ones are attached, the     *)
(* others named.                                                           *)
BatchPrepared(batch) ==
    /\ incoming' = incoming \ {batch}
    /\ attached' = attached \cup {<<batch.paste, IntakeImageFile(f)>> :
                                     f \in {g \in batch.files : Rejection(g) = "none"}}
    /\ refusals' = {Rejection(f) : f \in batch.files} \ {"none"}
    /\ UNCHANGED <<inBox, stored, verdict, pasted>>

RemoveImage(image) ==
    /\ attached' = attached \ {image}
    /\ UNCHANGED <<incoming, refusals, inBox, stored, verdict, pasted>>

-----------------------------------------------------------------------------
(* api/images.py: the batch is refused for its first bad image, before     *)
(* anything is written.                                                    *)
Refused(image) == \/ image.media \notin AllowedImageTypes
                  \/ image.bytes = 0
                  \/ image.bytes > MaxImageBytes

DecodeImages(batch) == IF \E image \in batch : Refused(image) THEN "invalid_image" ELSE "accepted"

(* A message with words in it, and what is on the strip. *)
SendAttached ==
    /\ attached # {}
    /\ LET batch == {a[2] : a \in attached}
       IN  /\ verdict' = DecodeImages(batch)
           /\ stored' = IF verdict' = "accepted" THEN stored \cup attached ELSE stored
    /\ attached' = {} /\ refusals' = {}
    /\ UNCHANGED <<incoming, inBox, pasted>>

IntakeInit == /\ incoming = {} /\ attached = {} /\ refusals = {} /\ inBox = {} /\ stored = {}
              /\ verdict = "none" /\ pasted = 0

IntakeNext == \/ \E transfer \in Transfers : HandleComposerPaste(transfer)
              \/ \E batch \in incoming : BatchPrepared(batch)
              \/ \E image \in attached : RemoveImage(image)
              \/ SendAttached

-----------------------------------------------------------------------------
(* The two sides agree: no image the composer attached is refused by the   *)
(* server, and the composer refuses none for its type or size that the     *)
(* server would have taken as it is (intakeImageFile, decode_images).      *)
SidesAgree ==
    /\ verdict # "invalid_image"
    /\ \A batch \in incoming : \A f \in batch.files :
          Rejection(f) \in {"type", "size"} =>
              Refused([media |-> NormalizeMediaType(f.type), bytes |-> f.size])

(* Compression never costs the reader the image: what is attached is no    *)
(* larger than the file, and an animation keeps its frames.                *)
CompressionSafe ==
    \A a \in attached \cup stored : LET image == a[2] IN
        /\ image.bytes <= image.of.size
        /\ NormalizeMediaType(image.of.type) = "image/gif" => image.frames = image.of.frames

(* A paste lands in one way only, although a clipboard carries the same    *)
(* thing in several forms: as files, as links or as text, and a lone link  *)
(* never behind a chip (classifyPaste, shouldCollapsePaste).               *)
PasteLandsOnce ==
    LET arrived == {b.paste : b \in incoming} \cup {a[1] : a \in attached \cup stored}
    IN  \A p \in inBox : /\ p[1] \notin arrived
                         /\ \A q \in inBox : p[1] = q[1] => p = q
                         /\ p[2] = "chip" => \A t \in p[3] : ~t.url

AttachmentsTaken == SidesAgree /\ CompressionSafe /\ PasteLandsOnce
=============================================================================
