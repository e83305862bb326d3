---------------------------- MODULE DraftGrammar ----------------------------
(***************************************************************************)
(* The draft is one plain string (app/draft, composer/editor): triggers    *)
(* match the whole of it, a picked file becomes an encoded `@token` inside *)
(* it, and sending decodes the tokens and takes a leading command out.     *)
(* Recall of sent messages (composer/history.ts) writes the same string.   *)
(* Strings are sequences of characters of a small alphabet, because the    *)
(* encoding is what the properties are about.                              *)
(***************************************************************************)
EXTENDS Integers, Sequences, FiniteSets, SequencesExt

CONSTANTS Typed,            \* characters the reader types
          FilePaths,        \* workspace files a mention may pick
          MaxChars,         \* bound: characters typed
          HistoryLimit      \* HISTORY_LIMIT

VARIABLES text,             \* the draft
          known,            \* the mention table of the draft
          meant,            \* the goal the reader means: paths as they are
          past,             \* useHistoryStore: raw drafts of accepted sends
          recall,           \* RecallState
          own,              \* the reader wrote in the draft since it was last blank or recalled
          keystrokes

grammarVars == <<text, known, meant, past, recall, own, keystrokes>>

(* What a reader means by a recalled draft is what it says.                *)
Unvouched == <<"?">>
NotRecalling == [position |-> 0, expected |-> <<>>, stash |-> <<>>]
Space == " "
IsBlank(s) == \A i \in DOMAIN s : s[i] = Space

Trim(s) ==
    IF IsBlank(s) THEN <<>>
    ELSE LET solid == {i \in DOMAIN s : s[i] # Space} IN SubSeq(s, Min(solid), Max(solid))

(* replaceAll of one character, and of one three-character escape.         *)
Escape(s, c, code) == FoldLeft(LAMBDA out, x : IF x = c THEN out \o code ELSE Append(out, x), <<>>, s)
Unescape(s, code, c) ==
    FoldLeft(LAMBDA out, x :
                LET longer == Append(out, x) n == Len(longer)
                IN  IF n >= 3 /\ SubSeq(longer, n - 2, n) = code
                    THEN Append(SubSeq(longer, 1, n - 3), c) ELSE longer,
             <<>>, s)
Code20 == <<"%", "2", "0">>
Code25 == <<"%", "2", "5">>
EncodeMentionValue(value) == Escape(Escape(value, "%", Code25), Space, Code20)
DecodeMentionValue(value) == Unescape(Unescape(value, Code20, Space), Code25, "%")

(* splitDraft: an @token runs to the next space or @; the rest is text.    *)
SplitDraft(s) ==
    FoldLeft(LAMBDA segments, c :
                LET inToken == segments # <<>> /\ Last(segments)[1] = "@"
                IN  CASE c = "@" -> Append(segments, <<c>>)
                      [] c = Space /\ inToken -> Append(segments, <<c>>)
                      [] OTHER -> IF segments = <<>> THEN <<<<c>>>>
                                  ELSE [segments EXCEPT ![Len(segments)] = Append(@, c)],
             <<>>, s)

(* resolveDraft: only values the table knows are decoded; a leading /name  *)
(* before a space, or alone, is a skill and no part of the goal.           *)
ResolveDraft(s, table) ==
    LET decoded == Trim(FlattenSeq([i \in DOMAIN SplitDraft(s) |->
                        LET seg == SplitDraft(s)[i]
                        IN  IF seg[1] = "@" /\ DecodeMentionValue(Tail(seg)) \in table
                            THEN <<"@">> \o DecodeMentionValue(Tail(seg)) ELSE seg]))
        ends == {i \in 1..Len(decoded) + 1 : i > 2 /\ (i > Len(decoded) \/ decoded[i] = Space)
                    /\ \A j \in 2..i - 1 : decoded[j] \notin {Space, "/", "@", "%"}}
    IN  IF decoded # <<>> /\ decoded[1] = "/" /\ ends # {}
        THEN [goal |-> Trim(SubSeq(decoded, Min(ends), Len(decoded))),
              skills |-> <<SubSeq(decoded, 2, Min(ends) - 1)>>]
        ELSE [goal |-> decoded, skills |-> <<>>]

(* draftTrigger: the draft ends in @query at a word boundary.              *)
MentionStart(s) ==
    LET ats == {i \in DOMAIN s : s[i] = "@"}
    IN  IF ats # {} /\ (Max(ats) = 1 \/ s[Max(ats) - 1] = Space)
           /\ \A i \in Max(ats)..Len(s) : s[i] # Space
        THEN Max(ats) ELSE 0
CommitMention(s, value) ==
    SubSeq(s, 1, MentionStart(s) - 1) \o <<"@">> \o EncodeMentionValue(value) \o <<Space>>

SyncNothing(state, s) == state
(* syncRecall: an edited draft is no longer the recalled one.              *)
SyncRecall(state, s) == IF state.position = 0 \/ s = state.expected THEN state ELSE NotRecalling

AppendHistory(entries, raw) ==
    LET entry == Trim(raw) longer == Append(entries, entry)
    IN  IF entry = <<>> \/ (entries # <<>> /\ Last(entries) = entry) THEN entries
        ELSE IF Len(longer) > HistoryLimit THEN Tail(longer) ELSE longer

---------------------------------------------------------------------------
GrammarInit == /\ text = <<>> /\ known = {} /\ meant = <<>> /\ past = <<>>
               /\ recall = NotRecalling /\ own = FALSE /\ keystrokes = 0

TypeChar == \E c \in Typed :
    /\ keystrokes < MaxChars /\ keystrokes' = keystrokes + 1
    /\ text' = Append(text, c) /\ meant' = Append(meant, c)
    /\ own' = (own \/ c # Space)
    /\ UNCHANGED <<known, past, recall>>

(* Enter or Tab on a suggestion: remember the value, commit the token.     *)
AcceptMention == \E v \in FilePaths :
    /\ MentionStart(text) # 0
    /\ keystrokes < MaxChars /\ keystrokes' = keystrokes + 1
    /\ known' = known \cup {v} /\ text' = CommitMention(text, v)
    /\ meant' = IF MentionStart(meant) = 0 THEN meant
                ELSE SubSeq(meant, 1, MentionStart(meant) - 1) \o <<"@">> \o v \o <<Space>>
    /\ own' = TRUE
    /\ UNCHANGED <<past, recall>>

(* Enter outside the menu: the raw draft goes to the history when the send *)
(* is accepted, which is when the box is already empty.                    *)
SendDraft == /\ ResolveDraft(text, known).goal # <<>>
             /\ text' = <<>> /\ meant' = <<>> /\ own' = FALSE
             /\ past' = AppendHistory(past, text)
             /\ UNCHANGED <<known, recall, keystrokes>>

(* stepBack: from a blank draft, or further back from a recalled one.      *)
RecallBack ==
    LET now == SyncRecall(recall, text)
        at0 == IF now.position = 0 THEN Len(past) + 1 ELSE now.position
    IN  /\ keystrokes < MaxChars /\ keystrokes' = keystrokes + 1
        /\ past # <<>> /\ at0 > 1 /\ (now.position = 0 => IsBlank(text))
        /\ recall' = [position |-> at0 - 1, expected |-> past[at0 - 1],
                      stash |-> IF now.position = 0 THEN text ELSE now.stash]
        /\ text' = past[at0 - 1] /\ meant' = Unvouched /\ own' = FALSE
        /\ UNCHANGED <<known, past>>

(* stepForward: towards the newest, and then the stashed draft.            *)
RecallForward ==
    LET now == SyncRecall(recall, text)
    IN  /\ keystrokes < MaxChars /\ keystrokes' = keystrokes + 1
        /\ now.position # 0
        /\ IF now.position + 1 > Len(past)
           THEN recall' = NotRecalling /\ text' = now.stash
           ELSE /\ recall' = [now EXCEPT !.position = @ + 1, !.expected = past[now.position + 1]]
                /\ text' = past[now.position + 1]
        /\ meant' = Unvouched /\ own' = FALSE
        /\ UNCHANGED <<known, past>>

GrammarNext == TypeChar \/ AcceptMention \/ SendDraft \/ RecallBack \/ RecallForward

---------------------------------------------------------------------------
(* The model reads the goal the reader meant: a picked path arrives as it  *)
(* is in the workspace, whatever its spaces and percent signs, and typed   *)
(* text arrives as typed.                                                  *)
MentionSurvives == LET sent == ResolveDraft(text, known)
                   IN  sent.skills = <<>> /\ ~IsPrefix(Unvouched, meant) => sent.goal = Trim(meant)

(* Arrow keys never eat what the reader wrote: they replace a blank draft  *)
(* or, word for word, a message that was sent.                             *)
RecallKeepsWords == [][RecallBack \/ RecallForward => ~own \/ text = recall.expected]_grammarVars

(* What was written is what is sent, and stays until it is sent.           *)
WrittenIsSent == /\ []MentionSurvives
                 /\ RecallKeepsWords
=============================================================================
