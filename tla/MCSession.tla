----------------------------- MODULE MCSession -----------------------------
(* The session page and the surfaces around it for TLC: one part runs in   *)
(* each behaviour, so the state space is the sum of the parts.             *)
EXTENDS TurnRows, StreamingPreview, SseDecoding, TranscriptScroll, TranscriptFind,
        QuestionForms, ComposedMessage, DraftGrammar, RailSections, ArtifactPanel, AgentSettings,
        CommandKeys, Branching, TLC

VARIABLE part

MCInherited == <<[kind |-> "user", task |-> "anc", key |-> 0, tool |-> "none", sub |-> NoTask, path |-> NoTask, status |-> "none"],
                 [kind |-> "assistant", task |-> "anc", key |-> 1, tool |-> "none", sub |-> NoTask, path |-> NoTask, status |-> "none"]>>
Plain(kind) == [kind |-> kind, tool |-> "none", sub |-> NoTask, path |-> NoTask]
Call(tool, sub, path) == [kind |-> "step", tool |-> tool, sub |-> sub, path |-> path]
MCShapes == {Plain("user"), Plain("assistant"), Plain("thinking"), Plain("error"),
             [kind |-> "subtask", tool |-> "none", sub |-> Subtask, path |-> NoTask],
             Call("edit", NoTask, "p"), Call("command", NoTask, NoTask),
             Call("edit", Subtask, "p"), Call("other", NoTask, NoTask)}
MCTexts == {<<"x">>, <<"y", "x">>, <<"x", "x">>}
MCQuestions == [q \in {"q1", "q2"} |-> IF q = "q1" THEN <<FALSE, TRUE, FALSE>> ELSE <<FALSE, FALSE>>]
Remark(kind, f, written) == [kind |-> kind, file |-> f, form |-> written]
MCRemarks == {Remark("write", 1, "relative"), Remark("made", 1, "dotted"),
              Remark("made", 2, "relative"), Remark("write", 2, "outside")}
MCEfforts == "m1" :> {"low", "high"} @@ "m2" :> {"low"}
Image(type, size, encoded, shots) ==
    [type |-> type, size |-> size, encoded |-> encoded, frames |-> shots, decodes |-> TRUE, reads |-> TRUE]
Text(rows, height, tall, url) == [lines |-> rows, height |-> height, tall |-> tall, url |-> url, blank |-> FALSE]
NoText == [lines |-> 1, height |-> 0, tall |-> FALSE, url |-> FALSE, blank |-> TRUE]
Clip(files, links, words) == [files |-> files, links |-> links, text |-> words]
(* Against a threshold of 1 and a cap of 3: a screenshot that shrinks, one *)
(* that does not, animations, files at the cap, unreadable and not images. *)
MCTransfers ==
    {Clip({Image("image/png", 5, 2, 1), Image("image/gif", 4, 1, 2)}, {}, NoText),
     Clip({Image("image/gif", 3, 1, 2), Image("image/jpeg;q", 2, 2, 1)}, {}, NoText),
     Clip({Image("image/svg+xml", 2, 1, 1), [Image("IMAGE/PNG", 3, 1, 1) EXCEPT !.decodes = FALSE]}, {"u"}, NoText),
     Clip({Image("image/webp", 5, 0, 1), [Image("image/png", 1, 1, 1) EXCEPT !.reads = FALSE]}, {}, Text(3, 2, TRUE, FALSE)),
     Clip({}, {"u"}, Text(1, 1, FALSE, TRUE)), Clip({}, {}, Text(1, 2, TRUE, TRUE)),
     Clip({}, {}, Text(3, 0, FALSE, FALSE)), Clip({}, {}, Text(1, 2, TRUE, FALSE)),
     Clip({}, {}, NoText)}
ModelDef(id, efforts, start, marked) == [id |-> id, efforts |-> efforts, start |-> start, default |-> marked]
(* The file is rewritten with a model more, one gone and a ladder cut.     *)
MCCatalogues == {<<ModelDef("m1", {"low", "high"}, "low", TRUE), ModelDef("m2", {"low"}, Unset, FALSE)>>,
                 <<ModelDef("m3", {"low"}, "low", FALSE), ModelDef("m1", {"low"}, Unset, FALSE)>>}
MCPresets == {NoSelection, [model |-> "m2", effort |-> "low"]}
MCPaths == {<<"a">>, <<"a", " ", "b">>, <<"%", "2", "0">>, <<"%", " ">>}

pageVars == <<rowVars, previewVars, sseVars, scrollVars, findVars, questionVars, composerVars,
              grammarVars>>
sideVars == <<sectionVars, panelVars, settingsVars, keyVars, branchVars, intakeVars, choiceVars>>
notRow == <<previewVars, sseVars, scrollVars, findVars, questionVars, composerVars, grammarVars>>
notPreview == <<rowVars, sseVars, scrollVars, findVars, questionVars, composerVars, grammarVars>>
notSse == <<rowVars, previewVars, scrollVars, findVars, questionVars, composerVars, grammarVars>>
notScroll == <<rowVars, previewVars, sseVars, findVars, questionVars, composerVars, grammarVars>>
notFind == <<rowVars, previewVars, sseVars, scrollVars, questionVars, composerVars, grammarVars>>
notQuestion == <<rowVars, previewVars, sseVars, scrollVars, findVars, composerVars, grammarVars>>
notComposer == <<rowVars, previewVars, sseVars, scrollVars, findVars, questionVars, grammarVars>>
notGrammar == <<rowVars, previewVars, sseVars, scrollVars, findVars, questionVars, composerVars>>
notSections == <<panelVars, settingsVars, keyVars, branchVars, intakeVars, choiceVars>>
notPanel == <<sectionVars, settingsVars, keyVars, branchVars, intakeVars, choiceVars>>
notSettings == <<sectionVars, panelVars, keyVars, branchVars, intakeVars, choiceVars>>
notKeys == <<sectionVars, panelVars, settingsVars, branchVars, intakeVars, choiceVars>>
notBranch == <<sectionVars, panelVars, settingsVars, keyVars, intakeVars, choiceVars>>
notIntake == <<sectionVars, panelVars, settingsVars, keyVars, branchVars, choiceVars>>
notChoice == <<sectionVars, panelVars, settingsVars, keyVars, branchVars, intakeVars>>
vars == <<pageVars, sideVars, part>>

Pages == {"rows", "preview", "sse", "scroll", "find", "question", "composer", "grammar"}
Sides == {"sections", "panel", "settings", "keys", "branch", "intake", "choice"}

(* Parts that do not run have one initial state; the two sessions of the   *)
(* panel are alike, so the first is on screen.                             *)
Init == /\ part \in Pages \cup Sides
        /\ PreviewInit /\ QuestionInit /\ GrammarInit
        /\ RowInit /\ (part # "rows" => items = <<>>)
        /\ SseInit /\ (part # "sse" => body = <<>>)
        /\ ScrollInit /\ (part # "scroll" => shown = "a")
        /\ FindInit /\ (part # "find" => react = [r \in FindRows |-> <<>>])
        /\ ComposerInit /\ (part # "composer" => at = NewKey)
        /\ SectionsInit /\ SettingsInit /\ KeysInit /\ BranchInit /\ IntakeInit
        /\ ChoiceInit /\ (part # "choice" => /\ page = Opener /\ menu = <<>> /\ preset = NoSelection
                                              /\ catalogue[1].id = "m1")
        /\ PanelInit /\ onScreen = "s1"

Next == \/ part = "rows" /\ RowNext /\ UNCHANGED <<notRow, sideVars, part>>
        \/ part = "preview" /\ PreviewNext /\ UNCHANGED <<notPreview, sideVars, part>>
        \/ part = "sse" /\ SseNext /\ UNCHANGED <<notSse, sideVars, part>>
        \/ part = "scroll" /\ ScrollNext /\ UNCHANGED <<notScroll, sideVars, part>>
        \/ part = "find" /\ FindNext /\ UNCHANGED <<notFind, sideVars, part>>
        \/ part = "question" /\ QuestionNext /\ UNCHANGED <<notQuestion, sideVars, part>>
        \/ part = "composer" /\ ComposerNext /\ UNCHANGED <<notComposer, sideVars, part>>
        \/ part = "grammar" /\ GrammarNext /\ UNCHANGED <<notGrammar, sideVars, part>>
        \/ part = "sections" /\ SectionsNext /\ UNCHANGED <<notSections, pageVars, part>>
        \/ part = "panel" /\ PanelNext /\ UNCHANGED <<notPanel, pageVars, part>>
        \/ part = "settings" /\ SettingsNext /\ UNCHANGED <<notSettings, pageVars, part>>
        \/ part = "keys" /\ KeysNext /\ UNCHANGED <<notKeys, pageVars, part>>
        \/ part = "branch" /\ BranchNext /\ UNCHANGED <<notBranch, pageVars, part>>
        \/ part = "intake" /\ IntakeNext /\ UNCHANGED <<notIntake, pageVars, part>>
        \/ part = "choice" /\ ChoiceNext /\ UNCHANGED <<notChoice, pageVars, part>>

Spec == Init /\ [][Next]_vars

(* What arrives over the wire is on the page as it was sent, whole frames  *)
(* by the first part, the text still being written by the second.          *)
StreamShown == ChunkingInvisible /\ PreviewFaithful
=============================================================================
