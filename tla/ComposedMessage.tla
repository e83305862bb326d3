--------------------------- MODULE ComposedMessage ---------------------------
(***************************************************************************)
(* What the reader composes, in its three parts side by side: the words    *)
(* and images of a message (Composer), what is pasted into it             *)
(* (PasteIntake), and the model and effort it asks for (ModelChoice).      *)
(***************************************************************************)
EXTENDS Composer, PasteIntake, ModelChoice

ComposedSpec == /\ ComposerInit /\ [][ComposerNext]_composerVars
                /\ IntakeInit /\ [][IntakeNext]_intakeVars
                /\ ChoiceInit /\ [][ChoiceNext]_choiceVars

(* What the reader composes arrives: words and images by the first part,   *)
(* what is pasted by the second, the model and effort picked by the third. *)
ComposedArrives == NothingLost /\ AttachmentsTaken /\ PickRuns
=============================================================================
