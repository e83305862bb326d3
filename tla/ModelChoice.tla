----------------------------- MODULE ModelChoice -----------------------------
(***************************************************************************)
(* The model and the effort of a turn, from the picker to the engine: the  *)
(* models file the host reads on every call, the catalogue the page holds  *)
(* of it, a pick per conversation, the project's defaults, and a message   *)
(* that seeds a turn or, the session running, joins one that has its model. *)
(* A catalogue is the sequence of its models, each with its effort ladder, *)
(* the effort it starts at and whether it is the default.                  *)
(***************************************************************************)
EXTENDS Integers, Sequences, FiniteSets, SequencesExt

CONSTANTS Catalogues,        \* what models.json may say, never nothing
          Presets,           \* the defaults a project may have been given
          Talks, Opener,     \* session ids, and '@new'
          Opened,            \* sessions that exist at the start
          Unset,             \* null: a model or an effort not named
          MaxChoices,        \* bound: picks, moves, edits of the file
          MaxMessages        \* bound: messages sent

(* A models file is a list, never empty, that names each model once.       *)
ASSUME ChoiceAssumption ==
    /\ Opener \notin Talks /\ Opened \subseteq Talks /\ Unset \notin {"ran", "refused"}
    /\ \A models \in Catalogues :
          /\ 1 \in DOMAIN models /\ DOMAIN models \subseteq Nat
          /\ \A i, j \in DOMAIN models : models[i].id = models[j].id => i = j
          /\ \A i \in DOMAIN models : models[i].id # Unset /\ Unset \notin models[i].efforts

VARIABLES catalogue,         \* models.json
          hostModel,         \* the default model when the host started
          preset,            \* the project's defaults
          menu,              \* useModels: empty until loaded
          choices, frozen,   \* composer store: picks and steering, by key
          page,              \* the key of the composer on screen
          started,           \* sessions that exist
          busy,              \* sessions the page takes to be running
          live,              \* server: the model of each running turn
          outbox,            \* messages under way
          choosing, messages \* acts and messages so far

choiceVars == <<catalogue, hostModel, preset, menu, choices, frozen, page, started, busy, live,
                outbox, choosing, messages>>
given == <<hostModel, preset>>
counts == <<choosing, messages>>

ModelIds(models) == {models[i].id : i \in DOMAIN models}
Definition(models, id) == CHOOSE d \in ToSet(models) : d.id = id
Ladder(models, id) == IF id \in ModelIds(models) THEN Definition(models, id).efforts ELSE {}
(* get_default_model: the one marked, or the first.                        *)
DefaultModel(models) ==
    LET marked == {i \in DOMAIN models : models[i].default}
    IN  IF marked # {} THEN models[CHOOSE i \in marked : \A j \in marked : i <= j] ELSE models[1]

NoSelection == [model |-> Unset, effort |-> Unset]

(* Mutant of ResolveSelection: a stored effort is sent whatever the ladder. *)
ResolveSelectionStored(models, chosen) ==
    IF models = <<>> THEN NoSelection
    ELSE LET model == IF chosen.model \in ModelIds(models) THEN Definition(models, chosen.model)
                      ELSE DefaultModel(models)
         IN  [model |-> model.id,
              effort |-> IF chosen.effort # Unset THEN chosen.effort ELSE model.start]

(* What the picker shows and a send carries: the pick as far as it is       *)
(* offered, the default of the catalogue or of the model where it is not.   *)
ResolveSelection(models, chosen) ==
    IF models = <<>> THEN NoSelection
    ELSE LET model == IF chosen.model \in ModelIds(models) THEN Definition(models, chosen.model)
                      ELSE DefaultModel(models)
         IN  [model |-> model.id,
              effort |-> IF chosen.effort \in model.efforts THEN chosen.effort
                         ELSE IF model.start \in model.efforts THEN model.start ELSE Unset]

Selection(key) == ResolveSelection(menu, choices[key])

(* sendState: steering is a busy conversation whose reader has sent into it. *)
Occupied(key) == key \in busy \/ \E p \in outbox : p.to = key /\ p.stage # "creating"
SelectorsEnabled(key) == ~(Occupied(key) /\ frozen[key])

Choosing == choosing < MaxChoices /\ choosing' = choosing + 1 /\ UNCHANGED messages

---------------------------------------------------------------------------
EditModels == \E models \in Catalogues :
    /\ Choosing /\ models # catalogue /\ catalogue' = models
    /\ UNCHANGED <<given, menu, choices, frozen, page, started, busy, live, outbox>>

(* The query of the catalogue, fetched again when it is stale: what a pick  *)
(* resolves to changes without the reader.                                 *)
ModelsArrive ==
    /\ menu # catalogue /\ menu' = catalogue
    /\ outbox' = {[p EXCEPT !.left = {}] : p \in outbox}
    /\ UNCHANGED <<catalogue, given, choices, frozen, page, started, busy, live, counts>>

(* A pick on the opener while its message waits for a session: what the     *)
(* reader changed away from since the send.                                 *)
Repicked(pick) ==
    {IF p.stage = "creating" /\ p.held = Unset /\ page = Opener
     THEN [p EXCEPT !.left = (@ \cup {Selection(page).model})
                             \ {ResolveSelection(menu, pick).model}]
     ELSE p : p \in outbox}

(* chooseModel drops the effort, which belongs to a ladder.                *)
PickModel == \E id \in ModelIds(menu) :
    /\ Choosing /\ SelectorsEnabled(page)
    /\ LET pick == [model |-> id, effort |-> Unset]
       IN  choices' = [choices EXCEPT ![page] = pick] /\ outbox' = Repicked(pick)
    /\ UNCHANGED <<catalogue, given, menu, frozen, page, started, busy, live>>

PickEffort == \E effort \in Ladder(menu, Selection(page).model) :
    /\ Choosing /\ SelectorsEnabled(page)
    /\ choices' = [choices EXCEPT ![page].effort = effort]
    /\ UNCHANGED <<catalogue, given, menu, frozen, page, started, busy, live, outbox>>

---------------------------------------------------------------------------
(* The composer of the opener is unmounted when the page moves: a send      *)
(* that still waits for its session keeps the selection last rendered.      *)
Leave(under) ==
    {IF page = Opener /\ p.stage = "creating" /\ p.held = Unset
     THEN [p EXCEPT !.held = Selection(Opener), !.offered = menu] ELSE p : p \in under}

GoTo == \E key \in started \cup {Opener} :
    /\ Choosing /\ key # page /\ page' = key /\ outbox' = Leave(outbox)
    /\ UNCHANGED <<catalogue, given, menu, choices, frozen, started, busy, live>>

NewMessage(key) ==
    [n |-> messages, to |-> key, stage |-> IF key = Opener THEN "creating" ELSE "posting",
     sent |-> Selection(key), offered |-> menu, held |-> Unset, left |-> {},
     rides |-> FALSE, end |-> Unset, ran |-> NoSelection, known |-> <<>>]

(* send: to the conversation on screen at once, from the opener once there  *)
(* is a session.  Into a busy turn it steers, which freezes the picker.     *)
PressSend ==
    /\ messages < MaxMessages /\ messages' = messages + 1 /\ UNCHANGED choosing
    /\ outbox' = outbox \cup {NewMessage(page)}
    /\ frozen' = [frozen EXCEPT ![page] = @ \/ Occupied(page)]
    /\ UNCHANGED <<catalogue, given, menu, choices, page, started, busy, live>>

(* Mutant of Carried: the selection of the render that sent it.             *)
CarriedClosure(p) == p.sent

(* selectionRef: the selection now, or that of the composer's last render.  *)
Carried(p) == IF p.held = Unset THEN Selection(Opener) ELSE p.held

SessionMade == \E p \in outbox, c \in Talks \ started :
    /\ p.stage = "creating" /\ started' = started \cup {c} /\ page' = c
    /\ outbox' = Leave(outbox \ {p})
                \cup {[p EXCEPT !.to = c, !.stage = "posting", !.sent = Carried(p),
                                   !.offered = IF p.held = Unset THEN menu ELSE p.offered]}
    /\ UNCHANGED <<catalogue, given, menu, choices, frozen, busy, live, counts>>

SessionNotMade == \E p \in outbox :
    /\ p.stage = "creating" /\ outbox' = outbox \ {p}
    /\ UNCHANGED <<catalogue, given, menu, choices, frozen, page, started, busy, live, counts>>

---------------------------------------------------------------------------
(* send_message reads the status once, before its awaits.                   *)
ReadStatus == \E p \in outbox :
    /\ p.stage = "posting"
    /\ outbox' = (outbox \ {p}) \cup {[p EXCEPT !.stage = "landing", !.rides = live[p.to] # Unset]}
    /\ UNCHANGED <<catalogue, given, menu, choices, frozen, page, started, busy, live, counts>>

Offers(models, named) ==
    /\ named.model = Unset \/ named.model \in ModelIds(models)
    /\ named.effort = Unset \/ named.effort \in Ladder(models, named.model)

(* Mutant of ResolveModel: a default that is gone is refused like a pick.   *)
ResolveModelStrict(named) ==
    LET selector == IF named.model # Unset THEN named.model ELSE preset.model
        binding == IF selector = Unset THEN DefaultModel(catalogue).id ELSE selector
        effort == IF named.effort # Unset THEN named.effort ELSE preset.effort
    IN  [ok |-> binding \in ModelIds(catalogue)
                /\ (named.effort # Unset => named.effort \in Ladder(catalogue, binding)),
         model |-> IF selector = Unset THEN hostModel ELSE selector,
         effort |-> IF effort \in Ladder(catalogue, binding) THEN effort ELSE Unset]

(* _resolve_model: what the message names is refused when it is not         *)
(* offered, what the project names is dropped, and nothing named is the     *)
(* model the host started with, its effort checked against today's default. *)
ResolveModel(named) ==
    LET asked == IF named.model # Unset THEN named.model ELSE preset.model
        selector == IF asked \in ModelIds(catalogue) THEN asked ELSE Unset
        checked == IF selector = Unset THEN DefaultModel(catalogue).id ELSE selector
        ladder == Ladder(catalogue, checked)
        effort == IF named.effort # Unset THEN named.effort ELSE preset.effort
    IN  [ok |-> /\ named.model # Unset => selector = named.model
                /\ named.effort # Unset => named.effort \in ladder,
         model |-> IF selector = Unset THEN hostModel ELSE selector,
         effort |-> IF effort \in ladder THEN effort ELSE Unset]

(* A session that ran when it was read takes the message into its turn, on  *)
(* the model of that turn; over by now, the engine appends a turn that no   *)
(* pick rides along with.  Any other message seeds a turn, on what it names *)
(* or not at all, unless one was started meanwhile.                         *)
Landing(p) ==
    IF p.rides THEN [end |-> "rode", ran |-> NoSelection]
    ELSE IF live[p.to] # Unset THEN [end |-> "conflict", ran |-> NoSelection]
    ELSE LET turn == ResolveModel(p.sent)
         IN  [end |-> IF turn.ok THEN "ran" ELSE "refused",
              ran |-> [model |-> turn.model, effort |-> turn.effort]]

LandMessage == \E p \in outbox :
    /\ p.stage = "landing"
    /\ LET at == Landing(p)
       IN  /\ outbox' = (outbox \ {p}) \cup {[p EXCEPT !.stage = "landed", !.end = at.end,
                                                        !.ran = at.ran, !.known = catalogue]}
           /\ live' = IF at.end \in {"rode", "ran"} /\ live[p.to] = Unset
                      THEN [live EXCEPT ![p.to] = at.ran] ELSE live
    /\ UNCHANGED <<catalogue, given, menu, choices, frozen, page, started, busy, counts>>

MessageAnswered == \E p \in outbox :
    /\ p.stage = "landed" /\ outbox' = outbox \ {p}
    /\ UNCHANGED <<catalogue, given, menu, choices, frozen, page, started, busy, live, counts>>

TurnOver == \E c \in started :
    /\ live[c] # Unset /\ live' = [live EXCEPT ![c] = Unset]
    /\ UNCHANGED <<catalogue, given, menu, choices, frozen, page, started, busy, outbox, counts>>

(* The stream tells the page.                                              *)
StreamTells == \E c \in started :
    /\ busy' = IF live[c] # Unset THEN busy \cup {c} ELSE busy \ {c}
    /\ busy' # busy
    /\ UNCHANGED <<catalogue, given, menu, choices, frozen, page, started, live, outbox, counts>>

(* The effect that ends a steer with the turn it joined.                   *)
Thaw ==
    /\ frozen[page] /\ ~Occupied(page) /\ frozen' = [frozen EXCEPT ![page] = FALSE]
    /\ UNCHANGED <<catalogue, given, menu, choices, page, started, busy, live, outbox, counts>>

ChoiceInit ==
    /\ catalogue \in Catalogues /\ hostModel = DefaultModel(catalogue).id
    /\ preset \in Presets /\ menu \in {<<>>, catalogue}
    /\ choices = [k \in Talks \cup {Opener} |-> NoSelection]
    /\ frozen = [k \in Talks \cup {Opener} |-> FALSE]
    /\ page \in Opened \cup {Opener} /\ started = Opened
    /\ busy = {} /\ live = [c \in Talks |-> Unset] /\ outbox = {} /\ choosing = 0 /\ messages = 0

ChoiceNext == \/ EditModels \/ ModelsArrive \/ PickModel \/ PickEffort \/ GoTo
              \/ PressSend \/ SessionMade \/ SessionNotMade \/ ReadStatus \/ LandMessage
              \/ MessageAnswered \/ TurnOver \/ StreamTells \/ Thaw

---------------------------------------------------------------------------
(* A message that seeds a turn runs it on the model and the effort shown    *)
(* when it was posted, and at an effort its model offers.                   *)
ShownRuns == \A p \in outbox : p.end = "ran" /\ p.sent.model # Unset =>
    /\ p.ran.model = p.sent.model
    /\ p.sent.effort # Unset => p.ran.effort = p.sent.effort
    /\ p.ran.effort = Unset \/ p.ran.effort \in Ladder(p.known, p.ran.model)

(* A message is refused for its model or effort only when the models file   *)
(* changed under a page that offered it, never for the project's defaults.  *)
RefusedOnlyStale == \A p \in outbox : p.end = "refused" =>
    p.offered # p.known /\ ~Offers(p.known, p.sent)

(* The first message of a session does not carry a model its reader, still  *)
(* on the opener, changed away from while the session was being made, the    *)
(* catalogue being the same.                                               *)
ChangedAwayStays == \A p \in outbox : p.stage # "creating" => p.sent.model \notin p.left

(* The pick of the reader is what the turn runs on.                        *)
PickRuns == ShownRuns /\ RefusedOnlyStale /\ ChangedAwayStays
=============================================================================
