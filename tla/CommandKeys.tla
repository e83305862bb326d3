----------------------------- MODULE CommandKeys -----------------------------
(***************************************************************************)
(* Who answers a keystroke: the one table of shortcuts, the global         *)
(* listener, the command palette with its views, and the composer, whose   *)
(* Escape arms and then stops the running turn.                            *)
(***************************************************************************)
EXTENDS Integers, Sequences, FiniteSets

CONSTANTS
    MaxKeys,        \* bound: keystrokes and clicks
    MaxQuery,       \* bound: characters in the search box
    MaxTurns        \* bound: turns of the session

VARIABLES
    isOpen, mode, query,  \* CommandPalette's state; query counts characters
    place,          \* what the URL names: "home", "project", "session", or "trace", outside the shell
    making,         \* a session being created from the palette
    focused,        \* "palette", "composer" or "page"
    suggesting,     \* the editor's suggestion menu is open
    running, turns, \* the turn as the composer draws it
    armed,          \* escapeArmed, while its timer has not fired
    strokes,
    ran,            \* ghost: commands run
    presses, stopped \* ghosts: Escapes this turn within the window; one stopped it

keyVars == <<isOpen, mode, query, place, making, focused, suggesting, running, turns,
             armed, strokes, ran, presses, stopped>>

paletteSide == <<isOpen, mode, query, focused, ran, place, making>>
composerSide == <<suggesting, armed, presses>>

Binding(id, key, mod, shift, scope, owner) ==
    [id |-> id, key |-> key, mod |-> mod, shift |-> shift, scope |-> scope, owner |-> owner]

(* SHORTCUTS: every row may fire in a text field, and no row uses Alt. *)
Shortcuts ==
    {Binding("palette.toggle", "k", TRUE, FALSE, "global", "shell"),
     Binding("shortcuts.help", "/", TRUE, FALSE, "global", "shell"),
     Binding("palette.back", "Escape", FALSE, FALSE, "surface", "palette"),
     Binding("palette.back-empty", "Backspace", FALSE, FALSE, "surface", "palette"),
     Binding("palette.run", "Enter", FALSE, FALSE, "surface", "palette"),
     Binding("composer.send", "Enter", FALSE, FALSE, "surface", "composer"),
     Binding("composer.newline", "Enter", FALSE, TRUE, "surface", "composer"),
     Binding("composer.stop", "Escape", FALSE, FALSE, "surface", "composer")}

GlobalShortcuts == {b \in Shortcuts : b.scope = "global"}
ShortcutsOwnedBy(owner) == {b \in Shortcuts : b.owner = owner}

(* A keystroke; composing stands for any of the three signals of an IME. *)
Keystrokes == [key : {"k", "/", "Escape", "Backspace", "Enter"}, mod : BOOLEAN,
               shift : BOOLEAN, composing : BOOLEAN]

(* Mutant of MatchShortcut: only the rows that submit are guarded. *)
MatchShortcutUnguarded(ev, bindings) ==
    {b \in bindings : /\ ~(ev.composing /\ b.key = "Enter")
                      /\ b.key = ev.key /\ b.mod = ev.mod /\ b.shift = ev.shift}

(* The row a keystroke fires, as a set of at most one. *)
MatchShortcut(ev, bindings) ==
    {b \in bindings : /\ ~ev.composing
                      /\ b.key = ev.key /\ b.mod = ev.mod /\ b.shift = ev.shift}

Fires(ev, bindings, id) == \E b \in MatchShortcut(ev, bindings) : b.id = id

Stroke == place # "trace" /\ strokes < MaxKeys /\ strokes' = strokes + 1

-----------------------------------------------------------------------------
(* The palette. *)

GoToView(next) == mode' = next /\ query' = 0

(* Closing, with the effect that puts the palette back on its first view. *)
Close ==
    /\ isOpen' = FALSE /\ mode' = "root" /\ query' = 0
    /\ focused' = IF focused = "palette" THEN "page" ELSE focused

(* The commands of each view: the reference of shortcuts runs nothing. *)
RootItems ==
    {"project.goto", "shortcuts.show", "home"}
        \cup (IF place # "home" THEN {"session.new", "session.goto", "project.settings"} ELSE {})
        \cup (IF place = "session" THEN {"session.trace"} ELSE {})

PaletteItems == CASE mode = "root"     -> RootItems
           [] mode = "sessions" -> IF place = "home" THEN {} ELSE {"session:open"}
           [] mode = "projects" -> {"project:open"}
           [] OTHER             -> {}

ViewOf(item) == CASE item = "session.goto" -> "sessions" [] item = "project.goto" -> "projects"
                  [] item = "shortcuts.show" -> "shortcuts"

KeepsOpen(item) == item \in {"session.goto", "project.goto", "shortcuts.show"}

PlaceAfter(item) == CASE item = "home" -> "home" [] item = "session.trace" -> "trace"
                      [] item \in {"project.settings", "project:open"} -> "project"
                      [] item = "session:open" -> "session" [] OTHER -> place

(* Away from the session its composer is gone, or drawn idle. *)
ComposerAfter(next) ==
    IF next = "session" THEN UNCHANGED composerSide
    ELSE armed' = FALSE /\ presses' = 0 /\ suggesting' = FALSE

(* A leaf closes first and acts second; a view switch keeps the palette. *)
SelectItem(item) ==
    /\ ran' = ran + 1
    /\ IF KeepsOpen(item) THEN GoToView(ViewOf(item)) /\ UNCHANGED <<isOpen, focused>> ELSE Close
    /\ place' = PlaceAfter(item) /\ ComposerAfter(PlaceAfter(item))
    /\ making' = (making \/ item = "session.new")

(* The global listener; the palette's own field takes the focus as it opens. *)
Global(ev) ==
    \/ /\ Fires(ev, GlobalShortcuts, "palette.toggle")
       /\ IF isOpen THEN Close
          ELSE isOpen' = TRUE /\ focused' = "palette" /\ UNCHANGED <<mode, query>>
    \/ /\ Fires(ev, GlobalShortcuts, "shortcuts.help")
       /\ isOpen' = TRUE /\ focused' = "palette" /\ GoToView("shortcuts")
    \/ /\ MatchShortcut(ev, GlobalShortcuts) = {}
       /\ UNCHANGED <<isOpen, mode, query, focused>>

(* A key pressed in the palette: its capture handler first; what it lets     *)
(* through reaches cmdk, which runs the highlighted command on Enter, and    *)
(* the global listener.                                                      *)
PaletteKey(ev) ==
    LET rows == ShortcutsOwnedBy("palette")
    IN  /\ Stroke /\ isOpen /\ focused = "palette"
        /\ \/ ev.composing /\ UNCHANGED <<paletteSide, composerSide>>
           \/ /\ ~ev.composing /\ Fires(ev, rows, "palette.back")
              /\ IF mode = "root" THEN Close ELSE GoToView("root") /\ UNCHANGED <<isOpen, focused>>
              /\ UNCHANGED <<ran, place, making, composerSide>>
           \/ /\ ~ev.composing /\ Fires(ev, rows, "palette.back-empty")
              /\ IF mode # "root" /\ query = 0 THEN GoToView("root")
                 ELSE mode' = mode /\ query' = IF query > 0 THEN query - 1 ELSE 0
              /\ UNCHANGED <<isOpen, focused, ran, place, making, composerSide>>
           \/ /\ ~ev.composing /\ ev.key = "Enter"
              /\ \/ \E item \in PaletteItems : SelectItem(item)
                 \/ /\ query > 0 \/ PaletteItems = {}
                    /\ UNCHANGED <<paletteSide, composerSide>>
           \/ /\ ~ev.composing /\ ev.key # "Enter" /\ MatchShortcut(ev, rows) = {}
              /\ Global(ev) /\ UNCHANGED <<ran, place, making, composerSide>>
        /\ UNCHANGED <<running, turns, stopped>>

TypeQuery ==
    /\ Stroke /\ isOpen /\ focused = "palette" /\ query < MaxQuery /\ query' = query + 1
    /\ UNCHANGED <<isOpen, mode, place, making, focused, composerSide, running, turns, ran, stopped>>

(* The mouse: a row, the back button, the scrim, or the text of the page. *)
ClickItem(item) ==
    /\ Stroke /\ isOpen /\ item \in PaletteItems /\ SelectItem(item)
    /\ UNCHANGED <<running, turns, stopped>>

ClickBack ==
    /\ Stroke /\ isOpen /\ mode # "root" /\ GoToView("root")
    /\ UNCHANGED <<isOpen, place, making, focused, composerSide, running, turns, ran, stopped>>

ClickScrim ==
    /\ Stroke /\ isOpen /\ Close
    /\ UNCHANGED <<place, making, composerSide, running, turns, ran, stopped>>

FocusOn(surface) ==
    /\ Stroke /\ ~isOpen /\ focused # surface /\ focused' = surface
    /\ surface = "composer" => place = "session"
    /\ UNCHANGED <<isOpen, mode, query, place, making, composerSide, running, turns, ran, stopped>>

(* Back from the trace page: the shell is mounted anew. *)
BackFromTrace ==
    /\ place = "trace" /\ place' = "session"
    /\ UNCHANGED <<isOpen, mode, query, making, focused, running, turns, composerSide, strokes, ran, stopped>>

(* The created session is navigated to, wherever the user is by then. *)
SessionCreated ==
    /\ making /\ making' = FALSE /\ place' = IF place = "trace" THEN place ELSE "session"
    /\ UNCHANGED <<isOpen, mode, query, focused, running, turns, composerSide, strokes, ran, stopped>>

-----------------------------------------------------------------------------
(* The composer. *)

(* Escape anywhere in the composer, whatever else is held down with it. *)
HandleEscape(ev) ==
    IF ev.key # "Escape" \/ suggesting \/ ~running
    THEN UNCHANGED <<armed, presses, stopped>>
    ELSE IF armed
    THEN armed' = FALSE /\ stopped' = (presses + 1) /\ presses' = 0
    ELSE armed' = TRUE /\ presses' = presses + 1 /\ UNCHANGED stopped

(* A key pressed in the composer or on the page, then the global listener. *)
PageKey(ev) ==
    /\ Stroke /\ focused # "palette"
    /\ IF focused = "composer" THEN HandleEscape(ev) ELSE UNCHANGED <<armed, presses, stopped>>
    /\ suggesting' = (suggesting /\ ~(focused = "composer" /\ ev.key = "Escape"))
    /\ Global(ev)
    /\ UNCHANGED <<place, making, running, turns, ran>>

Suggest ==
    /\ Stroke /\ focused = "composer" /\ ~suggesting /\ suggesting' = TRUE
    /\ UNCHANGED <<paletteSide, running, turns, armed, presses, stopped>>

ArmLapses ==
    /\ armed /\ armed' = FALSE /\ presses' = 0
    /\ UNCHANGED <<paletteSide, suggesting, running, turns, strokes, stopped>>

RunStarts ==
    /\ ~running /\ turns < MaxTurns /\ turns' = turns + 1 /\ running' = TRUE
    /\ UNCHANGED <<paletteSide, composerSide, strokes, stopped>>

(* The composer is drawn idle, and its effect disarms the Escape. *)
RunEnds ==
    /\ running /\ running' = FALSE /\ armed' = FALSE /\ presses' = 0
    /\ UNCHANGED <<paletteSide, suggesting, turns, strokes, stopped>>

KeysInit ==
    /\ isOpen = FALSE /\ mode = "root" /\ query = 0 /\ place = "session" /\ making = FALSE
    /\ focused = "composer" /\ suggesting = FALSE /\ running = TRUE /\ turns = 1
    /\ armed = FALSE /\ strokes = 0 /\ ran = 0 /\ presses = 0 /\ stopped = 0

KeysNext ==
    \/ \E ev \in Keystrokes : PaletteKey(ev) \/ PageKey(ev)
    \/ \E item \in PaletteItems : ClickItem(item)
    \/ \E surface \in {"composer", "page"} : FocusOn(surface)
    \/ TypeQuery \/ ClickBack \/ ClickScrim \/ SessionCreated \/ BackFromTrace
    \/ Suggest \/ ArmLapses \/ RunStarts \/ RunEnds

KeysSpec == KeysInit /\ [][KeysNext]_keyVars

-----------------------------------------------------------------------------
(* Reopening lands on the first view with an empty search, however the       *)
(* palette was left: by a command, Escape, the scrim or its own shortcut     *)
(* (the effect on close).                                                    *)
PaletteFresh ==
    [][isOpen' # isOpen =>
        \A ev \in Keystrokes :
            (~isOpen /\ ev.key = "k" /\ PageKey(ev)) => mode' = "root" /\ query' = 0]_keyVars

(* A keystroke of an IME composition opens, closes, searches and runs        *)
(* nothing, wherever the focus is (matchShortcut and the palette's guard).   *)
CompositionInert ==
    [][\/ UNCHANGED <<isOpen, mode, query, ran, place>>
       \/ \A ev \in Keystrokes : ev.composing => ~PaletteKey(ev) /\ ~PageKey(ev)]_keyVars

(* Two presses stop a turn, one never does: an Escape armed against a turn   *)
(* that has ended is not the first press of the next one's (handleEscape     *)
(* and the effect that disarms it).                                          *)
StopNeedsTwo == stopped \in {0, 2}

(* No keystroke does what the reader did not ask of it: a turn is stopped  *)
(* on purpose, a palette opens fresh, a composition triggers nothing.      *)
KeysGuarded == /\ []StopNeedsTwo
               /\ PaletteFresh
               /\ CompositionInert
=============================================================================
