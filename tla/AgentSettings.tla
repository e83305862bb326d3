---------------------------- MODULE AgentSettings ----------------------------
(***************************************************************************)
(* The agent and memory tabs of a project's settings: two forms over one   *)
(* configuration document that every save sends whole.  The server keeps   *)
(* what a null field would replace; a field it holds empty is "".  The     *)
(* document is cached, refetched in the background, and written by other   *)
(* windows; saves of the two tabs may be on their way together.            *)
(***************************************************************************)
EXTENDS Integers, FiniteSets

CONSTANTS
    Personas,       \* what is typed as a persona
    Models, EffortsOf,   \* the catalogue: the efforts each model offers
    EmptyText,          \* the empty string, which is how an unset column is stored
    Null,           \* null, which is how a form sends an unset field
    Blank,          \* a query without data
    Still, Posted,  \* a call not made, and one not yet served
    MaxEdits,       \* bound: edits, saves and visits
    MaxLoads        \* bound: loads of the document

VARIABLES
    config,         \* the project's configuration, on the server
    cached,         \* the query's data
    loadError,      \* the query's error
    load,           \* its request: Still, Posted, or the answer
    tab,            \* the tab on screen
    draft, seed,    \* ProjectAgentSettings' state
    put,            \* the save of each tab: Still, or its body and whether served
    edits, loads

settingsVars == <<config, cached, loadError, load, tab, draft, seed, put, edits, loads>>

EmptyConfig == [persona |-> Null, model |-> Null, effort |-> Null, memory |-> FALSE]

EffortsFor(model) == IF model \in Models THEN EffortsOf[model] ELSE {}

Edit == edits < MaxEdits /\ edits' = edits + 1

-----------------------------------------------------------------------------
(* Mutant of Seeded: whenever data arrives. *)
SeededAlways(shown, data) ==
    IF shown = "agent" /\ data # Blank
    THEN seed' = data /\ draft' = data ELSE UNCHANGED <<seed, draft>>

(* Rendering the agent tab over data whose values are not those the draft    *)
(* was last seeded with seeds it again.                                      *)
Seeded(shown, data) ==
    IF shown = "agent" /\ data # Blank /\ data # seed
    THEN seed' = data /\ draft' = data ELSE UNCHANGED <<seed, draft>>

(* A tab is opened: its form starts afresh, over the cached data. *)
OpenTab(t) ==
    /\ Edit /\ t # tab /\ tab' = t
    /\ IF t = "agent" /\ cached # Blank THEN seed' = cached /\ draft' = cached
       ELSE seed' = Blank /\ draft' = EmptyConfig
    /\ IF load = Still /\ loads < MaxLoads
       THEN \/ load' = Posted /\ loads' = loads + 1
            \/ cached # Blank /\ UNCHANGED <<load, loads>>
       ELSE UNCHANGED <<load, loads>>
    /\ UNCHANGED <<config, cached, loadError, put>>

LoadServed ==
    /\ load = Posted /\ load' = config
    /\ UNCHANGED <<config, cached, loadError, tab, draft, seed, put, edits, loads>>

LoadArrives ==
    /\ load \notin {Still, Posted} /\ load' = Still
    /\ cached' = load /\ loadError' = FALSE
    /\ Seeded(tab, load)
    /\ UNCHANGED <<config, tab, put, edits, loads>>

LoadFails ==
    /\ load # Still /\ load' = Still /\ loadError' = TRUE
    /\ UNCHANGED <<config, cached, tab, draft, seed, put, edits, loads>>

-----------------------------------------------------------------------------
(* The agent tab. *)

Editable == tab = "agent" /\ cached # Blank /\ ~loadError

TypePersona(p) ==
    /\ Edit /\ Editable /\ draft' = [draft EXCEPT !.persona = p]
    /\ UNCHANGED <<config, cached, loadError, load, tab, seed, put, loads>>

(* Another model drops the effort. *)
ChooseModel(m) ==
    /\ Edit /\ Editable /\ draft' = [draft EXCEPT !.model = m, !.effort = Null]
    /\ UNCHANGED <<config, cached, loadError, load, tab, seed, put, loads>>

ChooseEffort(e) ==
    /\ Edit /\ Editable /\ e \in EffortsFor(draft.model) \cup {Null}
    /\ draft' = [draft EXCEPT !.effort = e]
    /\ UNCHANGED <<config, cached, loadError, load, tab, seed, put, loads>>

Dirty == \/ {draft.persona, cached.persona} \notin {{draft.persona}, {EmptyText, Null}}
         \/ draft.model # cached.model \/ draft.effort # cached.effort

(* The whole document is written, the memory flag as it is cached. *)
Save ==
    /\ Edit /\ Editable /\ Dirty /\ put["agent"] = Still
    /\ put' = [put EXCEPT !["agent"] = [body |-> [draft EXCEPT !.memory = cached.memory],
                                        served |-> FALSE]]
    /\ UNCHANGED <<config, cached, loadError, load, tab, draft, seed, loads>>

Discard ==
    /\ Edit /\ Editable /\ Dirty /\ put["agent"] = Still /\ draft' = cached
    /\ UNCHANGED <<config, cached, loadError, load, tab, seed, put, loads>>

-----------------------------------------------------------------------------
(* The memory tab. *)

(* No control without the document: the toggle writes all of it back. *)
ToggleMemory ==
    /\ Edit /\ tab = "memory" /\ cached # Blank /\ put["memory"] = Still
    /\ put' = [put EXCEPT !["memory"] =
                  [body |-> [cached EXCEPT !.memory = ~@], served |-> FALSE]]
    /\ UNCHANGED <<config, cached, loadError, load, tab, draft, seed, loads>>

-----------------------------------------------------------------------------
(* A null field leaves the column alone; the rest are written. *)
UpdateProject(body) ==
    [f \in DOMAIN body |-> IF body[f] = Null THEN config[f] ELSE body[f]]

PutServed(t) ==
    /\ put[t] # Still /\ ~put[t].served
    /\ config' = UpdateProject(put[t].body)
    /\ put' = [put EXCEPT ![t] = [body |-> config', served |-> TRUE]]
    /\ UNCHANGED <<cached, loadError, load, tab, draft, seed, edits, loads>>

(* The answer goes into the cache, whichever tab is on screen by then. *)
PutAnswered(t) ==
    /\ put[t] # Still /\ put[t].served
    /\ put' = [put EXCEPT ![t] = Still]
    /\ cached' = put[t].body /\ loadError' = FALSE
    /\ Seeded(tab, put[t].body)
    /\ UNCHANGED <<config, load, tab, edits, loads>>

PutFails(t) ==
    /\ put[t] # Still /\ put' = [put EXCEPT ![t] = Still]
    /\ UNCHANGED <<config, cached, loadError, load, tab, draft, seed, edits, loads>>

(* Another window saves its forms. *)
OtherWindow(p) ==
    /\ Edit /\ \E memory \in BOOLEAN : config' = [config EXCEPT !.persona = p, !.memory = memory]
    /\ UNCHANGED <<cached, loadError, load, tab, draft, seed, put, loads>>

SettingsInit ==
    /\ config = [persona |-> EmptyText, model |-> EmptyText, effort |-> EmptyText, memory |-> FALSE]
    /\ cached = Blank /\ loadError = FALSE /\ load = Still
    /\ tab = "away" /\ draft = EmptyConfig /\ seed = Blank
    /\ put = [t \in {"agent", "memory"} |-> Still]
    /\ edits = 0 /\ loads = 0

SettingsNext ==
    \/ \E t \in {"agent", "memory", "away"} : OpenTab(t)
    \/ LoadServed \/ LoadArrives \/ LoadFails
    \/ \E p \in Personas \cup {Null} : TypePersona(p)
    \/ \E p \in Personas : OtherWindow(p)
    \/ \E m \in Models \cup {Null} : ChooseModel(m)
    \/ \E e \in UNION {EffortsOf[m] : m \in Models} \cup {Null} : ChooseEffort(e)
    \/ Save \/ Discard \/ ToggleMemory
    \/ \E t \in {"agent", "memory"} : PutServed(t) \/ PutAnswered(t) \/ PutFails(t)

-----------------------------------------------------------------------------
(* A background refetch that brings the values the form was seeded with      *)
(* leaves what is typed alone (the re-seed rule of ProjectAgentSettings).    *)
EditSurvives == [][(LoadArrives /\ load = seed) => draft' = draft]_settingsVars
=============================================================================
