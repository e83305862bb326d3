----------------------------- MODULE RailSections -----------------------------
(***************************************************************************)
(* How a project's sessions are laid out in the rail: three sections, most *)
(* recent first, each fork below its source.  Sessions are created, forked,*)
(* touched by their turns, pinned, archived and deleted while the rail is  *)
(* drawn, so families are split over the sections and joined again.        *)
(***************************************************************************)
EXTENDS Integers, Sequences, SequencesExt, FiniteSets

CONSTANTS
    RowIds,         \* session ids, a set of positive integers
    NoParent,       \* parent_session_id of a session that is no fork
    MaxTouches      \* bound: creations and updates; rows are deleted after them

VARIABLES
    sessionRows,    \* id -> [parent, pinned, archived, stamp]
    stamps,         \* the server's clock
    unfolded        \* ArchivedSection's open

sectionVars == <<sessionRows, stamps, unfolded>>

Present == DOMAIN sessionRows

(* Most recently touched first; two rows touched at once go by their id. *)
CompareSessionRecency(a, b) ==
    \/ sessionRows[a].stamp > sessionRows[b].stamp
    \/ (sessionRows[a].stamp = sessionRows[b].stamp /\ a < b)

ByRecency(S) ==
    [i \in 1 .. Cardinality(S) |->
        CHOOSE s \in S : Cardinality({t \in S : CompareSessionRecency(t, s)}) = i - 1]

Entry(s, depth) == [id |-> s, depth |-> depth]

(* Mutant of NestForks: a family is placed by its most recent member. *)
NestForksByFamily(S) ==
    LET emit[s \in S] ==
            LET forks == ByRecency({c \in S : sessionRows[c].parent = s})
            IN  <<Entry(s, IF sessionRows[s].parent \in S THEN 1 ELSE 0)>>
                    \o FlattenSeq([i \in DOMAIN forks |-> emit[forks[i]]])
        roots == {s \in S : sessionRows[s].parent \notin S}
        newest(s) == CHOOSE n \in {sessionRows[emit[s][i].id].stamp : i \in DOMAIN emit[s]} :
                        \A i \in DOMAIN emit[s] : n >= sessionRows[emit[s][i].id].stamp
        ahead(a, b) == newest(a) > newest(b) \/ (newest(a) = newest(b) /\ a < b)
        order == [i \in 1 .. Cardinality(roots) |->
                     CHOOSE s \in roots : Cardinality({t \in roots : ahead(t, s)}) = i - 1]
    IN  FlattenSeq([i \in DOMAIN order |-> emit[order[i]]])

(* A section's rows by recency, each fork emitted below its source when its  *)
(* source is in the section, at most one level deep to the eye.              *)
NestForks(S) ==
    LET emit[s \in S] ==
            LET forks == ByRecency({c \in S : sessionRows[c].parent = s})
            IN  <<Entry(s, IF sessionRows[s].parent \in S THEN 1 ELSE 0)>>
                    \o FlattenSeq([i \in DOMAIN forks |-> emit[forks[i]]])
        roots == ByRecency({s \in S : sessionRows[s].parent \notin S})
    IN  FlattenSeq([i \in DOMAIN roots |-> emit[roots[i]]])

(* Archived wins over pinned. *)
SectionOfRow(s) == IF sessionRows[s].archived THEN "archived"
                   ELSE IF sessionRows[s].pinned THEN "pinned" ELSE "sessions"

SessionSections ==
    [id \in {"pinned", "sessions", "archived"} |-> NestForks({s \in Present : SectionOfRow(s) = id})]

(* What the rail draws, top to bottom: pinned, sessions, and the archive     *)
(* when it is unfolded.                                                      *)
SessionRail == SessionSections["pinned"] \o SessionSections["sessions"]
                   \o (IF unfolded THEN SessionSections["archived"] ELSE <<>>)

-----------------------------------------------------------------------------
(* The rows as they come from the server and from the row's own buttons. *)

AddRow(s, parent) ==
    /\ s \notin Present /\ \A t \in RowIds : t < s => t \in Present
    /\ stamps < MaxTouches /\ stamps' = stamps + 1
    /\ sessionRows' = [t \in Present \cup {s} |->
           IF t \in Present THEN sessionRows[t]
           ELSE [parent |-> parent, pinned |-> FALSE, archived |-> FALSE, stamp |-> stamps + 1]]
    /\ UNCHANGED unfolded

TouchRow(s) ==
    /\ stamps < MaxTouches /\ stamps' = stamps + 1
    /\ sessionRows' = [sessionRows EXCEPT ![s].stamp = stamps + 1]
    /\ UNCHANGED unfolded

PinRow(s) ==
    /\ sessionRows' = [sessionRows EXCEPT ![s].pinned = ~@] /\ UNCHANGED <<stamps, unfolded>>

ArchiveRow(s) ==
    /\ sessionRows' = [sessionRows EXCEPT ![s].archived = ~@] /\ UNCHANGED <<stamps, unfolded>>

DropRow(s) ==
    /\ stamps = MaxTouches
    /\ sessionRows' = [t \in Present \ {s} |-> sessionRows[t]] /\ UNCHANGED <<stamps, unfolded>>

ToggleArchived == unfolded' = ~unfolded /\ UNCHANGED <<sessionRows, stamps>>

SectionsInit == sessionRows = [s \in {} |-> 0] /\ stamps = 0 /\ unfolded = FALSE

SectionsNext ==
    \/ \E s \in RowIds : \E parent \in Present \cup {NoParent} : AddRow(s, parent)
    \/ \E s \in Present : TouchRow(s) \/ PinRow(s) \/ ArchiveRow(s) \/ DropRow(s)
    \/ ToggleArchived

-----------------------------------------------------------------------------
(* Every session is drawn exactly once, however pins and archives split its  *)
(* family; an indented row is a fork, and what is drawn above it back to its *)
(* source is the source's own family (nestForks and sessionSections).        *)
EveryRowOnce ==
    LET drawn == SessionSections["pinned"] \o SessionSections["sessions"] \o SessionSections["archived"]
    IN  /\ Len(drawn) = Cardinality(Present) /\ {drawn[i].id : i \in DOMAIN drawn} = Present
        /\ \A i \in DOMAIN drawn : drawn[i].depth = 1 =>
               \E j \in 1 .. i - 1 : /\ drawn[j].id = sessionRows[drawn[i].id].parent
                                     /\ \A k \in j + 1 .. i : drawn[k].depth = 1

TopRows == SelectSeq(SessionRail, LAMBDA e : e.depth = 0)

(* A busy fork does not drag its family to the top: a turn of a session      *)
(* drawn below its source leaves the order of the top rows of the rail as    *)
(* it was (the position of a family in nestForks).                           *)
BusyForkStays ==
    [][stamps' # stamps =>
        \A s \in Present : (Entry(s, 1) \in ToSet(SessionRail) /\ TouchRow(s)) => TopRows' = TopRows]_sectionVars

(* Families of forks keep their place and their members.                   *)
FamiliesInPlace == /\ []EveryRowOnce
                   /\ BusyForkStays
=============================================================================
