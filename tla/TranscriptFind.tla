--------------------------- MODULE TranscriptFind ---------------------------
(***************************************************************************)
(* Find in the conversation (conversation/find).  Marking a match replaces *)
(* a text node React still holds, three timers sit between a keystroke and *)
(* the counter, and rows keep arriving under an open search.  A row is one *)
(* text node; its text is a sequence of words, a query one word ("" stands *)
(* for any query under the minimum length).  In a `shared` row React wrote *)
(* the text node among siblings, so it updates that very node; in the      *)
(* others the text is an element's only child and React replaces what the  *)
(* element holds.                                                          *)
(***************************************************************************)
EXTENDS Integers, Sequences, FiniteSets, SequencesExt

CONSTANTS FindRows,         \* row positions of the transcript, 1..n
          Shared,           \* rows whose text node has siblings
          RowTexts,         \* texts a row may have
          Needles,          \* queries of at least the minimum length
          MaxFindActs       \* bound: acts of the reader and of the stream

VARIABLES react,            \* text React holds for each row, or <<>>: no row
          rewrites,         \* REWRITES: what replaced a row's text node
          stamp,            \* numbers the passes that create marks
          findStore,        \* useFindStore: open, query, appliedQuery, counter
          matches, activeMark,   \* matchesRef, activeRef
          queryDue, collectDue, mutationDue,   \* the three timers
          jumps,            \* times a match was scrolled to
          findActs

findVars == <<react, rewrites, stamp, findStore, matches, activeMark,
              queryDue, collectDue, mutationDue, jumps, findActs>>

Untouched == [needle |-> "", held |-> <<>>, stamp |-> 0]
NoMark == <<0, 0, 0>>
ClosedStore == [open |-> FALSE, query |-> "", applied |-> "", count |-> 0, index |-> -1]

HighlightRanges(txt, needle) == SelectSeq([k \in DOMAIN txt |-> k], LAMBDA k : txt[k] = needle)

(* What a reader sees of a row, and the marks under the container.         *)
Visible(r) == IF rewrites[r] = Untouched THEN react[r] ELSE rewrites[r].held
MarksOf(rw) ==
    FoldLeft(LAMBDA found, r :
                found \o [k \in 1..Len(HighlightRanges(rw[r].held, rw[r].needle))
                             |-> <<r, rw[r].stamp, k>>],
             <<>>, [r \in 1..Cardinality(FindRows) |-> r])

(* markMatches: only plain text can match; a mark is excluded and what is  *)
(* left beside it has lost every occurrence.                               *)
MarkMatches(rw, needle) ==
    [r \in FindRows |->
        IF rw[r] = Untouched /\ HighlightRanges(react[r], needle) # <<>>
        THEN [needle |-> needle, held |-> react[r], stamp |-> stamp + 1] ELSE rw[r]]

(* clearHighlights: the node React holds goes back, with what React wrote  *)
(* into it meanwhile; rebuilding it from the marks would freeze the row.   *)
ClearRebuilding(rw) == [r \in FindRows |-> IF rw[r] = Untouched THEN react[r] ELSE rw[r].held]
ClearHighlights(rw) == [r \in FindRows |-> react[r]]

RetainedByIndex(next, mark, previous) ==
    IF next = <<>> \/ previous < 0 THEN -1
    ELSE IF previous < Len(next) THEN previous ELSE Len(next) - 1
(* retainedIndex: the same element if it lives, else the position.         *)
RetainedIndex(next, mark, previous) ==
    IF next # <<>> /\ \E k \in DOMAIN next : next[k] = mark
    THEN (CHOOSE k \in DOMAIN next : next[k] = mark) - 1
    ELSE RetainedByIndex(next, mark, previous)

StepIndex(current, total, direction) ==
    IF current < 0 THEN IF direction = 1 THEN 0 ELSE total - 1
    ELSE (current + direction + total) % total

---------------------------------------------------------------------------
FindInit ==
    /\ react \in [FindRows -> RowTexts \cup {<<>>}]
    /\ rewrites = [r \in FindRows |-> Untouched] /\ stamp = 0
    /\ findStore = ClosedStore /\ matches = <<>> /\ activeMark = NoMark
    /\ queryDue = FALSE /\ collectDue = FALSE /\ mutationDue = FALSE
    /\ jumps = 0 /\ findActs = 0

FindAct == findActs < MaxFindActs /\ findActs' = findActs + 1

(* activate: what the store, the active mark and the page become.          *)
Activate(next, index, scroll) ==
    /\ matches' = next
    /\ LET hit == index >= 0 /\ index < Len(next)
       IN  /\ activeMark' = IF hit THEN next[index + 1] ELSE NoMark
           /\ findStore' = [findStore EXCEPT !.count = Len(next),
                                             !.index = IF hit THEN index ELSE -1]
           /\ jumps' = IF hit /\ scroll THEN jumps + 1 ELSE jumps

(* The effects that follow a change of `open` or of the applied query:     *)
(* marks are cleared and made anew, and pending timers die with the old    *)
(* effects.  The node of every rewritten row is back first.                *)
EffectsRun(store) ==
    /\ react' = ClearHighlights(rewrites)
    /\ IF store.open /\ store.applied # ""
       THEN /\ rewrites' = MarkMatches([r \in FindRows |-> Untouched], store.applied)
            /\ stamp' = stamp + 1
            /\ collectDue' = TRUE /\ findStore' = store
            /\ UNCHANGED <<matches, activeMark>>
       ELSE /\ rewrites' = [r \in FindRows |-> Untouched]
            /\ matches' = <<>> /\ activeMark' = NoMark /\ collectDue' = FALSE
            /\ findStore' = [store EXCEPT !.count = 0, !.index = -1]
            /\ UNCHANGED stamp
    /\ mutationDue' = FALSE

(* The chord: the query survives while the store has this owner.           *)
OpenFind == /\ FindAct
            /\ LET store == [findStore EXCEPT !.open = TRUE, !.applied = findStore.query]
               IN  IF findStore.open /\ store.applied = findStore.applied
                   THEN UNCHANGED <<react, rewrites, stamp, findStore, matches, activeMark,
                                    collectDue, mutationDue>>
                   ELSE EffectsRun(store)
            /\ queryDue' = (queryDue \/ ~findStore.open)
            /\ UNCHANGED jumps

(* Escape, or the surface is released to another session.                  *)
CloseFind == /\ FindAct /\ findStore.open
             /\ EffectsRun(ClosedStore) /\ queryDue' = FALSE /\ UNCHANGED jumps

SetQuery == \E q \in Needles \cup {""} :
    /\ FindAct /\ findStore.open /\ q # findStore.query
    /\ findStore' = [findStore EXCEPT !.query = q] /\ queryDue' = TRUE
    /\ UNCHANGED <<react, rewrites, stamp, matches, activeMark, collectDue, mutationDue, jumps>>

ApplyQuery == /\ queryDue /\ queryDue' = FALSE
              /\ IF findStore.query = findStore.applied
                 THEN UNCHANGED <<react, rewrites, stamp, findStore, matches, activeMark,
                                  collectDue, mutationDue>>
                 ELSE EffectsRun([findStore EXCEPT !.applied = findStore.query])
              /\ UNCHANGED <<jumps, findActs>>

CollectQuery == /\ collectDue /\ collectDue' = FALSE
                /\ Activate(MarksOf(rewrites), 0, TRUE)
                /\ UNCHANGED <<react, rewrites, stamp, queryDue, mutationDue, findActs>>

CollectMutation ==
    /\ mutationDue /\ mutationDue' = FALSE
    /\ rewrites' = MarkMatches(rewrites, findStore.applied) /\ stamp' = stamp + 1
    /\ LET next == MarksOf(rewrites')
       IN  Activate(next, RetainedIndex(next, activeMark, findStore.index), FALSE)
    /\ UNCHANGED <<react, queryDue, collectDue, findActs>>

StepMatch == \E direction \in {-1, 1} :
    /\ FindAct /\ findStore.open /\ matches # <<>>
    /\ Activate(matches, StepIndex(findStore.index, Len(matches), direction), TRUE)
    /\ UNCHANGED <<react, rewrites, stamp, queryDue, collectDue, mutationDue>>

(* React renders: a new row, another text, or no row.  A text node that a  *)
(* rewrite displaced is written out of sight, and out of the observer's.   *)
RenderRow == \E r \in FindRows, t \in RowTexts \cup {<<>>} :
    /\ FindAct /\ t # react[r]
    /\ react' = [react EXCEPT ![r] = t]
    /\ LET hidden == r \in Shared /\ t # <<>> /\ rewrites[r] # Untouched
       IN  /\ rewrites' = IF hidden THEN rewrites ELSE [rewrites EXCEPT ![r] = Untouched]
           /\ mutationDue' = (mutationDue \/ (~hidden /\ findStore.open /\ findStore.applied # ""))
    /\ UNCHANGED <<stamp, findStore, matches, activeMark, queryDue, collectDue, jumps>>

FindNext == \/ OpenFind \/ CloseFind \/ SetQuery \/ ApplyQuery \/ CollectQuery
            \/ CollectMutation \/ StepMatch \/ RenderRow

---------------------------------------------------------------------------
(* A search leaves the transcript as React wrote it: closing puts back the *)
(* latest text of every row, written under the marks or not.               *)
LeavesNoTrace == [][CloseFind => /\ react' = react
                                 /\ \A r \in FindRows : Visible(r)' = react[r]]_findVars

(* A row that lands while the reader sits on a match neither scrolls the   *)
(* page nor moves the active match while its element lives.                *)
ActiveHeld == [][CollectMutation
                   => /\ jumps' = jumps
                      /\ (activeMark \in ToSet(MarksOf(rewrites)) => activeMark' = activeMark)]_findVars

(* Once the timers have run, the marks are the occurrences a reader sees,  *)
(* the counter counts them and its position is the active one.             *)
CounterAgrees ==
    findStore.open /\ ~queryDue /\ ~collectDue /\ ~mutationDue
    => /\ \A r \in FindRows : findStore.applied # "" =>
             Cardinality({k \in DOMAIN MarksOf(rewrites) : MarksOf(rewrites)[k][1] = r})
               = Len(HighlightRanges(Visible(r), findStore.applied))
       /\ findStore.applied = findStore.query
       /\ findStore.count = Len(MarksOf(rewrites))
       /\ findStore.index >= 0 => activeMark = MarksOf(rewrites)[findStore.index + 1]

(* Find is honest about the text it does not own: it counts what is there, *)
(* leaves nothing behind and keeps the active match through new rows.      *)
FindHonest == /\ []CounterAgrees
              /\ LeavesNoTrace
              /\ ActiveHeld
=============================================================================
