------------------------ MODULE SidebarOrganisation ------------------------
(***************************************************************************)
(* The session rail: pin and archive as optimistic edits of versioned      *)
(* server rows, the polled session list and the derived unread marks.      *)
(* PATCHes are served and answered in any order, a poll may be older than  *)
(* the edits it crosses, and engine threads and other tabs write the same  *)
(* rows.  The sections the rows are drawn in are in RailSections.          *)
(***************************************************************************)
EXTENDS Integers, FiniteSets

CONSTANTS
    Sessions,   \* session ids, as numbers: the more recent first
    Opened,     \* the sessions that exist at the start
    None,
    MaxActs     \* bound: edits, creations and deletions here, edits from
                \* another tab and status changes by the engine, together

ASSUME RailAssumption == Sessions \subseteq Nat /\ Opened \subseteq Sessions /\ MaxActs \in Nat

Fields == {"pinned", "archived"}
Statuses == {"idle", "running", "waiting"}

VARIABLES
    server,     \* the sessions table: rows by id
    rowCache,      \* the list query's data
    fetch,      \* a list response on its way, or None
    base, overrides, pendingEdits, nextMutation, deferred,   \* OrganisationState
    requests,   \* PATCH requests and answers on their way
    unread, seenRows,
    selected,   \* the session on screen, or None
    calls,      \* creations and deletions on their way
    acts,       \* how many of the bounded acts were taken
    intent,     \* ghost: what the user last chose, by row and field
    finished,   \* ghost: turns that ended with nobody looking, by row
    settled     \* ghost: the creations and deletions this tab was told of, and
                \* the ids that have been given to a session

railVars == <<server, rowCache, fetch, base, overrides, pendingEdits, nextMutation, deferred,
          requests, unread, seenRows, selected, calls, acts, intent, finished, settled>>
orgVars == <<base, overrides, pendingEdits, nextMutation, deferred>>
unreadVars == <<unread, seenRows>>

Empty == [s \in {} |-> None]
Dropping(f, S) == [x \in DOMAIN f \ S |-> f[x]]
Over(f, g) == [x \in DOMAIN f \cup DOMAIN g |-> IF x \in DOMAIN f THEN f[x] ELSE g[x]]
Only(x, v) == [y \in {x} |-> v]
With(f, x, v) == Over(Only(x, v), f)

-----------------------------------------------------------------------------
(* organisation-protocol.ts *)

(* The part of a row the protocol keeps. *)
SnapshotOf(row) == [pinned |-> row.pinned, archived |-> row.archived,
                    version |-> row.version]

SnapshotsOf(rows) == [s \in DOMAIN rows |-> SnapshotOf(rows[s])]

(* Mutant of ApplyRows: the last to arrive wins. *)
ApplyRowsByArrival(old, rows) == Over(rows, old)

(* Row by row, only a strictly newer version replaces. *)
ApplyRows(old, rows) ==
    [s \in DOMAIN old \cup DOMAIN rows |->
        IF s \in DOMAIN old /\ (s \in DOMAIN rows => old[s].version >= rows[s].version)
        THEN old[s] ELSE rows[s]]

(* Edits of one row merge and take the newer number. *)
BeginMutation(s, field, value) ==
    LET previous == IF s \in DOMAIN overrides THEN overrides[s].patch ELSE Empty
    IN  /\ nextMutation' = nextMutation + 1
        /\ pendingEdits' = pendingEdits + 1
        /\ overrides' = With(overrides, s, [mutation |-> nextMutation + 1,
                                            patch |-> With(previous, field, value)])
        /\ UNCHANGED <<base, deferred>>

(* The answer to a mutation, no row when it failed.  An override goes with *)
(* the newest mutation it merges; the last settlement releases the poll.   *)
SettleMutation(s, mutation, rows) ==
    LET over == {t \in DOMAIN overrides : t = s /\ overrides[t].mutation <= mutation}
    IN  /\ pendingEdits' = IF pendingEdits > 0 THEN pendingEdits - 1 ELSE 0
        /\ overrides' = [t \in DOMAIN overrides \ over |-> overrides[t]]
        /\ base' = ApplyRows(ApplyRows(base, rows),
                             IF pendingEdits' = 0 /\ deferred # None THEN deferred ELSE Empty)
        /\ deferred' = IF pendingEdits' = 0 THEN None ELSE deferred
        /\ UNCHANGED nextMutation

(* Mutant of ApplySync: a poll that crosses an edit is dropped. *)
ApplySyncDrops(rows) ==
    /\ IF pendingEdits > 0
       THEN UNCHANGED <<base, deferred>>
       ELSE base' = ApplyRows(base, SnapshotsOf(rows)) /\ UNCHANGED deferred
    /\ UNCHANGED <<overrides, pendingEdits, nextMutation>>

ApplySync(rows) ==
    /\ IF pendingEdits > 0
       THEN deferred' = SnapshotsOf(rows) /\ UNCHANGED base
       ELSE base' = ApplyRows(base, SnapshotsOf(rows)) /\ UNCHANGED deferred
    /\ UNCHANGED <<overrides, pendingEdits, nextMutation>>

(* What the rail draws for a row: the authoritative state, edits on top. *)
ViewOrganisation(s) ==
    LET known == IF s \in DOMAIN base THEN base[s] ELSE SnapshotOf(rowCache[s])
        patch == IF s \in DOMAIN overrides THEN overrides[s].patch ELSE Empty
    IN  [f \in Fields |-> IF f \in DOMAIN patch THEN patch[f] ELSE known[f]]

-----------------------------------------------------------------------------
(* unread.ts *)

IsActive(status) == status \in {"running", "waiting"}

BaselineOf(row) == [status |-> row.status, version |-> row.version]

(* A row that was working and is idle, or idle and moved in between. *)
ToldBy(before, row) ==
    /\ ~IsActive(row.status)
    /\ IsActive(before.status) \/ row.version > before.version

ObserveSessions(rows, sel) ==
    /\ unread' = (unread \ ({sel} \cap DOMAIN rows)) \cup
                 {s \in DOMAIN rows \cap DOMAIN seenRows : s # sel /\ ToldBy(seenRows[s], rows[s])}
    /\ seenRows' = Over([s \in DOMAIN rows |-> BaselineOf(rows[s])], seenRows)

(* A row this tab wrote itself is no news. *)
Acknowledge(rows) ==
    /\ seenRows' = Over([s \in DOMAIN rows |-> BaselineOf(rows[s])], seenRows)
    /\ UNCHANGED unread

(* Every delivery of the list, and every change of the selection, is a sync. *)
Observe(rows, sel) == ApplySync(rows) /\ ObserveSessions(rows, sel)

-----------------------------------------------------------------------------
(* row-signals.ts: the dot a row carries at its trailing edge *)

RowOutcome(s) ==
    CASE rowCache[s].status = "running" -> None
      [] rowCache[s].status = "waiting" -> "waiting"
      [] OTHER -> IF s \in unread /\ s # selected THEN "unread" ELSE None

-----------------------------------------------------------------------------
(* The server *)

(* Every write of a row bumps its version. *)
Write(s, row) == server' = [server EXCEPT ![s] = [row EXCEPT !.version = @ + 1]]

Act == acts < MaxActs /\ acts' = acts + 1

(* A turn starts, parks on a question or ends. *)
EngineWrites(s, status) ==
    /\ Act
    /\ server[s].status # status
    /\ Write(s, [server[s] EXCEPT !.status = status])
    /\ finished' = IF IsActive(server[s].status) /\ ~IsActive(status)
                       /\ s # selected /\ s \in DOMAIN seenRows
                    THEN With(finished, s, server'[s].version) ELSE finished
    /\ UNCHANGED <<rowCache, fetch, orgVars, requests, unreadVars, selected, calls, intent, settled>>

(* Another tab pins or archives. *)
ForeignWrites(s, field) ==
    /\ Act
    /\ Write(s, [server[s] EXCEPT ![field] = ~@])
    /\ intent' = Dropping(intent, {<<s, field>>})
    /\ UNCHANGED <<rowCache, fetch, orgVars, requests, unreadVars, selected, calls, finished, settled>>

ServePatch(q) ==
    /\ q.row = None
    /\ q.session \in DOMAIN server
    /\ Write(q.session, [server[q.session] EXCEPT ![q.field] = q.value])
    /\ requests' = (requests \ {q}) \cup {[q EXCEPT !.row = Only(q.session, server'[q.session])]}
    /\ intent' = [k \in {k \in DOMAIN intent :
                            \/ k # <<q.session, q.field>>
                            \/ intent[k].mutation <= q.mutation
                            \/ \E r \in requests : /\ r.mutation = intent[k].mutation
                                                  /\ r.row = None} |-> intent[k]]
    /\ UNCHANGED <<rowCache, fetch, orgVars, unreadVars, selected, calls, acts, finished, settled>>

ServeCall(c) ==
    /\ ~c.served
    /\ server' = IF c.kind = "create"
                 THEN With(server, c.session, [pinned |-> FALSE, archived |-> FALSE,
                                               status |-> "idle", version |-> 1])
                 ELSE Dropping(server, {c.session})
    /\ calls' = (calls \ {c}) \cup {[c EXCEPT !.served = TRUE]}
    /\ finished' = IF c.kind = "create" THEN finished ELSE Dropping(finished, {c.session})
    /\ settled' = [settled EXCEPT !.born = @ \cup {c.session}]
    /\ UNCHANGED <<rowCache, fetch, orgVars, requests, unreadVars, selected, acts, intent>>

-----------------------------------------------------------------------------
(* use-session-organisation.ts and session-queries.ts *)

(* The timer invalidates the list: a request under way is cancelled. *)
Poll ==
    /\ fetch' = server
    /\ UNCHANGED <<server, rowCache, orgVars, requests, unreadVars, selected, calls, acts,
                   intent, finished, settled>>

(* The rail sees the list only when its data is other than before. *)
Deliver ==
    /\ fetch # None
    /\ rowCache' = fetch
    /\ fetch' = None
    /\ IF fetch = rowCache THEN UNCHANGED <<orgVars, unreadVars>> ELSE Observe(fetch, selected)
    /\ UNCHANGED <<server, requests, selected, calls, acts, intent, finished, settled>>

(* setPinned and setArchived toggle what the row shows. *)
Mutate(s, field) ==
    /\ Act
    /\ LET value == ~ViewOrganisation(s)[field]
       IN  /\ BeginMutation(s, field, value)
           /\ requests' = requests \cup {[mutation |-> nextMutation', session |-> s,
                                          field |-> field, value |-> value, row |-> None]}
           /\ intent' = With(intent, <<s, field>>, [value |-> value, mutation |-> nextMutation'])
    /\ UNCHANGED <<server, rowCache, fetch, unreadVars, selected, calls, finished, settled>>

(* PATCHes of the same row sent before q and still unanswered: their edits  *)
(* are no longer shown once q settles, since the merged override carries    *)
(* q's number.                                                              *)
Overtaken(q) == {r \in requests : r.session = q.session /\ r.mutation < q.mutation}

(* The row a PATCH answered with: settled, and no news to this tab. *)
Settle(q) ==
    /\ q.row # None
    /\ SettleMutation(q.session, q.mutation, SnapshotsOf(q.row))
    /\ Acknowledge(q.row)
    /\ requests' = requests \ {q}
    /\ finished' = [s \in {t \in DOMAIN finished : t = q.session =>
                              finished[t] > q.row[t].version} |-> finished[s]]
    /\ intent' = Dropping(intent, {<<r.session, r.field>> : r \in Overtaken(q)})
    /\ UNCHANGED <<server, rowCache, fetch, selected, calls, acts, settled>>

(* Refused, or applied with the answer lost: the page cannot tell. *)
SettleFailure(q) ==
    /\ SettleMutation(q.session, q.mutation, Empty)
    /\ requests' = requests \ {q}
    /\ intent' = Dropping(intent, {q.session} \X Fields)
    /\ UNCHANGED <<server, rowCache, fetch, unreadVars, selected, calls, acts, finished, settled>>

(* Opening a session reads it; None is the blank new-session surface. *)
Visit(s) ==
    /\ s # selected
    /\ selected' = s
    /\ ApplySync(rowCache)
    /\ ObserveSessions(rowCache, s)
    /\ finished' = Dropping(finished, {s})
    /\ UNCHANGED <<server, rowCache, fetch, requests, calls, acts, intent, settled>>

CreateSession(s) ==
    /\ Act
    /\ ~\E c \in calls : c.session = s
    /\ s \notin settled.born
    /\ calls' = calls \cup {[kind |-> "create", session |-> s, served |-> FALSE,
                             next |-> None, open |-> TRUE]}
    /\ UNCHANGED <<server, rowCache, fetch, orgVars, requests, unreadVars, selected,
                   intent, finished, settled>>

(* Where the rail goes from a row that is deleted: the first of the rest.   *)
NextRow(s) ==
    LET rest == DOMAIN rowCache \ {s}
    IN  IF rest = {} THEN None ELSE CHOOSE t \in rest : \A u \in rest : t <= u

(* The click closes over the rows and over the session on screen. *)
RemoveSession(s) ==
    /\ Act
    /\ ~\E c \in calls : c.session = s
    /\ calls' = calls \cup
           {[kind |-> "delete", session |-> s, served |-> FALSE, open |-> s = selected,
             next |-> NextRow(s)]}
    /\ UNCHANGED <<server, rowCache, fetch, orgVars, requests, unreadVars, selected,
                   intent, finished, settled>>

(* The index is patched at once and refetched, cancelling what was under way. *)
IndexOnSuccess(rows) == rowCache' = rows /\ fetch' = server

CallSucceeds(c) ==
    /\ c.served
    /\ calls' = calls \ {c}
    /\ IndexOnSuccess(IF c.kind = "create" THEN With(rowCache, c.session, server[c.session])
                      ELSE Dropping(rowCache, {c.session}))
    /\ selected' = IF ~c.open THEN selected ELSE IF c.kind = "create" THEN c.session ELSE c.next
    /\ Observe(rowCache', selected')
    /\ settled' = IF c.kind = "create" THEN [settled EXCEPT !.made = @ \cup {c.session}]
                  ELSE [settled EXCEPT !.gone = @ \cup {c.session}]
    /\ finished' = Dropping(finished, {selected'})
    /\ UNCHANGED <<server, requests, acts, intent>>

CallFails(c) ==
    /\ calls' = calls \ {c}
    /\ UNCHANGED <<server, rowCache, fetch, orgVars, requests, unreadVars, selected, acts,
                   intent, finished, settled>>

-----------------------------------------------------------------------------
RailInit ==
    /\ server = [s \in Opened |-> [pinned |-> FALSE, archived |-> FALSE,
                                   status |-> "idle", version |-> 1]]
    /\ rowCache = Empty /\ fetch = server
    /\ base = Empty /\ overrides = Empty /\ pendingEdits = 0 /\ nextMutation = 0 /\ deferred = None
    /\ requests = {} /\ calls = {}
    /\ unread = {} /\ seenRows = Empty
    /\ selected = None
    /\ acts = 0
    /\ intent = Empty /\ finished = Empty
    /\ settled = [made |-> {}, gone |-> {}, born |-> Opened]

RailNext ==
    \/ \E s \in DOMAIN server : \/ \E status \in Statuses : EngineWrites(s, status)
                                \/ \E field \in Fields : ForeignWrites(s, field)
    \/ \E q \in requests : ServePatch(q) \/ Settle(q) \/ SettleFailure(q)
    \/ \E c \in calls : ServeCall(c) \/ CallSucceeds(c) \/ CallFails(c)
    \/ \E s \in DOMAIN rowCache : (\E field \in Fields : Mutate(s, field)) \/ Visit(s) \/ RemoveSession(s)
    \/ Visit(None)
    \/ \E s \in Sessions : CreateSession(s)
    \/ Poll
    \/ Deliver

RailSpec == RailInit /\ [][RailNext]_railVars

(* The timer ticks, and requests come back, well or badly. *)
RailFairness ==
    /\ WF_railVars(Poll) /\ WF_railVars(Deliver)
    /\ WF_railVars(\E q \in requests : Settle(q) \/ SettleFailure(q))
    /\ WF_railVars(\E c \in calls : CallSucceeds(c) \/ CallFails(c))

-----------------------------------------------------------------------------
(* Types of the rail's stores (organisation-protocol.ts, unread.ts). *)
RailTypeOK ==
    /\ DOMAIN server \subseteq Sessions /\ DOMAIN rowCache \subseteq Sessions
    /\ \A s \in DOMAIN base : base[s].pinned \in BOOLEAN /\ base[s].version \in Nat
    /\ \A s \in DOMAIN overrides : /\ DOMAIN overrides[s].patch \subseteq Fields
                                   /\ overrides[s].mutation \in 1 .. nextMutation
    /\ pendingEdits \in Nat /\ nextMutation \in 0 .. MaxActs
    /\ unread \subseteq Sessions /\ DOMAIN seenRows \subseteq Sessions
    /\ selected \in Sessions \cup {None}

(* The number of unsettled edits is that of the PATCHes on their way, so     *)
(* once the last is answered, well or badly and in whatever order, no edit   *)
(* and no deferred poll is left behind (settleMutation, applySync).          *)
NoStuckEdit ==
    /\ pendingEdits = Cardinality(requests)
    /\ pendingEdits = 0 => overrides = Empty /\ deferred = None

(* A row shows what this tab's user last chose for it, through polls older   *)
(* than the choice and answers in any order, unless a PATCH of the row       *)
(* failed or was overtaken by a later one, or another tab wrote the field    *)
(* (viewOrganisation's optimistic edits, mergeRow's          *)
(* last-writer-wins).                                                        *)
EditHolds ==
    \A s \in DOMAIN rowCache, f \in Fields :
        <<s, f>> \in DOMAIN intent => ViewOrganisation(s)[f] = intent[<<s, f>>].value

(* A turn that ended while another session was on screen is marked on its    *)
(* row as soon as the list shows it ended, even when it began and ended      *)
(* between two polls (observeSessions, rowSignals).                          *)
FinishNoticed ==
    \A s \in DOMAIN rowCache \cap DOMAIN finished :
        rowCache[s].version >= finished[s] /\ ~IsActive(rowCache[s].status)
            => RowOutcome(s) = "unread"

(* Once this tab is told of a deletion no older list brings the row back,    *)
(* and none takes away a session it has just created and opened              *)
(* (useCreateSession, useDeleteSession: patch the index, then refetch).      *)
IndexFollows ==
    /\ settled.gone \cap DOMAIN rowCache = {}
    /\ settled.made \cap DOMAIN server \subseteq DOMAIN rowCache

(* Once nobody writes any more, the rail comes to show exactly what the      *)
(* server holds: no edit, deferred poll or skipped re-render keeps it stale  *)
(* (applySync while pending, the deferred poll of settleMutation).           *)
Converges ==
    <>[](/\ DOMAIN rowCache = DOMAIN server
         /\ \A s \in DOMAIN rowCache : /\ rowCache[s].status = server[s].status
                                     /\ \A f \in Fields : ViewOrganisation(s)[f] = server[s][f])

(* The rail is honest: its stores have their types, no edit is stuck, the  *)
(* reader's choice holds, an unseen finish is marked and a deletion final. *)
RailHonest == RailTypeOK /\ NoStuckEdit /\ EditHolds /\ FinishNoticed /\ IndexFollows
=============================================================================
