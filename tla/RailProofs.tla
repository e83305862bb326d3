----------------------------- MODULE RailProofs -----------------------------
(***************************************************************************)
(* Proofs about the session rail (SidebarOrganisation), for every number   *)
(* of sessions, edits, turns, polls, creations and deletions: no edit gets *)
(* stuck, a row shows what was last chosen for it, an unseen finish is     *)
(* marked, and the index follows what this tab was told.                   *)
(*                                                                         *)
(* The rail's lists are all copies of the server's rows, of some version.  *)
(* From the moment the PATCH of a choice is served, no list has another    *)
(* value of its field in that version or a later one (Agreed), and the     *)
(* authoritative state gets that far when the PATCH settles; until then    *)
(* the override shows the choice.                                          *)
(*                                                                         *)
(* Last, the routes of the browser (Navigation): what is remembered was    *)
(* confirmed, and redirects end.                                           *)
(***************************************************************************)
EXTENDS SidebarOrganisation, Navigation, FiniteSetTheorems, WellFoundedInduction, TLAPS

-----------------------------------------------------------------------------
(* The inductive invariant *)

Rows == [pinned : BOOLEAN, archived : BOOLEAN, status : Statuses, version : Nat]
Snapshots == [pinned : BOOLEAN, archived : BOOLEAN, version : Nat]
Baselines == [status : Statuses, version : Nat]

Table(T, V) == DOMAIN T \subseteq Sessions /\ T \in [DOMAIN T -> V]

Request(q) ==
    /\ q \in [mutation : 1 .. nextMutation, session : Sessions, field : Fields,
              value : BOOLEAN, row : {q.row}]
    /\ q.row # None => Table(q.row, Rows) /\ DOMAIN q.row = {q.session}

Call(c) == c \in [kind : {"create", "delete"}, session : Sessions, served : BOOLEAN,
                  next : Sessions \cup {None}, open : BOOLEAN]

Override(o) ==
    /\ o.mutation \in 1 .. nextMutation
    /\ DOMAIN o.patch \subseteq Fields /\ o.patch \in [DOMAIN o.patch -> BOOLEAN]

ListsTyped ==
    /\ Table(server, Rows) /\ Table(rowCache, Rows) /\ Table(base, Snapshots)
    /\ fetch # None => Table(fetch, Rows)
    /\ deferred # None => Table(deferred, Snapshots)

EditsTyped ==
    /\ DOMAIN overrides \subseteq Sessions /\ \A s \in DOMAIN overrides : Override(overrides[s])
    /\ overrides = [s \in DOMAIN overrides |-> overrides[s]]
    /\ nextMutation \in Nat /\ acts \in Nat /\ nextMutation <= acts /\ acts <= MaxActs
    /\ \A q \in requests : Request(q)

MarksTyped ==
    /\ Table(seenRows, Baselines) /\ Table(finished, Nat)
    /\ unread \subseteq Sessions /\ selected \in Sessions \cup {None}

SettledType == [made : SUBSET Sessions, gone : SUBSET Sessions, born : SUBSET Sessions]

GhostsTyped ==
    /\ \A c \in calls : Call(c)
    /\ DOMAIN intent \subseteq Sessions \X Fields
    /\ intent \in [DOMAIN intent -> [value : BOOLEAN, mutation : Nat]]
    /\ settled \in SettledType

Typed == ListsTyped /\ EditsTyped /\ MarksTyped /\ GhostsTyped

(* Edits are counted, and one that is shown is on its way. *)
Pending ==
    /\ \A q, r \in requests : q.mutation = r.mutation => q = r
    /\ IsFiniteSet(requests) /\ pendingEdits = Cardinality(requests)
    /\ requests = {} => deferred = None
    /\ \A s \in DOMAIN overrides :
          \E r \in requests : r.session = s /\ r.mutation = overrides[s].mutation

(* One call at a time for a session; what it was served for is so. *)
CallsApart ==
    /\ \A c, d \in calls : c.session = d.session => c = d
    /\ \A c \in calls :
          IF c.kind = "create"
          THEN IF c.served THEN c.session \in DOMAIN server ELSE c.session \notin settled.born
          ELSE c.session \in settled.born /\ (c.served => c.session \notin DOMAIN server)

(* Whatever holds rows: the table, the query's data, the protocol's state,  *)
(* and the answers on their way.                                            *)
Lists == {server, rowCache, base} \cup ({fetch, deferred} \ {None})
            \cup ({r.row : r \in requests} \ {None})

(* No list is ahead of the server. *)
Dated ==
    /\ \A T \in Lists : \A s \in DOMAIN T :
          s \in settled.born /\ (s \in DOMAIN server => T[s].version <= server[s].version)
    /\ \A s \in DOMAIN seenRows :
          s \in settled.born /\ (s \in DOMAIN server => seenRows[s].version <= server[s].version)

Index ==
    /\ settled.gone \cap (DOMAIN server \cup DOMAIN rowCache) = {}
    /\ settled.made \cap DOMAIN server \subseteq DOMAIN rowCache
    /\ settled.gone \cup settled.made \subseteq settled.born
    /\ fetch # None => /\ settled.gone \cap DOMAIN fetch = {}
                       /\ settled.made \cap DOMAIN server \subseteq DOMAIN fetch

(* An unseen finish is marked, or the next look at its row will mark it. *)
Noticed ==
    \A s \in DOMAIN finished :
        /\ s # selected /\ s \in DOMAIN seenRows
        /\ \/ s \in unread
           \/ seenRows[s].version < finished[s]
           \/ IsActive(seenRows[s].status)

(* From version v on, each of these lists has x in field f of row s. *)
Agreed(lists, s, f, v, x) ==
    \A T \in lists : s \in DOMAIN T /\ T[s].version >= v => T[s][f] = x

(* The choice of x for field f of row s, by edit m: the override shows it   *)
(* while its PATCH is on its way, and once that was served every list has   *)
(* it from the version it was served at.                                    *)
Held(s, f, x, m) ==
    /\ s \in settled.born /\ m <= nextMutation
    /\ s \in DOMAIN overrides /\ f \in DOMAIN overrides[s].patch => overrides[s].patch[f] = x
    /\ \A r \in requests : r.session = s /\ r.field = f => r.mutation <= m
    /\ \A r \in requests : r.mutation = m =>
          /\ r.session = s /\ r.field = f /\ r.value = x
          /\ s \in DOMAIN overrides /\ f \in DOMAIN overrides[s].patch
          /\ overrides[s].mutation >= m
          /\ r.row # None => Agreed(Lists, s, f, r.row[s].version, x)
    /\ (\A r \in requests : r.mutation # m) => s \in DOMAIN base /\ Agreed(Lists, s, f, base[s].version, x)

Intended == \A k \in DOMAIN intent : Held(k[1], k[2], intent[k].value, intent[k].mutation)

RailInv == /\ Typed /\ Pending /\ CallsApart /\ Dated /\ Index
           /\ Noticed /\ FinishNoticed /\ Intended

-----------------------------------------------------------------------------
(* Tables *)

LEMMA RowFields ==
    ASSUME NEW r \in Rows
    PROVE  /\ r.version \in Nat /\ r.status \in Statuses
           /\ \A f \in Fields : r[f] \in BOOLEAN
           /\ SnapshotOf(r) \in Snapshots /\ SnapshotOf(r).version = r.version
           /\ \A f \in Fields : SnapshotOf(r)[f] = r[f]
           /\ BaselineOf(r) \in Baselines
           /\ BaselineOf(r).version = r.version /\ BaselineOf(r).status = r.status
  BY DEF Rows, Snapshots, Baselines, SnapshotOf, BaselineOf, Fields

LEMMA SnapshotFields ==
    ASSUME NEW r \in Snapshots
    PROVE  r.version \in Nat /\ \A f \in Fields : r[f] \in BOOLEAN
  BY DEF Snapshots, Fields

LEMMA TableEmpty == ASSUME NEW V PROVE Table(Empty, V) /\ DOMAIN Empty = {}
  BY DEF Table, Empty

LEMMA TableSnapshots ==
    ASSUME NEW T, Table(T, Rows)
    PROVE  /\ Table(SnapshotsOf(T), Snapshots) /\ DOMAIN SnapshotsOf(T) = DOMAIN T
           /\ \A s \in DOMAIN T : /\ SnapshotsOf(T)[s].version = T[s].version
                                  /\ \A f \in Fields : SnapshotsOf(T)[s][f] = T[s][f]
<1>1. \A s \in DOMAIN T : T[s] \in Rows
  BY DEF Table
<1>2. DOMAIN SnapshotsOf(T) = DOMAIN T /\ \A s \in DOMAIN T : SnapshotsOf(T)[s] = SnapshotOf(T[s])
  BY DEF SnapshotsOf
<1>3. SnapshotsOf(T) \in [DOMAIN T -> Snapshots]
  BY <1>1, RowFields DEF SnapshotsOf
<1>4. QED
  BY <1>1, <1>2, <1>3, RowFields DEF Table

LEMMA TableBaselines ==
    ASSUME NEW T, Table(T, Rows)
    PROVE  Table([s \in DOMAIN T |-> BaselineOf(T[s])], Baselines)
<1>1. \A s \in DOMAIN T : BaselineOf(T[s]) \in Baselines
  BY RowFields DEF Table
<1>2. QED
  BY <1>1 DEF Table

(* Merging takes every row from one of both, and goes back in no version. *)
LEMMA Merged ==
    ASSUME NEW T, Table(T, Snapshots), NEW U, Table(U, Snapshots)
    PROVE  /\ Table(ApplyRows(T, U), Snapshots)
           /\ DOMAIN ApplyRows(T, U) = DOMAIN T \cup DOMAIN U
           /\ \A s \in DOMAIN T \cup DOMAIN U :
                 \/ s \in DOMAIN T /\ ApplyRows(T, U)[s] = T[s]
                 \/ s \in DOMAIN U /\ ApplyRows(T, U)[s] = U[s]
           /\ \A s \in DOMAIN T : ApplyRows(T, U)[s].version >= T[s].version
           /\ \A s \in DOMAIN U : ApplyRows(T, U)[s].version >= U[s].version
<1> DEFINE A == ApplyRows(T, U)
<1>1. /\ DOMAIN A = DOMAIN T \cup DOMAIN U
      /\ \A s \in DOMAIN T \cup DOMAIN U :
            A[s] = IF s \in DOMAIN T /\ (s \in DOMAIN U => T[s].version >= U[s].version)
                   THEN T[s] ELSE U[s]
      /\ A = [s \in DOMAIN T \cup DOMAIN U |-> A[s]]
  BY DEF ApplyRows
<1> HIDE DEF A
<1>2. /\ \A s \in DOMAIN T : T[s] \in Snapshots /\ T[s].version \in Nat
      /\ \A s \in DOMAIN U : U[s] \in Snapshots /\ U[s].version \in Nat
  BY SnapshotFields DEF Table
<1>3. \A s \in DOMAIN A : A[s] \in Snapshots
  BY <1>1, <1>2
<1>4. Table(A, Snapshots)
  BY <1>1, <1>3 DEF Table
<1>5. \A s \in DOMAIN T \cup DOMAIN U :
         \/ s \in DOMAIN T /\ A[s] = T[s]
         \/ s \in DOMAIN U /\ A[s] = U[s]
  BY <1>1
<1>6. ASSUME NEW s \in DOMAIN T PROVE A[s].version >= T[s].version
  <2>1. T[s].version \in Nat /\ T[s].version >= T[s].version
    BY <1>2
  <2>2. CASE s \in DOMAIN U /\ ~(T[s].version >= U[s].version)
    <3>1. A[s] = U[s] /\ U[s].version \in Nat
      BY <1>1, <1>2, <2>2
    <3>2. U[s].version >= T[s].version
      BY <2>1, <2>2, <3>1
    <3>3. QED
      BY <3>1, <3>2
  <2>3. CASE ~(s \in DOMAIN U /\ ~(T[s].version >= U[s].version))
    <3>1. A[s] = T[s]
      BY <1>1, <2>3
    <3>2. QED
      BY <2>1, <3>1
  <2>4. QED
    BY <2>2, <2>3
<1>7. ASSUME NEW s \in DOMAIN U PROVE A[s].version >= U[s].version
  <2>1. U[s].version \in Nat /\ U[s].version >= U[s].version
    BY <1>2
  <2>2. CASE s \in DOMAIN T /\ T[s].version >= U[s].version
    <3>1. A[s] = T[s]
      BY <1>1, <2>2
    <3>2. QED
      BY <2>2, <3>1
  <2>3. CASE ~(s \in DOMAIN T /\ T[s].version >= U[s].version)
    <3>1. A[s] = U[s]
      BY <1>1, <2>3
    <3>2. QED
      BY <2>1, <3>1
  <2>4. QED
    BY <2>2, <2>3
<1>8. QED
  BY <1>1, <1>4, <1>5, <1>6, <1>7 DEF A

-----------------------------------------------------------------------------
(* Lists and their copies *)

(* Every row of T is a copy of a row in one of these lists. *)
Copies(T, lists) ==
    \A s \in DOMAIN T :
        \E U \in lists : /\ s \in DOMAIN U /\ T[s].version = U[s].version
                         /\ \A f \in Fields : T[s][f] = U[s][f]

Copied(T) == Copies(T, Lists \cup {server'})

LEMMA RowsOfLists ==
    ASSUME Typed, NEW T \in Lists, NEW s \in DOMAIN T
    PROVE  T[s].version \in Nat /\ s \in Sessions
<1>1. \/ Table(T, Rows)
      \/ Table(T, Snapshots)
  BY DEF Typed, ListsTyped, EditsTyped, Request, Lists
<1>2. QED
  BY <1>1, RowFields, SnapshotFields DEF Table

LEMMA CopiedSelf == ASSUME NEW T \in Lists \cup {server'} PROVE Copied(T)
  BY DEF Copied, Copies

LEMMA CopiedEmpty == Copied(Empty)
  BY DEF Copied, Copies, Empty

LEMMA CopiedSnapshots ==
    ASSUME NEW T, Table(T, Rows), Copied(T)
    PROVE  Copied(SnapshotsOf(T))
<1>1. /\ DOMAIN SnapshotsOf(T) = DOMAIN T
      /\ \A s \in DOMAIN T : /\ SnapshotsOf(T)[s].version = T[s].version
                             /\ \A f \in Fields : SnapshotsOf(T)[s][f] = T[s][f]
  BY TableSnapshots
<1>2. QED
  BY <1>1 DEF Copied, Copies

LEMMA CopiedMerge ==
    ASSUME NEW T, Table(T, Snapshots), Copied(T), NEW U, Table(U, Snapshots), Copied(U)
    PROVE  Copied(ApplyRows(T, U))
<1>1. /\ DOMAIN ApplyRows(T, U) = DOMAIN T \cup DOMAIN U
      /\ \A s \in DOMAIN T \cup DOMAIN U :
            \/ s \in DOMAIN T /\ ApplyRows(T, U)[s] = T[s]
            \/ s \in DOMAIN U /\ ApplyRows(T, U)[s] = U[s]
  BY Merged
<1> HIDE DEF Copied
<1>2. SUFFICES ASSUME NEW s \in DOMAIN ApplyRows(T, U)
               PROVE  \E W \in Lists \cup {server'} :
                         /\ s \in DOMAIN W /\ ApplyRows(T, U)[s].version = W[s].version
                         /\ \A f \in Fields : ApplyRows(T, U)[s][f] = W[s][f]
  BY DEF Copied, Copies
<1>3. CASE s \in DOMAIN T /\ ApplyRows(T, U)[s] = T[s]
  BY <1>3 DEF Copied, Copies
<1>4. CASE s \in DOMAIN U /\ ApplyRows(T, U)[s] = U[s]
  BY <1>4 DEF Copied, Copies
<1>5. QED
  BY <1>1, <1>2, <1>3, <1>4

(* A list of some rows of others. *)
LEMMA CopiedPart ==
    ASSUME NEW T, NEW P,
           \A s \in DOMAIN P : \/ s \in DOMAIN T /\ P[s] = T[s]
                               \/ s \in DOMAIN server /\ P[s] = server[s]
                               \/ s \in DOMAIN server' /\ P[s] = server'[s],
           Copied(T)
    PROVE  Copied(P)
<1>1. server \in Lists \cup {server'} /\ server' \in Lists \cup {server'}
  BY DEF Lists
<1>2. SUFFICES ASSUME NEW s \in DOMAIN P
               PROVE  \E W \in Lists \cup {server'} :
                         /\ s \in DOMAIN W /\ P[s].version = W[s].version
                         /\ \A f \in Fields : P[s][f] = W[s][f]
  BY DEF Copied, Copies
<1>3. CASE s \in DOMAIN T /\ P[s] = T[s]
  BY <1>3 DEF Copied, Copies
<1>4. CASE s \in DOMAIN server /\ P[s] = server[s]
  BY <1>1, <1>4
<1>5. CASE s \in DOMAIN server' /\ P[s] = server'[s]
  BY <1>1, <1>5
<1>6. QED
  BY <1>3, <1>4, <1>5

-----------------------------------------------------------------------------
(* What a step does to the lists *)

BaseGrows == \A s \in DOMAIN base : s \in DOMAIN base' /\ base'[s].version >= base[s].version

(* Every list is copied from those before and from the table, whose rows   *)
(* go back in no version and whose new rows are of new ids.                 *)
Moves ==
    /\ \A T \in Lists' : Copied(T)
    /\ \A s \in DOMAIN server' : \/ s \in DOMAIN server /\ server'[s].version >= server[s].version
                                 \/ s \notin settled.born
    /\ DOMAIN server' \cup settled.born \subseteq settled'.born
    /\ BaseGrows

(* No field of this row is written. *)
Keeps(s, f) == s \in DOMAIN server \cap DOMAIN server' => server'[s][f] = server[s][f]

LEMMA ListsCopied ==
    ASSUME Copied(rowCache'), Copied(base'),
           fetch' # None => Copied(fetch'), deferred' # None => Copied(deferred'),
           \A r \in requests' : r.row # None => Copied(r.row)
    PROVE  \A T \in Lists' : Copied(T)
<1>1. Copied(server')
  BY CopiedSelf
<1> HIDE DEF Copied
<1>2. QED
  BY <1>1 DEF Lists

LEMMA AgreedKept ==
    ASSUME Typed, Typed', Dated, Moves,
           NEW s, NEW f \in Fields, NEW v \in Nat, NEW x, Keeps(s, f),
           s \in settled.born, s \in DOMAIN server => v <= server[s].version,
           Agreed(Lists, s, f, v, x)
    PROVE  Agreed(Lists', s, f, v, x)
<1>1. SUFFICES ASSUME NEW T \in Lists', s \in DOMAIN T, T[s].version >= v PROVE T[s][f] = x
  BY DEF Agreed
<1>2. PICK U \in Lists \cup {server'} :
         s \in DOMAIN U /\ T[s].version = U[s].version /\ T[s][f] = U[s][f]
  BY <1>1 DEF Moves, Copied, Copies
<1>3. CASE U \in Lists
  BY <1>1, <1>2, <1>3 DEF Agreed
<1>4. CASE U = server'
  <2>1. s \in DOMAIN server /\ s \in DOMAIN server'
    BY <1>2, <1>4 DEF Moves
  <2>2. server \in Lists
    BY DEF Lists
  <2>3. server[s].version >= v
    <3>1. server[s].version \in Nat
      BY <2>1, <2>2, RowsOfLists
    <3>2. QED
      BY <2>1, <3>1
  <2>4. server[s][f] = x
    BY <2>1, <2>2, <2>3 DEF Agreed
  <2>5. QED
    BY <1>2, <1>4, <2>1, <2>4 DEF Keeps
<1>5. QED
  BY <1>2, <1>3, <1>4

(* What is agreed from a version on is so from a later one. *)
LEMMA AgreedLater ==
    ASSUME Typed', NEW s, NEW f, NEW v \in Nat, NEW w \in Nat, w >= v, NEW x,
           Agreed(Lists', s, f, v, x)
    PROVE  Agreed(Lists', s, f, w, x)
<1>1. SUFFICES ASSUME NEW T \in Lists', s \in DOMAIN T, T[s].version >= w PROVE T[s][f] = x
  BY DEF Agreed
<1>2. T[s].version \in Nat
  <2>1. \/ Table(T, Rows)
        \/ Table(T, Snapshots)
    BY DEF Typed, ListsTyped, EditsTyped, Request, Lists
  <2>2. QED
    BY <1>1, <2>1, RowFields, SnapshotFields DEF Table
<1>3. T[s].version >= v
  BY <1>1, <1>2
<1>4. QED
  BY <1>1, <1>3 DEF Agreed

LEMMA Versions ==
    ASSUME Typed, Dated, NEW T \in Lists, NEW s \in DOMAIN T
    PROVE  /\ T[s].version \in Nat /\ s \in settled.born /\ s \in Sessions
           /\ s \in DOMAIN server => T[s].version <= server[s].version
  BY RowsOfLists DEF Dated

LEMMA ListMembers ==
    /\ server \in Lists /\ rowCache \in Lists /\ base \in Lists
    /\ fetch # None => fetch \in Lists
    /\ deferred # None => deferred \in Lists
    /\ \A r \in requests : r.row # None => r.row \in Lists
  BY DEF Lists

LEMMA CopiedStay ==
    /\ Copied(server) /\ Copied(server') /\ Copied(rowCache) /\ Copied(base)
    /\ fetch # None => Copied(fetch)
    /\ deferred # None => Copied(deferred)
    /\ \A r \in requests : r.row # None => Copied(r.row)
<1> HIDE DEF Copied
<1>1. QED
  BY ListMembers, CopiedSelf

LEMMA BaseStays == ASSUME Typed, base' = base PROVE BaseGrows
<1>1. \A s \in DOMAIN base : base[s].version \in Nat
  BY SnapshotFields DEF Typed, ListsTyped, Table
<1>2. QED
  BY <1>1 DEF BaseGrows

(* Nobody writes a row. *)
LEMMA MovesServerSame ==
    ASSUME Typed, Dated, server' = server, settled.born \subseteq settled'.born,
           \A T \in Lists' : Copied(T), BaseGrows
    PROVE  Moves
<1>1. \A s \in DOMAIN server : server[s].version \in Nat /\ s \in settled.born
  BY Versions, ListMembers
<1> HIDE DEF Copied, BaseGrows
<1>2. QED
  BY <1>1 DEF Moves

LEMMA DatedKept ==
    ASSUME Typed, Typed', Dated, Moves,
           \A s \in DOMAIN seenRows' :
              \/ s \in DOMAIN seenRows /\ seenRows'[s].version = seenRows[s].version
              \/ \E U \in Lists : s \in DOMAIN U /\ seenRows'[s].version = U[s].version
    PROVE  Dated'
<1>1. ASSUME NEW v \in Nat, NEW s \in settled.born, s \in DOMAIN server => v <= server[s].version
      PROVE  s \in settled'.born /\ (s \in DOMAIN server' => v <= server'[s].version)
  <2>1. s \in settled'.born
    BY DEF Moves
  <2>2. ASSUME s \in DOMAIN server' PROVE v <= server'[s].version
    <3>1. s \in DOMAIN server /\ server'[s].version >= server[s].version
      BY <2>2 DEF Moves
    <3>2. server[s].version \in Nat /\ server'[s].version \in Nat
      BY <2>2, <3>1, RowFields DEF Typed, ListsTyped, Table
    <3>3. QED
      BY <1>1, <3>1, <3>2
  <2>3. QED
    BY <2>1, <2>2
<1>2. ASSUME NEW T \in Lists', NEW s \in DOMAIN T
      PROVE  s \in settled'.born /\ (s \in DOMAIN server' => T[s].version <= server'[s].version)
  <2>1. PICK U \in Lists \cup {server'} : s \in DOMAIN U /\ T[s].version = U[s].version
    BY <1>2 DEF Moves, Copied, Copies
  <2>2. CASE U \in Lists
    <3>1. U[s].version \in Nat /\ s \in settled.born
          /\ (s \in DOMAIN server => U[s].version <= server[s].version)
      BY <2>1, <2>2, Versions
    <3>2. QED
      BY <1>1, <2>1, <3>1
  <2>3. CASE U = server'
    <3>1. s \in DOMAIN server' /\ server'[s].version \in Nat
      BY <2>1, <2>3, RowFields DEF Typed, ListsTyped, Table
    <3>2. QED
      BY <2>1, <2>3, <3>1 DEF Moves
  <2>4. QED
    BY <2>1, <2>2, <2>3
<1>3. ASSUME NEW s \in DOMAIN seenRows'
      PROVE  s \in settled'.born /\ (s \in DOMAIN server' => seenRows'[s].version <= server'[s].version)
  <2>1. CASE s \in DOMAIN seenRows /\ seenRows'[s].version = seenRows[s].version
    <3>1. seenRows[s].version \in Nat
      BY <2>1 DEF Typed, MarksTyped, Table, Baselines
    <3>2. QED
      BY <1>1, <2>1, <3>1 DEF Dated
  <2>2. CASE \E U \in Lists : s \in DOMAIN U /\ seenRows'[s].version = U[s].version
    <3>1. PICK U \in Lists : s \in DOMAIN U /\ seenRows'[s].version = U[s].version
      BY <2>2
    <3>2. U[s].version \in Nat /\ s \in settled.born
          /\ (s \in DOMAIN server => U[s].version <= server[s].version)
      BY <3>1, Versions
    <3>3. QED
      BY <1>1, <3>1, <3>2
  <2>3. QED
    BY <1>3, <2>1, <2>2
<1>4. QED
  BY <1>2, <1>3 DEF Dated

LEMMA BaseAgreed ==
    ASSUME Typed, Typed', Dated, Moves, NEW s, NEW f \in Fields, NEW x, Keeps(s, f),
           s \in DOMAIN base, Agreed(Lists, s, f, base[s].version, x)
    PROVE  s \in DOMAIN base' /\ Agreed(Lists', s, f, base'[s].version, x)
<1>1. /\ base[s].version \in Nat /\ s \in settled.born
      /\ s \in DOMAIN server => base[s].version <= server[s].version
  BY Versions, ListMembers
<1>2. Agreed(Lists', s, f, base[s].version, x)
  BY <1>1, AgreedKept
<1>3. s \in DOMAIN base' /\ base'[s].version >= base[s].version
  BY DEF Moves, BaseGrows
<1>4. base'[s].version \in Nat
  BY <1>3, SnapshotFields DEF Typed, ListsTyped, Table
<1>5. QED
  BY <1>1, <1>2, <1>3, <1>4, AgreedLater

LEMMA AnswerAgreed ==
    ASSUME Typed, Typed', Dated, Moves, NEW s, NEW f \in Fields, NEW x, Keeps(s, f),
           NEW r \in requests, r.session = s, r.row # None,
           Agreed(Lists, s, f, r.row[s].version, x)
    PROVE  Agreed(Lists', s, f, r.row[s].version, x)
<1>1. r.row \in Lists /\ s \in DOMAIN r.row
  BY ListMembers DEF Typed, EditsTyped, Request
<1>2. /\ r.row[s].version \in Nat /\ s \in settled.born
      /\ s \in DOMAIN server => r.row[s].version <= server[s].version
  BY <1>1, Versions
<1>3. QED
  BY <1>2, AgreedKept

(* A step that neither edits nor settles keeps a choice whose field is not written. *)
LEMMA HeldKept ==
    ASSUME Typed, Typed', Dated, Moves, NEW s, NEW f \in Fields, NEW x, NEW m, Keeps(s, f),
           UNCHANGED <<requests, overrides, nextMutation>>, Held(s, f, x, m)
    PROVE  Held(s, f, x, m)'
<1>1. s \in settled'.born
  BY DEF Held, Moves
<1>2. ASSUME NEW r \in requests', r.mutation = m, r.row # None
      PROVE  Agreed(Lists', s, f, r.row[s].version, x)
  BY <1>2, AnswerAgreed DEF Held
<1>3. ASSUME \A r \in requests' : r.mutation # m
      PROVE  s \in DOMAIN base' /\ Agreed(Lists', s, f, base'[s].version, x)
  BY <1>3, BaseAgreed DEF Held
<1>4. QED
  BY <1>1, <1>2, <1>3 DEF Held

LEMMA IntendedByHeld ==
    ASSUME \A k \in DOMAIN intent' : \A x, m :
              x = intent'[k].value /\ m = intent'[k].mutation => Held(k[1], k[2], x, m)'
    PROVE  Intended'
  BY DEF Intended, Held

LEMMA IntendedKept ==
    ASSUME Typed, Typed', Dated, Moves, Intended,
           UNCHANGED <<requests, overrides, nextMutation>>,
           \A k \in DOMAIN intent' : /\ k \in DOMAIN intent /\ intent'[k] = intent[k]
                                     /\ Keeps(k[1], k[2])
    PROVE  Intended'
<1>1. ASSUME NEW k \in DOMAIN intent', NEW x, NEW m,
             x = intent'[k].value, m = intent'[k].mutation
      PROVE  Held(k[1], k[2], x, m)'
  <2>1. k \in DOMAIN intent /\ intent'[k] = intent[k] /\ k[2] \in Fields /\ Keeps(k[1], k[2])
    BY <1>1 DEF Typed, GhostsTyped
  <2>2. Held(k[1], k[2], x, m)
    BY <1>1, <2>1 DEF Intended
  <2>3. QED
    BY <2>1, <2>2, HeldKept
<1>2. QED
  BY <1>1, IntendedByHeld

-----------------------------------------------------------------------------
(* The protocol's state *)

DeferredOK == deferred' # None => Table(deferred', Snapshots) /\ Copied(deferred')

LEMMA MergedVersions ==
    ASSUME NEW T, Table(T, Snapshots), NEW s \in DOMAIN T
    PROVE  T[s].version \in Nat
  BY SnapshotFields DEF Table

LEMMA SyncMoves ==
    ASSUME Typed, Pending, NEW rows, Table(rows, Rows), Copied(rows), ApplySync(rows)
    PROVE  /\ Table(base', Snapshots) /\ Copied(base') /\ BaseGrows /\ DeferredOK
           /\ requests = {} => deferred' = None
           /\ UNCHANGED <<overrides, pendingEdits, nextMutation>>
<1> DEFINE snapshots == SnapshotsOf(rows)
<1>1. Table(snapshots, Snapshots) /\ Copied(snapshots) /\ Table(base, Snapshots)
  <2> HIDE DEF Copied
  <2>1. QED
    BY TableSnapshots, CopiedSnapshots DEF Typed, ListsTyped
<1>2. Copied(base) /\ (deferred # None => Copied(deferred) /\ Table(deferred, Snapshots))
  <2> HIDE DEF Copied
  <2>1. QED
    BY CopiedStay DEF Typed, ListsTyped
<1>3. UNCHANGED <<overrides, pendingEdits, nextMutation>>
  BY DEF ApplySync
<1>4. CASE pendingEdits > 0
  <2>1. deferred' = snapshots /\ base' = base
    BY <1>4 DEF ApplySync
  <2>2. requests # {}
    BY <1>4, FS_EmptySet DEF Pending
  <2> HIDE DEF snapshots, Copied
  <2>3. QED
    BY <1>1, <1>2, <1>3, <2>1, <2>2, BaseStays DEF DeferredOK
<1>5. CASE ~(pendingEdits > 0)
  <2>1. base' = ApplyRows(base, snapshots) /\ deferred' = deferred
    BY <1>5 DEF ApplySync
  <2> HIDE DEF snapshots, Copied
  <2>2. Table(base', Snapshots) /\ Copied(base')
    BY <1>1, <1>2, <2>1, Merged, CopiedMerge
  <2>3. BaseGrows
    BY ZenonT(60), <1>1, <2>1, Merged DEF BaseGrows
  <2>4. QED
    BY <1>2, <1>3, <2>1, <2>2, <2>3 DEF DeferredOK, Pending
<1>6. QED
  BY <1>4, <1>5

(* A settlement: what it answers is merged, then the poll that was put off. *)
LEMMA SettleMoves ==
    ASSUME Typed, Pending, NEW q \in requests, NEW rows, Table(rows, Snapshots), Copied(rows),
           SettleMutation(q.session, q.mutation, rows), requests' = requests \ {q}
    PROVE  /\ Table(base', Snapshots) /\ Copied(base') /\ BaseGrows /\ DeferredOK
           /\ \A s \in DOMAIN rows : s \in DOMAIN base' /\ base'[s].version >= rows[s].version
           /\ IsFiniteSet(requests') /\ pendingEdits' = Cardinality(requests')
           /\ requests' = {} => deferred' = None
           /\ nextMutation' = nextMutation
<1> DEFINE late == IF pendingEdits' = 0 /\ deferred # None THEN deferred ELSE Empty
<1>1. /\ pendingEdits' = (IF pendingEdits > 0 THEN pendingEdits - 1 ELSE 0)
      /\ base' = ApplyRows(ApplyRows(base, rows), late)
      /\ deferred' = (IF pendingEdits' = 0 THEN None ELSE deferred)
      /\ nextMutation' = nextMutation
  BY DEF SettleMutation
<1>2. /\ IsFiniteSet(requests') /\ pendingEdits' = Cardinality(requests')
      /\ requests' = {} => deferred' = None
  <2>1. IsFiniteSet(requests \ {q}) /\ Cardinality(requests \ {q}) = Cardinality(requests) - 1
    BY FS_RemoveElement DEF Pending
  <2>2. Cardinality(requests \ {q}) \in Nat /\ Cardinality(requests) \in Nat
    BY <2>1, FS_CardinalityType DEF Pending
  <2>3. pendingEdits' = Cardinality(requests \ {q})
    BY <1>1, <2>1, <2>2 DEF Pending
  <2>4. requests' = {} => pendingEdits' = 0
    BY <2>3, FS_EmptySet
  <2>5. QED
    BY <1>1, <2>1, <2>3, <2>4
<1>3. Copied(base) /\ Copied(Empty) /\ (deferred # None => Copied(deferred))
  <2> HIDE DEF Copied
  <2>1. QED
    BY CopiedStay, CopiedEmpty
<1>4. Table(base, Snapshots) /\ (deferred # None => Table(deferred, Snapshots))
  BY DEF Typed, ListsTyped
<1> HIDE DEF Copied
<1>5. Table(late, Snapshots) /\ Copied(late)
  BY <1>3, <1>4, TableEmpty
<1>6. DeferredOK
  BY <1>1, <1>3, <1>4 DEF DeferredOK
<1> HIDE DEF late
<1> DEFINE first == ApplyRows(base, rows)
<1>7. /\ Table(first, Snapshots) /\ Copied(first)
      /\ DOMAIN first = DOMAIN base \cup DOMAIN rows
      /\ \A s \in DOMAIN base : first[s].version >= base[s].version
      /\ \A s \in DOMAIN rows : first[s].version >= rows[s].version
  BY <1>3, <1>4, Merged, CopiedMerge
<1>8. base' = ApplyRows(first, late)
  BY <1>1
<1> HIDE DEF first
<1>9. /\ Table(base', Snapshots) /\ Copied(base')
      /\ DOMAIN base' = DOMAIN first \cup DOMAIN late
      /\ \A s \in DOMAIN first : base'[s].version >= first[s].version
  BY <1>5, <1>7, <1>8, Merged, CopiedMerge
<1>10. ASSUME NEW s \in DOMAIN first PROVE first[s].version \in Nat /\ base'[s].version \in Nat
  BY <1>7, <1>9, MergedVersions
<1>11. ASSUME NEW s \in DOMAIN base
       PROVE  s \in DOMAIN base' /\ base'[s].version >= base[s].version
  <2>1. s \in DOMAIN first /\ base[s].version \in Nat
    BY <1>4, <1>7, MergedVersions
  <2>2. first[s].version >= base[s].version /\ base'[s].version >= first[s].version
    BY <1>7, <1>9, <2>1
  <2>3. QED
    BY <1>9, <1>10, <2>1, <2>2
<1>12. ASSUME NEW s \in DOMAIN rows
       PROVE  s \in DOMAIN base' /\ base'[s].version >= rows[s].version
  <2>1. s \in DOMAIN first /\ rows[s].version \in Nat
    BY <1>7, MergedVersions
  <2>2. first[s].version >= rows[s].version /\ base'[s].version >= first[s].version
    BY <1>7, <1>9, <2>1
  <2>3. QED
    BY <1>9, <1>10, <2>1, <2>2
<1>13. QED
  BY <1>1, <1>2, <1>6, <1>9, <1>11, <1>12 DEF BaseGrows

-----------------------------------------------------------------------------
(* The marks *)

LEMMA SeenTyped ==
    ASSUME Typed, NEW rows, Table(rows, Rows),
           seenRows' = Over([s \in DOMAIN rows |-> BaselineOf(rows[s])], seenRows)
    PROVE  /\ Table(seenRows', Baselines) /\ DOMAIN seenRows' = DOMAIN rows \cup DOMAIN seenRows
           /\ \A s \in DOMAIN rows : /\ seenRows'[s].version = rows[s].version
                                     /\ seenRows'[s].status = rows[s].status
           /\ \A s \in DOMAIN seenRows \ DOMAIN rows : seenRows'[s] = seenRows[s]
<1>1. PICK fresh : fresh = [s \in DOMAIN rows |-> BaselineOf(rows[s])]
  OBVIOUS
<1>2. Table(fresh, Baselines) /\ Table(seenRows, Baselines)
  BY <1>1, TableBaselines DEF Typed, MarksTyped
<1>3. \A s \in DOMAIN rows : fresh[s].version = rows[s].version /\ fresh[s].status = rows[s].status
  BY <1>1 DEF BaselineOf
<1>4. seenRows' = Over(fresh, seenRows) /\ DOMAIN fresh = DOMAIN rows
  BY <1>1
<1>5. /\ Table(Over(fresh, seenRows), Baselines)
      /\ DOMAIN Over(fresh, seenRows) = DOMAIN fresh \cup DOMAIN seenRows
      /\ \A s \in DOMAIN fresh : Over(fresh, seenRows)[s] = fresh[s]
      /\ \A s \in DOMAIN seenRows \ DOMAIN fresh : Over(fresh, seenRows)[s] = seenRows[s]
  BY <1>2 DEF Table, Over
<1>6. QED
  BY <1>3, <1>4, <1>5

(* A look at the rows marks every unseen finish they show. *)
LEMMA Looked ==
    ASSUME Typed, Noticed, NEW rows, Table(rows, Rows), NEW sel \in Sessions \cup {None},
           ObserveSessions(rows, sel), selected' = sel,
           DOMAIN finished' \subseteq DOMAIN finished \ {sel},
           \A s \in DOMAIN finished' : finished'[s] = finished[s]
    PROVE  /\ Noticed'
           /\ \A s \in DOMAIN rows \cap DOMAIN finished' :
                 rows[s].version >= finished'[s] /\ ~IsActive(rows[s].status) => s \in unread'
           /\ unread' \subseteq Sessions /\ Table(seenRows', Baselines)
           /\ \A s \in DOMAIN seenRows' :
                 \/ s \in DOMAIN rows /\ seenRows'[s].version = rows[s].version
                 \/ s \in DOMAIN seenRows /\ seenRows'[s] = seenRows[s]
<1>1. /\ Table(seenRows', Baselines) /\ DOMAIN seenRows' = DOMAIN rows \cup DOMAIN seenRows
      /\ \A s \in DOMAIN rows : /\ seenRows'[s].version = rows[s].version
                                /\ seenRows'[s].status = rows[s].status
      /\ \A s \in DOMAIN seenRows \ DOMAIN rows : seenRows'[s] = seenRows[s]
  <2>1. seenRows' = Over([s \in DOMAIN rows |-> BaselineOf(rows[s])], seenRows)
    BY DEF ObserveSessions
  <2>2. QED
    BY <2>1, SeenTyped
<1>2. unread' = (unread \ ({sel} \cap DOMAIN rows)) \cup
                {s \in DOMAIN rows \cap DOMAIN seenRows : s # sel /\ ToldBy(seenRows[s], rows[s])}
  BY DEF ObserveSessions
<1>3. unread' \subseteq Sessions
  BY <1>2 DEF Table, Typed, MarksTyped
<1>4. ASSUME NEW s \in DOMAIN finished'
      PROVE  /\ s # sel /\ s \in DOMAIN seenRows'
             /\ \/ s \in unread'
                \/ seenRows'[s].version < finished'[s]
                \/ IsActive(seenRows'[s].status)
             /\ s \in DOMAIN rows /\ rows[s].version >= finished'[s]
                   /\ ~IsActive(rows[s].status) => s \in unread'
  <2>1. s \in DOMAIN finished /\ s # sel /\ finished'[s] = finished[s]
    BY <1>4
  <2>2. /\ s \in DOMAIN seenRows
        /\ \/ s \in unread
           \/ seenRows[s].version < finished[s]
           \/ IsActive(seenRows[s].status)
    BY <2>1 DEF Noticed
  <2>3. finished[s] \in Nat /\ seenRows[s].version \in Nat
    BY <2>1, <2>2 DEF Typed, MarksTyped, Table, Baselines
  <2>4. CASE s \in unread
    BY <1>1, <1>2, <2>1, <2>2, <2>4
  <2>5. CASE s \notin DOMAIN rows
    BY <1>1, <1>2, <2>1, <2>2, <2>5
  <2>6. CASE s \in DOMAIN rows /\ s \notin unread
    <3>1. rows[s].version \in Nat
      BY <2>6, RowFields DEF Table
    <3>2. ASSUME rows[s].version >= finished[s], ~IsActive(rows[s].status) PROVE s \in unread'
      <4>1. ToldBy(seenRows[s], rows[s])
        BY <2>2, <2>3, <2>6, <3>1, <3>2 DEF ToldBy
      <4>2. QED
        BY <1>2, <2>1, <2>2, <2>6, <4>1
    <3>3. \/ s \in unread'
          \/ rows[s].version < finished[s]
          \/ IsActive(rows[s].status)
      BY <2>3, <3>1, <3>2
    <3>4. QED
      BY <1>1, <2>1, <2>2, <2>6, <3>2, <3>3
  <2>7. QED
    BY <2>4, <2>5, <2>6
<1>5. Noticed'
  BY <1>4 DEF Noticed
<1>6. QED
  BY <1>1, <1>3, <1>4, <1>5

-----------------------------------------------------------------------------
(* The steps that only look *)

LEMMA PollKeeps == ASSUME RailInv, Poll PROVE RailInv'
<1>1. fetch' = server /\ UNCHANGED <<server, rowCache, base, overrides, pendingEdits, nextMutation,
         deferred, requests, unread, seenRows, selected, calls, acts, intent, finished, settled>>
  BY DEF Poll, orgVars, unreadVars
<1>2. Typed /\ Pending /\ CallsApart /\ Dated /\ Index /\ Noticed /\ FinishNoticed /\ Intended
  BY DEF RailInv
<1>3. Typed'
  BY <1>1, <1>2 DEF Typed, ListsTyped, EditsTyped, MarksTyped, GhostsTyped, Request, Override
<1>4. Moves
  <2>1. \A T \in Lists' : Copied(T)
    <3> HIDE DEF Copied
    <3>1. QED
      BY <1>1, CopiedStay, ListsCopied
  <2>2. QED
    BY <1>1, <1>2, <2>1, BaseStays, MovesServerSame
<1>5. Dated'
  BY <1>1, <1>2, <1>3, <1>4, DatedKept
<1>6. Intended'
  BY <1>1, <1>2, <1>3, <1>4, IntendedKept DEF Keeps
<1>7. Pending' /\ CallsApart' /\ Noticed'
  BY <1>1, <1>2 DEF Pending, CallsApart, Noticed
<1>8. Index'
  BY <1>1, <1>2 DEF Index
<1>9. FinishNoticed'
  BY <1>1, <1>2 DEF FinishNoticed, RowOutcome
<1>10. QED
  BY <1>2, <1>3, <1>5, <1>6, <1>7, <1>8, <1>9 DEF RailInv

(* The rail takes in a list, whichever it is, and may change its selection. *)
LEMMA LookKeeps ==
    ASSUME RailInv, Observe(rowCache', selected'),
           UNCHANGED <<server, requests, acts, intent>>,
           Table(rowCache', Rows), Copied(rowCache'),
           fetch' # None => Table(fetch', Rows) /\ Copied(fetch'),
           selected' \in Sessions \cup {None},
           Table(finished', Nat), DOMAIN finished' \subseteq DOMAIN finished \ {selected'},
           \A s \in DOMAIN finished' : finished'[s] = finished[s],
           calls' \subseteq calls, settled'.born = settled.born,
           settled' \in SettledType,
           Index'
    PROVE  RailInv'
<1>1. Typed /\ Pending /\ CallsApart /\ Dated /\ Index /\ Noticed /\ FinishNoticed /\ Intended
  BY DEF RailInv
<1>2. ApplySync(rowCache') /\ ObserveSessions(rowCache', selected')
  BY DEF Observe
<1>3. /\ Table(base', Snapshots) /\ Copied(base') /\ BaseGrows /\ DeferredOK
      /\ requests = {} => deferred' = None
      /\ UNCHANGED <<overrides, pendingEdits, nextMutation>>
  <2> HIDE DEF Copied
  <2>1. QED
    BY <1>1, <1>2, SyncMoves
<1>4. /\ Noticed'
      /\ \A s \in DOMAIN rowCache' \cap DOMAIN finished' :
            rowCache'[s].version >= finished'[s] /\ ~IsActive(rowCache'[s].status) => s \in unread'
      /\ unread' \subseteq Sessions /\ Table(seenRows', Baselines)
      /\ \A s \in DOMAIN seenRows' :
            \/ s \in DOMAIN rowCache' /\ seenRows'[s].version = rowCache'[s].version
            \/ s \in DOMAIN seenRows /\ seenRows'[s] = seenRows[s]
  BY <1>1, <1>2, Looked
<1>5. Typed'
  <2>1. ListsTyped'
    BY <1>1, <1>3 DEF Typed, ListsTyped, DeferredOK
  <2>2. EditsTyped' /\ MarksTyped'
    BY <1>1, <1>3, <1>4 DEF Typed, EditsTyped, MarksTyped, Request, Override
  <2>3. GhostsTyped'
    BY <1>1 DEF Typed, GhostsTyped
  <2>4. QED
    BY <2>1, <2>2, <2>3 DEF Typed
<1>6. Moves
  <2>1. \A T \in Lists' : Copied(T)
    <3> HIDE DEF Copied
    <3>1. QED
      BY <1>3, CopiedStay, ListsCopied DEF DeferredOK
  <2>2. QED
    BY <1>1, <1>3, <2>1, MovesServerSame
<1>7. Dated'
  <2>1. \A s \in DOMAIN rowCache' : \E U \in Lists : /\ s \in DOMAIN U
                                                     /\ rowCache'[s].version = U[s].version
    <3>1. server' \in Lists
      BY ListMembers
    <3>2. Lists \cup {server'} = Lists
      BY <3>1
    <3>3. Copies(rowCache', Lists)
      BY <3>2 DEF Copied
    <3>4. QED
      BY <3>3 DEF Copies
  <2>2. \A s \in DOMAIN seenRows' :
           \/ s \in DOMAIN seenRows /\ seenRows'[s].version = seenRows[s].version
           \/ \E U \in Lists : s \in DOMAIN U /\ seenRows'[s].version = U[s].version
    BY <1>4, <2>1
  <2>3. QED
    BY <1>1, <1>5, <1>6, <2>2, DatedKept
<1>8. Intended'
  BY <1>1, <1>3, <1>5, <1>6, IntendedKept DEF Keeps
<1>9. Pending' /\ CallsApart'
  BY <1>1, <1>3 DEF Pending, CallsApart
<1>10. FinishNoticed'
  <2>1. SUFFICES ASSUME NEW s \in DOMAIN rowCache' \cap DOMAIN finished',
                        rowCache'[s].version >= finished'[s], ~IsActive(rowCache'[s].status)
                 PROVE  RowOutcome(s)' = "unread"
    BY DEF FinishNoticed, IsActive
  <2>2. s \in unread' /\ s # selected'
    BY <1>4, <2>1
  <2>3. QED
    BY <2>1, <2>2 DEF RowOutcome, IsActive
<1>11. QED
  BY <1>4, <1>5, <1>7, <1>8, <1>9, <1>10 DEF RailInv

LEMMA DeliverKeeps == ASSUME RailInv, Deliver PROVE RailInv'
<1>1. /\ fetch # None /\ rowCache' = fetch /\ fetch' = None
      /\ UNCHANGED <<server, requests, selected, calls, acts, intent, finished, settled>>
  BY DEF Deliver
<1>2. Typed /\ Pending /\ CallsApart /\ Dated /\ Index /\ Noticed /\ FinishNoticed /\ Intended
  BY DEF RailInv
<1>3. Table(rowCache', Rows) /\ Copied(rowCache')
  <2> HIDE DEF Copied
  <2>1. QED
    BY <1>1, <1>2, CopiedStay DEF Typed, ListsTyped
<1>4. Index'
  BY <1>1, <1>2 DEF Index
<1>5. CASE fetch = rowCache
  <2>1. UNCHANGED <<base, overrides, pendingEdits, nextMutation, deferred, unread, seenRows, rowCache>>
    BY <1>1, <1>5 DEF Deliver, orgVars, unreadVars
  <2>2. Typed'
    BY <1>1, <1>2, <2>1 DEF Typed, ListsTyped, EditsTyped, MarksTyped, GhostsTyped, Request, Override
  <2>3. Moves
    <3>1. \A T \in Lists' : Copied(T)
      <4> HIDE DEF Copied
      <4>1. QED
        BY <1>1, <2>1, CopiedStay, ListsCopied
    <3>2. QED
      BY <1>1, <1>2, <2>1, <3>1, BaseStays, MovesServerSame
  <2>4. Dated'
    BY <1>1, <1>2, <2>1, <2>2, <2>3, DatedKept
  <2>5. Intended'
    BY <1>1, <1>2, <2>1, <2>2, <2>3, IntendedKept DEF Keeps
  <2>6. Pending' /\ CallsApart' /\ Noticed'
    BY <1>1, <1>2, <2>1 DEF Pending, CallsApart, Noticed
  <2>7. FinishNoticed'
    BY <1>1, <1>2, <2>1 DEF FinishNoticed, RowOutcome
  <2>8. QED
    BY <1>4, <2>2, <2>4, <2>5, <2>6, <2>7 DEF RailInv
<1>6. CASE fetch # rowCache
  <2>1. Observe(fetch, selected)
    BY <1>6 DEF Deliver
  <2>2. Observe(rowCache', selected')
    BY <1>1, <2>1
  <2>3. /\ Table(finished', Nat) /\ DOMAIN finished' \subseteq DOMAIN finished \ {selected'}
        /\ selected' \in Sessions \cup {None}
        /\ settled' \in SettledType
    BY <1>1, <1>2 DEF Typed, MarksTyped, GhostsTyped, Noticed
  <2> HIDE DEF Copied
  <2>4. QED
    BY <1>1, <1>3, <1>4, <2>2, <2>3, LookKeeps
<1>7. QED
  BY <1>5, <1>6

LEMMA VisitKeeps ==
    ASSUME RailInv, NEW s \in Sessions \cup {None}, Visit(s)
    PROVE  RailInv'
<1>1. /\ selected' = s /\ finished' = Dropping(finished, {s})
      /\ UNCHANGED <<server, rowCache, fetch, requests, calls, acts, intent, settled>>
      /\ ApplySync(rowCache) /\ ObserveSessions(rowCache, s)
  BY DEF Visit
<1>2. Typed /\ Index
  BY DEF RailInv
<1>3. Observe(rowCache', selected')
  BY <1>1 DEF Observe
<1>4. Table(rowCache', Rows) /\ Copied(rowCache')
      /\ (fetch' # None => Table(fetch', Rows) /\ Copied(fetch'))
  <2> HIDE DEF Copied
  <2>1. QED
    BY <1>1, <1>2, CopiedStay DEF Typed, ListsTyped
<1>5. /\ Table(finished', Nat) /\ DOMAIN finished' = DOMAIN finished \ {s}
      /\ \A t \in DOMAIN finished' : finished'[t] = finished[t]
  BY <1>1, <1>2 DEF Typed, MarksTyped, Table, Dropping
<1>6. settled' \in SettledType
  BY <1>1, <1>2 DEF Typed, GhostsTyped
<1>7. Index'
  BY <1>1, <1>2 DEF Index
<1> HIDE DEF Copied
<1>8. QED
  BY <1>1, <1>3, <1>4, <1>5, <1>6, <1>7, LookKeeps

LEMMA CallSucceedsKeeps ==
    ASSUME RailInv, NEW c \in calls, CallSucceeds(c)
    PROVE  RailInv'
<1>1. /\ c.served /\ calls' = calls \ {c} /\ fetch' = server
      /\ rowCache' = (IF c.kind = "create" THEN With(rowCache, c.session, server[c.session])
                      ELSE Dropping(rowCache, {c.session}))
      /\ selected' = (IF ~c.open THEN selected
                      ELSE IF c.kind = "create" THEN c.session ELSE c.next)
      /\ Observe(rowCache', selected')
      /\ settled' = (IF c.kind = "create" THEN [settled EXCEPT !.made = @ \cup {c.session}]
                     ELSE [settled EXCEPT !.gone = @ \cup {c.session}])
      /\ finished' = Dropping(finished, {selected'})
      /\ UNCHANGED <<server, requests, acts, intent>>
  BY DEF CallSucceeds, IndexOnSuccess
<1>2. Typed /\ CallsApart /\ Dated /\ Index
  BY DEF RailInv
<1>3. /\ c.kind \in {"create", "delete"} /\ c.session \in Sessions
      /\ c.next \in Sessions \cup {None}
  BY <1>2 DEF Typed, GhostsTyped, Call
<1>4. Table(server, Rows) /\ Table(rowCache, Rows) /\ Table(finished, Nat)
  BY <1>2 DEF Typed, ListsTyped, MarksTyped
<1>5. selected' \in Sessions \cup {None}
  BY <1>1, <1>2, <1>3 DEF Typed, MarksTyped
<1>6. settled \in SettledType
  BY <1>2 DEF Typed, GhostsTyped
<1>7. /\ settled' \in SettledType
      /\ settled'.born = settled.born
      /\ settled'.made = (IF c.kind = "create" THEN settled.made \cup {c.session} ELSE settled.made)
      /\ settled'.gone = (IF c.kind = "create" THEN settled.gone ELSE settled.gone \cup {c.session})
  BY <1>1, <1>3, <1>6 DEF SettledType
<1>8. /\ Table(finished', Nat) /\ DOMAIN finished' \subseteq DOMAIN finished \ {selected'}
      /\ \A t \in DOMAIN finished' : finished'[t] = finished[t]
  BY <1>1, <1>4 DEF Table, Dropping
<1>9. fetch' # None => Table(fetch', Rows) /\ Copied(fetch')
  <2> HIDE DEF Copied
  <2>1. QED
    BY <1>1, <1>4, CopiedStay
<1>10. CASE c.kind = "create"
  <2>1. c.session \in DOMAIN server /\ server[c.session] \in Rows
    BY <1>1, <1>2, <1>4, <1>10 DEF CallsApart, Table
  <2>2. /\ Table(rowCache', Rows) /\ DOMAIN rowCache' = DOMAIN rowCache \cup {c.session}
        /\ rowCache'[c.session] = server[c.session]
        /\ \A t \in DOMAIN rowCache : t # c.session => rowCache'[t] = rowCache[t]
    BY <1>1, <1>3, <1>4, <1>10, <2>1 DEF Table, With, Over, Only
  <2>3. Copied(rowCache')
    <3>1. \A s \in DOMAIN rowCache' :
             \/ s \in DOMAIN rowCache /\ rowCache'[s] = rowCache[s]
             \/ s \in DOMAIN server /\ rowCache'[s] = server[s]
      BY <2>1, <2>2
    <3> HIDE DEF Copied
    <3>2. QED
      BY <3>1, CopiedPart, CopiedStay
  <2>4. Index'
    <3>1. c.session \in settled.born /\ c.session \notin settled.gone
      BY <1>2, <2>1, Versions, ListMembers DEF Index
    <3>2. QED
      BY <1>1, <1>2, <1>7, <1>10, <2>1, <2>2, <3>1 DEF Index
  <2> HIDE DEF Copied
  <2>5. QED
    BY <1>1, <1>5, <1>7, <1>8, <1>9, <2>2, <2>3, <2>4, LookKeeps
<1>11. CASE c.kind # "create"
  <2>1. c.session \notin DOMAIN server /\ c.session \in settled.born
    BY <1>1, <1>2, <1>11 DEF CallsApart
  <2>2. /\ Table(rowCache', Rows) /\ DOMAIN rowCache' = DOMAIN rowCache \ {c.session}
        /\ \A t \in DOMAIN rowCache' : rowCache'[t] = rowCache[t]
    BY <1>1, <1>4, <1>11 DEF Table, Dropping
  <2>3. Copied(rowCache')
    <3> HIDE DEF Copied
    <3>1. QED
      BY <2>2, CopiedPart, CopiedStay
  <2>4. Index'
    BY <1>1, <1>2, <1>7, <1>11, <2>1, <2>2 DEF Index
  <2> HIDE DEF Copied
  <2>5. QED
    BY <1>1, <1>5, <1>7, <1>8, <1>9, <2>2, <2>3, <2>4, LookKeeps
<1>12. QED
  BY <1>10, <1>11

-----------------------------------------------------------------------------
(* Creations and deletions *)

(* Only the calls change. *)
LEMMA ErrandKeeps ==
    ASSUME RailInv,
           UNCHANGED <<server, rowCache, fetch, base, overrides, pendingEdits, nextMutation, deferred,
                       requests, unread, seenRows, selected, intent, finished, settled>>,
           acts' \in Nat, acts' >= acts, acts' <= MaxActs,
           \A c \in calls' : Call(c), CallsApart'
    PROVE  RailInv'
<1>1. Typed /\ Pending /\ CallsApart /\ Dated /\ Index /\ Noticed /\ FinishNoticed /\ Intended
  BY DEF RailInv
<1>2. nextMutation' <= acts'
  BY <1>1 DEF Typed, EditsTyped
<1>3. Typed'
  <2>1. EditsTyped'
    BY <1>1, <1>2 DEF Typed, EditsTyped, Request, Override
  <2>2. QED
    BY <1>1, <2>1 DEF Typed, ListsTyped, MarksTyped, GhostsTyped, Call
<1>4. Moves
  <2>1. \A T \in Lists' : Copied(T)
    <3> HIDE DEF Copied
    <3>1. QED
      BY CopiedStay, ListsCopied
  <2>2. QED
    BY <1>1, <2>1, BaseStays, MovesServerSame
<1>5. Dated'
  BY <1>1, <1>3, <1>4, DatedKept
<1>6. Intended'
  BY <1>1, <1>3, <1>4, IntendedKept DEF Keeps
<1>7. Pending' /\ Noticed' /\ Index'
  BY <1>1 DEF Pending, Noticed, Index
<1>8. FinishNoticed'
  BY <1>1 DEF FinishNoticed, RowOutcome
<1>9. QED
  BY <1>3, <1>5, <1>6, <1>7, <1>8 DEF RailInv

LEMMA ActCounts == ASSUME Typed, Act PROVE acts' \in Nat /\ acts' = acts + 1 /\ acts' <= MaxActs
  BY RailAssumption DEF Act, Typed, EditsTyped

LEMMA CallFailsKeeps ==
    ASSUME RailInv, NEW c \in calls, CallFails(c)
    PROVE  RailInv'
<1>1. /\ calls' = calls \ {c}
      /\ UNCHANGED <<server, rowCache, fetch, base, overrides, pendingEdits, nextMutation, deferred,
                     requests, unread, seenRows, selected, acts, intent, finished, settled>>
  BY DEF CallFails, orgVars, unreadVars
<1>2. Typed /\ CallsApart
  BY DEF RailInv
<1>3. (\A d \in calls' : Call(d)) /\ CallsApart'
  BY <1>1, <1>2 DEF Typed, GhostsTyped, CallsApart
<1>4. acts' \in Nat /\ acts' >= acts /\ acts' <= MaxActs
  BY <1>1, <1>2 DEF Typed, EditsTyped
<1>5. QED
  BY <1>1, <1>3, <1>4, ErrandKeeps

LEMMA CreateSessionKeeps ==
    ASSUME RailInv, NEW s \in Sessions, CreateSession(s)
    PROVE  RailInv'
<1> DEFINE new == [kind |-> "create", session |-> s, served |-> FALSE, next |-> None, open |-> TRUE]
<1>1. /\ Act /\ (\A c \in calls : c.session # s) /\ s \notin settled.born
      /\ calls' = calls \cup {new}
      /\ UNCHANGED <<server, rowCache, fetch, base, overrides, pendingEdits, nextMutation, deferred,
                     requests, unread, seenRows, selected, intent, finished, settled>>
  BY DEF CreateSession, orgVars, unreadVars
<1>2. Typed /\ CallsApart
  BY DEF RailInv
<1>3. Call(new) /\ new.session = s /\ ~new.served /\ new.kind = "create"
  BY DEF Call
<1> HIDE DEF new
<1>4. (\A d \in calls' : Call(d)) /\ CallsApart'
  BY <1>1, <1>2, <1>3 DEF Typed, GhostsTyped, CallsApart
<1>5. acts' \in Nat /\ acts' >= acts /\ acts' <= MaxActs
  BY <1>1, <1>2, ActCounts DEF Typed, EditsTyped
<1>6. QED
  BY <1>1, <1>4, <1>5, ErrandKeeps

(* A set of naturals that is not empty has a least element. *)
LEMMA LeastOf ==
    ASSUME NEW T \in SUBSET Nat, T # {}
    PROVE  \E n \in T : \A m \in T : n <= m
<1> DEFINE R == {p \in Nat \X Nat : p[1] < p[2]}
<1>1. IsWellFoundedOn(R, Nat)
  BY NatLessThanWellFounded DEF OpToRel
<1> HIDE DEF R
<1>2. PICK x \in T : \A y \in T : ~(<<y, x>> \in R)
  BY <1>1, WFMin
<1>3. \A y \in T : ~(y < x)
  BY <1>2 DEF R
<1>4. QED
  BY <1>3

LEMMA NextRowIsRow == ASSUME Typed, NEW s PROVE NextRow(s) \in Sessions \cup {None}
<1> DEFINE rest == DOMAIN rowCache \ {s}
<1>1. rest \subseteq Sessions /\ rest \in SUBSET Nat
  BY RailAssumption DEF Typed, ListsTyped, Table
<1>2. NextRow(s) = (IF rest = {} THEN None ELSE CHOOSE t \in rest : \A u \in rest : t <= u)
  BY DEF NextRow
<1> HIDE DEF rest
<1>3. ASSUME rest # {} PROVE \E t \in rest : \A u \in rest : t <= u
  BY <1>1, <1>3, LeastOf
<1>4. ASSUME rest # {} PROVE (CHOOSE t \in rest : \A u \in rest : t <= u) \in rest
  BY <1>3, <1>4
<1>5. QED
  BY <1>1, <1>2, <1>4

LEMMA RemoveSessionKeeps ==
    ASSUME RailInv, NEW s \in DOMAIN rowCache, RemoveSession(s)
    PROVE  RailInv'
<1> DEFINE new == [kind |-> "delete", session |-> s, served |-> FALSE, open |-> s = selected,
                   next |-> NextRow(s)]
<1>1. /\ Act /\ (\A c \in calls : c.session # s)
      /\ calls' = calls \cup {new}
      /\ UNCHANGED <<server, rowCache, fetch, base, overrides, pendingEdits, nextMutation, deferred,
                     requests, unread, seenRows, selected, intent, finished, settled>>
  BY DEF RemoveSession, orgVars, unreadVars
<1>2. Typed /\ CallsApart /\ Dated
  BY DEF RailInv
<1>3. s \in Sessions /\ s \in settled.born
  BY <1>2, Versions, ListMembers
<1>4. NextRow(s) \in Sessions \cup {None} /\ (s = selected) \in BOOLEAN
  BY <1>2, NextRowIsRow
<1>5. Call(new) /\ new.session = s /\ ~new.served /\ new.kind = "delete"
  BY <1>3, <1>4 DEF Call
<1> HIDE DEF new
<1>6. (\A d \in calls' : Call(d)) /\ CallsApart'
  BY <1>1, <1>2, <1>3, <1>5 DEF Typed, GhostsTyped, CallsApart
<1>7. acts' \in Nat /\ acts' >= acts /\ acts' <= MaxActs
  BY <1>1, <1>2, ActCounts DEF Typed, EditsTyped
<1>8. QED
  BY <1>1, <1>6, <1>7, ErrandKeeps

-----------------------------------------------------------------------------
(* Writes of the table *)

(* Only the table changes, of what Lists has. *)
LEMMA WriteKeeps ==
    ASSUME RailInv,
           UNCHANGED <<rowCache, fetch, base, overrides, pendingEdits, nextMutation, deferred,
                       requests, unread, seenRows, selected>>,
           acts' \in Nat, acts' >= acts, acts' <= MaxActs,
           Table(server', Rows),
           \A s \in DOMAIN server' : \/ s \in DOMAIN server /\ server'[s].version >= server[s].version
                                     \/ s \notin settled.born,
           DOMAIN server' \cup settled.born \subseteq settled'.born, settled' \in SettledType,
           \A k \in DOMAIN intent' : /\ k \in DOMAIN intent /\ intent'[k] = intent[k]
                                     /\ Keeps(k[1], k[2]),
           intent' \in [DOMAIN intent' -> [value : BOOLEAN, mutation : Nat]],
           \A c \in calls' : Call(c), CallsApart',
           Table(finished', Nat), Noticed', FinishNoticed', Index'
    PROVE  RailInv'
<1>1. Typed /\ Pending /\ Dated /\ Intended
  BY DEF RailInv
<1>2. nextMutation' <= acts'
  BY <1>1 DEF Typed, EditsTyped
<1>3. Typed'
  <2>1. EditsTyped'
    BY <1>1, <1>2 DEF Typed, EditsTyped, Request, Override
  <2>2. ListsTyped' /\ MarksTyped'
    BY <1>1 DEF Typed, ListsTyped, MarksTyped
  <2>3. DOMAIN intent' \subseteq Sessions \X Fields
    BY <1>1 DEF Typed, GhostsTyped
  <2>4. GhostsTyped'
    BY <2>3 DEF GhostsTyped, Call, SettledType
  <2>5. QED
    BY <2>1, <2>2, <2>4 DEF Typed
<1>4. Moves
  <2>1. \A T \in Lists' : Copied(T)
    <3> HIDE DEF Copied
    <3>1. QED
      BY CopiedStay, ListsCopied
  <2>2. BaseGrows
    BY <1>1, BaseStays
  <2>3. QED
    BY <2>1, <2>2 DEF Moves
<1>5. Dated'
  BY <1>1, <1>3, <1>4, DatedKept
<1>6. Intended'
  BY <1>1, <1>3, <1>4, IntendedKept
<1>7. Pending'
  BY <1>1 DEF Pending
<1>8. QED
  BY <1>3, <1>5, <1>6, <1>7 DEF RailInv

(* A row written over with another of the same id. *)
LEMMA Written ==
    ASSUME Typed, NEW s \in DOMAIN server, NEW row \in Rows, Write(s, row),
           row.version = server[s].version
    PROVE  /\ Table(server', Rows) /\ DOMAIN server' = DOMAIN server
           /\ server'[s].version = server[s].version + 1 /\ server'[s].status = row.status
           /\ \A f \in Fields : server'[s][f] = row[f]
           /\ \A t \in DOMAIN server : t # s => server'[t] = server[t]
           /\ \A t \in DOMAIN server : server'[t].version \in Nat
                                       /\ server'[t].version >= server[t].version
<1>1. server' = [server EXCEPT ![s] = [row EXCEPT !.version = row.version + 1]]
  BY DEF Write
<1>2. Table(server, Rows)
  BY DEF Typed, ListsTyped
<1>3. /\ [row EXCEPT !.version = row.version + 1] \in Rows
      /\ [row EXCEPT !.version = row.version + 1].version = row.version + 1
      /\ [row EXCEPT !.version = row.version + 1].status = row.status
      /\ \A f \in Fields : [row EXCEPT !.version = row.version + 1][f] = row[f]
  BY DEF Rows, Fields
<1>4. /\ Table(server', Rows) /\ DOMAIN server' = DOMAIN server
      /\ server'[s] = [row EXCEPT !.version = row.version + 1]
      /\ \A t \in DOMAIN server : t # s => server'[t] = server[t]
  BY <1>1, <1>2, <1>3 DEF Table
<1>5. \A t \in DOMAIN server : server[t].version \in Nat
  BY <1>2, RowFields DEF Table
<1>6. server'[s].version = server[s].version + 1 /\ server[s].version \in Nat
  BY <1>3, <1>4, <1>5
<1>7. \A t \in DOMAIN server : server'[t].version \in Nat
                               /\ server'[t].version >= server[t].version
  <2>1. TAKE t \in DOMAIN server
  <2>2. CASE t = s
    <3>1. server'[t].version = server[t].version + 1 /\ server[t].version \in Nat
      BY <1>6, <2>2
    <3>2. QED
      BY <3>1
  <2>3. CASE t # s
    <3>1. server'[t] = server[t] /\ server[t].version \in Nat
      BY <1>4, <1>5, <2>3
    <3>2. server[t].version >= server[t].version
      BY <3>1
    <3>3. QED
      BY <3>1, <3>2
  <2>4. QED
    BY <2>2, <2>3
<1>8. QED
  BY <1>3, <1>4, <1>6, <1>7

LEMMA EngineWritesKeeps ==
    ASSUME RailInv, NEW s \in DOMAIN server, NEW status \in Statuses, EngineWrites(s, status)
    PROVE  RailInv'
<1>1. /\ Act /\ Write(s, [server[s] EXCEPT !.status = status])
      /\ finished' = (IF IsActive(server[s].status) /\ ~IsActive(status)
                         /\ s # selected /\ s \in DOMAIN seenRows
                      THEN With(finished, s, server'[s].version) ELSE finished)
      /\ UNCHANGED <<rowCache, fetch, base, overrides, pendingEdits, nextMutation, deferred,
                     requests, unread, seenRows, selected, calls, intent, settled>>
  BY DEF EngineWrites, orgVars, unreadVars
<1>2. Typed /\ CallsApart /\ Dated /\ Index /\ Noticed /\ FinishNoticed
  BY DEF RailInv
<1>3. server[s] \in Rows
  BY <1>2 DEF Typed, ListsTyped, Table
<1>4. /\ [server[s] EXCEPT !.status = status] \in Rows
      /\ [server[s] EXCEPT !.status = status].version = server[s].version
      /\ \A f \in Fields : [server[s] EXCEPT !.status = status][f] = server[s][f]
  BY <1>3 DEF Rows, Fields
<1>5. /\ Table(server', Rows) /\ DOMAIN server' = DOMAIN server
      /\ server'[s].version = server[s].version + 1
      /\ \A f \in Fields : server'[s][f] = server[s][f]
      /\ \A t \in DOMAIN server : t # s => server'[t] = server[t]
      /\ \A t \in DOMAIN server : server'[t].version \in Nat
                                  /\ server'[t].version >= server[t].version
  BY <1>1, <1>2, <1>4, Written
<1>6. acts' \in Nat /\ acts' >= acts /\ acts' <= MaxActs
  BY <1>1, <1>2, ActCounts DEF Typed, EditsTyped
<1>7. \A k \in DOMAIN intent' : /\ k \in DOMAIN intent /\ intent'[k] = intent[k]
                                /\ Keeps(k[1], k[2])
  <2>1. \A t, f : f \in Fields => Keeps(t, f)
    BY <1>5 DEF Keeps
  <2>2. \A k \in DOMAIN intent : k[2] \in Fields
    BY <1>2 DEF Typed, GhostsTyped
  <2>3. QED
    BY <1>1, <2>1, <2>2
<1>8. server[s].version \in Nat /\ s \in Sessions /\ s \in settled.born
  BY <1>2, Versions, ListMembers
<1>9. /\ Table(finished', Nat)
      /\ \A t \in DOMAIN finished' :
            \/ t \in DOMAIN finished /\ finished'[t] = finished[t]
            \/ /\ t = s /\ t # selected /\ t \in DOMAIN seenRows
               /\ finished'[t] = server[s].version + 1
  <2>1. Table(finished, Nat)
    BY <1>2 DEF Typed, MarksTyped
  <2>2. CASE finished' = finished
    BY <2>1, <2>2
  <2>3. CASE finished' = With(finished, s, server'[s].version) /\ s # selected /\ s \in DOMAIN seenRows
    <3>1. server'[s].version \in Nat /\ server'[s].version = server[s].version + 1
      BY <1>5
    <3>2. /\ DOMAIN finished' = DOMAIN finished \cup {s} /\ finished'[s] = server[s].version + 1
          /\ \A t \in DOMAIN finished : t # s => finished'[t] = finished[t]
          /\ Table(finished', Nat)
      BY <1>8, <2>1, <2>3, <3>1 DEF With, Over, Only, Table
    <3>3. QED
      BY <2>3, <3>2
  <2>4. QED
    BY <1>1, <2>2, <2>3
<1>10. Noticed'
  <2>1. s \in DOMAIN seenRows => /\ seenRows[s].version \in Nat
                                 /\ seenRows[s].version <= server[s].version
    BY <1>2 DEF Dated, Typed, MarksTyped, Table, Baselines
  <2>2. s \in DOMAIN seenRows => seenRows[s].version < server[s].version + 1
    BY <1>8, <2>1
  <2>3. QED
    BY <1>1, <1>2, <1>9, <2>2 DEF Noticed
<1>11. FinishNoticed'
  <2>1. SUFFICES ASSUME NEW t \in DOMAIN rowCache \cap DOMAIN finished',
                        rowCache[t].version >= finished'[t], ~IsActive(rowCache[t].status)
                 PROVE  RowOutcome(t) = "unread"
    BY <1>1 DEF FinishNoticed, RowOutcome
  <2>2. CASE t \in DOMAIN finished /\ finished'[t] = finished[t]
    BY <1>2, <2>1, <2>2 DEF FinishNoticed
  <2>3. CASE t = s /\ finished'[t] = server[s].version + 1
    <3>1. rowCache[s].version \in Nat /\ rowCache[s].version <= server[s].version
      BY <1>2, <2>1, <2>3, Versions, ListMembers
    <3>2. QED
      BY <1>8, <2>1, <2>3, <3>1
  <2>4. QED
    BY <1>9, <2>1, <2>2, <2>3
<1>12. Index' /\ CallsApart'
  BY <1>1, <1>2, <1>5 DEF Index, CallsApart
<1>13. /\ settled' \in SettledType /\ DOMAIN server' \cup settled.born \subseteq settled'.born
       /\ intent' \in [DOMAIN intent' -> [value : BOOLEAN, mutation : Nat]]
       /\ \A c \in calls' : Call(c)
  <2>1. DOMAIN server \subseteq settled.born
    BY <1>2, Versions, ListMembers
  <2>2. QED
    BY <1>1, <1>2, <1>5, <2>1 DEF Typed, GhostsTyped, SettledType
<1>14. QED
  BY <1>1, <1>5, <1>6, <1>7, <1>9, <1>10, <1>11, <1>12, <1>13, WriteKeeps

LEMMA RowWith ==
    ASSUME NEW row \in Rows, NEW field \in Fields, NEW value \in BOOLEAN
    PROVE  /\ [row EXCEPT ![field] = value] \in Rows
           /\ [row EXCEPT ![field] = value].version = row.version
           /\ [row EXCEPT ![field] = value][field] = value
           /\ \A f \in Fields : f # field => [row EXCEPT ![field] = value][f] = row[f]
<1>1. CASE field = "pinned"
  BY <1>1 DEF Rows, Fields
<1>2. CASE field = "archived"
  BY <1>2 DEF Rows, Fields
<1>3. QED
  BY <1>1, <1>2 DEF Fields

LEMMA ForeignWritesKeeps ==
    ASSUME RailInv, NEW s \in DOMAIN server, NEW field \in Fields, ForeignWrites(s, field)
    PROVE  RailInv'
<1> DEFINE row == [server[s] EXCEPT ![field] = ~server[s][field]]
<1>1. /\ Act /\ Write(s, row)
      /\ intent' = Dropping(intent, {<<s, field>>})
      /\ UNCHANGED <<rowCache, fetch, base, overrides, pendingEdits, nextMutation, deferred,
                     requests, unread, seenRows, selected, calls, finished, settled>>
  BY DEF ForeignWrites, orgVars, unreadVars
<1>2. Typed /\ CallsApart /\ Dated /\ Index /\ Noticed /\ FinishNoticed
  BY DEF RailInv
<1>3. server[s] \in Rows
  BY <1>2 DEF Typed, ListsTyped, Table
<1>4. server[s][field] \in BOOLEAN
  BY <1>3, RowFields
<1>5. /\ row \in Rows /\ row.version = server[s].version
      /\ \A f \in Fields : f # field => row[f] = server[s][f]
  <2>1. CASE field = "pinned"
    BY <1>3, <1>4, <2>1 DEF Rows, Fields
  <2>2. CASE field = "archived"
    BY <1>3, <1>4, <2>2 DEF Rows, Fields
  <2>3. QED
    BY <2>1, <2>2 DEF Fields
<1> HIDE DEF row
<1>6. /\ Table(server', Rows) /\ DOMAIN server' = DOMAIN server
      /\ \A f \in Fields : f # field => server'[s][f] = server[s][f]
      /\ \A t \in DOMAIN server : t # s => server'[t] = server[t]
      /\ \A t \in DOMAIN server : server'[t].version >= server[t].version
  BY <1>1, <1>2, <1>5, Written
<1>7. acts' \in Nat /\ acts' >= acts /\ acts' <= MaxActs
  BY <1>1, <1>2, ActCounts DEF Typed, EditsTyped
<1>8. /\ DOMAIN intent' = DOMAIN intent \ {<<s, field>>}
      /\ \A k \in DOMAIN intent' : intent'[k] = intent[k]
      /\ intent' \in [DOMAIN intent' -> [value : BOOLEAN, mutation : Nat]]
  BY <1>1, <1>2 DEF Typed, GhostsTyped, Dropping
<1>9. \A k \in DOMAIN intent' : /\ k \in DOMAIN intent /\ intent'[k] = intent[k]
                                /\ Keeps(k[1], k[2])
  <2>1. \A t, f : f \in Fields /\ <<t, f>> # <<s, field>> => Keeps(t, f)
    BY <1>6 DEF Keeps
  <2>2. \A k \in DOMAIN intent : k[2] \in Fields /\ k = <<k[1], k[2]>>
    BY <1>2 DEF Typed, GhostsTyped
  <2>3. QED
    BY <1>8, <2>1, <2>2
<1>10. Noticed' /\ Index' /\ CallsApart'
  BY <1>1, <1>2, <1>6 DEF Noticed, Index, CallsApart
<1>11. FinishNoticed'
  BY <1>1, <1>2 DEF FinishNoticed, RowOutcome
<1>12. /\ settled' \in SettledType /\ DOMAIN server' \cup settled.born \subseteq settled'.born
       /\ Table(finished', Nat) /\ \A c \in calls' : Call(c)
  <2>1. DOMAIN server \subseteq settled.born
    BY <1>2, Versions, ListMembers
  <2>2. QED
    BY <1>1, <1>2, <1>6, <2>1 DEF Typed, GhostsTyped, MarksTyped
<1>13. QED
  BY <1>1, <1>6, <1>7, <1>8, <1>9, <1>10, <1>11, <1>12, WriteKeeps

LEMMA ServeCallKeeps ==
    ASSUME RailInv, NEW c \in calls, ServeCall(c)
    PROVE  RailInv'
<1> DEFINE d == [c EXCEPT !.served = TRUE]
           fresh == [pinned |-> FALSE, archived |-> FALSE, status |-> "idle", version |-> 1]
<1>1. /\ ~c.served /\ calls' = (calls \ {c}) \cup {d}
      /\ server' = (IF c.kind = "create" THEN With(server, c.session, fresh)
                    ELSE Dropping(server, {c.session}))
      /\ finished' = (IF c.kind = "create" THEN finished ELSE Dropping(finished, {c.session}))
      /\ settled' = [settled EXCEPT !.born = @ \cup {c.session}]
      /\ UNCHANGED <<rowCache, fetch, base, overrides, pendingEdits, nextMutation, deferred,
                     requests, unread, seenRows, selected, acts, intent>>
  BY DEF ServeCall, orgVars, unreadVars
<1>2. Typed /\ CallsApart /\ Dated /\ Index /\ Noticed /\ FinishNoticed /\ Intended
  BY DEF RailInv
<1>3. Call(c) /\ c.session \in Sessions
  BY <1>2 DEF Typed, GhostsTyped, Call
<1>4. Call(d) /\ d.session = c.session /\ d.served /\ d.kind = c.kind
  BY <1>3 DEF Call
<1>5. settled \in SettledType /\ Table(server, Rows) /\ Table(finished, Nat)
  BY <1>2 DEF Typed, ListsTyped, MarksTyped, GhostsTyped
<1>6. /\ settled' \in SettledType /\ settled'.born = settled.born \cup {c.session}
      /\ settled'.made = settled.made /\ settled'.gone = settled.gone
  BY <1>1, <1>3, <1>5 DEF SettledType
<1>7. fresh \in Rows
  BY DEF Rows, Statuses
<1> HIDE DEF d, fresh
<1>8. \A s \in DOMAIN server : server[s].version \in Nat /\ s \in settled.born
  BY <1>2, Versions, ListMembers
<1>9. /\ Table(server', Rows)
      /\ DOMAIN server' = (IF c.kind = "create" THEN DOMAIN server \cup {c.session}
                           ELSE DOMAIN server \ {c.session})
      /\ \A t \in DOMAIN server \cap DOMAIN server' : t # c.session => server'[t] = server[t]
  <2>1. CASE c.kind = "create"
    BY <1>1, <1>3, <1>5, <1>7, <2>1 DEF Table, With, Over, Only
  <2>2. CASE c.kind # "create"
    BY <1>1, <1>5, <2>2 DEF Table, Dropping
  <2>3. QED
    BY <2>1, <2>2
<1>10. c.kind = "create" => c.session \notin settled.born
  BY <1>1, <1>2 DEF CallsApart
<1>11. \A t \in DOMAIN server \cap DOMAIN server' : t # c.session
  BY <1>8, <1>9, <1>10
<1>12. \A t \in DOMAIN server' :
          \/ t \in DOMAIN server /\ server'[t].version >= server[t].version
          \/ t \notin settled.born
  <2>1. TAKE t \in DOMAIN server'
  <2>2. CASE t \in DOMAIN server
    <3>1. server'[t] = server[t] /\ server[t].version \in Nat
      BY <1>8, <1>9, <1>11, <2>2
    <3>2. server[t].version >= server[t].version
      BY <3>1
    <3>3. QED
      BY <2>2, <3>1, <3>2
  <2>3. CASE t \notin DOMAIN server
    BY <1>9, <1>10, <2>3
  <2>4. QED
    BY <2>2, <2>3
<1>13. DOMAIN server' \cup settled.born \subseteq settled'.born
  BY <1>6, <1>8, <1>9
<1>14. /\ \A k \in DOMAIN intent' : /\ k \in DOMAIN intent /\ intent'[k] = intent[k]
                                    /\ Keeps(k[1], k[2])
       /\ intent' \in [DOMAIN intent' -> [value : BOOLEAN, mutation : Nat]]
  <2>1. \A t, f : Keeps(t, f)
    BY <1>9, <1>11 DEF Keeps
  <2>2. QED
    BY <1>1, <1>2, <2>1 DEF Typed, GhostsTyped
<1>15. (\A e \in calls' : Call(e)) /\ CallsApart'
  <2>1. \A e \in calls' : Call(e)
    BY <1>1, <1>2, <1>4 DEF Typed, GhostsTyped
  <2>2. \A e, g \in calls' : e.session = g.session => e = g
    BY <1>1, <1>2, <1>4 DEF CallsApart
  <2>3. ASSUME NEW e \in calls'
        PROVE  IF e.kind = "create"
               THEN IF e.served THEN e.session \in DOMAIN server' ELSE e.session \notin settled'.born
               ELSE e.session \in settled'.born /\ (e.served => e.session \notin DOMAIN server')
    <3>1. CASE e = d
      BY <1>4, <1>6, <1>9, <3>1
    <3>2. CASE e # d
      <4>1. e \in calls /\ e # c /\ e.session # c.session
        BY <1>1, <1>2, <3>2 DEF CallsApart
      <4>2. /\ e.session \in DOMAIN server <=> e.session \in DOMAIN server'
            /\ e.session \in settled.born <=> e.session \in settled'.born
        BY <1>6, <1>9, <4>1
      <4>3. QED
        BY <1>2, <4>1, <4>2 DEF CallsApart
    <3>3. QED
      BY <3>1, <3>2
  <2>4. QED
    BY <2>1, <2>2, <2>3 DEF CallsApart
<1>16. /\ Table(finished', Nat) /\ DOMAIN finished' \subseteq DOMAIN finished
       /\ \A t \in DOMAIN finished' : finished'[t] = finished[t]
  <2>1. CASE c.kind = "create"
    BY <1>1, <1>5, <2>1
  <2>2. CASE c.kind # "create"
    BY <1>1, <1>5, <2>2 DEF Table, Dropping
  <2>3. QED
    BY <2>1, <2>2
<1>17. Noticed'
  BY <1>1, <1>2, <1>16 DEF Noticed
<1>18. FinishNoticed'
  <2>1. SUFFICES ASSUME NEW t \in DOMAIN rowCache \cap DOMAIN finished',
                        rowCache[t].version >= finished'[t], ~IsActive(rowCache[t].status)
                 PROVE  RowOutcome(t) = "unread"
    BY <1>1 DEF FinishNoticed, RowOutcome
  <2>2. QED
    BY <1>2, <1>16, <2>1 DEF FinishNoticed
<1>19. Index'
  <2>1. c.kind = "create" => c.session \notin settled.gone \cup settled.made
    BY <1>2, <1>10 DEF Index
  <2>2. /\ settled.gone \cap DOMAIN server' \subseteq settled.gone \cap DOMAIN server
        /\ settled.made \cap DOMAIN server' \subseteq settled.made \cap DOMAIN server
    BY <1>9, <2>1
  <2>3. QED
    BY <1>1, <1>2, <1>6, <2>2 DEF Index
<1>20. acts' \in Nat /\ acts' >= acts /\ acts' <= MaxActs
  BY <1>1, <1>2 DEF Typed, EditsTyped
<1>21. QED
  BY <1>1, <1>6, <1>9, <1>12, <1>13, <1>14, <1>15, <1>16, <1>17, <1>18, <1>19, <1>20, WriteKeeps

-----------------------------------------------------------------------------
(* The edits *)

LEMMA ServePatchKeeps ==
    ASSUME RailInv, NEW q \in requests, ServePatch(q)
    PROVE  RailInv'
<1> DEFINE s == q.session
           row == [server[s] EXCEPT ![q.field] = q.value]
           answer == Only(s, server'[s])
           p == [q EXCEPT !.row = answer]
<1>1. /\ q.row = None /\ s \in DOMAIN server /\ Write(s, row)
      /\ requests' = (requests \ {q}) \cup {p}
      /\ intent' = [k \in {k \in DOMAIN intent :
                              \/ k # <<q.session, q.field>>
                              \/ intent[k].mutation <= q.mutation
                              \/ \E r \in requests : /\ r.mutation = intent[k].mutation
                                                    /\ r.row = None} |-> intent[k]]
      /\ UNCHANGED <<rowCache, fetch, base, overrides, pendingEdits, nextMutation, deferred,
                     unread, seenRows, selected, calls, acts, finished, settled>>
  BY DEF ServePatch, orgVars, unreadVars
<1>2. Typed /\ Pending /\ CallsApart /\ Dated /\ Index /\ Noticed /\ FinishNoticed /\ Intended
  BY DEF RailInv
<1>3. /\ Request(q) /\ s \in Sessions /\ q.field \in Fields /\ q.value \in BOOLEAN
      /\ q.mutation \in 1 .. nextMutation
  BY <1>2 DEF Typed, EditsTyped, Request
<1>4. server[s] \in Rows /\ server[s].version \in Nat /\ s \in settled.born
  BY <1>1, <1>2, Versions, ListMembers DEF Typed, ListsTyped, Table
<1>5. /\ row \in Rows /\ row.version = server[s].version /\ row[q.field] = q.value
      /\ \A f \in Fields : f # q.field => row[f] = server[s][f]
  BY <1>3, <1>4, RowWith
<1> HIDE DEF row
<1>6. /\ Table(server', Rows) /\ DOMAIN server' = DOMAIN server
      /\ server'[s].version = server[s].version + 1
      /\ server'[s][q.field] = q.value
      /\ \A f \in Fields : f # q.field => server'[s][f] = server[s][f]
      /\ \A t \in DOMAIN server : t # s => server'[t] = server[t]
      /\ \A t \in DOMAIN server : server'[t].version >= server[t].version
  <2> HIDE DEF s
  <2>1. \A f \in Fields : server'[s][f] = row[f]
    BY <1>1, <1>2, <1>5, Written
  <2>2. QED
    BY <1>1, <1>2, <1>3, <1>5, <2>1, Written
<1>7. Table(answer, Rows) /\ DOMAIN answer = {s} /\ answer[s] = server'[s]
  BY <1>1, <1>3, <1>6 DEF Only, Table
<1>8. /\ p.mutation = q.mutation /\ p.session = q.session /\ p.field = q.field
      /\ p.value = q.value /\ p.row = answer
  BY <1>3 DEF Request
<1>9. Request(p)
  <2>1. p \in [mutation : 1 .. nextMutation, session : Sessions, field : Fields,
               value : BOOLEAN, row : {p.row}]
    <3> HIDE DEF answer, s
    <3>1. QED
      BY <1>3 DEF Request
  <2> HIDE DEF p, answer
  <2>2. QED
    BY <1>7, <1>8, <2>1 DEF Request
<1> HIDE DEF p, answer
<1>10. \A r \in requests' : (r \in requests /\ r # q) \/ r = p
  BY <1>1
<1>11. Typed'
  <2>1. EditsTyped'
    BY <1>1, <1>2, <1>9, <1>10 DEF Typed, EditsTyped, Request, Override
  <2>2. ListsTyped' /\ MarksTyped'
    BY <1>1, <1>2, <1>6 DEF Typed, ListsTyped, MarksTyped
  <2>3. GhostsTyped'
    BY <1>1, <1>2 DEF Typed, GhostsTyped, Call
  <2>4. QED
    BY <2>1, <2>2, <2>3 DEF Typed
<1>12. Moves
  <2>1. Copied(answer)
    <3>1. server' \in Lists \cup {server'}
      OBVIOUS
    <3>2. QED
      BY <1>1, <1>6, <1>7, <3>1 DEF Copied, Copies
  <2>2. \A T \in Lists' : Copied(T)
    <3> HIDE DEF Copied
    <3>1. QED
      BY <1>1, <1>8, <1>10, <2>1, CopiedStay, ListsCopied
  <2>3. BaseGrows
    BY <1>1, <1>2, BaseStays
  <2>4. DOMAIN server \subseteq settled.born
    BY <1>2, Versions, ListMembers
  <2> HIDE DEF Copied, BaseGrows
  <2>5. QED
    BY <1>1, <1>6, <2>2, <2>3, <2>4 DEF Moves
<1>13. Dated'
  BY <1>1, <1>2, <1>11, <1>12, DatedKept
<1>14. Index' /\ CallsApart' /\ Noticed'
  BY <1>1, <1>2, <1>6 DEF Index, CallsApart, Noticed
<1>15. FinishNoticed'
  BY <1>1, <1>2 DEF FinishNoticed, RowOutcome
<1>16. Pending'
  <2>1. \A r \in requests : r.mutation = q.mutation => r = q
    BY <1>2 DEF Pending
  <2>2. p \notin requests \ {q}
    BY <1>8, <2>1
  <2>3. IsFiniteSet(requests \ {q}) /\ Cardinality(requests \ {q}) = Cardinality(requests) - 1
    BY <1>2, FS_RemoveElement DEF Pending
  <2>4. /\ IsFiniteSet((requests \ {q}) \cup {p})
        /\ Cardinality((requests \ {q}) \cup {p}) = Cardinality(requests \ {q}) + 1
    BY <2>2, <2>3, FS_AddElement
  <2>5. Cardinality(requests) \in Nat
    BY <1>2, FS_CardinalityType DEF Pending
  <2>6. IsFiniteSet(requests') /\ pendingEdits' = Cardinality(requests')
    BY <1>1, <1>2, <2>3, <2>4, <2>5 DEF Pending
  <2>7. \A r, t \in requests' : r.mutation = t.mutation => r = t
    BY <1>2, <1>8, <1>10, <2>1 DEF Pending
  <2>8. \A t \in DOMAIN overrides' :
           \E r \in requests' : r.session = t /\ r.mutation = overrides'[t].mutation
    <3>1. TAKE t \in DOMAIN overrides'
    <3>2. PICK r \in requests : r.session = t /\ r.mutation = overrides[t].mutation
      BY <1>1, <1>2, <3>1 DEF Pending
    <3>3. CASE r = q
      BY <1>1, <1>8, <3>2, <3>3
    <3>4. CASE r # q
      BY <1>1, <3>2, <3>4
    <3>5. QED
      BY <3>3, <3>4
  <2>9. requests' # {}
    BY <1>1
  <2>10. QED
    BY <2>6, <2>7, <2>8, <2>9 DEF Pending
<1>17. ASSUME NEW k \in DOMAIN intent', NEW x, NEW m,
              x = intent'[k].value, m = intent'[k].mutation
       PROVE  Held(k[1], k[2], x, m)'
  <2> DEFINE u == k[1]
             f == k[2]
  <2>1. /\ k \in DOMAIN intent /\ intent'[k] = intent[k] /\ f \in Fields /\ k = <<u, f>>
        /\ \/ k # <<q.session, q.field>>
           \/ intent[k].mutation <= q.mutation
           \/ \E r \in requests : r.mutation = intent[k].mutation /\ r.row = None
    BY <1>1, <1>2 DEF Typed, GhostsTyped
  <2>2. Held(u, f, x, m) /\ m \in Nat
    BY <1>2, <1>17, <2>1 DEF Intended, Typed, GhostsTyped
  <2>3. u \in settled'.born
    BY <1>1, <2>2 DEF Held
  <2>4. \A r \in requests' : r.session = u /\ r.field = f => r.mutation <= m
    BY <1>8, <1>10, <2>2 DEF Held
  <2>5. \A r \in requests' : r.mutation = m =>
           /\ r.session = u /\ r.field = f /\ r.value = x
           /\ u \in DOMAIN overrides /\ f \in DOMAIN overrides[u].patch
           /\ overrides[u].mutation >= m
    BY <1>8, <1>10, <2>2 DEF Held
  <2>6. CASE k # <<q.session, q.field>>
    <3>1. Keeps(u, f)
      BY <1>6, <2>1, <2>6 DEF Keeps
    <3>2. ASSUME NEW r \in requests', r.mutation = m, r.row # None
          PROVE  Agreed(Lists', u, f, r.row[u].version, x)
      <4>1. r # p
        BY <1>8, <2>1, <2>5, <2>6, <3>2
      <4>2. r \in requests
        BY <1>10, <4>1
      <4>3. Agreed(Lists, u, f, r.row[u].version, x) /\ r.session = u
        BY <2>2, <3>2, <4>2 DEF Held
      <4>4. QED
        BY <1>2, <1>11, <1>12, <2>1, <3>1, <3>2, <4>2, <4>3, AnswerAgreed
    <3>3. ASSUME \A r \in requests' : r.mutation # m
          PROVE  u \in DOMAIN base' /\ Agreed(Lists', u, f, base'[u].version, x)
      <4>1. \A r \in requests : r.mutation # m
        BY <1>1, <1>8, <3>3
      <4>2. u \in DOMAIN base /\ Agreed(Lists, u, f, base[u].version, x)
        BY <2>2, <4>1 DEF Held
      <4>3. QED
        BY <1>2, <1>11, <1>12, <2>1, <3>1, <4>2, BaseAgreed
    <3>4. QED
      BY <1>1, <2>2, <2>3, <2>4, <2>5, <3>2, <3>3 DEF Held
  <2>7. CASE k = <<q.session, q.field>> /\ intent[k].mutation <= q.mutation
    <3>1. u = s /\ f = q.field /\ q.mutation <= m /\ m <= q.mutation
      BY <1>17, <2>1, <2>2, <2>7 DEF Held
    <3>2. q.mutation = m
      BY <1>3, <2>2, <3>1
    <3>3. q.value = x
      BY <2>2, <3>2 DEF Held
    <3>4. Agreed(Lists', s, f, server'[s].version, x)
      <4>1. SUFFICES ASSUME NEW T \in Lists', s \in DOMAIN T, T[s].version >= server'[s].version
                     PROVE  T[s][f] = x
        BY DEF Agreed
      <4>2. PICK U \in Lists \cup {server'} :
               s \in DOMAIN U /\ T[s].version = U[s].version /\ T[s][f] = U[s][f]
        BY <1>12, <2>1, <4>1 DEF Moves, Copied, Copies
      <4>3. CASE U \in Lists
        <5>1. U[s].version \in Nat /\ U[s].version <= server[s].version
          BY <1>1, <1>2, <4>2, <4>3, Versions
        <5>2. QED
          BY <1>4, <1>6, <4>1, <4>2, <5>1
      <4>4. CASE U = server'
        BY <1>6, <3>1, <3>3, <4>2, <4>4
      <4>5. QED
        BY <4>2, <4>3, <4>4
    <3>5. \A r \in requests' : r.mutation = m => r = p
      BY <1>2, <1>10, <3>2 DEF Pending
    <3>6. p \in requests' /\ p.mutation = m
      BY <1>1, <1>8, <3>2
    <3>7. p.row[u].version = server'[s].version
      BY <1>7, <1>8, <3>1
    <3>8. QED
      BY <1>1, <2>2, <2>3, <2>4, <2>5, <3>1, <3>4, <3>5, <3>6, <3>7 DEF Held
  <2>8. CASE /\ k = <<q.session, q.field>> /\ ~(intent[k].mutation <= q.mutation)
             /\ \E r \in requests : r.mutation = intent[k].mutation /\ r.row = None
    <3>1. PICK r \in requests : r.mutation = m /\ r.row = None
      BY <1>17, <2>1, <2>8
    <3>2. m # q.mutation
      BY <1>3, <1>17, <2>1, <2>2, <2>8
    <3>3. r \in requests' /\ r # p
      BY <1>1, <1>8, <3>1, <3>2
    <3>4. \A t \in requests' : t.mutation = m => t = r
      BY <1>2, <1>8, <1>10, <3>1, <3>2 DEF Pending
    <3>5. QED
      BY <1>1, <2>2, <2>3, <2>4, <2>5, <3>1, <3>3, <3>4 DEF Held
  <2>9. QED
    BY <2>1, <2>6, <2>7, <2>8
<1>18. Intended'
  BY <1>17, IntendedByHeld
<1>19. QED
  BY <1>11, <1>13, <1>14, <1>15, <1>16, <1>18 DEF RailInv

LEMMA MutateKeeps ==
    ASSUME RailInv, NEW s \in DOMAIN rowCache, NEW field \in Fields, Mutate(s, field)
    PROVE  RailInv'
<1>1. PICK n, value, previous :
         /\ n = nextMutation + 1 /\ value \in BOOLEAN
         /\ previous = (IF s \in DOMAIN overrides THEN overrides[s].patch ELSE Empty)
         /\ Act
         /\ nextMutation' = n /\ pendingEdits' = pendingEdits + 1
         /\ overrides' = With(overrides, s, [mutation |-> n, patch |-> With(previous, field, value)])
         /\ requests' = requests \cup {[mutation |-> n, session |-> s, field |-> field,
                                        value |-> value, row |-> None]}
         /\ intent' = With(intent, <<s, field>>, [value |-> value, mutation |-> n])
         /\ UNCHANGED <<server, rowCache, fetch, base, deferred, unread, seenRows, selected, calls,
                        finished, settled>>
  <2> DEFINE v == ~ViewOrganisation(s)[field]
             m == nextMutation + 1
             old == IF s \in DOMAIN overrides THEN overrides[s].patch ELSE Empty
  <2>1. v \in BOOLEAN
    OBVIOUS
  <2>2. /\ Act
        /\ nextMutation' = m /\ pendingEdits' = pendingEdits + 1
        /\ overrides' = With(overrides, s, [mutation |-> m, patch |-> With(old, field, v)])
        /\ requests' = requests \cup {[mutation |-> nextMutation', session |-> s, field |-> field,
                                       value |-> v, row |-> None]}
        /\ intent' = With(intent, <<s, field>>, [value |-> v, mutation |-> nextMutation'])
        /\ UNCHANGED <<server, rowCache, fetch, base, deferred, unread, seenRows, selected, calls,
                       finished, settled>>
    BY DEF Mutate, BeginMutation, unreadVars
  <2>3. m = nextMutation + 1 /\ old = (IF s \in DOMAIN overrides THEN overrides[s].patch ELSE Empty)
    OBVIOUS
  <2> HIDE DEF v, m, old
  <2>4. QED
    BY <2>1, <2>2, <2>3
<1> DEFINE p == [mutation |-> n, session |-> s, field |-> field, value |-> value, row |-> None]
           patch == With(previous, field, value)
           o == [mutation |-> n, patch |-> patch]
<1>2. Typed /\ Pending /\ CallsApart /\ Dated /\ Index /\ Noticed /\ FinishNoticed /\ Intended
  BY DEF RailInv
<1>3. /\ s \in Sessions /\ s \in settled.born /\ value \in BOOLEAN
      /\ nextMutation \in Nat /\ n \in Nat /\ n > nextMutation
  BY <1>1, <1>2, Versions, ListMembers DEF Typed, EditsTyped
<1>4. acts' \in Nat /\ acts' = acts + 1 /\ acts' <= MaxActs
  BY <1>1, <1>2, ActCounts
<1>5. /\ DOMAIN previous \subseteq Fields /\ previous \in [DOMAIN previous -> BOOLEAN]
      /\ s \in DOMAIN overrides => previous = overrides[s].patch
  BY <1>1, <1>2 DEF Typed, EditsTyped, Override, Empty
<1>6. /\ DOMAIN patch = DOMAIN previous \cup {field} /\ patch \in [DOMAIN patch -> BOOLEAN]
      /\ patch[field] = value /\ \A f \in DOMAIN previous : f # field => patch[f] = previous[f]
  BY <1>3, <1>5 DEF With, Over, Only
<1>7. o.mutation = n /\ o.patch = patch
  OBVIOUS
<1> HIDE DEF patch, o
<1>8. /\ DOMAIN overrides' = DOMAIN overrides \cup {s} /\ overrides'[s] = o
      /\ \A t \in DOMAIN overrides : t # s => overrides'[t] = overrides[t]
      /\ overrides' = [t \in DOMAIN overrides' |-> overrides'[t]]
  BY <1>1 DEF With, Over, Only, o, patch
<1>9. /\ p.mutation = n /\ p.session = s /\ p.field = field /\ p.value = value /\ p.row = None
      /\ p \in [mutation : 1 .. n, session : Sessions, field : Fields, value : BOOLEAN,
                row : {p.row}]
  BY <1>3
<1>10. requests' = requests \cup {p}
  BY <1>1
<1> HIDE DEF p
<1>11. /\ DOMAIN intent' = DOMAIN intent \cup {<<s, field>>}
       /\ intent'[<<s, field>>] = [value |-> value, mutation |-> n]
       /\ \A k \in DOMAIN intent : k # <<s, field>> => intent'[k] = intent[k]
       /\ intent' \in [DOMAIN intent' -> [value : BOOLEAN, mutation : Nat]]
  <2>1. [value |-> value, mutation |-> n] \in [value : BOOLEAN, mutation : Nat]
    BY <1>3
  <2>2. intent \in [DOMAIN intent -> [value : BOOLEAN, mutation : Nat]]
    BY <1>2 DEF Typed, GhostsTyped
  <2> DEFINE e == [value |-> value, mutation |-> n]
  <2>3. intent' = With(intent, <<s, field>>, e)
    BY <1>1
  <2> HIDE DEF e
  <2>4. QED
    BY <2>1, <2>2, <2>3 DEF With, Over, Only, e
<1>12. Typed'
  <2>1. \A r \in requests' : Request(r)'
    <3>1. \A r \in requests : Request(r)'
      BY <1>1, <1>2, <1>3 DEF Typed, EditsTyped, Request
    <3>2. Request(p)'
      BY <1>1, <1>9 DEF Request
    <3>3. QED
      BY <1>10, <3>1, <3>2
  <2>2. \A t \in DOMAIN overrides' : \A e : e = overrides'[t] => Override(e)'
    <3>1. ASSUME NEW t \in DOMAIN overrides, t # s, NEW e, e = overrides'[t] PROVE Override(e)'
      BY <1>1, <1>2, <1>3, <1>8, <3>1 DEF Typed, EditsTyped, Override
    <3>2. Override(o)'
      BY <1>1, <1>3, <1>5, <1>6, <1>7 DEF Override
    <3>3. QED
      BY <1>8, <3>1, <3>2
  <2>3. EditsTyped'
    <3>1. DOMAIN overrides' \subseteq Sessions
      BY <1>2, <1>3, <1>8 DEF Typed, EditsTyped
    <3>2. nextMutation' \in Nat /\ nextMutation' <= acts'
      BY <1>1, <1>2, <1>3, <1>4 DEF Typed, EditsTyped
    <3>3. QED
      BY <1>4, <1>8, <2>1, <2>2, <3>1, <3>2 DEF EditsTyped, Override
  <2>4. ListsTyped' /\ MarksTyped'
    BY <1>1, <1>2 DEF Typed, ListsTyped, MarksTyped
  <2>5. GhostsTyped'
    BY <1>1, <1>2, <1>3, <1>11 DEF Typed, GhostsTyped, Call
  <2>6. QED
    BY <2>3, <2>4, <2>5 DEF Typed
<1>13. Moves
  <2>1. \A T \in Lists' : Copied(T)
    <3> HIDE DEF Copied
    <3>1. QED
      BY <1>1, <1>9, <1>10, CopiedStay, ListsCopied
  <2>2. QED
    BY <1>1, <1>2, <2>1, BaseStays, MovesServerSame
<1>14. Dated'
  BY <1>1, <1>2, <1>12, <1>13, DatedKept
<1>15. Index' /\ CallsApart' /\ Noticed'
  BY <1>1, <1>2 DEF Index, CallsApart, Noticed
<1>16. FinishNoticed'
  BY <1>1, <1>2 DEF FinishNoticed, RowOutcome
<1>17. \A r \in requests : r.mutation \in Nat /\ r.mutation <= nextMutation /\ r.mutation # n
  BY <1>2, <1>3 DEF Typed, EditsTyped, Request
<1>18. Pending'
  <2>1. p \notin requests
    BY <1>9, <1>17
  <2>2. IsFiniteSet(requests') /\ Cardinality(requests') = Cardinality(requests) + 1
    BY <1>2, <1>10, <2>1, FS_AddElement DEF Pending
  <2>3. \A r, t \in requests' : r.mutation = t.mutation => r = t
    BY <1>2, <1>9, <1>10, <1>17 DEF Pending
  <2>4. \A t \in DOMAIN overrides' :
           \E r \in requests' : r.session = t /\ r.mutation = overrides'[t].mutation
    BY <1>2, <1>7, <1>8, <1>9, <1>10 DEF Pending
  <2>5. QED
    BY <1>1, <1>2, <1>10, <2>2, <2>3, <2>4 DEF Pending
<1>19. ASSUME NEW k \in DOMAIN intent', NEW x, NEW m,
              x = intent'[k].value, m = intent'[k].mutation
       PROVE  Held(k[1], k[2], x, m)'
  <2>1. CASE k = <<s, field>>
    <3>1. k[1] = s /\ k[2] = field /\ x = value /\ m = n
      BY <1>11, <1>19, <2>1
    <3>2. \A r \in requests' : r.session = s /\ r.field = field => r.mutation <= n
      BY <1>3, <1>9, <1>10, <1>17
    <3>3. \A r \in requests' : r.mutation = n => r = p
      BY <1>10, <1>17
    <3>4. p \in requests' /\ n <= n
      BY <1>3, <1>10
    <3>5. s \in DOMAIN overrides' /\ field \in DOMAIN overrides'[s].patch
          /\ overrides'[s].patch[field] = value /\ overrides'[s].mutation = n
      BY <1>6, <1>7, <1>8
    <3>6. QED
      BY <1>1, <1>3, <1>9, <3>1, <3>2, <3>3, <3>4, <3>5 DEF Held
  <2>2. CASE k # <<s, field>>
    <3> DEFINE u == k[1]
               f == k[2]
    <3>1. /\ k \in DOMAIN intent /\ intent'[k] = intent[k] /\ f \in Fields /\ k = <<u, f>>
      BY <1>2, <1>11, <2>2 DEF Typed, GhostsTyped
    <3>2. Held(u, f, x, m) /\ m \in Nat /\ m <= nextMutation
      BY <1>2, <1>19, <3>1 DEF Intended, Typed, GhostsTyped, Held
    <3>3. ~(u = s /\ f = field)
      BY <2>2, <3>1
    <3>4. /\ u \in DOMAIN overrides' /\ f \in DOMAIN overrides'[u].patch =>
                u \in DOMAIN overrides /\ f \in DOMAIN overrides[u].patch
                /\ overrides'[u].patch[f] = overrides[u].patch[f]
          /\ u \in DOMAIN overrides /\ f \in DOMAIN overrides[u].patch =>
                u \in DOMAIN overrides' /\ f \in DOMAIN overrides'[u].patch
                /\ overrides'[u].mutation \in {overrides[u].mutation, n}
      <4>1. CASE u = s
        <5>1. overrides'[u].patch = patch /\ overrides'[u].mutation = n /\ u \in DOMAIN overrides'
          BY <1>7, <1>8, <4>1
        <5>2. CASE s \in DOMAIN overrides
          BY <1>5, <1>6, <3>3, <4>1, <5>1, <5>2
        <5>3. CASE s \notin DOMAIN overrides
          <6>1. DOMAIN previous = {}
            BY <1>1, <5>3 DEF Empty
          <6>2. QED
            BY <1>6, <3>3, <4>1, <5>1, <5>3, <6>1
        <5>4. QED
          BY <5>2, <5>3
      <4>2. CASE u # s
        BY <1>8, <4>2
      <4>3. QED
        BY <4>1, <4>2
    <3>5. m # n /\ n >= m /\ m <= nextMutation'
      BY <1>1, <1>3, <3>2
    <3>6. \A r \in requests' : r.session = u /\ r.field = f => r.mutation <= m
      BY <1>9, <1>10, <3>2, <3>3 DEF Held
    <3>7. \A r \in requests' : r.mutation = m => r \in requests
      BY <1>9, <1>10, <3>5
    <3>8. u \in settled'.born
      BY <1>1, <3>2 DEF Held
    <3>9. Keeps(u, f)
      BY <1>1 DEF Keeps
    <3>10. ASSUME NEW r \in requests', r.mutation = m
           PROVE  /\ r.session = u /\ r.field = f /\ r.value = x
                  /\ u \in DOMAIN overrides' /\ f \in DOMAIN overrides'[u].patch
                  /\ overrides'[u].mutation >= m
                  /\ r.row # None => Agreed(Lists', u, f, r.row[u].version, x)
      <4>1. r \in requests
        BY <3>7, <3>10
      <4>2. /\ r.session = u /\ r.field = f /\ r.value = x
            /\ u \in DOMAIN overrides /\ f \in DOMAIN overrides[u].patch
            /\ overrides[u].mutation >= m
            /\ r.row # None => Agreed(Lists, u, f, r.row[u].version, x)
        BY <3>2, <3>10, <4>1 DEF Held
      <4>3. r.row # None => Agreed(Lists', u, f, r.row[u].version, x)
        BY <1>2, <1>12, <1>13, <3>1, <3>9, <4>1, <4>2, AnswerAgreed
      <4>4. QED
        BY <3>4, <3>5, <4>2, <4>3
    <3>11. ASSUME \A r \in requests' : r.mutation # m
           PROVE  u \in DOMAIN base' /\ Agreed(Lists', u, f, base'[u].version, x)
      <4>1. \A r \in requests : r.mutation # m
        BY <1>10, <3>11
      <4>2. u \in DOMAIN base /\ Agreed(Lists, u, f, base[u].version, x)
        BY <3>2, <4>1 DEF Held
      <4>3. QED
        BY <1>2, <1>12, <1>13, <3>1, <3>9, <4>2, BaseAgreed
    <3>12. u \in DOMAIN overrides' /\ f \in DOMAIN overrides'[u].patch => overrides'[u].patch[f] = x
      BY <3>2, <3>4 DEF Held
    <3>13. QED
      BY <3>5, <3>6, <3>8, <3>10, <3>11, <3>12 DEF Held
  <2>3. QED
    BY <2>1, <2>2
<1>20. Intended'
  BY <1>19, IntendedByHeld
<1>21. QED
  BY <1>12, <1>14, <1>15, <1>16, <1>18, <1>20 DEF RailInv

(* What both settlements do: the edits of the row up to this one are no    *)
(* longer shown, and a choice that none of them made goes on being held.   *)
LEMMA SettlementKeeps ==
    ASSUME RailInv, NEW q \in requests, NEW rows, Table(rows, Snapshots), Copied(rows),
           SettleMutation(q.session, q.mutation, rows), requests' = requests \ {q},
           UNCHANGED <<server, rowCache, fetch, selected, calls, acts, settled>>,
           Table(seenRows', Baselines), unread' \subseteq Sessions, Table(finished', Nat),
           DOMAIN intent' \subseteq DOMAIN intent,
           \A k \in DOMAIN intent' : intent'[k] = intent[k],
           intent' \in [DOMAIN intent' -> [value : BOOLEAN, mutation : Nat]],
           \A s \in DOMAIN seenRows' :
              \/ s \in DOMAIN seenRows /\ seenRows'[s].version = seenRows[s].version
              \/ \E U \in Lists : s \in DOMAIN U /\ seenRows'[s].version = U[s].version,
           \A k \in DOMAIN intent' : \A r \in requests :
              r.session = k[1] /\ r.field = k[2] => ~(r.session = q.session /\ r.mutation < q.mutation),
           \A k \in DOMAIN intent' : q.session = k[1] /\ intent[k].mutation = q.mutation =>
              /\ q.row # None /\ q.session \in DOMAIN rows
              /\ rows[q.session].version = q.row[q.session].version,
           Noticed', FinishNoticed'
    PROVE  RailInv'
<1>1. Typed /\ Pending /\ CallsApart /\ Dated /\ Index /\ Intended
  BY DEF RailInv
<1>2. /\ Table(base', Snapshots) /\ Copied(base') /\ BaseGrows /\ DeferredOK
      /\ \A s \in DOMAIN rows : s \in DOMAIN base' /\ base'[s].version >= rows[s].version
      /\ IsFiniteSet(requests') /\ pendingEdits' = Cardinality(requests')
      /\ requests' = {} => deferred' = None
      /\ nextMutation' = nextMutation
  <2> HIDE DEF Copied
  <2>1. QED
    BY <1>1, SettleMoves
<1>3. /\ \A t \in DOMAIN overrides' :
            /\ t \in DOMAIN overrides /\ overrides'[t] = overrides[t]
            /\ t = q.session => ~(overrides[t].mutation <= q.mutation)
      /\ \A t \in DOMAIN overrides :
            ~(t = q.session /\ overrides[t].mutation <= q.mutation) => t \in DOMAIN overrides'
      /\ overrides' = [t \in DOMAIN overrides' |-> overrides'[t]]
  BY DEF SettleMutation
<1>4. q.mutation \in Nat /\ q.session \in Sessions /\ q.field \in Fields
  BY <1>1 DEF Typed, EditsTyped, Request
<1>5. Typed'
  <2>1. EditsTyped'
    <3>1. DOMAIN overrides' \subseteq Sessions /\ \A t \in DOMAIN overrides' : Override(overrides[t])
      BY <1>1, <1>3 DEF Typed, EditsTyped
    <3>2. \A t \in DOMAIN overrides' : \A e : e = overrides'[t] => Override(e)'
      BY <1>2, <1>3, <3>1 DEF Override
    <3>3. \A r \in requests' : Request(r)'
      BY <1>1, <1>2 DEF Typed, EditsTyped, Request
    <3>4. QED
      BY <1>1, <1>2, <1>3, <3>1, <3>2, <3>3 DEF Typed, EditsTyped, Override
  <2>2. ListsTyped' /\ MarksTyped'
    BY <1>1, <1>2 DEF Typed, ListsTyped, MarksTyped, DeferredOK
  <2>3. GhostsTyped'
    BY <1>1 DEF Typed, GhostsTyped, Call
  <2>4. QED
    BY <2>1, <2>2, <2>3 DEF Typed
<1>6. Moves
  <2>1. \A T \in Lists' : Copied(T)
    <3> HIDE DEF Copied
    <3>1. QED
      BY <1>2, CopiedStay, ListsCopied DEF DeferredOK
  <2>2. QED
    BY <1>1, <1>2, <2>1, MovesServerSame
<1>7. Dated'
  BY <1>1, <1>5, <1>6, DatedKept
<1>8. Index' /\ CallsApart'
  BY <1>1 DEF Index, CallsApart
<1>9. Pending'
  <2>1. \A t \in DOMAIN overrides' :
           \E r \in requests' : r.session = t /\ r.mutation = overrides'[t].mutation
    <3>1. TAKE t \in DOMAIN overrides'
    <3>2. PICK r \in requests : r.session = t /\ r.mutation = overrides[t].mutation
      BY <1>1, <1>3, <3>1 DEF Pending
    <3>3. r # q
      BY <1>3, <1>4, <3>1, <3>2
    <3>4. QED
      BY <1>3, <3>2, <3>3
  <2>2. QED
    BY <1>1, <1>2, <2>1 DEF Pending
<1>10. ASSUME NEW k \in DOMAIN intent', NEW x, NEW m,
              x = intent'[k].value, m = intent'[k].mutation
       PROVE  Held(k[1], k[2], x, m)'
  <2> DEFINE u == k[1]
             f == k[2]
  <2>1. k \in DOMAIN intent /\ intent'[k] = intent[k] /\ f \in Fields
    BY <1>1 DEF Typed, GhostsTyped
  <2>2. Held(u, f, x, m) /\ m \in Nat
    BY <1>1, <1>10, <2>1 DEF Intended, Typed, GhostsTyped
  <2>3. u \in settled'.born /\ m <= nextMutation' /\ Keeps(u, f)
    BY <1>2, <2>2 DEF Held, Keeps
  <2>4. u \in DOMAIN overrides' /\ f \in DOMAIN overrides'[u].patch => overrides'[u].patch[f] = x
    BY <1>3, <2>2 DEF Held
  <2>5. \A r \in requests' : r.session = u /\ r.field = f => r.mutation <= m
    BY <2>2 DEF Held
  <2>6. ASSUME NEW r \in requests', r.mutation = m
        PROVE  /\ r.session = u /\ r.field = f /\ r.value = x
               /\ u \in DOMAIN overrides' /\ f \in DOMAIN overrides'[u].patch
               /\ overrides'[u].mutation >= m
               /\ r.row # None => Agreed(Lists', u, f, r.row[u].version, x)
    <3>1. r \in requests /\ r # q /\ r.mutation # q.mutation
      BY <1>1, <2>6 DEF Pending
    <3>2. /\ r.session = u /\ r.field = f /\ r.value = x
          /\ u \in DOMAIN overrides /\ f \in DOMAIN overrides[u].patch
          /\ overrides[u].mutation >= m
          /\ r.row # None => Agreed(Lists, u, f, r.row[u].version, x)
      BY <2>2, <2>6, <3>1 DEF Held
    <3>3. overrides[u].mutation \in Nat
      BY <1>1, <3>2 DEF Typed, EditsTyped, Override
    <3>4. ~(u = q.session /\ overrides[u].mutation <= q.mutation)
      <4>1. u = q.session => ~(m < q.mutation)
        BY <2>6, <3>1, <3>2
      <4>2. m # q.mutation
        BY <2>6, <3>1
      <4>3. QED
        BY <1>4, <2>2, <3>2, <3>3, <4>1, <4>2
    <3>5. u \in DOMAIN overrides' /\ overrides'[u] = overrides[u]
      BY <1>3, <3>2, <3>4
    <3>6. r.row # None => Agreed(Lists', u, f, r.row[u].version, x)
      BY <1>1, <1>5, <1>6, <2>1, <2>3, <3>1, <3>2, AnswerAgreed
    <3>7. QED
      BY <3>2, <3>5, <3>6
  <2>7. ASSUME \A r \in requests' : r.mutation # m
        PROVE  u \in DOMAIN base' /\ Agreed(Lists', u, f, base'[u].version, x)
    <3>1. CASE q.mutation = m
      <4>1. /\ q.session = u /\ q.field = f
            /\ q.row # None => Agreed(Lists, u, f, q.row[u].version, x)
        BY <2>2, <3>1 DEF Held
      <4>2. q.row # None /\ u \in DOMAIN rows /\ rows[u].version = q.row[u].version
        BY <1>10, <2>1, <3>1, <4>1
      <4>3. Agreed(Lists', u, f, q.row[u].version, x)
        BY <1>1, <1>5, <1>6, <2>1, <2>3, <4>1, <4>2, AnswerAgreed
      <4>4. u \in DOMAIN base' /\ base'[u].version >= rows[u].version
        BY <1>2, <4>2
      <4>5. base'[u].version \in Nat /\ rows[u].version \in Nat
        BY <1>2, <4>2, <4>4, MergedVersions
      <4>6. QED
        BY <1>5, <4>2, <4>3, <4>4, <4>5, AgreedLater
    <3>2. CASE q.mutation # m
      <4>1. \A r \in requests : r.mutation # m
        BY <2>7, <3>2
      <4>2. u \in DOMAIN base /\ Agreed(Lists, u, f, base[u].version, x)
        BY <2>2, <4>1 DEF Held
      <4>3. QED
        BY <1>1, <1>5, <1>6, <2>1, <2>3, <4>2, BaseAgreed
    <3>3. QED
      BY <3>1, <3>2
  <2>8. QED
    BY <2>3, <2>4, <2>5, <2>6, <2>7 DEF Held
<1>11. Intended'
  BY <1>10, IntendedByHeld
<1>12. QED
  BY <1>5, <1>7, <1>8, <1>9, <1>11 DEF RailInv

LEMMA SettleKeeps ==
    ASSUME RailInv, NEW q \in requests, Settle(q)
    PROVE  RailInv'
<1> DEFINE s == q.session
<1>1. /\ q.row # None
      /\ SettleMutation(q.session, q.mutation, SnapshotsOf(q.row))
      /\ seenRows' = Over([t \in DOMAIN q.row |-> BaselineOf(q.row[t])], seenRows)
      /\ unread' = unread /\ requests' = requests \ {q}
      /\ finished' = [t \in {t \in DOMAIN finished : t = q.session =>
                                finished[t] > q.row[t].version} |-> finished[t]]
      /\ intent' = Dropping(intent, {<<r.session, r.field>> : r \in Overtaken(q)})
      /\ UNCHANGED <<server, rowCache, fetch, selected, calls, acts, settled>>
  BY DEF Settle, Acknowledge
<1>2. Typed /\ Noticed /\ FinishNoticed
  BY DEF RailInv
<1>3. /\ Table(q.row, Rows) /\ DOMAIN q.row = {s} /\ s \in Sessions
      /\ q.mutation \in Nat
  BY <1>1, <1>2 DEF Typed, EditsTyped, Request
<1>4. Copied(q.row) /\ q.row \in Lists
  <2> HIDE DEF Copied
  <2>1. QED
    BY <1>1, CopiedStay, ListMembers
<1>5. /\ Table(SnapshotsOf(q.row), Snapshots) /\ Copied(SnapshotsOf(q.row))
      /\ DOMAIN SnapshotsOf(q.row) = {s}
      /\ SnapshotsOf(q.row)[s].version = q.row[s].version
  <2> HIDE DEF Copied
  <2>1. QED
    BY <1>3, <1>4, TableSnapshots, CopiedSnapshots
<1>6. /\ Table(seenRows', Baselines) /\ DOMAIN seenRows' = DOMAIN q.row \cup DOMAIN seenRows
      /\ \A t \in DOMAIN q.row : seenRows'[t].version = q.row[t].version
      /\ \A t \in DOMAIN seenRows \ DOMAIN q.row : seenRows'[t] = seenRows[t]
  BY <1>1, <1>2, <1>3, SeenTyped
<1>7. /\ Table(finished', Nat) /\ DOMAIN finished' \subseteq DOMAIN finished
      /\ \A t \in DOMAIN finished' : /\ finished'[t] = finished[t] /\ finished[t] \in Nat
                                     /\ t = s => finished[t] > q.row[t].version
  <2>1. /\ DOMAIN finished' \subseteq DOMAIN finished
        /\ \A t \in DOMAIN finished' : /\ finished'[t] = finished[t]
                                       /\ t = s => finished[t] > q.row[t].version
    BY <1>1
  <2>2. finished' = [t \in DOMAIN finished' |-> finished'[t]]
    BY <1>1
  <2>3. Table(finished, Nat)
    BY <1>2 DEF Typed, MarksTyped
  <2>4. QED
    BY <2>1, <2>2, <2>3 DEF Table
<1>8. /\ DOMAIN intent' = DOMAIN intent \ {<<r.session, r.field>> : r \in Overtaken(q)}
      /\ \A k \in DOMAIN intent' : intent'[k] = intent[k]
      /\ intent' \in [DOMAIN intent' -> [value : BOOLEAN, mutation : Nat]]
      /\ \A k \in DOMAIN intent : k = <<k[1], k[2]>>
  BY <1>1, <1>2 DEF Typed, GhostsTyped, Dropping
<1>9. \A k \in DOMAIN intent' : \A r \in requests :
         r.session = k[1] /\ r.field = k[2] => ~(r.session = q.session /\ r.mutation < q.mutation)
  BY <1>8 DEF Overtaken
<1>10. Noticed'
  <2>1. s \in DOMAIN q.row /\ q.row[s].version \in Nat
    BY <1>3, RowFields DEF Table
  <2>2. SUFFICES ASSUME NEW t \in DOMAIN finished'
                 PROVE  /\ t # selected /\ t \in DOMAIN seenRows'
                        /\ \/ t \in unread
                           \/ seenRows'[t].version < finished'[t]
                           \/ IsActive(seenRows'[t].status)
    BY <1>1 DEF Noticed
  <2>3. /\ t # selected /\ t \in DOMAIN seenRows
        /\ \/ t \in unread
           \/ seenRows[t].version < finished[t]
           \/ IsActive(seenRows[t].status)
    BY <1>2, <1>7, <2>2 DEF Noticed
  <2>4. CASE t = s
    <3>1. seenRows'[t].version = q.row[t].version /\ finished[t] > q.row[t].version
          /\ finished'[t] = finished[t]
      BY <1>6, <1>7, <2>1, <2>2, <2>4
    <3>2. seenRows'[t].version < finished'[t]
      BY <1>7, <2>1, <2>2, <2>4, <3>1
    <3>3. QED
      BY <1>6, <2>3, <3>2
  <2>5. CASE t # s
    <3>1. seenRows'[t] = seenRows[t] /\ finished'[t] = finished[t]
      BY <1>3, <1>6, <1>7, <2>2, <2>3, <2>5
    <3>2. QED
      BY <1>6, <2>3, <3>1
  <2>6. QED
    BY <2>4, <2>5
<1>11. FinishNoticed'
  BY <1>1, <1>2, <1>7 DEF FinishNoticed, RowOutcome
<1>12. \A t \in DOMAIN seenRows' :
          \/ t \in DOMAIN seenRows /\ seenRows'[t].version = seenRows[t].version
          \/ \E U \in Lists : t \in DOMAIN U /\ seenRows'[t].version = U[t].version
  BY <1>4, <1>6
<1>13. unread' \subseteq Sessions
  BY <1>1, <1>2 DEF Typed, MarksTyped
<1>14. \A k \in DOMAIN intent' : q.session = k[1] /\ intent[k].mutation = q.mutation =>
          /\ q.row # None /\ q.session \in DOMAIN SnapshotsOf(q.row)
          /\ SnapshotsOf(q.row)[q.session].version = q.row[q.session].version
  BY <1>1, <1>5
<1> HIDE DEF Copied
<1>15. QED
  BY <1>1, <1>5, <1>6, <1>7, <1>8, <1>9, <1>10, <1>11, <1>12, <1>13, <1>14, SettlementKeeps

LEMMA SettleFailureKeeps ==
    ASSUME RailInv, NEW q \in requests, SettleFailure(q)
    PROVE  RailInv'
<1>1. /\ SettleMutation(q.session, q.mutation, Empty)
      /\ requests' = requests \ {q}
      /\ intent' = Dropping(intent, {q.session} \X Fields)
      /\ UNCHANGED <<server, rowCache, fetch, unread, seenRows, selected, calls, acts,
                     finished, settled>>
  BY DEF SettleFailure, unreadVars
<1>2. Typed /\ Noticed /\ FinishNoticed
  BY DEF RailInv
<1>3. Table(Empty, Snapshots) /\ Copied(Empty)
  BY TableEmpty, CopiedEmpty
<1>4. /\ DOMAIN intent' \subseteq DOMAIN intent
      /\ \A k \in DOMAIN intent' : intent'[k] = intent[k] /\ k[1] # q.session
      /\ intent' \in [DOMAIN intent' -> [value : BOOLEAN, mutation : Nat]]
  BY <1>1, <1>2 DEF Typed, GhostsTyped, Dropping
<1>5. /\ Table(seenRows', Baselines) /\ unread' \subseteq Sessions /\ Table(finished', Nat)
  BY <1>1, <1>2 DEF Typed, MarksTyped
<1>6. Noticed'
  BY <1>1, <1>2 DEF Noticed
<1>7. FinishNoticed'
  BY <1>1, <1>2 DEF FinishNoticed, RowOutcome
<1>8. \A t \in DOMAIN seenRows' :
         \/ t \in DOMAIN seenRows /\ seenRows'[t].version = seenRows[t].version
         \/ \E U \in Lists : t \in DOMAIN U /\ seenRows'[t].version = U[t].version
  <2>1. TAKE t \in DOMAIN seenRows'
  <2>2. seenRows' = seenRows
    BY <1>1
  <2>3. QED
    BY <2>1, <2>2
<1>9. /\ \A k \in DOMAIN intent' : \A r \in requests : r.session = k[1] /\ r.field = k[2] =>
               ~(r.session = q.session /\ r.mutation < q.mutation)
      /\ \A k \in DOMAIN intent' : q.session = k[1] /\ intent[k].mutation = q.mutation =>
            /\ q.row # None /\ q.session \in DOMAIN Empty
            /\ Empty[q.session].version = q.row[q.session].version
  BY <1>4
<1> HIDE DEF Copied
<1>10. QED
  BY <1>1, <1>3, <1>4, <1>5, <1>6, <1>7, <1>8, <1>9, SettlementKeeps

-----------------------------------------------------------------------------
(* The theorem *)

LEMMA RailInitially == RailInit => RailInv
<1>1. SUFFICES ASSUME RailInit PROVE RailInv
  OBVIOUS
<1> DEFINE first == [pinned |-> FALSE, archived |-> FALSE, status |-> "idle", version |-> 1]
<1>2. /\ server = [s \in Opened |-> first]
      /\ rowCache = Empty /\ fetch = server
      /\ base = Empty /\ overrides = Empty /\ pendingEdits = 0 /\ nextMutation = 0 /\ deferred = None
      /\ requests = {} /\ calls = {}
      /\ unread = {} /\ seenRows = Empty
      /\ selected = None /\ acts = 0
      /\ intent = Empty /\ finished = Empty
      /\ settled = [made |-> {}, gone |-> {}, born |-> Opened]
  BY <1>1 DEF RailInit
<1>3. first \in Rows /\ first.version = 1
  BY DEF Rows, Statuses
<1> HIDE DEF first
<1>4. /\ Table(server, Rows) /\ DOMAIN server = Opened
      /\ \A s \in DOMAIN server : server[s].version = 1
  BY <1>2, <1>3, RailAssumption DEF Table
<1>5. DOMAIN Empty = {} /\ (\A V : Table(Empty, V)) /\ Empty = [s \in DOMAIN Empty |-> Empty[s]]
  BY TableEmpty DEF Empty
<1>6. Typed
  <2>1. ListsTyped /\ MarksTyped
    BY <1>2, <1>4, <1>5 DEF ListsTyped, MarksTyped
  <2>2. EditsTyped
    BY <1>2, <1>5, RailAssumption DEF EditsTyped
  <2>3. GhostsTyped
    <3>1. settled \in SettledType
      BY <1>2, RailAssumption DEF SettledType
    <3>2. intent \in [DOMAIN intent -> [value : BOOLEAN, mutation : Nat]] /\ DOMAIN intent = {}
      BY <1>2 DEF Empty
    <3>3. QED
      BY <1>2, <3>1, <3>2 DEF GhostsTyped
  <2>4. QED
    BY <2>1, <2>2, <2>3 DEF Typed
<1>7. Pending
  <2>1. IsFiniteSet({}) /\ Cardinality({}) = 0
    BY FS_EmptySet
  <2>2. QED
    BY <1>2, <1>5, <2>1 DEF Pending
<1>8. CallsApart /\ Noticed /\ Intended /\ FinishNoticed
  BY <1>2, <1>5 DEF CallsApart, Noticed, Intended, FinishNoticed
<1>9. Dated
  <2>1. \A T \in Lists : T = server \/ DOMAIN T = {}
    BY <1>2, <1>5 DEF Lists
  <2>2. 1 <= 1
    OBVIOUS
  <2>3. QED
    BY <1>2, <1>4, <1>5, <2>1, <2>2 DEF Dated
<1>10. Index
  BY <1>2, <1>5 DEF Index
<1>11. QED
  BY <1>6, <1>7, <1>8, <1>9, <1>10 DEF RailInv

LEMMA RailStep == RailInv /\ [RailNext]_railVars => RailInv'
<1>1. SUFFICES ASSUME RailInv, [RailNext]_railVars PROVE RailInv'
  OBVIOUS
<1>2. ASSUME NEW s \in DOMAIN server, NEW status \in Statuses, EngineWrites(s, status) PROVE RailInv'
  BY <1>1, <1>2, EngineWritesKeeps
<1>3. ASSUME NEW s \in DOMAIN server, NEW field \in Fields, ForeignWrites(s, field) PROVE RailInv'
  BY <1>1, <1>3, ForeignWritesKeeps
<1>4. ASSUME NEW q \in requests, ServePatch(q) PROVE RailInv'
  BY <1>1, <1>4, ServePatchKeeps
<1>5. ASSUME NEW q \in requests, Settle(q) PROVE RailInv'
  BY <1>1, <1>5, SettleKeeps
<1>6. ASSUME NEW q \in requests, SettleFailure(q) PROVE RailInv'
  BY <1>1, <1>6, SettleFailureKeeps
<1>7. ASSUME NEW c \in calls, ServeCall(c) PROVE RailInv'
  BY <1>1, <1>7, ServeCallKeeps
<1>8. ASSUME NEW c \in calls, CallSucceeds(c) PROVE RailInv'
  BY <1>1, <1>8, CallSucceedsKeeps
<1>9. ASSUME NEW c \in calls, CallFails(c) PROVE RailInv'
  BY <1>1, <1>9, CallFailsKeeps
<1>10. ASSUME NEW s \in DOMAIN rowCache, NEW field \in Fields, Mutate(s, field) PROVE RailInv'
  BY <1>1, <1>10, MutateKeeps
<1>11. ASSUME NEW s \in DOMAIN rowCache \cup {None}, Visit(s) PROVE RailInv'
  <2>1. s \in Sessions \cup {None}
    BY <1>1 DEF RailInv, Typed, ListsTyped, Table
  <2>2. QED
    BY <1>1, <1>11, <2>1, VisitKeeps
<1>12. ASSUME NEW s \in DOMAIN rowCache, RemoveSession(s) PROVE RailInv'
  BY <1>1, <1>12, RemoveSessionKeeps
<1>13. ASSUME NEW s \in Sessions, CreateSession(s) PROVE RailInv'
  BY <1>1, <1>13, CreateSessionKeeps
<1>14. CASE Poll
  BY <1>1, <1>14, PollKeeps
<1>15. CASE Deliver
  BY <1>1, <1>15, DeliverKeeps
<1>16. CASE UNCHANGED railVars
  <2>1. UNCHANGED <<server, rowCache, fetch, base, overrides, pendingEdits, nextMutation, deferred,
                    requests, unread, seenRows, selected, calls, acts, intent, finished, settled>>
    BY <1>16 DEF railVars
  <2>2. acts' \in Nat /\ acts' >= acts /\ acts' <= MaxActs
    BY <1>1, <2>1 DEF RailInv, Typed, EditsTyped
  <2>3. (\A c \in calls' : Call(c)) /\ CallsApart'
    BY <1>1, <2>1 DEF RailInv, Typed, GhostsTyped, CallsApart
  <2>4. QED
    BY <1>1, <2>1, <2>2, <2>3, ErrandKeeps
<1> HIDE DEF RailInv
<1>17. QED
  BY <1>1, <1>2, <1>3, <1>4, <1>5, <1>6, <1>7, <1>8, <1>9, <1>10, <1>11, <1>12, <1>13, <1>14,
     <1>15, <1>16 DEF RailNext

LEMMA RailFollows == RailInv => RailHonest
<1>1. SUFFICES ASSUME RailInv PROVE RailHonest
  OBVIOUS
<1>2. Typed /\ Pending /\ CallsApart /\ Dated /\ Index /\ Noticed /\ FinishNoticed /\ Intended
  BY <1>1 DEF RailInv
<1>3. RailTypeOK
  <2>1. \A s \in DOMAIN base : base[s].pinned \in BOOLEAN /\ base[s].version \in Nat
    BY <1>2 DEF Typed, ListsTyped, Table, Snapshots
  <2>2. \A s \in DOMAIN overrides : /\ DOMAIN overrides[s].patch \subseteq Fields
                                    /\ overrides[s].mutation \in 1 .. nextMutation
    BY <1>2 DEF Typed, EditsTyped, Override
  <2>3. nextMutation \in 0 .. MaxActs
    BY <1>2, RailAssumption DEF Typed, EditsTyped
  <2>4. pendingEdits \in Nat
    BY <1>2, FS_CardinalityType DEF Pending
  <2>5. QED
    BY <1>2, <2>1, <2>2, <2>3, <2>4 DEF RailTypeOK, Typed, ListsTyped, MarksTyped, EditsTyped, Table
<1>4. NoStuckEdit
  <2>1. SUFFICES ASSUME pendingEdits = 0 PROVE overrides = Empty /\ deferred = None
    BY <1>2 DEF NoStuckEdit, Pending
  <2>2. requests = {}
    BY <1>2, <2>1, FS_EmptySet DEF Pending
  <2>3. DOMAIN overrides = {} /\ deferred = None
    BY <1>2, <2>2 DEF Pending
  <2>4. overrides = [s \in DOMAIN overrides |-> overrides[s]]
    BY <1>2 DEF Typed, EditsTyped
  <2>5. overrides = Empty
    BY <2>3, <2>4 DEF Empty
  <2>6. QED
    BY <2>3, <2>5
<1>5. EditHolds
  <2>1. SUFFICES ASSUME NEW s \in DOMAIN rowCache, NEW f \in Fields, <<s, f>> \in DOMAIN intent
                 PROVE  ViewOrganisation(s)[f] = intent[<<s, f>>].value
    BY DEF EditHolds
  <2> DEFINE x == intent[<<s, f>>].value
             m == intent[<<s, f>>].mutation
  <2>2. Held(s, f, x, m)
    BY <1>2, <2>1 DEF Intended
  <2> HIDE DEF x, m
  <2>3. CASE s \in DOMAIN overrides /\ f \in DOMAIN overrides[s].patch
    BY <2>2, <2>3 DEF Held, ViewOrganisation, x
  <2>4. CASE ~(s \in DOMAIN overrides /\ f \in DOMAIN overrides[s].patch)
    <3>1. s \in DOMAIN base /\ Agreed(Lists, s, f, base[s].version, x)
      BY <2>2, <2>4 DEF Held
    <3>2. base[s].version >= base[s].version
      BY <1>2, <3>1, RowsOfLists, ListMembers
    <3>3. base[s][f] = x
      BY <3>1, <3>2, ListMembers DEF Agreed
    <3>4. f \notin DOMAIN (IF s \in DOMAIN overrides THEN overrides[s].patch ELSE Empty)
      BY <2>4 DEF Empty
    <3>5. QED
      BY <3>1, <3>3, <3>4 DEF ViewOrganisation, x
  <2>5. QED
    BY <2>3, <2>4
<1>6. IndexFollows
  BY <1>2 DEF Index, IndexFollows
<1>7. QED
  BY <1>2, <1>3, <1>4, <1>5, <1>6 DEF RailHonest

(* The rail is honest, for every number of sessions, edits, turns, polls,  *)
(* creations and deletions and every order of answers: no edit is stuck, a *)
(* row shows what its user last chose, an unseen finish is marked, and the *)
(* index follows what this tab was told (organisation-protocol.ts,         *)
(* unread.ts, session-queries.ts).                                         *)
THEOREM RailStaysHonest == RailSpec => []RailHonest
<1>1. RailInit => RailInv
  BY RailInitially
<1>2. RailInv /\ [RailNext]_railVars => RailInv'
  BY RailStep
<1>3. RailInv => RailHonest
  BY RailFollows
<1>4. QED
  BY <1>1, <1>2, <1>3, PTL DEF RailSpec

-----------------------------------------------------------------------------
(* Routes *)

(* A redirect lands on a listed project, where no other awaits; and one      *)
(* comes up only when a list arrives, somebody browses, or a project just    *)
(* created is opened before the refetched list has it: remembering, a failed *)
(* request and a deletion lead nowhere.                                      *)
RedirectEnds ==
    /\ FollowRedirect => ~Redirecting' /\ url'.project \in Indexed
    /\ ~Redirecting /\ Redirecting' =>
           ListArrives \/ CreateAnswered \/ \E to \in Destinations : Browse(to)

(* Every id the client may come to list, remember or open is confirmed: a    *)
(* list it holds was confirmed when it arrived, and the memory is a listed   *)
(* project's.  An answer on its way is a set of the server's ids.            *)
NavInv ==
    /\ projects \subseteq ProjectIds /\ confirmed \subseteq ProjectIds
    /\ listRequest \in {Quiet, OnItsWay} \cup SUBSET ProjectIds
    /\ list = Nowhere \/ list \subseteq confirmed
    /\ RemembersReal

LEMMA LeastId == ASSUME NEW T \in SUBSET Nat, T # {} PROVE Min(T) \in T
<1> DEFINE Less == {p \in Nat \X Nat : p[1] < p[2]}
<1>1. IsWellFoundedOn(Less, Nat)
  BY NatLessThanWellFounded DEF OpToRel
<1> HIDE DEF Less
<1>2. PICK x \in T : \A y \in T : ~(<<y, x>> \in Less)
  BY <1>1, WFMin
<1>3. ASSUME NEW y \in T PROVE x =< y
  <2>1. x \in Nat /\ y \in Nat /\ (y < x => <<y, x>> \in Less)
    BY DEF Less
  <2>2. QED
    BY <1>2, <2>1
<1>4. QED
  BY <1>3 DEF Min

LEMMA NavInitially == NavInit => NavInv
BY NavAssumption DEF NavInit, NavInv, RemembersReal

LEMMA FallbackListed ==
    ASSUME NavInv, Fallback # Nowhere PROVE Fallback \in Indexed
<1>1. Indexed \in SUBSET Nat
  BY NavAssumption DEF NavInv, Indexed
<1>2. Indexed # {} => Min(Indexed) \in Indexed
  BY <1>1, LeastId
<1>3. QED
  BY <1>2 DEF Fallback

LEMMA NavStep == NavInv /\ [NavNext]_navVars => NavInv'
<1> SUFFICES ASSUME NavInv, [NavNext]_navVars PROVE NavInv'
  OBVIOUS
<1> USE DEF NavInv, RemembersReal
<1>1. CASE FollowRedirect
  BY <1>1 DEF FollowRedirect
<1>2. CASE Remember
  BY <1>2 DEF Remember, ResolveProjectRoute, Indexed
<1>3. CASE ListServed
  BY <1>3 DEF ListServed
<1>4. CASE ListArrives
  BY <1>4 DEF ListArrives
<1>5. CASE ListFails
  BY <1>5 DEF ListFails
<1>6. CASE Refetch
  BY <1>6 DEF Refetch
<1>7. CASE \E to \in Destinations : Browse(to)
  BY <1>7 DEF Browse
<1>8. CASE OpenForm \/ CloseForm \/ SubmitForm
  BY <1>8 DEF OpenForm, CloseForm, SubmitForm
<1>9. CASE \E p \in ProjectIds : CreateServed(p)
  BY <1>9 DEF CreateServed
<1>10. CASE CreateAnswered
  BY <1>10 DEF CreateAnswered, Invalidate
<1>11. CASE DeleteProject
  BY <1>11 DEF DeleteProject
<1>12. CASE DeleteAnswered
  BY <1>12 DEF DeleteAnswered, Invalidate
<1>13. CASE \E p \in ProjectIds : OtherTab(p)
  BY <1>13 DEF OtherTab
<1>14. CASE UNCHANGED navVars
  BY <1>14 DEF navVars
<1>15. QED
  BY <1>1, <1>2, <1>3, <1>4, <1>5, <1>6, <1>7, <1>8, <1>9, <1>10, <1>11, <1>12, <1>13,
     <1>14 DEF NavNext

(* What decides a redirect: the list, its error, the address and the memory. *)
LEMMA SameRoute ==
    ASSUME list' = list, failed' = failed, url' = url, remembered' = remembered
    PROVE  Redirecting' = Redirecting
BY DEF Redirecting, ResolveProjectRoute, IndexStatus, Indexed, Fallback, ProjectSessionRoute

LEMMA RedirectStep == NavInv /\ [NavNext]_navVars => RedirectEnds
<1> SUFFICES ASSUME NavInv, [NavNext]_navVars PROVE RedirectEnds
  OBVIOUS
<1>1. ASSUME FollowRedirect PROVE ~Redirecting' /\ url'.project \in Indexed
  <2>1. /\ IndexStatus # "loading" /\ Fallback # Nowhere
        /\ url' = ProjectSessionRoute(Fallback, url.session)
    BY <1>1 DEF FollowRedirect, Redirecting, ResolveProjectRoute, GoTo
  <2>2. url'.project \in Indexed
    BY <2>1, FallbackListed DEF ProjectSessionRoute
  <2>3. list' = list /\ failed' = failed
    BY <1>1 DEF FollowRedirect
  <2>4. IndexStatus' # "loading" /\ url'.project \in Indexed'
    BY <2>1, <2>2, <2>3 DEF IndexStatus, Indexed
  <2>5. QED
    BY <2>2, <2>4 DEF Redirecting, ResolveProjectRoute
<1>2. ASSUME ~Redirecting, Redirecting'
      PROVE  ListArrives \/ CreateAnswered \/ \E to \in Destinations : Browse(to)
  <2>1. ~FollowRedirect
    BY <1>1, <1>2
  <2>2. ~Remember
    <3> SUFFICES ASSUME Remember PROVE FALSE
      OBVIOUS
    <3>1. IndexStatus' # "loading" /\ url'.project \in Indexed'
      BY DEF Remember, ResolveProjectRoute, IndexStatus, Indexed
    <3>2. QED
      BY <1>2, <3>1 DEF Redirecting, ResolveProjectRoute
  <2>3. ~ListFails
    <3> SUFFICES ASSUME ListFails PROVE FALSE
      OBVIOUS
    <3>1. CASE list = Nowhere
      <4>1. Indexed' = {} /\ Fallback' = Nowhere
        BY <3>1 DEF ListFails, Indexed, Fallback
      <4>2. QED
        BY <1>2, <4>1 DEF Redirecting, ResolveProjectRoute
    <3>2. CASE list # Nowhere
      <4>1. IndexStatus' = IndexStatus /\ ResolveProjectRoute' = ResolveProjectRoute
        BY <3>2 DEF ListFails, IndexStatus, ResolveProjectRoute, Indexed, Fallback,
                    ProjectSessionRoute
      <4>2. QED
        BY <1>2, <4>1 DEF ListFails, Redirecting
    <3>3. QED
      BY <3>1, <3>2
  <2>4. ~DeleteAnswered
    <3> SUFFICES ASSUME DeleteAnswered PROVE FALSE
      OBVIOUS
    <3>1. CASE url = ProjectSettingsRoute(deleting)
      BY <1>2, <3>1 DEF DeleteAnswered, GoTo, HomeRoute, Redirecting
    <3>2. CASE url # ProjectSettingsRoute(deleting)
      BY <1>2, <3>2, SameRoute DEF DeleteAnswered
    <3>3. QED
      BY <3>1, <3>2
  <2>5. ~(ListServed \/ Refetch \/ OpenForm \/ CloseForm \/ SubmitForm \/ DeleteProject)
    BY <1>2, SameRoute DEF ListServed, Refetch, OpenForm, CloseForm, SubmitForm, DeleteProject
  <2>6. ~(\E p \in ProjectIds : CreateServed(p) \/ OtherTab(p))
    BY <1>2, SameRoute DEF CreateServed, OtherTab
  <2>7. ~UNCHANGED navVars
    BY <1>2, SameRoute DEF navVars
  <2>8. QED
    BY <2>1, <2>2, <2>3, <2>4, <2>5, <2>6, <2>7 DEF NavNext
<1>3. QED
  BY <1>1, <1>2 DEF RedirectEnds

(* The address is sound, for every number of projects, users' steps and      *)
(* failures: the memory holds only ids a list confirmed, and no redirect     *)
(* leads to another (project-route.tsx, resolveProjectRoute).                *)
THEOREM RoutesStaySound == NavSpec => []RemembersReal /\ [][RedirectEnds]_navVars
<1>1. NavInit => NavInv
  BY NavInitially
<1>2. NavInv /\ [NavNext]_navVars => NavInv'
  BY NavStep
<1>3. NavInv => RemembersReal
  BY DEF NavInv
<1>4. NavInv /\ [NavNext]_navVars => RedirectEnds
  BY RedirectStep
<1>5. QED
  BY <1>1, <1>2, <1>3, <1>4, PTL DEF NavSpec
=============================================================================
