---------------------------- MODULE ClientProofs ----------------------------
(***************************************************************************)
(* Proofs about the folded conversation (ConversationFold), for every log, *)
(* every subtask stream and any breaks: what is folded is what the log     *)
(* says up to the cursor, and what is not is on its way (FoldInv).  A log  *)
(* is summed up by whether a turn is open (InTurn) and which question is   *)
(* (Asked), both of which one envelope changes as the frame of that        *)
(* envelope changes the fold.  A bubble of a send has its request, its     *)
(* message at the engine or its message on the stream still ahead of it    *)
(* (SettleInv).                                                            *)
(*                                                                         *)
(* The transcript on screen and that of a reload go through different      *)
(* frames and are both compared with the log: with the set of items that   *)
(* its envelopes up to the cursor draw one by one (Drawings, Shows).       *)
(***************************************************************************)
EXTENDS ConversationFold, WellFoundedInduction, TLAPS

-----------------------------------------------------------------------------
(* The conversation *)

Words == {None, "answer", "todos", "barrier", "question", "awaiting_input", "interrupted", "turn_failed",
          "inherited", "cancelled", "completed", "failed"}
Ids == Texts \cup Calls \cup Subtasks \cup Questions \cup Words

EnvelopeTypes == {"TaskCreated", "UserMessage", "AssistantMessage", "ToolCallStarted", "ToolResultRecorded",
                  "TaskStatePatched", "UserQuestionRequested", "UserQuestionAnswered",
                  "UserQuestionWithdrawn", "SubtaskSpawned", "SubtaskCompleted", "TaskWoken",
                  "TaskSuspended", "TaskCancelled", "TaskCompleted", "TaskFailed", "TaskRewound"}
Envelopes ==
    {e \in [type : EnvelopeTypes, id : Ids, at : Int] : e.type = "SubtaskSpawned" => e.id \in Subtasks}

FrameTypes == {"user_message", "append", "tool_call", "tool_result", "todo_update", "question",
               "question_answered", "question_withdrawn", "subtask_started", "subtask_finished",
               "turn_started", "turn_finished", "error", "rewind"}
Frames == [seq : Int, type : FrameTypes, id : Ids, sub : Ids, at : Int]

-----------------------------------------------------------------------------
(* Sequences *)

(* A set of naturals that is not empty has a least element. *)
LEMMA LeastNatural ==
    ASSUME NEW T \in SUBSET Nat, T # {}
    PROVE  \E n \in T : \A m \in T : n <= m
<1> DEFINE R == {p \in Nat \X Nat : p[1] < p[2]}
<1>1. IsWellFoundedOn(R, Nat)
  BY NatLessThanWellFounded DEF OpToRel
<1> HIDE DEF R
<1>2. PICK x \in T : \A y \in T : ~(<<y, x>> \in R)
  BY <1>1, WFMin
<1>3. \A y \in T : ~(y < x)
  BY <1>2 DEF R
<1>4. QED
  BY <1>3

LEMMA MaxOf ==
    ASSUME NEW n \in Nat, NEW S \in SUBSET (1 .. n), S # {}
    PROVE  Max(S) \in S /\ \A x \in S : x <= Max(S)
<1> DEFINE T == {m \in Nat : \A x \in S : x <= m}
<1>1. n \in T
  OBVIOUS
<1>2. PICK m \in T : \A k \in T : m <= k
  BY <1>1, LeastNatural
<1>3. m \in S
  <2>1. SUFFICES ASSUME m \notin S PROVE FALSE
    OBVIOUS
  <2>2. PICK y \in S : TRUE
    OBVIOUS
  <2>3. m \in Nat /\ m > 0 /\ \A x \in S : x <= m - 1
    BY <2>1, <2>2
  <2>4. m - 1 \in T
    BY <2>3
  <2>5. QED
    BY <1>2, <2>3, <2>4
<1>4. \E x \in S : \A y \in S : x >= y
  BY <1>3
<1>5. Max(S) \in S /\ \A y \in S : Max(S) >= y
  BY <1>4 DEF Max
<1>6. QED
  BY <1>5

(* f lists what is kept of the first items. *)
KeptSoFar(items, kept, f) ==
    /\ f[0] = <<>>
    /\ \A k \in 1 .. Len(items) :
           f[k] = IF items[k] \in kept THEN Append(f[k - 1], items[k]) ELSE f[k - 1]

LEMMA FilterSteps ==
    ASSUME NEW T, NEW items \in Seq(T), NEW kept
    PROVE  \E f : KeptSoFar(items, kept, f) /\ Filter(items, kept) = f[Len(items)]
<1> DEFINE Step(f, n) == [i \in 0 .. n |->
                             IF i = 0 THEN <<>>
                             ELSE IF items[i] \in kept THEN Append(f[i - 1], items[i]) ELSE f[i - 1]]
           Bad == {n \in 0 .. Len(items) : ~\E f : f = Step(f, n)}
<1>1. ASSUME Bad # {} PROVE FALSE
  <2>1. PICK n \in Bad : \A m \in Bad : n <= m
    <3>1. Bad \in SUBSET Nat
      OBVIOUS
    <3> HIDE DEF Bad
    <3>2. QED
      BY <1>1, <3>1, LeastNatural
  <2>2. n # 0
    <3>1. PICK f : f = [i \in 0 .. 0 |-> <<>>]
      OBVIOUS
    <3>2. f = Step(f, 0)
      BY <3>1
    <3>3. QED
      BY <2>1, <3>2
  <2>3. n - 1 \in 0 .. Len(items) /\ ~(n <= n - 1)
    BY <2>1, <2>2
  <2>4. PICK g : g = Step(g, n - 1)
    BY <2>1, <2>3
  <2>5. PICK h : h = [i \in 0 .. n |-> IF i < n THEN g[i]
                                      ELSE IF items[i] \in kept THEN Append(g[i - 1], items[i]) ELSE g[i - 1]]
    OBVIOUS
  <2>6. \A i \in 0 .. n - 1 : g[i] = IF i = 0 THEN <<>>
                                     ELSE IF items[i] \in kept THEN Append(g[i - 1], items[i]) ELSE g[i - 1]
    BY <2>4
  <2>7. \A i \in 0 .. n : h[i] = Step(h, n)[i]
    BY <2>2, <2>3, <2>5, <2>6
  <2>8. h = Step(h, n)
    BY <2>5, <2>7
  <2>9. QED
    BY <2>1, <2>8
<1>2. \E f : f = Step(f, Len(items))
  BY SMTT(30), <1>1
<1>3. PICK f : f = (CHOOSE h : h = Step(h, Len(items)))
  OBVIOUS
<1>4. f = Step(f, Len(items))
  BY <1>2, <1>3
<1>5. Filter(items, kept) = f[Len(items)]
  BY <1>3 DEF Filter
<1>6. KeptSoFar(items, kept, f)
  <2>1. Len(items) \in Nat
    OBVIOUS
  <2>2. \A k \in 0 .. Len(items) : f[k] = Step(f, Len(items))[k]
    BY <1>4
  <2>3. QED
    BY <2>1, <2>2 DEF KeptSoFar
<1>7. QED
  BY <1>5, <1>6

(* s holds what is kept of the first n items, in their order. *)
KeptOf(items, kept, n, s, T) ==
    /\ s \in Seq(T)
    /\ \A i \in DOMAIN s : s[i] \in kept /\ \E a \in 1 .. n : s[i] = items[a]
    /\ \A i, j \in DOMAIN s : i < j => \E a, b \in 1 .. n : a < b /\ s[i] = items[a] /\ s[j] = items[b]

LEMMA KeptMore ==
    ASSUME NEW T, NEW items, NEW kept, NEW n \in Nat, n > 0, NEW p, KeptOf(items, kept, n - 1, p, T),
           items[n] \in T, items[n] \in kept
    PROVE  KeptOf(items, kept, n, Append(p, items[n]), T)
<1>1. PICK s : s = Append(p, items[n])
  OBVIOUS
<1>2. /\ p \in Seq(T)
      /\ \A i \in DOMAIN p : p[i] \in kept /\ \E a \in 1 .. n - 1 : p[i] = items[a]
      /\ \A i, j \in DOMAIN p : i < j => \E a, b \in 1 .. n - 1 : a < b /\ p[i] = items[a] /\ p[j] = items[b]
  BY DEF KeptOf
<1>3. /\ s \in Seq(T) /\ DOMAIN s = 1 .. Len(p) + 1 /\ s[Len(p) + 1] = items[n]
      /\ DOMAIN p = 1 .. Len(p) /\ Len(p) \in Nat /\ \A i \in 1 .. Len(p) : s[i] = p[i]
  BY <1>1, <1>2
<1>4. n \in 1 .. n /\ \A a \in 1 .. n - 1 : a \in 1 .. n /\ a < n
  OBVIOUS
<1>5. \A i \in DOMAIN s : s[i] \in kept /\ \E a \in 1 .. n : s[i] = items[a]
  BY <1>2, <1>3, <1>4
<1>6. ASSUME NEW i \in DOMAIN s, NEW j \in DOMAIN s, i < j
      PROVE  \E a, b \in 1 .. n : a < b /\ s[i] = items[a] /\ s[j] = items[b]
  <2>1. CASE j = Len(p) + 1
    <3>1. i \in DOMAIN p /\ s[i] = p[i]
      BY <1>3, <1>6, <2>1
    <3>2. PICK a \in 1 .. n - 1 : p[i] = items[a]
      BY <1>2, <3>1
    <3>3. QED
      BY <1>3, <1>4, <2>1, <3>1, <3>2
  <2>2. CASE j # Len(p) + 1
    <3>1. i \in DOMAIN p /\ j \in DOMAIN p /\ s[i] = p[i] /\ s[j] = p[j]
      BY <1>3, <1>6, <2>2
    <3>2. PICK a, b \in 1 .. n - 1 : a < b /\ p[i] = items[a] /\ p[j] = items[b]
      BY <1>2, <1>6, <3>1
    <3>3. QED
      BY <1>4, <3>1, <3>2
  <2>3. QED
    BY <2>1, <2>2
<1>7. KeptOf(items, kept, n, s, T)
  BY <1>3, <1>5, <1>6 DEF KeptOf
<1>8. QED
  BY <1>1, <1>7

(* What is kept was there, in this order. *)
LEMMA Filtered ==
    ASSUME NEW T, NEW items \in Seq(T), NEW kept
    PROVE  KeptOf(items, kept, Len(items), Filter(items, kept), T)
<1>0. Len(items) \in Nat /\ \A a \in 1 .. Len(items) : items[a] \in T
  OBVIOUS
<1>1. PICK f : KeptSoFar(items, kept, f) /\ Filter(items, kept) = f[Len(items)]
  BY FilterSteps
<1> DEFINE Bad == {n \in 0 .. Len(items) : ~KeptOf(items, kept, n, f[n], T)}
<1>2. ASSUME Bad # {} PROVE FALSE
  <2>1. PICK n \in Bad : \A m \in Bad : n <= m
    <3>1. Bad \in SUBSET Nat
      BY <1>0
    <3> HIDE DEF Bad
    <3>2. QED
      BY <1>2, <3>1, LeastNatural
  <2>2. n \in 0 .. Len(items) /\ ~KeptOf(items, kept, n, f[n], T)
    BY <2>1
  <2>3. n # 0
    <3>1. f[0] = <<>>
      BY <1>1 DEF KeptSoFar
    <3>2. <<>> \in Seq(T) /\ \A i \in DOMAIN <<>> : FALSE
      OBVIOUS
    <3>3. KeptOf(items, kept, 0, <<>>, T)
      BY <3>2 DEF KeptOf
    <3>4. QED
      BY <2>2, <3>1, <3>3
  <2>4. n - 1 \in 0 .. Len(items) /\ ~(n <= n - 1) /\ n \in 1 .. Len(items) /\ n > 0 /\ n \in Nat
    BY <1>0, <2>2, <2>3
  <2>5. KeptOf(items, kept, n - 1, f[n - 1], T)
    BY <2>1, <2>4
  <2>6. CASE items[n] \notin kept
    <3>1. f[n] = f[n - 1]
      BY <1>1, <2>4, <2>6 DEF KeptSoFar
    <3>2. \A a \in 1 .. n - 1 : a \in 1 .. n
      BY <2>4
    <3>3. KeptOf(items, kept, n, f[n - 1], T)
      BY <2>5, <3>2 DEF KeptOf
    <3>4. QED
      BY <2>2, <3>1, <3>3
  <2>7. CASE items[n] \in kept
    <3>1. f[n] = Append(f[n - 1], items[n]) /\ items[n] \in T
      BY <1>0, <1>1, <2>4, <2>7 DEF KeptSoFar
    <3>2. KeptOf(items, kept, n, Append(f[n - 1], items[n]), T)
      BY <2>4, <2>5, <2>7, <3>1, KeptMore
    <3>3. QED
      BY <2>2, <3>1, <3>2
  <2>8. QED
    BY <2>6, <2>7
<1>3. Len(items) \in 0 .. Len(items)
  BY <1>0
<1>4. QED
  BY <1>1, <1>2, <1>3


(* g lists the concatenations of the first of these sequences. *)
JoinedSoFar(seqs, g) ==
    \A k \in 1 .. Len(seqs) : g[k] = IF k = 1 THEN seqs[1] ELSE g[k - 1] \o seqs[k]

LEMMA FlattenSteps ==
    ASSUME NEW T, NEW seqs \in Seq(T), seqs # <<>>
    PROVE  \E g : JoinedSoFar(seqs, g) /\ FlattenSeq(seqs) = g[Len(seqs)]
<1>0. Len(seqs) \in Nat /\ Len(seqs) > 0
  OBVIOUS
<1> DEFINE Step(g, n) == [i \in 1 .. n |-> IF i = 1 THEN seqs[i] ELSE g[i - 1] \o seqs[i]]
           Bad == {n \in 0 .. Len(seqs) : ~\E g : g = Step(g, n)}
<1>1. ASSUME Bad # {} PROVE FALSE
  <2>1. PICK n \in Bad : \A m \in Bad : n <= m
    <3>1. \A n \in Bad : n \in Nat
      BY <1>0
    <3> HIDE DEF Bad
    <3>2. Bad \in SUBSET Nat
      BY <3>1
    <3>3. QED
      BY <1>1, <3>2, LeastNatural
  <2>2. n # 0
    <3>1. PICK g : g = [i \in 1 .. 0 |-> <<>>]
      OBVIOUS
    <3>2. g = Step(g, 0)
      BY <3>1
    <3>3. QED
      BY ZenonT(60), <2>1, <3>2
  <2>3. n - 1 \in 0 .. Len(seqs) /\ ~(n <= n - 1)
    BY <1>0, <2>1, <2>2
  <2>4. PICK g : g = Step(g, n - 1)
    BY <2>1, <2>3
  <2>5. PICK h : h = [i \in 1 .. n |-> IF i < n THEN g[i] ELSE IF i = 1 THEN seqs[i] ELSE g[i - 1] \o seqs[i]]
    OBVIOUS
  <2>6. \A i \in 1 .. n - 1 : g[i] = IF i = 1 THEN seqs[i] ELSE g[i - 1] \o seqs[i]
    BY <2>4
  <2>7. \A i \in 1 .. n : h[i] = Step(h, n)[i]
    BY <2>2, <2>3, <2>5, <2>6
  <2>8. h = Step(h, n)
    BY <2>5, <2>7
  <2>9. QED
    BY <2>1, <2>8
<1>2. \E g : g = Step(g, Len(seqs))
  <2>1. Len(seqs) \in 0 .. Len(seqs)
    BY <1>0
  <2>2. QED
    BY <1>1, <2>1
<1>3. PICK f : f = (CHOOSE h : h = Step(h, Len(seqs)))
  OBVIOUS
<1>4. f = Step(f, Len(seqs))
  BY <1>2, <1>3
<1>5. FlattenSeq(seqs) = f[Len(seqs)]
  BY <1>0, <1>3 DEF FlattenSeq
<1>6. JoinedSoFar(seqs, f)
  <2>1. \A k \in 1 .. Len(seqs) : f[k] = Step(f, Len(seqs))[k]
    BY <1>4
  <2>2. QED
    BY <1>0, <2>1 DEF JoinedSoFar
<1>7. QED
  BY <1>5, <1>6

(* x stands before y: in an earlier one of the first n parts, or earlier in the same. *)
Before(seqs, n, x, y) ==
    \/ \E a, b \in 1 .. n : a < b /\ x \in ToSet(seqs[a]) /\ y \in ToSet(seqs[b])
    \/ \E a \in 1 .. n : \E u, v \in DOMAIN seqs[a] : u < v /\ x = seqs[a][u] /\ y = seqs[a][v]

JoinOf(seqs, n, s, T) ==
    /\ s \in Seq(T)
    /\ \A i \in DOMAIN s : \E a \in 1 .. n : s[i] \in ToSet(seqs[a])
    /\ \A a \in 1 .. n : \A x \in ToSet(seqs[a]) : x \in ToSet(s)
    /\ \A i, j \in DOMAIN s : i < j => Before(seqs, n, s[i], s[j])

LEMMA JoinFirst ==
    ASSUME NEW T, NEW seqs, seqs[1] \in Seq(T)
    PROVE  JoinOf(seqs, 1, seqs[1], T)
<1>1. PICK t : t = seqs[1]
  OBVIOUS
<1>2. t \in Seq(T) /\ \A i \in DOMAIN t : t[i] \in ToSet(t)
  BY <1>1 DEF ToSet
<1>3. \A i \in DOMAIN t : \E a \in 1 .. 1 : t[i] \in ToSet(seqs[a])
  BY <1>1, <1>2
<1>4. \A a \in 1 .. 1 : \A x \in ToSet(seqs[a]) : x \in ToSet(t)
  <2> TAKE a \in 1 .. 1
  <2>1. a = 1
    OBVIOUS
  <2>2. QED
    BY <1>1, <2>1
<1>5. ASSUME NEW i \in DOMAIN t, NEW j \in DOMAIN t, i < j PROVE Before(seqs, 1, t[i], t[j])
  <2>1. 1 \in 1 .. 1 /\ i \in DOMAIN seqs[1] /\ j \in DOMAIN seqs[1] /\ t[i] = seqs[1][i] /\ t[j] = seqs[1][j]
    BY <1>1, <1>5
  <2>2. QED
    BY <1>5, <2>1 DEF Before
<1>6. JoinOf(seqs, 1, t, T)
  BY <1>2, <1>3, <1>4, <1>5 DEF JoinOf
<1>7. QED
  BY <1>1, <1>6

LEMMA JoinNext ==
    ASSUME NEW T, NEW seqs, NEW n \in Nat, n > 1, NEW p, JoinOf(seqs, n - 1, p, T), seqs[n] \in Seq(T)
    PROVE  JoinOf(seqs, n, p \o seqs[n], T)
<1>1. PICK s, t : t = seqs[n] /\ s = p \o t
  OBVIOUS
<1>2. /\ p \in Seq(T) /\ t \in Seq(T)
      /\ \A i \in DOMAIN p : \E a \in 1 .. n - 1 : p[i] \in ToSet(seqs[a])
      /\ \A a \in 1 .. n - 1 : \A x \in ToSet(seqs[a]) : x \in ToSet(p)
      /\ \A i, j \in DOMAIN p : i < j => Before(seqs, n - 1, p[i], p[j])
  BY <1>1 DEF JoinOf
<1>3. /\ s \in Seq(T) /\ Len(p) \in Nat /\ Len(t) \in Nat /\ DOMAIN p = 1 .. Len(p) /\ DOMAIN t = 1 .. Len(t)
      /\ DOMAIN s = 1 .. Len(p) + Len(t)
      /\ \A i \in 1 .. Len(p) : s[i] = p[i]
      /\ \A i \in 1 .. Len(t) : s[Len(p) + i] = t[i]
  BY <1>1, <1>2
<1>4. n \in 1 .. n /\ \A a \in 1 .. n - 1 : a \in 1 .. n /\ a < n
  OBVIOUS
<1>5. ASSUME NEW i \in DOMAIN s, i \notin DOMAIN p
      PROVE  \E u \in DOMAIN t : i = Len(p) + u /\ s[i] = t[u]
  <2>1. i - Len(p) \in 1 .. Len(t) /\ i = Len(p) + (i - Len(p))
    BY <1>3, <1>5
  <2>2. QED
    BY <1>3, <2>1
<1>6. ASSUME NEW i \in DOMAIN s PROVE \E a \in 1 .. n : s[i] \in ToSet(seqs[a])
  <2>1. CASE i \in DOMAIN p
    BY <1>2, <1>3, <1>4, <2>1
  <2>2. CASE i \notin DOMAIN p
    <3>1. s[i] \in ToSet(t)
      BY <1>5, <2>2 DEF ToSet
    <3>2. QED
      BY <1>1, <1>4, <3>1
  <2>3. QED
    BY <2>1, <2>2
<1>7. \A x \in ToSet(p) : x \in ToSet(s)
  <2> SUFFICES ASSUME NEW i \in DOMAIN p PROVE p[i] \in ToSet(s)
    BY DEF ToSet
  <2>1. i \in DOMAIN s /\ s[i] = p[i]
    BY <1>3
  <2>2. QED
    BY <2>1 DEF ToSet
<1>8. \A x \in ToSet(t) : x \in ToSet(s)
  <2> SUFFICES ASSUME NEW i \in DOMAIN t PROVE t[i] \in ToSet(s)
    BY DEF ToSet
  <2>1. Len(p) + i \in DOMAIN s /\ s[Len(p) + i] = t[i]
    BY <1>3
  <2>2. QED
    BY <2>1 DEF ToSet
<1>9. ASSUME NEW a \in 1 .. n, NEW x \in ToSet(seqs[a]) PROVE x \in ToSet(s)
  <2>1. CASE a = n
    BY <1>1, <1>8, <1>9, <2>1
  <2>2. CASE a # n
    <3>1. a \in 1 .. n - 1
      BY <2>2
    <3>2. QED
      BY <1>2, <1>7, <1>9, <3>1
  <2>3. QED
    BY <2>1, <2>2
<1>10. ASSUME NEW i \in DOMAIN s, NEW j \in DOMAIN s, i < j PROVE Before(seqs, n, s[i], s[j])
  <2>1. CASE j \in DOMAIN p
    <3>1. i \in DOMAIN p /\ s[i] = p[i] /\ s[j] = p[j]
      BY <1>3, <1>10, <2>1
    <3>2. Before(seqs, n - 1, s[i], s[j])
      BY <1>2, <1>10, <2>1, <3>1
    <3>3. QED
      BY <1>4, <3>2 DEF Before
  <2>2. CASE j \notin DOMAIN p /\ i \in DOMAIN p
    <3>1. s[j] \in ToSet(seqs[n])
      BY <1>1, <1>5, <2>2 DEF ToSet
    <3>2. PICK a \in 1 .. n - 1 : s[i] \in ToSet(seqs[a])
      BY <1>2, <1>3, <2>2
    <3>3. QED
      BY <1>4, <3>1, <3>2 DEF Before
  <2>3. CASE j \notin DOMAIN p /\ i \notin DOMAIN p
    <3>1. PICK u \in DOMAIN t : i = Len(p) + u /\ s[i] = t[u]
      BY <1>5, <2>3
    <3>2. PICK v \in DOMAIN t : j = Len(p) + v /\ s[j] = t[v]
      BY <1>5, <2>3
    <3>3. u < v
      BY <1>3, <1>10, <3>1, <3>2
    <3>4. u \in DOMAIN seqs[n] /\ v \in DOMAIN seqs[n] /\ s[i] = seqs[n][u] /\ s[j] = seqs[n][v]
      BY <1>1, <3>1, <3>2
    <3>5. QED
      BY <1>4, <3>3, <3>4 DEF Before
  <2>4. QED
    BY <2>1, <2>2, <2>3
<1>11. JoinOf(seqs, n, s, T)
  BY <1>3, <1>6, <1>9, <1>10 DEF JoinOf
<1>12. QED
  BY <1>1, <1>11

(* A concatenation holds what its parts hold, part by part. *)
LEMMA Flattened ==
    ASSUME NEW T, NEW seqs \in Seq(Seq(T))
    PROVE  JoinOf(seqs, Len(seqs), FlattenSeq(seqs), T)
<1>0. Len(seqs) \in Nat /\ \A a \in 1 .. Len(seqs) : seqs[a] \in Seq(T)
  OBVIOUS
<1>1. CASE seqs = <<>>
  <2>1. FlattenSeq(seqs) = <<>> /\ Len(seqs) = 0
    BY <1>1 DEF FlattenSeq
  <2>2. /\ <<>> \in Seq(T)
        /\ \A i \in DOMAIN <<>> : FALSE
        /\ \A a \in 1 .. 0 : FALSE
    OBVIOUS
  <2>3. JoinOf(seqs, 0, <<>>, T)
    BY <2>2 DEF JoinOf
  <2>4. QED
    BY <2>1, <2>3
<1>2. CASE seqs # <<>>
  <2>1. Len(seqs) > 0
    BY <1>2
  <2>2. PICK f : JoinedSoFar(seqs, f) /\ FlattenSeq(seqs) = f[Len(seqs)]
    BY <1>2, FlattenSteps
  <2> DEFINE Bad == {n \in 1 .. Len(seqs) : ~JoinOf(seqs, n, f[n], T)}
  <2>3. ASSUME Bad # {} PROVE FALSE
    <3>1. PICK n \in Bad : \A m \in Bad : n <= m
      <4>1. Bad \in SUBSET Nat
        BY <1>0
      <4> HIDE DEF Bad
      <4>2. QED
        BY <2>3, <4>1, LeastNatural
    <3>2. n \in 1 .. Len(seqs) /\ ~JoinOf(seqs, n, f[n], T)
      BY <3>1
    <3>3. CASE n = 1
      <4>1. f[1] = seqs[1] /\ seqs[1] \in Seq(T)
        BY <1>0, <2>1, <2>2 DEF JoinedSoFar
      <4>2. QED
        BY <3>2, <3>3, <4>1, JoinFirst
    <3>4. CASE n # 1
      <4>1. n - 1 \in 1 .. Len(seqs) /\ ~(n <= n - 1) /\ n > 1 /\ n \in Nat
        BY <1>0, <3>2, <3>4
      <4>2. JoinOf(seqs, n - 1, f[n - 1], T)
        BY <3>1, <4>1
      <4>3. f[n] = f[n - 1] \o seqs[n] /\ seqs[n] \in Seq(T)
        BY <1>0, <2>2, <3>2, <3>4 DEF JoinedSoFar
      <4>4. JoinOf(seqs, n, f[n - 1] \o seqs[n], T)
        BY <4>1, <4>2, <4>3, JoinNext
      <4>5. QED
        BY <3>2, <4>3, <4>4
    <3>5. QED
      BY <3>3, <3>4
  <2>4. Len(seqs) \in 1 .. Len(seqs)
    BY <1>0, <2>1
  <2>5. QED
    BY <2>2, <2>3, <2>4
<1>3. QED
  BY <1>1, <1>2

LEMMA FlattenOne ==
    ASSUME NEW T, NEW a \in Seq(T)
    PROVE  FlattenSeq(<<a>>) = a
<1>1. <<a>> \in Seq(Seq(T)) /\ <<a>> # <<>> /\ Len(<<a>>) = 1
  OBVIOUS
<1>2. PICK g : JoinedSoFar(<<a>>, g) /\ FlattenSeq(<<a>>) = g[1]
  BY <1>1, FlattenSteps
<1>3. g[1] = a
  BY <1>1, <1>2 DEF JoinedSoFar
<1>4. QED
  BY <1>2, <1>3

LEMMA FlattenTwo ==
    ASSUME NEW T, NEW a \in Seq(T), NEW b \in Seq(T)
    PROVE  FlattenSeq(<<a, b>>) = a \o b
<1>1. PICK s : s = <<a, b>>
  OBVIOUS
<1>2. s \in Seq(Seq(T)) /\ s # <<>> /\ Len(s) = 2 /\ s[1] = a /\ s[2] = b
  BY <1>1
<1>3. PICK g : JoinedSoFar(s, g) /\ FlattenSeq(s) = g[2]
  BY <1>2, FlattenSteps
<1>4. \A k \in 1 .. 2 : g[k] = IF k = 1 THEN s[1] ELSE g[k - 1] \o s[k]
  BY <1>2, <1>3 DEF JoinedSoFar
<1>5. g[1] = s[1] /\ g[2] = g[1] \o s[2]
  <2>1. g[1] = s[1]
    BY <1>4
  <2>2. ASSUME NEW n \in 1 .. 2, n # 1 PROVE g[n] = g[n - 1] \o s[n]
    BY <1>4, <2>2
  <2>3. PICK n \in 1 .. 2 : n = 2
    OBVIOUS
  <2>4. n # 1 /\ n - 1 = 1
    BY <2>3
  <2>5. g[n] = g[n - 1] \o s[n]
    BY <2>2, <2>4
  <2>6. QED
    BY <2>1, <2>3, <2>4, <2>5
<1>6. QED
  BY <1>1, <1>2, <1>3, <1>5

-----------------------------------------------------------------------------
(* What the log says *)

(* Ends the turn in the frames of the session's own stream. *)
Closes(e) == \/ e.type \in {"TaskCancelled", "TaskCompleted", "TaskFailed", "TaskRewound"}
             \/ e.type = "TaskSuspended" /\ e.id \notin {"barrier", "question"}
Settles(e) == e.type \in {"UserQuestionAnswered", "UserQuestionWithdrawn"} \/ Closes(e)

(* Among the first n envelopes a turn has been opened that none has closed, *)
(* and a question has been asked that none has settled.                     *)
InTurn(q, n) == \E i \in 1 .. n : q[i].type = "TaskWoken" /\ \A j \in i + 1 .. n : ~Closes(q[j])
Asked(q, n, x) ==
    \E i \in 1 .. n : /\ q[i].type = "UserQuestionRequested" /\ q[i].id = x
                      /\ \A j \in i + 1 .. n : ~Settles(q[j])

(* One question at a time, and a turn fails or is undone with none open. *)
Fits(q, n, e) ==
    /\ e.type \in {"UserQuestionRequested", "TaskFailed", "TaskRewound"} =>
           \A x \in Questions : ~Asked(q, n, x)
    /\ e.type = "UserQuestionRequested" => e.id \in Questions
    /\ e.type \in {"UserQuestionAnswered", "UserQuestionWithdrawn"} =>
           e.id \in Questions /\ Asked(q, n, e.id)
QuestionsInTurn(q) == \A i \in 1 .. Len(q) : Fits(q, i - 1, q[i])

OpenIn(q) ==
    {x \in Questions : /\ \E i \in DOMAIN q : q[i] = Env("UserQuestionRequested", x)
                       /\ ~\E i \in DOMAIN q : q[i] = Env("UserQuestionAnswered", x)
                       /\ ~\E i \in DOMAIN q : q[i] = Env("UserQuestionWithdrawn", x)}

EngineOf(q, t) ==
    /\ q # <<>> /\ q[1].type = "TaskCreated"
    /\ t \in {"idle", "running", "waiting", "over"}
    /\ t \in {"running", "waiting"} <=> InTurn(q, Len(q))
    /\ t = "waiting" <=> \E x \in Questions : Asked(q, Len(q), x)
    /\ t # "over" => \A x \in OpenIn(q) : Asked(q, Len(q), x)
    /\ QuestionsInTurn(q)

-----------------------------------------------------------------------------
LEMMA TurnStep ==
    ASSUME NEW q, NEW n \in Nat, n > 0
    PROVE  InTurn(q, n) <=> q[n].type = "TaskWoken" \/ (InTurn(q, n - 1) /\ ~Closes(q[n]))
<1>1. ASSUME InTurn(q, n) PROVE q[n].type = "TaskWoken" \/ (InTurn(q, n - 1) /\ ~Closes(q[n]))
  <2>1. PICK i \in 1 .. n : q[i].type = "TaskWoken" /\ \A j \in i + 1 .. n : ~Closes(q[j])
    BY <1>1 DEF InTurn
  <2>2. CASE i # n
    <3>1. i \in 1 .. n - 1 /\ n \in i + 1 .. n /\ \A j \in i + 1 .. n - 1 : j \in i + 1 .. n
      BY <2>2
    <3>2. QED
      BY <2>1, <3>1 DEF InTurn
  <2>3. QED
    BY <2>1, <2>2
<1>2. ASSUME q[n].type = "TaskWoken" PROVE InTurn(q, n)
  <2>1. n \in 1 .. n /\ \A j \in n + 1 .. n : FALSE
    OBVIOUS
  <2>2. QED
    BY <1>2, <2>1 DEF InTurn
<1>3. ASSUME InTurn(q, n - 1), ~Closes(q[n]) PROVE InTurn(q, n)
  <2>1. PICK i \in 1 .. n - 1 : q[i].type = "TaskWoken" /\ \A j \in i + 1 .. n - 1 : ~Closes(q[j])
    BY <1>3 DEF InTurn
  <2>2. i \in 1 .. n /\ \A j \in i + 1 .. n : j = n \/ j \in i + 1 .. n - 1
    OBVIOUS
  <2>3. QED
    BY <1>3, <2>1, <2>2 DEF InTurn
<1>4. QED
  BY <1>1, <1>2, <1>3

LEMMA AskedStep ==
    ASSUME NEW q, NEW n \in Nat, n > 0, NEW x
    PROVE  Asked(q, n, x) <=> \/ q[n].type = "UserQuestionRequested" /\ q[n].id = x
                              \/ Asked(q, n - 1, x) /\ ~Settles(q[n])
<1>1. ASSUME Asked(q, n, x)
      PROVE  \/ q[n].type = "UserQuestionRequested" /\ q[n].id = x
             \/ Asked(q, n - 1, x) /\ ~Settles(q[n])
  <2>1. PICK i \in 1 .. n : /\ q[i].type = "UserQuestionRequested" /\ q[i].id = x
                            /\ \A j \in i + 1 .. n : ~Settles(q[j])
    BY <1>1 DEF Asked
  <2>2. CASE i # n
    <3>1. i \in 1 .. n - 1 /\ n \in i + 1 .. n /\ \A j \in i + 1 .. n - 1 : j \in i + 1 .. n
      BY <2>2
    <3>2. QED
      BY <2>1, <3>1 DEF Asked
  <2>3. QED
    BY <2>1, <2>2
<1>2. ASSUME q[n].type = "UserQuestionRequested" /\ q[n].id = x PROVE Asked(q, n, x)
  <2>1. n \in 1 .. n /\ \A j \in n + 1 .. n : FALSE
    OBVIOUS
  <2>2. QED
    BY <1>2, <2>1 DEF Asked
<1>3. ASSUME Asked(q, n - 1, x), ~Settles(q[n]) PROVE Asked(q, n, x)
  <2>1. PICK i \in 1 .. n - 1 : /\ q[i].type = "UserQuestionRequested" /\ q[i].id = x
                                /\ \A j \in i + 1 .. n - 1 : ~Settles(q[j])
    BY <1>3 DEF Asked
  <2>2. i \in 1 .. n /\ \A j \in i + 1 .. n : j = n \/ j \in i + 1 .. n - 1
    OBVIOUS
  <2>3. QED
    BY <1>3, <2>1, <2>2 DEF Asked
<1>4. QED
  BY <1>1, <1>2, <1>3

(* Both look at the first n envelopes only. *)
LEMMA SamePast ==
    ASSUME NEW q, NEW r, NEW n \in Int, \A i \in 1 .. n : r[i] = q[i]
    PROVE  /\ InTurn(r, n) <=> InTurn(q, n)
           /\ \A x : Asked(r, n, x) <=> Asked(q, n, x)
<1>1. \A i \in 1 .. n : \A j \in i + 1 .. n : j \in 1 .. n
  OBVIOUS
<1>2. InTurn(r, n) <=> InTurn(q, n)
  BY <1>1 DEF InTurn
<1>3. ASSUME NEW x PROVE Asked(r, n, x) <=> Asked(q, n, x)
  BY <1>1 DEF Asked
<1>4. QED
  BY <1>2, <1>3

(* Nothing happens over envelopes that open, close, ask and settle nothing. *)
Idles(e) == ~Settles(e) /\ e.type \notin {"TaskWoken", "UserQuestionRequested"}

LEMMA Lull ==
    ASSUME NEW q, NEW m \in Nat, NEW n \in Nat, m <= n, \A i \in m + 1 .. n : Idles(q[i])
    PROVE  /\ InTurn(q, n) <=> InTurn(q, m)
           /\ \A x : Asked(q, n, x) <=> Asked(q, m, x)
<1>1. \A i \in 1 .. n : i \in 1 .. m \/ i \in m + 1 .. n
  OBVIOUS
<1>2. \A i \in 1 .. m : i \in 1 .. n /\ \A j \in i + 1 .. n : j \in i + 1 .. m \/ j \in m + 1 .. n
  OBVIOUS
<1>3. \A i \in 1 .. m : \A j \in i + 1 .. m : j \in i + 1 .. n
  OBVIOUS
<1>4. \A i \in m + 1 .. n : /\ ~Settles(q[i]) /\ ~Closes(q[i]) /\ q[i].type # "TaskWoken"
                            /\ q[i].type # "UserQuestionRequested"
  BY DEF Idles, Settles
<1>5. InTurn(q, n) <=> InTurn(q, m)
  BY <1>1, <1>2, <1>3, <1>4 DEF InTurn
<1>6. ASSUME NEW x PROVE Asked(q, n, x) <=> Asked(q, m, x)
  BY <1>1, <1>2, <1>3, <1>4 DEF Asked
<1>7. QED
  BY <1>5, <1>6

(* One question at a time. *)
LEMMA OneAsked ==
    ASSUME NEW q, QuestionsInTurn(q), NEW n \in 0 .. Len(q), Len(q) \in Nat, NEW x, NEW y, Asked(q, n, x), Asked(q, n, y)
    PROVE  x = y
<1>1. PICK i \in 1 .. n : /\ q[i].type = "UserQuestionRequested" /\ q[i].id = x
                          /\ \A j \in i + 1 .. n : ~Settles(q[j])
  BY DEF Asked
<1>2. PICK k \in 1 .. n : /\ q[k].type = "UserQuestionRequested" /\ q[k].id = y
                          /\ \A j \in k + 1 .. n : ~Settles(q[j])
  BY DEF Asked
<1>3. /\ i \in 1 .. Len(q) /\ k \in 1 .. Len(q) /\ x \in Questions /\ y \in Questions
      /\ ~Asked(q, i - 1, y) /\ ~Asked(q, k - 1, x)
  BY <1>1, <1>2 DEF QuestionsInTurn, Fits
<1>4. CASE i < k
  <2>1. i \in 1 .. k - 1 /\ \A j \in i + 1 .. k - 1 : j \in i + 1 .. n
    BY <1>4
  <2>2. QED
    BY <1>1, <1>3, <2>1 DEF Asked
<1>5. CASE k < i
  <2>1. k \in 1 .. i - 1 /\ \A j \in k + 1 .. i - 1 : j \in k + 1 .. n
    BY <1>5
  <2>2. QED
    BY <1>2, <1>3, <2>1 DEF Asked
<1>6. CASE i = k
  BY <1>1, <1>2, <1>6
<1>7. QED
  BY <1>4, <1>5, <1>6

LEMMA LogGrows ==
    ASSUME NEW q \in Seq(Envelopes), NEW e \in Envelopes
    PROVE  LET r == Append(q, e)
           IN  /\ r \in Seq(Envelopes) /\ Len(r) = Len(q) + 1 /\ r[Len(q) + 1] = e
               /\ \A i \in 1 .. Len(q) : r[i] = q[i]
               /\ \A n \in 0 .. Len(q) : /\ InTurn(r, n) <=> InTurn(q, n)
                                         /\ \A x : Asked(r, n, x) <=> Asked(q, n, x)
               /\ InTurn(r, Len(r)) <=> e.type = "TaskWoken" \/ (InTurn(q, Len(q)) /\ ~Closes(e))
               /\ \A x : Asked(r, Len(r), x) <=> \/ e.type = "UserQuestionRequested" /\ e.id = x
                                                 \/ Asked(q, Len(q), x) /\ ~Settles(e)
               /\ QuestionsInTurn(q) /\ Fits(q, Len(q), e) => QuestionsInTurn(r)
<1>1. PICK r : r = Append(q, e)
  OBVIOUS
<1>2. /\ r \in Seq(Envelopes) /\ Len(q) \in Nat /\ Len(r) = Len(q) + 1 /\ r[Len(q) + 1] = e
      /\ \A i \in 1 .. Len(q) : r[i] = q[i]
  BY <1>1
<1>3. ASSUME NEW n \in 0 .. Len(q)
      PROVE  /\ InTurn(r, n) <=> InTurn(q, n)
             /\ \A x : Asked(r, n, x) <=> Asked(q, n, x)
  <2>1. n \in Int /\ \A i \in 1 .. n : r[i] = q[i]
    BY <1>2
  <2>2. QED
    BY <2>1, SamePast
<1>4. Len(r) \in Nat /\ Len(r) > 0 /\ Len(r) - 1 = Len(q) /\ Len(q) \in 0 .. Len(q)
  BY <1>2
<1>5. InTurn(r, Len(r)) <=> e.type = "TaskWoken" \/ (InTurn(q, Len(q)) /\ ~Closes(e))
  <2>1. InTurn(r, Len(r)) <=> r[Len(r)].type = "TaskWoken" \/ (InTurn(r, Len(r) - 1) /\ ~Closes(r[Len(r)]))
    BY <1>4, TurnStep
  <2>2. QED
    BY <1>2, <1>3, <1>4, <2>1
<1>6. ASSUME NEW x
      PROVE  Asked(r, Len(r), x) <=> \/ e.type = "UserQuestionRequested" /\ e.id = x
                                     \/ Asked(q, Len(q), x) /\ ~Settles(e)
  <2>1. Asked(r, Len(r), x) <=> \/ r[Len(r)].type = "UserQuestionRequested" /\ r[Len(r)].id = x
                                \/ Asked(r, Len(r) - 1, x) /\ ~Settles(r[Len(r)])
    BY <1>4, AskedStep
  <2>2. QED
    BY <1>2, <1>3, <1>4, <2>1
<1>7. ASSUME QuestionsInTurn(q), Fits(q, Len(q), e) PROVE QuestionsInTurn(r)
  <2>1. ASSUME NEW i \in 1 .. Len(r) PROVE Fits(r, i - 1, r[i])
    <3>1. CASE i = Len(q) + 1
      <4>1. i - 1 = Len(q) /\ r[i] = e
        BY <1>2, <3>1
      <4>2. QED
        BY <1>3, <1>4, <1>7, <4>1 DEF Fits
    <3>2. CASE i # Len(q) + 1
      <4>1. i \in 1 .. Len(q) /\ i - 1 \in 0 .. Len(q) /\ r[i] = q[i]
        BY <1>2, <3>2
      <4>2. Fits(q, i - 1, q[i])
        BY <1>7, <4>1 DEF QuestionsInTurn
      <4>3. QED
        BY <1>3, <4>1, <4>2 DEF Fits
    <3>3. QED
      BY <3>1, <3>2
  <2>2. QED
    BY <2>1 DEF QuestionsInTurn
<1>8. QED
  BY <1>1, <1>2, <1>3, <1>5, <1>6, <1>7

-----------------------------------------------------------------------------
(* The engine, one envelope at a time *)

LEMMA OpenMore ==
    ASSUME NEW q \in Seq(Envelopes), NEW e \in Envelopes, NEW x \in OpenIn(Append(q, e))
    PROVE  \/ e.type = "UserQuestionRequested" /\ e.id = x
           \/ /\ x \in OpenIn(q)
              /\ e # Env("UserQuestionAnswered", x) /\ e # Env("UserQuestionWithdrawn", x)
<1>1. PICK r : r = Append(q, e)
  OBVIOUS
<1>2. /\ Len(q) \in Nat /\ DOMAIN r = 1 .. Len(q) + 1 /\ r[Len(q) + 1] = e
      /\ DOMAIN q = 1 .. Len(q) /\ \A i \in 1 .. Len(q) : r[i] = q[i]
  BY <1>1
<1>3. /\ x \in Questions
      /\ ~\E i \in DOMAIN r : r[i] = Env("UserQuestionAnswered", x)
      /\ ~\E i \in DOMAIN r : r[i] = Env("UserQuestionWithdrawn", x)
  BY <1>1 DEF OpenIn
<1>4. PICK i \in DOMAIN r : r[i] = Env("UserQuestionRequested", x)
  BY <1>1 DEF OpenIn
<1>5. \A j \in DOMAIN q : j \in DOMAIN r /\ r[j] = q[j]
  BY <1>2
<1>6. Len(q) + 1 \in DOMAIN r
  BY <1>2
<1>7. e # Env("UserQuestionAnswered", x) /\ e # Env("UserQuestionWithdrawn", x)
  BY <1>2, <1>3, <1>6
<1>8. CASE i = Len(q) + 1
  <2>1. e = Env("UserQuestionRequested", x)
    BY <1>2, <1>4, <1>8
  <2>2. QED
    BY <2>1 DEF Env
<1>9. CASE i # Len(q) + 1
  <2>1. i \in DOMAIN q /\ q[i] = Env("UserQuestionRequested", x)
    BY <1>2, <1>4, <1>9
  <2>2. x \in OpenIn(q)
    BY <1>3, <1>5, <2>1 DEF OpenIn
  <2>3. QED
    BY <1>7, <2>2
<1>10. QED
  BY <1>8, <1>9

LEMMA EngineHead ==
    ASSUME NEW q \in Seq(Envelopes), NEW e \in Envelopes, q # <<>>
    PROVE  Append(q, e) # <<>> /\ Append(q, e)[1] = q[1]
OBVIOUS

LEMMA EnginePlain ==
    ASSUME NEW q \in Seq(Envelopes), NEW e \in Envelopes, NEW t, EngineOf(q, t), Idles(e)
    PROVE  EngineOf(Append(q, e), t)
<1>1. ~Settles(e) /\ ~Closes(e) /\ Fits(q, Len(q), e)
  BY DEF Idles, Settles, Closes, Fits
<1>2. \A x \in OpenIn(Append(q, e)) : x \in OpenIn(q)
  BY OpenMore DEF Idles
<1>3. QED
  BY <1>1, <1>2, LogGrows, EngineHead DEF EngineOf, Idles

LEMMA EngineWake ==
    ASSUME NEW q \in Seq(Envelopes), NEW e \in Envelopes, NEW t \in {"idle", "running"}, EngineOf(q, t),
           e.type = "TaskWoken"
    PROVE  EngineOf(Append(q, e), "running")
<1>1. ~Settles(e) /\ ~Closes(e) /\ Fits(q, Len(q), e)
  BY DEF Settles, Closes, Fits
<1>2. \A x \in OpenIn(Append(q, e)) : x \in OpenIn(q)
  BY OpenMore
<1>3. QED
  BY <1>1, <1>2, LogGrows, EngineHead DEF EngineOf

LEMMA EngineAsks ==
    ASSUME NEW q \in Seq(Envelopes), NEW e \in Envelopes, EngineOf(q, "running"),
           e.type = "UserQuestionRequested", e.id \in Questions
    PROVE  EngineOf(Append(q, e), "waiting")
<1>1. ~Settles(e) /\ ~Closes(e)
  BY DEF Settles, Closes
<1>2. Fits(q, Len(q), e)
  BY DEF Fits, EngineOf
<1>3. OpenIn(q) \subseteq Questions /\ \A x \in OpenIn(Append(q, e)) : x \in OpenIn(q) \/ x = e.id
  BY OpenMore DEF OpenIn
<1>4. QED
  BY <1>1, <1>2, <1>3, LogGrows, EngineHead DEF EngineOf

LEMMA EngineSettles ==
    ASSUME NEW q \in Seq(Envelopes), NEW e \in Envelopes, EngineOf(q, "waiting"),
           NEW x \in OpenIn(q), e \in {Env("UserQuestionAnswered", x), Env("UserQuestionWithdrawn", x)}
    PROVE  EngineOf(Append(q, e), "running")
<1>1. /\ e.type \in {"UserQuestionAnswered", "UserQuestionWithdrawn"} /\ e.id = x
      /\ Settles(e) /\ ~Closes(e)
  BY DEF Settles, Closes, Env
<1>2. Asked(q, Len(q), x) /\ x \in Questions /\ QuestionsInTurn(q)
  BY DEF EngineOf, OpenIn
<1>3. Fits(q, Len(q), e)
  BY <1>1, <1>2 DEF Fits
<1>4. ASSUME NEW y \in OpenIn(Append(q, e)) PROVE FALSE
  <2>1. y \in OpenIn(q) /\ y # x
    BY <1>1, OpenMore
  <2>2. Asked(q, Len(q), y)
    BY <2>1 DEF EngineOf
  <2>3. Len(q) \in 0 .. Len(q) /\ Len(q) \in Nat
    OBVIOUS
  <2>4. QED
    BY <1>2, <2>1, <2>2, <2>3, OneAsked
<1>5. \A y : ~Asked(Append(q, e), Len(Append(q, e)), y)
  BY <1>1, LogGrows
<1>6. InTurn(Append(q, e), Len(Append(q, e)))
  BY <1>1, LogGrows DEF EngineOf
<1>7. QED
  BY <1>3, <1>4, <1>5, <1>6, LogGrows, EngineHead DEF EngineOf

LEMMA EngineCloses ==
    ASSUME NEW q \in Seq(Envelopes), NEW e \in Envelopes, NEW t, NEW u \in {"idle", "over"}, EngineOf(q, t),
           Closes(e), t \in {"running", "idle"} \/ (u = "over" /\ e.type = "TaskCancelled")
    PROVE  EngineOf(Append(q, e), u)
<1>1. Settles(e) /\ e.type \notin {"TaskWoken", "UserQuestionRequested", "UserQuestionAnswered",
                                    "UserQuestionWithdrawn"}
  BY DEF Settles, Closes
<1>2. Fits(q, Len(q), e)
  BY <1>1 DEF EngineOf, Fits
<1>3. \A x \in OpenIn(Append(q, e)) : x \in OpenIn(q)
  BY <1>1, OpenMore
<1>4. OpenIn(q) \subseteq Questions
  BY DEF OpenIn
<1>5. u = "idle" => \A x \in OpenIn(Append(q, e)) : FALSE
  BY <1>3, <1>4 DEF EngineOf
<1>6. ~InTurn(Append(q, e), Len(Append(q, e))) /\ \A x : ~Asked(Append(q, e), Len(Append(q, e)), x)
  BY <1>1, LogGrows
<1>7. QED
  BY <1>2, <1>5, <1>6, LogGrows, EngineHead DEF EngineOf

-----------------------------------------------------------------------------
(* What the frames say *)

Speaks(e, f) ==
    /\ f.type = "turn_started" <=> e.type = "TaskWoken"
    /\ f.type = "question" <=> e.type = "UserQuestionRequested"
    /\ f.type = "question_answered" <=> e.type = "UserQuestionAnswered"
    /\ f.type = "question_withdrawn" <=> e.type = "UserQuestionWithdrawn"
    /\ f.type \in {"question", "question_answered", "question_withdrawn"} => f.id = e.id
    /\ f.type = "rewind" <=> e.type = "TaskRewound"
    /\ f.type = "error" => e.type = "TaskFailed"
    /\ f.type \in {"turn_finished", "error", "rewind"} <=> Closes(e)
    /\ e.type = "TaskCancelled" => f.type = "turn_finished" /\ f.id = "cancelled"

(* One frame of its own, or two for a failure, or none and nothing happened. *)
Rendered(e, s, p) ==
    \/ p = <<>> /\ Idles(e)
    \/ \E g \in Frames : p = <<g>> /\ g.seq = s /\ Speaks(e, g)
    \/ /\ e.type = "TaskFailed"
       /\ \E g, h \in Frames : /\ p = <<g, h>> /\ g.seq = s /\ h.seq = s /\ Speaks(e, g) /\ Speaks(e, h)
                               /\ g.type = "error" /\ h.type = "turn_finished"

LEMMA Vocabulary ==
    /\ DOMAIN FrameType = {"UserMessage", "AssistantMessage", "ToolCallStarted", "ToolResultRecorded",
           "TaskStatePatched", "UserQuestionRequested", "UserQuestionAnswered", "UserQuestionWithdrawn",
           "SubtaskSpawned", "SubtaskCompleted", "TaskWoken"}
    /\ FrameType["UserMessage"] = "user_message"
    /\ FrameType["AssistantMessage"] = "append"
    /\ FrameType["ToolCallStarted"] = "tool_call"
    /\ FrameType["ToolResultRecorded"] = "tool_result"
    /\ FrameType["TaskStatePatched"] = "todo_update"
    /\ FrameType["UserQuestionRequested"] = "question"
    /\ FrameType["UserQuestionAnswered"] = "question_answered"
    /\ FrameType["UserQuestionWithdrawn"] = "question_withdrawn"
    /\ FrameType["SubtaskSpawned"] = "subtask_started"
    /\ FrameType["SubtaskCompleted"] = "subtask_finished"
    /\ FrameType["TaskWoken"] = "turn_started"
BY DEF FrameType

LEMMA RootFrames ==
    ASSUME NEW e \in Envelopes, NEW s \in Int
    PROVE  Rendered(e, s, TranslateRoot(e, s))
<1>0. e.type \in EnvelopeTypes /\ e.id \in Ids /\ e.at \in Int /\ {None, "cancelled", "failed", "completed"} \subseteq Ids
  BY DEF Envelopes, Ids, Words
<1>1. ASSUME NEW t \in FrameTypes, NEW x \in Ids
      PROVE  /\ Frame(s, t, x, None) \in Frames /\ Frame(s, t, x, None).seq = s
             /\ Frame(s, t, x, None).type = t /\ Frame(s, t, x, None).id = x
  BY <1>0 DEF Frame, Frames
<1>2. CASE e.type = "TaskSuspended"
  <2>1. CASE e.id \in {"barrier", "question"}
    <3>1. TranslateRoot(e, s) = <<>>
      BY <1>2, <2>1 DEF TranslateRoot, FromSuspend
    <3>2. Idles(e)
      BY <1>2, <2>1 DEF Idles, Settles, Closes
    <3>3. QED
      BY <3>1, <3>2 DEF Rendered
  <2>2. CASE e.id \notin {"barrier", "question"}
    <3>1. TranslateRoot(e, s) = <<Frame(s, "turn_finished", e.id, None)>>
      BY <1>2, <2>2 DEF TranslateRoot, FromSuspend
    <3>2. Speaks(e, Frame(s, "turn_finished", e.id, None))
      BY <1>0, <1>1, <1>2, <2>2 DEF Speaks, Closes, FrameTypes
    <3>3. QED
      BY <1>0, <1>1, <3>1, <3>2 DEF Rendered, FrameTypes
  <2>3. QED
    BY <2>1, <2>2
<1>3. CASE e.type = "TaskCancelled"
  <2>1. TranslateRoot(e, s) = <<Frame(s, "turn_finished", "cancelled", None)>>
    BY <1>3 DEF TranslateRoot
  <2>2. Speaks(e, Frame(s, "turn_finished", "cancelled", None))
    BY <1>0, <1>1, <1>3 DEF Speaks, Closes, FrameTypes
  <2>3. QED
    BY <1>0, <1>1, <2>1, <2>2 DEF Rendered, FrameTypes
<1>4. CASE e.type = "TaskCompleted"
  <2>1. TranslateRoot(e, s) = <<Frame(s, "turn_finished", "completed", None)>>
    BY <1>4 DEF TranslateRoot
  <2>2. Speaks(e, Frame(s, "turn_finished", "completed", None))
    BY <1>0, <1>1, <1>4 DEF Speaks, Closes, FrameTypes
  <2>3. QED
    BY <1>0, <1>1, <2>1, <2>2 DEF Rendered, FrameTypes
<1>5. CASE e.type = "TaskFailed"
  <2>1. TranslateRoot(e, s) = <<Frame(s, "error", None, None), Frame(s, "turn_finished", "failed", None)>>
    BY <1>5 DEF TranslateRoot
  <2>2. Speaks(e, Frame(s, "error", None, None)) /\ Speaks(e, Frame(s, "turn_finished", "failed", None))
    BY <1>0, <1>1, <1>5 DEF Speaks, Closes, FrameTypes
  <2>3. QED
    BY <1>0, <1>1, <1>5, <2>1, <2>2 DEF Rendered, FrameTypes
<1>6. CASE e.type = "TaskRewound"
  <2>1. PICK g : g = [Frame(s, "rewind", None, None) EXCEPT !.at = e.at]
    OBVIOUS
  <2>2. TranslateRoot(e, s) = <<g>>
    BY <1>6, <2>1 DEF TranslateRoot
  <2>3. g \in Frames /\ g.seq = s /\ g.type = "rewind"
    BY <1>0, <2>1 DEF Frame, Frames, FrameTypes
  <2>4. Speaks(e, g)
    BY <1>6, <2>3 DEF Speaks, Closes
  <2>5. QED
    BY <2>2, <2>3, <2>4 DEF Rendered
<1>7. CASE e.type \in DOMAIN FrameType
  <2>0. PICK t : t = FrameType[e.type]
    OBVIOUS
  <2>1. TranslateRoot(e, s) = <<Frame(s, t, e.id, None)>>
    BY <1>7, <2>0, Vocabulary DEF TranslateRoot
  <2>2. /\ t \in FrameTypes \ {"turn_finished", "error", "rewind"}
        /\ t = "turn_started" <=> e.type = "TaskWoken"
        /\ t = "question" <=> e.type = "UserQuestionRequested"
        /\ t = "question_answered" <=> e.type = "UserQuestionAnswered"
        /\ t = "question_withdrawn" <=> e.type = "UserQuestionWithdrawn"
    BY <1>7, <2>0, Vocabulary DEF FrameTypes
  <2>3. e.type \notin {"TaskCancelled", "TaskCompleted", "TaskFailed", "TaskRewound", "TaskSuspended"}
    BY <1>7, Vocabulary
  <2>4. Speaks(e, Frame(s, t, e.id, None))
    BY <1>0, <1>1, <2>2, <2>3 DEF Speaks, Closes
  <2>5. QED
    BY <1>0, <1>1, <2>1, <2>2, <2>4 DEF Rendered
<1>8. CASE e.type = "TaskCreated"
  <2>1. TranslateRoot(e, s) = <<>>
    BY <1>8, Vocabulary DEF TranslateRoot
  <2>2. Idles(e)
    BY <1>8 DEF Idles, Settles, Closes
  <2>3. QED
    BY <2>1, <2>2 DEF Rendered
<1>9. QED
  BY <1>0, <1>2, <1>3, <1>4, <1>5, <1>6, <1>7, <1>8, Vocabulary DEF EnvelopeTypes

LEMMA RenderedFacts ==
    ASSUME NEW e \in Envelopes, NEW s \in Int, NEW p, Rendered(e, s, p)
    PROVE  /\ p \in Seq(Frames)
           /\ \A f \in ToSet(p) : f \in Frames /\ f.seq = s /\ Speaks(e, f)
           /\ ToSet(p) = {} => Idles(e)
           /\ \A j, k \in DOMAIN p : j < k => /\ e.type = "TaskFailed"
                                              /\ p[j].type = "error" /\ p[k].type = "turn_finished"
<1>1. CASE p = <<>> /\ Idles(e)
  BY <1>1 DEF ToSet
<1>2. ASSUME NEW g \in Frames, p = <<g>> /\ g.seq = s /\ Speaks(e, g)
      PROVE  /\ p \in Seq(Frames)
             /\ \A f \in ToSet(p) : f \in Frames /\ f.seq = s /\ Speaks(e, f)
             /\ ToSet(p) # {}
             /\ \A j, k \in DOMAIN p : ~(j < k)
  <2>1. DOMAIN p = {1} /\ p[1] = g /\ p \in Seq(Frames)
    BY <1>2
  <2>2. ToSet(p) = {g}
    BY <2>1 DEF ToSet
  <2>3. QED
    BY <1>2, <2>1, <2>2
<1>3. ASSUME NEW g \in Frames, NEW h \in Frames, e.type = "TaskFailed", p = <<g, h>>, g.seq = s /\ h.seq = s,
             Speaks(e, g) /\ Speaks(e, h), g.type = "error" /\ h.type = "turn_finished"
      PROVE  /\ p \in Seq(Frames)
             /\ \A f \in ToSet(p) : f \in Frames /\ f.seq = s /\ Speaks(e, f)
             /\ ToSet(p) # {}
             /\ \A j, k \in DOMAIN p : j < k => p[j].type = "error" /\ p[k].type = "turn_finished"
  <2>1. DOMAIN p = {1, 2} /\ p[1] = g /\ p[2] = h /\ p \in Seq(Frames)
    BY <1>3
  <2>2. ToSet(p) = {g, h}
    BY <2>1 DEF ToSet
  <2>3. \A j, k \in DOMAIN p : j < k => j = 1 /\ k = 2
    BY <2>1
  <2>4. QED
    BY <1>3, <2>1, <2>2, <2>3
<1>4. QED
  BY <1>1, <1>2, <1>3 DEF Rendered

-----------------------------------------------------------------------------
(* What is on the way *)

FramesOf(q, s) == ToSet(TranslateRoot(q[s + 1], s))

(* Frames come in the order of the log, and a failure before its end of turn. *)
Ordered(p) ==
    \A j, k \in DOMAIN p : j < k /\ p[j].seq # NoSeq /\ p[k].seq # NoSeq =>
        \/ p[j].seq < p[k].seq
        \/ p[j].seq = p[k].seq /\ p[j].type = "error" /\ p[k].type = "turn_finished"

(* A frame with a seq is one of its envelope's, and new to the fold, but for *)
(* the second frame of a failure.                                            *)
GenuineFrame(q, f, c) ==
    f.seq # NoSeq =>
        /\ f.seq \in 0 .. Len(q) - 1 /\ f.seq >= c
        /\ f \in FramesOf(q, f.seq)
        /\ f.seq = c => f.type = "turn_finished" /\ q[c + 1].type = "TaskFailed"
Genuine(q, p, c) == \A k \in DOMAIN p : GenuineFrame(q, p[k], c)

(* Nothing past the cursor is missing. *)
Complete(q, p, c) == \A s \in c + 1 .. Len(q) - 1 : FramesOf(q, s) \subseteq ToSet(p)

(* A frame without a seq opens a turn only for a send on its way, or with    *)
(* the durable frame behind it; it ends one only for a refused send.         *)
AsideTypes == {"append", "tool_call", "tool_result", "subtask_finished", "turn_started", "error",
               "turn_finished"}
Aside(p, k, refd, stage) ==
    p[k].seq = NoSeq =>
        /\ p[k].type \in AsideTypes
        /\ p[k].type \in {"error", "turn_finished"} => refd
        /\ p[k].type = "turn_started" =>
               \/ refd \/ stage = "drive"
               \/ \E j \in DOMAIN p : j > k /\ p[j].seq # NoSeq /\ p[j].type = "turn_started"
Asides(p, refd, stage) == \A k \in DOMAIN p : Aside(p, k, refd, stage)

PipeOf(q, p, c, on, refd, stage) ==
    /\ Ordered(p) /\ Genuine(q, p, c) /\ Asides(p, refd, stage)
    /\ on => Complete(q, p, c)
    /\ ~on => p = <<>>

-----------------------------------------------------------------------------
LEMMA Concat ==
    ASSUME NEW T, NEW p \in Seq(T), NEW a \in Seq(T)
    PROVE  /\ p \o a \in Seq(T) /\ Len(p) \in Nat /\ DOMAIN p = 1 .. Len(p)
           /\ \A k \in DOMAIN (p \o a) :
                  \/ k \in DOMAIN p /\ (p \o a)[k] = p[k]
                  \/ \E i \in DOMAIN a : k = Len(p) + i /\ (p \o a)[k] = a[i]
           /\ \A k \in DOMAIN p : k \in DOMAIN (p \o a) /\ (p \o a)[k] = p[k]
           /\ \A i \in DOMAIN a : i \in Nat /\ Len(p) + i \in DOMAIN (p \o a) /\ (p \o a)[Len(p) + i] = a[i]
<1>1. PICK s : s = p \o a
  OBVIOUS
<1>2. /\ s \in Seq(T) /\ Len(p) \in Nat /\ Len(a) \in Nat /\ DOMAIN s = 1 .. Len(p) + Len(a)
      /\ DOMAIN p = 1 .. Len(p) /\ DOMAIN a = 1 .. Len(a)
      /\ \A k \in 1 .. Len(p) : s[k] = p[k]
      /\ \A i \in 1 .. Len(a) : s[Len(p) + i] = a[i]
  BY <1>1
<1>3. ASSUME NEW k \in DOMAIN s
      PROVE  \/ k \in DOMAIN p /\ s[k] = p[k]
             \/ \E i \in DOMAIN a : k = Len(p) + i /\ s[k] = a[i]
  <2>1. CASE k <= Len(p)
    BY <1>2, <2>1
  <2>2. CASE ~(k <= Len(p))
    <3>1. k - Len(p) \in DOMAIN a /\ k = Len(p) + (k - Len(p))
      BY <1>2, <2>2
    <3>2. QED
      BY <1>2, <3>1
  <2>3. QED
    BY <2>1, <2>2
<1>4. \A k \in DOMAIN p : k \in DOMAIN s /\ s[k] = p[k]
  BY <1>2
<1>5. \A i \in DOMAIN a : i \in Nat /\ Len(p) + i \in DOMAIN s /\ s[Len(p) + i] = a[i]
  BY <1>2
<1>6. QED
  BY <1>1, <1>2, <1>3, <1>4, <1>5

LEMMA OrderedConcat ==
    ASSUME NEW p \in Seq(Frames), NEW a \in Seq(Frames), Ordered(p), Ordered(a),
           \A j \in DOMAIN p, k \in DOMAIN a :
               p[j].seq # NoSeq /\ a[k].seq # NoSeq => p[j].seq < a[k].seq
    PROVE  Ordered(p \o a)
<1>1. PICK s : s = p \o a
  OBVIOUS
<1>2. /\ Len(p) \in Nat /\ DOMAIN p = 1 .. Len(p)
      /\ \A k \in DOMAIN s : \/ k \in DOMAIN p /\ s[k] = p[k]
                             \/ \E i \in DOMAIN a : k = Len(p) + i /\ s[k] = a[i]
      /\ \A i \in DOMAIN a : i \in Nat /\ i > 0
  BY <1>1, Concat
<1>3. ASSUME NEW j \in DOMAIN s, NEW k \in DOMAIN s, j < k, s[j].seq # NoSeq, s[k].seq # NoSeq
      PROVE  \/ s[j].seq < s[k].seq
             \/ s[j].seq = s[k].seq /\ s[j].type = "error" /\ s[k].type = "turn_finished"
  <2>1. CASE j \in DOMAIN p /\ k \in DOMAIN p
    <3>1. s[j] = p[j] /\ s[k] = p[k]
      BY <1>2, <2>1
    <3>2. QED
      BY <1>3, <2>1, <3>1 DEF Ordered
  <2>2. CASE k \notin DOMAIN p
    <3>1. PICK i \in DOMAIN a : k = Len(p) + i /\ s[k] = a[i]
      BY <1>2, <2>2
    <3>2. CASE j \in DOMAIN p
      <4>1. s[j] = p[j]
        BY <1>2, <3>2
      <4>2. QED
        BY <1>3, <3>1, <3>2, <4>1
    <3>3. CASE j \notin DOMAIN p
      <4>1. PICK h \in DOMAIN a : j = Len(p) + h /\ s[j] = a[h]
        BY <1>2, <3>3
      <4>2. h < i
        BY <1>2, <1>3, <3>1, <4>1
      <4>3. QED
        BY <1>3, <3>1, <4>1, <4>2 DEF Ordered
    <3>4. QED
      BY <3>2, <3>3
  <2>3. CASE k \in DOMAIN p /\ j \notin DOMAIN p
    <3>1. PICK h \in DOMAIN a : j = Len(p) + h
      BY <1>2, <2>3
    <3>2. QED
      BY <1>2, <1>3, <2>3, <3>1
  <2>4. QED
    BY <2>1, <2>2, <2>3
<1>4. QED
  BY <1>1, <1>3 DEF Ordered

LEMMA GenuineConcat ==
    ASSUME NEW p \in Seq(Frames), NEW a \in Seq(Frames), NEW q, NEW c, Genuine(q, p, c), Genuine(q, a, c)
    PROVE  Genuine(q, p \o a, c)
BY Concat DEF Genuine

LEMMA MembersConcat ==
    ASSUME NEW T, NEW p \in Seq(T), NEW a \in Seq(T)
    PROVE  ToSet(p) \subseteq ToSet(p \o a) /\ ToSet(a) \subseteq ToSet(p \o a)
<1>1. ASSUME NEW k \in DOMAIN p PROVE p[k] \in ToSet(p \o a)
  BY Concat DEF ToSet
<1>2. ASSUME NEW k \in DOMAIN a PROVE a[k] \in ToSet(p \o a)
  <2>1. Len(p) + k \in DOMAIN (p \o a) /\ (p \o a)[Len(p) + k] = a[k]
    BY Concat
  <2>2. QED
    BY <2>1 DEF ToSet
<1>3. QED
  BY <1>1, <1>2 DEF ToSet

LEMMA AsidesConcat ==
    ASSUME NEW p \in Seq(Frames), NEW a \in Seq(Frames), NEW refd, NEW stage,
           Asides(p, refd, stage), Asides(a, refd, stage)
    PROVE  Asides(p \o a, refd, stage)
<1>1. PICK s : s = p \o a
  OBVIOUS
<1>2. /\ Len(p) \in Nat /\ DOMAIN p = 1 .. Len(p)
      /\ \A k \in DOMAIN s : \/ k \in DOMAIN p /\ s[k] = p[k]
                             \/ \E i \in DOMAIN a : k = Len(p) + i /\ s[k] = a[i]
      /\ \A k \in DOMAIN p : k \in DOMAIN s /\ s[k] = p[k]
      /\ \A i \in DOMAIN a : i \in Nat /\ Len(p) + i \in DOMAIN s /\ s[Len(p) + i] = a[i]
  BY <1>1, Concat
<1>3. ASSUME NEW k \in DOMAIN p PROVE Aside(s, k, refd, stage)
  <2>1. Aside(p, k, refd, stage) /\ s[k] = p[k]
    BY <1>2 DEF Asides
  <2>2. \A j \in DOMAIN p : j \in DOMAIN s /\ s[j] = p[j]
    BY <1>2
  <2>3. QED
    BY <2>1, <2>2 DEF Aside
<1>4. ASSUME NEW i \in DOMAIN a PROVE Aside(s, Len(p) + i, refd, stage)
  <2>1. Aside(a, i, refd, stage) /\ s[Len(p) + i] = a[i]
    BY <1>2 DEF Asides
  <2>2. \A j \in DOMAIN a : j > i => /\ Len(p) + j \in DOMAIN s /\ s[Len(p) + j] = a[j]
                                     /\ Len(p) + j > Len(p) + i
    BY <1>2
  <2>3. QED
    BY <2>1, <2>2 DEF Aside
<1>5. \A k \in DOMAIN s : Aside(s, k, refd, stage)
  BY <1>2, <1>3, <1>4
<1>6. QED
  BY <1>1, <1>5 DEF Asides

(* The hub fans an envelope out behind what is already on the way. *)
LEMMA Fanned ==
    ASSUME NEW q \in Seq(Envelopes), NEW e \in Envelopes, NEW p \in Seq(Frames), NEW c \in -1 .. Len(q) - 1,
           NEW on, NEW refd, NEW stage, PipeOf(q, p, c, on, refd, stage)
    PROVE  /\ TranslateRoot(e, Len(q)) \in Seq(Frames)
           /\ on => /\ p \o TranslateRoot(e, Len(q)) \in Seq(Frames)
                    /\ PipeOf(Append(q, e), p \o TranslateRoot(e, Len(q)), c, on, refd, stage)
           /\ ~on => PipeOf(Append(q, e), p, c, on, refd, stage)
<1>1. PICK r, a : r = Append(q, e) /\ a = TranslateRoot(e, Len(q))
  OBVIOUS
<1>2. /\ Len(q) \in Nat /\ Len(r) = Len(q) + 1 /\ r[Len(q) + 1] = e /\ \A i \in 1 .. Len(q) : r[i] = q[i]
  BY <1>1
<1>3. /\ a \in Seq(Frames)
      /\ \A f \in ToSet(a) : f \in Frames /\ f.seq = Len(q)
      /\ \A j, k \in DOMAIN a : j < k => a[j].type = "error" /\ a[k].type = "turn_finished"
  <2>1. Rendered(e, Len(q), a) /\ Len(q) \in Int
    BY <1>1, <1>2, RootFrames
  <2>2. QED
    BY <2>1, RenderedFacts
<1>4. \A k \in DOMAIN a : a[k] \in ToSet(a) /\ a[k].seq = Len(q) /\ a[k].seq # NoSeq
  BY <1>2, <1>3 DEF ToSet, NoSeq
<1>5. \A s \in 0 .. Len(q) - 1 : FramesOf(r, s) = FramesOf(q, s)
  <2> TAKE s \in 0 .. Len(q) - 1
  <2>1. s + 1 \in 1 .. Len(q)
    BY <1>2
  <2>2. QED
    BY <1>2, <2>1 DEF FramesOf
<1>6. FramesOf(r, Len(q)) = ToSet(a)
  BY <1>1, <1>2 DEF FramesOf
<1>7. Genuine(r, p, c)
  <2> SUFFICES ASSUME NEW k \in DOMAIN p, p[k].seq # NoSeq PROVE GenuineFrame(r, p[k], c)
    BY DEF Genuine, GenuineFrame
  <2>1. GenuineFrame(q, p[k], c)
    BY DEF PipeOf, Genuine
  <2>2. p[k].seq \in 0 .. Len(q) - 1 /\ p[k].seq \in 0 .. Len(r) - 1
    BY <1>2, <2>1 DEF GenuineFrame
  <2>3. p[k].seq = c => c + 1 \in 1 .. Len(q)
    BY <1>2, <2>2
  <2>4. QED
    BY <1>2, <1>5, <2>1, <2>2, <2>3 DEF GenuineFrame
<1>8. Genuine(r, a, c)
  <2> SUFFICES ASSUME NEW k \in DOMAIN a PROVE GenuineFrame(r, a[k], c)
    BY DEF Genuine
  <2>1. a[k].seq \in 0 .. Len(r) - 1 /\ a[k].seq >= c /\ a[k].seq # c
    BY <1>2, <1>4
  <2>2. QED
    BY <1>4, <1>6, <2>1 DEF GenuineFrame
<1>9. ASSUME on PROVE p \o a \in Seq(Frames) /\ PipeOf(r, p \o a, c, on, refd, stage)
  <2>1. Ordered(a)
    BY <1>3, <1>4 DEF Ordered
  <2>2. \A j \in DOMAIN p, k \in DOMAIN a : p[j].seq # NoSeq /\ a[k].seq # NoSeq => p[j].seq < a[k].seq
    BY <1>2, <1>4 DEF PipeOf, Genuine, GenuineFrame
  <2>3. Ordered(p \o a)
    BY <1>3, <2>1, <2>2, OrderedConcat DEF PipeOf
  <2>4. Asides(a, refd, stage)
    BY <1>4 DEF Asides, Aside
  <2>5. Asides(p \o a, refd, stage)
    BY <1>3, <2>4, AsidesConcat DEF PipeOf
  <2>6. Genuine(r, p \o a, c)
    BY <1>3, <1>7, <1>8, GenuineConcat
  <2>7. Complete(r, p \o a, c)
    <3> SUFFICES ASSUME NEW s \in c + 1 .. Len(r) - 1 PROVE FramesOf(r, s) \subseteq ToSet(p \o a)
      BY DEF Complete
    <3>1. ToSet(p) \subseteq ToSet(p \o a) /\ ToSet(a) \subseteq ToSet(p \o a)
      BY <1>3, MembersConcat
    <3>2. CASE s = Len(q)
      BY <1>6, <3>1, <3>2
    <3>3. CASE s # Len(q)
      <4>1. s \in c + 1 .. Len(q) - 1 /\ s \in 0 .. Len(q) - 1
        BY <1>2, <3>3
      <4>2. FramesOf(q, s) \subseteq ToSet(p)
        BY <1>9, <4>1 DEF PipeOf, Complete
      <4>3. QED
        BY <1>5, <3>1, <4>1, <4>2
    <3>4. QED
      BY <3>2, <3>3
  <2>8. p \o a \in Seq(Frames)
    BY <1>3, Concat
  <2>9. QED
    BY <1>9, <2>3, <2>5, <2>6, <2>7, <2>8 DEF PipeOf
<1>10. ASSUME ~on PROVE PipeOf(r, p, c, on, refd, stage)
  BY <1>7, <1>10 DEF PipeOf
<1>11. QED
  BY <1>1, <1>3, <1>9, <1>10

(* Frames without a seq go out behind what is already on the way. *)
LEMMA Pushed ==
    ASSUME NEW q, NEW p \in Seq(Frames), NEW a \in Seq(Frames), NEW c,
           NEW on, NEW refd, NEW stage, NEW refd1, NEW stage1,
           PipeOf(q, p, c, on, refd, stage), \A k \in DOMAIN a : a[k].seq = NoSeq,
           Asides(p, refd, stage) => Asides(p, refd1, stage1), Asides(a, refd1, stage1)
    PROVE  /\ on => PipeOf(q, p \o a, c, on, refd1, stage1)
           /\ ~on => PipeOf(q, p, c, on, refd1, stage1)
<1>1. Ordered(a)
  BY DEF Ordered
<1>2. Ordered(p \o a)
  BY <1>1, OrderedConcat DEF PipeOf
<1>3. Genuine(q, a, c)
  BY DEF Genuine, GenuineFrame
<1>4. Genuine(q, p \o a, c)
  BY <1>3, GenuineConcat DEF PipeOf
<1>5. Asides(p \o a, refd1, stage1)
  BY AsidesConcat DEF PipeOf
<1>6. on => Complete(q, p \o a, c)
  <2>1. ToSet(p) \subseteq ToSet(p \o a)
    BY MembersConcat
  <2>2. QED
    BY <2>1 DEF PipeOf, Complete
<1>7. QED
  BY <1>2, <1>4, <1>5, <1>6 DEF PipeOf

-----------------------------------------------------------------------------
(* A replay *)

SubTypes == {"tool_call", "tool_result", "subtask_finished"}

LEMMA SubFrames ==
    ASSUME NEW e \in Envelopes, NEW sub \in Subtasks
    PROVE  /\ TranslateSubtask(e, sub) \in Seq(Frames)
           /\ \A f \in ToSet(TranslateSubtask(e, sub)) : f.seq = NoSeq /\ f.type \in SubTypes
<1>0. e.id \in Ids /\ sub \in Ids /\ {None, "cancelled"} \subseteq Ids
  BY DEF Envelopes, Ids, Words
<1>1. ASSUME NEW t \in SubTypes, NEW x \in Ids, NEW y \in Ids
      PROVE  /\ <<Frame(NoSeq, t, x, y)>> \in Seq(Frames)
             /\ \A f \in ToSet(<<Frame(NoSeq, t, x, y)>>) : f.seq = NoSeq /\ f.type \in SubTypes
  <2>1. PICK g : g = Frame(NoSeq, t, x, y)
    OBVIOUS
  <2>2. g \in Frames /\ g.seq = NoSeq /\ g.type = t
    BY <2>1 DEF Frame, Frames, FrameTypes, SubTypes, NoSeq
  <2>3. DOMAIN <<g>> = {1} /\ <<g>>[1] = g /\ <<g>> \in Seq(Frames)
    BY <2>2
  <2>4. ToSet(<<g>>) = {g}
    BY <2>3 DEF ToSet
  <2>5. QED
    BY <2>1, <2>2, <2>3, <2>4
<1>2. CASE e.type = "TaskCancelled"
  <2>1. TranslateSubtask(e, sub) = <<Frame(NoSeq, "subtask_finished", sub, "cancelled")>>
    BY <1>2 DEF TranslateSubtask
  <2>2. QED
    BY <1>0, <1>1, <2>1 DEF SubTypes
<1>3. CASE e.type \in {"ToolCallStarted", "ToolResultRecorded"}
  <2>1. TranslateSubtask(e, sub) = <<Frame(NoSeq, FrameType[e.type], e.id, sub)>>
    BY <1>3 DEF TranslateSubtask
  <2>2. FrameType[e.type] \in SubTypes
    BY <1>3, Vocabulary DEF SubTypes
  <2>3. QED
    BY <1>0, <1>1, <2>1, <2>2
<1>4. CASE e.type \notin {"TaskCancelled", "ToolCallStarted", "ToolResultRecorded"}
  <2>1. TranslateSubtask(e, sub) = <<>>
    BY <1>4 DEF TranslateSubtask
  <2>2. <<>> \in Seq(Frames) /\ ToSet(<<>>) = {}
    BY DEF ToSet
  <2>3. QED
    BY <2>1, <2>2
<1>5. QED
  BY <1>2, <1>3, <1>4

LEMMA SubReplay ==
    ASSUME sublog \in [Subtasks -> Seq(Envelopes)], NEW sub \in Subtasks
    PROVE  /\ ReplaySubtask(sub) \in Seq(Frames)
           /\ \A f \in ToSet(ReplaySubtask(sub)) : f.seq = NoSeq /\ f.type \in SubTypes
<1>1. PICK q : q = sublog[sub]
  OBVIOUS
<1>2. q \in Seq(Envelopes) /\ DOMAIN q = 1 .. Len(q) /\ Len(q) \in Nat /\ \A i \in DOMAIN q : q[i] \in Envelopes
  BY <1>1
<1>3. PICK ss : ss = [i \in DOMAIN q |-> TranslateSubtask(q[i], sub)]
  OBVIOUS
<1>4. \A i \in DOMAIN q : /\ ss[i] = TranslateSubtask(q[i], sub) /\ ss[i] \in Seq(Frames)
                          /\ \A f \in ToSet(ss[i]) : f.seq = NoSeq /\ f.type \in SubTypes
  BY <1>2, <1>3, SubFrames
<1>5. ss \in Seq(Seq(Frames)) /\ Len(ss) = Len(q)
  BY <1>2, <1>3, <1>4
<1>6. JoinOf(ss, Len(ss), FlattenSeq(ss), Frames)
  BY <1>5, Flattened
<1>7. ReplaySubtask(sub) = FlattenSeq(ss)
  BY <1>1, <1>3 DEF ReplaySubtask
<1>8. PICK s : s = FlattenSeq(ss)
  OBVIOUS
<1>9. s \in Seq(Frames) /\ \A i \in DOMAIN s : \E a \in 1 .. Len(ss) : s[i] \in ToSet(ss[a])
  BY <1>6, <1>8 DEF JoinOf
<1>10. \A i \in DOMAIN s : s[i].seq = NoSeq /\ s[i].type \in SubTypes
  BY <1>2, <1>4, <1>5, <1>9
<1>11. \A f \in ToSet(s) : f.seq = NoSeq /\ f.type \in SubTypes
  BY <1>10 DEF ToSet
<1>12. QED
  BY <1>7, <1>8, <1>9, <1>11

(* The frames of one envelope in a replay. *)
Part(q, s, p) ==
    /\ p \in Seq(Frames)
    /\ \A k \in DOMAIN p : /\ p[k].seq # NoSeq => p[k].seq = s /\ p[k] \in FramesOf(q, s)
                           /\ p[k].seq = NoSeq => p[k].type \in SubTypes
    /\ FramesOf(q, s) \subseteq ToSet(p)
    /\ \A j, k \in DOMAIN p : j < k /\ p[j].seq # NoSeq /\ p[k].seq # NoSeq =>
           p[j].type = "error" /\ p[k].type = "turn_finished"

LEMMA EnvelopeReplay ==
    ASSUME log \in Seq(Envelopes), sublog \in [Subtasks -> Seq(Envelopes)], NEW s \in 0 .. Len(log) - 1,
           NEW full
    PROVE  Part(log, s, ReplayEnvelope(s, full))
<1>0. s \in Nat
  OBVIOUS
<1>1. PICK e, a, b : /\ e = log[s + 1] /\ a = TranslateRoot(e, s)
                     /\ b = IF full /\ e.type = "SubtaskSpawned" THEN ReplaySubtask(e.id) ELSE <<>>
  OBVIOUS
<1>2. e \in Envelopes /\ (e.type = "SubtaskSpawned" => e.id \in Subtasks)
  <2>1. s + 1 \in 1 .. Len(log)
    OBVIOUS
  <2>2. e \in Envelopes
    BY <1>1, <2>1
  <2>3. QED
    BY <2>2 DEF Envelopes
<1>3. ReplayEnvelope(s, full) = a \o b
  BY <1>1 DEF ReplayEnvelope
<1>4. /\ a \in Seq(Frames)
      /\ \A f \in ToSet(a) : f \in Frames /\ f.seq = s
      /\ \A j, k \in DOMAIN a : j < k => a[j].type = "error" /\ a[k].type = "turn_finished"
  <2>1. Rendered(e, s, a) /\ s \in Int
    BY <1>1, <1>2, RootFrames
  <2>2. QED
    BY <1>2, <2>1, RenderedFacts
<1>5. b \in Seq(Frames) /\ \A f \in ToSet(b) : f.seq = NoSeq /\ f.type \in SubTypes
  <2>1. CASE full /\ e.type = "SubtaskSpawned"
    BY <1>1, <1>2, <2>1, SubReplay
  <2>2. CASE ~(full /\ e.type = "SubtaskSpawned")
    <3>1. b = <<>>
      BY <1>1, <2>2
    <3>2. <<>> \in Seq(Frames) /\ ToSet(<<>>) = {}
      BY DEF ToSet
    <3>3. QED
      BY <3>1, <3>2
  <2>3. QED
    BY <2>1, <2>2
<1>6. FramesOf(log, s) = ToSet(a)
  BY <1>1 DEF FramesOf
<1>7. \A k \in DOMAIN a : a[k] \in ToSet(a) /\ a[k].seq = s /\ a[k].seq # NoSeq
  BY <1>4 DEF ToSet, NoSeq
<1>8. \A k \in DOMAIN b : b[k].seq = NoSeq /\ b[k].type \in SubTypes
  BY <1>5 DEF ToSet
<1>9. PICK p : p = a \o b
  OBVIOUS
<1>10. /\ p \in Seq(Frames)
       /\ \A k \in DOMAIN p : \/ k \in DOMAIN a /\ p[k] = a[k]
                              \/ \E i \in DOMAIN b : k = Len(a) + i /\ p[k] = b[i]
  BY <1>4, <1>5, <1>9, Concat
<1>11. ToSet(a) \subseteq ToSet(p)
  BY <1>4, <1>5, <1>9, MembersConcat
<1>12. \A k \in DOMAIN p : /\ p[k].seq # NoSeq => k \in DOMAIN a /\ p[k] = a[k]
                           /\ p[k].seq = NoSeq => p[k].type \in SubTypes
  BY <1>7, <1>8, <1>10
<1>13. Part(log, s, p)
  BY <1>4, <1>6, <1>7, <1>10, <1>11, <1>12 DEF Part
<1>14. QED
  BY <1>3, <1>9, <1>13

LEMMA Prefixed ==
    /\ InheritedPrefix \in Seq(Frames)
    /\ \A k \in DOMAIN InheritedPrefix : InheritedPrefix[k].seq = NoSeq /\ InheritedPrefix[k].type = "append"
<1>1. Inherited \in Nat
  BY Bounds
<1>2. PICK g : g = Frame(NoSeq, "append", "inherited", None)
  OBVIOUS
<1>3. g \in Frames /\ g.seq = NoSeq /\ g.type = "append"
  BY <1>2 DEF Frame, Frames, FrameTypes, NoSeq, Ids, Words
<1>4. PICK p : p = [i \in 1 .. Inherited |-> g]
  OBVIOUS
<1>5. p \in Seq(Frames) /\ \A k \in DOMAIN p : p[k] = g
  BY <1>1, <1>3, <1>4
<1>6. InheritedPrefix = p
  BY <1>2, <1>4 DEF InheritedPrefix
<1>7. QED
  BY <1>3, <1>5, <1>6

(* A replay from the fold's cursor is what the cursor has not seen. *)
LEMMA Replayed ==
    ASSUME log \in Seq(Envelopes), log # <<>>, log[1].type = "TaskCreated",
           sublog \in [Subtasks -> Seq(Envelopes)], NEW c \in -1 .. Len(log) - 1, NEW refd, NEW stage
    PROVE  Replay(c) \in Seq(Frames) /\ PipeOf(log, Replay(c), c, TRUE, refd, stage)
<1>0. Len(log) \in Nat /\ Len(log) > 0 /\ c \in Int
  OBVIOUS
<1>1. PICK full, first : full = (c <= 0) /\ first = IF c <= 0 THEN 0 ELSE c + 1
  OBVIOUS
<1>2. PICK pre, ss : /\ pre = IF c <= 0 THEN InheritedPrefix ELSE <<>>
                     /\ ss = [i \in 1 .. Len(log) - first |-> ReplayEnvelope(first + i - 1, full)]
  OBVIOUS
<1>3. Replay(c) = pre \o FlattenSeq(ss)
  <2>1. Replay(c) = (IF c <= 0 THEN InheritedPrefix ELSE <<>>)
                    \o FlattenSeq([i \in 1 .. Len(log) - (IF c <= 0 THEN 0 ELSE c + 1) |->
                                      ReplayEnvelope((IF c <= 0 THEN 0 ELSE c + 1) + i - 1, c <= 0)])
    BY DEF Replay
  <2>2. QED
    BY <1>1, <1>2, <2>1
<1>4. /\ first \in 0 .. Len(log) /\ Len(log) - first \in Nat /\ first >= c
      /\ first = c => c = 0
      /\ \A s \in c + 1 .. Len(log) - 1 : s >= first
  BY <1>0, <1>1
<1>5. PICK n : n = Len(log) - first
  OBVIOUS
<1>6. \A i \in 1 .. n : first + i - 1 \in 0 .. Len(log) - 1 /\ ss[i] = ReplayEnvelope(first + i - 1, full)
  BY <1>0, <1>2, <1>4, <1>5
<1>7. \A i \in 1 .. n : Part(log, first + i - 1, ss[i])
  BY <1>6, EnvelopeReplay
<1>8. \A i \in 1 .. n : ss[i] \in Seq(Frames)
  BY <1>7 DEF Part
<1>9. ss \in Seq(Seq(Frames)) /\ Len(ss) = n /\ n \in Nat
  BY <1>2, <1>4, <1>5, <1>8
<1>10. PICK flat : flat = FlattenSeq(ss)
  OBVIOUS
<1>11. JoinOf(ss, n, flat, Frames)
  BY <1>9, <1>10, Flattened
<1>12. /\ flat \in Seq(Frames)
       /\ \A k \in DOMAIN flat : \E i \in 1 .. n : \E u \in DOMAIN ss[i] : flat[k] = ss[i][u]
       /\ \A i \in 1 .. n : \A x \in ToSet(ss[i]) : x \in ToSet(flat)
       /\ \A j, k \in DOMAIN flat : j < k => Before(ss, n, flat[j], flat[k])
  BY <1>11 DEF JoinOf, ToSet
<1>13. ASSUME NEW k \in DOMAIN flat
       PROVE  /\ GenuineFrame(log, flat[k], c)
              /\ flat[k].seq = NoSeq => flat[k].type \in SubTypes
  <2>1. PICK i \in 1 .. n : \E u \in DOMAIN ss[i] : flat[k] = ss[i][u]
    BY <1>12
  <2>2. PICK u \in DOMAIN ss[i] : flat[k] = ss[i][u]
    BY <2>1
  <2>3. PICK s : s = first + i - 1
    OBVIOUS
  <2>4. s \in 0 .. Len(log) - 1 /\ s >= first /\ Part(log, s, ss[i])
    BY <1>4, <1>6, <1>7, <1>9, <2>3
  <2>5. /\ flat[k].seq # NoSeq => flat[k].seq = s /\ flat[k] \in FramesOf(log, s)
        /\ flat[k].seq = NoSeq => flat[k].type \in SubTypes
    BY <2>2, <2>4 DEF Part
  <2>6. ASSUME flat[k].seq # NoSeq, flat[k].seq = c PROVE FALSE
    <3>1. s = 0 /\ flat[k] \in FramesOf(log, 0)
      BY <1>0, <1>4, <2>4, <2>5, <2>6
    <3>2. log[1] \in Envelopes /\ 0 + 1 = 1
      BY <1>0
    <3>3. TranslateRoot(log[1], 0) = <<>>
      BY Vocabulary DEF TranslateRoot
    <3>4. FramesOf(log, 0) = ToSet(<<>>)
      BY <3>2, <3>3 DEF FramesOf
    <3>5. QED
      BY <3>1, <3>4 DEF ToSet
  <2>7. flat[k].seq # NoSeq => flat[k].seq >= c
    BY <1>0, <1>4, <2>4, <2>5
  <2>8. QED
    BY <2>4, <2>5, <2>6, <2>7 DEF GenuineFrame
<1>14. Genuine(log, flat, c)
  BY <1>13 DEF Genuine
<1>15. Ordered(flat)
  <2> SUFFICES ASSUME NEW j \in DOMAIN flat, NEW k \in DOMAIN flat, j < k, flat[j].seq # NoSeq,
                      flat[k].seq # NoSeq
               PROVE  \/ flat[j].seq < flat[k].seq
                      \/ /\ flat[j].seq = flat[k].seq
                         /\ flat[j].type = "error" /\ flat[k].type = "turn_finished"
    BY DEF Ordered
  <2>1. Before(ss, n, flat[j], flat[k])
    BY <1>12
  <2>2. CASE \E a, b \in 1 .. n : a < b /\ flat[j] \in ToSet(ss[a]) /\ flat[k] \in ToSet(ss[b])
    <3>1. PICK a, b \in 1 .. n : a < b /\ flat[j] \in ToSet(ss[a]) /\ flat[k] \in ToSet(ss[b])
      BY <2>2
    <3>2. flat[j].seq = first + a - 1
      BY <1>7, <3>1 DEF Part, ToSet
    <3>3. flat[k].seq = first + b - 1
      BY <1>7, <3>1 DEF Part, ToSet
    <3>4. first \in Int /\ a \in Int /\ b \in Int
      BY <1>4
    <3>5. QED
      BY <3>1, <3>2, <3>3, <3>4
  <2>3. CASE \E a \in 1 .. n : \E u, v \in DOMAIN ss[a] : u < v /\ flat[j] = ss[a][u] /\ flat[k] = ss[a][v]
    <3>1. PICK a \in 1 .. n : \E u, v \in DOMAIN ss[a] : u < v /\ flat[j] = ss[a][u] /\ flat[k] = ss[a][v]
      BY <2>3
    <3>2. PICK u, v \in DOMAIN ss[a] : u < v /\ flat[j] = ss[a][u] /\ flat[k] = ss[a][v]
      BY <3>1
    <3>3. Part(log, first + a - 1, ss[a])
      BY <1>7
    <3>4. QED
      BY <3>2, <3>3 DEF Part
  <2>4. QED
    BY <2>1, <2>2, <2>3 DEF Before
<1>16. Asides(flat, refd, stage)
  <2>1. \A t \in SubTypes : t \in AsideTypes /\ t \notin {"error", "turn_finished", "turn_started"}
    BY DEF SubTypes, AsideTypes
  <2>2. QED
    BY <1>13, <2>1 DEF Asides, Aside
<1>17. /\ pre \in Seq(Frames)
       /\ \A k \in DOMAIN pre : pre[k].seq = NoSeq /\ pre[k].type = "append"
  <2>1. <<>> \in Seq(Frames) /\ \A k \in DOMAIN <<>> : FALSE
    OBVIOUS
  <2>2. QED
    BY <1>2, <2>1, Prefixed
<1>18. Ordered(pre) /\ Genuine(log, pre, c) /\ Asides(pre, refd, stage)
  BY <1>17 DEF Ordered, Genuine, GenuineFrame, Asides, Aside, AsideTypes
<1>19. Ordered(pre \o flat)
  BY <1>12, <1>15, <1>17, <1>18, OrderedConcat
<1>20. Genuine(log, pre \o flat, c) /\ Asides(pre \o flat, refd, stage) /\ pre \o flat \in Seq(Frames)
  BY <1>12, <1>14, <1>16, <1>17, <1>18, GenuineConcat, AsidesConcat, Concat
<1>21. Complete(log, pre \o flat, c)
  <2> SUFFICES ASSUME NEW s \in c + 1 .. Len(log) - 1 PROVE FramesOf(log, s) \subseteq ToSet(pre \o flat)
    BY DEF Complete
  <2>1. PICK i : i = s - first + 1
    OBVIOUS
  <2>2. i \in 1 .. n /\ first + i - 1 = s
    BY <1>0, <1>4, <1>5, <2>1
  <2>3. FramesOf(log, s) \subseteq ToSet(ss[i])
    BY <1>7, <2>2 DEF Part
  <2>4. ToSet(flat) \subseteq ToSet(pre \o flat)
    BY <1>12, <1>17, MembersConcat
  <2>5. QED
    BY <1>12, <2>2, <2>3, <2>4
<1>22. QED
  BY <1>3, <1>10, <1>19, <1>20, <1>21 DEF PipeOf

-----------------------------------------------------------------------------
(* The conversation *)

ItemKinds == {"user", "append", "step", "todos", "subtask", "question", "error"}
Statuses == {None, "pending", "sent", "running", "success", "failure", "cancelled", "completed",
             "open", "answered", "withdrawn"}
RightItems ==
    {it \in [kind : ItemKinds, key : Int, id : Ids, status : Statuses, sub : Ids, ver : Int] :
        /\ it.status = "running" => it.kind \in {"step", "subtask"}
        /\ it.status = "open" => it.kind = "question"}
Convs == [items : Seq(RightItems), running : BOOLEAN, cursor : Int, question : Ids, outcome : Ids,
          nextKey : {n \in Int : n < 0}, sending : BOOLEAN]

(* An open card is the pending question's, and the last card of its id. *)
OpenCard(it) == it.kind = "question" /\ it.status = "open"
Cards(c) ==
    \A i \in DOMAIN c.items : OpenCard(c.items[i]) =>
        /\ c.question # None /\ c.items[i].id = c.question
        /\ \A j \in DOMAIN c.items : j > i => ~(c.items[j].kind = "question" /\ c.items[j].id = c.question)

(* Nothing of the session's own stream is left running or open. *)
Shut(c) == \A i \in DOMAIN c.items : c.items[i].key >= 0 => c.items[i].status \notin {"running", "open"}

(* The question cards are the same, none of them reopened. *)
SameCards(c, d) ==
    \A i \in DOMAIN d.items : d.items[i].kind = "question" =>
        /\ i \in DOMAIN c.items /\ c.items[i].kind = "question" /\ c.items[i].id = d.items[i].id
        /\ d.items[i].status = "open" => c.items[i].status = "open"

SameBut(c, d) ==
    /\ d \in Convs /\ d.cursor = c.cursor /\ d.running = c.running /\ d.question = c.question
    /\ d.outcome = c.outcome

LEMMA CardsKept ==
    ASSUME NEW c, NEW d, Cards(c), SameCards(c, d), d.question = c.question
    PROVE  Cards(d)
<1> SUFFICES ASSUME NEW i \in DOMAIN d.items, OpenCard(d.items[i])
             PROVE  /\ d.question # None /\ d.items[i].id = d.question
                    /\ \A j \in DOMAIN d.items : j > i =>
                           ~(d.items[j].kind = "question" /\ d.items[j].id = d.question)
  BY DEF Cards
<1>1. i \in DOMAIN c.items /\ OpenCard(c.items[i]) /\ c.items[i].id = d.items[i].id
  BY DEF SameCards, OpenCard
<1>2. /\ c.question # None /\ c.items[i].id = c.question
      /\ \A j \in DOMAIN c.items : j > i => ~(c.items[j].kind = "question" /\ c.items[j].id = c.question)
  BY <1>1 DEF Cards
<1>3. ASSUME NEW j \in DOMAIN d.items, j > i, d.items[j].kind = "question", d.items[j].id = d.question
      PROVE  FALSE
  BY <1>2, <1>3 DEF SameCards
<1>4. QED
  BY <1>1, <1>2, <1>3

LEMMA PushEffect ==
    ASSUME NEW c \in Convs, NEW f \in Frames, NEW kind \in ItemKinds, NEW x \in Ids, NEW status \in Statuses,
           NEW sub \in Ids, status = "running" => kind \in {"step", "subtask"},
           status = "open" => kind = "question"
    PROVE  LET d == Push(c, f, kind, x, status, sub)
           IN  /\ SameBut(c, d)
               /\ Len(d.items) = Len(c.items) + 1
               /\ \A i \in 1 .. Len(c.items) : d.items[i] = c.items[i]
               /\ LET it == d.items[Len(c.items) + 1]
                  IN  it.kind = kind /\ it.id = x /\ it.status = status /\ (f.seq = NoSeq => it.key < 0)
<1>1. PICK it : it = Item(kind, Key(c, f), x, status, sub, 0)
  OBVIOUS
<1>2. PICK d : d = Push(c, f, kind, x, status, sub)
  OBVIOUS
<1>3. d = [c EXCEPT !.items = Append(c.items, it), !.nextKey = NextKey(c, f)]
  BY <1>1, <1>2 DEF Push
<1>4. f.seq \in Int /\ c.nextKey \in Int /\ c.nextKey < 0 /\ c.items \in Seq(RightItems)
  BY DEF Frames, Convs
<1>5. /\ Key(c, f) \in Int /\ (f.seq = NoSeq => Key(c, f) < 0)
      /\ NextKey(c, f) \in Int /\ NextKey(c, f) < 0
  BY <1>4 DEF Key, NextKey, NoSeq
<1>6. /\ it \in RightItems /\ it.kind = kind /\ it.id = x /\ it.status = status
      /\ (f.seq = NoSeq => it.key < 0)
  BY <1>1, <1>5 DEF Item, RightItems
<1>7. PICK s : s = Append(c.items, it)
  OBVIOUS
<1>8. /\ s \in Seq(RightItems) /\ Len(s) = Len(c.items) + 1 /\ s[Len(c.items) + 1] = it
      /\ \A i \in 1 .. Len(c.items) : s[i] = c.items[i]
  BY <1>4, <1>6, <1>7
<1>9. d \in Convs
  BY <1>3, <1>5, <1>7, <1>8 DEF Convs
<1>10. /\ d.items = s /\ d.cursor = c.cursor /\ d.running = c.running /\ d.question = c.question
       /\ d.outcome = c.outcome
  BY <1>3, <1>7 DEF Convs
<1>11. QED
  BY <1>2, <1>6, <1>8, <1>9, <1>10 DEF SameBut

(* A pushed item that is no question's card leaves the cards as they were. *)
LEMMA PushSafe ==
    ASSUME NEW c \in Convs, NEW f \in Frames, NEW kind \in ItemKinds, NEW x \in Ids, NEW status \in Statuses,
           NEW sub \in Ids, status = "running" => kind \in {"step", "subtask"}, status # "open",
           kind # "question"
    PROVE  LET d == Push(c, f, kind, x, status, sub)
           IN  SameBut(c, d) /\ SameCards(c, d) /\ (f.seq = NoSeq /\ Shut(c) => Shut(d))
<1>1. PICK d : d = Push(c, f, kind, x, status, sub)
  OBVIOUS
<1>2. /\ SameBut(c, d) /\ Len(d.items) = Len(c.items) + 1
      /\ \A i \in 1 .. Len(c.items) : d.items[i] = c.items[i]
      /\ d.items[Len(c.items) + 1].kind = kind
      /\ f.seq = NoSeq => d.items[Len(c.items) + 1].key < 0
  BY <1>1, PushEffect
<1>3. c.items \in Seq(RightItems) /\ d.items \in Seq(RightItems)
  BY <1>2 DEF SameBut, Convs
<1>4. /\ DOMAIN c.items = 1 .. Len(c.items)
      /\ \A i \in DOMAIN d.items : i \in 1 .. Len(c.items) \/ i = Len(c.items) + 1
  BY <1>2, <1>3
<1>5. SameCards(c, d)
  BY <1>2, <1>4 DEF SameCards
<1>6. ASSUME f.seq = NoSeq, Shut(c), NEW i \in DOMAIN d.items, d.items[i].key >= 0
      PROVE  d.items[i].status \notin {"running", "open"}
  <2>1. i # Len(c.items) + 1
    <3>1. d.items[i].key \in Int
      BY <1>3 DEF RightItems
    <3>2. QED
      BY <1>2, <1>6, <3>1
  <2>2. i \in DOMAIN c.items /\ d.items[i] = c.items[i]
    BY <1>2, <1>4, <2>1
  <2>3. QED
    BY <1>6, <2>2 DEF Shut
<1>7. QED
  BY <1>1, <1>2, <1>5, <1>6 DEF Shut

LEMMA MarkEffect ==
    ASSUME NEW c \in Convs, NEW hits, NEW status \in Statuses \ {"running", "open"}
    PROVE  LET d == Mark(c, hits, status)
           IN  /\ SameBut(c, d) /\ DOMAIN d.items = DOMAIN c.items /\ d.nextKey = c.nextKey
               /\ \A i \in DOMAIN c.items :
                      /\ d.items[i].kind = c.items[i].kind /\ d.items[i].id = c.items[i].id
                      /\ d.items[i].key = c.items[i].key
                      /\ d.items[i].status = IF i \in hits THEN status ELSE c.items[i].status
               /\ SameCards(c, d)
               /\ Shut(c) => Shut(d)
<1>1. PICK s, d : /\ s = [i \in DOMAIN c.items |->
                             IF i \in hits THEN [c.items[i] EXCEPT !.status = status] ELSE c.items[i]]
                  /\ d = Mark(c, hits, status)
  OBVIOUS
<1>2. d = [c EXCEPT !.items = s]
  BY <1>1 DEF Mark
<1>3. c.items \in Seq(RightItems) /\ DOMAIN c.items = 1 .. Len(c.items) /\ Len(c.items) \in Nat
  BY DEF Convs
<1>4. ASSUME NEW i \in DOMAIN c.items
      PROVE  /\ s[i] \in RightItems
             /\ s[i].kind = c.items[i].kind /\ s[i].id = c.items[i].id /\ s[i].key = c.items[i].key
             /\ s[i].status = IF i \in hits THEN status ELSE c.items[i].status
  <2>1. c.items[i] \in RightItems
    BY <1>3
  <2>2. s[i] = IF i \in hits THEN [c.items[i] EXCEPT !.status = status] ELSE c.items[i]
    BY <1>1
  <2>3. QED
    BY <2>1, <2>2 DEF RightItems
<1>5. s \in Seq(RightItems) /\ DOMAIN s = DOMAIN c.items
  <2> DEFINE Marked(i) == IF i \in hits THEN [c.items[i] EXCEPT !.status = status] ELSE c.items[i]
  <2>1. \A i \in DOMAIN c.items : Marked(i) \in RightItems
    BY <1>1, <1>4
  <2>2. s = [i \in 1 .. Len(c.items) |-> Marked(i)]
    BY <1>1, <1>3
  <2> HIDE DEF Marked
  <2>3. s \in [1 .. Len(c.items) -> RightItems]
    BY <1>3, <2>1, <2>2
  <2>4. QED
    BY <1>3, <2>3
<1>6. d \in Convs /\ d.items = s
  BY <1>2, <1>5 DEF Convs
<1>7. /\ d.cursor = c.cursor /\ d.running = c.running /\ d.question = c.question
      /\ d.outcome = c.outcome /\ d.nextKey = c.nextKey
  BY <1>2 DEF Convs
<1>8. SameCards(c, d)
  BY <1>4, <1>5, <1>6 DEF SameCards
<1>9. Shut(c) => Shut(d)
  BY <1>4, <1>5, <1>6 DEF Shut
<1>10. QED
  BY <1>1, <1>4, <1>5, <1>6, <1>7, <1>8, <1>9 DEF SameBut

-----------------------------------------------------------------------------
(* One frame *)

LEMMA LastIn ==
    ASSUME NEW n \in Nat, NEW hits \in SUBSET (1 .. n)
    PROVE  /\ hits = {} => LastOf(hits) = 0
           /\ hits # {} => LastOf(hits) \in hits /\ \A i \in hits : i <= LastOf(hits)
BY MaxOf DEF LastOf

LEMMA FrameFields ==
    ASSUME NEW c \in Convs, NEW f \in Frames
    PROVE  /\ f.id \in Ids /\ f.sub \in Ids /\ f.seq \in Int /\ f.at \in Int /\ f.type \in FrameTypes
           /\ None \in Ids /\ Key(c, f) \in Int
           /\ NextKey(c, f) \in Int /\ NextKey(c, f) < 0
           /\ c.items \in Seq(RightItems) /\ Len(c.items) \in Nat /\ DOMAIN c.items = 1 .. Len(c.items)
           /\ \A i \in DOMAIN c.items : c.items[i] \in RightItems
<1>1. c.nextKey \in Int /\ c.nextKey < 0 /\ c.items \in Seq(RightItems)
  BY DEF Convs
<1>2. f.seq \in Int /\ f.id \in Ids /\ f.sub \in Ids /\ f.at \in Int /\ f.type \in FrameTypes
  BY DEF Frames
<1>3. None \in Ids
  BY DEF Ids, Words
<1>4. QED
  BY <1>1, <1>2, <1>3 DEF Key, NextKey, NoSeq

LEMMA Unchanged ==
    ASSUME NEW c \in Convs
    PROVE  SameBut(c, c) /\ SameCards(c, c)
BY DEF SameBut, SameCards

LEMMA UserMessageFolded ==
    ASSUME NEW c \in Convs, NEW f \in Frames
    PROVE  SameBut(c, FoldUserMessage(c, f)) /\ SameCards(c, FoldUserMessage(c, f))
<1>1. PICK it, hits, d : /\ it = Item("user", Key(c, f), f.id, "sent", None, 0)
                         /\ hits = Where(c, "user", "pending") \cap WhereId(c, "user", f.id)
                         /\ d = FoldUserMessage(c, f)
  OBVIOUS
<1>2. it \in RightItems /\ it.kind = "user"
  <2>1. f.id \in Ids /\ Key(c, f) \in Int /\ None \in Ids
    BY FrameFields
  <2>2. QED
    BY <1>1, <2>1 DEF Item, RightItems, ItemKinds, Statuses
<1>3. PICK s : s = IF LastOf(hits) = 0 THEN Append(c.items, it) ELSE [c.items EXCEPT ![LastOf(hits)] = it]
  OBVIOUS
<1>4. d = [c EXCEPT !.items = s, !.nextKey = NextKey(c, f)]
  BY <1>1, <1>3 DEF FoldUserMessage
<1>5. hits \subseteq DOMAIN c.items /\ \A i \in hits : c.items[i].kind = "user"
  BY <1>1 DEF Where, WhereId
<1>6. /\ s \in Seq(RightItems)
      /\ \A i \in DOMAIN s : s[i].kind = "question" => i \in DOMAIN c.items /\ s[i] = c.items[i]
  <2>1. CASE LastOf(hits) = 0
    <3>1. s = Append(c.items, it)
      BY <1>3, <2>1
    <3>2. QED
      BY <1>2, <3>1, FrameFields
  <2>2. CASE LastOf(hits) # 0
    <3>1. LastOf(hits) \in DOMAIN c.items
      BY <1>5, <2>2, FrameFields, LastIn
    <3>2. s = [c.items EXCEPT ![LastOf(hits)] = it]
      BY <1>3, <2>2
    <3>3. QED
      BY <1>2, <3>1, <3>2, FrameFields
  <2>3. QED
    BY <2>1, <2>2
<1>7. d \in Convs /\ d.items = s
  BY <1>4, <1>6, FrameFields DEF Convs
<1>8. d.cursor = c.cursor /\ d.running = c.running /\ d.question = c.question /\ d.outcome = c.outcome
  BY <1>4 DEF Convs
<1>9. QED
  BY <1>1, <1>6, <1>7, <1>8 DEF SameBut, SameCards

LEMMA TodoFolded ==
    ASSUME NEW c \in Convs, NEW f \in Frames
    PROVE  SameBut(c, FoldTodoUpdate(c, f)) /\ SameCards(c, FoldTodoUpdate(c, f))
<1>1. PICK todos, users, d : /\ todos = {i \in DOMAIN c.items : c.items[i].kind = "todos"}
                             /\ users = {i \in DOMAIN c.items : c.items[i].kind = "user"}
                             /\ d = FoldTodoUpdate(c, f)
  OBVIOUS
<1>2. LastOf(users) \in Nat /\ (LastOf(todos) > LastOf(users) => LastOf(todos) \in todos)
  <2>1. Len(c.items) \in Nat /\ todos \in SUBSET (1 .. Len(c.items)) /\ users \in SUBSET (1 .. Len(c.items))
    BY <1>1, FrameFields
  <2>2. LastOf(users) = 0 \/ LastOf(users) \in users
    BY <2>1, LastIn
  <2>3. LastOf(todos) = 0 \/ LastOf(todos) \in todos
    BY <2>1, LastIn
  <2>4. \A i \in users : i \in Nat
    BY <2>1
  <2>5. \A i \in todos : i \in Nat
    BY <2>1
  <2>6. LastOf(users) \in Nat
    BY <2>2, <2>4
  <2>7. LastOf(todos) > LastOf(users) => LastOf(todos) # 0
    BY <2>6
  <2>8. QED
    BY <2>3, <2>6, <2>7
<1>3. CASE LastOf(todos) > LastOf(users)
  <2>1. PICK i : i = LastOf(todos) /\ i \in DOMAIN c.items /\ c.items[i].kind = "todos"
    BY <1>1, <1>2, <1>3
  <2>2. d = [c EXCEPT !.items[i].ver = f.seq]
    BY <1>1, <1>3, <2>1 DEF FoldTodoUpdate
  <2>3. PICK it, s : it = [c.items[i] EXCEPT !.ver = f.seq] /\ s = [c.items EXCEPT ![i] = it]
    OBVIOUS
  <2>4. d = [c EXCEPT !.items = s]
    BY <2>2, <2>3
  <2>5. c.items[i] \in RightItems /\ f.seq \in Int
    BY <2>1, FrameFields
  <2>6. it \in RightItems /\ it.kind = "todos"
    BY <2>1, <2>3, <2>5 DEF RightItems
  <2>7. /\ s \in Seq(RightItems)
        /\ \A j \in DOMAIN s : s[j].kind = "question" => j \in DOMAIN c.items /\ s[j] = c.items[j]
    BY <2>1, <2>3, <2>6, FrameFields
  <2>8. d \in Convs /\ d.items = s
    BY <2>4, <2>7 DEF Convs
  <2>9. d.cursor = c.cursor /\ d.running = c.running /\ d.question = c.question /\ d.outcome = c.outcome
    BY <2>4 DEF Convs
  <2>10. QED
    BY <1>1, <2>7, <2>8, <2>9 DEF SameBut, SameCards
<1>4. CASE ~(LastOf(todos) > LastOf(users))
  <2>1. PICK it, s : it = Item("todos", f.seq, None, None, None, f.seq) /\ s = Append(c.items, it)
    OBVIOUS
  <2>2. d = [c EXCEPT !.items = s]
    BY <1>1, <1>4, <2>1 DEF FoldTodoUpdate
  <2>3. it \in RightItems /\ it.kind = "todos"
    <3>1. f.seq \in Int /\ None \in Ids
      BY FrameFields
    <3>2. QED
      BY <2>1, <3>1 DEF Item, RightItems, ItemKinds, Statuses, None
  <2>4. /\ s \in Seq(RightItems)
        /\ \A j \in DOMAIN s : s[j].kind = "question" => j \in DOMAIN c.items /\ s[j] = c.items[j]
    BY <2>1, <2>3, FrameFields
  <2>5. d \in Convs /\ d.items = s
    BY <2>2, <2>4 DEF Convs
  <2>6. d.cursor = c.cursor /\ d.running = c.running /\ d.question = c.question /\ d.outcome = c.outcome
    BY <2>2 DEF Convs
  <2>7. QED
    BY <1>1, <2>4, <2>5, <2>6 DEF SameBut, SameCards
<1>5. QED
  BY <1>3, <1>4

(* The frames that only add or settle a row of work. *)
LEMMA WorkFolded ==
    ASSUME NEW c \in Convs, NEW f \in Frames,
           f.type \in {"append", "tool_call", "tool_result", "subtask_started", "subtask_finished"}
    PROVE  LET d == FoldItemEvent(c, f)
           IN  SameBut(c, d) /\ SameCards(c, d) /\ (f.seq = NoSeq /\ Shut(c) => Shut(d))
<1>0. /\ f.id \in Ids /\ f.sub \in Ids /\ None \in Ids /\ None \in Statuses
      /\ {"running", "success", "cancelled", "completed"} \subseteq Statuses
      /\ {"append", "step", "subtask"} \subseteq ItemKinds
  BY FrameFields DEF Statuses, ItemKinds
<1>1. CASE f.type = "append"
  <2>1. FoldItemEvent(c, f) = Push(c, f, "append", f.id, None, None)
    BY <1>1 DEF FoldItemEvent
  <2>2. QED
    BY <1>0, <2>1, PushSafe DEF None
<1>2. CASE f.type = "tool_call"
  <2>1. FoldItemEvent(c, f) \in {c, Push(c, f, "step", f.id, "running", f.sub)}
    BY <1>2 DEF FoldItemEvent, FoldToolCall
  <2>2. QED
    BY <1>0, <2>1, PushSafe, Unchanged
<1>3. CASE f.type = "tool_result"
  <2>1. PICK hits : FoldItemEvent(c, f) = Mark(c, hits, "success")
    BY <1>3 DEF FoldItemEvent, FoldToolResult, MarkLast
  <2>2. QED
    BY <1>0, <2>1, MarkEffect
<1>4. CASE f.type = "subtask_started"
  <2>1. FoldItemEvent(c, f) \in {c, Push(c, f, "subtask", f.id, "running", None)}
    BY <1>4 DEF FoldItemEvent, FoldSubtaskStarted
  <2>2. QED
    BY <1>0, <2>1, PushSafe, Unchanged
<1>5. CASE f.type = "subtask_finished"
  <2>1. FoldItemEvent(c, f) = FoldSubtaskFinished(c, f)
    BY <1>5 DEF FoldItemEvent
  <2>2. PICK status, hits :
            /\ status \in {"cancelled", "completed"}
            /\ FoldItemEvent(c, f) \in {Mark(c, hits, status), Push(c, f, "subtask", f.id, status, None)}
    BY <2>1 DEF FoldSubtaskFinished, MarkLast
  <2>3. status \in Statuses \ {"running", "open"}
    BY <1>0, <2>2
  <2>4. CASE FoldItemEvent(c, f) = Mark(c, hits, status)
    BY <2>3, <2>4, MarkEffect
  <2>5. CASE FoldItemEvent(c, f) = Push(c, f, "subtask", f.id, status, None)
    BY <1>0, <2>3, <2>5, PushSafe
  <2>6. QED
    BY <2>2, <2>4, <2>5
<1>6. QED
  BY <1>1, <1>2, <1>3, <1>4, <1>5

LEMMA QuestionFolded ==
    ASSUME NEW c \in Convs, NEW f \in Frames
    PROVE  LET d == FoldQuestion(c, f)
           IN  /\ d \in Convs /\ d.cursor = c.cursor /\ d.running = c.running /\ d.question = f.id
               /\ Cards(c) /\ c.question = None /\ f.id # None => Cards(d)
<1>1. PICK b, d : b = Push(c, f, "question", f.id, "open", None) /\ d = FoldQuestion(c, f)
  OBVIOUS
<1>2. "question" \in ItemKinds /\ "open" \in Statuses /\ f.id \in Ids /\ None \in Ids
  BY FrameFields DEF ItemKinds, Statuses
<1>3. /\ SameBut(c, b) /\ Len(b.items) = Len(c.items) + 1
      /\ \A i \in 1 .. Len(c.items) : b.items[i] = c.items[i]
      /\ b.items[Len(c.items) + 1].id = f.id
  BY <1>1, <1>2, PushEffect
<1>4. d = [b EXCEPT !.question = f.id]
  BY <1>1 DEF FoldQuestion
<1>5. /\ d \in Convs /\ d.items = b.items /\ d.cursor = b.cursor /\ d.running = b.running
      /\ d.question = f.id
  BY <1>2, <1>3, <1>4 DEF SameBut, Convs
<1>6. ASSUME Cards(c), c.question = None, f.id # None PROVE Cards(d)
  <2>1. DOMAIN d.items = 1 .. Len(c.items) + 1 /\ DOMAIN c.items = 1 .. Len(c.items) /\ Len(c.items) \in Nat
    BY <1>3, <1>5, FrameFields DEF Convs
  <2>2. ASSUME NEW i \in DOMAIN d.items, OpenCard(d.items[i]) PROVE i = Len(c.items) + 1
    <3>1. CASE i \in DOMAIN c.items
      <4>1. d.items[i] = c.items[i]
        BY <1>3, <1>5, <2>1, <3>1
      <4>2. QED
        BY <1>6, <2>2, <3>1, <4>1 DEF Cards
    <3>2. QED
      BY <2>1, <3>1
  <2>3. \A j \in DOMAIN d.items : ~(j > Len(c.items) + 1)
    BY <2>1
  <2>4. QED
    BY <1>3, <1>5, <1>6, <2>2, <2>3 DEF Cards
<1>7. QED
  BY <1>1, <1>3, <1>5, <1>6 DEF SameBut

LEMMA QuestionClosedFolded ==
    ASSUME NEW c \in Convs, NEW f \in Frames, NEW status \in {"answered", "withdrawn"}
    PROVE  LET d == FoldQuestionClosed(c, f, status)
           IN  /\ d \in Convs /\ d.cursor = c.cursor /\ d.running = c.running
               /\ d.question = IF c.question = f.id THEN None ELSE c.question
               /\ Cards(c) /\ c.question = f.id => Cards(d)
<1>1. PICK hits, b, d : /\ hits = WhereId(c, "question", f.id) /\ b = Mark(c, {LastOf(hits)}, status)
                        /\ d = FoldQuestionClosed(c, f, status)
  OBVIOUS
<1>2. status \in Statuses \ {"running", "open"}
  BY DEF Statuses
<1>3. /\ SameBut(c, b) /\ DOMAIN b.items = DOMAIN c.items
      /\ \A i \in DOMAIN c.items :
             /\ b.items[i].kind = c.items[i].kind /\ b.items[i].id = c.items[i].id
             /\ b.items[i].status = IF i \in {LastOf(hits)} THEN status ELSE c.items[i].status
  BY <1>1, <1>2, MarkEffect
<1>4. d = [b EXCEPT !.question = IF b.question = f.id THEN None ELSE b.question]
  BY <1>1 DEF FoldQuestionClosed, MarkLast
<1>5. c.question \in Ids /\ None \in Ids /\ b.question = c.question
  BY <1>3, FrameFields DEF SameBut, Convs
<1>6. /\ d \in Convs /\ d.items = b.items /\ d.cursor = b.cursor /\ d.running = b.running
      /\ d.question = IF c.question = f.id THEN None ELSE c.question
  BY <1>3, <1>4, <1>5 DEF SameBut, Convs
<1>7. ASSUME Cards(c), c.question = f.id, NEW i \in DOMAIN d.items, OpenCard(d.items[i]) PROVE FALSE
  <2>1. i \in DOMAIN c.items /\ i # LastOf(hits) /\ OpenCard(c.items[i])
    BY <1>2, <1>3, <1>6, <1>7 DEF OpenCard
  <2>2. c.items[i].id = f.id /\ \A j \in DOMAIN c.items : j > i => ~(c.items[j].kind = "question" /\ c.items[j].id = f.id)
    BY <1>7, <2>1 DEF Cards
  <2>3. i \in hits /\ hits \subseteq DOMAIN c.items /\ \A j \in hits : ~(j > i)
    BY <1>1, <2>1, <2>2 DEF WhereId, OpenCard
  <2>4. LastOf(hits) \in hits /\ i <= LastOf(hits)
    BY <2>3, FrameFields, LastIn
  <2>5. i \in Int /\ LastOf(hits) \in Int
    BY <2>3, <2>4, FrameFields
  <2>6. QED
    BY <2>1, <2>3, <2>4, <2>5
<1>8. QED
  BY <1>1, <1>3, <1>6, <1>7 DEF SameBut, Cards

LEMMA TurnFinishedFolded ==
    ASSUME NEW c \in Convs, NEW f \in Frames
    PROVE  LET d == FoldTurnFinished(c, f)
           IN  /\ d \in Convs /\ d.cursor = c.cursor /\ d.running = FALSE /\ d.question = None
               /\ \A i \in DOMAIN d.items : ~OpenCard(d.items[i])
               /\ Shut(c) => Shut(d)
               /\ f.id = "cancelled" => Shut(d)
<1>0. {"cancelled", "failure", "withdrawn"} \subseteq Statuses \ {"running", "open"}
  BY DEF Statuses
<1>1. PICK a, b, z, d : /\ a = CloseSteps(c, f.id) /\ b = CloseSubtasks(a, f.id)
                        /\ z = Mark(b, Where(c, "question", "open"), "withdrawn")
                        /\ d = FoldTurnFinished(c, f)
  OBVIOUS
<1>2. /\ SameBut(c, a) /\ SameCards(c, a) /\ DOMAIN a.items = DOMAIN c.items /\ (Shut(c) => Shut(a))
      /\ f.id = "cancelled" => \A i \in DOMAIN a.items : a.items[i].kind = "step" => a.items[i].status # "running"
  <2>1. CASE f.id = "cancelled"
    <3>1. a = Mark(c, Where(c, "step", "running"), "cancelled")
      BY <1>1, <2>1 DEF CloseSteps
    <3>2. SameBut(c, a) /\ SameCards(c, a) /\ DOMAIN a.items = DOMAIN c.items /\ (Shut(c) => Shut(a))
      BY <1>0, <3>1, MarkEffect
    <3>3. \A i \in DOMAIN c.items :
              /\ a.items[i].kind = c.items[i].kind
              /\ a.items[i].status = IF i \in Where(c, "step", "running") THEN "cancelled" ELSE c.items[i].status
      BY <1>0, <3>1, MarkEffect
    <3>4. \A i \in DOMAIN a.items : a.items[i].kind = "step" => a.items[i].status # "running"
      BY <3>2, <3>3 DEF Where
    <3>5. QED
      BY <3>2, <3>4
  <2>2. CASE f.id = "failed"
    <3>1. a = Mark(c, Where(c, "step", "running"), "failure")
      BY <1>1, <2>2 DEF CloseSteps
    <3>2. QED
      BY <1>0, <2>2, <3>1, MarkEffect
  <2>3. CASE f.id \notin {"cancelled", "failed"}
    <3>1. a = c
      BY <1>1, <2>3 DEF CloseSteps
    <3>2. QED
      BY <2>3, <3>1, Unchanged
  <2>4. QED
    BY <2>1, <2>2, <2>3
<1>3. a \in Convs
  BY <1>2 DEF SameBut
<1>4. /\ SameBut(a, b) /\ SameCards(a, b) /\ DOMAIN b.items = DOMAIN a.items /\ (Shut(a) => Shut(b))
      /\ f.id = "cancelled" => \A i \in DOMAIN b.items : b.items[i].kind \in {"step", "subtask"} =>
                                                             b.items[i].status # "running"
  <2>1. CASE f.id = "cancelled"
    <3>1. b = Mark(a, Where(a, "subtask", "running"), "cancelled")
      BY <1>1, <2>1 DEF CloseSubtasks
    <3>2. SameBut(a, b) /\ SameCards(a, b) /\ DOMAIN b.items = DOMAIN a.items /\ (Shut(a) => Shut(b))
      BY <1>0, <1>3, <3>1, MarkEffect
    <3>3. \A i \in DOMAIN a.items :
              /\ b.items[i].kind = a.items[i].kind
              /\ b.items[i].status = IF i \in Where(a, "subtask", "running") THEN "cancelled" ELSE a.items[i].status
      BY <1>0, <1>3, <3>1, MarkEffect
    <3>4. \A i \in DOMAIN b.items : b.items[i].kind \in {"step", "subtask"} => b.items[i].status # "running"
      BY <1>2, <2>1, <3>2, <3>3 DEF Where
    <3>5. QED
      BY <3>2, <3>4
  <2>2. CASE f.id # "cancelled"
    <3>1. b = a
      BY <1>1, <2>2 DEF CloseSubtasks
    <3>2. QED
      BY <1>3, <2>2, <3>1, Unchanged
  <2>3. QED
    BY <2>1, <2>2
<1>5. b \in Convs
  BY <1>4 DEF SameBut
<1>6. /\ SameBut(b, z) /\ DOMAIN z.items = DOMAIN b.items /\ (Shut(b) => Shut(z))
      /\ \A i \in DOMAIN b.items :
             /\ z.items[i].kind = b.items[i].kind
             /\ z.items[i].status = IF i \in Where(c, "question", "open") THEN "withdrawn" ELSE b.items[i].status
  BY <1>0, <1>1, <1>5, MarkEffect
<1>7. d = [z EXCEPT !.running = FALSE, !.question = None, !.outcome = f.id]
  BY <1>1 DEF FoldTurnFinished
<1>8. d \in Convs /\ d.cursor = z.cursor /\ d.running = FALSE /\ d.question = None /\ d.items = z.items
  BY <1>6, <1>7, FrameFields DEF SameBut, Convs
<1>9. \A i \in DOMAIN d.items : ~OpenCard(d.items[i])
  BY <1>2, <1>4, <1>6, <1>8 DEF Where, OpenCard, SameCards
<1>10. Shut(c) => Shut(d)
  BY <1>2, <1>4, <1>6, <1>8 DEF Shut
<1>11. ASSUME f.id = "cancelled", NEW i \in DOMAIN d.items PROVE d.items[i].status \notin {"running", "open"}
  <2>1. d.items[i] \in RightItems
    BY <1>8, FrameFields
  <2>2. /\ d.items[i].status = "running" => d.items[i].kind \in {"step", "subtask"}
        /\ d.items[i].status = "open" => d.items[i].kind = "question"
    BY <2>1 DEF RightItems
  <2>3. d.items[i].kind \in {"step", "subtask"} => d.items[i].status # "running"
    BY <1>4, <1>6, <1>8, <1>11
  <2>4. QED
    BY <1>9, <2>2, <2>3 DEF OpenCard
<1>12. QED
  BY ZenonT(60), <1>1, <1>2, <1>4, <1>6, <1>8, <1>9, <1>10, <1>11 DEF SameBut, Shut


(* Dropping items drops cards, and reorders none. *)
LEMMA DropEffect ==
    ASSUME NEW c \in Convs, NEW kept, NEW d, d \in Convs, d.items = Filter(c.items, kept)
    PROVE  /\ Cards(c) /\ (d.question = c.question \/ c.question = None) => Cards(d)
           /\ Shut(c) => Shut(d)
<1>1. PICK s, p, n : s = d.items /\ p = c.items /\ n = Len(c.items)
  OBVIOUS
<1>2. KeptOf(p, kept, n, s, RightItems) /\ DOMAIN p = 1 .. n
  BY <1>1, FrameFields, Filtered DEF Convs
<1>3. /\ \A i \in DOMAIN s : \E a \in DOMAIN p : s[i] = p[a]
      /\ \A i, j \in DOMAIN s : i < j => \E a, b \in DOMAIN p : a < b /\ s[i] = p[a] /\ s[j] = p[b]
  <2>1. \A i \in DOMAIN s : \E a \in 1 .. n : s[i] = p[a]
    BY <1>2 DEF KeptOf
  <2>2. \A i, j \in DOMAIN s : i < j => \E a, b \in 1 .. n : a < b /\ s[i] = p[a] /\ s[j] = p[b]
    BY <1>2 DEF KeptOf
  <2>3. QED
    BY <1>2, <2>1, <2>2
<1>4. ASSUME Cards(c), d.question = c.question \/ c.question = None, NEW i \in DOMAIN s, OpenCard(s[i])
      PROVE  /\ d.question # None /\ s[i].id = d.question
             /\ \A j \in DOMAIN s : j > i => ~(s[j].kind = "question" /\ s[j].id = d.question)
  <2>1. PICK a \in DOMAIN p : s[i] = p[a]
    BY <1>3
  <2>2. c.question # None /\ s[i].id = c.question /\ d.question = c.question
    BY <1>1, <1>4, <2>1 DEF Cards
  <2>3. ASSUME NEW j \in DOMAIN s, j > i, s[j].kind = "question", s[j].id = d.question PROVE FALSE
    <3>1. i < j
      BY <1>2, <2>3 DEF KeptOf
    <3>2. PICK x, y \in DOMAIN p : x < y /\ s[i] = p[x] /\ s[j] = p[y]
      BY <1>3, <3>1
    <3>3. y > x
      BY <1>2, <3>2
    <3>4. OpenCard(p[x])
      BY <1>4, <3>2
    <3>5. QED
      BY <1>1, <1>4, <2>2, <2>3, <3>2, <3>3, <3>4 DEF Cards
  <2>4. QED
    BY <2>2, <2>3
<1>5. Shut(c) => Shut(d)
  BY <1>1, <1>3 DEF Shut
<1>6. QED
  BY <1>1, <1>4, <1>5 DEF Cards

LEMMA RewindFolded ==
    ASSUME NEW c \in Convs, NEW f \in Frames
    PROVE  LET d == FoldRewind(c, f)
           IN  /\ d \in Convs /\ d.cursor = c.cursor /\ d.running = FALSE /\ d.question = None
               /\ Cards(c) /\ c.question = None => Cards(d)
<1>1. PICK d : d = FoldRewind(c, f)
  OBVIOUS
<1>2. PICK kept : d = [c EXCEPT !.items = Filter(c.items, kept), !.running = FALSE, !.question = None,
                                !.outcome = None]
  BY <1>1 DEF FoldRewind
<1>3. Filter(c.items, kept) \in Seq(RightItems)
  BY FrameFields, Filtered DEF KeptOf
<1>4. PICK s : s = Filter(c.items, kept) /\ s \in Seq(RightItems)
  BY <1>3
<1>5. d = [c EXCEPT !.items = s, !.running = FALSE, !.question = None, !.outcome = None]
  BY <1>2, <1>4
<1>6. d \in Convs /\ d.items = s /\ d.cursor = c.cursor /\ d.running = FALSE /\ d.question = None
  BY <1>4, <1>5, FrameFields DEF Convs
<1>7. Cards(c) /\ c.question = None => Cards(d)
  BY <1>4, <1>6, DropEffect
<1>8. QED
  BY <1>1, <1>6, <1>7

-----------------------------------------------------------------------------
(* What a frame needs of the cards, and what it does. *)
CardsReady(c, f) ==
    /\ f.type = "question" => c.question = None /\ f.id # None
    /\ f.type \in {"question_answered", "question_withdrawn"} => c.question = f.id
    /\ f.type = "rewind" => c.question = None

RunningAfter(c, f) ==
    IF f.type = "turn_started" THEN TRUE
    ELSE IF f.type \in {"turn_finished", "error", "rewind"} THEN FALSE ELSE c.running

QuestionAfter(c, f) ==
    IF f.type = "question" THEN f.id
    ELSE IF f.type \in {"question_answered", "question_withdrawn"}
         THEN IF c.question = f.id THEN None ELSE c.question
    ELSE IF f.type \in {"turn_finished", "rewind"} THEN None ELSE c.question

FoldsTo(c, f, d) ==
    /\ d \in Convs /\ d.cursor = c.cursor
    /\ d.running = RunningAfter(c, f) /\ d.question = QuestionAfter(c, f)
    /\ Cards(c) /\ CardsReady(c, f) => Cards(d)
    /\ f.seq = NoSeq /\ f.type \in AsideTypes /\ Shut(c) => Shut(d)
    /\ f.type = "turn_finished" /\ f.id = "cancelled" => Shut(d)

LEMMA ItemFolded ==
    ASSUME NEW c \in Convs, NEW f \in Frames
    PROVE  FoldsTo(c, f, FoldItemEvent(c, f))
<1>0. PICK d : d = FoldItemEvent(c, f)
  OBVIOUS
<1>1. ASSUME SameBut(c, d), SameCards(c, d),
             f.type \notin {"question", "question_answered", "question_withdrawn", "turn_started",
                            "turn_finished", "error", "rewind"},
             f.seq = NoSeq /\ f.type \in AsideTypes /\ Shut(c) => Shut(d)
      PROVE  FoldsTo(c, f, d)
  <2>1. d.running = RunningAfter(c, f) /\ d.question = QuestionAfter(c, f)
    BY <1>1 DEF SameBut, RunningAfter, QuestionAfter
  <2>2. Cards(c) => Cards(d)
    BY <1>1, CardsKept DEF SameBut
  <2>3. QED
    BY <1>1, <2>1, <2>2 DEF FoldsTo, SameBut
<1>2. CASE f.type \in {"append", "tool_call", "tool_result", "subtask_started", "subtask_finished"}
  <2>1. SameBut(c, d) /\ SameCards(c, d) /\ (f.seq = NoSeq /\ Shut(c) => Shut(d))
    BY <1>0, <1>2, WorkFolded
  <2>2. QED
    BY <1>0, <1>1, <1>2, <2>1
<1>3. CASE f.type = "user_message"
  <2>1. d = FoldUserMessage(c, f)
    BY <1>0, <1>3 DEF FoldItemEvent
  <2>2. SameBut(c, d) /\ SameCards(c, d)
    BY <2>1, UserMessageFolded
  <2>3. QED
    BY <1>0, <1>1, <1>3, <2>2 DEF AsideTypes
<1>4. CASE f.type = "todo_update"
  <2>1. d = FoldTodoUpdate(c, f)
    BY <1>0, <1>4 DEF FoldItemEvent
  <2>2. SameBut(c, d) /\ SameCards(c, d)
    BY <2>1, TodoFolded
  <2>3. QED
    BY <1>0, <1>1, <1>4, <2>2 DEF AsideTypes
<1>5. CASE f.type = "question"
  <2>1. d = FoldQuestion(c, f)
    BY <1>0, <1>5 DEF FoldItemEvent
  <2>2. /\ d \in Convs /\ d.cursor = c.cursor /\ d.running = c.running /\ d.question = f.id
        /\ Cards(c) /\ c.question = None /\ f.id # None => Cards(d)
    BY <2>1, QuestionFolded
  <2>3. QED
    BY <1>0, <1>5, <2>2 DEF FoldsTo, RunningAfter, QuestionAfter, CardsReady, AsideTypes
<1>6. CASE f.type \in {"question_answered", "question_withdrawn"}
  <2>1. PICK status \in {"answered", "withdrawn"} : d = FoldQuestionClosed(c, f, status)
    BY <1>0, <1>6 DEF FoldItemEvent
  <2>2. /\ d \in Convs /\ d.cursor = c.cursor /\ d.running = c.running
        /\ d.question = IF c.question = f.id THEN None ELSE c.question
        /\ Cards(c) /\ c.question = f.id => Cards(d)
    BY <2>1, QuestionClosedFolded
  <2>3. QED
    BY <1>0, <1>6, <2>2 DEF FoldsTo, RunningAfter, QuestionAfter, CardsReady, AsideTypes
<1>7. CASE f.type = "turn_started"
  <2>1. d = [c EXCEPT !.running = TRUE, !.outcome = None]
    BY <1>0, <1>7 DEF FoldItemEvent
  <2>2. d \in Convs /\ d.cursor = c.cursor /\ d.running = TRUE /\ d.question = c.question /\ d.items = c.items
    BY <2>1, FrameFields DEF Convs
  <2>3. Cards(c) => Cards(d)
    BY <2>2 DEF Cards
  <2>4. Shut(c) => Shut(d)
    BY <2>2 DEF Shut
  <2>5. QED
    BY <1>0, <1>7, <2>2, <2>3, <2>4 DEF FoldsTo, RunningAfter, QuestionAfter
<1>8. CASE f.type = "turn_finished"
  <2>1. d = FoldTurnFinished(c, f)
    BY <1>0, <1>8 DEF FoldItemEvent
  <2>2. /\ d \in Convs /\ d.cursor = c.cursor /\ d.running = FALSE /\ d.question = None
        /\ \A i \in DOMAIN d.items : ~OpenCard(d.items[i])
        /\ Shut(c) => Shut(d)
        /\ f.id = "cancelled" => Shut(d)
    BY <2>1, TurnFinishedFolded
  <2>3. Cards(d)
    BY <2>2 DEF Cards
  <2>4. QED
    BY <1>0, <1>8, <2>2, <2>3 DEF FoldsTo, RunningAfter, QuestionAfter
<1>9. CASE f.type = "error"
  <2>1. PICK b : b = Push(c, f, "error", None, None, None)
    OBVIOUS
  <2>2. d = [b EXCEPT !.running = FALSE]
    BY <1>0, <1>9, <2>1 DEF FoldItemEvent, FoldError
  <2>3. "error" \in ItemKinds /\ None \in Statuses /\ None \in Ids /\ None \notin {"running", "open"}
    BY FrameFields DEF ItemKinds, Statuses, None
  <2>4. SameBut(c, b) /\ SameCards(c, b) /\ (f.seq = NoSeq /\ Shut(c) => Shut(b))
    BY <2>1, <2>3, PushSafe
  <2>5. d \in Convs /\ d.cursor = c.cursor /\ d.running = FALSE /\ d.question = c.question /\ d.items = b.items
    BY <2>2, <2>4 DEF SameBut, Convs
  <2>6. Cards(c) => Cards(d)
    BY <2>4, <2>5, CardsKept DEF SameCards
  <2>7. f.seq = NoSeq /\ Shut(c) => Shut(d)
    BY <2>4, <2>5 DEF Shut
  <2>8. QED
    BY <1>0, <1>9, <2>5, <2>6, <2>7 DEF FoldsTo, RunningAfter, QuestionAfter
<1>10. CASE f.type = "rewind"
  <2>1. d = FoldRewind(c, f)
    BY <1>0, <1>10 DEF FoldItemEvent
  <2>2. /\ d \in Convs /\ d.cursor = c.cursor /\ d.running = FALSE /\ d.question = None
        /\ Cards(c) /\ c.question = None => Cards(d)
    BY <2>1, RewindFolded
  <2>3. QED
    BY <1>0, <1>10, <2>2 DEF FoldsTo, RunningAfter, QuestionAfter, CardsReady, AsideTypes
<1>11. f.type \in FrameTypes
  BY FrameFields
<1>12. QED
  BY <1>0, <1>2, <1>3, <1>4, <1>5, <1>6, <1>7, <1>8, <1>9, <1>10, <1>11 DEF FrameTypes

-----------------------------------------------------------------------------
(* The client receives *)

RunningRight(q, c, stage) ==
    \/ (c.running = TRUE) <=> InTurn(q, c.cursor + 1)
    \/ /\ c.running = TRUE
       /\ stage = "drive" \/ \E s \in c.cursor + 1 .. Len(q) - 1 : q[s + 1].type = "TaskWoken"

QuestionRight(q, c) ==
    /\ c.question = None => \A x \in Questions : ~Asked(q, c.cursor + 1, x)
    /\ c.question # None => c.question \in Questions /\ Asked(q, c.cursor + 1, c.question)

(* What has been folded, against the log up to the cursor. *)
ConvOf(q, c, refd, stage) ==
    /\ c \in Convs /\ c.cursor \in -1 .. Len(q) - 1
    /\ ~refd => RunningRight(q, c, stage) /\ QuestionRight(q, c) /\ Cards(c)
    /\ c.cursor >= 0 /\ q[c.cursor + 1].type = "TaskCancelled" => Shut(c)

CursorAfter(c, f) == IF f.seq # NoSeq /\ f.seq > c THEN f.seq ELSE c

LEMMA Applied ==
    ASSUME NEW c \in Convs, NEW f \in Frames
    PROVE  LET d == Apply(c, f)
           IN  /\ d \in Convs /\ d.cursor = CursorAfter(c.cursor, f)
               /\ f.seq # NoSeq /\ ~(f.seq > c.cursor) =>
                      d.items = c.items /\ d.running = c.running /\ d.question = c.question
               /\ f.seq = NoSeq => FoldsTo(c, f, d)
               /\ f.seq # NoSeq /\ f.seq > c.cursor =>
                      \E b \in Convs : /\ FoldsTo(b, f, d) /\ b.items = c.items /\ b.running = c.running
                                       /\ b.question = c.question
<1>0. f.seq \in Int /\ c.cursor \in Int /\ c.sending \in BOOLEAN
  BY DEF Frames, Convs
<1>1. PICK b, e, d : /\ b = IF f.seq = NoSeq THEN c ELSE [c EXCEPT !.cursor = f.seq]
                     /\ e = FoldEvent(c, f) /\ d = Apply(c, f)
  OBVIOUS
<1>2. PICK z : z = (e.sending /\ ~e.running /\ e.items = c.items /\ e.outcome = c.outcome)
  OBVIOUS
<1>3. z \in BOOLEAN
  BY <1>2
<1>4. d = [e EXCEPT !.sending = z]
  BY <1>1, <1>2 DEF Apply
<1>5. ASSUME e \in Convs
      PROVE  /\ d \in Convs /\ d.items = e.items /\ d.running = e.running /\ d.cursor = e.cursor
             /\ d.question = e.question
  BY <1>3, <1>4, <1>5 DEF Convs
<1>6. CASE f.seq # NoSeq /\ ~(f.seq > c.cursor)
  <2>1. e = c
    BY <1>0, <1>1, <1>6 DEF FoldEvent
  <2>2. QED
    BY <1>0, <1>1, <1>5, <1>6, <2>1 DEF CursorAfter
<1>7. CASE f.seq = NoSeq \/ f.seq > c.cursor
  <2>1. /\ b \in Convs /\ b.items = c.items /\ b.running = c.running /\ b.question = c.question
        /\ b.cursor = CursorAfter(c.cursor, f)
    BY <1>0, <1>1, <1>7 DEF Convs, CursorAfter
  <2>2. e = FoldItemEvent(b, f)
    BY <1>0, <1>1, <1>7 DEF FoldEvent
  <2>3. FoldsTo(b, f, e)
    BY <2>1, <2>2, ItemFolded
  <2>4. e \in Convs /\ e.cursor = b.cursor
    BY <2>3 DEF FoldsTo
  <2>5. /\ d \in Convs /\ d.items = e.items /\ d.running = e.running /\ d.cursor = e.cursor
        /\ d.question = e.question
    BY <1>5, <2>4
  <2>6. FoldsTo(b, f, d)
    BY <2>3, <2>5 DEF FoldsTo, Cards, Shut
  <2>7. f.seq = NoSeq => b = c
    BY <1>1
  <2>8. QED
    BY <1>1, <1>7, <2>1, <2>4, <2>5, <2>6, <2>7
<1>8. QED
  BY <1>6, <1>7

LEMMA FrameOf ==
    ASSUME NEW q \in Seq(Envelopes), NEW s \in 0 .. Len(q) - 1
    PROVE  /\ q[s + 1] \in Envelopes
           /\ \A f \in FramesOf(q, s) : f.seq = s /\ Speaks(q[s + 1], f)
           /\ FramesOf(q, s) = {} => Idles(q[s + 1])
<1>1. q[s + 1] \in Envelopes /\ s \in Int
  <2>1. s + 1 \in 1 .. Len(q) /\ Len(q) \in Nat
    OBVIOUS
  <2>2. QED
    BY <2>1
<1>2. Rendered(q[s + 1], s, TranslateRoot(q[s + 1], s))
  BY <1>1, RootFrames
<1>3. QED
  BY <1>1, <1>2, RenderedFacts DEF FramesOf

LEMMA TailOf ==
    ASSUME NEW T, NEW p \in Seq(T), p # <<>>
    PROVE  /\ Tail(p) \in Seq(T) /\ Head(p) = p[1] /\ 1 \in DOMAIN p /\ Head(p) \in T
           /\ \A k \in DOMAIN Tail(p) : k \in Nat /\ k > 0 /\ k + 1 \in DOMAIN p /\ Tail(p)[k] = p[k + 1]
           /\ \A k \in DOMAIN p : k # 1 => k \in Nat /\ k - 1 \in DOMAIN Tail(p) /\ Tail(p)[k - 1] = p[k]
           /\ \A x \in ToSet(p) : x # Head(p) => x \in ToSet(Tail(p))
<1>1. PICK t : t = Tail(p)
  OBVIOUS
<1>2. /\ Len(p) \in Nat /\ Len(p) > 0 /\ DOMAIN p = 1 .. Len(p) /\ t \in Seq(T) /\ Len(t) = Len(p) - 1
      /\ DOMAIN t = 1 .. Len(p) - 1 /\ \A k \in 1 .. Len(p) - 1 : t[k] = p[k + 1]
      /\ Head(p) = p[1] /\ p[1] \in T
  BY <1>1
<1>3. \A k \in DOMAIN t : k \in Nat /\ k > 0 /\ k + 1 \in DOMAIN p /\ t[k] = p[k + 1]
  BY <1>2
<1>4. ASSUME NEW k \in DOMAIN p, k # 1 PROVE k \in Nat /\ k - 1 \in DOMAIN t /\ t[k - 1] = p[k]
  <2>1. k - 1 \in DOMAIN t /\ (k - 1) + 1 = k
    BY <1>2, <1>4
  <2>2. QED
    BY <1>2, <1>3, <2>1
<1>5. ASSUME NEW x \in ToSet(p), x # Head(p) PROVE x \in ToSet(t)
  <2>1. PICK k \in DOMAIN p : x = p[k]
    BY DEF ToSet
  <2>2. k # 1
    BY <1>2, <1>5, <2>1
  <2>3. QED
    BY <1>4, <2>1, <2>2 DEF ToSet
<1>6. 1 \in DOMAIN p
  BY <1>2
<1>7. QED
  BY <1>1, <1>2, <1>3, <1>4, <1>5, <1>6

LEMMA PipeTail ==
    ASSUME NEW q \in Seq(Envelopes), NEW p \in Seq(Frames), p # <<>>, NEW c \in -1 .. Len(q) - 1,
           NEW on, NEW refd, NEW stage, PipeOf(q, p, c, on, refd, stage)
    PROVE  /\ on /\ GenuineFrame(q, Head(p), c)
           /\ PipeOf(q, Tail(p), CursorAfter(c, Head(p)), on, refd, stage)
<1>0. on /\ c \in Int /\ Len(q) \in Nat
  BY DEF PipeOf
<1>1. PICK f, t, d : f = Head(p) /\ t = Tail(p) /\ d = CursorAfter(c, f)
  OBVIOUS
<1>2. /\ t \in Seq(Frames) /\ f = p[1] /\ 1 \in DOMAIN p /\ f \in Frames
      /\ \A k \in DOMAIN t : k \in Nat /\ k > 0 /\ k + 1 \in DOMAIN p /\ t[k] = p[k + 1]
      /\ \A k \in DOMAIN p : k # 1 => k \in Nat /\ k - 1 \in DOMAIN t /\ t[k - 1] = p[k]
      /\ \A x \in ToSet(p) : x # f => x \in ToSet(t)
  BY <1>1, TailOf
<1>3. GenuineFrame(q, f, c) /\ f.seq \in Int
  BY <1>2 DEF PipeOf, Genuine, Frames
<1>4. Ordered(t)
  <2> SUFFICES ASSUME NEW j \in DOMAIN t, NEW k \in DOMAIN t, j < k, t[j].seq # NoSeq, t[k].seq # NoSeq
               PROVE  \/ t[j].seq < t[k].seq
                      \/ t[j].seq = t[k].seq /\ t[j].type = "error" /\ t[k].type = "turn_finished"
    BY DEF Ordered
  <2>1. j + 1 \in DOMAIN p /\ k + 1 \in DOMAIN p /\ j + 1 < k + 1 /\ t[j] = p[j + 1] /\ t[k] = p[k + 1]
    BY <1>2
  <2>2. QED
    BY <2>1 DEF PipeOf, Ordered
<1>5. Asides(t, refd, stage)
  <2> SUFFICES ASSUME NEW k \in DOMAIN t PROVE Aside(t, k, refd, stage)
    BY DEF Asides
  <2>1. Aside(p, k + 1, refd, stage) /\ t[k] = p[k + 1]
    BY <1>2 DEF PipeOf, Asides
  <2>2. ASSUME NEW j \in DOMAIN p, j > k + 1 PROVE j - 1 \in DOMAIN t /\ t[j - 1] = p[j] /\ j - 1 > k
    <3>1. j # 1 /\ j \in Nat
      <4>1. k \in Nat /\ k > 0
        BY <1>2
      <4>2. j # 1
        BY <2>2, <4>1
      <4>3. QED
        BY <1>2, <4>2
    <3>2. k \in Nat
      BY <1>2
    <3>3. QED
      BY <1>2, <2>2, <3>1, <3>2
  <2>3. QED
    BY <2>1, <2>2 DEF Aside
<1>6. ASSUME NEW k \in DOMAIN t PROVE GenuineFrame(q, t[k], d)
  <2>1. t[k] = p[k + 1] /\ GenuineFrame(q, t[k], c) /\ k + 1 \in DOMAIN p /\ 1 < k + 1 /\ t[k] \in Frames
    BY <1>2 DEF PipeOf, Genuine
  <2>2. CASE d = c
    BY <2>1, <2>2
  <2>3. CASE f.seq # NoSeq /\ f.seq > c /\ d = f.seq
    <3>1. SUFFICES ASSUME t[k].seq # NoSeq PROVE GenuineFrame(q, t[k], d)
      BY DEF GenuineFrame
    <3>2. \/ f.seq < t[k].seq
          \/ f.seq = t[k].seq /\ f.type = "error" /\ t[k].type = "turn_finished"
      BY <1>2, <2>1, <2>3, <3>1 DEF PipeOf, Ordered
    <3>3. t[k].seq \in Int
      BY <2>1 DEF Frames
    <3>4. f.seq \in 0 .. Len(q) - 1 /\ f \in FramesOf(q, f.seq)
      BY <1>3, <2>3 DEF GenuineFrame
    <3>5. Speaks(q[f.seq + 1], f)
      BY <3>4, FrameOf
    <3>6. f.type = "error" => q[d + 1].type = "TaskFailed"
      BY <2>3, <3>5 DEF Speaks
    <3>7. QED
      BY <1>3, <2>1, <2>3, <3>1, <3>2, <3>3, <3>6 DEF GenuineFrame
  <2>4. QED
    BY <1>1, <2>2, <2>3 DEF CursorAfter
<1>7. Genuine(q, t, d)
  BY <1>6 DEF Genuine
<1>8. Complete(q, t, d)
  <2> SUFFICES ASSUME NEW s \in d + 1 .. Len(q) - 1, NEW x \in FramesOf(q, s) PROVE x \in ToSet(t)
    BY DEF Complete
  <2>1. /\ d \in Int /\ d >= c /\ (f.seq # NoSeq => f.seq <= d) /\ d >= -1
    <3>1. f.seq # NoSeq => f.seq >= c
      BY <1>3 DEF GenuineFrame
    <3>2. QED
      BY <1>0, <1>1, <1>3, <3>1 DEF CursorAfter
  <2>2. s \in c + 1 .. Len(q) - 1 /\ s \in 0 .. Len(q) - 1 /\ s > d
    BY <1>0, <2>1
  <2>3. x \in ToSet(p)
    BY <1>0, <2>2 DEF PipeOf, Complete
  <2>4. x.seq = s
    BY <2>2, FrameOf
  <2>5. x # f
    <3>1. s # NoSeq
      BY <2>2 DEF NoSeq
    <3>2. s # f.seq
      BY <1>3, <2>1, <2>2, <3>1
    <3>3. QED
      BY <2>4, <3>2
  <2>6. QED
    BY <1>2, <2>3, <2>5
<1>9. QED
  BY <1>0, <1>1, <1>3, <1>4, <1>5, <1>7, <1>8 DEF PipeOf


(* Nothing happened between the cursor and the next frame's envelope. *)
LEMMA LullBefore ==
    ASSUME NEW q \in Seq(Envelopes), NEW p \in Seq(Frames), p # <<>>, NEW c \in -1 .. Len(q) - 1,
           NEW on, NEW refd, NEW stage, PipeOf(q, p, c, on, refd, stage),
           Head(p).seq # NoSeq, Head(p).seq > c, NEW s \in c + 1 .. Head(p).seq - 1
    PROVE  FramesOf(q, s) = {} /\ Idles(q[s + 1])
<1>0. on /\ c \in Int /\ Len(q) \in Nat
  BY DEF PipeOf
<1>1. PICK f : f = Head(p)
  OBVIOUS
<1>2. f = p[1] /\ 1 \in DOMAIN p /\ f \in Frames /\ DOMAIN p = 1 .. Len(p) /\ Len(p) \in Nat
  BY <1>1, TailOf
<1>3. f.seq \in 0 .. Len(q) - 1
  BY <1>1, <1>2 DEF PipeOf, Genuine, GenuineFrame
<1>4. s \in c + 1 .. Len(q) - 1 /\ s \in 0 .. Len(q) - 1 /\ s < f.seq
  BY <1>0, <1>1, <1>3
<1>5. ASSUME NEW x \in FramesOf(q, s) PROVE FALSE
  <2>1. x \in ToSet(p) /\ x.seq = s
    BY <1>0, <1>4, FrameOf DEF PipeOf, Complete
  <2>2. PICK k \in DOMAIN p : x = p[k]
    BY <2>1 DEF ToSet
  <2>3. k # 1
    BY <1>2, <1>4, <2>1, <2>2
  <2>4. 1 < k
    BY <1>2, <2>3
  <2>5. s # NoSeq
    BY <1>4 DEF NoSeq
  <2>6. f.seq <= s
    BY <1>1, <1>2, <1>3, <1>4, <2>1, <2>2, <2>4, <2>5 DEF PipeOf, Ordered
  <2>7. QED
    BY <1>3, <1>4, <2>6
<1>6. QED
  BY <1>4, <1>5, FrameOf

LEMMA Received ==
    ASSUME NEW q \in Seq(Envelopes), QuestionsInTurn(q), NEW p \in Seq(Frames), p # <<>>, NEW c, NEW on,
           NEW refd, NEW stage, None \notin Questions,
           PipeOf(q, p, c.cursor, on, refd, stage), ConvOf(q, c, refd, stage)
    PROVE  ConvOf(q, Apply(c, Head(p)), refd, stage)
<1>0. Len(q) \in Nat /\ c \in Convs /\ c.cursor \in -1 .. Len(q) - 1 /\ c.cursor \in Int
  BY DEF ConvOf
<1>1. PICK f, d, n : f = Head(p) /\ d = Apply(c, f) /\ n = c.cursor
  OBVIOUS
<1>2. f \in Frames /\ f = p[1] /\ 1 \in DOMAIN p /\ f.seq \in Int
  <2>1. f \in Frames /\ f = p[1] /\ 1 \in DOMAIN p
    BY <1>1, TailOf
  <2>2. QED
    BY <2>1 DEF Frames
<1>3. GenuineFrame(q, f, n) /\ Aside(p, 1, refd, stage)
  BY <1>0, <1>1, <1>2, PipeTail DEF PipeOf, Asides
<1>4. /\ d \in Convs /\ d.cursor = CursorAfter(n, f)
      /\ f.seq # NoSeq /\ ~(f.seq > n) =>
             d.items = c.items /\ d.running = c.running /\ d.question = c.question
      /\ f.seq = NoSeq => FoldsTo(c, f, d)
      /\ f.seq # NoSeq /\ f.seq > n =>
             \E b \in Convs : /\ FoldsTo(b, f, d) /\ b.items = c.items /\ b.running = c.running
                              /\ b.question = c.question
  BY <1>0, <1>1, <1>2, Applied
<1>5. CASE f.seq # NoSeq /\ ~(f.seq > n)
  <2>1. d.cursor = c.cursor /\ d.items = c.items /\ d.running = c.running /\ d.question = c.question
    BY <1>1, <1>4, <1>5 DEF CursorAfter
  <2>2. /\ RunningRight(q, c, stage) => RunningRight(q, d, stage)
        /\ QuestionRight(q, c) => QuestionRight(q, d)
        /\ Cards(c) => Cards(d)
        /\ Shut(c) => Shut(d)
    BY <2>1 DEF RunningRight, QuestionRight, Cards, Shut
  <2>3. QED
    BY <1>1, <1>4, <2>1, <2>2 DEF ConvOf
<1>6. CASE f.seq = NoSeq
  <2>1. FoldsTo(c, f, d) /\ d.cursor = c.cursor /\ f.type \in AsideTypes
    BY <1>1, <1>2, <1>3, <1>4, <1>6 DEF CursorAfter, Aside
  <2>2. Shut(c) => Shut(d)
    BY <1>6, <2>1 DEF FoldsTo
  <2>3. ASSUME ~refd PROVE RunningRight(q, d, stage) /\ QuestionRight(q, d) /\ Cards(d)
    <3>1. RunningRight(q, c, stage) /\ QuestionRight(q, c) /\ Cards(c)
      BY <2>3 DEF ConvOf
    <3>2. f.type \in {"append", "tool_call", "tool_result", "subtask_finished", "turn_started"}
      BY <1>2, <1>3, <1>6, <2>3 DEF Aside, AsideTypes
    <3>3. d.question = c.question /\ CardsReady(c, f)
      BY <2>1, <3>2 DEF FoldsTo, QuestionAfter, CardsReady
    <3>4. QuestionRight(q, d) /\ Cards(d)
      BY <2>1, <3>1, <3>3 DEF FoldsTo, QuestionRight
    <3>5. CASE f.type # "turn_started"
      <4>1. d.running = c.running
        BY <2>1, <3>2, <3>5 DEF FoldsTo, RunningAfter
      <4>2. QED
        BY <2>1, <3>1, <3>4, <4>1 DEF RunningRight
    <3>6. CASE f.type = "turn_started"
      <4>1. d.running = TRUE
        BY <2>1, <3>6 DEF FoldsTo, RunningAfter
      <4>2. ASSUME stage # "drive"
            PROVE  \E s \in d.cursor + 1 .. Len(q) - 1 : q[s + 1].type = "TaskWoken"
        <5>1. PICK j \in DOMAIN p : p[j].seq # NoSeq /\ p[j].type = "turn_started"
          BY <1>2, <1>3, <1>6, <2>3, <3>6, <4>2 DEF Aside
        <5>2. GenuineFrame(q, p[j], n)
          BY <1>1 DEF PipeOf, Genuine
        <5>3. /\ p[j].seq \in 0 .. Len(q) - 1 /\ p[j].seq >= n /\ p[j].seq # n
              /\ p[j] \in FramesOf(q, p[j].seq)
          BY <5>1, <5>2 DEF GenuineFrame
        <5>4. Speaks(q[p[j].seq + 1], p[j])
          BY <5>3, FrameOf
        <5>5. q[p[j].seq + 1].type = "TaskWoken"
          BY <5>1, <5>4 DEF Speaks
        <5>6. p[j].seq \in d.cursor + 1 .. Len(q) - 1
          BY <1>0, <1>1, <2>1, <5>3
        <5>7. QED
          BY <5>5, <5>6
      <4>3. QED
        BY <3>4, <4>1, <4>2 DEF RunningRight
    <3>7. QED
      BY <3>5, <3>6
  <2>4. QED
    BY <1>1, <1>4, <2>1, <2>2, <2>3 DEF ConvOf
<1>7. CASE f.seq # NoSeq /\ f.seq > n
  <2>1. PICK b \in Convs : /\ FoldsTo(b, f, d) /\ b.items = c.items /\ b.running = c.running
                           /\ b.question = c.question
    BY <1>4, <1>7
  <2>2. PICK s, e : s = f.seq /\ e = q[s + 1]
    OBVIOUS
  <2>3. s \in 0 .. Len(q) - 1 /\ f \in FramesOf(q, s) /\ s > n /\ d.cursor = s
    BY <1>3, <1>4, <1>7, <2>2 DEF GenuineFrame, CursorAfter
  <2>4. Speaks(e, f)
    BY <2>2, <2>3, FrameOf
  <2>5. \A t \in n + 1 .. s - 1 : Idles(q[t + 1])
    BY <1>0, <1>1, <1>7, <2>2, LullBefore
  <2>6. ASSUME NEW i \in (n + 1) + 1 .. s PROVE Idles(q[i])
    <3>1. i - 1 \in n + 1 .. s - 1 /\ (i - 1) + 1 = i
      BY <1>0, <1>1, <2>3
    <3>2. QED
      BY <2>5, <3>1
  <2>7. /\ InTurn(q, s) <=> InTurn(q, n + 1)
        /\ \A x : Asked(q, s, x) <=> Asked(q, n + 1, x)
    <3>1. n + 1 \in Nat /\ s \in Nat /\ n + 1 <= s
      BY <1>0, <1>1, <2>3
    <3>2. QED
      BY <2>6, <3>1, Lull
  <2>8. /\ InTurn(q, s + 1) <=> e.type = "TaskWoken" \/ (InTurn(q, s) /\ ~Closes(e))
        /\ \A x : Asked(q, s + 1, x) <=> \/ e.type = "UserQuestionRequested" /\ e.id = x
                                         \/ Asked(q, s, x) /\ ~Settles(e)
    <3>1. s + 1 \in Nat /\ s + 1 > 0 /\ (s + 1) - 1 = s
      BY <2>3
    <3>2. QED
      BY <2>2, <3>1, TurnStep, AskedStep
  <2>9. Fits(q, s, e)
    <3>1. s + 1 \in 1 .. Len(q) /\ (s + 1) - 1 = s
      BY <2>3
    <3>2. QED
      BY <2>2, <3>1 DEF QuestionsInTurn
  <2>10. e.type = "TaskCancelled" => Shut(d)
    BY <2>1, <2>4 DEF Speaks, FoldsTo
  <2>11. ASSUME ~refd PROVE RunningRight(q, d, stage) /\ QuestionRight(q, d) /\ Cards(d)
    <3>1. RunningRight(q, c, stage) /\ QuestionRight(q, c) /\ Cards(b)
      BY <2>1, <2>11 DEF ConvOf, Cards
    <3>2. RunningRight(q, d, stage)
      <4>1. CASE f.type = "turn_started"
        BY <2>1, <2>3, <2>4, <2>8, <4>1 DEF FoldsTo, RunningAfter, Speaks, RunningRight
      <4>2. CASE f.type \in {"turn_finished", "error", "rewind"}
        <5>1. Closes(e) /\ e.type # "TaskWoken"
          BY <2>4, <4>2 DEF Speaks
        <5>2. d.running = FALSE
          BY <2>1, <4>2 DEF FoldsTo, RunningAfter
        <5>3. QED
          BY <2>3, <2>8, <5>1, <5>2 DEF RunningRight
      <4>3. CASE f.type \notin {"turn_started", "turn_finished", "error", "rewind"}
        <5>1. ~Closes(e) /\ e.type # "TaskWoken"
          BY <2>4, <4>3 DEF Speaks
        <5>2. d.running = c.running
          BY <2>1, <4>3 DEF FoldsTo, RunningAfter
        <5>3. CASE (c.running = TRUE) <=> InTurn(q, n + 1)
          BY <2>3, <2>7, <2>8, <5>1, <5>2, <5>3 DEF RunningRight
        <5>4. CASE c.running = TRUE /\ stage = "drive"
          BY <5>2, <5>4 DEF RunningRight
        <5>5. CASE c.running = TRUE /\ \E t \in n + 1 .. Len(q) - 1 : q[t + 1].type = "TaskWoken"
          <6>1. PICK t \in n + 1 .. Len(q) - 1 : q[t + 1].type = "TaskWoken"
            BY <5>5
          <6>2. ~(t \in n + 1 .. s - 1)
            BY <2>5, <6>1 DEF Idles
          <6>3. t # s
            BY <2>2, <5>1, <6>1
          <6>4. t \in s + 1 .. Len(q) - 1
            BY <1>0, <1>1, <2>3, <6>2, <6>3
          <6>5. QED
            BY <2>3, <5>2, <5>5, <6>1, <6>4 DEF RunningRight
        <5>6. QED
          BY <1>1, <3>1, <5>3, <5>4, <5>5 DEF RunningRight
      <4>4. QED
        BY <4>1, <4>2, <4>3
    <3>3. /\ c.question = None => \A x \in Questions : ~Asked(q, s, x)
          /\ c.question # None => c.question \in Questions /\ Asked(q, s, c.question)
      BY <1>1, <2>7, <3>1 DEF QuestionRight
    <3>4. \A x, y : Asked(q, s, x) /\ Asked(q, s, y) => x = y
      <4>1. s \in 0 .. Len(q)
        BY <2>3
      <4>2. QED
        BY <1>0, <4>1, OneAsked
    <3>5. CASE f.type = "question"
      <4>1. /\ e.type = "UserQuestionRequested" /\ f.id = e.id /\ e.id \in Questions
            /\ \A x \in Questions : ~Asked(q, s, x)
        BY <2>4, <2>9, <3>5 DEF Speaks, Fits
      <4>2. c.question = None /\ f.id # None
        BY <3>3, <4>1
      <4>3. CardsReady(b, f) /\ d.question = f.id
        BY <2>1, <3>5, <4>2 DEF CardsReady, FoldsTo, QuestionAfter
      <4>4. Cards(d)
        BY <2>1, <3>1, <4>3 DEF FoldsTo
      <4>5. QuestionRight(q, d)
        BY <2>3, <2>8, <4>1, <4>2, <4>3 DEF QuestionRight
      <4>6. QED
        BY <3>2, <4>4, <4>5
    <3>6. CASE f.type \in {"question_answered", "question_withdrawn"}
      <4>1. /\ e.type \in {"UserQuestionAnswered", "UserQuestionWithdrawn"} /\ f.id = e.id
            /\ e.id \in Questions /\ Asked(q, s, e.id)
        BY <2>4, <2>9, <3>6 DEF Speaks, Fits
      <4>2. c.question = f.id
        BY <3>3, <3>4, <4>1
      <4>3. CardsReady(b, f) /\ d.question = None
        BY <2>1, <3>6, <4>2 DEF CardsReady, FoldsTo, QuestionAfter
      <4>4. Cards(d)
        BY <2>1, <3>1, <4>3 DEF FoldsTo
      <4>5. \A x : ~Asked(q, s + 1, x)
        BY <2>8, <4>1 DEF Settles
      <4>6. QED
        BY <2>3, <3>2, <4>3, <4>4, <4>5 DEF QuestionRight
    <3>7. CASE f.type \in {"turn_finished", "error", "rewind"}
      <4>1. Closes(e) /\ e.type # "UserQuestionRequested"
        BY <2>4, <3>7 DEF Speaks
      <4>2. \A x : ~Asked(q, s + 1, x)
        BY <2>8, <4>1 DEF Settles
      <4>3. f.type \in {"error", "rewind"} => c.question = None
        <5>1. f.type \in {"error", "rewind"} => e.type \in {"TaskFailed", "TaskRewound"}
          BY <2>4 DEF Speaks
        <5>2. QED
          BY <2>9, <3>3, <5>1 DEF Fits
      <4>4. CardsReady(b, f) /\ d.question = None
        BY <2>1, <3>7, <4>3 DEF CardsReady, FoldsTo, QuestionAfter
      <4>5. Cards(d)
        BY <2>1, <3>1, <4>4 DEF FoldsTo
      <4>6. QED
        BY <2>3, <3>2, <4>2, <4>4, <4>5 DEF QuestionRight
    <3>8. CASE f.type \notin {"question", "question_answered", "question_withdrawn", "turn_finished",
                              "error", "rewind"}
      <4>1. ~Settles(e) /\ e.type # "UserQuestionRequested"
        BY <2>4, <3>8 DEF Speaks, Settles
      <4>2. \A x : Asked(q, s + 1, x) <=> Asked(q, s, x)
        BY <2>8, <4>1
      <4>3. CardsReady(b, f) /\ d.question = c.question
        BY <2>1, <3>8 DEF CardsReady, FoldsTo, QuestionAfter
      <4>4. Cards(d)
        BY <2>1, <3>1, <4>3 DEF FoldsTo
      <4>5. QuestionRight(q, d)
        BY <2>3, <3>3, <4>2, <4>3 DEF QuestionRight
      <4>6. QED
        BY <3>2, <4>4, <4>5
    <3>9. QED
      BY <3>5, <3>6, <3>7, <3>8
  <2>12. QED
    BY <1>1, <1>4, <2>2, <2>3, <2>10, <2>11 DEF ConvOf
<1>8. QED
  BY <1>5, <1>6, <1>7

-----------------------------------------------------------------------------
(* The invariant *)

Stages == {"none", "request", "steer", "prepared", "drive", "error"}

FoldInv ==
    /\ log \in Seq(Envelopes) /\ sublog \in [Subtasks -> Seq(Envelopes)] /\ injected \in Seq(Ids)
    /\ pipe \in Seq(Frames) /\ online \in BOOLEAN /\ refused \in BOOLEAN
    /\ post \in [stage : Stages, text : Ids, key : Int]
    /\ EngineOf(log, turn)
    /\ PipeOf(log, pipe, conv.cursor, online, refused, post.stage)
    /\ ConvOf(log, conv, refused, post.stage)

LEMMA EnvIs ==
    ASSUME NEW t \in EnvelopeTypes, NEW x \in Ids, t = "SubtaskSpawned" => x \in Subtasks
    PROVE  Env(t, x) \in Envelopes /\ Env(t, x).type = t /\ Env(t, x).id = x
BY DEF Env, Envelopes

LEMMA IdsAre ==
    /\ Texts \subseteq Ids /\ Calls \subseteq Ids /\ Subtasks \subseteq Ids /\ Questions \subseteq Ids
    /\ Words \subseteq Ids /\ None \in Ids /\ None \notin Questions
BY Bounds DEF Ids, Words

LEMMA ConvKept ==
    ASSUME NEW q \in Seq(Envelopes), NEW e \in Envelopes, NEW c, NEW refd, NEW stage, ConvOf(q, c, refd, stage)
    PROVE  ConvOf(Append(q, e), c, refd, stage)
<1>1. PICK r : r = Append(q, e)
  OBVIOUS
<1>2. /\ Len(q) \in Nat /\ Len(r) = Len(q) + 1 /\ c.cursor \in -1 .. Len(q) - 1 /\ c.cursor \in -1 .. Len(r) - 1
      /\ \A i \in 1 .. Len(q) : r[i] = q[i]
  BY <1>1 DEF ConvOf
<1>3. c.cursor + 1 \in 0 .. Len(q)
  BY <1>2
<1>4. /\ InTurn(r, c.cursor + 1) <=> InTurn(q, c.cursor + 1)
      /\ \A x : Asked(r, c.cursor + 1, x) <=> Asked(q, c.cursor + 1, x)
  BY <1>1, <1>3, LogGrows
<1>5. \A s \in c.cursor + 1 .. Len(q) - 1 : s \in c.cursor + 1 .. Len(r) - 1 /\ r[s + 1] = q[s + 1]
  BY <1>2
<1>6. c.cursor >= 0 => r[c.cursor + 1] = q[c.cursor + 1]
  BY <1>2
<1>7. RunningRight(q, c, stage) => RunningRight(r, c, stage)
  BY <1>4, <1>5 DEF RunningRight
<1>8. QuestionRight(q, c) => QuestionRight(r, c)
  BY <1>4 DEF QuestionRight
<1>9. QED
  BY <1>1, <1>2, <1>6, <1>7, <1>8 DEF ConvOf

(* The place of a send matters only while its turn_started is ahead of its turn. *)
LEMMA StageMoves ==
    ASSUME NEW q, NEW p, NEW c, NEW n, NEW on, NEW refd, NEW stage, NEW refd1, NEW stage1,
           refd => refd1, stage = "drive" => refd1 \/ stage1 = "drive"
    PROVE  /\ Asides(p, refd, stage) => Asides(p, refd1, stage1)
           /\ PipeOf(q, p, n, on, refd, stage) => PipeOf(q, p, n, on, refd1, stage1)
           /\ ConvOf(q, c, refd, stage) => ConvOf(q, c, refd1, stage1)
<1>1. Asides(p, refd, stage) => Asides(p, refd1, stage1)
  BY DEF Asides, Aside
<1>2. RunningRight(q, c, stage) /\ ~refd1 => RunningRight(q, c, stage1)
  BY DEF RunningRight
<1>3. QED
  BY <1>1, <1>2 DEF PipeOf, ConvOf

LEMMA PublishOne ==
    ASSUME FoldInv, NEW e \in Envelopes, Publish(<<e>>)
    PROVE  /\ log' = Append(log, e) /\ log' \in Seq(Envelopes) /\ pipe' \in Seq(Frames)
           /\ online => pipe' = pipe \o TranslateRoot(e, Len(log))
           /\ ~online => pipe' = pipe
           /\ PipeOf(log', pipe', conv.cursor, online, refused, post.stage)
           /\ ConvOf(log', conv, refused, post.stage)
<1>1. /\ log \in Seq(Envelopes) /\ pipe \in Seq(Frames) /\ conv.cursor \in -1 .. Len(log) - 1
      /\ PipeOf(log, pipe, conv.cursor, online, refused, post.stage)
      /\ ConvOf(log, conv, refused, post.stage)
  BY DEF FoldInv, ConvOf
<1>2. log' = Append(log, e)
  BY <1>1 DEF Publish
<1>3. PICK a : a = TranslateRoot(e, Len(log))
  OBVIOUS
<1>4. /\ a \in Seq(Frames)
      /\ online => /\ pipe \o a \in Seq(Frames)
                   /\ PipeOf(Append(log, e), pipe \o a, conv.cursor, online, refused, post.stage)
      /\ ~online => PipeOf(Append(log, e), pipe, conv.cursor, online, refused, post.stage)
  BY <1>1, <1>3, Fanned
<1>5. FlattenSeq([i \in DOMAIN <<e>> |-> TranslateRoot(<<e>>[i], Newest + i)]) = a
  <2>1. Newest + 1 = Len(log)
    BY <1>1 DEF Newest
  <2>2. [i \in DOMAIN <<e>> |-> TranslateRoot(<<e>>[i], Newest + i)] = <<a>>
    BY <1>3, <2>1
  <2>3. QED
    BY <1>4, <2>2, FlattenOne
<1>6. pipe' = IF online THEN pipe \o a ELSE pipe
  BY <1>5 DEF Publish, Send
<1>7. ConvOf(Append(log, e), conv, refused, post.stage)
  BY <1>1, ConvKept
<1>8. QED
  BY <1>1, <1>2, <1>3, <1>4, <1>6, <1>7

LEMMA PublishTwo ==
    ASSUME FoldInv, NEW d \in Envelopes, NEW e \in Envelopes, Publish(<<d, e>>)
    PROVE  /\ log' = Append(Append(log, d), e) /\ log' \in Seq(Envelopes) /\ pipe' \in Seq(Frames)
           /\ PipeOf(log', pipe', conv.cursor, online, refused, post.stage)
           /\ ConvOf(log', conv, refused, post.stage)
           /\ online => /\ pipe' = (pipe \o TranslateRoot(d, Len(log))) \o TranslateRoot(e, Len(log) + 1)
                        /\ pipe \o TranslateRoot(d, Len(log)) \in Seq(Frames)
           /\ ~online => pipe' = pipe
<1>1. /\ log \in Seq(Envelopes) /\ pipe \in Seq(Frames) /\ conv.cursor \in -1 .. Len(log) - 1
      /\ PipeOf(log, pipe, conv.cursor, online, refused, post.stage)
      /\ ConvOf(log, conv, refused, post.stage)
  BY DEF FoldInv, ConvOf
<1>2. PICK r : r = Append(log, d)
  OBVIOUS
<1>3. /\ r \in Seq(Envelopes) /\ Len(r) = Len(log) + 1 /\ conv.cursor \in -1 .. Len(r) - 1
      /\ log' = Append(r, e)
  BY <1>1, <1>2 DEF Publish
<1>4. PICK a, b : a = TranslateRoot(d, Len(log)) /\ b = TranslateRoot(e, Len(r))
  OBVIOUS
<1>5. /\ a \in Seq(Frames)
      /\ online => /\ pipe \o a \in Seq(Frames)
                   /\ PipeOf(r, pipe \o a, conv.cursor, online, refused, post.stage)
      /\ ~online => PipeOf(r, pipe, conv.cursor, online, refused, post.stage)
  BY ZenonT(60), <1>1, <1>2, <1>4, Fanned
<1>6. CASE online
  <2>1. /\ b \in Seq(Frames) /\ (pipe \o a) \o b \in Seq(Frames)
        /\ PipeOf(Append(r, e), (pipe \o a) \o b, conv.cursor, online, refused, post.stage)
    BY <1>3, <1>4, <1>5, <1>6, Fanned
  <2>2. (pipe \o a) \o b = pipe \o (a \o b)
    BY SMTT(30), <1>1, <1>5, <2>1
  <2>3. QED
    <3>1. FlattenSeq([i \in DOMAIN <<d, e>> |-> TranslateRoot(<<d, e>>[i], Newest + i)]) = a \o b
      <4>1. Newest + 1 = Len(log) /\ Newest + 2 = Len(r)
        BY <1>1, <1>3 DEF Newest
      <4>2. [i \in DOMAIN <<d, e>> |-> TranslateRoot(<<d, e>>[i], Newest + i)] = <<a, b>>
        BY <1>4, <4>1
      <4>3. QED
        BY <1>5, <2>1, <4>2, FlattenTwo
    <3>2. pipe' = pipe \o (a \o b)
      BY <1>6, <3>1 DEF Publish, Send
    <3>3. ConvOf(log', conv, refused, post.stage)
      BY <1>1, <1>2, <1>3, ConvKept
    <3>4. log' \in Seq(Envelopes) /\ log' = Append(Append(log, d), e)
      BY <1>2, <1>3
    <3>5. pipe' = (pipe \o a) \o b /\ pipe \o a \in Seq(Frames)
      BY <1>5, <1>6, <2>2, <3>2
    <3>6. a = TranslateRoot(d, Len(log)) /\ b = TranslateRoot(e, Len(log) + 1)
      BY <1>3, <1>4
    <3>7. QED
      BY <1>3, <1>6, <2>1, <3>3, <3>4, <3>5, <3>6
<1>7. CASE ~online
  <2>1. PipeOf(Append(r, e), pipe, conv.cursor, online, refused, post.stage)
    BY <1>1, <1>3, <1>5, <1>7, Fanned
  <2>2. pipe' = pipe
    BY <1>7 DEF Publish, Send
  <2>3. ConvOf(log', conv, refused, post.stage)
    BY <1>1, <1>2, <1>3, ConvKept
  <2>4. log' \in Seq(Envelopes) /\ log' = Append(Append(log, d), e)
    BY <1>2, <1>3
  <2>5. QED
    BY <1>1, <1>3, <1>7, <2>1, <2>2, <2>3, <2>4
<1>8. QED
  BY <1>6, <1>7

-----------------------------------------------------------------------------
(* The engine's actions *)

LEMMA KeptByOne ==
    ASSUME FoldInv, NEW e \in Envelopes, Publish(<<e>>), sublog' = sublog, injected' \in Seq(Ids),
           UNCHANGED clientVars, EngineOf(Append(log, e), turn')
    PROVE  FoldInv'
<1>1. /\ log' = Append(log, e) /\ log' \in Seq(Envelopes) /\ pipe' \in Seq(Frames)
      /\ PipeOf(log', pipe', conv.cursor, online, refused, post.stage)
      /\ ConvOf(log', conv, refused, post.stage)
  BY PublishOne
<1>2. conv' = conv /\ online' = online /\ post' = post /\ refused' = refused
  BY DEF clientVars
<1>3. QED
  BY <1>1, <1>2 DEF FoldInv

LEMMA KeptByTwo ==
    ASSUME FoldInv, NEW d \in Envelopes, NEW e \in Envelopes, Publish(<<d, e>>), sublog' = sublog,
           injected' \in Seq(Ids), UNCHANGED clientVars, EngineOf(Append(Append(log, d), e), turn')
    PROVE  FoldInv'
<1>1. /\ log' = Append(Append(log, d), e) /\ log' \in Seq(Envelopes) /\ pipe' \in Seq(Frames)
      /\ PipeOf(log', pipe', conv.cursor, online, refused, post.stage)
      /\ ConvOf(log', conv, refused, post.stage)
  BY PublishTwo
<1>2. conv' = conv /\ online' = online /\ post' = post /\ refused' = refused
  BY DEF clientVars
<1>3. QED
  BY <1>1, <1>2 DEF FoldInv

LEMMA ProgressKeeps ==
    ASSUME FoldInv, Progress PROVE FoldInv'
<1>1. PICK e : e \in Envelopes /\ Idles(e) /\ Publish(<<e>>)
  <2> DEFINE Plain == {"AssistantMessage", "ToolCallStarted", "ToolResultRecorded", "TaskStatePatched"}
  <2>0. ASSUME NEW t \in Plain, NEW x \in Ids PROVE Env(t, x) \in Envelopes /\ Idles(Env(t, x))
    BY EnvIs DEF EnvelopeTypes, Idles, Settles, Closes
  <2>1. CASE Publish(<<Env("AssistantMessage", "answer")>>)
    BY <2>0, <2>1, IdsAre DEF Words
  <2>2. CASE \E c \in FreshCalls : Publish(<<Env("ToolCallStarted", c)>>)
    BY <2>0, <2>2, IdsAre DEF FreshCalls
  <2>3. CASE \E c \in OpenCalls : Publish(<<Env("ToolResultRecorded", c)>>)
    BY <2>0, <2>3, IdsAre DEF OpenCalls
  <2>4. CASE Publish(<<Env("TaskStatePatched", "todos")>>)
    BY <2>0, <2>4, IdsAre DEF Words
  <2>5. CASE \E s \in Subtasks : Publish(<<Env("SubtaskSpawned", s)>>)
    <3>1. PICK s \in Subtasks : Publish(<<Env("SubtaskSpawned", s)>>)
      BY <2>5
    <3>2. Env("SubtaskSpawned", s) \in Envelopes /\ Env("SubtaskSpawned", s).type = "SubtaskSpawned"
      BY IdsAre, EnvIs DEF EnvelopeTypes
    <3>3. Idles(Env("SubtaskSpawned", s))
      BY <3>2 DEF Idles, Settles, Closes
    <3>4. QED
      BY <3>1, <3>2, <3>3
  <2>6. CASE Publish(<<Env("TaskSuspended", "barrier")>>)
    <3>1. /\ Env("TaskSuspended", "barrier") \in Envelopes /\ Env("TaskSuspended", "barrier").id = "barrier"
          /\ Env("TaskSuspended", "barrier").type = "TaskSuspended"
      BY IdsAre, EnvIs DEF EnvelopeTypes, Words
    <3>2. Idles(Env("TaskSuspended", "barrier"))
      BY <3>1 DEF Idles, Settles, Closes
    <3>3. QED
      BY <2>6, <3>1, <3>2
  <2>7. QED
    BY <2>1, <2>2, <2>3, <2>4, <2>5, <2>6 DEF Progress
<1>2. EngineOf(Append(log, e), turn)
  BY <1>1, EnginePlain DEF FoldInv
<1>3. sublog' = sublog /\ turn' = turn /\ injected' = injected /\ UNCHANGED clientVars
  BY DEF Progress
<1>4. injected' \in Seq(Ids)
  BY <1>3 DEF FoldInv
<1>5. QED
  BY <1>1, <1>2, <1>3, <1>4, KeptByOne

LEMMA DeliverKeeps ==
    ASSUME FoldInv, Deliver PROVE FoldInv'
<1>1. PICK s \in LiveSubtasks : Publish(<<Env("SubtaskCompleted", s)>>)
  BY DEF Deliver
<1>2. PICK e : e = Env("SubtaskCompleted", s)
  OBVIOUS
<1>3. e \in Envelopes /\ e.type = "SubtaskCompleted"
  BY <1>2, IdsAre, EnvIs DEF EnvelopeTypes, LiveSubtasks
<1>4. Idles(e)
  BY <1>3 DEF Idles, Settles, Closes
<1>5. EngineOf(Append(log, e), turn)
  BY <1>3, <1>4, EnginePlain DEF FoldInv
<1>6. sublog' = sublog /\ turn' = turn /\ injected' = injected /\ UNCHANGED clientVars
  BY DEF Deliver
<1>7. injected' \in Seq(Ids)
  BY <1>6 DEF FoldInv
<1>8. QED
  BY <1>1, <1>2, <1>3, <1>5, <1>6, <1>7, KeptByOne

LEMMA AskKeeps ==
    ASSUME FoldInv, Ask PROVE FoldInv'
<1>1. PICK q \in Questions : Publish(<<Env("UserQuestionRequested", q), Env("TaskSuspended", "question")>>)
  BY DEF Ask
<1>2. PICK d, e : d = Env("UserQuestionRequested", q) /\ e = Env("TaskSuspended", "question")
  OBVIOUS
<1>3. /\ d \in Envelopes /\ d.type = "UserQuestionRequested" /\ d.id = q
      /\ e \in Envelopes /\ e.type = "TaskSuspended" /\ e.id = "question"
  BY <1>2, IdsAre, EnvIs DEF EnvelopeTypes, Words
<1>4. Idles(e)
  BY <1>3 DEF Idles, Settles, Closes
<1>5. log \in Seq(Envelopes) /\ EngineOf(log, "running")
  BY DEF FoldInv, Ask
<1>6. EngineOf(Append(log, d), "waiting") /\ Append(log, d) \in Seq(Envelopes)
  BY <1>3, <1>5, EngineAsks
<1>7. EngineOf(Append(Append(log, d), e), "waiting")
  BY <1>3, <1>4, <1>6, EnginePlain
<1>8. sublog' = sublog /\ turn' = "waiting" /\ injected' = injected /\ UNCHANGED clientVars
  BY DEF Ask
<1>9. injected' \in Seq(Ids)
  BY <1>8 DEF FoldInv
<1>10. QED
  BY <1>1, <1>2, <1>3, <1>7, <1>8, <1>9, KeptByTwo

LEMMA AnswerKeeps ==
    ASSUME FoldInv, Answer PROVE FoldInv'
<1>1. PICK q \in OpenQuestions : Publish(<<Env("UserQuestionAnswered", q), Env("TaskWoken", None)>>)
  BY DEF Answer
<1>2. PICK d, e : d = Env("UserQuestionAnswered", q) /\ e = Env("TaskWoken", None)
  OBVIOUS
<1>3. q \in OpenIn(log) /\ q \in Questions
  BY DEF OpenIn, OpenQuestions, Logged
<1>4. d \in Envelopes /\ e \in Envelopes /\ e.type = "TaskWoken"
  BY <1>2, <1>3, IdsAre, EnvIs DEF EnvelopeTypes
<1>5. log \in Seq(Envelopes) /\ EngineOf(log, "waiting")
  BY DEF FoldInv, Answer
<1>6. EngineOf(Append(log, d), "running") /\ Append(log, d) \in Seq(Envelopes)
  BY <1>2, <1>3, <1>4, <1>5, EngineSettles
<1>7. EngineOf(Append(Append(log, d), e), "running")
  BY <1>4, <1>6, EngineWake
<1>8. sublog' = sublog /\ turn' = "running" /\ injected' = injected /\ UNCHANGED clientVars
  BY DEF Answer
<1>9. injected' \in Seq(Ids)
  BY <1>8 DEF FoldInv
<1>10. QED
  BY <1>1, <1>2, <1>4, <1>7, <1>8, <1>9, KeptByTwo

LEMMA WithdrawKeeps ==
    ASSUME FoldInv, Withdraw PROVE FoldInv'
<1>1. PICK q \in OpenQuestions :
          Publish(<<Env("UserQuestionWithdrawn", q), Env("TaskSuspended", "interrupted")>>)
  BY DEF Withdraw
<1>2. PICK d, e : d = Env("UserQuestionWithdrawn", q) /\ e = Env("TaskSuspended", "interrupted")
  OBVIOUS
<1>3. q \in OpenIn(log) /\ q \in Questions
  BY DEF OpenIn, OpenQuestions, Logged
<1>4. d \in Envelopes /\ e \in Envelopes /\ e.type = "TaskSuspended" /\ e.id = "interrupted"
  BY <1>2, <1>3, IdsAre, EnvIs DEF EnvelopeTypes, Words
<1>5. log \in Seq(Envelopes) /\ EngineOf(log, "waiting") /\ Closes(e)
  BY <1>4 DEF FoldInv, Withdraw, Closes
<1>6. EngineOf(Append(log, d), "running") /\ Append(log, d) \in Seq(Envelopes)
  BY <1>2, <1>3, <1>4, <1>5, EngineSettles
<1>7. EngineOf(Append(Append(log, d), e), "idle")
  BY <1>4, <1>5, <1>6, EngineCloses
<1>8. sublog' = sublog /\ turn' = "idle" /\ injected' = injected /\ UNCHANGED clientVars
  BY DEF Withdraw
<1>9. injected' \in Seq(Ids)
  BY <1>8 DEF FoldInv
<1>10. QED
  BY <1>1, <1>2, <1>4, <1>7, <1>8, <1>9, KeptByTwo

LEMMA ParkKeeps ==
    ASSUME FoldInv, Park PROVE FoldInv'
<1>1. PICK why \in {"awaiting_input", "interrupted", "turn_failed"} : Publish(<<Env("TaskSuspended", why)>>)
  BY DEF Park
<1>2. PICK e : e = Env("TaskSuspended", why)
  OBVIOUS
<1>3. e \in Envelopes /\ e.type = "TaskSuspended" /\ e.id = why
  BY <1>2, IdsAre, EnvIs DEF EnvelopeTypes, Words
<1>4. Closes(e)
  BY <1>3 DEF Closes
<1>5. log \in Seq(Envelopes) /\ EngineOf(log, "running")
  BY DEF FoldInv, Park
<1>6. EngineOf(Append(log, e), "idle")
  BY <1>3, <1>4, <1>5, EngineCloses
<1>7. sublog' = sublog /\ turn' = "idle" /\ injected' = injected /\ UNCHANGED clientVars
  BY DEF Park
<1>8. injected' \in Seq(Ids)
  BY <1>7 DEF FoldInv
<1>9. QED
  BY <1>1, <1>2, <1>3, <1>6, <1>7, <1>8, KeptByOne

LEMMA EndKeeps ==
    ASSUME FoldInv, End PROVE FoldInv'
<1>1. PICK t \in {"TaskCancelled", "TaskFailed", "TaskCompleted"} :
          (t # "TaskCancelled" => turn = "running") /\ Publish(<<Env(t, None)>>)
  BY DEF End
<1>2. PICK e : e = Env(t, None)
  OBVIOUS
<1>3. e \in Envelopes /\ e.type = t
  BY <1>2, IdsAre, EnvIs DEF EnvelopeTypes
<1>4. Closes(e)
  BY <1>3 DEF Closes
<1>5. log \in Seq(Envelopes) /\ EngineOf(log, turn)
  BY DEF FoldInv
<1>6. EngineOf(Append(log, e), "over")
  BY <1>1, <1>3, <1>4, <1>5, EngineCloses
<1>7. sublog' = sublog /\ turn' = "over" /\ injected' = injected /\ UNCHANGED clientVars
  BY DEF End
<1>8. injected' \in Seq(Ids)
  BY <1>7 DEF FoldInv
<1>9. QED
  BY <1>1, <1>2, <1>3, <1>6, <1>7, <1>8, KeptByOne

LEMMA DrainKeeps ==
    ASSUME FoldInv, Drain PROVE FoldInv'
<1>1. PICK e : e = Env("UserMessage", Head(injected))
  OBVIOUS
<1>2. injected \in Seq(Ids) /\ injected # <<>>
  BY DEF FoldInv, Drain
<1>3. Head(injected) \in Ids /\ Tail(injected) \in Seq(Ids)
  BY <1>2
<1>4. e \in Envelopes /\ e.type = "UserMessage"
  BY <1>1, <1>3, EnvIs DEF EnvelopeTypes
<1>5. Idles(e)
  BY <1>4 DEF Idles, Settles, Closes
<1>6. EngineOf(Append(log, e), turn)
  BY <1>4, <1>5, EnginePlain DEF FoldInv
<1>7. /\ Publish(<<e>>) /\ sublog' = sublog /\ turn' = turn /\ injected' \in Seq(Ids)
      /\ UNCHANGED clientVars
  BY <1>1, <1>3 DEF Drain
<1>8. QED
  BY <1>4, <1>6, <1>7, KeptByOne

LEMMA EngineTurn ==
    ASSUME FoldInv, turn = "idle", NEW x \in Ids
    PROVE  /\ Env("UserMessage", x) \in Envelopes /\ Env("TaskWoken", None) \in Envelopes
           /\ EngineOf(Append(Append(log, Env("UserMessage", x)), Env("TaskWoken", None)), "running")
<1>1. PICK d, e : d = Env("UserMessage", x) /\ e = Env("TaskWoken", None)
  OBVIOUS
<1>2. d \in Envelopes /\ d.type = "UserMessage" /\ e \in Envelopes /\ e.type = "TaskWoken"
  BY <1>1, IdsAre, EnvIs DEF EnvelopeTypes
<1>3. Idles(d)
  BY <1>2 DEF Idles, Settles, Closes
<1>4. log \in Seq(Envelopes) /\ EngineOf(log, "idle")
  BY DEF FoldInv
<1>5. EngineOf(Append(log, d), "idle") /\ Append(log, d) \in Seq(Envelopes)
  BY <1>2, <1>3, <1>4, EnginePlain
<1>6. EngineOf(Append(Append(log, d), e), "running")
  BY <1>2, <1>5, EngineWake
<1>7. QED
  BY <1>1, <1>2, <1>6

LEMMA OtherSendKeeps ==
    ASSUME FoldInv, OtherSend PROVE FoldInv'
<1>1. PICK t \in Texts : Publish(<<Env("UserMessage", t), Env("TaskWoken", None)>>)
  BY DEF OtherSend
<1>2. t \in Ids /\ turn = "idle"
  BY IdsAre DEF OtherSend
<1>3. sublog' = sublog /\ turn' = "running" /\ injected' = injected /\ UNCHANGED clientVars
  BY DEF OtherSend
<1>4. injected' \in Seq(Ids)
  BY <1>3 DEF FoldInv
<1>5. QED
  BY <1>1, <1>2, <1>3, <1>4, EngineTurn, KeptByTwo

LEMMA RewindKeeps ==
    ASSUME FoldInv, Rewind PROVE FoldInv'
<1>1. PICK s \in 0 .. Newest : Publish(<<TaskRewound(s - 1)>>)
  BY DEF Rewind
<1>2. PICK e : e = TaskRewound(s - 1)
  OBVIOUS
<1>3. e \in Envelopes /\ e.type = "TaskRewound"
  BY <1>2, IdsAre DEF TaskRewound, Envelopes, EnvelopeTypes
<1>4. Closes(e)
  BY <1>3 DEF Closes
<1>5. log \in Seq(Envelopes) /\ EngineOf(log, "idle")
  BY DEF FoldInv, Rewind
<1>6. EngineOf(Append(log, e), "idle")
  BY <1>3, <1>4, <1>5, EngineCloses
<1>7. sublog' = sublog /\ turn' = "idle" /\ injected' = injected /\ UNCHANGED clientVars
  BY DEF Rewind
<1>8. injected' \in Seq(Ids)
  BY <1>7 DEF FoldInv
<1>9. QED
  BY <1>1, <1>2, <1>3, <1>6, <1>7, <1>8, KeptByOne

LEMMA SubtaskStepKeeps ==
    ASSUME FoldInv, SubtaskStep PROVE FoldInv'
<1>1. PICK s, e : s \in LiveSubtasks /\ e \in Envelopes /\ PublishSub(s, e)
  <2>1. PICK s \in LiveSubtasks :
            \/ \E c \in FreshCalls : PublishSub(s, Env("ToolCallStarted", c))
            \/ \E c \in Calls : PublishSub(s, Env("ToolResultRecorded", c))
            \/ PublishSub(s, Env("TaskCancelled", None))
    BY DEF SubtaskStep
  <2>2. ASSUME NEW t \in {"ToolCallStarted", "ToolResultRecorded", "TaskCancelled"}, NEW x \in Ids
        PROVE  Env(t, x) \in Envelopes
    BY EnvIs DEF EnvelopeTypes
  <2>3. \A c \in FreshCalls : c \in Ids
    BY IdsAre DEF FreshCalls
  <2>4. QED
    BY <2>1, <2>2, <2>3, IdsAre
<1>2. PICK a : a = TranslateSubtask(e, s)
  OBVIOUS
<1>3. s \in Subtasks
  BY <1>1 DEF LiveSubtasks
<1>4. a \in Seq(Frames) /\ \A f \in ToSet(a) : f.seq = NoSeq /\ f.type \in SubTypes
  BY <1>1, <1>2, <1>3, SubFrames
<1>5. \A k \in DOMAIN a : a[k].seq = NoSeq /\ a[k].type \in SubTypes
  BY <1>4 DEF ToSet
<1>6. \A t \in SubTypes : t \in AsideTypes /\ t \notin {"error", "turn_finished", "turn_started"}
  BY DEF SubTypes, AsideTypes
<1>7. Asides(a, refused, post.stage)
  BY <1>5, <1>6 DEF Asides, Aside
<1>8. pipe \in Seq(Frames) /\ PipeOf(log, pipe, conv.cursor, online, refused, post.stage)
  BY DEF FoldInv
<1>9. /\ online => PipeOf(log, pipe \o a, conv.cursor, online, refused, post.stage)
      /\ ~online => PipeOf(log, pipe, conv.cursor, online, refused, post.stage)
  BY <1>4, <1>5, <1>7, <1>8, Pushed
<1>10. pipe' = IF online THEN pipe \o a ELSE pipe
  BY <1>1, <1>2 DEF PublishSub, Send
<1>11. pipe \o a \in Seq(Frames)
  BY <1>4, <1>8
<1>12. sublog' \in [Subtasks -> Seq(Envelopes)]
  <2>1. sublog' = [sublog EXCEPT ![s] = Append(sublog[s], e)] /\ sublog \in [Subtasks -> Seq(Envelopes)]
    BY <1>1 DEF PublishSub, FoldInv
  <2>2. Append(sublog[s], e) \in Seq(Envelopes)
    BY <1>1, <1>3, <2>1
  <2>3. QED
    BY <2>1, <2>2
<1>13. /\ log' = log /\ turn' = turn /\ injected' = injected /\ conv' = conv /\ online' = online
       /\ post' = post /\ refused' = refused
  BY DEF SubtaskStep, clientVars
<1>14. PipeOf(log, pipe', conv.cursor, online, refused, post.stage) /\ pipe' \in Seq(Frames)
  BY <1>8, <1>9, <1>10, <1>11
<1>15. QED
  BY <1>12, <1>13, <1>14 DEF FoldInv


-----------------------------------------------------------------------------
(* The browser's stream *)

LEMMA ConnectKeeps ==
    ASSUME FoldInv, Connect PROVE FoldInv'
<1>1. /\ log \in Seq(Envelopes) /\ log # <<>> /\ log[1].type = "TaskCreated"
      /\ sublog \in [Subtasks -> Seq(Envelopes)] /\ conv.cursor \in -1 .. Len(log) - 1
  BY DEF FoldInv, EngineOf, ConvOf
<1>2. /\ Replay(conv.cursor) \in Seq(Frames)
      /\ PipeOf(log, Replay(conv.cursor), conv.cursor, TRUE, refused, post.stage)
  BY <1>1, Replayed
<1>3. /\ pipe' = Replay(conv.cursor) /\ online' = TRUE /\ log' = log /\ sublog' = sublog /\ turn' = turn
      /\ injected' = injected /\ conv' = conv /\ post' = post /\ refused' = refused
  BY DEF Connect, engineVars
<1>4. QED
  BY <1>2, <1>3 DEF FoldInv

LEMMA ReceiveKeeps ==
    ASSUME FoldInv, Receive PROVE FoldInv'
<1>1. /\ log \in Seq(Envelopes) /\ pipe \in Seq(Frames) /\ pipe # <<>> /\ QuestionsInTurn(log)
      /\ conv \in Convs /\ conv.cursor \in -1 .. Len(log) - 1 /\ None \notin Questions
      /\ PipeOf(log, pipe, conv.cursor, online, refused, post.stage)
      /\ ConvOf(log, conv, refused, post.stage)
  BY IdsAre DEF FoldInv, Receive, EngineOf, ConvOf
<1>2. PICK d : d = Apply(conv, Head(pipe))
  OBVIOUS
<1>3. ConvOf(log, d, refused, post.stage)
  BY <1>1, <1>2, Received
<1>4. Head(pipe) \in Frames /\ Tail(pipe) \in Seq(Frames)
  BY <1>1, TailOf
<1>5. d.cursor = CursorAfter(conv.cursor, Head(pipe))
  BY <1>1, <1>2, <1>4, Applied
<1>6. PipeOf(log, Tail(pipe), d.cursor, online, refused, post.stage)
  BY <1>1, <1>5, PipeTail
<1>7. /\ conv' = d /\ pipe' = Tail(pipe) /\ log' = log /\ sublog' = sublog /\ turn' = turn
      /\ injected' = injected /\ online' = online /\ post' = post /\ refused' = refused
  BY <1>2 DEF Receive, engineVars
<1>8. QED
  BY <1>3, <1>4, <1>6, <1>7 DEF FoldInv

LEMMA DisconnectKeeps ==
    ASSUME FoldInv, Disconnect PROVE FoldInv'
<1>1. PipeOf(log, <<>>, conv.cursor, FALSE, refused, post.stage)
  BY DEF PipeOf, Ordered, Genuine, Asides
<1>2. /\ pipe' = <<>> /\ online' = FALSE /\ log' = log /\ sublog' = sublog /\ turn' = turn
      /\ injected' = injected /\ conv' = conv /\ post' = post /\ refused' = refused
  BY DEF Disconnect, engineVars
<1>3. <<>> \in Seq(Frames)
  OBVIOUS
<1>4. QED
  BY <1>1, <1>2, <1>3 DEF FoldInv

-----------------------------------------------------------------------------
(* Sending *)

(* The request moves on, and neither the stream nor the conversation does. *)
LEMMA OnlyThePostMoves ==
    ASSUME FoldInv, NEW c, NEW refd1 \in BOOLEAN, NEW post1 \in [stage : Stages, text : Ids, key : Int],
           refused => refd1, post.stage = "drive" => refd1 \/ post1.stage = "drive",
           c.cursor = conv.cursor, ConvOf(log, c, refused, post.stage),
           UNCHANGED <<log, sublog, turn, online, pipe>>, injected' \in Seq(Ids),
           conv' = c, refused' = refd1, post' = post1
    PROVE  FoldInv'
<1>1. PipeOf(log, pipe, conv.cursor, online, refused, post.stage)
  BY DEF FoldInv
<1>2. /\ PipeOf(log, pipe, c.cursor, online, refd1, post1.stage)
      /\ ConvOf(log, c, refd1, post1.stage)
  BY <1>1, StageMoves
<1>3. QED
  BY <1>2 DEF FoldInv

LEMMA DeliverMessageKeeps ==
    ASSUME FoldInv, DeliverMessage PROVE FoldInv'
<1>1. PICK t \in Texts :
          /\ conv' = [conv EXCEPT
                 !.items = Append(conv.items, Item("user", conv.nextKey, t, "pending", None, 0)),
                 !.nextKey = conv.nextKey - 1,
                 !.sending = TRUE]
          /\ post' = [stage |-> "request", text |-> t, key |-> conv.nextKey]
  BY DEF DeliverMessage
<1>2. PICK c, it, post1 : /\ it = Item("user", conv.nextKey, t, "pending", None, 0)
                          /\ c = [conv EXCEPT !.items = Append(conv.items, it),
                                              !.nextKey = conv.nextKey - 1, !.sending = TRUE]
                          /\ post1 = [stage |-> "request", text |-> t, key |-> conv.nextKey]
  OBVIOUS
<1>3. /\ conv \in Convs /\ conv.nextKey \in Int /\ conv.nextKey < 0 /\ conv.items \in Seq(RightItems)
      /\ t \in Ids /\ None \in Ids /\ ConvOf(log, conv, refused, post.stage)
  BY IdsAre DEF FoldInv, ConvOf, Convs
<1>4. it \in RightItems /\ it.kind = "user" /\ it.status = "pending"
  BY <1>2, <1>3 DEF Item, RightItems, ItemKinds, Statuses
<1>5. c \in Convs
  <2>1. Append(conv.items, it) \in Seq(RightItems) /\ conv.nextKey - 1 \in {n \in Int : n < 0}
    BY <1>3, <1>4
  <2>2. QED
    BY <1>2, <1>3, <2>1 DEF Convs
<1>6. /\ c.items = Append(conv.items, it) /\ c.running = conv.running /\ c.cursor = conv.cursor
      /\ c.question = conv.question
  BY <1>2, <1>3 DEF Convs
<1>7. \A i \in DOMAIN c.items : \/ i \in DOMAIN conv.items /\ c.items[i] = conv.items[i]
                                \/ c.items[i] = it
  BY <1>3, <1>6
<1>8. SameCards(conv, c) /\ (Shut(conv) => Shut(c))
  BY <1>4, <1>7 DEF SameCards, Shut
<1>9. Cards(conv) => Cards(c)
  BY <1>6, <1>8, CardsKept
<1>10. ConvOf(log, c, refused, post.stage)
  BY <1>3, <1>5, <1>6, <1>8, <1>9 DEF ConvOf, RunningRight, QuestionRight
<1>11. post1 \in [stage : Stages, text : Ids, key : Int] /\ post.stage = "none"
  BY <1>2, <1>3 DEF Stages, DeliverMessage
<1>12. /\ UNCHANGED <<log, sublog, turn, online, pipe>> /\ injected' = injected
       /\ conv' = c /\ refused' = refused /\ post' = post1
  BY <1>1, <1>2 DEF DeliverMessage, engineVars
<1>13. injected' \in Seq(Ids) /\ refused \in BOOLEAN
  BY <1>12 DEF FoldInv
<1>14. QED
  BY <1>6, <1>10, <1>11, <1>12, <1>13, OnlyThePostMoves

LEMMA SendMessageKeeps ==
    ASSUME FoldInv, SendMessage PROVE FoldInv'
<1>1. PICK post1 : post1 = [post EXCEPT !.stage = IF turn = "waiting" THEN "error"
                                                  ELSE IF turn = "running" THEN "steer" ELSE "prepared"]
  OBVIOUS
<1>2. /\ post1 \in [stage : Stages, text : Ids, key : Int] /\ post.stage = "request"
      /\ ConvOf(log, conv, refused, post.stage) /\ refused \in BOOLEAN
  BY <1>1 DEF FoldInv, Stages, SendMessage
<1>3. /\ UNCHANGED <<log, sublog, turn, online, pipe>> /\ injected' = injected
      /\ conv' = conv /\ refused' = refused /\ post' = post1
  BY <1>1 DEF SendMessage, engineVars
<1>4. injected' \in Seq(Ids)
  BY <1>3 DEF FoldInv
<1>5. QED
  BY <1>2, <1>3, <1>4, OnlyThePostMoves

LEMMA PushTurnStartedKeeps ==
    ASSUME FoldInv, PushTurnStarted PROVE FoldInv'
<1>1. PICK a, post1 : /\ a = <<Frame(NoSeq, "turn_started", None, None)>>
                      /\ post1 = [post EXCEPT !.stage = "drive"]
  OBVIOUS
<1>2. /\ post1 \in [stage : Stages, text : Ids, key : Int] /\ post1.stage = "drive"
      /\ post.stage = "prepared"
  BY <1>1 DEF FoldInv, Stages, PushTurnStarted
<1>3. Frame(NoSeq, "turn_started", None, None) \in Frames
  BY IdsAre DEF Frame, Frames, FrameTypes, NoSeq
<1>4. /\ a \in Seq(Frames)
      /\ \A k \in DOMAIN a : a[k].seq = NoSeq /\ a[k].type = "turn_started"
  BY <1>1, <1>3 DEF Frame
<1>5. Asides(a, refused, "drive")
  BY <1>4 DEF Asides, Aside, AsideTypes
<1>6. pipe \in Seq(Frames) /\ PipeOf(log, pipe, conv.cursor, online, refused, post.stage)
  BY DEF FoldInv
<1>7. Asides(pipe, refused, post.stage) => Asides(pipe, refused, "drive")
  BY <1>2, StageMoves
<1>8. /\ online => PipeOf(log, pipe \o a, conv.cursor, online, refused, "drive")
      /\ ~online => PipeOf(log, pipe, conv.cursor, online, refused, "drive")
  BY <1>4, <1>5, <1>6, <1>7, Pushed
<1>9. pipe' = IF online THEN pipe \o a ELSE pipe
  BY <1>1 DEF PushTurnStarted, Send
<1>10. PipeOf(log, pipe', conv.cursor, online, refused, "drive") /\ pipe' \in Seq(Frames)
  BY <1>4, <1>6, <1>8, <1>9
<1>11. ConvOf(log, conv, refused, "drive")
  BY <1>2, StageMoves DEF FoldInv
<1>12. /\ log' = log /\ sublog' = sublog /\ turn' = turn /\ injected' = injected /\ conv' = conv
       /\ online' = online /\ refused' = refused /\ post' = post1
  BY <1>1 DEF PushTurnStarted, engineVars
<1>13. QED
  BY <1>2, <1>10, <1>11, <1>12 DEF FoldInv

LEMMA RefuseKeeps ==
    ASSUME FoldInv, Refuse PROVE FoldInv'
<1>1. PICK a, post1 : /\ a = <<Frame(NoSeq, "error", None, None),
                               Frame(NoSeq, "turn_finished", "failed", None)>>
                      /\ post1 = [post EXCEPT !.stage = "error"]
  OBVIOUS
<1>2. post1 \in [stage : Stages, text : Ids, key : Int] /\ post1.stage = "error"
  BY <1>1 DEF FoldInv, Stages
<1>3. /\ Frame(NoSeq, "error", None, None) \in Frames
      /\ Frame(NoSeq, "turn_finished", "failed", None) \in Frames
  BY IdsAre DEF Frame, Frames, FrameTypes, NoSeq, Words
<1>4. /\ a \in Seq(Frames)
      /\ \A k \in DOMAIN a : a[k].seq = NoSeq /\ a[k].type \in {"error", "turn_finished"}
  BY <1>1, <1>3 DEF Frame
<1>5. Asides(a, TRUE, "error")
  BY <1>4 DEF Asides, Aside, AsideTypes
<1>6. /\ pipe \in Seq(Frames) /\ PipeOf(log, pipe, conv.cursor, online, refused, post.stage)
      /\ ConvOf(log, conv, refused, post.stage)
  BY DEF FoldInv
<1>7. /\ Asides(pipe, refused, post.stage) => Asides(pipe, TRUE, "error")
      /\ PipeOf(log, pipe, conv.cursor, online, TRUE, "error")
      /\ ConvOf(log, conv, TRUE, "error")
  BY <1>6, StageMoves
<1>8. online => PipeOf(log, pipe \o a, conv.cursor, online, TRUE, "error")
  BY <1>4, <1>5, <1>6, <1>7, Pushed
<1>9. pipe' = pipe \/ (online /\ pipe' = pipe \o a)
  BY <1>1 DEF Refuse, Send
<1>10. PipeOf(log, pipe', conv.cursor, online, TRUE, "error") /\ pipe' \in Seq(Frames)
  <2>1. CASE pipe' = pipe
    BY <1>6, <1>7, <2>1
  <2>2. CASE online /\ pipe' = pipe \o a
    <3>1. pipe \o a \in Seq(Frames)
      BY <1>4, <1>6
    <3>2. PipeOf(log, pipe \o a, conv.cursor, online, TRUE, "error")
      BY <1>8, <2>2
    <3>3. QED
      BY <2>2, <3>1, <3>2
  <2>3. QED
    BY <1>9, <2>1, <2>2
<1>11. /\ log' = log /\ sublog' = sublog /\ turn' = turn /\ injected' = injected /\ conv' = conv
       /\ online' = online /\ refused' = TRUE /\ post' = post1
  BY <1>1 DEF Refuse, engineVars
<1>12. QED
  BY <1>2, <1>7, <1>10, <1>11 DEF FoldInv

LEMMA DropPendingKeeps ==
    ASSUME FoldInv, DropPending PROVE FoldInv'
<1>1. PICK kept : conv' = [conv EXCEPT !.items = Filter(conv.items, kept), !.sending = FALSE]
  BY DEF DropPending
<1>2. PICK c : c = [conv EXCEPT !.items = Filter(conv.items, kept), !.sending = FALSE]
  OBVIOUS
<1>3. conv \in Convs /\ conv.items \in Seq(RightItems) /\ ConvOf(log, conv, refused, post.stage)
  BY DEF FoldInv, ConvOf, Convs
<1>4. Filter(conv.items, kept) \in Seq(RightItems)
  BY <1>3, Filtered DEF KeptOf
<1>5. /\ c \in Convs /\ c.items = Filter(conv.items, kept) /\ c.running = conv.running
      /\ c.cursor = conv.cursor /\ c.question = conv.question
  BY <1>2, <1>3, <1>4 DEF Convs
<1>6. (Cards(conv) => Cards(c)) /\ (Shut(conv) => Shut(c))
  BY <1>3, <1>5, DropEffect
<1>7. ConvOf(log, c, refused, post.stage)
  BY <1>3, <1>5, <1>6 DEF ConvOf, RunningRight, QuestionRight
<1>8. NoPost \in [stage : Stages, text : Ids, key : Int] /\ NoPost.stage = "none"
  BY IdsAre DEF NoPost, Stages
<1>9. /\ UNCHANGED <<log, sublog, turn, online, pipe>> /\ injected' = injected /\ post.stage = "error"
      /\ conv' = c /\ refused' = refused /\ post' = NoPost
  BY <1>1, <1>2 DEF DropPending, engineVars
<1>10. injected' \in Seq(Ids) /\ refused \in BOOLEAN
  BY <1>9 DEF FoldInv
<1>11. QED
  BY <1>5, <1>7, <1>8, <1>9, <1>10, OnlyThePostMoves


(* The accepted turn is on the stream behind its early turn_started. *)
LEMMA AcceptedTurn ==
    ASSUME FoldInv, turn = "idle", NEW x \in Ids,
           Publish(<<Env("UserMessage", x), Env("TaskWoken", None)>>)
    PROVE  /\ log' \in Seq(Envelopes) /\ pipe' \in Seq(Frames) /\ EngineOf(log', "running")
           /\ PipeOf(log', pipe', conv.cursor, online, refused, "none")
           /\ ConvOf(log', conv, refused, "none")
<1>1. PICK d, e : d = Env("UserMessage", x) /\ e = Env("TaskWoken", None)
  OBVIOUS
<1>2. /\ d \in Envelopes /\ e \in Envelopes /\ e.type = "TaskWoken"
      /\ EngineOf(Append(Append(log, d), e), "running")
  BY <1>1, EngineTurn, IdsAre, EnvIs DEF EnvelopeTypes
<1>3. /\ log' = Append(Append(log, d), e) /\ log' \in Seq(Envelopes) /\ pipe' \in Seq(Frames)
      /\ PipeOf(log', pipe', conv.cursor, online, refused, post.stage)
      /\ ConvOf(log', conv, refused, post.stage)
      /\ online => /\ pipe' = (pipe \o TranslateRoot(d, Len(log))) \o TranslateRoot(e, Len(log) + 1)
                   /\ pipe \o TranslateRoot(d, Len(log)) \in Seq(Frames)
  BY <1>1, <1>2, PublishTwo
<1>4. /\ log \in Seq(Envelopes) /\ Len(log) \in Nat /\ conv.cursor \in -1 .. Len(log) - 1
  BY DEF FoldInv, ConvOf
<1>5. Len(log') = Len(log) + 2 /\ log'[Len(log) + 2] = e
  <2>1. PICK r : r = Append(log, d)
    OBVIOUS
  <2>2. r \in Seq(Envelopes) /\ Len(r) = Len(log) + 1 /\ log' = Append(r, e)
    BY <1>2, <1>3, <1>4, <2>1
  <2>3. Len(log') = Len(r) + 1 /\ log'[Len(r) + 1] = e
    BY <1>2, <2>2
  <2>4. QED
    BY <1>4, <2>2, <2>3
<1>6. PICK s : s = Len(log) + 1
  OBVIOUS
<1>7. s \in conv.cursor + 1 .. Len(log') - 1 /\ s \in 0 .. Len(log') - 1 /\ log'[s + 1] = e /\ s # NoSeq
  BY <1>4, <1>5, <1>6 DEF NoSeq
<1>8. RunningRight(log', conv, post.stage) => RunningRight(log', conv, "none")
  BY <1>2, <1>7 DEF RunningRight
<1>9. ConvOf(log', conv, refused, "none")
  BY <1>3, <1>8 DEF ConvOf
<1>10. CASE online
  <2>0. PICK a : a = TranslateRoot(e, s)
    OBVIOUS
  <2>1. PICK p \in Seq(Frames) : pipe' = p \o a
    BY <1>3, <1>6, <1>10, <2>0
  <2>2. PICK g \in Frames : a = <<g>> /\ g.seq = s /\ g.type = "turn_started"
    <3>1. s \in Int
      BY <1>4, <1>6
    <3>2. Rendered(e, s, a)
      BY <1>2, <2>0, <3>1, RootFrames
    <3>3. ~Idles(e)
      BY <1>2 DEF Idles
    <3>4. QED
      BY <1>2, <3>2, <3>3 DEF Rendered, Speaks
  <2>3. PICK q, last : q = pipe' /\ last = Len(p) + 1
    OBVIOUS
  <2>4. /\ last \in DOMAIN q /\ q[last] = g /\ last \in Nat
        /\ \A k \in DOMAIN q : k \in 1 .. last
    <3>1. a \in Seq(Frames) /\ DOMAIN a = {1} /\ a[1] = g
      BY <2>2
    <3>2. /\ Len(p) \in Nat /\ DOMAIN p = 1 .. Len(p)
          /\ Len(p) + 1 \in DOMAIN q /\ q[Len(p) + 1] = g
          /\ \A k \in DOMAIN q : k \in DOMAIN p \/ \E i \in DOMAIN a : k = Len(p) + i
      BY <2>1, <2>3, <3>1, Concat
    <3>3. QED
      BY <2>3, <3>1, <3>2
  <2>5. ASSUME NEW k \in DOMAIN q, q[k].seq = NoSeq
        PROVE  /\ q[k].type \in AsideTypes
               /\ q[k].type \in {"error", "turn_finished"} => refused
               /\ \E j \in DOMAIN q : j > k /\ q[j].seq # NoSeq /\ q[j].type = "turn_started"
    <3>1. Aside(q, k, refused, post.stage)
      BY <1>3, <2>3 DEF PipeOf, Asides
    <3>2. k # last
      BY <1>7, <2>2, <2>4, <2>5
    <3>3. last > k
      BY <2>4, <3>2
    <3>4. QED
      BY <1>7, <2>2, <2>4, <2>5, <3>1, <3>3 DEF Aside
  <2>6. Asides(q, refused, "none")
    BY <2>5 DEF Asides, Aside
  <2>7. PipeOf(log', pipe', conv.cursor, online, refused, "none")
    BY <1>3, <2>3, <2>6 DEF PipeOf
  <2>8. QED
    BY <1>1, <1>2, <1>3, <1>9, <2>7
<1>11. CASE ~online
  <2>1. pipe' = <<>>
    BY <1>3, <1>11 DEF PipeOf
  <2>2. Asides(pipe', refused, "none")
    BY <2>1 DEF Asides
  <2>3. PipeOf(log', pipe', conv.cursor, online, refused, "none")
    BY <1>3, <2>2 DEF PipeOf
  <2>4. QED
    BY <1>1, <1>2, <1>3, <1>9, <2>3
<1>12. QED
  BY <1>10, <1>11

LEMMA AcceptKeeps ==
    ASSUME FoldInv, Accept PROVE FoldInv'
<1>1. /\ post.text \in Ids /\ NoPost \in [stage : Stages, text : Ids, key : Int]
      /\ NoPost.stage = "none" /\ refused \in BOOLEAN
  BY IdsAre DEF FoldInv, NoPost, Stages
<1>2. /\ sublog' = sublog /\ conv' = conv /\ online' = online /\ refused' = refused /\ post' = NoPost
      /\ post.stage \in {"steer", "drive"}
  BY DEF Accept
<1>3. CASE /\ turn = "idle" /\ Publish(<<Env("UserMessage", post.text), Env("TaskWoken", None)>>)
           /\ turn' = "running" /\ injected' = injected
  <2>1. /\ log' \in Seq(Envelopes) /\ pipe' \in Seq(Frames) /\ EngineOf(log', "running")
        /\ PipeOf(log', pipe', conv.cursor, online, refused, "none")
        /\ ConvOf(log', conv, refused, "none")
    BY <1>1, <1>3, AcceptedTurn
  <2>2. QED
    BY <1>1, <1>2, <1>3, <2>1 DEF FoldInv
<1>4. CASE /\ post.stage = "steer" /\ injected' = Append(injected, post.text)
           /\ log' = log /\ turn' = turn /\ pipe' = pipe
  <2>1. injected' \in Seq(Ids) /\ ConvOf(log, conv, refused, post.stage)
    BY <1>1, <1>4 DEF FoldInv
  <2>2. UNCHANGED <<log, sublog, turn, online, pipe>>
    BY <1>2, <1>4
  <2>3. QED
    BY <1>1, <1>2, <1>4, <2>1, <2>2, OnlyThePostMoves
<1>5. QED
  BY <1>3, <1>4 DEF Accept

-----------------------------------------------------------------------------
(* The invariant holds *)

LEMMA FoldStarts ==
    ASSUME Init PROVE FoldInv
<1>1. PICK e : e = Env("TaskCreated", None)
  OBVIOUS
<1>2. e \in Envelopes /\ e.type = "TaskCreated"
  BY <1>1, IdsAre, EnvIs DEF EnvelopeTypes
<1>3. log = <<e>> /\ Len(log) = 1 /\ DOMAIN log = 1 .. 1 /\ log[1] = e /\ log \in Seq(Envelopes)
  BY <1>1, <1>2 DEF Init
<1>4. (\A x : ~Asked(log, 1, x)) /\ ~InTurn(log, 1) /\ \A x : ~Asked(log, 0, x)
  BY <1>2, <1>3 DEF Asked, InTurn
<1>5. ~InTurn(log, 0)
  BY DEF InTurn
<1>6. QuestionsInTurn(log)
  BY <1>2, <1>3 DEF QuestionsInTurn, Fits
<1>7. OpenIn(log) = {}
  BY <1>2, <1>3 DEF OpenIn, Env
<1>8. EngineOf(log, turn)
  BY <1>2, <1>3, <1>4, <1>6, <1>7 DEF EngineOf, Init
<1>9. conv = InitialConversationState /\ online = FALSE /\ pipe = <<>> /\ refused = FALSE /\ post = NoPost
  BY DEF Init
<1>10. /\ conv \in Convs /\ conv.cursor = -1 /\ conv.running = FALSE /\ conv.question = None
       /\ conv.items = <<>>
  <2>1. <<>> \in Seq(RightItems) /\ None \in Ids /\ -1 \in {n \in Int : n < 0}
    BY IdsAre
  <2>2. QED
    BY <1>9, <2>1 DEF InitialConversationState, Convs, NoSeq
<1>11. RunningRight(log, conv, post.stage) /\ QuestionRight(log, conv) /\ Cards(conv)
  <2>1. conv.cursor + 1 = 0
    BY <1>10
  <2>2. QED
    BY <1>4, <1>5, <1>10, <2>1 DEF RunningRight, QuestionRight, Cards
<1>12. ConvOf(log, conv, refused, post.stage)
  BY <1>3, <1>10, <1>11 DEF ConvOf
<1>13. PipeOf(log, pipe, conv.cursor, online, refused, post.stage)
  BY <1>9 DEF PipeOf, Ordered, Genuine, Asides
<1>14. post \in [stage : Stages, text : Ids, key : Int]
  BY <1>9, IdsAre DEF NoPost, Stages
<1>15. sublog \in [Subtasks -> Seq(Envelopes)] /\ injected \in Seq(Ids) /\ pipe \in Seq(Frames)
  BY DEF Init
<1>16. QED
  BY <1>3, <1>8, <1>9, <1>12, <1>13, <1>14, <1>15 DEF FoldInv

LEMMA FoldSteps ==
    FoldInv /\ [Next]_vars => FoldInv'
<1> SUFFICES ASSUME FoldInv, [Next]_vars PROVE FoldInv'
  OBVIOUS
<1>1. CASE Progress
  BY <1>1, ProgressKeeps
<1>2. CASE Deliver
  BY <1>2, DeliverKeeps
<1>3. CASE Ask
  BY <1>3, AskKeeps
<1>4. CASE Answer
  BY <1>4, AnswerKeeps
<1>5. CASE Withdraw
  BY <1>5, WithdrawKeeps
<1>6. CASE Park
  BY <1>6, ParkKeeps
<1>7. CASE End
  BY <1>7, EndKeeps
<1>8. CASE Drain
  BY <1>8, DrainKeeps
<1>9. CASE OtherSend
  BY <1>9, OtherSendKeeps
<1>10. CASE Rewind
  BY <1>10, RewindKeeps
<1>11. CASE SubtaskStep
  BY <1>11, SubtaskStepKeeps
<1>12. CASE Connect
  BY <1>12, ConnectKeeps
<1>13. CASE Receive
  BY <1>13, ReceiveKeeps
<1>14. CASE Disconnect
  BY <1>14, DisconnectKeeps
<1>15. CASE DeliverMessage
  BY <1>15, DeliverMessageKeeps
<1>16. CASE SendMessage
  BY <1>16, SendMessageKeeps
<1>17. CASE PushTurnStarted
  BY <1>17, PushTurnStartedKeeps
<1>18. CASE Accept
  BY <1>18, AcceptKeeps
<1>19. CASE Refuse
  BY <1>19, RefuseKeeps
<1>20. CASE DropPending
  BY <1>20, DropPendingKeeps
<1>21. CASE UNCHANGED vars
  BY <1>21 DEF vars, engineVars, FoldInv
<1>22. QED
  BY <1>1, <1>2, <1>3, <1>4, <1>5, <1>6, <1>7, <1>8, <1>9, <1>10, <1>11, <1>12, <1>13, <1>14, <1>15,
     <1>16, <1>17, <1>18, <1>19, <1>20, <1>21 DEF Next

(* In every behaviour what the client folded is what the log says up to its  *)
(* cursor, and what it has not folded is on its way, in the order of the log *)
(* (conversation.ts foldEvent, hub.replay and the fan-out of a commit).      *)
THEOREM FoldFollowsLog == Spec => []FoldInv
<1>1. Init => FoldInv
  BY FoldStarts
<1>2. FoldInv /\ [Next]_vars => FoldInv'
  BY FoldSteps
<1>3. QED
  BY <1>1, <1>2, PTL DEF Spec

-----------------------------------------------------------------------------
(* Caught up, the client stands where the engine does. *)
LEMMA CaughtUpAtEnd ==
    ASSUME FoldInv, CaughtUp
    PROVE  /\ \A s \in conv.cursor + 1 .. Len(log) - 1 : Idles(log[s + 1])
           /\ InTurn(log, Len(log)) <=> InTurn(log, conv.cursor + 1)
           /\ \A x : Asked(log, Len(log), x) <=> Asked(log, conv.cursor + 1, x)
<1>1. /\ log \in Seq(Envelopes) /\ Len(log) \in Nat /\ conv.cursor \in -1 .. Len(log) - 1
      /\ pipe = <<>> /\ Complete(log, pipe, conv.cursor)
  BY DEF FoldInv, ConvOf, PipeOf, CaughtUp
<1>2. ASSUME NEW s \in conv.cursor + 1 .. Len(log) - 1 PROVE Idles(log[s + 1])
  <2>1. FramesOf(log, s) \subseteq ToSet(pipe)
    BY <1>1 DEF Complete
  <2>2. ToSet(pipe) = {}
    BY <1>1 DEF ToSet
  <2>3. s \in 0 .. Len(log) - 1
    BY <1>1
  <2>4. QED
    BY <1>1, <2>1, <2>2, <2>3, FrameOf
<1>3. ASSUME NEW i \in (conv.cursor + 1) + 1 .. Len(log) PROVE Idles(log[i])
  <2>1. i - 1 \in conv.cursor + 1 .. Len(log) - 1 /\ (i - 1) + 1 = i
    BY <1>1
  <2>2. QED
    BY <1>2, <2>1
<1>4. conv.cursor + 1 \in Nat /\ conv.cursor + 1 <= Len(log)
  BY <1>1
<1>5. QED
  BY <1>1, <1>2, <1>3, <1>4, Lull

LEMMA QuestionGateHolds ==
    FoldInv => QuestionGate
<1> SUFFICES ASSUME FoldInv, CaughtUp, ~refused
             PROVE  /\ (conv.question # None) <=> (turn = "waiting")
                    /\ \A it \in Items : it.kind = "question" /\ it.status = "open" => it.id = conv.question
  BY DEF QuestionGate
<1>1. QuestionRight(log, conv) /\ Cards(conv)
  BY DEF FoldInv, ConvOf
<1>2. turn = "waiting" <=> \E x \in Questions : Asked(log, conv.cursor + 1, x)
  BY CaughtUpAtEnd DEF FoldInv, EngineOf
<1>3. (conv.question # None) <=> (turn = "waiting")
  BY <1>1, <1>2 DEF QuestionRight
<1>4. \A it \in Items : it.kind = "question" /\ it.status = "open" => it.id = conv.question
  BY <1>1 DEF Items, Cards, OpenCard
<1>5. QED
  BY <1>3, <1>4

LEMMA RunningIsRealHolds ==
    FoldInv => RunningIsReal
<1> SUFFICES ASSUME FoldInv, CaughtUp, post.stage = "none", ~refused
             PROVE  conv.running <=> turn \in {"running", "waiting"}
  BY DEF RunningIsReal
<1>1. RunningRight(log, conv, post.stage) /\ conv.running \in BOOLEAN
  BY DEF FoldInv, ConvOf, Convs
<1>2. \A s \in conv.cursor + 1 .. Len(log) - 1 : log[s + 1].type # "TaskWoken"
  BY CaughtUpAtEnd DEF Idles
<1>3. (conv.running = TRUE) <=> InTurn(log, conv.cursor + 1)
  BY <1>1, <1>2 DEF RunningRight
<1>4. turn \in {"running", "waiting"} <=> InTurn(log, conv.cursor + 1)
  BY CaughtUpAtEnd DEF FoldInv, EngineOf
<1>5. QED
  BY <1>1, <1>3, <1>4

LEMMA CancelClosesHolds ==
    FoldInv => CancelCloses
<1> SUFFICES ASSUME FoldInv, CaughtUp, log[Len(log)].type = "TaskCancelled"
             PROVE  \A it \in Items : it.key >= 0 => it.status \notin {"running", "open"}
  BY DEF CancelCloses
<1>1. /\ log \in Seq(Envelopes) /\ log # <<>> /\ Len(log) \in Nat /\ Len(log) > 0
      /\ conv.cursor \in -1 .. Len(log) - 1
      /\ conv.cursor >= 0 /\ log[conv.cursor + 1].type = "TaskCancelled" => Shut(conv)
  BY DEF FoldInv, EngineOf, ConvOf
<1>2. ~Idles(log[Len(log)])
  BY DEF Idles, Settles, Closes
<1>3. ~(Len(log) - 1 \in conv.cursor + 1 .. Len(log) - 1)
  <2>1. (Len(log) - 1) + 1 = Len(log)
    BY <1>1
  <2>2. QED
    BY <1>2, <2>1, CaughtUpAtEnd
<1>4. conv.cursor >= 0 /\ conv.cursor + 1 = Len(log)
  BY <1>1, <1>3
<1>5. QED
  BY <1>1, <1>4 DEF Shut, Items

(* For any texts, calls, subtasks and questions, any length of log and any   *)
(* number of broken connections: once it has caught up, a client none of    *)
(* whose sends was refused shows the answer panel exactly while the engine   *)
(* waits on a question, and has no other card open (conversation.ts question *)
(* handlers and foldTurnFinished).                                           *)
THEOREM PanelFollowsTheEngine == Spec => []QuestionGate
BY FoldFollowsLog, QuestionGateHolds, PTL

(* Once caught up, with every send accepted and none outstanding, the client *)
(* says "running" exactly while the session has a turn in flight, although   *)
(* the host pushes turn_started before the turn exists (hub.py send_message, *)
(* conversation.ts turn_started and turn_finished).                          *)
THEOREM RunningFollowsTheEngine == Spec => []RunningIsReal
BY FoldFollowsLog, RunningIsRealHolds, PTL

(* Once caught up with a cancel, the client has nothing of the session's own *)
(* stream running or open, whatever frames were in flight when it came       *)
(* (conversation.ts foldTurnFinished, cancelled branch).                     *)
THEOREM CancelLeavesNothing == Spec => []CancelCloses
BY FoldFollowsLog, CancelClosesHolds, PTL

-----------------------------------------------------------------------------
(* Bubbles *)

Unsent(it) == it.kind = "user" /\ it.status # "sent"
SameBubble(it, jt) == it.kind = "user" /\ it.status = jt.status /\ it.id = jt.id /\ it.key = jt.key

(* The bubbles of d stand where they stood in c. *)
BubblesStay(c, d) ==
    \A i \in DOMAIN d.items : Unsent(d.items[i]) =>
        i \in DOMAIN c.items /\ SameBubble(c.items[i], d.items[i])

(* The bubbles of d were bubbles of c, in the order they had. *)
BubblesDescend(c, d) ==
    /\ \A i \in DOMAIN d.items : Unsent(d.items[i]) =>
           \E a \in DOMAIN c.items : SameBubble(c.items[a], d.items[i])
    /\ \A i, j \in DOMAIN d.items : i < j /\ Unsent(d.items[i]) /\ Unsent(d.items[j]) =>
           \E a, b \in DOMAIN c.items :
               a < b /\ SameBubble(c.items[a], d.items[i]) /\ SameBubble(c.items[b], d.items[j])

LEMMA StayingDescends ==
    ASSUME NEW c, NEW d, BubblesStay(c, d) PROVE BubblesDescend(c, d)
BY DEF BubblesStay, BubblesDescend

LEMMA StayingOn ==
    ASSUME NEW c, NEW d, NEW e, BubblesStay(c, d), BubblesStay(d, e) PROVE BubblesStay(c, e)
BY DEF BubblesStay, SameBubble, Unsent

LEMMA MarkedBubbles ==
    ASSUME NEW c \in Convs, NEW hits, NEW status \in Statuses \ {"running", "open"},
           \A i \in hits \cap DOMAIN c.items : c.items[i].kind # "user"
    PROVE  BubblesStay(c, Mark(c, hits, status)) /\ Mark(c, hits, status) \in Convs
<1>1. PICK d : d = Mark(c, hits, status)
  OBVIOUS
<1>2. /\ SameBut(c, d) /\ DOMAIN d.items = DOMAIN c.items
      /\ \A i \in DOMAIN c.items :
             /\ d.items[i].kind = c.items[i].kind /\ d.items[i].id = c.items[i].id
             /\ d.items[i].key = c.items[i].key
             /\ d.items[i].status = IF i \in hits THEN status ELSE c.items[i].status
  BY <1>1, MarkEffect
<1>3. BubblesStay(c, d)
  BY <1>2 DEF BubblesStay, SameBubble, Unsent
<1>4. QED
  BY <1>1, <1>2, <1>3 DEF SameBut

LEMMA PushedBubbles ==
    ASSUME NEW c \in Convs, NEW f \in Frames, NEW kind \in ItemKinds, NEW x \in Ids, NEW status \in Statuses,
           NEW sub \in Ids, status = "running" => kind \in {"step", "subtask"},
           status = "open" => kind = "question", kind # "user"
    PROVE  BubblesStay(c, Push(c, f, kind, x, status, sub))
<1>1. PICK d : d = Push(c, f, kind, x, status, sub)
  OBVIOUS
<1>2. /\ SameBut(c, d) /\ Len(d.items) = Len(c.items) + 1
      /\ \A i \in 1 .. Len(c.items) : d.items[i] = c.items[i]
      /\ d.items[Len(c.items) + 1].kind = kind
  BY <1>1, PushEffect
<1>3. c.items \in Seq(RightItems) /\ d.items \in Seq(RightItems)
  BY <1>2 DEF SameBut, Convs
<1>4. /\ DOMAIN c.items = 1 .. Len(c.items)
      /\ \A i \in DOMAIN d.items : i \in 1 .. Len(c.items) \/ i = Len(c.items) + 1
  BY <1>2, <1>3
<1>5. BubblesStay(c, d)
  BY <1>2, <1>4 DEF BubblesStay, SameBubble, Unsent
<1>6. QED
  BY <1>1, <1>5

LEMMA DroppedBubbles ==
    ASSUME NEW c \in Convs, NEW kept, NEW d, d \in Convs, d.items = Filter(c.items, kept)
    PROVE  BubblesDescend(c, d) /\ \A i \in DOMAIN d.items : d.items[i] \in kept
<1>1. PICK s, p, n : s = d.items /\ p = c.items /\ n = Len(c.items)
  OBVIOUS
<1>2. KeptOf(p, kept, n, s, RightItems) /\ DOMAIN p = 1 .. n
  BY <1>1, FrameFields, Filtered DEF Convs
<1>3. /\ \A i \in DOMAIN s : s[i] \in kept /\ \E a \in DOMAIN p : s[i] = p[a]
      /\ \A i, j \in DOMAIN s : i < j => \E a, b \in DOMAIN p : a < b /\ s[i] = p[a] /\ s[j] = p[b]
  <2>1. \A i \in DOMAIN s : s[i] \in kept /\ \E a \in 1 .. n : s[i] = p[a]
    BY <1>2 DEF KeptOf
  <2>2. \A i, j \in DOMAIN s : i < j => \E a, b \in 1 .. n : a < b /\ s[i] = p[a] /\ s[j] = p[b]
    BY <1>2 DEF KeptOf
  <2>3. QED
    BY <1>2, <2>1, <2>2
<1>4. \A i \in DOMAIN s : Unsent(s[i]) => \E a \in DOMAIN p : SameBubble(p[a], s[i])
  BY <1>3 DEF Unsent, SameBubble
<1>5. \A i, j \in DOMAIN s : i < j /\ Unsent(s[i]) /\ Unsent(s[j]) =>
          \E a, b \in DOMAIN p : a < b /\ SameBubble(p[a], s[i]) /\ SameBubble(p[b], s[j])
  BY <1>3 DEF Unsent, SameBubble
<1>6. QED
  BY <1>1, <1>3, <1>4, <1>5 DEF BubblesDescend

(* The durable message takes the place of the last bubble of its words. *)
LEMMA UserMessageBubbles ==
    ASSUME NEW c \in Convs, NEW f \in Frames, \A i \in DOMAIN c.items : Unsent(c.items[i]) => c.items[i].status = "pending"
    PROVE  LET d == FoldUserMessage(c, f)
           IN  /\ BubblesStay(c, d) /\ d.items # c.items
               /\ \A i \in DOMAIN d.items : Unsent(d.items[i]) /\ d.items[i].id = f.id =>
                      \E j \in DOMAIN c.items : i < j /\ Unsent(c.items[j]) /\ c.items[j].id = f.id
<1>1. PICK it, hits, d : /\ it = Item("user", Key(c, f), f.id, "sent", None, 0)
                         /\ hits = Where(c, "user", "pending") \cap WhereId(c, "user", f.id)
                         /\ d = FoldUserMessage(c, f)
  OBVIOUS
<1>2. it.kind = "user" /\ it.status = "sent"
  BY <1>1 DEF Item
<1>3. PICK s : s = IF LastOf(hits) = 0 THEN Append(c.items, it) ELSE [c.items EXCEPT ![LastOf(hits)] = it]
  OBVIOUS
<1>4. d = [c EXCEPT !.items = s, !.nextKey = NextKey(c, f)]
  BY <1>1, <1>3 DEF FoldUserMessage
<1>5. d.items = s
  BY <1>4 DEF Convs
<1>6. /\ Len(c.items) \in Nat /\ DOMAIN c.items = 1 .. Len(c.items) /\ c.items \in Seq(RightItems)
      /\ hits \in SUBSET (1 .. Len(c.items))
      /\ \A i \in hits : c.items[i].kind = "user" /\ c.items[i].status = "pending" /\ c.items[i].id = f.id
  BY <1>1, FrameFields DEF Where, WhereId
<1>7. /\ hits = {} => LastOf(hits) = 0
      /\ hits # {} => LastOf(hits) \in hits /\ \A i \in hits : i <= LastOf(hits)
  BY <1>6, LastIn
<1>8. CASE hits = {}
  <2>1. s = Append(c.items, it)
    BY <1>3, <1>7, <1>8
  <2>2. /\ Len(s) = Len(c.items) + 1 /\ s[Len(c.items) + 1] = it
        /\ \A i \in DOMAIN s : i = Len(c.items) + 1 \/ (i \in DOMAIN c.items /\ s[i] = c.items[i])
    <3>1. it \in RightItems
      <4>1. f.id \in Ids /\ Key(c, f) \in Int /\ None \in Ids
        BY FrameFields
      <4>2. QED
        BY <1>1, <4>1 DEF Item, RightItems, ItemKinds, Statuses
    <3>2. QED
      BY <1>6, <2>1, <3>1
  <2>3. s # c.items
    BY <1>6, <2>2
  <2>4. ASSUME NEW i \in DOMAIN s, Unsent(s[i])
        PROVE  i \in DOMAIN c.items /\ SameBubble(c.items[i], s[i]) /\ s[i].id # f.id
    <3>1. i \in DOMAIN c.items /\ s[i] = c.items[i]
      BY <1>2, <2>2, <2>4 DEF Unsent
    <3>2. s[i].kind = "user" /\ s[i].status = "pending"
      BY <2>4, <3>1 DEF Unsent
    <3>3. s[i].id # f.id
      BY <1>1, <1>8, <3>1, <3>2 DEF Where, WhereId
    <3>4. QED
      BY <3>1, <3>2, <3>3 DEF SameBubble
  <2>5. QED
    BY <1>1, <1>5, <2>3, <2>4 DEF BubblesStay
<1>9. CASE hits # {}
  <2>1. PICK l : l = LastOf(hits) /\ l \in hits /\ l \in DOMAIN c.items /\ \A i \in hits : i <= l
    BY <1>6, <1>7, <1>9
  <2>2. l # 0 /\ s = [c.items EXCEPT ![l] = it]
    BY <1>3, <1>6, <2>1
  <2>3. DOMAIN s = DOMAIN c.items /\ s[l] = it /\ \A i \in DOMAIN s : i # l => s[i] = c.items[i]
    BY <1>6, <2>1, <2>2
  <2>4. s # c.items
    BY <1>2, <1>6, <2>1, <2>3
  <2>5. ASSUME NEW i \in DOMAIN s, Unsent(s[i])
        PROVE  /\ i \in DOMAIN c.items /\ SameBubble(c.items[i], s[i])
               /\ s[i].id = f.id => i < l
    <3>1. i # l /\ i \in DOMAIN c.items /\ s[i] = c.items[i]
      BY <1>2, <2>3, <2>5 DEF Unsent
    <3>2. s[i].kind = "user" /\ s[i].status = "pending"
      BY <2>5, <3>1 DEF Unsent
    <3>3. s[i].id = f.id => i \in hits
      BY <1>1, <3>1, <3>2 DEF Where, WhereId
    <3>4. s[i].id = f.id => i < l
      BY <1>6, <2>1, <3>1, <3>3
    <3>5. QED
      BY <3>1, <3>2, <3>4 DEF SameBubble
  <2>6. Unsent(c.items[l]) /\ c.items[l].id = f.id
    BY <1>6, <2>1 DEF Unsent
  <2>7. QED
    BY <1>1, <1>5, <2>1, <2>4, <2>5, <2>6 DEF BubblesStay
<1>10. QED
  BY <1>8, <1>9

LEMMA WorkBubbles ==
    ASSUME NEW c \in Convs, NEW f \in Frames, NEW d, d = FoldItemEvent(c, f),
           f.type \in {"append", "tool_call", "tool_result", "subtask_started", "subtask_finished"}
    PROVE  BubblesStay(c, d)
<1>0. /\ f.id \in Ids /\ f.sub \in Ids /\ None \in Ids /\ None \in Statuses /\ None \notin {"running", "open"}
      /\ {"running", "success", "cancelled", "completed"} \subseteq Statuses
      /\ {"append", "step", "subtask"} \subseteq ItemKinds
  BY FrameFields DEF Statuses, ItemKinds, None
<1>1. BubblesStay(c, c)
  BY DEF BubblesStay, SameBubble, Unsent
<1>2. CASE f.type = "append"
  <2>1. d = Push(c, f, "append", f.id, None, None)
    BY <1>2 DEF FoldItemEvent
  <2>2. QED
    BY <1>0, <2>1, PushedBubbles
<1>3. CASE f.type = "tool_call"
  <2>1. d \in {c, Push(c, f, "step", f.id, "running", f.sub)}
    BY <1>3 DEF FoldItemEvent, FoldToolCall
  <2>2. QED
    BY <1>0, <1>1, <2>1, PushedBubbles
<1>4. CASE f.type = "tool_result"
  <2>1. PICK hits : hits = Where(c, "step", "running") \cap WhereId(c, "step", f.id)
    OBVIOUS
  <2>2. d = Mark(c, {LastOf(hits)}, "success")
    BY <1>4, <2>1 DEF FoldItemEvent, FoldToolResult, MarkLast
  <2>3. \A i \in hits : c.items[i].kind = "step"
    BY <2>1 DEF Where
  <2>4. hits \in SUBSET (1 .. Len(c.items)) /\ Len(c.items) \in Nat /\ DOMAIN c.items = 1 .. Len(c.items)
    BY <2>1, FrameFields DEF Where
  <2>5. LastOf(hits) \in hits \/ LastOf(hits) = 0
    BY <2>4, LastIn
  <2>6. \A i \in {LastOf(hits)} \cap DOMAIN c.items : c.items[i].kind # "user"
    BY <2>3, <2>4, <2>5
  <2>7. QED
    BY <1>0, <2>2, <2>6, MarkedBubbles
<1>5. CASE f.type = "subtask_started"
  <2>1. d \in {c, Push(c, f, "subtask", f.id, "running", None)}
    BY <1>5 DEF FoldItemEvent, FoldSubtaskStarted
  <2>2. QED
    BY <1>0, <1>1, <2>1, PushedBubbles
<1>6. CASE f.type = "subtask_finished"
  <2>1. PICK hits : hits = Where(c, "subtask", "running") \cap WhereId(c, "subtask", f.id)
    OBVIOUS
  <2>2. d = FoldSubtaskFinished(c, f)
    BY <1>6 DEF FoldItemEvent
  <2>3. PICK status : /\ status \in {"cancelled", "completed"}
                      /\ \/ d = Mark(c, {LastOf(hits)}, status)
                         \/ d = Push(c, f, "subtask", f.id, status, None)
    BY <2>1, <2>2 DEF FoldSubtaskFinished, MarkLast
  <2>4. status \in Statuses \ {"running", "open"}
    BY <1>0, <2>3
  <2>5. CASE d = Push(c, f, "subtask", f.id, status, None)
    BY <1>0, <2>4, <2>5, PushedBubbles
  <2>6. CASE d = Mark(c, {LastOf(hits)}, status)
    <3>1. \A i \in hits : c.items[i].kind = "subtask"
      BY <2>1 DEF Where
    <3>2. hits \in SUBSET (1 .. Len(c.items)) /\ Len(c.items) \in Nat /\ DOMAIN c.items = 1 .. Len(c.items)
      BY <2>1, FrameFields DEF Where
    <3>3. LastOf(hits) \in hits \/ LastOf(hits) = 0
      BY <3>2, LastIn
    <3>4. \A i \in {LastOf(hits)} \cap DOMAIN c.items : c.items[i].kind # "user"
      BY <3>1, <3>2, <3>3
    <3>5. QED
      BY <2>4, <2>6, <3>4, MarkedBubbles
  <2>7. QED
    BY <2>3, <2>5, <2>6
<1>7. QED
  BY <1>2, <1>3, <1>4, <1>5, <1>6

LEMMA TodoBubbles ==
    ASSUME NEW c \in Convs, NEW f \in Frames PROVE BubblesStay(c, FoldTodoUpdate(c, f))
<1>1. PICK d : d = FoldTodoUpdate(c, f)
  OBVIOUS
<1>2. PICK i : \/ d = [c EXCEPT !.items[i].ver = f.seq]
               \/ d = [c EXCEPT !.items = Append(c.items, Item("todos", f.seq, None, None, None, f.seq))]
  BY <1>1 DEF FoldTodoUpdate
<1>3. CASE d = [c EXCEPT !.items[i].ver = f.seq]
  <2>1. d.items = [c.items EXCEPT ![i].ver = f.seq]
    BY <1>3 DEF Convs
  <2>2. DOMAIN d.items = DOMAIN c.items
    BY <2>1
  <2>3. ASSUME NEW j \in DOMAIN c.items PROVE SameBubble(d.items[j], c.items[j]) \/ c.items[j].kind # "user"
    <3>1. c.items[j] \in RightItems
      BY FrameFields
    <3>2. d.items[j] = IF j = i THEN [c.items[j] EXCEPT !.ver = f.seq] ELSE c.items[j]
      BY <2>1
    <3>3. /\ d.items[j].kind = c.items[j].kind /\ d.items[j].status = c.items[j].status
          /\ d.items[j].id = c.items[j].id /\ d.items[j].key = c.items[j].key
      BY <3>1, <3>2 DEF RightItems
    <3>4. QED
      BY <3>3 DEF SameBubble
  <2>4. ASSUME NEW j \in DOMAIN c.items PROVE d.items[j].kind = c.items[j].kind
    <3>1. c.items[j] \in RightItems
      BY FrameFields
    <3>2. d.items[j] = IF j = i THEN [c.items[j] EXCEPT !.ver = f.seq] ELSE c.items[j]
      BY <2>1
    <3>3. QED
      BY <3>1, <3>2 DEF RightItems
  <2>5. QED
    BY <1>1, <2>2, <2>3, <2>4 DEF BubblesStay, SameBubble, Unsent
<1>4. CASE d = [c EXCEPT !.items = Append(c.items, Item("todos", f.seq, None, None, None, f.seq))]
  <2>1. PICK it : it = Item("todos", f.seq, None, None, None, f.seq)
    OBVIOUS
  <2>2. d.items = Append(c.items, it)
    BY <1>4, <2>1 DEF Convs
  <2>3. it.kind = "todos" /\ it \in RightItems
    <3>1. f.seq \in Int /\ None \in Ids
      BY FrameFields
    <3>2. QED
      BY <2>1, <3>1 DEF Item, RightItems, ItemKinds, Statuses, None
  <2>4. \A j \in DOMAIN d.items : d.items[j] = it \/ (j \in DOMAIN c.items /\ d.items[j] = c.items[j])
    BY <2>2, <2>3, FrameFields
  <2>5. QED
    BY <1>1, <2>3, <2>4 DEF BubblesStay, SameBubble, Unsent
<1>5. QED
  BY <1>2, <1>3, <1>4

LEMMA TurnFinishedBubbles ==
    ASSUME NEW c \in Convs, NEW f \in Frames PROVE BubblesStay(c, FoldTurnFinished(c, f))
<1>0. {"cancelled", "failure", "withdrawn"} \subseteq Statuses \ {"running", "open"}
  BY DEF Statuses
<1>1. PICK a, b, z, d : /\ a = CloseSteps(c, f.id) /\ b = CloseSubtasks(a, f.id)
                        /\ z = Mark(b, Where(b, "question", "open"), "withdrawn")
                        /\ d = FoldTurnFinished(c, f)
  OBVIOUS
<1>2. ASSUME NEW e \in Convs, NEW kind, kind # "user", NEW status
      PROVE  \A i \in Where(e, kind, status) \cap DOMAIN e.items : e.items[i].kind # "user"
  BY <1>2 DEF Where
<1>3. ASSUME NEW e PROVE BubblesStay(e, e)
  BY DEF BubblesStay, SameBubble, Unsent
<1>4. BubblesStay(c, a) /\ a \in Convs
  <2>1. a \in {c, Mark(c, Where(c, "step", "running"), "cancelled"), Mark(c, Where(c, "step", "running"), "failure")}
    BY <1>1 DEF CloseSteps
  <2>2. \A i \in Where(c, "step", "running") \cap DOMAIN c.items : c.items[i].kind # "user"
    BY <1>2
  <2>3. QED
    BY <1>0, <1>3, <2>1, <2>2, MarkedBubbles
<1>5. BubblesStay(a, b) /\ b \in Convs
  <2>1. b \in {a, Mark(a, Where(a, "subtask", "running"), "cancelled")}
    BY <1>1 DEF CloseSubtasks
  <2>2. \A i \in Where(a, "subtask", "running") \cap DOMAIN a.items : a.items[i].kind # "user"
    BY <1>2, <1>4
  <2>3. QED
    BY <1>0, <1>3, <1>4, <2>1, <2>2, MarkedBubbles
<1>6. PICK y : y = Mark(b, Where(c, "question", "open"), "withdrawn")
  OBVIOUS
<1>7. BubblesStay(b, y) /\ y \in Convs
  <2>1. \A i \in Where(c, "question", "open") : i \in DOMAIN c.items /\ c.items[i].kind = "question"
    BY DEF Where
  <2>2. \A i \in DOMAIN c.items : b.items[i].kind = c.items[i].kind
    <3>1. \A i \in DOMAIN c.items : a.items[i].kind = c.items[i].kind
      <4>1. a \in {c, Mark(c, Where(c, "step", "running"), "cancelled"), Mark(c, Where(c, "step", "running"), "failure")}
        BY <1>1 DEF CloseSteps
      <4>2. QED
        BY <1>0, <4>1, MarkEffect
    <3>2. DOMAIN a.items = DOMAIN c.items
      <4>1. a \in {c, Mark(c, Where(c, "step", "running"), "cancelled"), Mark(c, Where(c, "step", "running"), "failure")}
        BY <1>1 DEF CloseSteps
      <4>2. QED
        BY <1>0, <4>1, MarkEffect
    <3>3. \A i \in DOMAIN a.items : b.items[i].kind = a.items[i].kind
      <4>1. b \in {a, Mark(a, Where(a, "subtask", "running"), "cancelled")}
        BY <1>1 DEF CloseSubtasks
      <4>2. QED
        BY <1>0, <1>4, <4>1, MarkEffect
    <3>4. QED
      BY <3>1, <3>2, <3>3
  <2>3. \A i \in Where(c, "question", "open") \cap DOMAIN b.items : b.items[i].kind # "user"
    BY <2>1, <2>2
  <2>4. QED
    BY <1>0, <1>5, <1>6, <2>3, MarkedBubbles
<1>8. d = [y EXCEPT !.running = FALSE, !.question = None, !.outcome = f.id]
  BY <1>1, <1>6 DEF FoldTurnFinished
<1>9. d.items = y.items
  BY <1>7, <1>8 DEF Convs
<1>10. BubblesStay(c, y)
  BY <1>4, <1>5, <1>7, StayingOn
<1>11. QED
  BY <1>1, <1>9, <1>10 DEF BubblesStay

(* No frame makes a bubble, and a durable message takes the last of its words. *)
LEMMA BubblesFolded ==
    ASSUME NEW c \in Convs, NEW f \in Frames, NEW d, d = FoldItemEvent(c, f),
           \A i \in DOMAIN c.items : Unsent(c.items[i]) => c.items[i].status = "pending"
    PROVE  /\ BubblesDescend(c, d)
           /\ f.type = "user_message" =>
                  /\ d.items # c.items
                  /\ \A i \in DOMAIN d.items : Unsent(d.items[i]) /\ d.items[i].id = f.id =>
                         \E a, b \in DOMAIN c.items :
                             /\ a < b /\ SameBubble(c.items[a], d.items[i])
                             /\ Unsent(c.items[b]) /\ c.items[b].id = f.id
<1>1. CASE f.type \in {"append", "tool_call", "tool_result", "subtask_started", "subtask_finished"}
  BY <1>1, WorkBubbles, StayingDescends
<1>2. CASE f.type = "user_message"
  <2>1. d = FoldUserMessage(c, f)
    BY <1>2 DEF FoldItemEvent
  <2>2. /\ BubblesStay(c, d) /\ d.items # c.items
        /\ \A i \in DOMAIN d.items : Unsent(d.items[i]) /\ d.items[i].id = f.id =>
               \E j \in DOMAIN c.items : i < j /\ Unsent(c.items[j]) /\ c.items[j].id = f.id
    BY <2>1, UserMessageBubbles
  <2>3. \A i \in DOMAIN d.items : Unsent(d.items[i]) =>
            i \in DOMAIN c.items /\ SameBubble(c.items[i], d.items[i])
    BY <2>2 DEF BubblesStay
  <2>4. QED
    BY <2>2, <2>3, StayingDescends
<1>3. CASE f.type = "todo_update"
  <2>1. d = FoldTodoUpdate(c, f)
    BY <1>3 DEF FoldItemEvent
  <2>2. QED
    BY <1>3, <2>1, TodoBubbles, StayingDescends
<1>4. CASE f.type = "question"
  <2>1. PICK b : b = Push(c, f, "question", f.id, "open", None)
    OBVIOUS
  <2>2. "question" \in ItemKinds /\ "open" \in Statuses /\ f.id \in Ids /\ None \in Ids
    BY FrameFields DEF ItemKinds, Statuses
  <2>3. BubblesStay(c, b)
    BY <2>1, <2>2, PushedBubbles
  <2>4. d = [b EXCEPT !.question = f.id] /\ SameBut(c, b)
    BY <1>4, <2>1, <2>2, PushEffect DEF FoldItemEvent, FoldQuestion
  <2>5. d.items = b.items
    BY <2>4 DEF SameBut, Convs
  <2>6. BubblesStay(c, d)
    BY <2>3, <2>5 DEF BubblesStay
  <2>7. QED
    BY <1>4, <2>6, StayingDescends
<1>5. CASE f.type \in {"question_answered", "question_withdrawn"}
  <2>1. PICK hits : hits = WhereId(c, "question", f.id)
    OBVIOUS
  <2>2. PICK status \in {"answered", "withdrawn"} : d = FoldQuestionClosed(c, f, status)
    BY <1>5 DEF FoldItemEvent
  <2>3. PICK b : b = Mark(c, {LastOf(hits)}, status)
    OBVIOUS
  <2>4. d = [b EXCEPT !.question = IF b.question = f.id THEN None ELSE b.question]
    BY <2>1, <2>2, <2>3 DEF FoldQuestionClosed, MarkLast
  <2>5. status \in Statuses \ {"running", "open"}
    BY <2>2 DEF Statuses
  <2>6. /\ hits \in SUBSET (1 .. Len(c.items)) /\ Len(c.items) \in Nat /\ DOMAIN c.items = 1 .. Len(c.items)
        /\ \A i \in hits : c.items[i].kind = "question"
    BY <2>1, FrameFields DEF WhereId
  <2>7. LastOf(hits) \in hits \/ LastOf(hits) = 0
    BY <2>6, LastIn
  <2>8. \A i \in {LastOf(hits)} \cap DOMAIN c.items : c.items[i].kind # "user"
    BY <2>6, <2>7
  <2>9. BubblesStay(c, b) /\ b \in Convs
    BY <2>3, <2>5, <2>8, MarkedBubbles
  <2>10. d.items = b.items
    BY <2>4, <2>9 DEF Convs
  <2>11. BubblesStay(c, d)
    BY <2>9, <2>10 DEF BubblesStay
  <2>12. QED
    BY <1>5, <2>11, StayingDescends
<1>6. CASE f.type = "turn_started"
  <2>1. d = [c EXCEPT !.running = TRUE, !.outcome = None]
    BY <1>6 DEF FoldItemEvent
  <2>2. d.items = c.items
    BY <2>1 DEF Convs
  <2>3. BubblesStay(c, d)
    BY <2>2 DEF BubblesStay, SameBubble, Unsent
  <2>4. QED
    BY <1>6, <2>3, StayingDescends
<1>7. CASE f.type = "turn_finished"
  <2>1. d = FoldTurnFinished(c, f)
    BY <1>7 DEF FoldItemEvent
  <2>2. QED
    BY <1>7, <2>1, TurnFinishedBubbles, StayingDescends
<1>8. CASE f.type = "error"
  <2>1. PICK b : b = Push(c, f, "error", None, None, None)
    OBVIOUS
  <2>2. d = [b EXCEPT !.running = FALSE]
    BY <1>8, <2>1 DEF FoldItemEvent, FoldError
  <2>3. "error" \in ItemKinds /\ None \in Statuses /\ None \in Ids /\ None \notin {"running", "open"}
    BY FrameFields DEF ItemKinds, Statuses, None
  <2>4. SameBut(c, b) /\ BubblesStay(c, b)
    BY <2>1, <2>3, PushEffect, PushedBubbles
  <2>5. d.items = b.items
    BY <2>2, <2>4 DEF SameBut, Convs
  <2>6. BubblesStay(c, d)
    BY <2>4, <2>5 DEF BubblesStay
  <2>7. QED
    BY <1>8, <2>6, StayingDescends
<1>9. CASE f.type = "rewind"
  <2>1. PICK kept : d = [c EXCEPT !.items = Filter(c.items, kept), !.running = FALSE, !.question = None,
                                  !.outcome = None]
    BY <1>9 DEF FoldItemEvent, FoldRewind
  <2>2. d \in Convs
    BY <1>9, RewindFolded DEF FoldItemEvent
  <2>3. d.items = Filter(c.items, kept)
    BY <2>1 DEF Convs
  <2>4. QED
    BY <1>9, <2>2, <2>3, DroppedBubbles
<1>10. f.type \in FrameTypes
  BY FrameFields
<1>11. QED
  BY <1>1, <1>2, <1>3, <1>4, <1>5, <1>6, <1>7, <1>8, <1>9, <1>10 DEF FrameTypes

-----------------------------------------------------------------------------
(* Sends settle *)

(* The message x is on the stream, past the first n envelopes and one more. *)
OnStream(q, n, x) == \E s \in n + 1 .. Len(q) - 1 : q[s + 1].type = "UserMessage" /\ q[s + 1].id = x

(* A bubble has its request outstanding, its message with the engine, or its *)
(* message on the stream past the cursor.                                    *)
AwaitedBubble(q, n, inj, p, it) ==
    \/ p.stage # "none" /\ it.key = p.key /\ it.id = p.text
    \/ it.id \in ToSet(inj)
    \/ OnStream(q, n, it.id)

Pending(c) == \A i \in DOMAIN c.items : Unsent(c.items[i]) => c.items[i].status = "pending"
Single(c, dbl) ==
    \A i, j \in DOMAIN c.items :
        i < j /\ Unsent(c.items[i]) /\ Unsent(c.items[j]) /\ c.items[i].id = c.items[j].id =>
            c.items[i].id \in dbl
AllAwaited(q, c, inj, p, dbl) ==
    \A i \in DOMAIN c.items : Unsent(c.items[i]) /\ c.items[i].id \notin dbl =>
        AwaitedBubble(q, c.cursor, inj, p, c.items[i])
FlagOf(q, c, inj, p) ==
    c.sending = TRUE => p.stage # "none" \/ inj # <<>> \/ \E x : OnStream(q, c.cursor, x)

SettleOf(q, c, inj, p, dbl) ==
    Pending(c) /\ Single(c, dbl) /\ AllAwaited(q, c, inj, p, dbl) /\ FlagOf(q, c, inj, p)

SettleInv == SettleOf(log, conv, injected, post, doubled)

(* A message goes from the request to the engine and on to the stream. *)
LEMMA MessageMoves ==
    ASSUME NEW q, NEW c, NEW inj, NEW p, NEW dbl, SettleOf(q, c, inj, p, dbl), NEW r, NEW inj1, NEW p1,
           \A x : OnStream(q, c.cursor, x) => OnStream(r, c.cursor, x),
           \A x \in ToSet(inj) : x \in ToSet(inj1) \/ OnStream(r, c.cursor, x),
           inj # <<>> => inj1 # <<>> \/ \E x : OnStream(r, c.cursor, x),
           p.stage # "none" =>
               \/ p1.stage # "none" /\ p1.key = p.key /\ p1.text = p.text
               \/ p.text \in ToSet(inj1) /\ inj1 # <<>>
               \/ OnStream(r, c.cursor, p.text)
    PROVE  SettleOf(r, c, inj1, p1, dbl)
<1>1. Pending(c) /\ Single(c, dbl)
  BY DEF SettleOf
<1>2. ASSUME NEW i \in DOMAIN c.items, Unsent(c.items[i]), c.items[i].id \notin dbl
      PROVE  AwaitedBubble(r, c.cursor, inj1, p1, c.items[i])
  <2>1. AwaitedBubble(q, c.cursor, inj, p, c.items[i])
    BY <1>2 DEF SettleOf, AllAwaited
  <2>2. QED
    BY <2>1 DEF AwaitedBubble
<1>3. FlagOf(r, c, inj1, p1)
  BY DEF SettleOf, FlagOf
<1>4. QED
  BY <1>1, <1>2, <1>3 DEF SettleOf, AllAwaited

LEMMA BubblesPass ==
    ASSUME NEW c, NEW d, NEW dbl, BubblesDescend(c, d), Pending(c), Single(c, dbl)
    PROVE  Pending(d) /\ Single(d, dbl)
<1>1. ASSUME NEW i \in DOMAIN d.items, Unsent(d.items[i]) PROVE d.items[i].status = "pending"
  <2>1. PICK a \in DOMAIN c.items : SameBubble(c.items[a], d.items[i])
    BY <1>1 DEF BubblesDescend
  <2>2. QED
    BY <1>1, <2>1 DEF SameBubble, Unsent, Pending
<1>2. ASSUME NEW i \in DOMAIN d.items, NEW j \in DOMAIN d.items, i < j, Unsent(d.items[i]), Unsent(d.items[j]),
             d.items[i].id = d.items[j].id
      PROVE  d.items[i].id \in dbl
  <2>1. PICK a, b \in DOMAIN c.items :
            a < b /\ SameBubble(c.items[a], d.items[i]) /\ SameBubble(c.items[b], d.items[j])
    BY <1>2 DEF BubblesDescend
  <2>2. Unsent(c.items[a]) /\ Unsent(c.items[b]) /\ c.items[a].id = d.items[i].id /\ c.items[b].id = d.items[j].id
    BY <1>2, <2>1 DEF SameBubble, Unsent
  <2>3. QED
    BY <1>2, <2>1, <2>2 DEF Single
<1>3. QED
  BY <1>1, <1>2 DEF Pending, Single

(* A user message is one frame with its words. *)
LEMMA MessageFrame ==
    ASSUME NEW q \in Seq(Envelopes), NEW s \in 0 .. Len(q) - 1, q[s + 1].type = "UserMessage"
    PROVE  FramesOf(q, s) # {} /\ \A f \in FramesOf(q, s) : f.type = "user_message" /\ f.id = q[s + 1].id
<1>1. PICK e, f : e = q[s + 1] /\ f = Frame(s, "user_message", e.id, None)
  OBVIOUS
<1>2. TranslateRoot(e, s) = <<f>>
  BY <1>1, Vocabulary DEF TranslateRoot
<1>3. f.type = "user_message" /\ f.id = e.id
  BY <1>1 DEF Frame
<1>4. FramesOf(q, s) = {f}
  <2>1. \A p : p = <<f>> => ToSet(p) = {f}
    BY DEF ToSet
  <2>2. QED
    BY <1>1, <1>2, <2>1 DEF FramesOf
<1>5. QED
  BY <1>1, <1>3, <1>4

(* The fold itself leaves the flag of a send alone. *)
Flagged(c, d) == "sending" \in DOMAIN d /\ d.sending = c.sending

LEMMA FlagStays ==
    ASSUME NEW c, "sending" \in DOMAIN c
    PROVE  /\ Flagged(c, c)
           /\ \A f, kind, x, status, sub : Flagged(c, Push(c, f, kind, x, status, sub))
           /\ \A hits, status : Flagged(c, Mark(c, hits, status)) /\ Flagged(c, MarkLast(c, hits, status))
BY DEF Flagged, Push, Mark, MarkLast

LEMMA FlagFolded ==
    ASSUME NEW c \in Convs, NEW f \in Frames PROVE FoldItemEvent(c, f).sending = c.sending
<1>1. PICK d : d = FoldItemEvent(c, f)
  OBVIOUS
<1>2. "sending" \in DOMAIN c
  BY DEF Convs
<1>3. CASE f.type = "user_message"
  <2>1. d = FoldUserMessage(c, f)
    BY <1>1, <1>3 DEF FoldItemEvent
  <2>2. QED
    BY <1>1, <1>2, <2>1 DEF FoldUserMessage
<1>4. CASE f.type = "append"
  <2>1. d = Push(c, f, "append", f.id, None, None)
    BY <1>1, <1>4 DEF FoldItemEvent
  <2>2. QED
    BY <1>1, <1>2, <2>1, FlagStays DEF Flagged
<1>5. CASE f.type = "tool_call"
  <2>1. d \in {c, Push(c, f, "step", f.id, "running", f.sub)}
    BY <1>1, <1>5 DEF FoldItemEvent, FoldToolCall
  <2>2. QED
    BY <1>1, <1>2, <2>1, FlagStays DEF Flagged
<1>6. CASE f.type = "tool_result"
  <2>1. \E hits : d = MarkLast(c, hits, "success")
    BY <1>1, <1>6 DEF FoldItemEvent, FoldToolResult
  <2>2. QED
    BY <1>1, <1>2, <2>1, FlagStays DEF Flagged
<1>7. CASE f.type = "todo_update"
  <2>1. PICK i : \/ d = [c EXCEPT !.items[i].ver = f.seq]
                 \/ d = [c EXCEPT !.items = Append(c.items, Item("todos", f.seq, None, None, None, f.seq))]
    BY <1>1, <1>7 DEF FoldItemEvent, FoldTodoUpdate
  <2>2. d.sending = c.sending
    BY <1>2, <2>1
  <2>3. QED
    BY <1>1, <2>2
<1>8. CASE f.type = "subtask_started"
  <2>1. d \in {c, Push(c, f, "subtask", f.id, "running", None)}
    BY <1>1, <1>8 DEF FoldItemEvent, FoldSubtaskStarted
  <2>2. QED
    BY <1>1, <1>2, <2>1, FlagStays DEF Flagged
<1>9. CASE f.type = "subtask_finished"
  <2>0. d = FoldSubtaskFinished(c, f)
    BY <1>1, <1>9 DEF FoldItemEvent
  <2>1. \E hits, status : d \in {MarkLast(c, hits, status), Push(c, f, "subtask", f.id, status, None)}
    BY <2>0 DEF FoldSubtaskFinished
  <2>2. QED
    BY <1>1, <1>2, <2>1, FlagStays DEF Flagged
<1>10. CASE f.type = "question"
  <2>1. PICK b : b = Push(c, f, "question", f.id, "open", None)
    OBVIOUS
  <2>2. d = [b EXCEPT !.question = f.id]
    BY <1>1, <1>10, <2>1 DEF FoldItemEvent, FoldQuestion
  <2>3. Flagged(c, b)
    BY <1>2, <2>1, FlagStays
  <2>4. QED
    BY <1>1, <2>2, <2>3 DEF Flagged
<1>11. CASE f.type \in {"question_answered", "question_withdrawn"}
  <2>1. PICK status : d = FoldQuestionClosed(c, f, status)
    BY <1>1, <1>11 DEF FoldItemEvent
  <2>2. PICK b : b = MarkLast(c, WhereId(c, "question", f.id), status)
    OBVIOUS
  <2>3. d = [b EXCEPT !.question = IF b.question = f.id THEN None ELSE b.question]
    BY <2>1, <2>2 DEF FoldQuestionClosed
  <2>4. Flagged(c, b)
    BY <1>2, <2>2, FlagStays
  <2>5. QED
    BY <1>1, <2>3, <2>4 DEF Flagged
<1>12. CASE f.type = "turn_started"
  <2>1. d = [c EXCEPT !.running = TRUE, !.outcome = None]
    BY <1>1, <1>12 DEF FoldItemEvent
  <2>2. QED
    BY <1>1, <1>2, <2>1
<1>13. CASE f.type = "turn_finished"
  <2>1. PICK a, b, z : /\ a = CloseSteps(c, f.id) /\ b = CloseSubtasks(a, f.id)
                       /\ z = Mark(b, Where(c, "question", "open"), "withdrawn")
    OBVIOUS
  <2>2. d = [z EXCEPT !.running = FALSE, !.question = None, !.outcome = f.id]
    BY <1>1, <1>13, <2>1 DEF FoldItemEvent, FoldTurnFinished
  <2>3. Flagged(c, a)
    <3>1. \E hits, status : a \in {c, Mark(c, hits, status)}
      BY <2>1 DEF CloseSteps
    <3>2. QED
      BY <1>2, <3>1, FlagStays
  <2>4. Flagged(a, b)
    <3>1. \E hits, status : b \in {a, Mark(a, hits, status)}
      BY <2>1 DEF CloseSubtasks
    <3>2. QED
      BY <2>3, <3>1, FlagStays DEF Flagged
  <2>5. Flagged(b, z)
    BY <2>1, <2>4, FlagStays DEF Flagged
  <2>6. QED
    BY <1>1, <2>2, <2>3, <2>4, <2>5 DEF Flagged
<1>14. CASE f.type = "error"
  <2>1. PICK b : b = Push(c, f, "error", None, None, None)
    OBVIOUS
  <2>2. d = [b EXCEPT !.running = FALSE]
    BY <1>1, <1>14, <2>1 DEF FoldItemEvent, FoldError
  <2>3. Flagged(c, b)
    BY <1>2, <2>1, FlagStays
  <2>4. QED
    BY <1>1, <2>2, <2>3 DEF Flagged
<1>15. CASE f.type = "rewind"
  <2>1. PICK kept : d = [c EXCEPT !.items = Filter(c.items, kept), !.running = FALSE, !.question = None,
                                  !.outcome = None]
    BY <1>1, <1>15 DEF FoldItemEvent, FoldRewind
  <2>2. QED
    BY <1>1, <1>2, <2>1
<1>16. f.type \in FrameTypes
  BY FrameFields
<1>17. QED
  BY <1>3, <1>4, <1>5, <1>6, <1>7, <1>8, <1>9, <1>10, <1>11, <1>12, <1>13, <1>14, <1>15, <1>16 DEF FrameTypes

(* What a frame does to the bubbles and to the flag of a send. *)
BubbleStep(c, f, d) ==
    /\ d.sending = TRUE => c.sending = TRUE /\ d.items = c.items
    /\ BubblesDescend(c, d)
    /\ f.type = "user_message" /\ (f.seq = NoSeq \/ f.seq > c.cursor) =>
           /\ d.items # c.items
           /\ \A i \in DOMAIN d.items : Unsent(d.items[i]) /\ d.items[i].id = f.id =>
                  \E a, b \in DOMAIN c.items :
                      /\ a < b /\ SameBubble(c.items[a], d.items[i])
                      /\ Unsent(c.items[b]) /\ c.items[b].id = f.id

LEMMA BubblesApplied ==
    ASSUME NEW c \in Convs, NEW f \in Frames, NEW d, d = Apply(c, f), Pending(c)
    PROVE  BubbleStep(c, f, d)
<1>0. f.seq \in Int /\ c.cursor \in Int /\ c.sending \in BOOLEAN
  BY DEF Frames, Convs
<1>1. PICK b, e : /\ b = IF f.seq = NoSeq THEN c ELSE [c EXCEPT !.cursor = f.seq]
                  /\ e = FoldEvent(c, f)
  OBVIOUS
<1>2. PICK z : z = (e.sending /\ ~e.running /\ e.items = c.items /\ e.outcome = c.outcome)
  OBVIOUS
<1>3. z \in BOOLEAN
  BY <1>2
<1>4. d = [e EXCEPT !.sending = z]
  BY <1>1, <1>2 DEF Apply
<1>5. ASSUME e \in Convs PROVE d.items = e.items /\ d.sending = z
  BY <1>3, <1>4, <1>5 DEF Convs
<1>6. CASE f.seq # NoSeq /\ ~(f.seq > c.cursor)
  <2>1. e = c
    BY <1>0, <1>1, <1>6 DEF FoldEvent
  <2>2. d.items = c.items /\ d.sending = z /\ z = (c.sending /\ ~c.running /\ c.items = c.items /\ c.outcome = c.outcome)
    BY <1>2, <1>5, <2>1
  <2>3. d.sending = TRUE => c.sending = TRUE
    BY <1>0, <2>2
  <2>4. BubblesStay(c, d)
    BY <2>2 DEF BubblesStay, SameBubble, Unsent
  <2>5. QED
    BY <1>0, <1>6, <2>2, <2>3, <2>4, StayingDescends DEF BubbleStep
<1>7. CASE f.seq = NoSeq \/ f.seq > c.cursor
  <2>1. b \in Convs /\ b.items = c.items /\ b.sending = c.sending
    BY <1>0, <1>1 DEF Convs
  <2>2. e = FoldItemEvent(b, f)
    BY <1>0, <1>1, <1>7 DEF FoldEvent
  <2>3. e \in Convs
    BY <2>1, <2>2, ItemFolded DEF FoldsTo
  <2>4. d.items = e.items /\ d.sending = z
    BY <1>5, <2>3
  <2>5. \A i \in DOMAIN b.items : Unsent(b.items[i]) => b.items[i].status = "pending"
    BY <2>1 DEF Pending
  <2>6. /\ BubblesDescend(b, e)
        /\ f.type = "user_message" =>
               /\ e.items # b.items
               /\ \A i \in DOMAIN e.items : Unsent(e.items[i]) /\ e.items[i].id = f.id =>
                      \E a, k \in DOMAIN b.items :
                          /\ a < k /\ SameBubble(b.items[a], e.items[i])
                          /\ Unsent(b.items[k]) /\ b.items[k].id = f.id
    BY <2>1, <2>2, <2>5, BubblesFolded
  <2>7. BubblesDescend(c, d)
    BY <2>1, <2>4, <2>6 DEF BubblesDescend
  <2>8. e.sending = c.sending
    BY <2>1, <2>2, FlagFolded
  <2>9. d.sending = TRUE => c.sending = TRUE /\ d.items = c.items
    BY <1>0, <1>2, <2>4, <2>8
  <2>10. QED
    BY <1>7, <2>1, <2>4, <2>6, <2>7, <2>9 DEF BubbleStep
<1>8. QED
  BY <1>6, <1>7

(* The log only grows. *)
LEMMA StreamGrows ==
    ASSUME NEW q, NEW r, Len(q) \in Nat, Len(r) \in Nat, Len(q) <= Len(r), \A i \in 1 .. Len(q) : r[i] = q[i],
           NEW n \in -1 .. Len(q) - 1
    PROVE  \A x : OnStream(q, n, x) => OnStream(r, n, x)
<1> SUFFICES ASSUME NEW x, OnStream(q, n, x) PROVE OnStream(r, n, x)
  OBVIOUS
<1>1. PICK s \in n + 1 .. Len(q) - 1 : q[s + 1].type = "UserMessage" /\ q[s + 1].id = x
  BY DEF OnStream
<1>2. s \in n + 1 .. Len(r) - 1 /\ s + 1 \in 1 .. Len(q)
  BY <1>1
<1>3. r[s + 1] = q[s + 1]
  BY <1>2
<1>4. QED
  BY <1>1, <1>2, <1>3 DEF OnStream

LEMMA PublishedOne ==
    ASSUME FoldInv, NEW e, Publish(<<e>>)
    PROVE  /\ \A x : OnStream(log, conv.cursor, x) => OnStream(log', conv.cursor, x)
           /\ e.type = "UserMessage" => OnStream(log', conv.cursor, e.id)
<1>1. log \in Seq(Envelopes) /\ Len(log) \in Nat /\ conv.cursor \in -1 .. Len(log) - 1
  BY DEF FoldInv, ConvOf
<1>2. PICK T, r : T = Envelopes \cup {e} /\ r = log \o <<e>>
  OBVIOUS
<1>3. log \in Seq(T) /\ e \in T
  <2>1. \A i \in 1 .. Len(log) : log[i] \in T
    BY <1>1, <1>2
  <2>2. QED
    BY <1>1, <1>2, <2>1
<1>4. Len(r) = Len(log) + 1 /\ r[Len(log) + 1] = e /\ \A i \in 1 .. Len(log) : r[i] = log[i]
  BY <1>2, <1>3
<1>5. log' = r
  BY <1>2 DEF Publish
<1>6. \A x : OnStream(log, conv.cursor, x) => OnStream(r, conv.cursor, x)
  <2>1. Len(r) \in Nat /\ Len(log) <= Len(r)
    BY <1>1, <1>4
  <2>2. QED
    BY <1>1, <1>4, <2>1, StreamGrows
<1>7. ASSUME e.type = "UserMessage" PROVE OnStream(r, conv.cursor, e.id)
  <2>1. Len(log) \in conv.cursor + 1 .. Len(r) - 1
    BY <1>1, <1>4
  <2>2. QED
    BY <1>4, <1>7, <2>1 DEF OnStream
<1>8. QED
  BY <1>5, <1>6, <1>7

LEMMA PublishedTwo ==
    ASSUME FoldInv, NEW d, NEW e, Publish(<<d, e>>)
    PROVE  /\ \A x : OnStream(log, conv.cursor, x) => OnStream(log', conv.cursor, x)
           /\ d.type = "UserMessage" => OnStream(log', conv.cursor, d.id)
<1>1. log \in Seq(Envelopes) /\ Len(log) \in Nat /\ conv.cursor \in -1 .. Len(log) - 1
  BY DEF FoldInv, ConvOf
<1>2. PICK T, r : T = Envelopes \cup {d, e} /\ r = log \o <<d, e>>
  OBVIOUS
<1>3. log \in Seq(T) /\ d \in T /\ e \in T
  <2>1. \A i \in 1 .. Len(log) : log[i] \in T
    BY <1>1, <1>2
  <2>2. QED
    BY <1>1, <1>2, <2>1
<1>4. Len(r) = Len(log) + 2 /\ r[Len(log) + 1] = d /\ \A i \in 1 .. Len(log) : r[i] = log[i]
  BY <1>2, <1>3
<1>5. log' = r
  BY <1>2 DEF Publish
<1>6. \A x : OnStream(log, conv.cursor, x) => OnStream(r, conv.cursor, x)
  <2>1. Len(r) \in Nat /\ Len(log) <= Len(r)
    BY <1>1, <1>4
  <2>2. QED
    BY <1>1, <1>4, <2>1, StreamGrows
<1>7. ASSUME d.type = "UserMessage" PROVE OnStream(r, conv.cursor, d.id)
  <2>1. Len(log) \in conv.cursor + 1 .. Len(r) - 1
    BY <1>1, <1>4
  <2>2. QED
    BY <1>4, <1>7, <2>1 DEF OnStream
<1>8. QED
  BY <1>5, <1>6, <1>7

(* The engine works on: what was awaited still is. *)
LEMMA EngineSettlesNothing ==
    ASSUME SettleInv, UNCHANGED <<injected, conv, post, doubled>>,
           \A x : OnStream(log, conv.cursor, x) => OnStream(log', conv.cursor, x)
    PROVE  SettleInv'
<1>1. SettleOf(log', conv, injected, post, doubled)
  <2>1. SettleOf(log, conv, injected, post, doubled)
    BY DEF SettleInv
  <2>2. QED
    BY <2>1, MessageMoves
<1>2. QED
  BY <1>1 DEF SettleInv

LEMMA CommitSettles ==
    ASSUME FoldInv, SettleInv,
           Progress \/ Deliver \/ Ask \/ Answer \/ Withdraw \/ Park \/ End \/ OtherSend \/ Rewind \/ SubtaskStep
    PROVE  SettleInv'
<1>1. UNCHANGED <<injected, conv, post, doubled>>
  BY DEF Progress, Deliver, Ask, Answer, Withdraw, Park, End, OtherSend, Rewind, SubtaskStep, clientVars
<1>2. (\E e : Publish(<<e>>)) \/ (\E d, e : Publish(<<d, e>>)) \/ log' = log
  BY DEF Progress, Deliver, Ask, Answer, Withdraw, Park, End, OtherSend, Rewind, SubtaskStep
<1>3. \A x : OnStream(log, conv.cursor, x) => OnStream(log', conv.cursor, x)
  BY <1>2, PublishedOne, PublishedTwo
<1>4. QED
  BY <1>1, <1>3, EngineSettlesNothing

LEMMA DrainSettles ==
    ASSUME FoldInv, SettleInv, Drain PROVE SettleInv'
<1>1. PICK e : e = Env("UserMessage", Head(injected))
  OBVIOUS
<1>2. Publish(<<e>>) /\ injected' = Tail(injected) /\ injected # <<>> /\ injected \in Seq(Ids)
  BY <1>1 DEF Drain, FoldInv
<1>3. e.type = "UserMessage" /\ e.id = Head(injected)
  BY <1>1 DEF Env
<1>4. /\ \A x : OnStream(log, conv.cursor, x) => OnStream(log', conv.cursor, x)
      /\ OnStream(log', conv.cursor, Head(injected))
  BY <1>2, <1>3, PublishedOne
<1>5. \A x \in ToSet(injected) : x \in ToSet(Tail(injected)) \/ OnStream(log', conv.cursor, x)
  BY <1>2, <1>4, TailOf
<1>6. SettleOf(log', conv, Tail(injected), post, doubled)
  <2>1. SettleOf(log, conv, injected, post, doubled)
    BY DEF SettleInv
  <2>2. QED
    BY <1>4, <1>5, <2>1, MessageMoves
<1>7. UNCHANGED <<conv, post, doubled>>
  BY DEF Drain, clientVars
<1>8. QED
  BY <1>2, <1>6, <1>7 DEF SettleInv

(* A frame of the stream takes the place of the bubble that awaits it. *)
LEMMA ReceiveSettles ==
    ASSUME FoldInv, SettleInv, Receive PROVE SettleInv'
<1>1. /\ log \in Seq(Envelopes) /\ Len(log) \in Nat /\ pipe \in Seq(Frames) /\ pipe # <<>>
      /\ conv \in Convs /\ conv.cursor \in -1 .. Len(log) - 1
      /\ PipeOf(log, pipe, conv.cursor, online, refused, post.stage)
  BY DEF FoldInv, Receive, ConvOf
<1>2. PICK f, d, n : f = Head(pipe) /\ d = Apply(conv, f) /\ n = conv.cursor
  OBVIOUS
<1>3. f \in Frames /\ f = pipe[1] /\ 1 \in DOMAIN pipe /\ f.seq \in Int
  <2>1. f \in Frames /\ f = pipe[1] /\ 1 \in DOMAIN pipe
    BY <1>1, <1>2, TailOf
  <2>2. QED
    BY <2>1 DEF Frames
<1>4. /\ Pending(conv) /\ Single(conv, doubled)
      /\ AllAwaited(log, conv, injected, post, doubled) /\ FlagOf(log, conv, injected, post)
  BY DEF SettleInv, SettleOf
<1>5. /\ d.sending = TRUE => conv.sending = TRUE /\ d.items = conv.items
      /\ BubblesDescend(conv, d)
      /\ f.type = "user_message" /\ (f.seq = NoSeq \/ f.seq > conv.cursor) =>
             /\ d.items # conv.items
             /\ \A i \in DOMAIN d.items : Unsent(d.items[i]) /\ d.items[i].id = f.id =>
                    \E a, b \in DOMAIN conv.items :
                        /\ a < b /\ SameBubble(conv.items[a], d.items[i])
                        /\ Unsent(conv.items[b]) /\ conv.items[b].id = f.id
  <2>1. conv \in Convs /\ f \in Frames /\ d = Apply(conv, f) /\ Pending(conv)
    BY <1>1, <1>2, <1>3, <1>4
  <2>2. BubbleStep(conv, f, d)
    BY <2>1, BubblesApplied
  <2>3. QED
    BY <2>2 DEF BubbleStep
<1>6. d.cursor = CursorAfter(n, f)
  BY <1>1, <1>2, <1>3, Applied
<1>7. Pending(d) /\ Single(d, doubled)
  BY <1>4, <1>5, BubblesPass
(* A message awaited on the stream is awaited still, or this frame is it. *)
<1>8. ASSUME NEW x, OnStream(log, n, x)
      PROVE  \/ OnStream(log, d.cursor, x)
             \/ f.seq # NoSeq /\ f.seq > n /\ f.type = "user_message" /\ f.id = x
  <2>1. PICK s \in n + 1 .. Len(log) - 1 : log[s + 1].type = "UserMessage" /\ log[s + 1].id = x
    BY <1>8 DEF OnStream
  <2>2. s \in 0 .. Len(log) - 1
    BY <1>1, <1>2, <2>1
  <2>3. CASE ~(f.seq # NoSeq /\ f.seq > n)
    <3>1. d.cursor = n
      BY <1>6, <2>3 DEF CursorAfter
    <3>2. QED
      BY <1>8, <3>1
  <2>4. CASE f.seq # NoSeq /\ f.seq > n
    <3>1. d.cursor = f.seq /\ f.seq \in 0 .. Len(log) - 1 /\ f \in FramesOf(log, f.seq)
      <4>1. GenuineFrame(log, f, n)
        BY <1>1, <1>2, <1>3 DEF PipeOf, Genuine
      <4>2. QED
        BY <1>6, <2>4, <4>1 DEF CursorAfter, GenuineFrame
    <3>2. CASE s > f.seq
      <4>1. s \in d.cursor + 1 .. Len(log) - 1
        BY <1>1, <2>2, <3>1, <3>2
      <4>2. QED
        BY <2>1, <4>1 DEF OnStream
    <3>3. CASE s = f.seq
      BY <1>1, <2>1, <2>2, <2>4, <3>1, <3>3, MessageFrame
    <3>4. CASE s < f.seq
      <4>1. s \in n + 1 .. f.seq - 1
        BY <1>1, <1>2, <2>1, <3>1, <3>4
      <4>2. FramesOf(log, s) = {}
        BY <1>1, <1>2, <2>4, <4>1, LullBefore
      <4>3. QED
        BY <1>1, <2>1, <2>2, <4>2, MessageFrame
    <3>5. QED
      BY <2>2, <3>1, <3>2, <3>3, <3>4
  <2>5. QED
    BY <2>3, <2>4
<1>9. ASSUME NEW i \in DOMAIN d.items, Unsent(d.items[i]), d.items[i].id \notin doubled
      PROVE  AwaitedBubble(log, d.cursor, injected, post, d.items[i])
  <2>1. PICK a \in DOMAIN conv.items : SameBubble(conv.items[a], d.items[i])
    BY <1>5, <1>9 DEF BubblesDescend
  <2>2. /\ Unsent(conv.items[a]) /\ conv.items[a].id = d.items[i].id /\ conv.items[a].key = d.items[i].key
        /\ conv.items[a].id \notin doubled
    BY <1>9, <2>1 DEF SameBubble, Unsent
  <2>3. AwaitedBubble(log, n, injected, post, conv.items[a])
    BY <1>2, <1>4, <2>2 DEF AllAwaited
  <2>4. ASSUME f.seq # NoSeq /\ f.seq > n /\ f.type = "user_message" /\ f.id = d.items[i].id PROVE FALSE
    <3>1. PICK b, k \in DOMAIN conv.items :
              /\ b < k /\ SameBubble(conv.items[b], d.items[i])
              /\ Unsent(conv.items[k]) /\ conv.items[k].id = f.id
      BY <1>2, <1>5, <1>9, <2>4
    <3>2. Unsent(conv.items[b]) /\ conv.items[b].id = f.id
      BY <1>9, <2>4, <3>1 DEF SameBubble, Unsent
    <3>3. conv.items[b].id \in doubled
      BY <1>4, <3>1, <3>2 DEF Single
    <3>4. QED
      BY <1>9, <2>4, <3>2, <3>3
  <2>5. OnStream(log, n, d.items[i].id) => OnStream(log, d.cursor, d.items[i].id)
    BY <1>8, <2>4
  <2>6. QED
    BY <2>2, <2>3, <2>5 DEF AwaitedBubble
<1>10. FlagOf(log, d, injected, post)
  <2>1. SUFFICES ASSUME d.sending = TRUE, post.stage = "none", injected = <<>>
                 PROVE  \E x : OnStream(log, d.cursor, x)
    BY DEF FlagOf
  <2>2. conv.sending = TRUE /\ d.items = conv.items
    BY <1>5, <2>1
  <2>3. PICK x : OnStream(log, n, x)
    BY <1>2, <1>4, <2>1, <2>2 DEF FlagOf
  <2>4. ~(f.seq # NoSeq /\ f.seq > n /\ f.type = "user_message")
    BY <1>2, <1>5, <2>2
  <2>5. QED
    BY <1>8, <2>3, <2>4
<1>11. SettleOf(log, d, injected, post, doubled)
  BY <1>7, <1>9, <1>10 DEF SettleOf, AllAwaited
<1>12. /\ conv' = d /\ log' = log /\ injected' = injected /\ post' = post /\ doubled' = doubled
  BY <1>2 DEF Receive, engineVars
<1>13. QED
  BY <1>11, <1>12 DEF SettleInv

LEMMA DeliverMessageSettles ==
    ASSUME FoldInv, SettleInv, DeliverMessage PROVE SettleInv'
<1>1. PICK t \in Texts :
          /\ conv' = [conv EXCEPT
                 !.items = Append(conv.items, Item("user", conv.nextKey, t, "pending", None, 0)),
                 !.nextKey = conv.nextKey - 1,
                 !.sending = TRUE]
          /\ post' = [stage |-> "request", text |-> t, key |-> conv.nextKey]
          /\ doubled' = IF Where(conv, "user", "pending") \cap WhereId(conv, "user", t) = {}
                        THEN doubled ELSE doubled \cup {t}
  BY DEF DeliverMessage
<1>2. PICK c, it, p, dbl : /\ it = Item("user", conv.nextKey, t, "pending", None, 0)
                           /\ c = [conv EXCEPT !.items = Append(conv.items, it),
                                               !.nextKey = conv.nextKey - 1, !.sending = TRUE]
                           /\ p = [stage |-> "request", text |-> t, key |-> conv.nextKey]
                           /\ dbl = IF Where(conv, "user", "pending") \cap WhereId(conv, "user", t) = {}
                                    THEN doubled ELSE doubled \cup {t}
  OBVIOUS
<1>3. /\ conv \in Convs /\ conv.items \in Seq(RightItems) /\ Len(conv.items) \in Nat
      /\ DOMAIN conv.items = 1 .. Len(conv.items) /\ post.stage = "none"
      /\ conv.nextKey \in Int /\ t \in Ids /\ None \in Ids
  BY IdsAre DEF FoldInv, ConvOf, Convs, DeliverMessage
<1>4. /\ it \in RightItems /\ it.kind = "user" /\ it.status = "pending" /\ it.id = t /\ it.key = conv.nextKey
  BY <1>2, <1>3 DEF Item, RightItems, ItemKinds, Statuses
<1>5. c.items = Append(conv.items, it) /\ c.cursor = conv.cursor
  BY <1>2, <1>3 DEF Convs
<1>6. /\ DOMAIN c.items = 1 .. Len(conv.items) + 1 /\ c.items[Len(conv.items) + 1] = it
      /\ \A i \in 1 .. Len(conv.items) : c.items[i] = conv.items[i]
  BY <1>3, <1>4, <1>5
<1>7. p.stage = "request" /\ p.text = t /\ p.key = conv.nextKey
  BY <1>2
<1>8. doubled \subseteq dbl /\ (t \notin dbl => Where(conv, "user", "pending") \cap WhereId(conv, "user", t) = {})
  BY <1>2
<1>9. /\ Pending(conv) /\ Single(conv, doubled) /\ AllAwaited(log, conv, injected, post, doubled)
  BY DEF SettleInv, SettleOf
<1>10. Pending(c)
  BY <1>3, <1>4, <1>6, <1>9 DEF Pending
<1>11. ASSUME NEW i \in DOMAIN c.items, NEW j \in DOMAIN c.items, i < j, Unsent(c.items[i]), Unsent(c.items[j]),
              c.items[i].id = c.items[j].id
       PROVE  c.items[i].id \in dbl
  <2>1. i \in DOMAIN conv.items /\ c.items[i] = conv.items[i]
    BY <1>3, <1>6, <1>11
  <2>2. CASE j \in DOMAIN conv.items
    <3>1. c.items[j] = conv.items[j]
      BY <1>3, <1>6, <2>2
    <3>2. QED
      BY <1>8, <1>9, <1>11, <2>1, <2>2, <3>1 DEF Single
  <2>3. CASE j \notin DOMAIN conv.items
    <3>1. c.items[j] = it
      BY <1>3, <1>6, <2>3
    <3>2. conv.items[i].kind = "user" /\ conv.items[i].status = "pending" /\ conv.items[i].id = t
      BY <1>4, <1>9, <1>11, <2>1, <3>1 DEF Unsent, Pending
    <3>3. i \in Where(conv, "user", "pending") \cap WhereId(conv, "user", t)
      BY <2>1, <3>2 DEF Where, WhereId
    <3>4. QED
      BY <1>8, <2>1, <3>2, <3>3
  <2>4. QED
    BY <2>2, <2>3
<1>12. ASSUME NEW i \in DOMAIN c.items, Unsent(c.items[i]), c.items[i].id \notin dbl
       PROVE  AwaitedBubble(log, c.cursor, injected, p, c.items[i])
  <2>1. CASE i \in DOMAIN conv.items
    <3>1. c.items[i] = conv.items[i]
      BY <1>3, <1>6, <2>1
    <3>2. AwaitedBubble(log, conv.cursor, injected, post, conv.items[i])
      BY <1>8, <1>9, <1>12, <2>1, <3>1 DEF AllAwaited
    <3>3. QED
      BY <1>3, <1>5, <3>1, <3>2 DEF AwaitedBubble
  <2>2. CASE i \notin DOMAIN conv.items
    <3>1. c.items[i] = it
      BY <1>3, <1>6, <2>2
    <3>2. QED
      BY <1>4, <1>7, <3>1 DEF AwaitedBubble
  <2>3. QED
    BY <2>1, <2>2
<1>13. FlagOf(log, c, injected, p)
  BY <1>7 DEF FlagOf
<1>14. SettleOf(log, c, injected, p, dbl)
  BY <1>10, <1>11, <1>12, <1>13 DEF SettleOf, Single, AllAwaited
<1>15. conv' = c /\ post' = p /\ doubled' = dbl /\ log' = log /\ injected' = injected
  BY <1>1, <1>2 DEF DeliverMessage, engineVars
<1>16. QED
  BY <1>14, <1>15 DEF SettleInv

LEMMA RequestSettles ==
    ASSUME FoldInv, SettleInv, SendMessage \/ PushTurnStarted \/ Refuse PROVE SettleInv'
<1>1. PICK stage : /\ stage \in {"error", "steer", "prepared", "drive"}
                   /\ post' = [post EXCEPT !.stage = stage]
  <2>1. CASE SendMessage
    BY <2>1 DEF SendMessage
  <2>2. CASE PushTurnStarted
    BY <2>2 DEF PushTurnStarted
  <2>3. CASE Refuse
    BY <2>3 DEF Refuse
  <2>4. QED
    BY <2>1, <2>2, <2>3
<1>2. PICK p : p = [post EXCEPT !.stage = stage]
  OBVIOUS
<1>3. p.stage # "none" /\ p.key = post.key /\ p.text = post.text
  BY <1>1, <1>2 DEF FoldInv
<1>4. SettleOf(log, conv, injected, p, doubled)
  <2>1. SettleOf(log, conv, injected, post, doubled)
    BY DEF SettleInv
  <2>2. QED
    BY <1>3, <2>1, MessageMoves
<1>5. UNCHANGED <<log, injected, conv, doubled>> /\ post' = p
  BY <1>1, <1>2 DEF SendMessage, PushTurnStarted, Refuse, engineVars
<1>6. QED
  BY <1>4, <1>5 DEF SettleInv

LEMMA AcceptSettles ==
    ASSUME FoldInv, SettleInv, Accept PROVE SettleInv'
<1>1. post' = NoPost /\ conv' = conv /\ doubled' = doubled
  BY DEF Accept
<1>2. SettleOf(log, conv, injected, post, doubled) /\ injected \in Seq(Ids) /\ post.text \in Ids
  BY DEF SettleInv, FoldInv
<1>3. CASE Publish(<<Env("UserMessage", post.text), Env("TaskWoken", None)>>) /\ injected' = injected
  <2>1. PICK d, e : d = Env("UserMessage", post.text) /\ e = Env("TaskWoken", None)
    OBVIOUS
  <2>2. d.type = "UserMessage" /\ d.id = post.text /\ Publish(<<d, e>>)
    BY <1>3, <2>1 DEF Env
  <2>3. /\ \A x : OnStream(log, conv.cursor, x) => OnStream(log', conv.cursor, x)
        /\ OnStream(log', conv.cursor, post.text)
    BY <2>2, PublishedTwo
  <2>4. SettleOf(log', conv, injected, NoPost, doubled)
    BY <1>2, <2>3, MessageMoves
  <2>5. QED
    BY <1>1, <1>3, <2>4 DEF SettleInv
<1>4. CASE injected' = Append(injected, post.text) /\ log' = log
  <2>1. PICK inj : inj = Append(injected, post.text)
    OBVIOUS
  <2>2. /\ inj # <<>> /\ DOMAIN inj = 1 .. Len(injected) + 1 /\ inj[Len(injected) + 1] = post.text
        /\ Len(injected) \in Nat /\ DOMAIN injected = 1 .. Len(injected)
        /\ \A i \in 1 .. Len(injected) : inj[i] = injected[i]
    BY <1>2, <2>1
  <2>3. post.text \in ToSet(inj) /\ \A x \in ToSet(injected) : x \in ToSet(inj)
    BY <2>2 DEF ToSet
  <2>4. SettleOf(log, conv, inj, NoPost, doubled)
    BY <1>2, <2>2, <2>3, MessageMoves
  <2>5. QED
    BY <1>1, <1>4, <2>1, <2>4 DEF SettleInv
<1>5. QED
  BY <1>3, <1>4 DEF Accept

(* The refused bubble is taken back. *)
LEMMA DropPendingSettles ==
    ASSUME FoldInv, SettleInv, DropPending PROVE SettleInv'
<1>1. PICK kept, d : /\ kept = {it \in ToSet(conv.items) :
                                   ~(it.key = post.key /\ it.kind = "user" /\ it.status = "pending")}
                     /\ d = [conv EXCEPT !.items = Filter(conv.items, kept), !.sending = FALSE]
  OBVIOUS
<1>2. /\ conv' = d /\ post' = NoPost /\ log' = log /\ injected' = injected /\ doubled' = doubled
  BY <1>1 DEF DropPending, engineVars
<1>3. conv \in Convs /\ conv.items \in Seq(RightItems)
  BY DEF FoldInv, ConvOf, Convs
<1>4. Filter(conv.items, kept) \in Seq(RightItems)
  BY <1>3, Filtered DEF KeptOf
<1>5. d \in Convs /\ d.items = Filter(conv.items, kept) /\ d.sending = FALSE /\ d.cursor = conv.cursor
  BY <1>1, <1>3, <1>4 DEF Convs
<1>6. BubblesDescend(conv, d) /\ \A i \in DOMAIN d.items : d.items[i] \in kept
  BY <1>3, <1>5, DroppedBubbles
<1>7. Pending(conv) /\ Single(conv, doubled) /\ AllAwaited(log, conv, injected, post, doubled)
  BY DEF SettleInv, SettleOf
<1>8. Pending(d) /\ Single(d, doubled)
  BY <1>6, <1>7, BubblesPass
<1>9. ASSUME NEW i \in DOMAIN d.items, Unsent(d.items[i]), d.items[i].id \notin doubled
      PROVE  AwaitedBubble(log, d.cursor, injected, NoPost, d.items[i])
  <2>1. PICK a \in DOMAIN conv.items : SameBubble(conv.items[a], d.items[i])
    BY <1>6, <1>9 DEF BubblesDescend
  <2>2. /\ Unsent(conv.items[a]) /\ conv.items[a].id = d.items[i].id /\ conv.items[a].key = d.items[i].key
        /\ conv.items[a].id \notin doubled
    BY <1>9, <2>1 DEF SameBubble, Unsent
  <2>3. AwaitedBubble(log, conv.cursor, injected, post, conv.items[a])
    BY <1>7, <2>2 DEF AllAwaited
  <2>4. d.items[i].key # post.key
    <3>1. d.items[i] \in kept /\ d.items[i].kind = "user" /\ d.items[i].status = "pending"
      BY <1>6, <1>8, <1>9 DEF Unsent, Pending
    <3>2. QED
      BY <1>1, <3>1
  <2>5. QED
    BY <1>5, <2>2, <2>3, <2>4 DEF AwaitedBubble
<1>10. FlagOf(log, d, injected, NoPost)
  BY <1>5 DEF FlagOf
<1>11. SettleOf(log, d, injected, NoPost, doubled)
  BY <1>8, <1>9, <1>10 DEF SettleOf, AllAwaited
<1>12. QED
  BY <1>2, <1>11 DEF SettleInv

LEMMA SettleStarts ==
    ASSUME Init PROVE SettleInv
<1>1. conv = InitialConversationState
  BY DEF Init
<1>2. conv.items = <<>> /\ conv.sending = FALSE
  BY <1>1 DEF InitialConversationState
<1>3. QED
  BY <1>2 DEF SettleInv, SettleOf, Pending, Single, AllAwaited, FlagOf

LEMMA SettleSteps ==
    FoldInv /\ SettleInv /\ [Next]_vars => SettleInv'
<1> SUFFICES ASSUME FoldInv, SettleInv, [Next]_vars PROVE SettleInv'
  OBVIOUS
<1>1. CASE Progress \/ Deliver \/ Ask \/ Answer \/ Withdraw \/ Park \/ End \/ OtherSend \/ Rewind \/ SubtaskStep
  BY <1>1, CommitSettles
<1>2. CASE Drain
  BY <1>2, DrainSettles
<1>3. CASE Receive
  BY <1>3, ReceiveSettles
<1>4. CASE DeliverMessage
  BY <1>4, DeliverMessageSettles
<1>5. CASE SendMessage \/ PushTurnStarted \/ Refuse
  BY <1>5, RequestSettles
<1>6. CASE Accept
  BY <1>6, AcceptSettles
<1>7. CASE DropPending
  BY <1>7, DropPendingSettles
<1>8. CASE Connect \/ Disconnect \/ UNCHANGED vars
  <2>1. UNCHANGED <<log, injected, conv, post, doubled>>
    BY <1>8 DEF Connect, Disconnect, vars, engineVars
  <2>2. QED
    BY <2>1 DEF SettleInv
<1>9. QED
  BY <1>1, <1>2, <1>3, <1>4, <1>5, <1>6, <1>7, <1>8 DEF Next

LEMMA SendSettlesHolds ==
    FoldInv /\ SettleInv => SendSettles
<1> SUFFICES ASSUME FoldInv, SettleInv, CaughtUp, post.stage = "none", injected = <<>>
             PROVE  /\ ~conv.sending
                    /\ \A it \in Items : it.kind = "user" /\ it.status # "sent" => it.id \in doubled
  BY DEF SendSettles
<1>1. /\ log \in Seq(Envelopes) /\ Len(log) \in Nat /\ conv.cursor \in -1 .. Len(log) - 1
      /\ pipe = <<>> /\ Complete(log, pipe, conv.cursor) /\ conv.sending \in BOOLEAN
  BY DEF FoldInv, ConvOf, PipeOf, CaughtUp, Convs
<1>2. ASSUME NEW x, OnStream(log, conv.cursor, x) PROVE FALSE
  <2>1. PICK s \in conv.cursor + 1 .. Len(log) - 1 : log[s + 1].type = "UserMessage"
    BY <1>2 DEF OnStream
  <2>2. s \in 0 .. Len(log) - 1
    BY <1>1
  <2>3. FramesOf(log, s) \subseteq ToSet(pipe) /\ ToSet(pipe) = {}
    BY <1>1 DEF Complete, ToSet
  <2>4. QED
    BY <1>1, <2>1, <2>2, <2>3, MessageFrame
<1>3. AllAwaited(log, conv, injected, post, doubled) /\ FlagOf(log, conv, injected, post)
  BY DEF SettleInv, SettleOf
<1>4. conv.sending # TRUE
  BY <1>2, <1>3 DEF FlagOf
<1>5. ASSUME NEW i \in DOMAIN conv.items, Unsent(conv.items[i]), conv.items[i].id \notin doubled PROVE FALSE
  <2>1. AwaitedBubble(log, conv.cursor, injected, post, conv.items[i])
    BY <1>3, <1>5 DEF AllAwaited
  <2>2. ToSet(injected) = {}
    BY DEF ToSet
  <2>3. QED
    BY <1>2, <2>1, <2>2 DEF AwaitedBubble
<1>6. QED
  BY <1>1, <1>4, <1>5 DEF Items, Unsent

(* Once the engine has drained its steering messages and the client has      *)
(* caught up, no bubble and no "sending" flag is left of any send, accepted  *)
(* or refused, but for words sent over their own bubble (conversation.ts     *)
(* foldUserMessage, the composer's deliver and dropPending).                 *)
THEOREM NoSendLingers == Spec => []SendSettles
<1>1. Init => FoldInv /\ SettleInv
  BY FoldStarts, SettleStarts
<1>2. FoldInv /\ SettleInv /\ [Next]_vars => FoldInv' /\ SettleInv'
  BY FoldSteps, SettleSteps
<1>3. QED
  BY <1>1, <1>2, SendSettlesHolds, PTL DEF Spec

-----------------------------------------------------------------------------
(* The durable items, by the log *)

(* A call of a subtask's own stream, a subtask that was cancelled, and one   *)
(* spawned among the first n envelopes.                                      *)
SubCall(sl, x) == \E s \in Subtasks : \E i \in DOMAIN sl[s] : sl[s][i] = Env("ToolCallStarted", x)
CancelledIn(sl, x) == x \in Subtasks /\ \E i \in DOMAIN sl[x] : sl[x][i].type = "TaskCancelled"
Spawned(q, n, x) == \E i \in 1 .. n : q[i] = Env("SubtaskSpawned", x)

(* What a frame makes of the status of an item that is there already. *)
StatusAfter(f, x) ==
    CASE f.type = "tool_result" /\ x.kind = "step" /\ x.status = "running" /\ x.id = f.id -> "success"
      [] f.type = "question_answered" /\ x.kind = "question" /\ x.id = f.id -> "answered"
      [] f.type = "question_withdrawn" /\ x.kind = "question" /\ x.id = f.id -> "withdrawn"
      [] f.type = "subtask_finished" /\ x.kind = "subtask" /\ x.status = "running" /\ x.id = f.id ->
             IF f.sub = "cancelled" THEN "cancelled" ELSE "completed"
      [] f.type = "turn_finished" /\ f.id = "cancelled" /\ x.kind \in {"step", "subtask"}
             /\ x.status = "running" -> "cancelled"
      [] f.type = "turn_finished" /\ f.id = "failed" /\ x.kind = "step" /\ x.status = "running" -> "failure"
      [] f.type = "turn_finished" /\ x.kind = "question" /\ x.status = "open" -> "withdrawn"
      [] OTHER -> x.status
Restated(f, x) == [x EXCEPT !.status = StatusAfter(f, x)]

(* The item a frame adds, and when it adds one. *)
NewItem(f) ==
    CASE f.type = "user_message"    -> Item("user", f.seq, f.id, "sent", None, 0)
      [] f.type = "append"          -> Item("append", f.seq, f.id, None, None, 0)
      [] f.type = "tool_call"       -> Item("step", f.seq, f.id, "running", f.sub, 0)
      [] f.type = "subtask_started" -> Item("subtask", f.seq, f.id, "running", None, 0)
      [] f.type = "question"        -> Item("question", f.seq, f.id, "open", None, 0)
      [] f.type = "error"           -> Item("error", f.seq, None, None, None, 0)
      [] f.type = "subtask_finished" ->
             Item("subtask", f.seq, f.id, IF f.sub = "cancelled" THEN "cancelled" ELSE "completed", None, 0)
Adding == {"user_message", "append", "tool_call", "subtask_started", "question", "error"}
Live(X, id) == \E x \in X : x.kind = "subtask" /\ x.status = "running" /\ x.id = id
Adds(f, X) == f.type \in Adding \/ (f.type = "subtask_finished" /\ ~Live(X, f.id))

Revise(f, X) ==
    {Restated(f, x) : x \in {y \in X : f.type = "rewind" => y.key <= f.at}}
        \cup {it \in {NewItem(f)} : Adds(f, X)}

Shown(c) == DurableItems(c, Kinds)

LEMMA ShownIs ==
    ASSUME NEW c, NEW it
    PROVE  it \in Shown(c) <=> \E i \in DOMAIN c.items : it = c.items[i] /\ it.key >= 0 /\ it.kind \in Kinds
BY DEF Shown, DurableItems

LEMMA RevisedIs ==
    ASSUME NEW f, NEW X, NEW it
    PROVE  it \in Revise(f, X) <=> \/ \E x \in X : (f.type = "rewind" => x.key <= f.at) /\ it = Restated(f, x)
                                   \/ it = NewItem(f) /\ Adds(f, X)
BY DEF Revise

LEMMA RestatedFields ==
    ASSUME NEW f \in Frames, NEW x \in RightItems
    PROVE  /\ Restated(f, x).key = x.key /\ Restated(f, x).kind = x.kind /\ Restated(f, x).id = x.id
           /\ Restated(f, x).status = StatusAfter(f, x)
           /\ f.type \in Adding \cup {"todo_update", "turn_started", "rewind"} => Restated(f, x) = x
<1>1. /\ Restated(f, x).key = x.key /\ Restated(f, x).kind = x.kind /\ Restated(f, x).id = x.id
      /\ Restated(f, x).status = StatusAfter(f, x)
  BY DEF Restated, RightItems
<1>2. ASSUME f.type \in Adding \cup {"todo_update", "turn_started", "rewind"} PROVE Restated(f, x) = x
  <2>1. StatusAfter(f, x) = x.status
    BY <1>2 DEF StatusAfter, Adding
  <2>2. QED
    BY <2>1 DEF Restated, RightItems
<1>3. QED
  BY <1>1, <1>2

LEMMA MarkedItems ==
    ASSUME NEW c \in Convs, NEW hits, NEW status, NEW d, d = Mark(c, hits, status)
    PROVE  /\ DOMAIN d.items = DOMAIN c.items
           /\ \A i \in DOMAIN c.items :
                  d.items[i] = IF i \in hits THEN [c.items[i] EXCEPT !.status = status] ELSE c.items[i]
<1>1. PICK s : s = [i \in DOMAIN c.items |->
                       IF i \in hits THEN [c.items[i] EXCEPT !.status = status] ELSE c.items[i]]
  OBVIOUS
<1>2. d = [c EXCEPT !.items = s]
  BY <1>1 DEF Mark
<1>3. d.items = s
  BY <1>2 DEF Convs
<1>4. QED
  BY <1>1, <1>3

LEMMA PushedItems ==
    ASSUME NEW c \in Convs, NEW f, NEW kind, NEW x, NEW status, NEW sub
    PROVE  Push(c, f, kind, x, status, sub).items = Append(c.items, Item(kind, Key(c, f), x, status, sub, 0))
BY DEF Push, Convs

(* Frames that restate items in place, and frames that add one at the end. *)
LEMMA ShownRestated ==
    ASSUME NEW c \in Convs, NEW f \in Frames, NEW d, DOMAIN d.items = DOMAIN c.items,
           \A i \in DOMAIN c.items : d.items[i] = Restated(f, c.items[i]),
           f.type # "rewind", ~Adds(f, Shown(c))
    PROVE  Shown(d) = Revise(f, Shown(c))
<1>1. ASSUME NEW it \in Shown(d) PROVE it \in Revise(f, Shown(c))
  <2>1. PICK i \in DOMAIN d.items : it = d.items[i] /\ it.key >= 0 /\ it.kind \in Kinds
    BY <1>1, ShownIs
  <2>2. c.items[i] \in RightItems /\ it = Restated(f, c.items[i])
    BY <2>1, FrameFields
  <2>3. c.items[i].key >= 0 /\ c.items[i].kind \in Kinds
    BY <2>1, <2>2, RestatedFields
  <2>4. c.items[i] \in Shown(c)
    BY <2>1, <2>3, ShownIs
  <2>5. QED
    BY <2>2, <2>4, RevisedIs
<1>2. ASSUME NEW it \in Revise(f, Shown(c)) PROVE it \in Shown(d)
  <2>1. PICK x \in Shown(c) : it = Restated(f, x)
    BY <1>2, RevisedIs
  <2>2. PICK i \in DOMAIN c.items : x = c.items[i] /\ x.key >= 0 /\ x.kind \in Kinds
    BY <2>1, ShownIs
  <2>3. x \in RightItems
    BY <2>2, FrameFields
  <2>4. it = d.items[i] /\ it.key >= 0 /\ it.kind \in Kinds
    BY <2>1, <2>2, <2>3, RestatedFields
  <2>5. QED
    BY <2>2, <2>4, ShownIs
<1>3. QED
  BY <1>1, <1>2

(* A frame that only adds. *)
LEMMA ShownAdded ==
    ASSUME NEW c \in Convs, NEW f \in Frames, NEW B, B = Shown(c) \cup {NewItem(f)},
           f.type \in Adding \/ (f.type = "subtask_finished" /\ ~Live(Shown(c), f.id))
    PROVE  B = Revise(f, Shown(c))
<1>1. Adds(f, Shown(c))
  BY DEF Adds
<1>2. f.type # "rewind"
  BY DEF Adding
<1>3. ASSUME NEW x \in Shown(c) PROVE Restated(f, x) = x
  <2>1. PICK i \in DOMAIN c.items : x = c.items[i]
    BY <1>3, ShownIs
  <2>2. x \in RightItems
    BY <2>1, FrameFields
  <2>3. CASE f.type \in Adding
    BY <2>2, <2>3, RestatedFields
  <2>4. CASE f.type = "subtask_finished" /\ ~Live(Shown(c), f.id)
    <3>1. ~(x.kind = "subtask" /\ x.status = "running" /\ x.id = f.id)
      BY <1>3, <2>4 DEF Live
    <3>2. StatusAfter(f, x) = x.status
      BY <2>4, <3>1 DEF StatusAfter
    <3>3. QED
      BY <2>2, <3>2 DEF Restated, RightItems
  <2>5. QED
    BY <2>3, <2>4
<1>4. \A it : it \in Revise(f, Shown(c)) <=> it \in Shown(c) \/ it = NewItem(f)
  BY <1>1, <1>2, <1>3, RevisedIs
<1>5. QED
  BY <1>4

-----------------------------------------------------------------------------
(* One frame of the session's own stream *)

(* Two cards of one call or question, or two running ones of one subtask. *)
Twins(x, y) ==
    /\ x.kind = y.kind /\ x.id = y.id
    /\ \/ x.kind \in {"step", "question"}
       \/ x.kind = "subtask" /\ x.status = "running" /\ y.status = "running"
NoTwins(c) == \A i, j \in DOMAIN c.items : i < j => ~Twins(c.items[i], c.items[j])

(* What keeps a fold faithful: no twins, no synthetic key on an item the log *)
(* speaks of, and a card is opened once.                                     *)
Plain(c) ==
    /\ NoTwins(c)
    /\ \A i \in DOMAIN c.items :
           /\ c.items[i].kind = "user" /\ c.items[i].status = "pending" => c.items[i].key < 0
           /\ c.items[i].kind = "subtask" /\ c.items[i].status = "running" => c.items[i].key >= 0
Opens(c, f) ==
    /\ f.type = "tool_call" => ~Has(c, "step", f.id)
    /\ f.type = "subtask_started" => ~Has(c, "subtask", f.id)

LEMMA LastAlone ==
    ASSUME NEW n \in Nat, NEW hits \in SUBSET (1 .. n), \A i, j \in hits : ~(i < j)
    PROVE  \A i \in 1 .. n : i \in {LastOf(hits)} <=> i \in hits
<1>1. CASE hits = {}
  BY <1>1, LastIn
<1>2. CASE hits # {}
  <2>1. LastOf(hits) \in hits /\ \A i \in hits : i <= LastOf(hits)
    BY <1>2, LastIn
  <2>2. ASSUME NEW i \in hits PROVE i = LastOf(hits)
    <3>1. PICK j \in hits : j = LastOf(hits)
      BY <2>1
    <3>2. i \in Nat /\ j \in Nat /\ i <= j /\ ~(i < j)
      BY <2>1, <3>1
    <3>3. QED
      BY <3>1, <3>2
  <2>3. QED
    BY <2>1, <2>2
<1>3. QED
  BY <1>1, <1>2

LEMMA MarkedLast ==
    ASSUME NEW c \in Convs, NEW hits, NEW status, NEW d, d = MarkLast(c, hits, status)
    PROVE  /\ DOMAIN d.items = DOMAIN c.items
           /\ \A i \in DOMAIN c.items :
                  d.items[i] = IF i \in {LastOf(hits)} THEN [c.items[i] EXCEPT !.status = status] ELSE c.items[i]
<1>1. PICK last : last = {LastOf(hits)} /\ d = Mark(c, last, status)
  BY DEF MarkLast
<1>2. /\ DOMAIN d.items = DOMAIN c.items
      /\ \A i \in DOMAIN c.items :
             d.items[i] = IF i \in last THEN [c.items[i] EXCEPT !.status = status] ELSE c.items[i]
  BY <1>1, MarkedItems
<1>3. QED
  BY <1>1, <1>2

(* The last of one card is that card. *)
LEMMA MarkedAlone ==
    ASSUME NEW c \in Convs, NEW f \in Frames, NEW hits, NEW status, hits \subseteq DOMAIN c.items,
           \A i, j \in hits : ~(i < j),
           \A i \in hits : StatusAfter(f, c.items[i]) = status,
           \A i \in DOMAIN c.items : i \notin hits => StatusAfter(f, c.items[i]) = c.items[i].status
    PROVE  LET d == MarkLast(c, hits, status)
           IN  DOMAIN d.items = DOMAIN c.items /\ \A i \in DOMAIN c.items : d.items[i] = Restated(f, c.items[i])
<1>1. PICK last, d : last = {LastOf(hits)} /\ d = MarkLast(c, hits, status)
  OBVIOUS
<1>2. /\ DOMAIN d.items = DOMAIN c.items
      /\ \A i \in DOMAIN c.items :
             d.items[i] = IF i \in last THEN [c.items[i] EXCEPT !.status = status] ELSE c.items[i]
  BY <1>1, MarkedLast
<1>3. \A i \in DOMAIN c.items : i \in last <=> i \in hits
  <2>1. PICK n : n = Len(c.items) /\ n \in Nat /\ DOMAIN c.items = 1 .. n
    BY FrameFields
  <2>2. \A i \in 1 .. n : i \in {LastOf(hits)} <=> i \in hits
    BY <2>1, LastAlone
  <2>3. QED
    BY <1>1, <2>1, <2>2
<1>4. ASSUME NEW i \in DOMAIN c.items PROVE d.items[i] = Restated(f, c.items[i])
  <2>1. c.items[i] \in RightItems
    BY FrameFields
  <2>2. QED
    BY <1>2, <1>3, <2>1 DEF Restated, RightItems
<1>5. QED
  BY <1>1, <1>2, <1>4

LEMMA ToolResultRestates ==
    ASSUME NEW c \in Convs, NEW f \in Frames, NoTwins(c), f.type = "tool_result"
    PROVE  LET d == FoldToolResult(c, f)
           IN  DOMAIN d.items = DOMAIN c.items /\ \A i \in DOMAIN c.items : d.items[i] = Restated(f, c.items[i])
<1>1. PICK hits : hits = Where(c, "step", "running") \cap WhereId(c, "step", f.id)
  OBVIOUS
<1>2. hits \subseteq DOMAIN c.items /\ \A i \in DOMAIN c.items :
          i \in hits <=> c.items[i].kind = "step" /\ c.items[i].status = "running" /\ c.items[i].id = f.id
  BY <1>1 DEF Where, WhereId
<1>3. \A i, j \in hits : ~(i < j)
  BY <1>2 DEF NoTwins, Twins
<1>4. /\ \A i \in hits : StatusAfter(f, c.items[i]) = "success"
      /\ \A i \in DOMAIN c.items : i \notin hits => StatusAfter(f, c.items[i]) = c.items[i].status
  BY <1>2 DEF StatusAfter
<1>5. QED
  BY <1>1, <1>2, <1>3, <1>4, MarkedAlone DEF FoldToolResult

LEMMA QuestionClosedRestates ==
    ASSUME NEW c \in Convs, NEW f \in Frames, NoTwins(c), NEW status,
           \/ f.type = "question_answered" /\ status = "answered"
           \/ f.type = "question_withdrawn" /\ status = "withdrawn"
    PROVE  LET d == FoldQuestionClosed(c, f, status)
           IN  DOMAIN d.items = DOMAIN c.items /\ \A i \in DOMAIN c.items : d.items[i] = Restated(f, c.items[i])
<1>1. PICK hits, b, d : /\ hits = WhereId(c, "question", f.id) /\ b = MarkLast(c, hits, status)
                        /\ d = FoldQuestionClosed(c, f, status)
  OBVIOUS
<1>2. hits \subseteq DOMAIN c.items /\ \A i \in DOMAIN c.items :
          i \in hits <=> c.items[i].kind = "question" /\ c.items[i].id = f.id
  BY <1>1 DEF WhereId
<1>3. \A i, j \in hits : ~(i < j)
  BY <1>2 DEF NoTwins, Twins
<1>4. /\ \A i \in hits : StatusAfter(f, c.items[i]) = status
      /\ \A i \in DOMAIN c.items : i \notin hits => StatusAfter(f, c.items[i]) = c.items[i].status
  BY <1>2 DEF StatusAfter
<1>5. DOMAIN b.items = DOMAIN c.items /\ \A i \in DOMAIN c.items : b.items[i] = Restated(f, c.items[i])
  BY <1>1, <1>2, <1>3, <1>4, MarkedAlone
<1>6. b \in Convs
  BY <1>1, MarkEffect DEF MarkLast, SameBut, Statuses
<1>7. d = [b EXCEPT !.question = IF b.question = f.id THEN None ELSE b.question]
  BY <1>1 DEF FoldQuestionClosed
<1>8. d.items = b.items
  BY <1>6, <1>7 DEF Convs
<1>9. QED
  BY <1>1, <1>5, <1>8

(* A turn's end restates the items one by one. *)
LEMMA TurnFinishedRestates ==
    ASSUME NEW c \in Convs, NEW f \in Frames, f.type = "turn_finished"
    PROVE  LET d == FoldTurnFinished(c, f)
           IN  DOMAIN d.items = DOMAIN c.items /\ \A i \in DOMAIN c.items : d.items[i] = Restated(f, c.items[i])
<1>1. PICK a, b, e, d : /\ a = CloseSteps(c, f.id) /\ b = CloseSubtasks(a, f.id)
                        /\ e = Mark(b, Where(c, "question", "open"), "withdrawn")
                        /\ d = FoldTurnFinished(c, f)
  OBVIOUS
<1>2. PICK st : st = IF f.id = "cancelled" THEN "cancelled" ELSE "failure"
  OBVIOUS
<1>3. /\ a \in Convs /\ DOMAIN a.items = DOMAIN c.items
      /\ \A i \in DOMAIN c.items :
             a.items[i] = IF /\ f.id \in {"cancelled", "failed"}
                             /\ c.items[i].kind = "step" /\ c.items[i].status = "running"
                          THEN [c.items[i] EXCEPT !.status = st] ELSE c.items[i]
  <2>1. CASE f.id \in {"cancelled", "failed"}
    <3>1. a = Mark(c, Where(c, "step", "running"), st)
      BY <1>1, <1>2, <2>1 DEF CloseSteps
    <3>2. st \in Statuses \ {"running", "open"}
      BY <1>2 DEF Statuses
    <3>3. a \in Convs
      BY <3>1, <3>2, MarkEffect DEF SameBut
    <3>4. \A i \in DOMAIN c.items : i \in Where(c, "step", "running") <=>
              c.items[i].kind = "step" /\ c.items[i].status = "running"
      BY DEF Where
    <3>5. QED
      BY <2>1, <3>1, <3>3, <3>4, MarkedItems
  <2>2. CASE f.id \notin {"cancelled", "failed"}
    <3>1. a = c
      BY <1>1, <2>2 DEF CloseSteps
    <3>2. QED
      BY <2>2, <3>1
  <2>3. QED
    BY <2>1, <2>2
<1>4. /\ b \in Convs /\ DOMAIN b.items = DOMAIN a.items
      /\ \A i \in DOMAIN a.items :
             b.items[i] = IF f.id = "cancelled" /\ a.items[i].kind = "subtask" /\ a.items[i].status = "running"
                          THEN [a.items[i] EXCEPT !.status = "cancelled"] ELSE a.items[i]
  <2>1. CASE f.id = "cancelled"
    <3>1. b = Mark(a, Where(a, "subtask", "running"), "cancelled")
      BY <1>1, <2>1 DEF CloseSubtasks
    <3>2. b \in Convs
      BY <1>3, <3>1, MarkEffect DEF SameBut, Statuses
    <3>3. \A i \in DOMAIN a.items : i \in Where(a, "subtask", "running") <=>
              a.items[i].kind = "subtask" /\ a.items[i].status = "running"
      BY DEF Where
    <3>4. QED
      BY <1>3, <2>1, <3>1, <3>2, <3>3, MarkedItems
  <2>2. CASE f.id # "cancelled"
    <3>1. b = a
      BY <1>1, <2>2 DEF CloseSubtasks
    <3>2. QED
      BY <1>3, <2>2, <3>1
  <2>3. QED
    BY <2>1, <2>2
<1>5. /\ e \in Convs /\ DOMAIN e.items = DOMAIN b.items
      /\ \A i \in DOMAIN b.items :
             e.items[i] = IF c.items[i].kind = "question" /\ c.items[i].status = "open"
                          THEN [b.items[i] EXCEPT !.status = "withdrawn"] ELSE b.items[i]
  <2>1. e \in Convs
    BY <1>1, <1>4, MarkEffect DEF SameBut, Statuses
  <2>2. \A i \in DOMAIN b.items : i \in Where(c, "question", "open") <=>
            c.items[i].kind = "question" /\ c.items[i].status = "open"
    BY <1>3, <1>4 DEF Where
  <2>3. QED
    BY <1>1, <1>4, <2>1, <2>2, MarkedItems
<1>6. d = [e EXCEPT !.running = FALSE, !.question = None, !.outcome = f.id]
  BY <1>1 DEF FoldTurnFinished
<1>7. d.items = e.items
  BY <1>6
<1>8. ASSUME NEW i \in DOMAIN c.items PROVE e.items[i] = Restated(f, c.items[i])
  <2>1. PICK x : x = c.items[i] /\ x \in RightItems
    BY FrameFields
  <2>2. CASE x.kind = "step" /\ x.status = "running" /\ f.id \in {"cancelled", "failed"}
    <3>a. PICK y : y = [x EXCEPT !.status = st]
      OBVIOUS
    <3>0. y = [x EXCEPT !.status = st] /\ y.kind = "step"
      BY <2>1, <2>2, <3>a DEF RightItems
    <3>1. e.items[i] = y
      <4>1. a.items[i] = y
        BY <1>3, <2>1, <2>2, <3>0
      <4>2. b.items[i] = y
        BY <1>3, <1>4, <3>0, <4>1
      <4>3. QED
        BY <1>3, <1>4, <1>5, <2>1, <2>2, <3>0, <4>2
    <3>2. StatusAfter(f, x) = st
      BY <1>2, <2>2 DEF StatusAfter
    <3>3. QED
      BY <2>1, <3>0, <3>1, <3>2 DEF Restated
  <2>3. CASE x.kind = "subtask" /\ x.status = "running" /\ f.id = "cancelled"
    <3>a. PICK y : y = [x EXCEPT !.status = "cancelled"]
      OBVIOUS
    <3>0. y = [x EXCEPT !.status = "cancelled"] /\ y.kind = "subtask"
      BY <2>1, <2>3, <3>a DEF RightItems
    <3>1. e.items[i] = y
      <4>1. a.items[i] = x
        BY <1>3, <2>1, <2>3
      <4>2. b.items[i] = y
        BY <1>3, <1>4, <2>3, <3>0, <4>1
      <4>3. QED
        BY <1>3, <1>4, <1>5, <2>1, <2>3, <3>0, <4>2
    <3>2. StatusAfter(f, x) = "cancelled"
      BY <2>3 DEF StatusAfter
    <3>3. QED
      BY <2>1, <3>0, <3>1, <3>2 DEF Restated
  <2>4. CASE x.kind = "question" /\ x.status = "open"
    <3>1. e.items[i] = [x EXCEPT !.status = "withdrawn"]
      <4>1. a.items[i] = x
        BY <1>3, <2>1, <2>4
      <4>2. b.items[i] = x
        BY <1>3, <1>4, <2>4, <4>1
      <4>3. QED
        BY <1>3, <1>4, <1>5, <2>1, <2>4, <4>2
    <3>2. StatusAfter(f, x) = "withdrawn"
      BY <2>4 DEF StatusAfter
    <3>3. QED
      BY <2>1, <3>1, <3>2 DEF Restated
  <2>5. CASE /\ ~(x.kind = "step" /\ x.status = "running" /\ f.id \in {"cancelled", "failed"})
             /\ ~(x.kind = "subtask" /\ x.status = "running" /\ f.id = "cancelled")
             /\ ~(x.kind = "question" /\ x.status = "open")
    <3>1. e.items[i] = x
      <4>1. a.items[i] = x
        BY <1>3, <2>1, <2>5
      <4>2. b.items[i] = x
        BY <1>3, <1>4, <2>1, <2>5, <4>1
      <4>3. QED
        BY <1>3, <1>4, <1>5, <2>1, <2>5, <4>2
    <3>2. StatusAfter(f, x) = x.status
      BY <2>5 DEF StatusAfter
    <3>3. QED
      BY <2>1, <3>1, <3>2 DEF Restated, RightItems
  <2>6. QED
    BY <2>2, <2>3, <2>4, <2>5
<1>9. QED
  BY <1>1, <1>3, <1>4, <1>5, <1>7, <1>8

(* Every frame restates the items there are, adds one, or is one of three.   *)
OpenRuns(c, f) == Where(c, "subtask", "running") \cap WhereId(c, "subtask", f.id)
Grows(c, f) ==
    \/ f.type \in {"append", "question", "error"}
    \/ f.type = "tool_call" /\ ~Has(c, "step", f.id)
    \/ f.type = "subtask_started" /\ ~Has(c, "subtask", f.id)
    \/ f.type = "subtask_finished" /\ OpenRuns(c, f) = {}
Stands(c, f) ==
    \/ f.type \in {"tool_result", "question_answered", "question_withdrawn", "turn_started", "turn_finished"}
    \/ f.type = "tool_call" /\ Has(c, "step", f.id)
    \/ f.type = "subtask_started" /\ Has(c, "subtask", f.id)
    \/ f.type = "subtask_finished" /\ OpenRuns(c, f) # {}

LEMMA FrameShapes ==
    ASSUME NEW c, NEW f \in Frames
    PROVE  Grows(c, f) \/ Stands(c, f) \/ f.type \in {"user_message", "todo_update", "rewind"}
BY DEF Grows, Stands, Frames, FrameTypes

Placed(c, f) == [NewItem(f) EXCEPT !.key = Key(c, f)]

LEMMA PlacedFields ==
    ASSUME NEW c \in Convs, NEW f \in Frames, Grows(c, f)
    PROVE  /\ Placed(c, f) \in RightItems
           /\ Placed(c, f).key = Key(c, f) /\ Placed(c, f).id \in {f.id, None}
           /\ Placed(c, f).kind \in Kinds \ {"user"}
           /\ Placed(c, f).kind = "step" <=> f.type = "tool_call"
           /\ Placed(c, f).kind = "question" <=> f.type = "question"
           /\ Placed(c, f).kind = "subtask" <=> f.type \in {"subtask_started", "subtask_finished"}
           /\ Placed(c, f).kind \in {"step", "question", "subtask"} => Placed(c, f).id = f.id
           /\ Placed(c, f).status = "running" <=> f.type \in {"tool_call", "subtask_started"}
           /\ f.seq # NoSeq => Placed(c, f) = NewItem(f)
<1>1. PICK k, it : k = Key(c, f) /\ it = Placed(c, f)
  OBVIOUS
<1>2. k \in Int /\ f.id \in Ids /\ f.sub \in Ids /\ None \in Ids /\ f.seq \in Int
  BY <1>1, FrameFields
<1>3. PICK kind, x, st, sub : NewItem(f) = Item(kind, f.seq, x, st, sub, 0)
                              /\ kind \in Kinds \ {"user"} /\ x \in {f.id, None} /\ st \in Statuses /\ sub \in Ids
                              /\ (st = "running" => kind \in {"step", "subtask"})
                              /\ (st = "open" => kind = "question")
                              /\ (kind = "step" <=> f.type = "tool_call")
                              /\ (kind = "question" <=> f.type = "question")
                              /\ (kind = "subtask" <=> f.type \in {"subtask_started", "subtask_finished"})
                              /\ (kind \in {"step", "question", "subtask"} => x = f.id)
                              /\ (st = "running" <=> f.type \in {"tool_call", "subtask_started"})
  <2>1. CASE f.type = "append"
    BY <1>2, <2>1 DEF NewItem, Kinds, Statuses, None
  <2>2. CASE f.type = "question"
    BY <1>2, <2>2 DEF NewItem, Kinds, Statuses, None
  <2>3. CASE f.type = "error"
    BY <1>2, <2>3 DEF NewItem, Kinds, Statuses, None
  <2>4. CASE f.type = "tool_call"
    BY <1>2, <2>4 DEF NewItem, Kinds, Statuses, None
  <2>5. CASE f.type = "subtask_started"
    BY <1>2, <2>5 DEF NewItem, Kinds, Statuses, None
  <2>6. CASE f.type = "subtask_finished"
    BY <1>2, <2>6 DEF NewItem, Kinds, Statuses, None
  <2>7. QED
    BY <2>1, <2>2, <2>3, <2>4, <2>5, <2>6 DEF Grows
<1>4. it = [kind |-> kind, key |-> k, id |-> x, status |-> st, sub |-> sub, ver |-> 0]
  BY <1>1, <1>3 DEF Placed, Item
<1>5. it \in RightItems
  BY <1>2, <1>3, <1>4 DEF RightItems, ItemKinds, Kinds
<1>6. f.seq # NoSeq => it = NewItem(f)
  BY <1>1, <1>3, <1>4 DEF Key, Item
<1>7. it.key = k /\ it.kind = kind /\ it.id = x /\ it.status = st
  BY <1>4
<1>8. QED
  BY <1>1, <1>3, <1>5, <1>6, <1>7

LEMMA GrowsBy ==
    ASSUME NEW c \in Convs, NEW f \in Frames, Grows(c, f)
    PROVE  FoldItemEvent(c, f).items = Append(c.items, Placed(c, f))
<1>1. ASSUME NEW kind, NEW x, NEW st, NEW sub, NEW d, d = Push(c, f, kind, x, st, sub),
             NewItem(f) = Item(kind, f.seq, x, st, sub, 0)
      PROVE  d.items = Append(c.items, Placed(c, f))
  <2>1. Placed(c, f) = Item(kind, Key(c, f), x, st, sub, 0)
    BY <1>1 DEF Placed, Item
  <2>2. QED
    BY <1>1, <2>1, PushedItems
<1>2. PICK d : d = FoldItemEvent(c, f)
  OBVIOUS
<1>3. CASE f.type = "append"
  BY <1>1, <1>3 DEF FoldItemEvent, NewItem
<1>4. CASE f.type = "question"
  <2>1. PICK b : b = Push(c, f, "question", f.id, "open", None)
    OBVIOUS
  <2>2. d = [b EXCEPT !.question = f.id]
    BY <1>2, <1>4, <2>1 DEF FoldItemEvent, FoldQuestion
  <2>3. b.items = Append(c.items, Placed(c, f))
    BY <1>1, <1>4, <2>1 DEF NewItem
  <2>4. QED
    BY <1>2, <2>2, <2>3
<1>5. CASE f.type = "error"
  <2>1. PICK b : b = Push(c, f, "error", None, None, None)
    OBVIOUS
  <2>2. d = [b EXCEPT !.running = FALSE]
    BY <1>2, <1>5, <2>1 DEF FoldItemEvent, FoldError
  <2>3. b.items = Append(c.items, Placed(c, f))
    BY <1>1, <1>5, <2>1 DEF NewItem
  <2>4. QED
    BY <1>2, <2>2, <2>3
<1>6. CASE f.type = "tool_call"
  <2>1. d = Push(c, f, "step", f.id, "running", f.sub)
    BY <1>2, <1>6 DEF FoldItemEvent, FoldToolCall, Grows
  <2>2. QED
    BY <1>1, <1>2, <1>6, <2>1 DEF NewItem
<1>7. CASE f.type = "subtask_started"
  <2>1. d = Push(c, f, "subtask", f.id, "running", None)
    BY <1>2, <1>7 DEF FoldItemEvent, FoldSubtaskStarted, Grows
  <2>2. QED
    BY <1>1, <1>2, <1>7, <2>1 DEF NewItem
<1>8. CASE f.type = "subtask_finished"
  <2>1. PICK st : st = IF f.sub = "cancelled" THEN "cancelled" ELSE "completed"
    OBVIOUS
  <2>2. d = Push(c, f, "subtask", f.id, st, None)
    BY <1>2, <1>8, <2>1 DEF FoldItemEvent, FoldSubtaskFinished, Grows, OpenRuns
  <2>3. NewItem(f) = Item("subtask", f.seq, f.id, st, None, 0)
    BY <1>8, <2>1 DEF NewItem
  <2>4. QED
    BY <1>1, <1>2, <2>2, <2>3
<1>9. QED
  BY <1>3, <1>4, <1>5, <1>6, <1>7, <1>8 DEF Grows

LEMMA StandsAs ==
    ASSUME NEW c \in Convs, NEW f \in Frames, NoTwins(c), Stands(c, f), NEW d, d = FoldItemEvent(c, f)
    PROVE  DOMAIN d.items = DOMAIN c.items /\ \A i \in DOMAIN c.items : d.items[i] = Restated(f, c.items[i])
<1>1. CASE f.type = "tool_result"
  BY <1>1, ToolResultRestates DEF FoldItemEvent
<1>2. CASE f.type = "question_answered"
  BY <1>2, QuestionClosedRestates DEF FoldItemEvent
<1>3. CASE f.type = "question_withdrawn"
  BY <1>3, QuestionClosedRestates DEF FoldItemEvent
<1>4. CASE f.type = "turn_finished"
  BY <1>4, TurnFinishedRestates DEF FoldItemEvent
<1>5. CASE \/ f.type = "turn_started"
           \/ f.type = "tool_call" /\ Has(c, "step", f.id)
           \/ f.type = "subtask_started" /\ Has(c, "subtask", f.id)
  <2>1. d.items = c.items
    <3>1. CASE f.type = "turn_started"
      <4>1. d = [c EXCEPT !.running = TRUE, !.outcome = None]
        BY <3>1 DEF FoldItemEvent
      <4>2. QED
        BY <4>1
    <3>2. CASE f.type = "tool_call" /\ Has(c, "step", f.id)
      BY <3>2 DEF FoldItemEvent, FoldToolCall
    <3>3. CASE f.type = "subtask_started" /\ Has(c, "subtask", f.id)
      BY <3>3 DEF FoldItemEvent, FoldSubtaskStarted
    <3>4. QED
      BY <1>5, <3>1, <3>2, <3>3
  <2>2. \A i \in DOMAIN c.items : Restated(f, c.items[i]) = c.items[i]
    BY <1>5, FrameFields, RestatedFields DEF Adding
  <2>3. QED
    BY <2>1, <2>2
<1>6. CASE f.type = "subtask_finished" /\ OpenRuns(c, f) # {}
  <2>1. PICK hits, st : hits = OpenRuns(c, f) /\ st = IF f.sub = "cancelled" THEN "cancelled" ELSE "completed"
    OBVIOUS
  <2>2. d = MarkLast(c, hits, st)
    BY <1>6, <2>1 DEF FoldItemEvent, FoldSubtaskFinished, OpenRuns
  <2>3. hits \subseteq DOMAIN c.items /\ \A i \in DOMAIN c.items :
            i \in hits <=> c.items[i].kind = "subtask" /\ c.items[i].status = "running" /\ c.items[i].id = f.id
    BY <2>1 DEF OpenRuns, Where, WhereId
  <2>4. \A i, j \in hits : ~(i < j)
    BY <2>3 DEF NoTwins, Twins
  <2>5. /\ \A i \in hits : StatusAfter(f, c.items[i]) = st
        /\ \A i \in DOMAIN c.items : i \notin hits => StatusAfter(f, c.items[i]) = c.items[i].status
    BY <1>6, <2>1, <2>3 DEF StatusAfter
  <2>6. QED
    BY <2>2, <2>3, <2>4, <2>5, MarkedAlone
<1>7. QED
  BY <1>1, <1>2, <1>3, <1>4, <1>5, <1>6 DEF Stands

(* Nothing that is kept is lost. *)
LEMMA FilterComplete ==
    ASSUME NEW T, NEW items \in Seq(T), NEW kept, NEW a \in 1 .. Len(items), items[a] \in kept
    PROVE  \E i \in DOMAIN Filter(items, kept) : Filter(items, kept)[i] = items[a]
<1>0. Len(items) \in Nat /\ a \in Nat
  OBVIOUS
<1>1. PICK f : KeptSoFar(items, kept, f) /\ Filter(items, kept) = f[Len(items)]
  BY FilterSteps
<1> DEFINE Has1(s) == s \in Seq(T) /\ \E i \in DOMAIN s : s[i] = items[a]
           Bad == {n \in a .. Len(items) : ~Has1(f[n])}
<1>2. ASSUME NEW n \in 0 .. Len(items) PROVE f[n] \in Seq(T)
  <2> DEFINE Worse == {m \in 0 .. Len(items) : f[m] \notin Seq(T)}
  <2>1. ASSUME Worse # {} PROVE FALSE
    <3>1. PICK m \in Worse : \A k \in Worse : m <= k
      <4>1. Worse \in SUBSET Nat
        BY <1>0
      <4> HIDE DEF Worse
      <4>2. QED
        BY <2>1, <4>1, LeastNatural
    <3>2. m # 0
      <4>1. f[0] = <<>> /\ <<>> \in Seq(T)
        BY <1>1 DEF KeptSoFar
      <4>2. f[m] \notin Seq(T)
        BY <3>1
      <4>3. QED
        BY <4>1, <4>2
    <3>3. m \in 1 .. Len(items) /\ m - 1 \in 0 .. Len(items) /\ ~(m <= m - 1)
      BY <1>0, <3>1, <3>2
    <3>4. f[m - 1] \in Seq(T) /\ items[m] \in T
      BY <3>1, <3>3
    <3>5. f[m] = Append(f[m - 1], items[m]) \/ f[m] = f[m - 1]
      BY <1>1, <3>3 DEF KeptSoFar
    <3>6. f[m] \in Seq(T)
      <4>1. PICK p, x : p = f[m - 1] /\ x = items[m]
        OBVIOUS
      <4>2. Append(p, x) \in Seq(T)
        BY <3>4, <4>1
      <4>3. QED
        BY <3>4, <3>5, <4>1, <4>2
    <3>7. QED
      BY <3>1, <3>6
  <2>2. QED
    BY <2>1
<1>3. ASSUME Bad # {} PROVE FALSE
  <2>1. PICK n \in Bad : \A m \in Bad : n <= m
    <3>1. Bad \in SUBSET Nat
      BY <1>0
    <3> HIDE DEF Bad
    <3>2. QED
      BY <1>3, <3>1, LeastNatural
  <2>2. n \in a .. Len(items) /\ ~Has1(f[n]) /\ n \in 1 .. Len(items) /\ n - 1 \in 0 .. Len(items)
    BY <1>0, <2>1
  <2>3. f[n - 1] \in Seq(T) /\ items[n] \in T
    BY <1>2, <2>2
  <2>4. CASE n = a
    <3>1. f[n] = Append(f[n - 1], items[a])
      BY <1>1, <2>2, <2>4 DEF KeptSoFar
    <3>2. Len(f[n - 1]) + 1 \in DOMAIN f[n] /\ f[n][Len(f[n - 1]) + 1] = items[a]
      BY <2>3, <3>1
    <3>3. QED
      BY <1>2, <2>2, <3>2
  <2>5. CASE n # a
    <3>1. n - 1 \in a .. Len(items) /\ ~(n <= n - 1)
      BY <1>0, <2>2, <2>5
    <3>2. Has1(f[n - 1])
      BY <2>1, <3>1
    <3>3. f[n] = Append(f[n - 1], items[n]) \/ f[n] = f[n - 1]
      BY <1>1, <2>2 DEF KeptSoFar
    <3>4. PICK i \in DOMAIN f[n - 1] : f[n - 1][i] = items[a]
      BY <3>2
    <3>5. i \in DOMAIN f[n] /\ f[n][i] = items[a]
      <4>1. PICK p, x, s : p = f[n - 1] /\ x = items[n] /\ s = f[n]
        OBVIOUS
      <4>2. p \in Seq(T) /\ i \in DOMAIN p /\ p[i] = items[a] /\ (s = Append(p, x) \/ s = p)
        BY <2>3, <3>3, <3>4, <4>1
      <4>3. i \in DOMAIN Append(p, x) /\ Append(p, x)[i] = p[i]
        BY <4>2
      <4>4. i \in DOMAIN s /\ s[i] = items[a]
        BY <4>2, <4>3
      <4>5. QED
        BY <4>1, <4>4
    <3>6. QED
      BY <1>2, <2>2, <3>5
  <2>6. QED
    BY <2>4, <2>5
<1>4. Len(items) \in a .. Len(items)
  BY <1>0
<1>5. Has1(f[Len(items)])
  BY <1>3, <1>4
<1>6. QED
  BY <1>1, <1>5

(* One item is put at the end, or in the place of another. *)
Put(c, d, i, it) ==
    /\ i \in Nat /\ DOMAIN d.items = DOMAIN c.items \cup {i} /\ d.items[i] = it
    /\ \A j \in DOMAIN c.items : j # i => d.items[j] = c.items[j]

LEMMA AppendPuts ==
    ASSUME NEW c \in Convs, NEW it \in RightItems, NEW d, d.items = Append(c.items, it)
    PROVE  Put(c, d, Len(c.items) + 1, it) /\ Len(c.items) + 1 \notin DOMAIN c.items
<1>1. c.items \in Seq(RightItems) /\ Len(c.items) \in Nat /\ DOMAIN c.items = 1 .. Len(c.items)
  BY DEF Convs
<1>2. PICK s : s = Append(c.items, it)
  OBVIOUS
<1>3. /\ DOMAIN s = 1 .. Len(c.items) + 1 /\ s[Len(c.items) + 1] = it
      /\ \A j \in DOMAIN c.items : s[j] = c.items[j]
  BY <1>1, <1>2
<1>4. DOMAIN s = DOMAIN c.items \cup {Len(c.items) + 1}
  BY <1>1, <1>3
<1>5. QED
  BY <1>1, <1>2, <1>3, <1>4 DEF Put

LEMMA ReplacePuts ==
    ASSUME NEW c \in Convs, NEW i \in DOMAIN c.items, NEW it, NEW d, d.items = [c.items EXCEPT ![i] = it]
    PROVE  Put(c, d, i, it)
<1>1. DOMAIN c.items = 1 .. Len(c.items)
  BY DEF Convs
<1>2. QED
  BY <1>1 DEF Put

LEMMA ShownPut ==
    ASSUME NEW c \in Convs, NEW d, NEW i, NEW it, Put(c, d, i, it),
           i \in DOMAIN c.items => ~(c.items[i].key >= 0 /\ c.items[i].kind \in Kinds)
    PROVE  \A x : x \in Shown(d) <=> x \in Shown(c) \/ (x = it /\ it.key >= 0 /\ it.kind \in Kinds)
<1>1. /\ \A x : x \in Shown(c) <=> \E j \in DOMAIN c.items : x = c.items[j] /\ x.key >= 0 /\ x.kind \in Kinds
      /\ \A x : x \in Shown(d) <=> \E j \in DOMAIN d.items : x = d.items[j] /\ x.key >= 0 /\ x.kind \in Kinds
  BY ShownIs
<1>2. /\ DOMAIN d.items = DOMAIN c.items \cup {i} /\ d.items[i] = it
      /\ \A j \in DOMAIN c.items : j # i => d.items[j] = c.items[j]
  BY DEF Put
<1>3. ASSUME NEW x \in Shown(d) PROVE x \in Shown(c) \/ (x = it /\ it.key >= 0 /\ it.kind \in Kinds)
  BY <1>1, <1>2, <1>3
<1>4. ASSUME NEW x, x \in Shown(c) \/ (x = it /\ it.key >= 0 /\ it.kind \in Kinds) PROVE x \in Shown(d)
  <2>1. CASE x \in Shown(c)
    <3>1. PICK j \in DOMAIN c.items : x = c.items[j] /\ x.key >= 0 /\ x.kind \in Kinds
      BY <1>1, <2>1
    <3>2. j # i
      BY <3>1
    <3>3. j \in DOMAIN d.items /\ d.items[j] = x
      BY <1>2, <3>1, <3>2
    <3>4. QED
      BY <1>1, <3>1, <3>3
  <2>2. CASE x = it /\ it.key >= 0 /\ it.kind \in Kinds
    BY <1>1, <1>2, <2>2
  <2>3. QED
    BY <1>4, <2>1, <2>2
<1>5. QED
  BY <1>3, <1>4

LEMMA UserMessagePuts ==
    ASSUME NEW c \in Convs, NEW f \in Frames, f.type = "user_message", NEW d, d = FoldItemEvent(c, f)
    PROVE  \E i, it : /\ Put(c, d, i, it) /\ it \in RightItems /\ it = Item("user", Key(c, f), f.id, "sent", None, 0)
                      /\ i \in DOMAIN c.items => c.items[i].kind = "user" /\ c.items[i].status = "pending"
<1>1. PICK it, hits : /\ it = Item("user", Key(c, f), f.id, "sent", None, 0)
                      /\ hits = Where(c, "user", "pending") \cap WhereId(c, "user", f.id)
  OBVIOUS
<1>2. it \in RightItems
  <2>1. f.id \in Ids /\ Key(c, f) \in Int /\ None \in Ids
    BY FrameFields
  <2>2. QED
    BY <1>1, <2>1 DEF Item, RightItems, ItemKinds, Statuses
<1>3. PICK s : s = IF LastOf(hits) = 0 THEN Append(c.items, it) ELSE [c.items EXCEPT ![LastOf(hits)] = it]
  OBVIOUS
<1>4. d = [c EXCEPT !.items = s, !.nextKey = NextKey(c, f)]
  BY <1>1, <1>3 DEF FoldItemEvent, FoldUserMessage
<1>5. d.items = s
  BY <1>4 DEF Convs
<1>6. /\ Len(c.items) \in Nat /\ DOMAIN c.items = 1 .. Len(c.items) /\ hits \in SUBSET (1 .. Len(c.items))
      /\ \A i \in hits : c.items[i].kind = "user" /\ c.items[i].status = "pending"
  BY <1>1, FrameFields DEF Where, WhereId
<1>7. CASE hits = {}
  <2>1. d.items = Append(c.items, it)
    BY <1>3, <1>5, <1>6, <1>7, LastIn
  <2>2. QED
    BY <1>1, <1>2, <2>1, AppendPuts
<1>8. CASE hits # {}
  <2>1. LastOf(hits) \in hits /\ LastOf(hits) # 0
    BY <1>6, <1>8, LastIn
  <2>2. PICK i \in hits : i = LastOf(hits)
    BY <2>1
  <2>3. d.items = [c.items EXCEPT ![i] = it] /\ i \in DOMAIN c.items
    BY <1>3, <1>5, <1>6, <2>1, <2>2
  <2>4. Put(c, d, i, it)
    BY <2>3, ReplacePuts
  <2>5. QED
    BY <1>1, <1>2, <1>6, <2>3, <2>4
<1>9. QED
  BY <1>7, <1>8

LEMMA TodoPuts ==
    ASSUME NEW c \in Convs, NEW f \in Frames, f.type = "todo_update", NEW d, d = FoldItemEvent(c, f)
    PROVE  \E i, it : /\ Put(c, d, i, it) /\ it \in RightItems /\ it.kind = "todos"
                      /\ i \notin DOMAIN c.items => it.key = f.seq
                      /\ i \in DOMAIN c.items => c.items[i].kind = "todos" /\ it.key = c.items[i].key
<1>0. f.seq \in Int /\ None \in Ids /\ DOMAIN c.items = 1 .. Len(c.items) /\ Len(c.items) \in Nat
  BY FrameFields
<1>1. PICK todos, users : /\ todos = {i \in DOMAIN c.items : c.items[i].kind = "todos"}
                          /\ users = {i \in DOMAIN c.items : c.items[i].kind = "user"}
  OBVIOUS
<1>2. /\ todos \in SUBSET (1 .. Len(c.items)) /\ users \in SUBSET (1 .. Len(c.items))
      /\ \A i \in todos : i \in DOMAIN c.items /\ c.items[i].kind = "todos"
  BY <1>0, <1>1
<1>3. PICK t, u : t = LastOf(todos) /\ u = LastOf(users)
  OBVIOUS
<1>4. u \in Nat /\ (t = 0 \/ t \in todos)
  <2>1. \A S \in SUBSET (1 .. Len(c.items)) : LastOf(S) = 0 \/ LastOf(S) \in S
    BY <1>0, LastIn
  <2>2. t = 0 \/ t \in todos
    BY <1>2, <1>3, <2>1
  <2>3. u = 0 \/ u \in users
    BY <1>2, <1>3, <2>1
  <2>4. \A i \in users : i \in Nat
    BY <1>0, <1>2
  <2>5. QED
    BY <2>2, <2>3, <2>4
<1>5. d = IF t > u THEN [c EXCEPT !.items[t].ver = f.seq]
          ELSE [c EXCEPT !.items = Append(c.items, Item("todos", f.seq, None, None, None, f.seq))]
  BY <1>1, <1>3 DEF FoldItemEvent, FoldTodoUpdate
<1>6. CASE t > u
  <2>1. t \in DOMAIN c.items /\ c.items[t].kind = "todos" /\ c.items[t] \in RightItems
    <3>1. t # 0
      BY <1>4, <1>6
    <3>2. QED
      BY <1>2, <1>4, <3>1, FrameFields
  <2>2. PICK it : it = [c.items[t] EXCEPT !.ver = f.seq]
    OBVIOUS
  <2>3. it \in RightItems /\ it.kind = "todos" /\ it.key = c.items[t].key
    BY <1>0, <2>1, <2>2 DEF RightItems
  <2>4. d.items = [c.items EXCEPT ![t] = it]
    BY <1>5, <1>6, <2>2 DEF Convs
  <2>5. Put(c, d, t, it)
    BY <2>1, <2>4, ReplacePuts
  <2>6. QED
    BY <2>1, <2>3, <2>5
<1>7. CASE ~(t > u)
  <2>1. PICK it : it = Item("todos", f.seq, None, None, None, f.seq)
    OBVIOUS
  <2>2. d.items = Append(c.items, it)
    BY <1>5, <1>7, <2>1 DEF Convs
  <2>3. it \in RightItems /\ it.kind = "todos" /\ it.key = f.seq
    BY <1>0, <2>1 DEF Item, RightItems, ItemKinds, Statuses, None
  <2>4. QED
    BY <2>2, <2>3, AppendPuts
<1>8. QED
  BY <1>6, <1>7

LEMMA RewindKeepsPast ==
    ASSUME NEW c \in Convs, NEW f \in Frames, f.type = "rewind", NEW d, d = FoldItemEvent(c, f)
    PROVE  \E kept : /\ d.items = Filter(c.items, kept)
                     /\ \A it \in kept : it.key <= f.at
                     /\ \A i \in DOMAIN c.items :
                            /\ 0 <= c.items[i].key /\ c.items[i].key <= f.at
                            /\ ~(c.items[i].kind = "user" /\ c.items[i].status = "pending")
                            => c.items[i] \in kept
<1>1. PICK past, live : /\ past = {it \in ToSet(c.items) : Survives(it, f.at)}
                        /\ live = {it.id : it \in {sub \in past : sub.kind = "subtask"}}
  OBVIOUS
<1>2. PICK kept : kept = {it \in past : /\ ~(it.key < 0 /\ it.kind = "step" /\ it.sub # None /\ it.sub \notin live)
                                        /\ ~(it.kind = "user" /\ it.status = "pending")}
  OBVIOUS
<1>3. d = [c EXCEPT !.items = Filter(c.items, kept), !.running = FALSE, !.question = None, !.outcome = None]
  BY <1>1, <1>2 DEF FoldItemEvent, FoldRewind
<1>4. d.items = Filter(c.items, kept)
  BY <1>3 DEF Convs
<1>5. \A it \in kept : it.key <= f.at
  BY <1>1, <1>2 DEF Survives
<1>6. ASSUME NEW i \in DOMAIN c.items, 0 <= c.items[i].key, c.items[i].key <= f.at,
             ~(c.items[i].kind = "user" /\ c.items[i].status = "pending")
      PROVE  c.items[i] \in kept
  <2>1. c.items[i] \in past
    BY <1>1, <1>6 DEF Survives, ToSet
  <2>2. c.items[i].key \in Int
    BY FrameFields DEF RightItems
  <2>3. ~(c.items[i].key < 0)
    BY <1>6, <2>2
  <2>4. QED
    BY <1>2, <1>6, <2>1, <2>3
<1>7. QED
  BY <1>4, <1>5, <1>6

(* A frame of the log does to the durable items what Revise says. *)
LEMMA GrowsRevises ==
    ASSUME NEW c \in Convs, NEW f \in Frames, f.seq >= 0, Grows(c, f), NEW d, d = FoldItemEvent(c, f)
    PROVE  Shown(d) = Revise(f, Shown(c))
<1>1. f.seq \in Int /\ f.seq # NoSeq /\ Key(c, f) = f.seq
  BY FrameFields DEF NoSeq, Key
<1>2. PICK it : it = Placed(c, f)
  OBVIOUS
<1>3. it \in RightItems /\ it.key = f.seq /\ it.kind \in Kinds /\ it = NewItem(f)
  BY <1>1, <1>2, PlacedFields
<1>4. d.items = Append(c.items, it)
  BY <1>2, GrowsBy
<1>5. \A x : x \in Shown(d) <=> x \in Shown(c) \/ (x = it /\ it.key >= 0 /\ it.kind \in Kinds)
  BY <1>3, <1>4, AppendPuts, ShownPut
<1>6. Shown(d) = Shown(c) \cup {NewItem(f)}
  BY <1>3, <1>5
<1>7. f.type = "subtask_finished" => ~Live(Shown(c), f.id)
  <2>1. SUFFICES ASSUME f.type = "subtask_finished", Live(Shown(c), f.id) PROVE FALSE
    OBVIOUS
  <2>2. PICK x \in Shown(c) : x.kind = "subtask" /\ x.status = "running" /\ x.id = f.id
    BY <2>1 DEF Live
  <2>3. PICK i \in DOMAIN c.items : x = c.items[i]
    BY <2>2, ShownIs
  <2>4. i \in OpenRuns(c, f)
    BY <2>2, <2>3 DEF OpenRuns, Where, WhereId
  <2>5. QED
    BY <2>1, <2>4 DEF Grows
<1>8. f.type \in Adding \/ f.type = "subtask_finished"
  BY DEF Grows, Adding
<1>9. QED
  BY <1>6, <1>7, <1>8, ShownAdded

LEMMA StandsRevises ==
    ASSUME NEW c \in Convs, NEW f \in Frames, Plain(c), Opens(c, f), Stands(c, f), NEW d, d = FoldItemEvent(c, f)
    PROVE  Shown(d) = Revise(f, Shown(c))
<1>1. DOMAIN d.items = DOMAIN c.items /\ \A i \in DOMAIN c.items : d.items[i] = Restated(f, c.items[i])
  BY StandsAs DEF Plain
<1>2. f.type # "rewind" /\ f.type \notin Adding
  BY DEF Stands, Opens, Adding
<1>3. f.type = "subtask_finished" => Live(Shown(c), f.id)
  <2>1. SUFFICES ASSUME f.type = "subtask_finished" PROVE Live(Shown(c), f.id)
    OBVIOUS
  <2>2. PICK i : i \in OpenRuns(c, f)
    BY <2>1 DEF Stands
  <2>3. /\ i \in DOMAIN c.items /\ c.items[i].kind = "subtask" /\ c.items[i].status = "running"
        /\ c.items[i].id = f.id
    BY <2>2 DEF OpenRuns, Where, WhereId
  <2>4. c.items[i].key >= 0 /\ c.items[i].kind \in Kinds
    BY <2>3 DEF Plain, Kinds
  <2>5. c.items[i] \in Shown(c)
    BY <2>3, <2>4, ShownIs
  <2>6. QED
    BY <2>3, <2>5 DEF Live
<1>4. ~Adds(f, Shown(c))
  BY <1>2, <1>3 DEF Adds
<1>5. QED
  BY <1>1, <1>2, <1>4, ShownRestated

LEMMA UserMessageRevises ==
    ASSUME NEW c \in Convs, NEW f \in Frames, f.seq >= 0, Plain(c), f.type = "user_message",
           NEW d, d = FoldItemEvent(c, f)
    PROVE  Shown(d) = Revise(f, Shown(c))
<1>1. f.seq \in Int /\ f.seq # NoSeq /\ Key(c, f) = f.seq
  BY FrameFields DEF NoSeq, Key
<1>2. PICK i, it : /\ Put(c, d, i, it) /\ it \in RightItems /\ it = Item("user", Key(c, f), f.id, "sent", None, 0)
                   /\ i \in DOMAIN c.items => c.items[i].kind = "user" /\ c.items[i].status = "pending"
  BY UserMessagePuts
<1>3. it = NewItem(f) /\ it.key = f.seq /\ it.kind = "user"
  BY <1>1, <1>2 DEF NewItem, Item
<1>4. i \in DOMAIN c.items => ~(c.items[i].key >= 0)
  <2>1. SUFFICES ASSUME i \in DOMAIN c.items PROVE ~(c.items[i].key >= 0)
    OBVIOUS
  <2>2. c.items[i].key < 0 /\ c.items[i].key \in Int
    BY <1>2, <2>1, FrameFields DEF Plain, RightItems
  <2>3. QED
    BY <2>2
<1>5. \A x : x \in Shown(d) <=> x \in Shown(c) \/ (x = it /\ it.key >= 0 /\ it.kind \in Kinds)
  BY <1>2, <1>4, ShownPut
<1>6. Shown(d) = Shown(c) \cup {NewItem(f)}
  BY <1>3, <1>5 DEF Kinds
<1>7. f.type \in Adding
  BY DEF Adding
<1>8. QED
  BY <1>6, <1>7, ShownAdded

LEMMA TodoRevises ==
    ASSUME NEW c \in Convs, NEW f \in Frames, f.type = "todo_update", NEW d, d = FoldItemEvent(c, f)
    PROVE  Shown(d) = Revise(f, Shown(c))
<1>1. PICK i, it : /\ Put(c, d, i, it) /\ it.kind = "todos"
                   /\ i \in DOMAIN c.items => c.items[i].kind = "todos"
  BY TodoPuts
<1>2. "todos" \notin Kinds
  BY DEF Kinds
<1>3. \A x : x \in Shown(d) <=> x \in Shown(c)
  BY <1>1, <1>2, ShownPut
<1>4. ~Adds(f, Shown(c))
  BY DEF Adds, Adding
<1>5. ASSUME NEW x \in Shown(c) PROVE Restated(f, x) = x
  <2>1. PICK j \in DOMAIN c.items : x = c.items[j]
    BY <1>5, ShownIs
  <2>2. x \in RightItems
    BY <2>1, FrameFields
  <2>3. QED
    BY <2>2, RestatedFields
<1>6. \A x : x \in Revise(f, Shown(c)) <=> x \in Shown(c)
  BY <1>4, <1>5, RevisedIs
<1>7. QED
  BY <1>3, <1>6

LEMMA RewindRevises ==
    ASSUME NEW c \in Convs, NEW f \in Frames, f.type = "rewind", Plain(c), NEW d, d = FoldItemEvent(c, f)
    PROVE  Shown(d) = Revise(f, Shown(c))
<1>0. c.items \in Seq(RightItems) /\ DOMAIN c.items = 1 .. Len(c.items)
  BY FrameFields
<1>1. PICK kept : /\ d.items = Filter(c.items, kept)
                  /\ \A it \in kept : it.key <= f.at
                  /\ \A i \in DOMAIN c.items :
                         /\ 0 <= c.items[i].key /\ c.items[i].key <= f.at
                         /\ ~(c.items[i].kind = "user" /\ c.items[i].status = "pending")
                         => c.items[i] \in kept
  BY RewindKeepsPast
<1>2. \A i \in DOMAIN d.items : d.items[i] \in kept /\ \E a \in DOMAIN c.items : d.items[i] = c.items[a]
  <2>1. PICK s, p, m : s = d.items /\ p = c.items /\ m = Len(c.items)
    OBVIOUS
  <2>2. KeptOf(p, kept, m, s, RightItems) /\ DOMAIN p = 1 .. m
    BY <1>0, <1>1, <2>1, Filtered
  <2>3. \A i \in DOMAIN s : s[i] \in kept /\ \E a \in DOMAIN p : s[i] = p[a]
    BY <2>2 DEF KeptOf
  <2>4. QED
    BY <2>1, <2>3
<1>3. \A a \in DOMAIN c.items : c.items[a] \in kept => \E i \in DOMAIN d.items : d.items[i] = c.items[a]
  BY <1>0, <1>1, FilterComplete
<1>4. ASSUME NEW x \in Shown(d) PROVE x \in Shown(c) /\ x.key <= f.at
  <2>1. PICK i \in DOMAIN d.items : x = d.items[i] /\ x.key >= 0 /\ x.kind \in Kinds
    BY <1>4, ShownIs
  <2>2. QED
    BY <1>1, <1>2, <2>1, ShownIs
<1>5. ASSUME NEW x \in Shown(c), x.key <= f.at PROVE x \in Shown(d)
  <2>1. PICK i \in DOMAIN c.items : x = c.items[i] /\ x.key >= 0 /\ x.kind \in Kinds
    BY <1>5, ShownIs
  <2>2. x.key \in Int
    BY <2>1, FrameFields DEF RightItems
  <2>3. ~(x.kind = "user" /\ x.status = "pending")
    BY <2>1, <2>2 DEF Plain
  <2>4. x \in kept
    BY <1>1, <1>5, <2>1, <2>2, <2>3
  <2>5. QED
    BY <1>3, <2>1, <2>4, ShownIs
<1>6. ~Adds(f, Shown(c))
  BY DEF Adds, Adding
<1>7. ASSUME NEW x \in Shown(c) PROVE Restated(f, x) = x
  <2>1. PICK j \in DOMAIN c.items : x = c.items[j]
    BY <1>7, ShownIs
  <2>2. x \in RightItems
    BY <2>1, FrameFields
  <2>3. QED
    BY <2>2, RestatedFields
<1>8. \A x : x \in Revise(f, Shown(c)) <=> x \in Shown(c) /\ x.key <= f.at
  BY <1>6, <1>7, RevisedIs
<1>9. QED
  BY <1>4, <1>5, <1>8

LEMMA FoldRevises ==
    ASSUME NEW c \in Convs, NEW f \in Frames, f.seq >= 0, Plain(c), Opens(c, f), NEW d, d = FoldItemEvent(c, f)
    PROVE  Shown(d) = Revise(f, Shown(c))
<1>1. CASE Grows(c, f)
  BY <1>1, GrowsRevises
<1>2. CASE Stands(c, f)
  BY <1>2, StandsRevises
<1>3. CASE f.type = "user_message"
  BY <1>3, UserMessageRevises
<1>4. CASE f.type = "todo_update"
  BY <1>4, TodoRevises
<1>5. CASE f.type = "rewind"
  BY <1>5, RewindRevises
<1>6. QED
  BY <1>1, <1>2, <1>3, <1>4, <1>5, FrameShapes

-----------------------------------------------------------------------------
(* One frame without a seq *)

LEMMA AsideGrows ==
    ASSUME NEW c \in Convs, NEW f \in Frames, f.seq = NoSeq, Grows(c, f), NEW d, d = FoldItemEvent(c, f)
    PROVE  Shown(d) = Shown(c)
<1>1. PICK it : it = Placed(c, f)
  OBVIOUS
<1>2. c.nextKey \in Int /\ c.nextKey < 0
  BY DEF Convs
<1>3. it \in RightItems /\ ~(it.key >= 0)
  BY <1>1, <1>2, PlacedFields DEF Key
<1>4. d.items = Append(c.items, it)
  BY <1>1, GrowsBy
<1>5. \A x : x \in Shown(d) <=> x \in Shown(c) \/ (x = it /\ it.key >= 0 /\ it.kind \in Kinds)
  BY <1>3, <1>4, AppendPuts, ShownPut
<1>6. QED
  BY <1>3, <1>5

LEMMA ShownMapped ==
    ASSUME NEW c \in Convs, NEW f \in Frames, NEW d, DOMAIN d.items = DOMAIN c.items,
           \A i \in DOMAIN c.items : d.items[i] = Restated(f, c.items[i])
    PROVE  \A it : it \in Shown(d) <=> \E x \in Shown(c) : it = Restated(f, x)
<1>1. ASSUME NEW it \in Shown(d) PROVE \E x \in Shown(c) : it = Restated(f, x)
  <2>1. PICK i \in DOMAIN d.items : it = d.items[i] /\ it.key >= 0 /\ it.kind \in Kinds
    BY <1>1, ShownIs
  <2>2. c.items[i] \in RightItems /\ it = Restated(f, c.items[i])
    BY <2>1, FrameFields
  <2>3. c.items[i].key >= 0 /\ c.items[i].kind \in Kinds
    BY <2>1, <2>2, RestatedFields
  <2>4. c.items[i] \in Shown(c)
    BY <2>1, <2>3, ShownIs
  <2>5. QED
    BY <2>2, <2>4
<1>2. ASSUME NEW x \in Shown(c) PROVE Restated(f, x) \in Shown(d)
  <2>2. PICK i \in DOMAIN c.items : x = c.items[i] /\ x.key >= 0 /\ x.kind \in Kinds
    BY <1>2, ShownIs
  <2>3. x \in RightItems
    BY <2>2, FrameFields
  <2>4. Restated(f, x) = d.items[i] /\ Restated(f, x).key >= 0 /\ Restated(f, x).kind \in Kinds
    BY <2>2, <2>3, RestatedFields
  <2>5. QED
    BY <2>2, <2>4, ShownIs
<1>3. QED
  BY <1>1, <1>2

-----------------------------------------------------------------------------
(* Where the items come from *)

(* An item stands for an envelope among the first n, or for one of a         *)
(* subtask's stream.                                                         *)
Sourced(q, sl, n, it) ==
    /\ it.key < n
    /\ it.kind = "user" /\ it.status = "pending" => it.key < 0
    /\ it.kind = "step" /\ it.key >= 0 => q[it.key + 1] = Env("ToolCallStarted", it.id)
    /\ it.kind = "step" /\ it.key < 0 => SubCall(sl, it.id)
    /\ it.kind = "question" => it.key >= 0 /\ q[it.key + 1] = Env("UserQuestionRequested", it.id)
    /\ it.kind = "subtask" => Spawned(q, n, it.id)
    /\ it.kind = "subtask" /\ it.status = "running" => it.key >= 0
Source(q, sl, n, c) == NoTwins(c) /\ \A i \in DOMAIN c.items : Sourced(q, sl, n, c.items[i])

LEMMA SourceGrows ==
    ASSUME NEW q, NEW r, NEW n \in Nat, NEW m \in Nat, n <= m, \A i \in 1 .. n : r[i] = q[i],
           NEW sl, NEW sl1, \A x : SubCall(sl, x) => SubCall(sl1, x), NEW c \in Convs, Source(q, sl, n, c)
    PROVE  Source(r, sl1, m, c)
<1> SUFFICES ASSUME NEW i \in DOMAIN c.items PROVE Sourced(r, sl1, m, c.items[i])
  BY DEF Source
<1>1. PICK it : it = c.items[i]
  OBVIOUS
<1>2. Sourced(q, sl, n, it) /\ it.key \in Int
  BY <1>1 DEF Source, Convs, RightItems
<1>3. it.key < n /\ it.key < m
  BY <1>2 DEF Sourced
<1>4. it.key >= 0 => r[it.key + 1] = q[it.key + 1]
  <2>1. it.key >= 0 => it.key + 1 \in 1 .. n
    BY <1>2, <1>3
  <2>2. QED
    BY <2>1
<1>5. \A x : Spawned(q, n, x) => Spawned(r, m, x)
  BY DEF Spawned
<1>6. QED
  BY <1>1, <1>2, <1>3, <1>4, <1>5 DEF Sourced

LEMMA SourceRestated ==
    ASSUME NEW q, NEW sl, NEW n, NEW c \in Convs, NEW f \in Frames, Source(q, sl, n, c), NEW d,
           DOMAIN d.items = DOMAIN c.items, \A i \in DOMAIN c.items : d.items[i] = Restated(f, c.items[i])
    PROVE  Source(q, sl, n, d)
<1>1. ASSUME NEW i \in DOMAIN c.items
      PROVE  /\ d.items[i].key = c.items[i].key /\ d.items[i].kind = c.items[i].kind
             /\ d.items[i].id = c.items[i].id
             /\ d.items[i].status = "running" => c.items[i].status = "running"
             /\ d.items[i].status = "pending" => c.items[i].status = "pending"
  <2>1. PICK x : x = c.items[i] /\ x \in RightItems
    BY FrameFields
  <2>2. /\ Restated(f, x).key = x.key /\ Restated(f, x).kind = x.kind /\ Restated(f, x).id = x.id
        /\ Restated(f, x).status = StatusAfter(f, x)
    BY <2>1, RestatedFields
  <2>3. /\ StatusAfter(f, x) = "running" => x.status = "running"
        /\ StatusAfter(f, x) = "pending" => x.status = "pending"
    BY DEF StatusAfter
  <2>4. QED
    BY <2>1, <2>2, <2>3
<1>2. \A i \in DOMAIN d.items : Sourced(q, sl, n, d.items[i])
  BY <1>1 DEF Source, Sourced
<1>3. NoTwins(d)
  BY <1>1 DEF Source, NoTwins, Twins
<1>4. QED
  BY <1>2, <1>3 DEF Source

LEMMA SourcePut ==
    ASSUME NEW q, NEW sl, NEW n, NEW c \in Convs, Source(q, sl, n, c), NEW d, NEW i, NEW it, Put(c, d, i, it),
           Sourced(q, sl, n, it), \A j \in DOMAIN c.items : j # i => ~Twins(c.items[j], it)
    PROVE  Source(q, sl, n, d)
<1>1. /\ DOMAIN d.items = DOMAIN c.items \cup {i} /\ d.items[i] = it
      /\ \A j \in DOMAIN c.items : j # i => d.items[j] = c.items[j]
  BY DEF Put
<1>2. \A j \in DOMAIN d.items : Sourced(q, sl, n, d.items[j])
  BY <1>1 DEF Source
<1>3. \A j, k \in DOMAIN d.items : j # k => ~Twins(d.items[j], d.items[k])
  <2>1. \A j, k \in DOMAIN c.items : j # k => ~Twins(c.items[j], c.items[k])
    <3>1. \A x, y : Twins(x, y) => Twins(y, x)
      BY DEF Twins
    <3>2. \A j, k \in DOMAIN c.items : j # k => j < k \/ k < j
      <4>1. DOMAIN c.items = 1 .. Len(c.items) /\ Len(c.items) \in Nat
        BY DEF Convs
      <4>2. QED
        BY <4>1
    <3>3. QED
      BY <3>1, <3>2 DEF Source, NoTwins
  <2>2. \A j \in DOMAIN c.items : j # i => ~Twins(it, c.items[j])
    BY DEF Twins
  <2>3. QED
    BY <1>1, <2>1, <2>2
<1>4. NoTwins(d)
  <2>1. DOMAIN c.items = 1 .. Len(c.items) /\ i \in Nat
    BY DEF Convs, Put
  <2>2. \A j, k \in DOMAIN d.items : j < k => j # k
    BY <1>1, <2>1
  <2>3. QED
    BY <1>3, <2>2 DEF NoTwins
<1>5. QED
  BY <1>2, <1>4 DEF Source

LEMMA SourceFiltered ==
    ASSUME NEW q, NEW sl, NEW n, NEW c \in Convs, Source(q, sl, n, c), NEW kept, NEW d,
           d.items = Filter(c.items, kept)
    PROVE  Source(q, sl, n, d)
<1>1. PICK s, p, m : s = d.items /\ p = c.items /\ m = Len(c.items)
  OBVIOUS
<1>2. KeptOf(p, kept, m, s, RightItems) /\ DOMAIN p = 1 .. m
  BY <1>1, Filtered DEF Convs
<1>3. /\ \A i \in DOMAIN s : \E a \in DOMAIN p : s[i] = p[a]
      /\ \A i, j \in DOMAIN s : i < j => \E a, b \in DOMAIN p : a < b /\ s[i] = p[a] /\ s[j] = p[b]
  <2>1. \A i \in DOMAIN s : \E a \in 1 .. m : s[i] = p[a]
    BY <1>2 DEF KeptOf
  <2>2. \A i, j \in DOMAIN s : i < j => \E a, b \in 1 .. m : a < b /\ s[i] = p[a] /\ s[j] = p[b]
    BY <1>2 DEF KeptOf
  <2>3. QED
    BY <1>2, <2>1, <2>2
<1>4. \A i \in DOMAIN s : Sourced(q, sl, n, s[i])
  BY <1>1, <1>3 DEF Source
<1>5. \A i, j \in DOMAIN s : i < j => ~Twins(s[i], s[j])
  BY <1>1, <1>3 DEF Source, NoTwins
<1>6. QED
  BY <1>1, <1>4, <1>5 DEF Source, NoTwins

(* What a root frame says of its envelope. *)
LEMMA FrameSource ==
    ASSUME NEW e \in Envelopes, NEW s \in Int, e.type # "TaskRewound" => e.at = 0,
           NEW f \in ToSet(TranslateRoot(e, s))
    PROVE  /\ f.type = "tool_call" => e = Env("ToolCallStarted", f.id)
           /\ f.type = "question" => e = Env("UserQuestionRequested", f.id)
           /\ f.type = "subtask_started" => e = Env("SubtaskSpawned", f.id)
           /\ f.type = "subtask_finished" => e.type = "SubtaskCompleted" /\ f.id = e.id
<1>1. ASSUME NEW g, TranslateRoot(e, s) = <<g>> PROVE f = g
  <2>1. DOMAIN <<g>> = {1} /\ <<g>>[1] = g
    OBVIOUS
  <2>2. QED
    BY <1>1, <2>1 DEF ToSet
<1>2. CASE e.type \in DOMAIN FrameType
  <2>0. PICK t, g : t = FrameType[e.type] /\ g = Frame(s, t, e.id, None)
    OBVIOUS
  <2>1. TranslateRoot(e, s) = <<g>>
    BY <1>2, <2>0, Vocabulary DEF TranslateRoot
  <2>2. f.type = t /\ f.id = e.id
    BY <1>1, <2>0, <2>1 DEF Frame
  <2>3. /\ t = "tool_call" => e.type = "ToolCallStarted"
        /\ t = "question" => e.type = "UserQuestionRequested"
        /\ t = "subtask_started" => e.type = "SubtaskSpawned"
        /\ t = "subtask_finished" => e.type = "SubtaskCompleted"
    BY <1>2, <2>0, Vocabulary
  <2>4. e.at = 0
    BY <1>2, Vocabulary
  <2>5. e = Env(e.type, e.id)
    BY <2>4 DEF Env, Envelopes
  <2>6. QED
    BY <2>2, <2>3, <2>5
<1>3. CASE e.type \notin DOMAIN FrameType
  <2>1. f.type \in {"turn_finished", "error", "rewind"}
    <3>1. CASE e.type = "TaskSuspended"
      <4>1. ToSet(<<>>) = {}
        BY DEF ToSet
      <4>2. TranslateRoot(e, s) = <<Frame(s, "turn_finished", e.id, None)>>
        BY <3>1, <4>1 DEF TranslateRoot, FromSuspend
      <4>3. QED
        BY <1>1, <4>2 DEF Frame
    <3>2. CASE e.type = "TaskCancelled"
      <4>1. TranslateRoot(e, s) = <<Frame(s, "turn_finished", "cancelled", None)>>
        BY <3>2 DEF TranslateRoot
      <4>2. QED
        BY <1>1, <4>1 DEF Frame
    <3>3. CASE e.type = "TaskCompleted"
      <4>1. TranslateRoot(e, s) = <<Frame(s, "turn_finished", "completed", None)>>
        BY <3>3 DEF TranslateRoot
      <4>2. QED
        BY <1>1, <4>1 DEF Frame
    <3>4. CASE e.type = "TaskFailed"
      <4>1. PICK g, h : g = Frame(s, "error", None, None) /\ h = Frame(s, "turn_finished", "failed", None)
        OBVIOUS
      <4>2. TranslateRoot(e, s) = <<g, h>>
        BY <3>4, <4>1 DEF TranslateRoot
      <4>3. DOMAIN <<g, h>> = {1, 2} /\ <<g, h>>[1] = g /\ <<g, h>>[2] = h
        OBVIOUS
      <4>4. f = g \/ f = h
        BY <4>2, <4>3 DEF ToSet
      <4>5. QED
        BY <4>1, <4>4 DEF Frame
    <3>5. CASE e.type = "TaskRewound"
      <4>1. PICK g : g = [Frame(s, "rewind", None, None) EXCEPT !.at = e.at]
        OBVIOUS
      <4>2. TranslateRoot(e, s) = <<g>>
        BY <3>5, <4>1 DEF TranslateRoot
      <4>3. QED
        BY <1>1, <4>1, <4>2 DEF Frame
    <3>6. CASE e.type = "TaskCreated"
      <4>1. TranslateRoot(e, s) = <<>>
        BY <3>6, Vocabulary DEF TranslateRoot
      <4>2. ToSet(<<>>) = {}
        BY DEF ToSet
      <4>3. QED
        BY <4>1, <4>2
    <3>7. e.type \in EnvelopeTypes
      BY DEF Envelopes
    <3>8. QED
      BY <1>3, <3>1, <3>2, <3>3, <3>4, <3>5, <3>6, <3>7, Vocabulary DEF EnvelopeTypes
  <2>2. QED
    BY <2>1
<1>4. QED
  BY <1>2, <1>3

-----------------------------------------------------------------------------
(* What the log promises of calls, questions and subtasks *)

Once == {"UserQuestionRequested", "ToolCallStarted", "SubtaskSpawned"}

LogOf(q, sl, t) ==
    /\ \A i \in 1 .. Len(q) : q[i].type # "TaskRewound" => q[i].at = 0
    /\ \A i, j \in 1 .. Len(q) : i < j /\ q[j].type \in Once => q[i] # q[j]
    /\ \A i \in 1 .. Len(q) : q[i].type = "ToolCallStarted" => ~SubCall(sl, q[i].id)
    /\ \A i \in 1 .. Len(q) : q[i].type = "SubtaskCompleted" =>
           Spawned(q, i - 1, q[i].id) /\ ~CancelledIn(sl, q[i].id)
    /\ \A i \in 1 .. Len(q) : q[i].type = "TaskCancelled" => i = Len(q) /\ t = "over"
    /\ \A x : CancelledIn(sl, x) => q[Len(q)].type = "TaskCancelled"
    /\ \A x \in Subtasks : \A i \in DOMAIN sl[x] :
           sl[x][i].type \in {"ToolCallStarted", "ToolResultRecorded"} => SubCall(sl, sl[x][i].id)

LEMMA SourceReady ==
    ASSUME NEW q \in Seq(Envelopes), NEW sl, NEW t, LogOf(q, sl, t), NEW f \in Frames, f.seq \in 0 .. Len(q) - 1,
           f \in FramesOf(q, f.seq), NEW n \in Nat, n <= f.seq, NEW c \in Convs, Source(q, sl, n, c)
    PROVE  /\ Plain(c) /\ Opens(c, f)
           /\ f.type = "question" => ~Has(c, "question", f.id)
           /\ f.type = "subtask_finished" => Spawned(q, f.seq, f.id) /\ ~CancelledIn(sl, f.id)
           /\ f.type = "tool_call" => q[f.seq + 1] = Env("ToolCallStarted", f.id) /\ ~SubCall(sl, f.id)
           /\ f.type = "question" => q[f.seq + 1] = Env("UserQuestionRequested", f.id)
           /\ f.type = "subtask_started" => q[f.seq + 1] = Env("SubtaskSpawned", f.id)
<1>1. PICK s, e : s = f.seq /\ e = q[s + 1]
  OBVIOUS
<1>2. s \in Int /\ s >= 0 /\ s + 1 \in 1 .. Len(q) /\ e \in Envelopes /\ n <= s
  BY <1>1
<1>3. /\ f.type = "tool_call" => e = Env("ToolCallStarted", f.id)
      /\ f.type = "question" => e = Env("UserQuestionRequested", f.id)
      /\ f.type = "subtask_started" => e = Env("SubtaskSpawned", f.id)
      /\ f.type = "subtask_finished" => e.type = "SubtaskCompleted" /\ f.id = e.id
  <2>1. e.type # "TaskRewound" => e.at = 0
    BY <1>1, <1>2 DEF LogOf
  <2>2. f \in ToSet(TranslateRoot(e, s))
    BY <1>1 DEF FramesOf
  <2>3. QED
    BY <1>2, <2>1, <2>2, FrameSource
<1>4. ASSUME NEW i \in DOMAIN c.items PROVE Sourced(q, sl, n, c.items[i]) /\ c.items[i].key \in Int
  BY FrameFields DEF Source, RightItems
<1>5. Plain(c)
  BY <1>4 DEF Plain, Source, Sourced
<1>6. ASSUME NEW k \in Int, 0 <= k, k < n, e.type \in Once PROVE q[k + 1] # e
  <2>1. k + 1 \in 1 .. Len(q) /\ k + 1 < s + 1
    BY <1>2, <1>6
  <2>2. QED
    BY <1>1, <1>2, <1>6, <2>1 DEF LogOf
<1>7. f.type = "tool_call" => e.type = "ToolCallStarted" /\ e.id = f.id /\ ~SubCall(sl, f.id)
  <2>1. f.type = "tool_call" => e.type = "ToolCallStarted" /\ e.id = f.id
    BY <1>3 DEF Env
  <2>2. QED
    BY <1>1, <1>2, <2>1 DEF LogOf
<1>8. f.type = "tool_call" => ~Has(c, "step", f.id)
  <2> SUFFICES ASSUME f.type = "tool_call", NEW i \in DOMAIN c.items, c.items[i].kind = "step",
                      c.items[i].id = f.id
               PROVE  FALSE
    BY DEF Has
  <2>1. c.items[i].key < n /\ c.items[i].key \in Int
    BY <1>4 DEF Sourced
  <2>2. ~(c.items[i].key < 0)
    BY <1>4, <1>7 DEF Sourced
  <2>3. q[c.items[i].key + 1] = e
    BY <1>3, <1>4, <2>1, <2>2 DEF Sourced
  <2>4. QED
    BY <1>6, <1>7, <2>1, <2>2, <2>3 DEF Once
<1>9. f.type = "question" => ~Has(c, "question", f.id)
  <2> SUFFICES ASSUME f.type = "question", NEW i \in DOMAIN c.items, c.items[i].kind = "question",
                      c.items[i].id = f.id
               PROVE  FALSE
    BY DEF Has
  <2>1. c.items[i].key < n /\ c.items[i].key \in Int /\ c.items[i].key >= 0
    BY <1>4 DEF Sourced
  <2>2. q[c.items[i].key + 1] = e
    BY <1>3, <1>4 DEF Sourced
  <2>3. e.type = "UserQuestionRequested"
    BY <1>3 DEF Env
  <2>4. QED
    BY <1>6, <2>1, <2>2, <2>3 DEF Once
<1>10. f.type = "subtask_started" => ~Has(c, "subtask", f.id)
  <2> SUFFICES ASSUME f.type = "subtask_started", NEW i \in DOMAIN c.items, c.items[i].kind = "subtask",
                      c.items[i].id = f.id
               PROVE  FALSE
    BY DEF Has
  <2>1. PICK j \in 1 .. n : q[j] = e
    BY <1>3, <1>4 DEF Sourced, Spawned
  <2>2. j - 1 \in Int /\ 0 <= j - 1 /\ j - 1 < n /\ (j - 1) + 1 = j
    OBVIOUS
  <2>3. e.type = "SubtaskSpawned"
    BY <1>3 DEF Env
  <2>4. QED
    BY <1>6, <2>1, <2>2, <2>3 DEF Once
<1>11. f.type = "subtask_finished" => Spawned(q, s, f.id) /\ ~CancelledIn(sl, f.id)
  <2>1. (s + 1) - 1 = s
    BY <1>2
  <2>2. QED
    BY <1>1, <1>2, <1>3, <2>1 DEF LogOf
<1>12. QED
  BY <1>1, <1>3, <1>5, <1>7, <1>8, <1>9, <1>10, <1>11 DEF Opens

LEMMA SourceFolded ==
    ASSUME NEW q \in Seq(Envelopes), NEW sl, NEW t, LogOf(q, sl, t), NEW f \in Frames, f.seq \in 0 .. Len(q) - 1,
           f \in FramesOf(q, f.seq), NEW n \in Nat, n <= f.seq, NEW c \in Convs, Source(q, sl, n, c),
           NEW d, d = FoldItemEvent(c, f)
    PROVE  Source(q, sl, f.seq + 1, d)
<1>1. PICK s, m : s = f.seq /\ m = s + 1
  OBVIOUS
<1>2. s \in Nat /\ m \in Nat /\ n <= m /\ s < m /\ f.seq # NoSeq /\ Key(c, f) = s
  BY <1>1 DEF NoSeq, Key
<1>3. Source(q, sl, m, c)
  BY <1>2, SourceGrows
<1>4. /\ Opens(c, f)
      /\ f.type = "question" => ~Has(c, "question", f.id)
      /\ f.type = "subtask_finished" => Spawned(q, s, f.id)
      /\ f.type = "tool_call" => q[s + 1] = Env("ToolCallStarted", f.id)
      /\ f.type = "question" => q[s + 1] = Env("UserQuestionRequested", f.id)
      /\ f.type = "subtask_started" => q[s + 1] = Env("SubtaskSpawned", f.id)
  BY <1>1, SourceReady
<1>5. CASE Grows(c, f)
  <2>1. PICK it : it = Placed(c, f)
    OBVIOUS
  <2>2. /\ it \in RightItems /\ it.key = s /\ it.kind \in Kinds \ {"user"}
        /\ it.kind = "step" <=> f.type = "tool_call"
        /\ it.kind = "question" <=> f.type = "question"
        /\ it.kind = "subtask" <=> f.type \in {"subtask_started", "subtask_finished"}
        /\ it.kind \in {"step", "question", "subtask"} => it.id = f.id
        /\ it.status = "running" <=> f.type \in {"tool_call", "subtask_started"}
    BY <1>2, <1>5, <2>1, PlacedFields
  <2>3. d.items = Append(c.items, it)
    BY <1>5, <2>1, GrowsBy
  <2>4. PICK i : Put(c, d, i, it) /\ i \notin DOMAIN c.items
    BY <2>2, <2>3, AppendPuts
  <2>5. Spawned(q, s, f.id) => Spawned(q, m, f.id)
    <3>1. \A u \in 1 .. s : u \in 1 .. m
      BY <1>1, <1>2
    <3>2. QED
      BY <3>1 DEF Spawned
  <2>6. f.type = "subtask_started" => Spawned(q, m, f.id)
    <3>1. m \in 1 .. m
      BY <1>1, <1>2
    <3>2. QED
      BY <1>1, <1>4, <3>1 DEF Spawned
  <2>7. Sourced(q, sl, m, it)
    <3>1. it.key < m /\ it.key >= 0 /\ ~(it.key < 0)
      BY <1>2, <2>2
    <3>2. QED
      BY <1>4, <2>2, <2>5, <2>6, <3>1 DEF Sourced
  <2>8. \A j \in DOMAIN c.items : ~Twins(c.items[j], it)
    BY <1>4, <2>2 DEF Opens, Has, Twins
  <2>9. Source(q, sl, m, d)
    BY <1>3, <2>4, <2>7, <2>8, SourcePut
  <2>10. QED
    BY <1>1, <2>9
<1>6. CASE Stands(c, f)
  <2>1. DOMAIN d.items = DOMAIN c.items /\ \A i \in DOMAIN c.items : d.items[i] = Restated(f, c.items[i])
    BY <1>3, <1>6, StandsAs DEF Source
  <2>2. QED
    BY <1>1, <1>3, <2>1, SourceRestated
<1>7. CASE f.type = "user_message"
  <2>1. PICK i, it : Put(c, d, i, it) /\ it \in RightItems /\ it = Item("user", Key(c, f), f.id, "sent", None, 0)
    BY <1>7, UserMessagePuts
  <2>2. it.kind = "user" /\ it.status = "sent" /\ it.key = s
    BY <1>2, <2>1 DEF Item
  <2>3. Sourced(q, sl, m, it)
    BY <1>2, <2>2 DEF Sourced
  <2>4. \A j \in DOMAIN c.items : ~Twins(c.items[j], it)
    BY <2>2 DEF Twins
  <2>5. QED
    BY <1>1, <1>3, <2>1, <2>3, <2>4, SourcePut
<1>8. CASE f.type = "todo_update"
  <2>1. PICK i, it : /\ Put(c, d, i, it) /\ it \in RightItems /\ it.kind = "todos"
                     /\ i \notin DOMAIN c.items => it.key = f.seq
                     /\ i \in DOMAIN c.items => it.key = c.items[i].key
    BY <1>8, TodoPuts
  <2>2. it.key < m
    BY <1>1, <1>2, <1>3, <2>1 DEF Source, Sourced
  <2>3. Sourced(q, sl, m, it)
    BY <2>1, <2>2 DEF Sourced
  <2>4. \A j \in DOMAIN c.items : ~Twins(c.items[j], it)
    BY <2>1 DEF Twins
  <2>5. QED
    BY <1>1, <1>3, <2>1, <2>3, <2>4, SourcePut
<1>9. CASE f.type = "rewind"
  <2>1. PICK kept : d.items = Filter(c.items, kept)
    BY <1>9, RewindKeepsPast
  <2>2. QED
    BY <1>1, <1>3, <2>1, SourceFiltered
<1>10. QED
  BY <1>5, <1>6, <1>7, <1>8, <1>9, FrameShapes

(* A frame without a seq is a subtask's, the early turn_started or one of    *)
(* the inherited prefix.                                                     *)
SideFrame(q, sl, n, f) ==
    /\ f.type \in {"append", "tool_call", "tool_result", "subtask_finished", "turn_started"}
    /\ f.type \in {"tool_call", "tool_result"} => SubCall(sl, f.id)
    /\ f.type = "subtask_finished" => f.sub = "cancelled" /\ CancelledIn(sl, f.id) /\ Spawned(q, n, f.id)

LEMMA SideShapes ==
    ASSUME NEW c, NEW q, NEW sl, NEW n, NEW f \in Frames, SideFrame(q, sl, n, f)
    PROVE  Grows(c, f) \/ Stands(c, f)
BY DEF SideFrame, Grows, Stands

LEMMA SideSource ==
    ASSUME NEW q, NEW sl, NEW n \in Nat, NEW f \in Frames, f.seq = NoSeq, SideFrame(q, sl, n, f),
           NEW c \in Convs, Source(q, sl, n, c), NEW d, d = FoldItemEvent(c, f)
    PROVE  Source(q, sl, n, d)
<1>1. CASE Grows(c, f)
  <2>1. PICK it : it = Placed(c, f)
    OBVIOUS
  <2>2. /\ it \in RightItems /\ it.key = Key(c, f) /\ it.kind \in Kinds \ {"user"}
        /\ it.kind = "step" <=> f.type = "tool_call"
        /\ it.kind = "question" <=> f.type = "question"
        /\ it.kind = "subtask" <=> f.type \in {"subtask_started", "subtask_finished"}
        /\ it.kind \in {"step", "question", "subtask"} => it.id = f.id
        /\ it.status = "running" <=> f.type \in {"tool_call", "subtask_started"}
    BY <1>1, <2>1, PlacedFields
  <2>3. it.key < 0 /\ it.key \in Int
    BY <2>2 DEF Key, Convs
  <2>4. d.items = Append(c.items, it)
    BY <1>1, <2>1, GrowsBy
  <2>5. PICK i : Put(c, d, i, it) /\ i \notin DOMAIN c.items
    BY <2>2, <2>4, AppendPuts
  <2>6. Sourced(q, sl, n, it)
    <3>1. it.key < n /\ ~(it.key >= 0)
      BY <2>3
    <3>2. QED
      BY <2>2, <3>1 DEF Sourced, SideFrame
  <2>7. \A j \in DOMAIN c.items : ~Twins(c.items[j], it)
    BY <1>1, <2>2 DEF SideFrame, Grows, Has, Twins
  <2>8. QED
    BY <2>5, <2>6, <2>7, SourcePut
<1>2. CASE Stands(c, f)
  <2>1. DOMAIN d.items = DOMAIN c.items /\ \A i \in DOMAIN c.items : d.items[i] = Restated(f, c.items[i])
    BY <1>2, StandsAs DEF Source
  <2>2. QED
    BY <2>1, SourceRestated
<1>3. QED
  BY <1>1, <1>2, SideShapes

-----------------------------------------------------------------------------
(* What is shown, against the log *)

(* A subtask's cancel may be shown before, and is shown after, the log's own. *)
Meets(sl, it, x) ==
    \/ it = x
    \/ /\ x.kind = "subtask" /\ x.status = "running" /\ CancelledIn(sl, x.id)
       /\ it = [x EXCEPT !.status = "cancelled"]
Drawn(sl, A, X) ==
    /\ \A it \in A : \E x \in X : Meets(sl, it, x)
    /\ \A x \in X : \E it \in A : Meets(sl, it, x)

LEMMA DrawnRevised ==
    ASSUME NEW sl, NEW A, NEW X, Drawn(sl, A, X), A \subseteq RightItems, X \subseteq RightItems, NEW f \in Frames,
           f.type = "subtask_finished" => ~CancelledIn(sl, f.id)
    PROVE  Drawn(sl, Revise(f, A), Revise(f, X))
<1>1. ASSUME NEW it \in A, NEW x \in X, Meets(sl, it, x)
      PROVE  it.key = x.key /\ Meets(sl, Restated(f, it), Restated(f, x))
  <2>1. CASE it = x
    BY <2>1 DEF Meets
  <2>2. CASE /\ x.kind = "subtask" /\ x.status = "running" /\ CancelledIn(sl, x.id)
             /\ it = [x EXCEPT !.status = "cancelled"]
    <3>1. it.key = x.key /\ it.kind = "subtask" /\ it.id = x.id /\ it.status = "cancelled"
      BY <2>2 DEF RightItems
    <3>2. StatusAfter(f, it) = it.status
      BY <3>1 DEF StatusAfter
    <3>3. Restated(f, it) = it
      BY <3>1, <3>2 DEF Restated, RightItems
    <3>4. StatusAfter(f, x) \in {"running", "cancelled"}
      BY <2>2 DEF StatusAfter
    <3>5. Restated(f, x) = x \/ Restated(f, x) = it
      BY <2>2, <3>4 DEF Restated, RightItems
    <3>6. QED
      BY <2>2, <3>1, <3>3, <3>5 DEF Meets
  <2>3. QED
    BY <1>1, <2>1, <2>2 DEF Meets
<1>2. f.type = "subtask_finished" => (Live(A, f.id) <=> Live(X, f.id))
  <2> SUFFICES ASSUME ~CancelledIn(sl, f.id) PROVE Live(A, f.id) <=> Live(X, f.id)
    OBVIOUS
  <2>1. ASSUME NEW it \in A, it.kind = "subtask", it.status = "running", it.id = f.id PROVE it \in X
    <3>1. PICK x \in X : Meets(sl, it, x)
      BY DEF Drawn
    <3>2. it # [x EXCEPT !.status = "cancelled"]
      <4>1. [x EXCEPT !.status = "cancelled"].status = "cancelled"
        BY DEF RightItems
      <4>2. QED
        BY <2>1, <4>1
    <3>3. QED
      BY <3>1, <3>2 DEF Meets
  <2>2. ASSUME NEW x \in X, x.kind = "subtask", x.status = "running", x.id = f.id PROVE x \in A
    BY <2>2 DEF Drawn, Meets
  <2>3. QED
    BY <2>1, <2>2 DEF Live
<1>3. Adds(f, A) <=> Adds(f, X)
  BY <1>2 DEF Adds
<1>4. ASSUME NEW it \in Revise(f, A) PROVE \E x \in Revise(f, X) : Meets(sl, it, x)
  <2>1. CASE it = NewItem(f) /\ Adds(f, A)
    BY <1>3, <2>1, RevisedIs DEF Meets
  <2>2. CASE \E y \in A : (f.type = "rewind" => y.key <= f.at) /\ it = Restated(f, y)
    <3>1. PICK y \in A : (f.type = "rewind" => y.key <= f.at) /\ it = Restated(f, y)
      BY <2>2
    <3>2. PICK x \in X : Meets(sl, y, x)
      BY DEF Drawn
    <3>3. Restated(f, x) \in Revise(f, X)
      BY <1>1, <3>1, <3>2, RevisedIs
    <3>4. QED
      BY <1>1, <3>1, <3>2, <3>3
  <2>3. QED
    BY <1>4, <2>1, <2>2, RevisedIs
<1>5. ASSUME NEW x \in Revise(f, X) PROVE \E it \in Revise(f, A) : Meets(sl, it, x)
  <2>1. CASE x = NewItem(f) /\ Adds(f, X)
    BY <1>3, <2>1, RevisedIs DEF Meets
  <2>2. CASE \E y \in X : (f.type = "rewind" => y.key <= f.at) /\ x = Restated(f, y)
    <3>1. PICK y \in X : (f.type = "rewind" => y.key <= f.at) /\ x = Restated(f, y)
      BY <2>2
    <3>2. PICK it \in A : Meets(sl, it, y)
      BY DEF Drawn
    <3>3. Restated(f, it) \in Revise(f, A)
      BY <1>1, <3>1, <3>2, RevisedIs
    <3>4. QED
      BY <1>1, <3>1, <3>2, <3>3
  <2>3. QED
    BY <1>5, <2>1, <2>2, RevisedIs
<1>6. QED
  BY <1>4, <1>5 DEF Drawn

LEMMA DrawnAside ==
    ASSUME NEW q \in Seq(Envelopes), NEW sl, NEW t, LogOf(q, sl, t), NEW n \in 0 .. Len(q), NEW f \in Frames,
           f.seq = NoSeq, SideFrame(q, sl, n, f), NEW c \in Convs, Source(q, sl, n, c),
           NEW X \in SUBSET RightItems, Drawn(sl, Shown(c), X), NEW d, d = FoldItemEvent(c, f)
    PROVE  Drawn(sl, Shown(d), X)
<1>1. CASE Grows(c, f)
  BY <1>1, AsideGrows
<1>2. CASE Stands(c, f)
  <2>1. \A it : it \in Shown(d) <=> \E y \in Shown(c) : it = Restated(f, y)
    <3>1. DOMAIN d.items = DOMAIN c.items /\ \A i \in DOMAIN c.items : d.items[i] = Restated(f, c.items[i])
      BY <1>2, StandsAs DEF Source
    <3>2. QED
      BY <3>1, ShownMapped
  <2>2. ASSUME NEW it \in Shown(c), NEW x \in X, Meets(sl, it, x) PROVE Meets(sl, Restated(f, it), x)
    <3>1. PICK i \in DOMAIN c.items : it = c.items[i] /\ it.key >= 0
      BY <2>2, ShownIs
    <3>2. Sourced(q, sl, n, it) /\ it \in RightItems /\ it.key \in Int
      BY <3>1, FrameFields DEF Source, RightItems
    <3>3. CASE StatusAfter(f, it) = it.status
      <4>1. Restated(f, it) = it
        BY <3>2, <3>3 DEF Restated, RightItems
      <4>2. QED
        BY <2>2, <4>1
    <3>4. CASE StatusAfter(f, it) # it.status
      <4>1. \/ f.type = "tool_result" /\ it.kind = "step" /\ it.id = f.id
            \/ f.type = "subtask_finished" /\ it.kind = "subtask" /\ it.status = "running" /\ it.id = f.id
        BY <3>4 DEF SideFrame, StatusAfter
      <4>2. CASE f.type = "tool_result" /\ it.kind = "step" /\ it.id = f.id
        <5>1. SubCall(sl, it.id)
          BY <4>2 DEF SideFrame
        <5>2. it.key + 1 \in 1 .. Len(q) /\ q[it.key + 1] = Env("ToolCallStarted", it.id)
          BY <3>1, <3>2, <4>2 DEF Sourced
        <5>3. q[it.key + 1].type = "ToolCallStarted" /\ q[it.key + 1].id = it.id
          BY <5>2 DEF Env
        <5>4. QED
          BY <5>1, <5>2, <5>3 DEF LogOf
      <4>3. CASE f.type = "subtask_finished" /\ it.kind = "subtask" /\ it.status = "running" /\ it.id = f.id
        <5>1. it = x
          <6>1. [x EXCEPT !.status = "cancelled"].status = "cancelled"
            BY DEF RightItems
          <6>2. QED
            BY <2>2, <4>3, <6>1 DEF Meets
        <5>2. f.sub = "cancelled" /\ CancelledIn(sl, x.id)
          BY <4>3, <5>1 DEF SideFrame
        <5>3. StatusAfter(f, x) = "cancelled"
          BY <4>3, <5>1, <5>2 DEF StatusAfter
        <5>4. QED
          BY <4>3, <5>1, <5>2, <5>3 DEF Restated, Meets
      <4>4. QED
        BY <4>1, <4>2, <4>3
    <3>5. QED
      BY <3>3, <3>4
  <2>3. ASSUME NEW it \in Shown(d) PROVE \E x \in X : Meets(sl, it, x)
    <3>1. PICK y \in Shown(c) : it = Restated(f, y)
      BY <2>1, <2>3
    <3>2. PICK x \in X : Meets(sl, y, x)
      BY DEF Drawn
    <3>3. QED
      BY <2>2, <3>1, <3>2
  <2>4. ASSUME NEW x \in X PROVE \E it \in Shown(d) : Meets(sl, it, x)
    <3>1. PICK y \in Shown(c) : Meets(sl, y, x)
      BY DEF Drawn
    <3>2. Restated(f, y) \in Shown(d)
      BY <2>1, <3>1
    <3>3. QED
      BY <2>2, <3>1, <3>2
  <2>5. QED
    BY <2>3, <2>4 DEF Drawn
<1>3. QED
  BY <1>1, <1>2, SideShapes

-----------------------------------------------------------------------------
(* What the log draws *)

(* g[k] is what the first k envelopes show. *)
DrawnBy(e, s, X) == IF TranslateRoot(e, s) = <<>> THEN X ELSE Revise(TranslateRoot(e, s)[1], X)
Drawings(q, g) ==
    /\ g[0] = {}
    /\ \A k \in 0 .. Len(q) : g[k] \in SUBSET RightItems
    /\ \A k \in 1 .. Len(q) : g[k] = DrawnBy(q[k], k - 1, g[k - 1])

LEMMA RevisedRight ==
    ASSUME NEW f \in Frames, f.seq # NoSeq, NEW X \in SUBSET RightItems
    PROVE  Revise(f, X) \in SUBSET RightItems
<1>1. ASSUME NEW x \in RightItems PROVE Restated(f, x) \in RightItems
  <2>1. /\ StatusAfter(f, x) \in Statuses
        /\ StatusAfter(f, x) = "running" => x.status = "running"
        /\ StatusAfter(f, x) = "open" => x.status = "open"
    BY DEF StatusAfter, Statuses, RightItems
  <2>2. QED
    BY <2>1 DEF Restated, RightItems
<1>2. ASSUME Adds(f, X) PROVE NewItem(f) \in RightItems
  <2>1. f.type \in Adding \cup {"subtask_finished"}
    BY <1>2 DEF Adds
  <2>2. f.seq \in Int /\ f.id \in Ids /\ f.sub \in Ids /\ None \in Ids
    BY IdsAre DEF Frames
  <2>3. ASSUME NEW kind \in ItemKinds, NEW x \in Ids, NEW sub \in Ids, NEW st \in Statuses,
               st = "running" => kind \in {"step", "subtask"}, st = "open" => kind = "question"
        PROVE  Item(kind, f.seq, x, st, sub, 0) \in RightItems
    BY <2>2, <2>3 DEF Item, RightItems
  <2>4. /\ {None, "sent", "running", "open", "cancelled", "completed"} \subseteq Statuses
        /\ {"user", "append", "step", "subtask", "question", "error"} \subseteq ItemKinds
    BY DEF Statuses, ItemKinds
  <2>5. \/ NewItem(f) = Item("user", f.seq, f.id, "sent", None, 0)
        \/ NewItem(f) = Item("append", f.seq, f.id, None, None, 0)
        \/ NewItem(f) = Item("step", f.seq, f.id, "running", f.sub, 0)
        \/ NewItem(f) = Item("subtask", f.seq, f.id, "running", None, 0)
        \/ NewItem(f) = Item("question", f.seq, f.id, "open", None, 0)
        \/ NewItem(f) = Item("error", f.seq, None, None, None, 0)
        \/ NewItem(f) = Item("subtask", f.seq, f.id, "cancelled", None, 0)
        \/ NewItem(f) = Item("subtask", f.seq, f.id, "completed", None, 0)
    BY <2>1 DEF NewItem, Adding
  <2>6. None # "running" /\ None # "open"
    BY DEF None
  <2>7. QED
    BY <2>2, <2>3, <2>4, <2>5, <2>6
<1>3. \A it \in Revise(f, X) : it \in RightItems
  BY <1>1, <1>2, RevisedIs
<1>4. QED
  BY <1>3

LEMMA DrawnByRight ==
    ASSUME NEW e \in Envelopes, NEW s \in Nat, NEW X \in SUBSET RightItems
    PROVE  DrawnBy(e, s, X) \in SUBSET RightItems
<1>1. PICK a : a = TranslateRoot(e, s)
  OBVIOUS
<1>2. a \in Seq(Frames) /\ \A f \in ToSet(a) : f \in Frames /\ f.seq = s
  <2>1. Rendered(e, s, a)
    BY <1>1, RootFrames
  <2>2. QED
    BY <2>1, RenderedFacts
<1>3. CASE a = <<>>
  BY <1>1, <1>3 DEF DrawnBy
<1>4. CASE a # <<>>
  <2>1. 1 \in DOMAIN a
    BY <1>2, <1>4
  <2>2. a[1] \in ToSet(a)
    BY <2>1 DEF ToSet
  <2>3. a[1] \in Frames /\ a[1].seq # NoSeq
    BY <1>2, <2>2 DEF NoSeq
  <2>4. Revise(a[1], X) \in SUBSET RightItems
    BY <2>3, RevisedRight
  <2>5. QED
    BY <1>1, <1>4, <2>4 DEF DrawnBy
<1>5. QED
  BY <1>3, <1>4

LEMMA DrawingsGrow ==
    ASSUME NEW q \in Seq(Envelopes), NEW e \in Envelopes, NEW g, Drawings(q, g)
    PROVE  \E h : Drawings(Append(q, e), h) /\ \A k \in 0 .. Len(q) : h[k] = g[k]
<1>1. PICK r, n : r = Append(q, e) /\ n = Len(q)
  OBVIOUS
<1>2. n \in Nat /\ Len(r) = n + 1 /\ r[n + 1] = e /\ \A i \in 1 .. n : r[i] = q[i]
  BY <1>1
<1>3. PICK X : X = DrawnBy(e, n, g[n])
  OBVIOUS
<1>4. PICK h : h = [k \in 0 .. n + 1 |-> IF k = n + 1 THEN X ELSE g[k]]
  OBVIOUS
<1>5. h[n + 1] = X /\ \A k \in 0 .. n : h[k] = g[k]
  BY <1>2, <1>4
<1>6. /\ g[0] = {} /\ \A k \in 0 .. n : g[k] \in SUBSET RightItems
      /\ \A k \in 1 .. n : g[k] = DrawnBy(q[k], k - 1, g[k - 1])
  BY <1>1 DEF Drawings
<1>7. X \in SUBSET RightItems
  <2>1. g[n] \in SUBSET RightItems
    BY <1>2, <1>6
  <2>2. QED
    BY <1>2, <1>3, <2>1, DrawnByRight
<1>8. ASSUME NEW k \in 1 .. n + 1 PROVE h[k] = DrawnBy(r[k], k - 1, h[k - 1])
  <2>1. CASE k = n + 1
    <3>1. k - 1 = n /\ h[n] = g[n] /\ r[k] = e /\ h[k] = X
      BY <1>2, <1>5, <2>1
    <3>2. QED
      BY <1>3, <3>1
  <2>2. CASE k # n + 1
    <3>1. k \in 1 .. n /\ k \in 0 .. n /\ k - 1 \in 0 .. n
      BY <1>2, <2>2
    <3>2. h[k] = g[k] /\ h[k - 1] = g[k - 1] /\ r[k] = q[k]
      BY <1>2, <1>5, <3>1
    <3>3. QED
      BY <1>6, <3>1, <3>2
  <2>3. QED
    BY <2>1, <2>2
<1>9. \A k \in 0 .. n + 1 : h[k] \in SUBSET RightItems
  <2>1. \A k \in 0 .. n + 1 : k = n + 1 \/ k \in 0 .. n
    BY <1>2
  <2>2. QED
    BY <1>5, <1>6, <1>7, <2>1
<1>10. h[0] = {}
  BY <1>2, <1>5, <1>6
<1>11. Drawings(r, h)
  BY <1>2, <1>8, <1>9, <1>10 DEF Drawings
<1>12. QED
  BY <1>1, <1>5, <1>11

(* Envelopes without frames draw nothing. *)
LEMMA DrawingLull ==
    ASSUME NEW q \in Seq(Envelopes), NEW g, Drawings(q, g), NEW n \in Nat, NEW m \in 0 .. Len(q), n <= m,
           \A u \in n .. m - 1 : FramesOf(q, u) = {}
    PROVE  g[m] = g[n]
<1> DEFINE Bad == {k \in n .. m : g[k] # g[n]}
<1>1. ASSUME Bad # {} PROVE FALSE
  <2>1. PICK k \in Bad : \A j \in Bad : k <= j
    <3>1. Bad \in SUBSET Nat
      OBVIOUS
    <3> HIDE DEF Bad
    <3>2. QED
      BY <1>1, <3>1, LeastNatural
  <2>2. k # n /\ k \in n .. m /\ g[k] # g[n]
    BY <2>1
  <2>3. PICK u : u = k - 1
    OBVIOUS
  <2>4. u \in n .. m - 1 /\ u \in n .. m /\ ~(k <= u) /\ k \in 1 .. Len(q) /\ u \in Nat /\ k = u + 1
    BY <2>2, <2>3
  <2>5. g[u] = g[n]
    BY <2>1, <2>4
  <2>6. TranslateRoot(q[k], u) = <<>>
    <3>1. PICK a : a = TranslateRoot(q[k], u)
      OBVIOUS
    <3>2. ToSet(a) = {}
      BY <2>4, <3>1 DEF FramesOf
    <3>3. a \in Seq(Frames)
      <4>1. Rendered(q[k], u, a) /\ q[k] \in Envelopes
        BY <2>4, <3>1, RootFrames
      <4>2. QED
        BY <2>4, <4>1, RenderedFacts
    <3>4. a # <<>> => a[1] \in ToSet(a)
      <4>1. a # <<>> => 1 \in DOMAIN a
        BY <3>3
      <4>2. QED
        BY <4>1 DEF ToSet
    <3>5. QED
      BY <3>1, <3>2, <3>4
  <2>7. g[k] = g[u]
    BY <2>3, <2>4, <2>6 DEF Drawings, DrawnBy
  <2>8. QED
    BY <2>2, <2>5, <2>7
<1>2. m \in n .. m
  OBVIOUS
<1>3. QED
  BY <1>1, <1>2

-----------------------------------------------------------------------------
(* What the client shows, with what is on its way to it *)

(* A frame without a seq speaks of its subtask's stream, and the wrap-up of   *)
(* a cancel has the subtask's card before it.                                *)
Side(q, sl, p, k, n) ==
    p[k].seq = NoSeq =>
        /\ p[k].type \in {"tool_call", "tool_result"} => SubCall(sl, p[k].id)
        /\ p[k].type = "subtask_finished" =>
               /\ p[k].sub = "cancelled" /\ CancelledIn(sl, p[k].id)
               /\ \E s \in 0 .. Len(q) - 1 : /\ q[s + 1] = Env("SubtaskSpawned", p[k].id)
                                             /\ s < n \/ \E j \in DOMAIN p : j < k /\ p[j].seq = s
Sides(q, sl, p, n) == \A k \in DOMAIN p : Side(q, sl, p, k, n)

Shows(q, sl, c, p, g) ==
    /\ Source(q, sl, c.cursor + 1, c)
    /\ Sides(q, sl, p, c.cursor + 1)
    /\ Drawn(sl, Shown(c), g[c.cursor + 1])

LEMMA SameItems ==
    ASSUME NEW c, NEW d, c.items = d.items
    PROVE  /\ Shown(c) = Shown(d)
           /\ \A q, sl, n : Source(q, sl, n, c) <=> Source(q, sl, n, d)
BY DEF Shown, DurableItems, Source, NoTwins

LEMMA ShownRight ==
    ASSUME NEW c \in Convs PROVE Shown(c) \in SUBSET RightItems
<1>1. ASSUME NEW it \in Shown(c) PROVE it \in RightItems
  <2>1. PICK i \in DOMAIN c.items : it = c.items[i]
    BY ShownIs
  <2>2. QED
    BY <2>1 DEF Convs
<1>2. QED
  BY <1>1

LEMMA AppliedItems ==
    ASSUME NEW c \in Convs, NEW f \in Frames, NEW d, d = Apply(c, f)
    PROVE  /\ f.seq # NoSeq /\ ~(f.seq > c.cursor) => d.items = c.items
           /\ f.seq = NoSeq \/ f.seq > c.cursor =>
                  \E b \in Convs : b.items = c.items /\ d.items = FoldItemEvent(b, f).items
<1>0. f.seq \in Int /\ c.cursor \in Int
  BY DEF Frames, Convs
<1>1. PICK b, e : /\ b = IF f.seq = NoSeq THEN c ELSE [c EXCEPT !.cursor = f.seq]
                  /\ e = FoldEvent(c, f)
  OBVIOUS
<1>2. PICK z : z = (e.sending /\ ~e.running /\ e.items = c.items /\ e.outcome = c.outcome)
  OBVIOUS
<1>3. d = [e EXCEPT !.sending = z]
  BY <1>1, <1>2 DEF Apply
<1>4. e \in Convs => d.items = e.items
  BY <1>3 DEF Convs
<1>5. CASE f.seq # NoSeq /\ ~(f.seq > c.cursor)
  <2>1. e = c
    BY <1>0, <1>1, <1>5 DEF FoldEvent
  <2>2. QED
    BY <1>4, <1>5, <2>1
<1>6. CASE f.seq = NoSeq \/ f.seq > c.cursor
  <2>1. b \in Convs /\ b.items = c.items
    BY <1>0, <1>1 DEF Convs
  <2>2. e = FoldItemEvent(b, f)
    BY <1>0, <1>1, <1>6 DEF FoldEvent
  <2>3. e \in Convs
    BY <2>1, <2>2, ItemFolded DEF FoldsTo
  <2>4. d.items = FoldItemEvent(b, f).items
    BY <1>4, <2>2, <2>3
  <2>5. QED
    BY <1>6, <2>1, <2>4
<1>7. QED
  BY <1>5, <1>6

(* The next frame of the stream is the first of its envelope. *)
LEMMA HeadOpens ==
    ASSUME NEW q \in Seq(Envelopes), NEW p \in Seq(Frames), p # <<>>, NEW c \in -1 .. Len(q) - 1,
           NEW on, NEW refd, NEW stage, PipeOf(q, p, c, on, refd, stage),
           NEW f, f = Head(p), f.seq # NoSeq, f.seq > c
    PROVE  /\ f.seq \in 0 .. Len(q) - 1 /\ f \in FramesOf(q, f.seq)
           /\ TranslateRoot(q[f.seq + 1], f.seq) # <<>> /\ TranslateRoot(q[f.seq + 1], f.seq)[1] = f
<1>0. on /\ Complete(q, p, c) /\ Ordered(p) /\ Genuine(q, p, c)
  BY DEF PipeOf
<1>1. f = p[1] /\ 1 \in DOMAIN p /\ \A k \in DOMAIN p : k # 1 => 1 < k
  <2>1. f = p[1] /\ 1 \in DOMAIN p
    BY TailOf
  <2>2. \A k \in DOMAIN p : k # 1 => 1 < k
    OBVIOUS
  <2>3. QED
    BY <2>1, <2>2
<1>2. PICK s : s = f.seq
  OBVIOUS
<1>3. s \in 0 .. Len(q) - 1 /\ f \in FramesOf(q, s)
  BY <1>0, <1>1, <1>2 DEF Genuine, GenuineFrame
<1>4. PICK a, e : a = TranslateRoot(q[s + 1], s) /\ e = q[s + 1]
  OBVIOUS
<1>5. Rendered(e, s, a) /\ f \in ToSet(a)
  <2>1. e \in Envelopes /\ s \in Int
    BY <1>3, <1>4, FrameOf
  <2>2. QED
    BY <1>3, <1>4, <2>1, RootFrames DEF FramesOf
<1>6. ASSUME NEW h \in Frames, a = <<h>> PROVE a # <<>> /\ a[1] = f
  <2>1. DOMAIN a = {1} /\ a[1] = h
    BY <1>6
  <2>2. QED
    BY <1>5, <2>1 DEF ToSet
<1>7. ASSUME NEW h \in Frames, NEW i \in Frames, a = <<h, i>>, h.seq = s, h.type = "error",
             i.type = "turn_finished"
      PROVE  a # <<>> /\ a[1] = f
  <2>1. DOMAIN a = {1, 2} /\ a[1] = h /\ a[2] = i /\ a # <<>>
    BY <1>7
  <2>2. f = h \/ f = i
    BY <1>5, <2>1 DEF ToSet
  <2>3. f # i
    <3> SUFFICES ASSUME f = i PROVE FALSE
      OBVIOUS
    <3>1. h \in FramesOf(q, s)
      BY <1>4, <2>1 DEF FramesOf, ToSet
    <3>2. s \in c + 1 .. Len(q) - 1
      BY <1>2, <1>3
    <3>3. h \in ToSet(p)
      BY <1>0, <3>1, <3>2 DEF Complete
    <3>4. PICK k \in DOMAIN p : h = p[k]
      BY <3>3 DEF ToSet
    <3>5. k # 1
      BY <1>1, <1>7, <3>4
    <3>6. 1 < k /\ p[1].seq = s /\ p[k].seq = s /\ s # NoSeq
      BY <1>1, <1>2, <1>7, <3>4, <3>5
    <3>7. p[1].type = "error"
      BY <1>0, <1>1, <1>3, <3>6 DEF Ordered
    <3>8. QED
      BY <1>1, <1>7, <3>7
  <2>4. QED
    BY <2>1, <2>2, <2>3
<1>8. a # <<>>
  BY <1>5 DEF ToSet
<1>9. QED
  BY <1>2, <1>3, <1>4, <1>5, <1>6, <1>7, <1>8 DEF Rendered

LEMMA SidesTail ==
    ASSUME NEW q \in Seq(Envelopes), NEW sl, NEW p \in Seq(Frames), p # <<>>, NEW c \in Int,
           Sides(q, sl, p, c + 1), Genuine(q, p, c)
    PROVE  Sides(q, sl, Tail(p), CursorAfter(c, Head(p)) + 1)
<1>1. PICK f, t, d : f = Head(p) /\ t = Tail(p) /\ d = CursorAfter(c, f)
  OBVIOUS
<1>2. /\ f = p[1] /\ 1 \in DOMAIN p /\ f \in Frames
      /\ \A k \in DOMAIN t : k \in Nat /\ k > 0 /\ k + 1 \in DOMAIN p /\ t[k] = p[k + 1]
      /\ \A k \in DOMAIN p : k # 1 => k \in Nat /\ k - 1 \in DOMAIN t /\ t[k - 1] = p[k]
  BY <1>1, TailOf
<1>3. f.seq \in Int
  BY <1>2 DEF Frames
<1>4. d \in Int /\ d >= c /\ (f.seq # NoSeq => f.seq <= d)
  BY <1>1, <1>3 DEF CursorAfter
<1>5. ASSUME NEW k \in DOMAIN t PROVE Side(q, sl, t, k, d + 1)
  <2>1. Side(q, sl, p, k + 1, c + 1) /\ t[k] = p[k + 1] /\ k \in Nat
    BY <1>2 DEF Sides
  <2>2. ASSUME NEW s \in 0 .. Len(q) - 1, s < c + 1 \/ \E j \in DOMAIN p : j < k + 1 /\ p[j].seq = s
        PROVE  s < d + 1 \/ \E j \in DOMAIN t : j < k /\ t[j].seq = s
    <3>1. CASE s < c + 1
      BY <1>4, <3>1
    <3>2. CASE \E j \in DOMAIN p : j < k + 1 /\ p[j].seq = s
      <4>1. PICK j \in DOMAIN p : j < k + 1 /\ p[j].seq = s
        BY <3>2
      <4>2. CASE j = 1
        <5>1. s <= d
          BY <1>2, <1>4, <4>1, <4>2 DEF NoSeq
        <5>2. QED
          BY <1>4, <5>1
      <4>3. CASE j # 1
        <5>1. j - 1 \in DOMAIN t /\ t[j - 1] = p[j] /\ j - 1 < k
          BY <1>2, <2>1, <4>1, <4>3
        <5>2. QED
          BY <4>1, <5>1
      <4>4. QED
        BY <4>2, <4>3
    <3>3. QED
      BY <2>2, <3>1, <3>2
  <2>3. QED
    BY <2>1, <2>2 DEF Side
<1>6. QED
  BY <1>1, <1>5 DEF Sides

LEMMA ShowsReceived ==
    ASSUME NEW q \in Seq(Envelopes), NEW sl, NEW t, LogOf(q, sl, t), NEW p \in Seq(Frames), p # <<>>,
           NEW c \in Convs, c.cursor \in -1 .. Len(q) - 1, NEW on, NEW stage,
           PipeOf(q, p, c.cursor, on, FALSE, stage), NEW g, Drawings(q, g), Shows(q, sl, c, p, g),
           NEW d, d = Apply(c, Head(p))
    PROVE  Shows(q, sl, d, Tail(p), g)
<1>1. PICK f, n : f = Head(p) /\ n = c.cursor
  OBVIOUS
<1>2. f \in Frames /\ f = p[1] /\ 1 \in DOMAIN p /\ f.seq \in Int /\ DOMAIN p = 1 .. Len(p)
  <2>1. f \in Frames /\ f = p[1] /\ 1 \in DOMAIN p
    BY <1>1, TailOf
  <2>2. QED
    BY <2>1 DEF Frames
<1>3. n \in -1 .. Len(q) - 1 /\ n \in Int /\ n + 1 \in Nat /\ n + 1 \in 0 .. Len(q)
  BY <1>1
<1>4. d \in Convs /\ d.cursor = CursorAfter(n, f)
  BY <1>1, <1>2, Applied
<1>5. Sides(q, sl, Tail(p), d.cursor + 1)
  BY <1>1, <1>3, <1>4, SidesTail DEF Shows, PipeOf
<1>6. Source(q, sl, n + 1, c) /\ Drawn(sl, Shown(c), g[n + 1])
  BY <1>1 DEF Shows
<1>7. \A k \in 0 .. Len(q) : g[k] \in SUBSET RightItems
  BY DEF Drawings
<1>8. CASE f.seq # NoSeq /\ ~(f.seq > n)
  <2>1. d.items = c.items /\ d.cursor = n
    BY <1>1, <1>2, <1>4, <1>8, AppliedItems DEF CursorAfter
  <2>2. Source(q, sl, n + 1, d) /\ Shown(d) = Shown(c)
    BY <1>6, <2>1, SameItems
  <2>3. QED
    BY <1>5, <1>6, <2>1, <2>2 DEF Shows
<1>9. CASE f.seq = NoSeq
  <2>1. d.cursor = n
    BY <1>4, <1>9 DEF CursorAfter
  <2>2. PICK b \in Convs : b.items = c.items /\ d.items = FoldItemEvent(b, f).items
    BY <1>1, <1>2, <1>9, AppliedItems
  <2>3. PICK e : e = FoldItemEvent(b, f)
    OBVIOUS
  <2>4. Source(q, sl, n + 1, b) /\ Drawn(sl, Shown(b), g[n + 1])
    <3>1. Shown(b) = Shown(c) /\ (Source(q, sl, n + 1, b) <=> Source(q, sl, n + 1, c))
      BY <2>2, SameItems
    <3>2. QED
      BY <1>6, <3>1
  <2>5. SideFrame(q, sl, n + 1, f)
    <3>1. f.type \in {"append", "tool_call", "tool_result", "subtask_finished", "turn_started"}
      <4>1. Aside(p, 1, FALSE, stage)
        BY <1>2 DEF PipeOf, Asides
      <4>2. QED
        BY <1>2, <1>9, <4>1 DEF Aside, AsideTypes
    <3>2. Side(q, sl, p, 1, n + 1)
      BY <1>1, <1>2 DEF Shows, Sides
    <3>3. f.type \in {"tool_call", "tool_result"} => SubCall(sl, f.id)
      BY <1>2, <1>9, <3>2 DEF Side
    <3>4. ASSUME f.type = "subtask_finished"
          PROVE  f.sub = "cancelled" /\ CancelledIn(sl, f.id) /\ Spawned(q, n + 1, f.id)
      <4>1. /\ f.sub = "cancelled" /\ CancelledIn(sl, f.id)
            /\ \E s \in 0 .. Len(q) - 1 : /\ q[s + 1] = Env("SubtaskSpawned", f.id)
                                          /\ s < n + 1 \/ \E j \in DOMAIN p : j < 1 /\ p[j].seq = s
        BY <1>2, <1>9, <3>2, <3>4 DEF Side
      <4>2. PICK s \in 0 .. Len(q) - 1 : /\ q[s + 1] = Env("SubtaskSpawned", f.id)
                                         /\ s < n + 1 \/ \E j \in DOMAIN p : j < 1 /\ p[j].seq = s
        BY <4>1
      <4>3. s < n + 1
        BY <1>2, <4>2
      <4>4. s + 1 \in 1 .. n + 1
        BY <1>3, <4>2, <4>3
      <4>5. QED
        BY <4>1, <4>2, <4>4 DEF Spawned
    <3>5. QED
      BY <3>1, <3>3, <3>4 DEF SideFrame
  <2>6. Source(q, sl, n + 1, e)
    BY <1>2, <1>3, <1>9, <2>3, <2>4, <2>5, SideSource
  <2>7. Drawn(sl, Shown(e), g[n + 1])
    <3>1. g[n + 1] \in SUBSET RightItems
      BY <1>3, <1>7
    <3>2. QED
      BY <1>2, <1>3, <1>9, <2>3, <2>4, <2>5, <3>1, DrawnAside
  <2>8. Shown(e) = Shown(d) /\ (Source(q, sl, n + 1, e) <=> Source(q, sl, n + 1, d))
    BY <2>2, <2>3, SameItems
  <2>9. QED
    BY <1>5, <2>1, <2>6, <2>7, <2>8 DEF Shows
<1>10. CASE f.seq # NoSeq /\ f.seq > n
  <2>1. d.cursor = f.seq
    BY <1>4, <1>10 DEF CursorAfter
  <2>2. PICK b \in Convs : b.items = c.items /\ d.items = FoldItemEvent(b, f).items
    BY <1>1, <1>2, <1>10, AppliedItems
  <2>3. PICK e, s : e = FoldItemEvent(b, f) /\ s = f.seq
    OBVIOUS
  <2>4. Source(q, sl, n + 1, b) /\ Drawn(sl, Shown(b), g[n + 1])
    <3>1. Shown(b) = Shown(c) /\ (Source(q, sl, n + 1, b) <=> Source(q, sl, n + 1, c))
      BY <2>2, SameItems
    <3>2. QED
      BY <1>6, <3>1
  <2>5. /\ s \in 0 .. Len(q) - 1 /\ f \in FramesOf(q, s)
        /\ TranslateRoot(q[s + 1], s) # <<>> /\ TranslateRoot(q[s + 1], s)[1] = f
    <3>1. PipeOf(q, p, n, on, FALSE, stage)
      BY <1>1
    <3>2. /\ f.seq \in 0 .. Len(q) - 1 /\ f \in FramesOf(q, f.seq)
          /\ TranslateRoot(q[f.seq + 1], f.seq) # <<>> /\ TranslateRoot(q[f.seq + 1], f.seq)[1] = f
      BY ZenonT(60), <1>1, <1>3, <1>10, <3>1, HeadOpens
    <3>3. QED
      BY <2>3, <3>2
  <2>6. g[s] = g[n + 1]
    <3>1. \A u \in n + 1 .. s - 1 : FramesOf(q, u) = {}
      BY <1>1, <1>3, <1>10, <2>3, LullBefore
    <3>2. s \in 0 .. Len(q) /\ n + 1 <= s
      BY <1>3, <1>10, <2>3, <2>5
    <3>3. QED
      BY <1>3, <3>1, <3>2, DrawingLull
  <2>7. g[s + 1] = Revise(f, g[n + 1])
    <3>1. s + 1 \in 1 .. Len(q) /\ (s + 1) - 1 = s
      BY <2>5
    <3>2. g[s + 1] = DrawnBy(q[s + 1], s, g[s])
      BY <3>1 DEF Drawings
    <3>3. QED
      BY <2>5, <2>6, <3>2 DEF DrawnBy
  <2>8. n + 1 <= s /\ f.seq >= 0
    BY <1>3, <1>10, <2>3, <2>5
  <2>9. /\ Plain(b) /\ Opens(b, f)
        /\ f.type = "subtask_finished" => ~CancelledIn(sl, f.id)
    BY <1>2, <1>3, <2>3, <2>4, <2>5, <2>8, SourceReady
  <2>10. Shown(e) = Revise(f, Shown(b))
    BY <1>2, <2>3, <2>8, <2>9, FoldRevises
  <2>11. Drawn(sl, Shown(e), g[s + 1])
    <3>1. Shown(b) \subseteq RightItems /\ g[n + 1] \subseteq RightItems
      BY <1>3, <1>7, ShownRight
    <3>2. QED
      BY <1>2, <2>4, <2>7, <2>9, <2>10, <3>1, DrawnRevised
  <2>12. Source(q, sl, s + 1, e)
    BY <1>2, <1>3, <2>3, <2>4, <2>5, <2>8, SourceFolded
  <2>13. Shown(e) = Shown(d) /\ (Source(q, sl, s + 1, e) <=> Source(q, sl, s + 1, d))
    BY <2>2, <2>3, SameItems
  <2>14. QED
    BY <1>5, <2>1, <2>3, <2>11, <2>12, <2>13 DEF Shows
<1>11. QED
  BY <1>8, <1>9, <1>10

-----------------------------------------------------------------------------
(* A replay is well formed *)

LEMMA SubFramesSay ==
    ASSUME NEW e \in Envelopes, NEW sub \in Subtasks, NEW f \in ToSet(TranslateSubtask(e, sub))
    PROVE  /\ f.seq = NoSeq
           /\ f.type \in {"tool_call", "tool_result"} =>
                  e.type \in {"ToolCallStarted", "ToolResultRecorded"} /\ f.id = e.id
           /\ f.type = "subtask_finished" => e.type = "TaskCancelled" /\ f.id = sub /\ f.sub = "cancelled"
<1>1. ASSUME NEW t, NEW x, NEW y, TranslateSubtask(e, sub) = <<Frame(NoSeq, t, x, y)>>
      PROVE  f.seq = NoSeq /\ f.type = t /\ f.id = x /\ f.sub = y
  <2>1. PICK h : h = Frame(NoSeq, t, x, y)
    OBVIOUS
  <2>2. DOMAIN <<h>> = {1} /\ <<h>>[1] = h
    OBVIOUS
  <2>3. f = h
    BY <1>1, <2>1, <2>2 DEF ToSet
  <2>4. QED
    BY <2>1, <2>3 DEF Frame
<1>2. CASE e.type = "TaskCancelled"
  <2>1. TranslateSubtask(e, sub) = <<Frame(NoSeq, "subtask_finished", sub, "cancelled")>>
    BY <1>2 DEF TranslateSubtask
  <2>2. f.seq = NoSeq /\ f.type = "subtask_finished" /\ f.id = sub /\ f.sub = "cancelled"
    BY <1>1, <2>1
  <2>3. QED
    BY <1>2, <2>2
<1>3. CASE e.type \in {"ToolCallStarted", "ToolResultRecorded"}
  <2>1. PICK t : t = FrameType[e.type]
    OBVIOUS
  <2>2. TranslateSubtask(e, sub) = <<Frame(NoSeq, t, e.id, sub)>>
    BY <1>3, <2>1 DEF TranslateSubtask
  <2>3. f.seq = NoSeq /\ f.type = t /\ f.id = e.id
    BY <1>1, <2>2
  <2>4. t \in {"tool_call", "tool_result"}
    BY <1>3, <2>1, Vocabulary
  <2>5. QED
    BY <1>3, <2>3, <2>4
<1>4. CASE e.type \notin {"TaskCancelled", "ToolCallStarted", "ToolResultRecorded"}
  <2>1. TranslateSubtask(e, sub) = <<>>
    BY <1>4 DEF TranslateSubtask
  <2>2. QED
    BY <2>1 DEF ToSet
<1>5. QED
  BY <1>2, <1>3, <1>4

LEMMA SubReplaySays ==
    ASSUME sublog \in [Subtasks -> Seq(Envelopes)], LogOf(log, sublog, turn), NEW sub \in Subtasks,
           NEW f \in ToSet(ReplaySubtask(sub))
    PROVE  /\ f.seq = NoSeq
           /\ f.type \in {"tool_call", "tool_result"} => SubCall(sublog, f.id)
           /\ f.type = "subtask_finished" => f.sub = "cancelled" /\ f.id = sub /\ CancelledIn(sublog, sub)
<1>1. PICK q : q = sublog[sub]
  OBVIOUS
<1>2. q \in Seq(Envelopes) /\ DOMAIN q = 1 .. Len(q) /\ Len(q) \in Nat /\ \A i \in DOMAIN q : q[i] \in Envelopes
  BY <1>1
<1>3. PICK ss : ss = [i \in DOMAIN q |-> TranslateSubtask(q[i], sub)]
  OBVIOUS
<1>4. \A i \in DOMAIN q : ss[i] = TranslateSubtask(q[i], sub) /\ ss[i] \in Seq(Frames)
  BY <1>2, <1>3, SubFrames
<1>5. ss \in Seq(Seq(Frames)) /\ Len(ss) = Len(q)
  BY <1>2, <1>3, <1>4
<1>6. JoinOf(ss, Len(ss), FlattenSeq(ss), Frames)
  BY <1>5, Flattened
<1>7. ReplaySubtask(sub) = FlattenSeq(ss)
  BY <1>1, <1>3 DEF ReplaySubtask
<1>8. PICK s : s = FlattenSeq(ss)
  OBVIOUS
<1>9. \A i \in DOMAIN s : \E a \in 1 .. Len(ss) : s[i] \in ToSet(ss[a])
  BY <1>6, <1>8 DEF JoinOf
<1>10. PICK a \in DOMAIN q : f \in ToSet(TranslateSubtask(q[a], sub))
  <2>1. PICK i \in DOMAIN s : f = s[i]
    BY <1>7, <1>8 DEF ToSet
  <2>2. QED
    BY <1>2, <1>4, <1>5, <1>9, <2>1
<1>11. /\ f.seq = NoSeq
       /\ f.type \in {"tool_call", "tool_result"} =>
              q[a].type \in {"ToolCallStarted", "ToolResultRecorded"} /\ f.id = q[a].id
       /\ f.type = "subtask_finished" => q[a].type = "TaskCancelled" /\ f.id = sub /\ f.sub = "cancelled"
  BY <1>2, <1>10, SubFramesSay
<1>12. q[a].type \in {"ToolCallStarted", "ToolResultRecorded"} => SubCall(sublog, q[a].id)
  BY <1>1, <1>10 DEF LogOf
<1>13. q[a].type = "TaskCancelled" => CancelledIn(sublog, sub)
  BY <1>1, <1>10 DEF CancelledIn
<1>14. QED
  BY <1>11, <1>12, <1>13

(* The frames of a subtask stand behind the frame of its spawn. *)
LEMMA PartSays ==
    ASSUME log \in Seq(Envelopes), sublog \in [Subtasks -> Seq(Envelopes)], LogOf(log, sublog, turn),
           NEW s \in 0 .. Len(log) - 1, NEW full, NEW p, p = ReplayEnvelope(s, full)
    PROVE  /\ \A k \in DOMAIN p : p[k].seq = NoSeq =>
                  /\ p[k].type \in {"tool_call", "tool_result"} => SubCall(sublog, p[k].id)
                  /\ p[k].type = "subtask_finished" =>
                         /\ p[k].sub = "cancelled" /\ CancelledIn(sublog, p[k].id)
                         /\ log[s + 1] = Env("SubtaskSpawned", p[k].id)
           /\ \A u, v \in DOMAIN p : u < v /\ p[u].seq = NoSeq => p[v].seq = NoSeq
<1>0. s \in Nat /\ s + 1 \in 1 .. Len(log)
  OBVIOUS
<1>1. PICK e, a, b : /\ e = log[s + 1] /\ a = TranslateRoot(e, s)
                     /\ b = IF full /\ e.type = "SubtaskSpawned" THEN ReplaySubtask(e.id) ELSE <<>>
  OBVIOUS
<1>2. e \in Envelopes /\ (e.type = "SubtaskSpawned" => e.id \in Subtasks)
  <2>1. e \in Envelopes
    BY <1>0, <1>1
  <2>2. QED
    BY <2>1 DEF Envelopes
<1>3. p = a \o b
  BY <1>1 DEF ReplayEnvelope
<1>4. a \in Seq(Frames) /\ \A f \in ToSet(a) : f \in Frames /\ f.seq = s
  <2>1. Rendered(e, s, a) /\ s \in Int
    BY <1>0, <1>1, <1>2, RootFrames
  <2>2. QED
    BY <1>2, <2>1, RenderedFacts
<1>5. /\ b \in Seq(Frames)
      /\ \A f \in ToSet(b) :
             /\ f.seq = NoSeq
             /\ f.type \in {"tool_call", "tool_result"} => SubCall(sublog, f.id)
             /\ f.type = "subtask_finished" =>
                    /\ f.sub = "cancelled" /\ f.id = e.id /\ CancelledIn(sublog, f.id)
                    /\ e.type = "SubtaskSpawned"
  <2>1. CASE full /\ e.type = "SubtaskSpawned"
    BY <1>1, <1>2, <2>1, SubReplay, SubReplaySays
  <2>2. CASE ~(full /\ e.type = "SubtaskSpawned")
    <3>1. b = <<>>
      BY <1>1, <2>2
    <3>2. <<>> \in Seq(Frames) /\ ToSet(<<>>) = {}
      BY DEF ToSet
    <3>3. QED
      BY <3>1, <3>2
  <2>3. QED
    BY <2>1, <2>2
<1>6. \A k \in DOMAIN a : a[k].seq # NoSeq
  BY <1>0, <1>4 DEF ToSet, NoSeq
<1>7. \A k \in DOMAIN b : b[k] \in ToSet(b)
  BY DEF ToSet
<1>8. /\ \A k \in DOMAIN p : \/ k \in DOMAIN a /\ p[k] = a[k]
                             \/ \E i \in DOMAIN b : k = Len(a) + i /\ p[k] = b[i]
      /\ Len(a) \in Nat /\ DOMAIN a = 1 .. Len(a)
      /\ \A i \in DOMAIN b : i \in Nat /\ i > 0
  BY <1>3, <1>4, <1>5, Concat
<1>9. e.type = "SubtaskSpawned" => e = Env("SubtaskSpawned", e.id)
  BY <1>0, <1>1, <1>2 DEF LogOf, Env, Envelopes
<1>10. ASSUME NEW k \in DOMAIN p, p[k].seq = NoSeq
       PROVE  /\ p[k].type \in {"tool_call", "tool_result"} => SubCall(sublog, p[k].id)
              /\ p[k].type = "subtask_finished" =>
                     /\ p[k].sub = "cancelled" /\ CancelledIn(sublog, p[k].id)
                     /\ log[s + 1] = Env("SubtaskSpawned", p[k].id)
  <2>1. p[k] \in ToSet(b)
    BY <1>6, <1>7, <1>8, <1>10
  <2>2. QED
    BY <1>1, <1>5, <1>9, <2>1
<1>11. ASSUME NEW u \in DOMAIN p, NEW v \in DOMAIN p, u < v, p[u].seq = NoSeq PROVE p[v].seq = NoSeq
  <2>1. PICK i \in DOMAIN b : u = Len(a) + i
    BY <1>6, <1>8, <1>11
  <2>2. v \notin DOMAIN a
    BY <1>8, <1>11, <2>1
  <2>3. PICK j \in DOMAIN b : p[v] = b[j]
    BY <1>8, <2>2
  <2>4. QED
    BY <1>5, <1>7, <2>3
<1>12. QED
  BY <1>10, <1>11

LEMMA SidesConcat ==
    ASSUME NEW q, NEW sl, NEW p \in Seq(Frames), NEW a \in Seq(Frames), NEW n, Sides(q, sl, p, n),
           \A i \in DOMAIN a : Side(q, sl, p \o a, Len(p) + i, n)
    PROVE  Sides(q, sl, p \o a, n)
<1>1. PICK s : s = p \o a
  OBVIOUS
<1>2. /\ \A k \in DOMAIN s : \/ k \in DOMAIN p /\ s[k] = p[k]
                             \/ \E i \in DOMAIN a : k = Len(p) + i /\ s[k] = a[i]
      /\ \A k \in DOMAIN p : k \in DOMAIN s /\ s[k] = p[k]
  BY <1>1, Concat
<1>3. ASSUME NEW k \in DOMAIN p PROVE Side(q, sl, s, k, n)
  <2>1. Side(q, sl, p, k, n) /\ s[k] = p[k]
    BY <1>2 DEF Sides
  <2>2. \A j \in DOMAIN p : j \in DOMAIN s /\ s[j] = p[j]
    BY <1>2
  <2>3. QED
    BY <2>1, <2>2 DEF Side
<1>4. \A k \in DOMAIN s : Side(q, sl, s, k, n)
  BY <1>1, <1>2, <1>3
<1>5. QED
  BY <1>1, <1>4 DEF Sides

(* One part behind another. *)
LEMMA SideShifted ==
    ASSUME NEW q, NEW sl, NEW p \in Seq(Frames), NEW a \in Seq(Frames), NEW n, NEW i \in DOMAIN a,
           Side(q, sl, a, i, n)
    PROVE  Side(q, sl, p \o a, Len(p) + i, n)
<1>1. PICK s : s = p \o a
  OBVIOUS
<1>2. \A j \in DOMAIN a : j \in Nat /\ Len(p) + j \in DOMAIN s /\ s[Len(p) + j] = a[j]
  BY <1>1, Concat
<1>3. Len(p) \in Nat
  OBVIOUS
<1>4. \A j \in DOMAIN a : j < i => Len(p) + j < Len(p) + i
  BY <1>2, <1>3
<1>5. s[Len(p) + i] = a[i]
  BY <1>2
<1>6. ASSUME NEW x, \E j \in DOMAIN a : j < i /\ a[j].seq = x
      PROVE  \E j \in DOMAIN s : j < Len(p) + i /\ s[j].seq = x
  <2>1. PICK j \in DOMAIN a : j < i /\ a[j].seq = x
    BY <1>6
  <2>2. Len(p) + j \in DOMAIN s /\ s[Len(p) + j].seq = x /\ Len(p) + j < Len(p) + i
    BY <1>2, <1>4, <2>1
  <2>3. QED
    BY <2>2
<1>7. Side(q, sl, s, Len(p) + i, n)
  BY <1>5, <1>6 DEF Side
<1>8. QED
  BY <1>1, <1>7

LEMMA SidesReplayed ==
    ASSUME log \in Seq(Envelopes), log # <<>>, sublog \in [Subtasks -> Seq(Envelopes)],
           LogOf(log, sublog, turn), NEW c \in -1 .. Len(log) - 1
    PROVE  Sides(log, sublog, Replay(c), c + 1)
<1>0. Len(log) \in Nat /\ Len(log) > 0 /\ c \in Int
  OBVIOUS
<1>1. PICK full, first : full = (c <= 0) /\ first = IF c <= 0 THEN 0 ELSE c + 1
  OBVIOUS
<1>2. PICK pre, ss : /\ pre = IF c <= 0 THEN InheritedPrefix ELSE <<>>
                     /\ ss = [i \in 1 .. Len(log) - first |-> ReplayEnvelope(first + i - 1, full)]
  OBVIOUS
<1>3. Replay(c) = pre \o FlattenSeq(ss)
  <2>1. Replay(c) = (IF c <= 0 THEN InheritedPrefix ELSE <<>>)
                    \o FlattenSeq([i \in 1 .. Len(log) - (IF c <= 0 THEN 0 ELSE c + 1) |->
                                      ReplayEnvelope((IF c <= 0 THEN 0 ELSE c + 1) + i - 1, c <= 0)])
    BY DEF Replay
  <2>2. QED
    BY <1>1, <1>2, <2>1
<1>4. first \in 0 .. Len(log) /\ Len(log) - first \in Nat
  BY <1>0, <1>1
<1>5. PICK n : n = Len(log) - first
  OBVIOUS
<1>6. \A i \in 1 .. n : first + i - 1 \in 0 .. Len(log) - 1 /\ ss[i] = ReplayEnvelope(first + i - 1, full)
  BY <1>0, <1>2, <1>4, <1>5
<1>7. \A i \in 1 .. n : Part(log, first + i - 1, ss[i])
  BY <1>6, EnvelopeReplay
<1>8. \A i \in 1 .. n : ss[i] \in Seq(Frames)
  BY <1>7 DEF Part
<1>9. ss \in Seq(Seq(Frames)) /\ Len(ss) = n /\ n \in Nat
  BY <1>2, <1>4, <1>5, <1>8
<1>10. PICK flat : flat = FlattenSeq(ss)
  OBVIOUS
<1>11. JoinOf(ss, n, flat, Frames)
  BY <1>9, <1>10, Flattened
<1>12. /\ flat \in Seq(Frames)
       /\ \A k \in DOMAIN flat : \E i \in 1 .. n : \E u \in DOMAIN ss[i] : flat[k] = ss[i][u]
       /\ \A i \in 1 .. n : \A x \in ToSet(ss[i]) : x \in ToSet(flat)
       /\ \A j, k \in DOMAIN flat : j < k => Before(ss, n, flat[j], flat[k])
  BY <1>11 DEF JoinOf, ToSet
<1>13. ASSUME NEW k \in DOMAIN flat, flat[k].seq = NoSeq
       PROVE  Side(log, sublog, flat, k, c + 1)
  <2>1. PICK i \in 1 .. n : \E u \in DOMAIN ss[i] : flat[k] = ss[i][u]
    BY <1>12
  <2>2. PICK u \in DOMAIN ss[i] : flat[k] = ss[i][u]
    BY <2>1
  <2>3. PICK s : s = first + i - 1
    OBVIOUS
  <2>4. s \in 0 .. Len(log) - 1 /\ Part(log, s, ss[i]) /\ ss[i] = ReplayEnvelope(s, full)
    BY <1>6, <1>7, <2>3
  <2>5. /\ flat[k].type \in {"tool_call", "tool_result"} => SubCall(sublog, flat[k].id)
        /\ flat[k].type = "subtask_finished" =>
               /\ flat[k].sub = "cancelled" /\ CancelledIn(sublog, flat[k].id)
               /\ log[s + 1] = Env("SubtaskSpawned", flat[k].id)
    BY <1>13, <2>2, <2>4, PartSays
  <2>6. ASSUME flat[k].type = "subtask_finished" PROVE \E j \in DOMAIN flat : j < k /\ flat[j].seq = s
    <3>1. PICK x : x = flat[k].id
      OBVIOUS
    <3>2. CancelledIn(sublog, x) /\ log[s + 1] = Env("SubtaskSpawned", x)
      BY <2>5, <2>6, <3>1
    <3>3. PICK f : f = Frame(s, "subtask_started", x, None)
      OBVIOUS
    <3>4. TranslateRoot(log[s + 1], s) = <<f>>
      BY <3>2, <3>3, Vocabulary DEF TranslateRoot, Env
    <3>5. f \in FramesOf(log, s)
      <4>1. ToSet(<<f>>) = {f}
        BY DEF ToSet
      <4>2. QED
        BY <3>4, <4>1 DEF FramesOf
    <3>6. f \in ToSet(flat)
      BY <1>12, <2>4, <3>5 DEF Part
    <3>7. PICK j \in DOMAIN flat : flat[j] = f
      BY <3>6 DEF ToSet
    <3>8. flat[j].seq = s /\ s # NoSeq
      BY <2>4, <3>3, <3>7 DEF Frame, NoSeq
    <3>9. j # k
      BY <1>13, <3>8
    <3>10. ASSUME k < j PROVE FALSE
      <4>1. Before(ss, n, flat[k], flat[j])
        BY <1>12, <3>10
      <4>2. CASE \E a, b \in 1 .. n : a < b /\ flat[k] \in ToSet(ss[a]) /\ flat[j] \in ToSet(ss[b])
        <5>1. PICK a, b \in 1 .. n : a < b /\ flat[k] \in ToSet(ss[a]) /\ flat[j] \in ToSet(ss[b])
          BY <4>2
        <5>2. PICK v \in DOMAIN ss[a] : flat[k] = ss[a][v]
          BY <5>1 DEF ToSet
        <5>3. PICK r : r = first + a - 1
          OBVIOUS
        <5>4. r \in 0 .. Len(log) - 1 /\ ss[a] = ReplayEnvelope(r, full)
          BY <1>6, <5>3
        <5>5. log[r + 1] = Env("SubtaskSpawned", x)
          BY <1>13, <2>6, <3>1, <5>2, <5>4, PartSays
        <5>6. first + b - 1 = s
          <6>1. Part(log, first + b - 1, ss[b])
            BY <1>7
          <6>2. PICK w \in DOMAIN ss[b] : flat[j] = ss[b][w]
            BY <5>1 DEF ToSet
          <6>3. QED
            BY <3>8, <6>1, <6>2 DEF Part
        <5>7. r + 1 \in 1 .. Len(log) /\ s + 1 \in 1 .. Len(log) /\ r + 1 < s + 1
          BY <1>4, <2>4, <5>1, <5>3, <5>4, <5>6
        <5>8. log[s + 1].type \in Once
          BY <3>2 DEF Once, Env
        <5>9. QED
          BY <3>2, <5>5, <5>7, <5>8 DEF LogOf
      <4>3. CASE \E a \in 1 .. n : \E v, w \in DOMAIN ss[a] : v < w /\ flat[k] = ss[a][v] /\ flat[j] = ss[a][w]
        <5>1. PICK a \in 1 .. n : \E v, w \in DOMAIN ss[a] : v < w /\ flat[k] = ss[a][v] /\ flat[j] = ss[a][w]
          BY <4>3
        <5>2. PICK v, w \in DOMAIN ss[a] : v < w /\ flat[k] = ss[a][v] /\ flat[j] = ss[a][w]
          BY <5>1
        <5>3. PICK r : r = first + a - 1
          OBVIOUS
        <5>4. r \in 0 .. Len(log) - 1 /\ ss[a] = ReplayEnvelope(r, full)
          BY <1>6, <5>3
        <5>5. flat[j].seq = NoSeq
          BY <1>13, <5>2, <5>4, PartSays
        <5>6. QED
          BY <3>8, <5>5
      <4>4. QED
        BY <4>1, <4>2, <4>3 DEF Before
    <3>11. j \in Int /\ k \in Int
      BY <1>12
    <3>12. j < k
      BY <3>9, <3>10, <3>11
    <3>13. QED
      BY <3>8, <3>12
  <2>7. QED
    BY <2>4, <2>5, <2>6 DEF Side
<1>14. \A k \in DOMAIN flat : Side(log, sublog, flat, k, c + 1)
  BY <1>13 DEF Side
<1>15. /\ pre \in Seq(Frames)
       /\ \A k \in DOMAIN pre : pre[k].seq = NoSeq /\ pre[k].type = "append"
  <2>1. <<>> \in Seq(Frames) /\ \A k \in DOMAIN <<>> : FALSE
    OBVIOUS
  <2>2. QED
    BY <1>2, <2>1, Prefixed
<1>16. Sides(log, sublog, pre, c + 1)
  BY <1>15 DEF Sides, Side
<1>17. \A i \in DOMAIN flat : Side(log, sublog, pre \o flat, Len(pre) + i, c + 1)
  BY <1>12, <1>14, <1>15, SideShifted
<1>18. Sides(log, sublog, pre \o flat, c + 1)
  BY <1>12, <1>15, <1>16, <1>17, SidesConcat
<1>19. QED
  BY <1>3, <1>10, <1>18

-----------------------------------------------------------------------------
(* What a reload shows *)

FoldedSoFar(c, fs, h) ==
    h[0] = c /\ \A k \in 1 .. Len(fs) : h[k] = FoldEvent(h[k - 1], fs[k])

LEMMA FoldEventsSteps ==
    ASSUME NEW c, NEW fs \in Seq(Frames)
    PROVE  \E h : FoldedSoFar(c, fs, h) /\ FoldEvents(c, fs) = h[Len(fs)]
<1> DEFINE Step(f, n) == [i \in 0 .. n |-> IF i = 0 THEN c ELSE FoldEvent(f[i - 1], fs[i])]
           Bad == {n \in 0 .. Len(fs) : ~\E f : f = Step(f, n)}
<1>1. ASSUME Bad # {} PROVE FALSE
  <2>1. PICK n \in Bad : \A m \in Bad : n <= m
    <3>1. Bad \in SUBSET Nat
      OBVIOUS
    <3> HIDE DEF Bad
    <3>2. QED
      BY <1>1, <3>1, LeastNatural
  <2>2. n # 0
    <3>1. PICK f : f = [i \in 0 .. 0 |-> c]
      OBVIOUS
    <3>2. f = Step(f, 0)
      BY <3>1
    <3>3. QED
      BY <2>1, <3>2
  <2>3. n - 1 \in 0 .. Len(fs) /\ ~(n <= n - 1)
    BY <2>1, <2>2
  <2>4. PICK g : g = Step(g, n - 1)
    BY <2>1, <2>3
  <2>5. PICK h : h = [i \in 0 .. n |-> IF i < n THEN g[i] ELSE FoldEvent(g[i - 1], fs[i])]
    OBVIOUS
  <2>6. \A i \in 0 .. n - 1 : g[i] = IF i = 0 THEN c ELSE FoldEvent(g[i - 1], fs[i])
    BY <2>4
  <2>7. \A i \in 0 .. n : h[i] = Step(h, n)[i]
    BY <2>2, <2>3, <2>5, <2>6
  <2>8. h = Step(h, n)
    BY <2>5, <2>7
  <2>9. QED
    BY <2>1, <2>8
<1>2. \E f : f = Step(f, Len(fs))
  BY SMTT(30), <1>1
<1>3. PICK f : f = (CHOOSE h : h = Step(h, Len(fs)))
  OBVIOUS
<1>4. f = Step(f, Len(fs))
  BY <1>2, <1>3
<1>5. FoldEvents(c, fs) = f[Len(fs)]
  BY <1>3 DEF FoldEvents
<1>6. FoldedSoFar(c, fs, f)
  <2>1. Len(fs) \in Nat
    OBVIOUS
  <2>2. \A k \in 0 .. Len(fs) : f[k] = Step(f, Len(fs))[k]
    BY <1>4
  <2>3. QED
    BY <2>1, <2>2 DEF FoldedSoFar
<1>7. QED
  BY <1>5, <1>6

(* Without a send under way the store's apply is the fold. *)
LEMMA AppliedStill ==
    ASSUME NEW c \in Convs, NEW f \in Frames, c.sending = FALSE
    PROVE  Apply(c, f) = FoldEvent(c, f) /\ Apply(c, f).sending = FALSE
<1>0. f.seq \in Int /\ c.cursor \in Int
  BY DEF Frames, Convs
<1>1. PICK b, e : /\ b = IF f.seq = NoSeq THEN c ELSE [c EXCEPT !.cursor = f.seq]
                  /\ e = FoldEvent(c, f)
  OBVIOUS
<1>2. b \in Convs /\ b.sending = FALSE
  BY <1>0, <1>1 DEF Convs
<1>3. FoldItemEvent(b, f) \in Convs /\ FoldItemEvent(b, f).sending = FALSE
  <2>1. FoldItemEvent(b, f) \in Convs
    BY <1>2, ItemFolded DEF FoldsTo
  <2>2. QED
    BY <1>2, <2>1, FlagFolded
<1>4. e = c \/ e = FoldItemEvent(b, f)
  BY <1>1 DEF FoldEvent
<1>5. e \in Convs /\ e.sending = FALSE
  BY <1>3, <1>4
<1>6. PICK z : z = (e.sending /\ ~e.running /\ e.items = c.items /\ e.outcome = c.outcome)
  OBVIOUS
<1>7. z = FALSE
  BY <1>5, <1>6
<1>8. Apply(c, f) = [e EXCEPT !.sending = z]
  BY <1>1, <1>6 DEF Apply
<1>9. [e EXCEPT !.sending = FALSE] = e
  BY <1>5 DEF Convs
<1>10. QED
  BY <1>1, <1>5, <1>7, <1>8, <1>9

(* A client with no sends of its own, and the frames it has still to fold. *)
Following(q, sl, c, p, g) ==
    /\ p \in Seq(Frames) /\ ConvOf(q, c, FALSE, "none") /\ c.sending = FALSE
    /\ PipeOf(q, p, c.cursor, TRUE, FALSE, "none")
    /\ Shows(q, sl, c, p, g)

LEMMA FollowStep ==
    ASSUME NEW q \in Seq(Envelopes), NEW sl, NEW t, LogOf(q, sl, t), QuestionsInTurn(q), NEW g, Drawings(q, g),
           NEW c, NEW p, p # <<>>, Following(q, sl, c, p, g), NEW d, d = FoldEvent(c, Head(p))
    PROVE  Following(q, sl, d, Tail(p), g)
<1>1. /\ p \in Seq(Frames) /\ c \in Convs /\ c.cursor \in -1 .. Len(q) - 1 /\ None \notin Questions
      /\ ConvOf(q, c, FALSE, "none") /\ PipeOf(q, p, c.cursor, TRUE, FALSE, "none") /\ Shows(q, sl, c, p, g)
  BY IdsAre DEF Following, ConvOf
<1>2. Head(p) \in Frames /\ Tail(p) \in Seq(Frames)
  BY <1>1, TailOf
<1>3. d = Apply(c, Head(p)) /\ d.sending = FALSE
  BY <1>1, <1>2, AppliedStill DEF Following
<1>4. ConvOf(q, d, FALSE, "none")
  BY <1>1, <1>3, Received
<1>5. d.cursor = CursorAfter(c.cursor, Head(p))
  BY <1>1, <1>2, <1>3, Applied
<1>6. PipeOf(q, Tail(p), d.cursor, TRUE, FALSE, "none")
  <2>1. PICK on, refd, n : on = TRUE /\ refd = FALSE /\ n = c.cursor
    OBVIOUS
  <2>2. PipeOf(q, p, n, on, refd, "none") /\ n \in -1 .. Len(q) - 1
    BY <1>1, <2>1
  <2>3. PipeOf(q, Tail(p), CursorAfter(n, Head(p)), on, refd, "none")
    BY <1>1, <2>2, PipeTail
  <2>4. QED
    BY <1>5, <2>1, <2>3
<1>7. Shows(q, sl, d, Tail(p), g)
  BY <1>1, <1>3, ShowsReceived
<1>8. QED
  BY <1>2, <1>3, <1>4, <1>6, <1>7 DEF Following

(* Before anything is folded. *)
LEMMA NothingShown ==
    ASSUME NEW q \in Seq(Envelopes), q # <<>>, NEW sl, NEW g, Drawings(q, g),
           NEW c, c = InitialConversationState, NEW p \in Seq(Frames), Sides(q, sl, p, 0)
    PROVE  /\ c \in Convs /\ c.cursor = -1 /\ c.sending = FALSE
           /\ ConvOf(q, c, FALSE, "none")
           /\ Shows(q, sl, c, p, g)
<1>1. /\ c \in Convs /\ c.cursor = -1 /\ c.running = FALSE /\ c.question = None
      /\ c.items = <<>> /\ c.sending = FALSE
  <2>1. <<>> \in Seq(RightItems) /\ None \in Ids /\ -1 \in {n \in Int : n < 0}
    BY IdsAre
  <2>2. QED
    BY <2>1 DEF InitialConversationState, Convs, NoSeq
<1>2. c.cursor + 1 = 0 /\ DOMAIN c.items = {} /\ c.cursor \in -1 .. Len(q) - 1
  BY <1>1
<1>3. (\A x : ~Asked(q, 0, x)) /\ ~InTurn(q, 0)
  BY DEF Asked, InTurn
<1>4. RunningRight(q, c, "none") /\ QuestionRight(q, c) /\ Cards(c)
  BY <1>1, <1>2, <1>3 DEF RunningRight, QuestionRight, Cards
<1>5. ConvOf(q, c, FALSE, "none")
  BY <1>1, <1>2, <1>4 DEF ConvOf
<1>6. Source(q, sl, 0, c)
  BY <1>2 DEF Source, NoTwins
<1>7. Shown(c) = {}
  BY <1>2, ShownIs
<1>8. Drawn(sl, Shown(c), g[0])
  BY <1>7 DEF Drawn, Drawings
<1>9. QED
  BY <1>1, <1>2, <1>5, <1>6, <1>8 DEF Shows

LEMMA FreshFollows ==
    ASSUME FoldInv, LogOf(log, sublog, turn), NEW g, Drawings(log, g)
    PROVE  Following(log, sublog, Fresh, <<>>, g)
<1>1. /\ log \in Seq(Envelopes) /\ log # <<>> /\ log[1].type = "TaskCreated"
      /\ sublog \in [Subtasks -> Seq(Envelopes)] /\ QuestionsInTurn(log)
  BY DEF FoldInv, EngineOf
<1>2. PICK c, p : c = InitialConversationState /\ p = Replay(NoSeq)
  OBVIOUS
<1>3. -1 \in -1 .. Len(log) - 1 /\ -1 + 1 = 0 /\ NoSeq = -1
  BY <1>1 DEF NoSeq
<1>4. p \in Seq(Frames) /\ PipeOf(log, p, -1, TRUE, FALSE, "none")
  BY <1>1, <1>2, <1>3, Replayed
<1>5. Sides(log, sublog, p, 0)
  BY <1>1, <1>2, <1>3, SidesReplayed
<1>6. /\ c \in Convs /\ c.cursor = -1 /\ c.sending = FALSE /\ ConvOf(log, c, FALSE, "none")
      /\ Shows(log, sublog, c, p, g)
  BY <1>1, <1>2, <1>4, <1>5, NothingShown
<1>7. Following(log, sublog, c, p, g)
  BY <1>4, <1>6 DEF Following
<1>8. PICK h : FoldedSoFar(c, p, h) /\ FoldEvents(c, p) = h[Len(p)]
  BY <1>4, FoldEventsSteps
<1> DEFINE Rest(k, r) == /\ Len(r) = Len(p) - k /\ \A i \in 1 .. Len(r) : r[i] = p[k + i]
                         /\ Following(log, sublog, h[k], r, g)
           Bad == {k \in 0 .. Len(p) : ~\E r \in Seq(Frames) : Rest(k, r)}
<1>9. Bad = {}
  <2>1. SUFFICES ASSUME Bad # {} PROVE FALSE
    OBVIOUS
  <2>2. PICK n \in Bad : \A m \in Bad : n <= m
    <3>1. Bad \in SUBSET Nat
      BY <1>4
    <3> HIDE DEF Bad
    <3>2. QED
      BY <2>1, <3>1, LeastNatural
  <2>3. n # 0
    <3>1. Len(p) = Len(p) - 0 /\ \A i \in 1 .. Len(p) : p[i] = p[0 + i]
      BY <1>4
    <3>2. h[0] = c
      BY <1>8 DEF FoldedSoFar
    <3>3. Rest(0, p)
      BY <1>7, <3>1, <3>2
    <3>4. QED
      BY <1>4, <2>2, <3>3
  <2>4. n - 1 \in 0 .. Len(p) /\ n \in 1 .. Len(p) /\ ~(n <= n - 1)
    BY <1>4, <2>2, <2>3
  <2>5. n - 1 \notin Bad
    BY <2>2, <2>4
  <2>6. PICK r \in Seq(Frames) : Rest(n - 1, r)
    BY <2>4, <2>5
  <2>7. Len(r) = Len(p) - (n - 1) /\ Len(r) > 0 /\ r # <<>> /\ r[1] = p[(n - 1) + 1] /\ (n - 1) + 1 = n
    BY <1>4, <2>4, <2>6
  <2>8. h[n] = FoldEvent(h[n - 1], p[n])
    BY <1>8, <2>4 DEF FoldedSoFar
  <2>9. Head(r) = p[n] /\ Tail(r) \in Seq(Frames)
    BY <2>7, TailOf
  <2>10. Following(log, sublog, h[n], Tail(r), g)
    <3>1. h[n] = FoldEvent(h[n - 1], Head(r))
      BY <2>8, <2>9
    <3>2. Following(log, sublog, h[n - 1], r, g)
      BY <2>6
    <3> HIDE DEF Bad, Rest
    <3>3. QED
      BY <1>1, <2>7, <3>1, <3>2, FollowStep
  <2>11. Len(Tail(r)) = Len(p) - n /\ \A i \in 1 .. Len(Tail(r)) : Tail(r)[i] = p[n + i]
    <3>1. PICK t : t = Tail(r)
      OBVIOUS
    <3>2. Len(t) = Len(r) - 1 /\ \A i \in 1 .. Len(t) : t[i] = r[i + 1] /\ i + 1 \in 1 .. Len(r)
      BY <2>7, <3>1
    <3>3. \A i \in 1 .. Len(r) : r[i] = p[(n - 1) + i]
      BY <2>6
    <3>4. \A i \in 1 .. Len(t) : (n - 1) + (i + 1) = n + i
      BY <2>4, <3>2
    <3>5. \A i \in 1 .. Len(t) : t[i] = p[n + i]
      BY <3>2, <3>3, <3>4
    <3>6. Len(t) = Len(p) - n
      BY <1>4, <2>4, <2>7, <3>2
    <3>7. QED
      BY <3>1, <3>5, <3>6
  <2>12. Rest(n, Tail(r))
    BY <2>10, <2>11
  <2>13. QED
    BY <2>2, <2>9, <2>12
<1>10. Len(p) \in 0 .. Len(p) /\ Len(p) \notin Bad
  <2>1. Len(p) \in Nat
    BY <1>4
  <2> HIDE DEF Bad
  <2>2. QED
    BY <1>9, <2>1
<1>11. PICK r \in Seq(Frames) : Rest(Len(p), r)
  BY <1>10
<1>12. r = <<>>
  <2>1. Len(r) = Len(p) - Len(p)
    BY <1>11
  <2>2. QED
    BY <1>4, <2>1
<1>13. Fresh = h[Len(p)]
  BY <1>2, <1>8 DEF Fresh
<1>14. QED
  BY <1>11, <1>12, <1>13

-----------------------------------------------------------------------------
(* Caught up, both show what the whole log draws *)

LEMMA ShownAtEnd ==
    ASSUME NEW q \in Seq(Envelopes), q # <<>>, NEW c, NEW on, on, NEW refd, NEW stage, ConvOf(q, c, refd, stage),
           PipeOf(q, <<>>, c.cursor, on, refd, stage), NEW g, Drawings(q, g)
    PROVE  /\ g[c.cursor + 1] = g[Len(q)]
           /\ \A x : Asked(q, Len(q), x) <=> Asked(q, c.cursor + 1, x)
           /\ q[Len(q)].type = "TaskCancelled" => Shut(c)
<1>1. PICK n, m : n = c.cursor + 1 /\ m = Len(q)
  OBVIOUS
<1>2. m \in Nat /\ m > 0 /\ m \in 0 .. m /\ n \in Nat /\ n <= m /\ c.cursor = n - 1 /\ c.cursor \in Int
  BY <1>1 DEF ConvOf
<1>3. ToSet(<<>>) = {}
  BY DEF ToSet
<1>4. ASSUME NEW u \in n .. m - 1 PROVE FramesOf(q, u) = {} /\ Idles(q[u + 1])
  <2>1. u \in c.cursor + 1 .. Len(q) - 1 /\ u \in 0 .. Len(q) - 1
    BY <1>1, <1>2
  <2>2. Complete(q, <<>>, c.cursor)
    BY DEF PipeOf
  <2>3. FramesOf(q, u) \subseteq ToSet(<<>>)
    BY <2>1, <2>2 DEF Complete
  <2>4. QED
    BY <1>3, <2>1, <2>3, FrameOf
<1>5. g[m] = g[n]
  BY <1>1, <1>2, <1>4, DrawingLull
<1>6. ASSUME NEW i \in n + 1 .. m PROVE Idles(q[i])
  <2>1. i - 1 \in n .. m - 1 /\ (i - 1) + 1 = i
    BY <1>2
  <2>2. QED
    BY <1>4, <2>1
<1>7. \A x : Asked(q, m, x) <=> Asked(q, n, x)
  BY <1>1, <1>2, <1>6, Lull
<1>8. ASSUME q[m].type = "TaskCancelled" PROVE Shut(c)
  <2>1. ~Idles(q[m])
    BY <1>8 DEF Idles, Settles, Closes
  <2>2. m \notin n + 1 .. m
    BY <1>6, <2>1
  <2>3. n = m
    BY <1>2, <2>2
  <2>4. c.cursor >= 0 /\ c.cursor + 1 = m
    BY <1>2, <2>3
  <2>5. QED
    BY <1>8, <2>4 DEF ConvOf
<1>9. QED
  BY <1>1, <1>5, <1>7, <1>8

LEMMA DrawnWithin ==
    ASSUME NEW sl, NEW A, NEW B, NEW X, Drawn(sl, A, X), Drawn(sl, B, X),
           NEW y, CancelledIn(sl, y) \/ \A z : ~CancelledIn(sl, z),
           CancelledIn(sl, y) => \A it \in A \cup B : it.status # "running"
    PROVE  A \subseteq B
<1> SUFFICES ASSUME NEW it \in A PROVE it \in B
  OBVIOUS
<1>1. PICK x \in X : Meets(sl, it, x)
  BY DEF Drawn
<1>2. PICK jt \in B : Meets(sl, jt, x)
  BY DEF Drawn
<1>3. CASE it = x /\ jt = x
  BY <1>3
<1>4. CASE ~(it = x /\ jt = x)
  <2>1. x.status = "running" /\ CancelledIn(sl, x.id)
    BY <1>1, <1>2, <1>4 DEF Meets
  <2>2. it # x /\ jt # x
    BY <2>1
  <2>3. it = jt
    BY <1>1, <1>2, <2>2 DEF Meets
  <2>4. QED
    BY <2>3
<1>5. QED
  BY <1>3, <1>4

LEMMA ShutShown ==
    ASSUME NEW c, Shut(c), NEW it \in Shown(c) PROVE it.status # "running"
BY ShownIs DEF Shut

LEMMA RefreshedSame ==
    ASSUME FoldInv, LogOf(log, sublog, turn), NEW g, Drawings(log, g),
           ~refused => Shows(log, sublog, conv, pipe, g)
    PROVE  RefreshSame
<1> SUFFICES ASSUME CaughtUp, ~refused
             PROVE  Shown(conv) = Shown(Fresh) /\ conv.question = Fresh.question
  BY DEF RefreshSame, Shown
<1>1. PICK c : c = Fresh
  OBVIOUS
<1>2. Following(log, sublog, c, <<>>, g)
  BY <1>1, FreshFollows
<1>3. /\ log \in Seq(Envelopes) /\ log # <<>> /\ online /\ pipe = <<>>
      /\ ConvOf(log, conv, refused, post.stage)
      /\ PipeOf(log, <<>>, conv.cursor, online, refused, post.stage)
      /\ Shows(log, sublog, conv, <<>>, g) /\ QuestionsInTurn(log)
  BY DEF FoldInv, EngineOf, CaughtUp
<1>4. PICK X, m : X = g[Len(log)] /\ m = Len(log)
  OBVIOUS
<1>5. /\ Drawn(sublog, Shown(conv), X)
      /\ \A x : Asked(log, m, x) <=> Asked(log, conv.cursor + 1, x)
      /\ log[m].type = "TaskCancelled" => Shut(conv)
  <2>1. /\ g[conv.cursor + 1] = g[Len(log)]
        /\ \A x : Asked(log, Len(log), x) <=> Asked(log, conv.cursor + 1, x)
        /\ log[Len(log)].type = "TaskCancelled" => Shut(conv)
    BY <1>3, ShownAtEnd
  <2>2. QED
    BY <1>3, <1>4, <2>1 DEF Shows
<1>6. /\ Drawn(sublog, Shown(c), X)
      /\ \A x : Asked(log, m, x) <=> Asked(log, c.cursor + 1, x)
      /\ log[m].type = "TaskCancelled" => Shut(c)
  <2>0. PICK on, refd, stage, n : on = TRUE /\ refd = FALSE /\ stage = "none" /\ n = c.cursor
    OBVIOUS
  <2>1. /\ ConvOf(log, c, refd, stage) /\ PipeOf(log, <<>>, c.cursor, on, refd, stage)
        /\ Shows(log, sublog, c, <<>>, g)
    BY <1>2, <2>0 DEF Following
  <2>2. /\ g[c.cursor + 1] = g[Len(log)]
        /\ \A x : Asked(log, Len(log), x) <=> Asked(log, c.cursor + 1, x)
        /\ log[Len(log)].type = "TaskCancelled" => Shut(c)
    BY <1>3, <2>0, <2>1, ShownAtEnd
  <2>3. QED
    BY <1>4, <2>1, <2>2 DEF Shows
<1>7. ASSUME NEW y, CancelledIn(sublog, y) PROVE Shut(conv) /\ Shut(c)
  <2>1. log[m].type = "TaskCancelled"
    BY <1>4, <1>7 DEF LogOf
  <2>2. QED
    BY <1>5, <1>6, <2>1
<1>8. PICK y : CancelledIn(sublog, y) \/ \A z : ~CancelledIn(sublog, z)
  OBVIOUS
<1>9. CancelledIn(sublog, y) => \A it \in Shown(conv) \cup Shown(c) : it.status # "running"
  BY <1>7, ShutShown
<1>10. Shown(conv) \subseteq Shown(c)
  BY <1>5, <1>6, <1>8, <1>9, DrawnWithin
<1>11. Shown(c) \subseteq Shown(conv)
  <2>1. CancelledIn(sublog, y) => \A it \in Shown(c) \cup Shown(conv) : it.status # "running"
    BY <1>9
  <2>2. QED
    BY <1>5, <1>6, <1>8, <2>1, DrawnWithin
<1>12. conv.question = c.question
  <2>1. QuestionRight(log, conv)
    BY <1>3 DEF ConvOf
  <2>2. QuestionRight(log, c)
    BY <1>2 DEF Following, ConvOf
  <2>3. \A x, y1 \in Questions : Asked(log, m, x) /\ Asked(log, m, y1) => x = y1
    BY <1>3, <1>4, OneAsked
  <2>4. None \notin Questions
    BY IdsAre
  <2>5. QED
    BY <1>5, <1>6, <2>1, <2>2, <2>3, <2>4 DEF QuestionRight
<1>13. QED
  BY <1>1, <1>10, <1>11, <1>12

-----------------------------------------------------------------------------
(* The engine commits *)

(* What the log's promises ask of the next envelope. *)
Joins(q, sl, e, t) ==
    /\ e.type # "TaskRewound" => e.at = 0
    /\ e.type \in Once => \A i \in 1 .. Len(q) : q[i] # e
    /\ e.type = "ToolCallStarted" => ~SubCall(sl, e.id)
    /\ e.type = "SubtaskCompleted" => Spawned(q, Len(q), e.id) /\ ~CancelledIn(sl, e.id)
    /\ e.type = "TaskCancelled" => t = "over"

LEMMA LogGrew ==
    ASSUME NEW q \in Seq(Envelopes), q # <<>>, NEW e \in Envelopes, NEW sl, NEW t, LogOf(q, sl, t), t # "over",
           NEW t1, Joins(q, sl, e, t1)
    PROVE  LogOf(Append(q, e), sl, t1)
<1>1. PICK r, n : r = Append(q, e) /\ n = Len(q)
  OBVIOUS
<1>2. /\ n \in Nat /\ n > 0 /\ Len(r) = n + 1 /\ r[n + 1] = e /\ \A i \in 1 .. n : r[i] = q[i]
      /\ \A i \in 1 .. n + 1 : i \in 1 .. n \/ i = n + 1
      /\ n \in 1 .. n
  BY <1>1
<1>3. \A i \in 1 .. n : q[i].type # "TaskCancelled"
  BY <1>1 DEF LogOf
<1>4. \A x : ~CancelledIn(sl, x)
  <2>1. q[n].type # "TaskCancelled"
    BY <1>2, <1>3
  <2>2. QED
    BY <1>1, <2>1 DEF LogOf
<1>5. \A i \in 1 .. n + 1 : r[i].type # "TaskRewound" => r[i].at = 0
  <2>1. \A i \in 1 .. n : q[i].type # "TaskRewound" => q[i].at = 0
    BY <1>1 DEF LogOf
  <2>2. QED
    BY <1>2, <2>1 DEF Joins
<1>6. ASSUME NEW i \in 1 .. n + 1, NEW j \in 1 .. n + 1, i < j, r[j].type \in Once PROVE r[i] # r[j]
  <2>1. i \in 1 .. n /\ r[i] = q[i]
    BY <1>2, <1>6
  <2>2. CASE j \in 1 .. n
    <3>1. r[j] = q[j]
      BY <1>2, <2>2
    <3>2. QED
      BY <1>1, <1>6, <2>1, <2>2, <3>1 DEF LogOf
  <2>3. CASE j = n + 1
    <3>1. r[j] = e /\ e.type \in Once
      BY <1>2, <1>6, <2>3
    <3>2. QED
      BY <1>1, <2>1, <3>1 DEF Joins
  <2>4. QED
    BY <1>2, <2>2, <2>3
<1>7. \A i \in 1 .. n + 1 : r[i].type = "ToolCallStarted" => ~SubCall(sl, r[i].id)
  <2>1. \A i \in 1 .. n : q[i].type = "ToolCallStarted" => ~SubCall(sl, q[i].id)
    BY <1>1 DEF LogOf
  <2>2. QED
    BY <1>2, <2>1 DEF Joins
<1>8. ASSUME NEW i \in 1 .. n + 1, r[i].type = "SubtaskCompleted" PROVE Spawned(r, i - 1, r[i].id)
  <2>1. Spawned(q, i - 1, r[i].id)
    <3>1. CASE i \in 1 .. n
      <4>1. r[i] = q[i]
        BY <1>2, <3>1
      <4>2. QED
        BY <1>1, <1>8, <3>1, <4>1 DEF LogOf
    <3>2. CASE i = n + 1
      <4>1. r[i] = e /\ i - 1 = n
        BY <1>2, <3>2
      <4>2. QED
        BY <1>1, <1>8, <4>1 DEF Joins
    <3>3. QED
      BY <1>2, <3>1, <3>2
  <2>2. \A k \in 1 .. i - 1 : r[k] = q[k]
    BY <1>2
  <2>3. QED
    BY <2>1, <2>2 DEF Spawned
<1>9. ASSUME NEW i \in 1 .. n + 1, r[i].type = "TaskCancelled" PROVE i = n + 1 /\ t1 = "over"
  <2>1. i = n + 1 /\ r[i] = e
    BY <1>2, <1>3, <1>9
  <2>2. QED
    BY <1>9, <2>1 DEF Joins
<1>10. \A x \in Subtasks : \A i \in DOMAIN sl[x] :
           sl[x][i].type \in {"ToolCallStarted", "ToolResultRecorded"} => SubCall(sl, sl[x][i].id)
  BY DEF LogOf
<1>11. LogOf(r, sl, t1)
  BY <1>2, <1>4, <1>5, <1>6, <1>7, <1>8, <1>9, <1>10 DEF LogOf
<1>12. QED
  BY <1>1, <1>11

LEMMA SidesGrew ==
    ASSUME NEW q \in Seq(Envelopes), NEW e \in Envelopes, NEW sl, NEW p \in Seq(Frames), NEW n, Sides(q, sl, p, n)
    PROVE  /\ Sides(Append(q, e), sl, p, n)
           /\ Sides(Append(q, e), sl, p \o TranslateRoot(e, Len(q)), n)
<1>1. PICK r, a : r = Append(q, e) /\ a = TranslateRoot(e, Len(q))
  OBVIOUS
<1>2. Len(q) \in Nat /\ \A s \in 0 .. Len(q) - 1 : s \in 0 .. Len(r) - 1 /\ r[s + 1] = q[s + 1]
  BY <1>1
<1>3. Sides(r, sl, p, n)
  BY <1>2 DEF Sides, Side
<1>4. a \in Seq(Frames) /\ \A f \in ToSet(a) : f.seq = Len(q)
  <2>1. Rendered(e, Len(q), a) /\ Len(q) \in Int
    BY <1>1, <1>2, RootFrames
  <2>2. QED
    BY <2>1, RenderedFacts
<1>5. ASSUME NEW i \in DOMAIN a PROVE Side(r, sl, p \o a, Len(p) + i, n)
  <2>1. (p \o a)[Len(p) + i] = a[i]
    BY <1>4, Concat
  <2>2. a[i].seq # NoSeq
    BY <1>2, <1>4 DEF ToSet, NoSeq
  <2>3. QED
    BY <2>1, <2>2 DEF Side
<1>6. Sides(r, sl, p \o a, n)
  BY <1>3, <1>4, <1>5, SidesConcat
<1>7. QED
  BY <1>1, <1>3, <1>6

(* What the log promises, and what the client shows of it unless a send was  *)
(* refused.                                                                  *)
Pictured(q, sl, t, c, p, refd) ==
    /\ LogOf(q, sl, t)
    /\ \E g : Drawings(q, g) /\ (~refd => Shows(q, sl, c, p, g))

LEMMA PictureGrew ==
    ASSUME NEW q \in Seq(Envelopes), q # <<>>, NEW e \in Envelopes, NEW sl, NEW t, NEW c \in Convs,
           c.cursor \in -1 .. Len(q) - 1, NEW p \in Seq(Frames), NEW refd, Pictured(q, sl, t, c, p, refd),
           t # "over", NEW t1, Joins(q, sl, e, t1)
    PROVE  /\ Pictured(Append(q, e), sl, t1, c, p, refd)
           /\ Pictured(Append(q, e), sl, t1, c, p \o TranslateRoot(e, Len(q)), refd)
<1>1. PICK r, a, n : r = Append(q, e) /\ a = TranslateRoot(e, Len(q)) /\ n = c.cursor + 1
  OBVIOUS
<1>2. LogOf(r, sl, t1)
  BY <1>1, LogGrew DEF Pictured
<1>3. PICK g : Drawings(q, g) /\ (~refd => Shows(q, sl, c, p, g))
  BY DEF Pictured
<1>4. PICK h : Drawings(r, h) /\ \A k \in 0 .. Len(q) : h[k] = g[k]
  BY <1>1, <1>3, DrawingsGrow
<1>5. n \in Nat /\ n \in 0 .. Len(q) /\ \A i \in 1 .. n : r[i] = q[i]
  BY <1>1
<1>6. h[n] = g[n]
  BY <1>4, <1>5
<1>7. ASSUME ~refd PROVE Shows(r, sl, c, p, h) /\ Shows(r, sl, c, p \o a, h)
  <2>1. Source(q, sl, n, c) /\ Sides(q, sl, p, n) /\ Drawn(sl, Shown(c), g[n])
    BY <1>1, <1>3, <1>7 DEF Shows
  <2>2. Source(r, sl, n, c)
    <3>1. n <= n /\ \A x : SubCall(sl, x) => SubCall(sl, x)
      BY <1>5
    <3>2. QED
      BY <1>5, <2>1, <3>1, SourceGrows
  <2>3. Sides(r, sl, p, n) /\ Sides(r, sl, p \o a, n)
    BY <1>1, <2>1, SidesGrew
  <2>4. QED
    BY <1>1, <1>6, <2>1, <2>2, <2>3 DEF Shows
<1>8. QED
  BY <1>1, <1>2, <1>4, <1>7 DEF Pictured

Faithful == Pictured(log, sublog, turn, conv, pipe, refused)

LEMMA PicturedByOne ==
    ASSUME FoldInv, Faithful, NEW e \in Envelopes, Publish(<<e>>), sublog' = sublog, conv' = conv,
           refused' = refused, turn # "over", Joins(log, sublog, e, turn')
    PROVE  Faithful'
<1>1. /\ log \in Seq(Envelopes) /\ log # <<>> /\ conv \in Convs /\ conv.cursor \in -1 .. Len(log) - 1
      /\ pipe \in Seq(Frames)
  BY DEF FoldInv, EngineOf, ConvOf
<1>2. /\ log' = Append(log, e)
      /\ online => pipe' = pipe \o TranslateRoot(e, Len(log))
      /\ ~online => pipe' = pipe
  BY PublishOne
<1>3. /\ Pictured(Append(log, e), sublog, turn', conv, pipe, refused)
      /\ Pictured(Append(log, e), sublog, turn', conv, pipe \o TranslateRoot(e, Len(log)), refused)
  BY <1>1, PictureGrew DEF Faithful
<1>4. Pictured(log', sublog', turn', conv', pipe', refused')
  BY <1>2, <1>3
<1>5. QED
  BY <1>4 DEF Faithful

LEMMA PicturedByTwo ==
    ASSUME FoldInv, Faithful, NEW d \in Envelopes, NEW e \in Envelopes, Publish(<<d, e>>), sublog' = sublog,
           conv' = conv, refused' = refused, turn # "over", Joins(log, sublog, d, turn),
           Joins(Append(log, d), sublog, e, turn')
    PROVE  Faithful'
<1>1. /\ log \in Seq(Envelopes) /\ log # <<>> /\ conv \in Convs /\ conv.cursor \in -1 .. Len(log) - 1
      /\ pipe \in Seq(Frames)
  BY DEF FoldInv, EngineOf, ConvOf
<1>2. PICK r : r = Append(log, d)
  OBVIOUS
<1>3. /\ r \in Seq(Envelopes) /\ r # <<>> /\ Len(r) = Len(log) + 1 /\ conv.cursor \in -1 .. Len(r) - 1
  BY <1>1, <1>2
<1>4. PICK a, b : a = TranslateRoot(d, Len(log)) /\ b = TranslateRoot(e, Len(r))
  OBVIOUS
<1>5. /\ log' = Append(r, e)
      /\ online => pipe' = (pipe \o a) \o b /\ pipe \o a \in Seq(Frames)
      /\ ~online => pipe' = pipe
  BY <1>2, <1>3, <1>4, PublishTwo
<1>6. Pictured(r, sublog, turn, conv, pipe, refused) /\ Pictured(r, sublog, turn, conv, pipe \o a, refused)
  BY <1>1, <1>2, <1>4, PictureGrew DEF Faithful
<1>7. CASE online
  <2>1. PICK p : p = pipe \o a
    OBVIOUS
  <2>2. p \in Seq(Frames) /\ Pictured(r, sublog, turn, conv, p, refused)
    BY <1>5, <1>6, <1>7, <2>1
  <2>3. Pictured(Append(r, e), sublog, turn', conv, p \o b, refused)
    BY <1>1, <1>2, <1>3, <1>4, <2>2, PictureGrew
  <2>4. Pictured(log', sublog', turn', conv', pipe', refused')
    BY <1>5, <1>7, <2>1, <2>3
  <2>5. QED
    BY <2>4 DEF Faithful
<1>8. CASE ~online
  <2>1. Pictured(Append(r, e), sublog, turn', conv, pipe, refused)
    BY <1>1, <1>2, <1>3, <1>6, PictureGrew
  <2>2. Pictured(log', sublog', turn', conv', pipe', refused')
    BY <1>5, <1>8, <2>1
  <2>3. QED
    BY <2>2 DEF Faithful
<1>9. QED
  BY <1>7, <1>8

(* Most envelopes promise nothing. *)
LEMMA JoinsPlainly ==
    ASSUME NEW q, NEW sl, NEW t, NEW y, NEW x,
           y \notin Once \cup {"SubtaskCompleted", "TaskCancelled", "TaskRewound"}
    PROVE  Joins(q, sl, Env(y, x), t)
BY DEF Joins, Env, Once

LEMMA NotLogged ==
    ASSUME FoldInv, NEW y, NEW x, ~Logged(y, x)
    PROVE  \A i \in 1 .. Len(log) : log[i] # Env(y, x)
<1>1. DOMAIN log = 1 .. Len(log)
  BY DEF FoldInv
<1>2. QED
  BY <1>1 DEF Logged

LEMMA ProgressPictured ==
    ASSUME FoldInv, Faithful, Progress PROVE Faithful'
<1>0. /\ turn = "running" /\ turn' = turn /\ sublog' = sublog /\ conv' = conv /\ refused' = refused
      /\ turn # "over"
  BY DEF Progress, clientVars
<1>1. ASSUME NEW y \in {"AssistantMessage", "ToolResultRecorded", "TaskStatePatched", "TaskSuspended"}, NEW x \in Ids,
             Publish(<<Env(y, x)>>)
      PROVE  Faithful'
  <2>1. Env(y, x) \in Envelopes
    BY EnvIs DEF EnvelopeTypes
  <2>2. Joins(log, sublog, Env(y, x), turn')
    BY JoinsPlainly DEF Once
  <2>3. QED
    BY <1>0, <1>1, <2>1, <2>2, PicturedByOne
<1>2. CASE Publish(<<Env("AssistantMessage", "answer")>>)
  BY <1>1, <1>2, IdsAre DEF Words
<1>3. CASE \E c \in FreshCalls : Publish(<<Env("ToolCallStarted", c)>>)
  <2>1. PICK c \in FreshCalls : Publish(<<Env("ToolCallStarted", c)>>)
    BY <1>3
  <2>2. PICK e : e = Env("ToolCallStarted", c)
    OBVIOUS
  <2>3. e \in Envelopes /\ e.type = "ToolCallStarted" /\ e.id = c /\ e.at = 0
    BY <2>2, IdsAre, EnvIs DEF EnvelopeTypes, FreshCalls, Env
  <2>4. \A i \in 1 .. Len(log) : log[i] # e
    BY <2>2, NotLogged DEF FreshCalls
  <2>5. ~SubCall(sublog, c)
    BY DEF FreshCalls, SubLogged, SubCall
  <2>6. Joins(log, sublog, e, turn')
    BY <2>3, <2>4, <2>5 DEF Joins
  <2>7. QED
    BY <1>0, <2>1, <2>2, <2>3, <2>6, PicturedByOne
<1>4. CASE \E c \in OpenCalls : Publish(<<Env("ToolResultRecorded", c)>>)
  <2>1. PICK c \in OpenCalls : Publish(<<Env("ToolResultRecorded", c)>>)
    BY <1>4
  <2>2. c \in Ids
    BY IdsAre DEF OpenCalls
  <2>3. QED
    BY <1>1, <2>1, <2>2
<1>5. CASE Publish(<<Env("TaskStatePatched", "todos")>>)
  BY <1>1, <1>5, IdsAre DEF Words
<1>6. CASE \E s \in Subtasks : ~Logged("SubtaskSpawned", s) /\ Publish(<<Env("SubtaskSpawned", s)>>)
  <2>1. PICK s \in Subtasks : ~Logged("SubtaskSpawned", s) /\ Publish(<<Env("SubtaskSpawned", s)>>)
    BY <1>6
  <2>2. PICK e : e = Env("SubtaskSpawned", s)
    OBVIOUS
  <2>3. e \in Envelopes /\ e.type = "SubtaskSpawned" /\ e.at = 0
    BY <2>2, IdsAre, EnvIs DEF EnvelopeTypes, Env
  <2>4. \A i \in 1 .. Len(log) : log[i] # e
    BY <2>1, <2>2, NotLogged
  <2>5. Joins(log, sublog, e, turn')
    BY <2>3, <2>4 DEF Joins
  <2>6. QED
    BY <1>0, <2>1, <2>2, <2>3, <2>5, PicturedByOne
<1>7. CASE Publish(<<Env("TaskSuspended", "barrier")>>)
  BY <1>1, <1>7, IdsAre DEF Words
<1>8. QED
  BY <1>2, <1>3, <1>4, <1>5, <1>6, <1>7 DEF Progress

LEMMA DeliverPictured ==
    ASSUME FoldInv, Faithful, Deliver PROVE Faithful'
<1>1. PICK s \in LiveSubtasks : Publish(<<Env("SubtaskCompleted", s)>>)
  BY DEF Deliver
<1>2. PICK e : e = Env("SubtaskCompleted", s)
  OBVIOUS
<1>3. e \in Envelopes /\ e.type = "SubtaskCompleted" /\ e.id = s /\ e.at = 0
  BY <1>2, IdsAre, EnvIs DEF EnvelopeTypes, LiveSubtasks, Env
<1>4. Spawned(log, Len(log), s)
  <2>1. Logged("SubtaskSpawned", s) /\ DOMAIN log = 1 .. Len(log)
    BY DEF LiveSubtasks, FoldInv
  <2>2. QED
    BY <2>1 DEF Logged, Spawned
<1>5. ~CancelledIn(sublog, s)
  BY DEF LiveSubtasks, CancelledSub, CancelledIn
<1>6. Joins(log, sublog, e, turn')
  BY <1>3, <1>4, <1>5 DEF Joins, Once
<1>7. turn # "over" /\ turn' = turn /\ sublog' = sublog /\ conv' = conv /\ refused' = refused
  BY DEF Deliver, clientVars
<1>8. QED
  BY <1>1, <1>2, <1>3, <1>6, <1>7, PicturedByOne

LEMMA AskPictured ==
    ASSUME FoldInv, Faithful, Ask PROVE Faithful'
<1>1. PICK x \in Questions : /\ ~Logged("UserQuestionRequested", x)
                             /\ Publish(<<Env("UserQuestionRequested", x), Env("TaskSuspended", "question")>>)
  BY DEF Ask
<1>2. PICK d, e : d = Env("UserQuestionRequested", x) /\ e = Env("TaskSuspended", "question")
  OBVIOUS
<1>3. d \in Envelopes /\ d.type = "UserQuestionRequested" /\ d.at = 0 /\ e \in Envelopes
  BY <1>2, IdsAre, EnvIs DEF EnvelopeTypes, Words, Env
<1>4. \A i \in 1 .. Len(log) : log[i] # d
  BY <1>1, <1>2, NotLogged
<1>5. Joins(log, sublog, d, turn)
  BY <1>3, <1>4 DEF Joins
<1>6. Joins(Append(log, d), sublog, e, turn')
  BY <1>2, JoinsPlainly DEF Once
<1>7. turn # "over" /\ sublog' = sublog /\ conv' = conv /\ refused' = refused
  BY DEF Ask, clientVars
<1>8. QED
  BY <1>1, <1>2, <1>3, <1>5, <1>6, <1>7, PicturedByTwo

(* Two envelopes that promise nothing. *)
LEMMA PlainTurnPictured ==
    ASSUME FoldInv, Faithful, NEW y \in {"UserQuestionAnswered", "UserQuestionWithdrawn", "UserMessage"},
           NEW z \in {"TaskWoken", "TaskSuspended"}, NEW x \in Ids, NEW w \in Ids,
           Publish(<<Env(y, x), Env(z, w)>>), sublog' = sublog, conv' = conv, refused' = refused, turn # "over"
    PROVE  Faithful'
<1>1. PICK d, e : d = Env(y, x) /\ e = Env(z, w)
  OBVIOUS
<1>2. d \in Envelopes /\ e \in Envelopes
  BY <1>1, EnvIs DEF EnvelopeTypes
<1>3. Joins(log, sublog, d, turn) /\ Joins(Append(log, d), sublog, e, turn')
  BY <1>1, JoinsPlainly DEF Once
<1>4. QED
  BY <1>1, <1>2, <1>3, PicturedByTwo

LEMMA AnswerPictured ==
    ASSUME FoldInv, Faithful, Answer PROVE Faithful'
<1>1. PICK x \in OpenQuestions : Publish(<<Env("UserQuestionAnswered", x), Env("TaskWoken", None)>>)
  BY DEF Answer
<1>2. x \in Ids /\ None \in Ids
  BY IdsAre DEF OpenQuestions
<1>3. turn # "over" /\ sublog' = sublog /\ conv' = conv /\ refused' = refused
  BY DEF Answer, clientVars
<1>4. QED
  BY <1>1, <1>2, <1>3, PlainTurnPictured

LEMMA WithdrawPictured ==
    ASSUME FoldInv, Faithful, Withdraw PROVE Faithful'
<1>1. PICK x \in OpenQuestions :
          Publish(<<Env("UserQuestionWithdrawn", x), Env("TaskSuspended", "interrupted")>>)
  BY DEF Withdraw
<1>2. x \in Ids /\ "interrupted" \in Ids
  BY IdsAre DEF OpenQuestions, Words
<1>3. turn # "over" /\ sublog' = sublog /\ conv' = conv /\ refused' = refused
  BY DEF Withdraw, clientVars
<1>4. QED
  BY <1>1, <1>2, <1>3, PlainTurnPictured

LEMMA OtherSendPictured ==
    ASSUME FoldInv, Faithful, OtherSend PROVE Faithful'
<1>1. PICK x \in Texts : Publish(<<Env("UserMessage", x), Env("TaskWoken", None)>>)
  BY DEF OtherSend
<1>2. x \in Ids /\ None \in Ids
  BY IdsAre
<1>3. turn # "over" /\ sublog' = sublog /\ conv' = conv /\ refused' = refused
  BY DEF OtherSend, clientVars
<1>4. QED
  BY <1>1, <1>2, <1>3, PlainTurnPictured

LEMMA ParkPictured ==
    ASSUME FoldInv, Faithful, Park PROVE Faithful'
<1>1. PICK why \in {"awaiting_input", "interrupted", "turn_failed"} : Publish(<<Env("TaskSuspended", why)>>)
  BY DEF Park
<1>2. why \in Ids
  BY IdsAre DEF Words
<1>3. Env("TaskSuspended", why) \in Envelopes
  BY <1>2, EnvIs DEF EnvelopeTypes
<1>4. Joins(log, sublog, Env("TaskSuspended", why), turn')
  BY JoinsPlainly DEF Once
<1>5. turn # "over" /\ sublog' = sublog /\ conv' = conv /\ refused' = refused
  BY DEF Park, clientVars
<1>6. QED
  BY <1>1, <1>3, <1>4, <1>5, PicturedByOne

LEMMA EndPictured ==
    ASSUME FoldInv, Faithful, End PROVE Faithful'
<1>1. PICK t \in {"TaskCancelled", "TaskFailed", "TaskCompleted"} : Publish(<<Env(t, None)>>)
  BY DEF End
<1>2. PICK e : e = Env(t, None)
  OBVIOUS
<1>3. e \in Envelopes /\ e.type = t /\ e.at = 0
  BY <1>2, IdsAre, EnvIs DEF EnvelopeTypes, Env
<1>4. turn # "over" /\ turn' = "over" /\ sublog' = sublog /\ conv' = conv /\ refused' = refused
  BY DEF End, clientVars
<1>5. Joins(log, sublog, e, turn')
  BY <1>3, <1>4 DEF Joins, Once
<1>6. QED
  BY <1>1, <1>2, <1>3, <1>4, <1>5, PicturedByOne

LEMMA DrainPictured ==
    ASSUME FoldInv, Faithful, Drain PROVE Faithful'
<1>1. PICK x : x = Head(injected)
  OBVIOUS
<1>2. injected \in Seq(Ids) /\ injected # <<>>
  BY DEF FoldInv, Drain
<1>3. x \in Ids
  BY <1>1, <1>2
<1>4. Env("UserMessage", x) \in Envelopes
  BY <1>3, EnvIs DEF EnvelopeTypes
<1>5. Joins(log, sublog, Env("UserMessage", x), turn')
  BY JoinsPlainly DEF Once
<1>6. /\ Publish(<<Env("UserMessage", x)>>)
      /\ turn # "over" /\ sublog' = sublog /\ conv' = conv /\ refused' = refused
  BY <1>1 DEF Drain, clientVars
<1>7. QED
  BY <1>4, <1>5, <1>6, PicturedByOne

LEMMA RewindPictured ==
    ASSUME FoldInv, Faithful, Rewind PROVE Faithful'
<1>1. PICK s \in 0 .. Newest : Publish(<<TaskRewound(s - 1)>>)
  BY DEF Rewind
<1>2. PICK e : e = TaskRewound(s - 1)
  OBVIOUS
<1>3. e \in Envelopes /\ e.type = "TaskRewound"
  BY <1>2, IdsAre DEF TaskRewound, Envelopes, EnvelopeTypes
<1>4. Joins(log, sublog, e, turn')
  BY <1>3 DEF Joins, Once
<1>5. turn # "over" /\ sublog' = sublog /\ conv' = conv /\ refused' = refused
  BY DEF Rewind, clientVars
<1>6. QED
  BY <1>1, <1>2, <1>3, <1>4, <1>5, PicturedByOne

-----------------------------------------------------------------------------
(* A subtask works on *)

Noted(sl, sl1, s, e) ==
    /\ sl \in [Subtasks -> Seq(Envelopes)] /\ s \in Subtasks /\ e \in Envelopes
    /\ sl1 = [sl EXCEPT ![s] = Append(sl[s], e)]

LEMMA NotedSays ==
    ASSUME NEW sl, NEW sl1, NEW s, NEW e, Noted(sl, sl1, s, e)
    PROVE  /\ \A y \in Subtasks : \A i \in DOMAIN sl[y] : i \in DOMAIN sl1[y] /\ sl1[y][i] = sl[y][i]
           /\ \A y \in Subtasks : \A i \in DOMAIN sl1[y] :
                  (i \in DOMAIN sl[y] /\ sl1[y][i] = sl[y][i]) \/ (y = s /\ sl1[y][i] = e)
           /\ \E i \in DOMAIN sl1[s] : sl1[s][i] = e
<1>1. PICK a, b, n : a = sl[s] /\ b = sl1[s] /\ n = Len(a)
  OBVIOUS
<1>2. /\ s \in Subtasks /\ e \in Envelopes /\ a \in Seq(Envelopes) /\ b = Append(a, e)
      /\ \A y \in Subtasks : y # s => sl1[y] = sl[y]
  BY <1>1 DEF Noted
<1>3. /\ n \in Nat /\ DOMAIN a = 1 .. n /\ DOMAIN b = 1 .. n + 1 /\ b[n + 1] = e
      /\ \A i \in 1 .. n : b[i] = a[i]
  BY <1>1, <1>2
<1>4. /\ \A i \in DOMAIN a : i \in DOMAIN b /\ b[i] = a[i]
      /\ \A i \in DOMAIN b : (i \in DOMAIN a /\ b[i] = a[i]) \/ b[i] = e
      /\ \E i \in DOMAIN b : b[i] = e
  BY <1>3
<1>5. QED
  BY <1>1, <1>2, <1>4

LEMMA NotedCalls ==
    ASSUME NEW sl, NEW sl1, NEW s, NEW e, Noted(sl, sl1, s, e)
    PROVE  /\ \A x : SubCall(sl, x) => SubCall(sl1, x)
           /\ \A x : CancelledIn(sl, x) => CancelledIn(sl1, x)
           /\ \A x : SubCall(sl1, x) => SubCall(sl, x) \/ e = Env("ToolCallStarted", x)
           /\ \A x : CancelledIn(sl1, x) => CancelledIn(sl, x) \/ (x = s /\ e.type = "TaskCancelled")
           /\ \A x : e = Env("ToolCallStarted", x) => SubCall(sl1, x)
           /\ e.type = "TaskCancelled" => CancelledIn(sl1, s)
<1>1. /\ \A y \in Subtasks : \A i \in DOMAIN sl[y] : i \in DOMAIN sl1[y] /\ sl1[y][i] = sl[y][i]
      /\ \A y \in Subtasks : \A i \in DOMAIN sl1[y] :
             (i \in DOMAIN sl[y] /\ sl1[y][i] = sl[y][i]) \/ (y = s /\ sl1[y][i] = e)
      /\ \E i \in DOMAIN sl1[s] : sl1[s][i] = e
      /\ s \in Subtasks
  BY NotedSays DEF Noted
<1>2. \A x : SubCall(sl, x) => SubCall(sl1, x)
  BY <1>1 DEF SubCall
<1>3. \A x : CancelledIn(sl, x) => CancelledIn(sl1, x)
  BY <1>1 DEF CancelledIn
<1>4. \A x : SubCall(sl1, x) => SubCall(sl, x) \/ e = Env("ToolCallStarted", x)
  BY <1>1 DEF SubCall
<1>5. \A x : CancelledIn(sl1, x) => CancelledIn(sl, x) \/ (x = s /\ e.type = "TaskCancelled")
  BY <1>1 DEF CancelledIn
<1>6. \A x : e = Env("ToolCallStarted", x) => SubCall(sl1, x)
  BY <1>1 DEF SubCall
<1>7. e.type = "TaskCancelled" => CancelledIn(sl1, s)
  BY <1>1 DEF CancelledIn
<1>8. QED
  BY <1>2, <1>3, <1>4, <1>5, <1>6, <1>7

(* What the log asks of a subtask's next envelope. *)
NoteFits(q, sl, s, e) ==
    /\ e.type = "ToolCallStarted" =>
           /\ e = Env("ToolCallStarted", e.id)
           /\ \A i \in 1 .. Len(q) : q[i].type = "ToolCallStarted" => q[i].id # e.id
    /\ e.type = "ToolResultRecorded" => SubCall(sl, e.id)
    /\ e.type = "TaskCancelled" =>
           /\ q[Len(q)].type = "TaskCancelled"
           /\ \A i \in 1 .. Len(q) : q[i].type = "SubtaskCompleted" => q[i].id # s

LEMMA LogNoted ==
    ASSUME NEW q \in Seq(Envelopes), NEW sl, NEW t, LogOf(q, sl, t), NEW sl1, NEW s, NEW e, Noted(sl, sl1, s, e),
           NoteFits(q, sl, s, e)
    PROVE  LogOf(q, sl1, t)
<1>1. /\ \A x : SubCall(sl, x) => SubCall(sl1, x)
      /\ \A x : CancelledIn(sl, x) => CancelledIn(sl1, x)
      /\ \A x : SubCall(sl1, x) => SubCall(sl, x) \/ e = Env("ToolCallStarted", x)
      /\ \A x : CancelledIn(sl1, x) => CancelledIn(sl, x) \/ (x = s /\ e.type = "TaskCancelled")
      /\ \A x : e = Env("ToolCallStarted", x) => SubCall(sl1, x)
  BY NotedCalls
<1>2. ASSUME NEW i \in 1 .. Len(q), q[i].type = "ToolCallStarted", SubCall(sl1, q[i].id) PROVE FALSE
  <2>1. ~SubCall(sl, q[i].id)
    BY <1>2 DEF LogOf
  <2>2. e = Env("ToolCallStarted", q[i].id)
    BY <1>1, <1>2, <2>1
  <2>3. e.type = "ToolCallStarted" /\ e.id = q[i].id
    BY <2>2 DEF Env
  <2>4. QED
    BY <1>2, <2>3 DEF NoteFits
<1>3. ASSUME NEW i \in 1 .. Len(q), q[i].type = "SubtaskCompleted"
      PROVE  Spawned(q, i - 1, q[i].id) /\ ~CancelledIn(sl1, q[i].id)
  <2>1. Spawned(q, i - 1, q[i].id) /\ ~CancelledIn(sl, q[i].id)
    BY <1>3 DEF LogOf
  <2>2. ~(q[i].id = s /\ e.type = "TaskCancelled")
    BY <1>3 DEF NoteFits
  <2>3. QED
    BY <1>1, <2>1, <2>2
<1>4. \A x : CancelledIn(sl1, x) => q[Len(q)].type = "TaskCancelled"
  BY <1>1 DEF LogOf, NoteFits
<1>5. ASSUME NEW x \in Subtasks, NEW i \in DOMAIN sl1[x],
             sl1[x][i].type \in {"ToolCallStarted", "ToolResultRecorded"}
      PROVE  SubCall(sl1, sl1[x][i].id)
  <2>1. (i \in DOMAIN sl[x] /\ sl1[x][i] = sl[x][i]) \/ (x = s /\ sl1[x][i] = e)
    BY NotedSays
  <2>2. CASE i \in DOMAIN sl[x] /\ sl1[x][i] = sl[x][i]
    <3>1. SubCall(sl, sl[x][i].id)
      BY <1>5, <2>2 DEF LogOf
    <3>2. QED
      BY <1>1, <2>2, <3>1
  <2>3. CASE sl1[x][i] = e
    <3>1. e.type = "ToolCallStarted" => SubCall(sl1, e.id)
      BY <1>1 DEF NoteFits
    <3>2. e.type = "ToolResultRecorded" => SubCall(sl1, e.id)
      BY <1>1 DEF NoteFits
    <3>3. QED
      BY <1>5, <2>3, <3>1, <3>2
  <2>4. QED
    BY <2>1, <2>2, <2>3
<1>6. QED
  BY <1>2, <1>3, <1>4, <1>5 DEF LogOf

(* The wrap-up of a cancel goes out behind the subtask's card. *)
LEMMA NotedSides ==
    ASSUME NEW q \in Seq(Envelopes), NEW sl, NEW sl1, NEW s, NEW e, Noted(sl, sl1, s, e), NoteFits(q, sl, s, e),
           Spawned(q, Len(q), s), NEW p \in Seq(Frames), NEW c \in -1 .. Len(q) - 1, Sides(q, sl, p, c + 1),
           NEW on, on => Complete(q, p, c)
    PROVE  /\ Sides(q, sl1, p, c + 1)
           /\ on => Sides(q, sl1, p \o TranslateSubtask(e, s), c + 1)
<1>0. s \in Subtasks /\ e \in Envelopes /\ Len(q) \in Nat /\ c \in Int
  BY DEF Noted
<1>1. /\ \A x : SubCall(sl, x) => SubCall(sl1, x)
      /\ \A x : CancelledIn(sl, x) => CancelledIn(sl1, x)
      /\ \A x : e = Env("ToolCallStarted", x) => SubCall(sl1, x)
      /\ e.type = "TaskCancelled" => CancelledIn(sl1, s)
  BY NotedCalls
<1>2. Sides(q, sl1, p, c + 1)
  BY <1>1 DEF Sides, Side
<1>3. PICK a, r : a = TranslateSubtask(e, s) /\ r = p \o a
  OBVIOUS
<1>4. a \in Seq(Frames)
  BY <1>0, <1>3, SubFrames
<1>5. PICK i \in 1 .. Len(q) : q[i] = Env("SubtaskSpawned", s)
  BY DEF Spawned
<1>6. PICK u : u = i - 1
  OBVIOUS
<1>7. u \in 0 .. Len(q) - 1 /\ q[u + 1] = Env("SubtaskSpawned", s) /\ u \in Int
  BY <1>0, <1>5, <1>6
<1>8. ASSUME on, ~(u < c + 1) PROVE \E j \in DOMAIN p : p[j].seq = u
  <2>1. PICK f : f = Frame(u, "subtask_started", s, None)
    OBVIOUS
  <2>2. TranslateRoot(q[u + 1], u) = <<f>>
    BY <1>7, <2>1, Vocabulary DEF TranslateRoot, Env
  <2>3. f \in FramesOf(q, u)
    <3>1. ToSet(<<f>>) = {f}
      BY DEF ToSet
    <3>2. QED
      BY <2>2, <3>1 DEF FramesOf
  <2>4. u \in c + 1 .. Len(q) - 1
    BY <1>0, <1>7, <1>8
  <2>5. f \in ToSet(p)
    BY <1>8, <2>3, <2>4 DEF Complete
  <2>6. f.seq = u
    BY <2>1 DEF Frame
  <2>7. QED
    BY <2>5, <2>6 DEF ToSet
<1>9. /\ Len(p) \in Nat /\ DOMAIN p = 1 .. Len(p)
      /\ \A j \in DOMAIN p : j \in DOMAIN r /\ r[j] = p[j]
      /\ \A k \in DOMAIN a : k \in Nat /\ k > 0 /\ Len(p) + k \in DOMAIN r /\ r[Len(p) + k] = a[k]
  <2>1. /\ Len(p) \in Nat /\ DOMAIN p = 1 .. Len(p)
        /\ \A j \in DOMAIN p : j \in DOMAIN r /\ r[j] = p[j]
        /\ \A k \in DOMAIN a : k \in Nat /\ Len(p) + k \in DOMAIN r /\ r[Len(p) + k] = a[k]
    <3>1. r = p \o a
      BY <1>3
    <3>2. QED
      BY <1>4, <3>1, Concat
  <2>2. \A k \in DOMAIN a : k > 0
    BY <1>4
  <2>3. QED
    BY <2>1, <2>2
<1>10. ASSUME on, NEW k \in DOMAIN a PROVE Side(q, sl1, r, Len(p) + k, c + 1)
  <2>1. a[k] \in ToSet(a) /\ r[Len(p) + k] = a[k]
    BY <1>9 DEF ToSet
  <2>2. /\ a[k].type \in {"tool_call", "tool_result"} =>
               e.type \in {"ToolCallStarted", "ToolResultRecorded"} /\ a[k].id = e.id
        /\ a[k].type = "subtask_finished" => e.type = "TaskCancelled" /\ a[k].id = s /\ a[k].sub = "cancelled"
    BY <1>0, <1>3, <2>1, SubFramesSay
  <2>3. a[k].type \in {"tool_call", "tool_result"} => SubCall(sl1, a[k].id)
    BY <1>1, <2>2 DEF NoteFits
  <2>4. u < c + 1 \/ \E j \in DOMAIN r : j < Len(p) + k /\ r[j].seq = u
    <3>1. \A j \in DOMAIN p : j < Len(p) + k
      BY <1>9
    <3>2. QED
      BY <1>8, <1>9, <1>10, <3>1
  <2>5. QED
    BY <1>1, <1>7, <2>1, <2>2, <2>3, <2>4 DEF Side
<1>11. on => Sides(q, sl1, r, c + 1)
  BY <1>2, <1>3, <1>4, <1>10, SidesConcat
<1>12. QED
  BY <1>2, <1>3, <1>11

LEMMA DrawnNoted ==
    ASSUME NEW sl, NEW sl1, \A x : CancelledIn(sl, x) => CancelledIn(sl1, x), NEW A, NEW X, Drawn(sl, A, X)
    PROVE  Drawn(sl1, A, X)
BY DEF Drawn, Meets

LEMMA SubtaskStepPictured ==
    ASSUME FoldInv, Faithful, SubtaskStep PROVE Faithful'
<1>0. /\ log \in Seq(Envelopes) /\ Len(log) \in Nat /\ DOMAIN log = 1 .. Len(log)
      /\ sublog \in [Subtasks -> Seq(Envelopes)] /\ LogOf(log, sublog, turn)
      /\ pipe \in Seq(Frames) /\ conv \in Convs /\ conv.cursor \in -1 .. Len(log) - 1
      /\ online => Complete(log, pipe, conv.cursor)
  BY DEF FoldInv, ConvOf, PipeOf, Faithful, Pictured
<1>1. PICK s \in LiveSubtasks :
          \/ \E x \in FreshCalls : PublishSub(s, Env("ToolCallStarted", x))
          \/ \E x \in Calls : /\ \E i \in DOMAIN sublog[s] : sublog[s][i] = Env("ToolCallStarted", x)
                              /\ PublishSub(s, Env("ToolResultRecorded", x))
          \/ /\ \E i \in DOMAIN log : log[i].type = "TaskCancelled"
             /\ PublishSub(s, Env("TaskCancelled", None))
  BY DEF SubtaskStep
<1>2. s \in Subtasks /\ Logged("SubtaskSpawned", s) /\ ~Logged("SubtaskCompleted", s)
  BY DEF LiveSubtasks
<1>3. ASSUME NEW i \in 1 .. Len(log), log[i].type # "TaskRewound" PROVE log[i] = Env(log[i].type, log[i].id)
  <2>1. PICK e : e = log[i]
    OBVIOUS
  <2>2. e \in Envelopes
    BY <1>0, <2>1
  <2>3. e.at = 0
    BY <1>0, <1>3, <2>1 DEF LogOf
  <2>4. e = Env(e.type, e.id)
    BY <2>2, <2>3 DEF Env, Envelopes
  <2>5. QED
    BY <2>1, <2>4
<1>4. PICK e \in Envelopes : PublishSub(s, e) /\ NoteFits(log, sublog, s, e)
  <2>0. ASSUME NEW t \in {"ToolCallStarted", "ToolResultRecorded", "TaskCancelled"}, NEW x \in Ids
        PROVE  Env(t, x) \in Envelopes /\ Env(t, x).type = t /\ Env(t, x).id = x
    BY EnvIs DEF EnvelopeTypes
  <2>1. CASE \E x \in FreshCalls : PublishSub(s, Env("ToolCallStarted", x))
    <3>1. PICK x \in FreshCalls : PublishSub(s, Env("ToolCallStarted", x))
      BY <2>1
    <3>2. PICK e : e = Env("ToolCallStarted", x)
      OBVIOUS
    <3>3. e \in Envelopes /\ e.type = "ToolCallStarted" /\ e.id = x
      BY <2>0, <3>2, IdsAre DEF FreshCalls
    <3>4. \A i \in 1 .. Len(log) : log[i].type = "ToolCallStarted" => log[i].id # x
      BY <1>0, <1>3 DEF FreshCalls, Logged
    <3>5. NoteFits(log, sublog, s, e)
      BY <3>2, <3>3, <3>4 DEF NoteFits
    <3>6. QED
      BY <3>1, <3>2, <3>3, <3>5
  <2>2. CASE \E x \in Calls : /\ \E i \in DOMAIN sublog[s] : sublog[s][i] = Env("ToolCallStarted", x)
                              /\ PublishSub(s, Env("ToolResultRecorded", x))
    <3>1. PICK x \in Calls : /\ \E i \in DOMAIN sublog[s] : sublog[s][i] = Env("ToolCallStarted", x)
                             /\ PublishSub(s, Env("ToolResultRecorded", x))
      BY <2>2
    <3>2. PICK e : e = Env("ToolResultRecorded", x)
      OBVIOUS
    <3>3. e \in Envelopes /\ e.type = "ToolResultRecorded" /\ e.id = x
      BY <2>0, <3>2, IdsAre
    <3>4. SubCall(sublog, x)
      BY <1>2, <3>1 DEF SubCall
    <3>5. NoteFits(log, sublog, s, e)
      BY <3>3, <3>4 DEF NoteFits
    <3>6. QED
      BY <3>1, <3>2, <3>3, <3>5
  <2>3. CASE /\ \E i \in DOMAIN log : log[i].type = "TaskCancelled"
             /\ PublishSub(s, Env("TaskCancelled", None))
    <3>1. PICK e : e = Env("TaskCancelled", None)
      OBVIOUS
    <3>2. e \in Envelopes /\ e.type = "TaskCancelled"
      BY <2>0, <3>1, IdsAre
    <3>3. log[Len(log)].type = "TaskCancelled"
      BY <1>0, <2>3 DEF LogOf
    <3>4. \A i \in 1 .. Len(log) : log[i].type = "SubtaskCompleted" => log[i].id # s
      BY <1>0, <1>2, <1>3 DEF Logged
    <3>5. NoteFits(log, sublog, s, e)
      BY <3>2, <3>3, <3>4 DEF NoteFits
    <3>6. QED
      BY <2>3, <3>1, <3>2, <3>5
  <2>4. QED
    BY <1>1, <2>1, <2>2, <2>3
<1>5. Noted(sublog, sublog', s, e)
  BY <1>0, <1>2, <1>4 DEF PublishSub, Noted
<1>6. Spawned(log, Len(log), s)
  BY <1>0, <1>2 DEF Logged, Spawned
<1>7. pipe' = IF online THEN pipe \o TranslateSubtask(e, s) ELSE pipe
  BY <1>4 DEF PublishSub, Send
<1>8. log' = log /\ turn' = turn /\ conv' = conv /\ refused' = refused
  BY DEF SubtaskStep, clientVars
<1>9. PICK sl1, p1, n : sl1 = sublog' /\ p1 = pipe' /\ n = conv.cursor
  OBVIOUS
<1>10. LogOf(log, sl1, turn)
  BY <1>0, <1>4, <1>5, <1>9, LogNoted
<1>11. PICK g : Drawings(log, g) /\ (~refused => Shows(log, sublog, conv, pipe, g))
  BY DEF Faithful, Pictured
<1>12. ASSUME ~refused PROVE Shows(log, sl1, conv, p1, g)
  <2>1. Source(log, sublog, n + 1, conv) /\ Sides(log, sublog, pipe, n + 1) /\ Drawn(sublog, Shown(conv), g[n + 1])
    BY <1>9, <1>11, <1>12 DEF Shows
  <2>2. (\A x : SubCall(sublog, x) => SubCall(sl1, x)) /\ \A x : CancelledIn(sublog, x) => CancelledIn(sl1, x)
    BY <1>5, <1>9, NotedCalls
  <2>3. Source(log, sl1, n + 1, conv)
    <3>1. n + 1 \in Nat /\ n + 1 <= n + 1
      BY <1>0, <1>9
    <3>2. QED
      BY <1>0, <2>1, <2>2, <3>1, SourceGrows
  <2>4. Drawn(sl1, Shown(conv), g[n + 1])
    BY <2>1, <2>2, DrawnNoted
  <2>5. /\ Sides(log, sl1, pipe, n + 1)
        /\ online => Sides(log, sl1, pipe \o TranslateSubtask(e, s), n + 1)
    <3>1. n \in -1 .. Len(log) - 1 /\ (online => Complete(log, pipe, n)) /\ Noted(sublog, sl1, s, e)
      BY <1>0, <1>5, <1>9
    <3>2. QED
      BY <1>0, <1>4, <1>6, <2>1, <3>1, NotedSides
  <2>6. Sides(log, sl1, p1, n + 1)
    BY <1>7, <1>9, <2>5
  <2>7. QED
    BY <1>9, <2>3, <2>4, <2>6 DEF Shows
<1>13. Pictured(log', sublog', turn', conv', pipe', refused')
  BY <1>8, <1>9, <1>10, <1>11, <1>12 DEF Pictured
<1>14. QED
  BY <1>13 DEF Faithful

-----------------------------------------------------------------------------
(* The browser's own steps *)

(* The engine does nothing; what the client holds and awaits stays faithful. *)
LEMMA ClientPictured ==
    ASSUME Faithful, NEW c, NEW p,
           \A g : Drawings(log, g) /\ ~refused /\ Shows(log, sublog, conv, pipe, g) => Shows(log, sublog, c, p, g),
           log' = log, sublog' = sublog, turn' = turn, conv' = c, pipe' = p, refused' = refused
    PROVE  Faithful'
<1>1. PICK g : Drawings(log, g) /\ (~refused => Shows(log, sublog, conv, pipe, g))
  BY DEF Faithful, Pictured
<1>2. LogOf(log, sublog, turn)
  BY DEF Faithful, Pictured
<1>3. ~refused => Shows(log, sublog, c, p, g)
  BY <1>1
<1>4. Pictured(log', sublog', turn', conv', pipe', refused')
  BY <1>1, <1>2, <1>3 DEF Pictured
<1>5. QED
  BY <1>4 DEF Faithful

(* Only the frames on their way are others. *)
LEMMA PipePictured ==
    ASSUME Faithful, NEW p,
           ~refused /\ Sides(log, sublog, pipe, conv.cursor + 1) => Sides(log, sublog, p, conv.cursor + 1),
           log' = log, sublog' = sublog, turn' = turn, conv' = conv, pipe' = p, refused' = refused
    PROVE  Faithful'
<1>1. ASSUME NEW g, Drawings(log, g), ~refused, Shows(log, sublog, conv, pipe, g)
      PROVE  Shows(log, sublog, conv, p, g)
  BY <1>1 DEF Shows
<1>2. QED
  BY <1>1, ClientPictured

LEMMA ConnectPictured ==
    ASSUME FoldInv, Faithful, Connect PROVE Faithful'
<1>1. /\ log \in Seq(Envelopes) /\ log # <<>> /\ sublog \in [Subtasks -> Seq(Envelopes)]
      /\ conv.cursor \in -1 .. Len(log) - 1 /\ LogOf(log, sublog, turn)
  BY DEF FoldInv, EngineOf, ConvOf, Faithful, Pictured
<1>2. Sides(log, sublog, Replay(conv.cursor), conv.cursor + 1)
  BY <1>1, SidesReplayed
<1>3. /\ pipe' = Replay(conv.cursor) /\ log' = log /\ sublog' = sublog /\ turn' = turn
      /\ conv' = conv /\ refused' = refused
  BY DEF Connect, engineVars
<1>4. QED
  BY <1>2, <1>3, PipePictured

LEMMA ReceivePictured ==
    ASSUME FoldInv, Faithful, Receive PROVE Faithful'
<1>1. /\ log \in Seq(Envelopes) /\ pipe \in Seq(Frames) /\ pipe # <<>>
      /\ conv \in Convs /\ conv.cursor \in -1 .. Len(log) - 1 /\ LogOf(log, sublog, turn)
      /\ PipeOf(log, pipe, conv.cursor, online, refused, post.stage) /\ refused \in BOOLEAN
  BY DEF FoldInv, Receive, ConvOf, Faithful, Pictured
<1>2. PICK d : d = Apply(conv, Head(pipe))
  OBVIOUS
<1>3. ASSUME NEW g, Drawings(log, g), ~refused, Shows(log, sublog, conv, pipe, g)
      PROVE  Shows(log, sublog, d, Tail(pipe), g)
  <2>1. refused = FALSE
    BY <1>1, <1>3
  <2>2. PipeOf(log, pipe, conv.cursor, online, FALSE, post.stage)
    BY <1>1, <2>1
  <2>3. QED
    BY <1>1, <1>2, <1>3, <2>2, ShowsReceived
<1>4. /\ conv' = d /\ pipe' = Tail(pipe) /\ log' = log /\ sublog' = sublog /\ turn' = turn
      /\ refused' = refused
  BY <1>2 DEF Receive, engineVars
<1>5. QED
  BY <1>3, <1>4, ClientPictured

LEMMA DisconnectPictured ==
    ASSUME FoldInv, Faithful, Disconnect PROVE Faithful'
<1>1. Sides(log, sublog, <<>>, conv.cursor + 1)
  BY DEF Sides
<1>2. /\ pipe' = <<>> /\ log' = log /\ sublog' = sublog /\ turn' = turn
      /\ conv' = conv /\ refused' = refused
  BY DEF Disconnect, engineVars
<1>3. QED
  BY <1>1, <1>2, PipePictured

(* The composer's bubble has a synthetic key. *)
LEMMA DeliverMessagePictured ==
    ASSUME FoldInv, Faithful, DeliverMessage PROVE Faithful'
<1>1. PICK t \in Texts :
          conv' = [conv EXCEPT
                 !.items = Append(conv.items, Item("user", conv.nextKey, t, "pending", None, 0)),
                 !.nextKey = conv.nextKey - 1,
                 !.sending = TRUE]
  BY DEF DeliverMessage
<1>2. PICK c, it : /\ it = Item("user", conv.nextKey, t, "pending", None, 0)
                   /\ c = [conv EXCEPT !.items = Append(conv.items, it),
                                       !.nextKey = conv.nextKey - 1, !.sending = TRUE]
  OBVIOUS
<1>3. /\ conv \in Convs /\ conv.nextKey \in Int /\ conv.nextKey < 0
      /\ t \in Ids /\ None \in Ids /\ conv.cursor \in -1 .. Len(log) - 1 /\ Len(log) \in Nat
  BY IdsAre DEF FoldInv, ConvOf, Convs
<1>4. it \in RightItems /\ it.kind = "user" /\ it.status = "pending" /\ it.key = conv.nextKey
  BY <1>2, <1>3 DEF Item, RightItems, ItemKinds, Statuses
<1>5. c.items = Append(conv.items, it) /\ c.cursor = conv.cursor
  BY <1>2, <1>3 DEF Convs
<1>6. PICK i : i = Len(conv.items) + 1
  OBVIOUS
<1>7. Put(conv, c, i, it) /\ i \notin DOMAIN conv.items
  BY <1>3, <1>4, <1>5, <1>6, AppendPuts
<1>8. Shown(c) = Shown(conv)
  <2>1. i \in DOMAIN conv.items => ~(conv.items[i].key >= 0 /\ conv.items[i].kind \in Kinds)
    BY <1>7
  <2>2. \A x : x \in Shown(c) <=> x \in Shown(conv) \/ (x = it /\ it.key >= 0 /\ it.kind \in Kinds)
    BY ZenonT(30), <1>3, <1>7, <2>1, ShownPut
  <2>3. ~(it.key >= 0)
    BY <1>3, <1>4
  <2>4. QED
    BY <2>2, <2>3
<1>9. PICK n : n = conv.cursor + 1
  OBVIOUS
<1>10. Sourced(log, sublog, n, it)
  <2>1. it.key < n /\ it.key < 0
    BY <1>3, <1>4, <1>9
  <2>2. QED
    BY <1>4, <2>1 DEF Sourced
<1>11. \A j \in DOMAIN conv.items : ~Twins(conv.items[j], it)
  BY <1>4 DEF Twins
<1>12. ASSUME NEW g, Shows(log, sublog, conv, pipe, g) PROVE Shows(log, sublog, c, pipe, g)
  <2>1. Source(log, sublog, n, conv)
    BY <1>9, <1>12 DEF Shows
  <2>2. Source(log, sublog, n, c)
    BY <1>3, <1>7, <1>10, <1>11, <2>1, SourcePut
  <2>3. QED
    BY <1>5, <1>8, <1>9, <1>12, <2>2 DEF Shows
<1>13. /\ pipe' = pipe /\ log' = log /\ sublog' = sublog /\ turn' = turn
       /\ conv' = c /\ refused' = refused
  BY <1>1, <1>2 DEF DeliverMessage, engineVars
<1>14. QED
  BY <1>12, <1>13, ClientPictured

LEMMA SendMessagePictured ==
    ASSUME Faithful, SendMessage PROVE Faithful'
<1>1. UNCHANGED <<log, sublog, turn, conv, pipe, refused>>
  BY DEF SendMessage, engineVars
<1>2. QED
  BY <1>1 DEF Faithful

LEMMA PushTurnStartedPictured ==
    ASSUME FoldInv, Faithful, PushTurnStarted PROVE Faithful'
<1>1. PICK a : a = <<Frame(NoSeq, "turn_started", None, None)>>
  OBVIOUS
<1>2. Frame(NoSeq, "turn_started", None, None) \in Frames
  BY IdsAre DEF Frame, Frames, FrameTypes, NoSeq
<1>3. a \in Seq(Frames) /\ \A k \in DOMAIN a : a[k].type = "turn_started"
  BY <1>1, <1>2 DEF Frame
<1>4. pipe \in Seq(Frames)
  BY DEF FoldInv
<1>5. \A k \in DOMAIN a : (pipe \o a)[Len(pipe) + k] = a[k]
  BY <1>3, <1>4, Concat
<1>6. \A k \in DOMAIN a : Side(log, sublog, pipe \o a, Len(pipe) + k, conv.cursor + 1)
  BY <1>3, <1>5 DEF Side
<1>7. PICK p : p = IF online THEN pipe \o a ELSE pipe
  OBVIOUS
<1>8. Sides(log, sublog, pipe, conv.cursor + 1) => Sides(log, sublog, p, conv.cursor + 1)
  <2>1. Sides(log, sublog, pipe, conv.cursor + 1) => Sides(log, sublog, pipe \o a, conv.cursor + 1)
    BY <1>3, <1>4, <1>6, SidesConcat
  <2>2. QED
    BY <1>7, <2>1
<1>9. /\ pipe' = p /\ log' = log /\ sublog' = sublog /\ turn' = turn
      /\ conv' = conv /\ refused' = refused
  BY <1>1, <1>7 DEF PushTurnStarted, Send, engineVars
<1>10. QED
  BY <1>8, <1>9, PipePictured

LEMMA AcceptPictured ==
    ASSUME FoldInv, Faithful, Accept PROVE Faithful'
<1>1. post.text \in Ids /\ None \in Ids
  BY IdsAre DEF FoldInv
<1>2. sublog' = sublog /\ conv' = conv /\ refused' = refused
  BY DEF Accept
<1>3. CASE turn = "idle" /\ Publish(<<Env("UserMessage", post.text), Env("TaskWoken", None)>>)
  <2>1. turn # "over"
    BY <1>3
  <2>2. QED
    BY <1>1, <1>2, <1>3, <2>1, PlainTurnPictured
<1>4. CASE log' = log /\ turn' = turn /\ pipe' = pipe
  BY <1>2, <1>4 DEF Faithful
<1>5. QED
  BY <1>3, <1>4 DEF Accept

(* A refused send ends the claim. *)
LEMMA RefusePictured ==
    ASSUME Faithful, Refuse PROVE Faithful'
<1>1. log' = log /\ sublog' = sublog /\ turn' = turn /\ refused'
  BY DEF Refuse, engineVars
<1>2. LogOf(log', sublog', turn') /\ \E g : Drawings(log', g)
  BY <1>1 DEF Faithful, Pictured
<1>3. Pictured(log', sublog', turn', conv', pipe', refused')
  BY <1>1, <1>2 DEF Pictured
<1>4. QED
  BY <1>3 DEF Faithful

(* The bubble taken back is no item of the log. *)
LEMMA DropPendingPictured ==
    ASSUME FoldInv, Faithful, DropPending PROVE Faithful'
<1>1. PICK kept : kept = {it \in ToSet(conv.items) :
                             ~(it.key = post.key /\ it.kind = "user" /\ it.status = "pending")}
  OBVIOUS
<1>2. PICK c : c = [conv EXCEPT !.items = Filter(conv.items, kept), !.sending = FALSE]
  OBVIOUS
<1>3. conv \in Convs /\ conv.items \in Seq(RightItems)
  BY DEF FoldInv, ConvOf, Convs
<1>4. PICK s, p, m : s = Filter(conv.items, kept) /\ p = conv.items /\ m = Len(conv.items)
  OBVIOUS
<1>5. KeptOf(p, kept, m, s, RightItems) /\ DOMAIN p = 1 .. m
  BY <1>3, <1>4, Filtered
<1>6. c.items = s /\ c.cursor = conv.cursor
  BY <1>2, <1>3, <1>4 DEF Convs
<1>7. \A i \in DOMAIN s : \E a \in DOMAIN p : s[i] = p[a]
  BY <1>5 DEF KeptOf
<1>8. \A a \in DOMAIN p : p[a] \in kept => \E i \in DOMAIN s : s[i] = p[a]
  BY <1>3, <1>4, <1>5, FilterComplete
<1>9. PICK n : n = conv.cursor + 1
  OBVIOUS
<1>10. ASSUME Source(log, sublog, n, conv) PROVE Shown(c) = Shown(conv)
  <2>1. ASSUME NEW a \in DOMAIN p, p[a].key >= 0 PROVE p[a] \in kept
    <3>1. p[a].kind = "user" /\ p[a].status = "pending" => p[a].key < 0
      BY <1>4, <1>10 DEF Source, Sourced
    <3>2. p[a].key \in Int /\ p[a] \in ToSet(conv.items)
      BY <1>3, <1>4 DEF ToSet, RightItems
    <3>3. QED
      BY <1>1, <2>1, <3>1, <3>2
  <2>2. \A x : x \in Shown(c) <=> \E i \in DOMAIN s : x = s[i] /\ x.key >= 0 /\ x.kind \in Kinds
    BY <1>6, ShownIs
  <2>3. \A x : x \in Shown(conv) <=> \E i \in DOMAIN p : x = p[i] /\ x.key >= 0 /\ x.kind \in Kinds
    BY <1>4, ShownIs
  <2>4. QED
    BY <1>7, <1>8, <2>1, <2>2, <2>3
<1>11. ASSUME NEW g, Shows(log, sublog, conv, pipe, g) PROVE Shows(log, sublog, c, pipe, g)
  <2>1. Source(log, sublog, n, conv)
    BY <1>9, <1>11 DEF Shows
  <2>2. Source(log, sublog, n, c)
    BY <1>3, <1>4, <1>6, <2>1, SourceFiltered
  <2>3. QED
    BY <1>6, <1>9, <1>10, <1>11, <2>1, <2>2 DEF Shows
<1>12. /\ pipe' = pipe /\ log' = log /\ sublog' = sublog /\ turn' = turn
       /\ conv' = c /\ refused' = refused
  BY <1>1, <1>2 DEF DropPending, engineVars
<1>13. QED
  BY <1>11, <1>12, ClientPictured

-----------------------------------------------------------------------------
(* The transcript is the log's *)

LEMMA FaithfulStarts ==
    ASSUME Init PROVE Faithful
<1>1. PICK e, q : e = Env("TaskCreated", None) /\ q = log
  OBVIOUS
<1>2. e \in Envelopes /\ e.type = "TaskCreated" /\ e.at = 0
  BY <1>1, IdsAre, EnvIs DEF EnvelopeTypes, Env
<1>3. /\ q = <<e>> /\ q = Append(<<>>, e) /\ Len(q) = 1 /\ q[1] = e /\ q # <<>>
      /\ q \in Seq(Envelopes)
  BY <1>1, <1>2 DEF Init
<1>4. \A x \in Subtasks : sublog[x] = <<>>
  BY DEF Init
<1>5. (\A x : ~SubCall(sublog, x)) /\ \A x : ~CancelledIn(sublog, x)
  BY <1>4 DEF SubCall, CancelledIn
<1>6. \A i \in 1 .. Len(q) : i = 1 /\ q[i] = e
  BY <1>3
<1>7. LogOf(q, sublog, turn)
  <2>1. \A i, j \in 1 .. Len(q) : ~(i < j)
    BY <1>3
  <2>2. QED
    BY <1>2, <1>4, <1>5, <1>6, <2>1 DEF LogOf
<1>8. PICK g : Drawings(q, g)
  <2>1. PICK h : h = [k \in 0 .. 0 |-> {}]
    OBVIOUS
  <2>2. Drawings(<<>>, h)
    BY <2>1 DEF Drawings
  <2>3. <<>> \in Seq(Envelopes)
    OBVIOUS
  <2>4. \E f : Drawings(Append(<<>>, e), f)
    BY <1>2, <2>2, <2>3, DrawingsGrow
  <2>5. QED
    BY <1>3, <2>4
<1>9. conv = InitialConversationState /\ pipe = <<>> /\ pipe \in Seq(Frames)
  BY DEF Init
<1>10. Sides(q, sublog, pipe, 0)
  BY <1>9 DEF Sides
<1>11. Shows(q, sublog, conv, pipe, g)
  <2>1. PICK c, p : c = conv /\ p = pipe
    OBVIOUS
  <2>2. c = InitialConversationState /\ p \in Seq(Frames) /\ Sides(q, sublog, p, 0)
    BY <1>9, <1>10, <2>1
  <2>3. Shows(q, sublog, c, p, g)
    BY <1>3, <1>8, <2>2, NothingShown
  <2>4. QED
    BY <2>1, <2>3
<1>12. Pictured(q, sublog, turn, conv, pipe, refused)
  BY <1>7, <1>8, <1>11 DEF Pictured
<1>13. QED
  BY <1>1, <1>12 DEF Faithful

LEMMA FaithfulSteps ==
    FoldInv /\ Faithful /\ [Next]_vars => Faithful'
<1> SUFFICES ASSUME FoldInv, Faithful, [Next]_vars PROVE Faithful'
  OBVIOUS
<1>1. CASE Progress
  BY <1>1, ProgressPictured
<1>2. CASE Deliver
  BY <1>2, DeliverPictured
<1>3. CASE Ask
  BY <1>3, AskPictured
<1>4. CASE Answer
  BY <1>4, AnswerPictured
<1>5. CASE Withdraw
  BY <1>5, WithdrawPictured
<1>6. CASE Park
  BY <1>6, ParkPictured
<1>7. CASE End
  BY <1>7, EndPictured
<1>8. CASE Drain
  BY <1>8, DrainPictured
<1>9. CASE OtherSend
  BY <1>9, OtherSendPictured
<1>10. CASE Rewind
  BY <1>10, RewindPictured
<1>11. CASE SubtaskStep
  BY <1>11, SubtaskStepPictured
<1>12. CASE Connect
  BY <1>12, ConnectPictured
<1>13. CASE Receive
  BY <1>13, ReceivePictured
<1>14. CASE Disconnect
  BY <1>14, DisconnectPictured
<1>15. CASE DeliverMessage
  BY <1>15, DeliverMessagePictured
<1>16. CASE SendMessage
  BY <1>16, SendMessagePictured
<1>17. CASE PushTurnStarted
  BY <1>17, PushTurnStartedPictured
<1>18. CASE Accept
  BY <1>18, AcceptPictured
<1>19. CASE Refuse
  BY <1>19, RefusePictured
<1>20. CASE DropPending
  BY <1>20, DropPendingPictured
<1>21. CASE UNCHANGED vars
  BY <1>21 DEF vars, engineVars, Faithful
<1>22. QED
  BY <1>1, <1>2, <1>3, <1>4, <1>5, <1>6, <1>7, <1>8, <1>9, <1>10, <1>11, <1>12, <1>13, <1>14, <1>15,
     <1>16, <1>17, <1>18, <1>19, <1>20, <1>21 DEF Next

(* Whatever the client folded live, resumed over breaks, echoed of its own   *)
(* accepted sends or heard of its subtasks, once it has caught up it shows   *)
(* the durable items and the pending question that a reload re-derives from  *)
(* the log (conversation.ts foldEvent against hub.replay).                   *)
THEOREM RefreshShowsTheSame == Spec => []RefreshSame
<1>1. Init => FoldInv /\ Faithful
  BY FoldStarts, FaithfulStarts
<1>2. FoldInv /\ Faithful /\ [Next]_vars => (FoldInv /\ Faithful)'
  BY FoldSteps, FaithfulSteps
<1>3. FoldInv /\ Faithful => RefreshSame
  <2> SUFFICES ASSUME FoldInv, Faithful PROVE RefreshSame
    OBVIOUS
  <2>1. LogOf(log, sublog, turn)
    BY DEF Faithful, Pictured
  <2>2. PICK g : Drawings(log, g) /\ (~refused => Shows(log, sublog, conv, pipe, g))
    BY DEF Faithful, Pictured
  <2>3. QED
    BY <2>1, <2>2, RefreshedSame
<1>4. QED
  BY <1>1, <1>2, <1>3, PTL DEF Spec

=============================================================================
