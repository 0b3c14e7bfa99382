--------------------------- MODULE InfinityProofs ---------------------------
(***************************************************************************)
(* Proofs about InfinityBase, for any number of positions, any figures and *)
(* images, any number of copies of a report and any length of the queue.   *)
(***************************************************************************)
EXTENDS InfinityBase, ActiveSlotsProofs, FiniteSetTheorems, TLAPS

(***************************************************************************)
(* The place of a slot in a set of slots.                                  *)
(***************************************************************************)
LEMMA SlotsFinite ==
  ASSUME NEW S \in SUBSET Slots
  PROVE  IsFiniteSet(S) /\ Cardinality(S) \in Nat /\ Cardinality(S) <= NumSlots
<1>1. IsFiniteSet(Slots) /\ Cardinality(Slots) = NumSlots
  <2>1. NumSlots \in Nat /\ NumSlots > 0
    BY ActiveSlotsAssumption
  <2>2. IsFiniteSet(0 .. NumSlots - 1)
        /\ Cardinality(0 .. NumSlots - 1)
             = IF 0 > NumSlots - 1 THEN 0 ELSE (NumSlots - 1) - 0 + 1
    BY <2>1, FS_Interval
  <2>. QED  BY <2>1, <2>2 DEF Slots
<1>2. IsFiniteSet(S) /\ Cardinality(S) <= Cardinality(Slots)
  BY <1>1, FS_Subset
<1>. QED  BY <1>1, <1>2, FS_CardinalityType

LEMMA BeforeIsPlace ==
  ASSUME NEW S \in SUBSET Slots, NEW s \in S
  PROVE  /\ Before(S, s) \in 0 .. Cardinality(S) - 1
         /\ \A t \in S : s < t => Before(S, s) < Before(S, t)
<1>. DEFINE below(u) == {t \in S : t < u}
<1>1. \A u : IsFiniteSet(below(u)) /\ Cardinality(below(u)) \in Nat
  BY SlotsFinite
<1>2. Cardinality(below(s)) < Cardinality(S)
  <2>1. s \notin below(s)
    BY DEF Slots
  <2>2. IsFiniteSet(S) /\ below(s) \in SUBSET S /\ below(s) # S
    BY <2>1, SlotsFinite
  <2>. HIDE DEF below
  <2>. QED  BY <1>1, <2>2, FS_Subset, SlotsFinite
<1>3. ASSUME NEW t \in S, s < t
      PROVE  Cardinality(below(s)) < Cardinality(below(t))
  <2>0. \A u \in S : u \in Nat
    BY DEF Slots
  <2>1. below(s) \in SUBSET below(t) /\ s \in below(t) /\ s \notin below(s)
    BY <1>3, <2>0
  <2>. HIDE DEF below
  <2>. QED  BY <1>1, <2>1, FS_Subset
<1>. QED  BY <1>1, <1>2, <1>3, SlotsFinite DEF Before

\* The list of changes has one for each place.
LEMMA ChangesOfType ==
  ASSUME NEW S \in SUBSET Slots, NEW removed \in BOOLEAN
  PROVE  ChangesOf(S, removed) \in Seq(Changes)
<1>. DEFINE N == Cardinality(S)
            place == [s \in S |-> Before(S, s) + 1]
<1>1. IsFiniteSet(S) /\ N \in Nat
  BY SlotsFinite
<1>2. place \in Injection(S, 1 .. N)
  <2>1. \A s \in S : place[s] \in 1 .. N
    BY <1>1, BeforeIsPlace
  <2>2. ASSUME NEW s \in S, NEW t \in S, place[s] = place[t] PROVE s = t
    <3>1. ~(s < t) /\ ~(t < s)
      BY <2>2, <1>1, BeforeIsPlace
    <3>. QED  BY <3>1 DEF Slots
  <2>3. place \in [S -> 1 .. N]
    BY <2>1
  <2>. HIDE DEF place, N
  <2>. QED  BY <2>2, <2>3 DEF Injection, IsInjective
<1>3. IsFiniteSet(1 .. N) /\ Cardinality(1 .. N) = N
  BY <1>1, FS_Interval
<1>4. place \in Surjection(S, 1 .. N)
  BY <1>2, <1>3, FS_Injection
<1>5. ASSUME NEW n \in 1 .. N
      PROVE  Change(CHOOSE s \in S : Before(S, s) = n - 1, removed) \in Changes
  <2>1. PICK s \in S : place[s] = n
    BY <1>4 DEF Surjection
  <2>2. Before(S, s) = n - 1
    BY <2>1, BeforeIsPlace, <1>1
  <2>3. (CHOOSE t \in S : Before(S, t) = n - 1) \in Slots
    BY <2>2
  <2>4. \A t \in Slots : Change(t, removed) \in Changes
    BY DEF Changes
  <2>. QED  BY <2>3, <2>4, Zenon
<1>6. ChangesOf(S, removed) \in [1 .. N -> Changes]
  <2>. HIDE DEF N
  <2>1. ChangesOf(S, removed)
          = [n \in 1 .. N |-> Change(CHOOSE s \in S : Before(S, s) = n - 1, removed)]
    BY DEF ChangesOf, N
  <2>. QED  BY <1>5, <2>1, Zenon
<1>. QED  BY <1>1, <1>6

(***************************************************************************)
(* The report queue.                                                       *)
(***************************************************************************)
\* What ChangesFirst says, of any queue.
Leading(q) ==
  \A m, n \in 1 .. Len(q) : m < n /\ Announces(q[n]) => Announces(q[m])

Queues == {q \in Seq(Reports) : Len(q) <= QueueLen /\ Leading(q)}

LEMMA CopiesType ==
  ASSUME NEW cs \in Seq(Changes)
  PROVE  Copies(cs) \in Seq(Changes)
<1>. DEFINE L == Len(cs)
<1>1. L \in Nat /\ Repeats \in Nat \ {0} /\ Repeats * L \in Nat
  BY InfinityAssumption
<1>2. ASSUME NEW n \in 1 .. Repeats * L
      PROVE  L - (n - 1) \div Repeats \in 1 .. L
  <2>. DEFINE k == (n - 1) \div Repeats
  <2>1. k \in Nat /\ Repeats * k <= n - 1
    <3>1. n - 1 \in Nat /\ Repeats > 0
      BY <1>1
    <3>. QED  BY <1>1, <3>1
  <2>2. k < L
    <3>1. SUFFICES ASSUME k >= L PROVE FALSE
      BY <1>1, <2>1
    <3>2. Repeats * k >= Repeats * L
      BY <1>1, <2>1, <3>1
    <3>. QED  BY <1>1, <2>1, <3>2
  <2>. QED  BY <1>1, <2>1, <2>2
<1>3. \A n \in 1 .. Repeats * L : cs[L - (n - 1) \div Repeats] \in Changes
  BY <1>2
<1>. QED  BY <1>1, <1>3 DEF Copies

\* Whatever is announced, the queue stays in order and within its length.
LEMMA AnnouncedType ==
  ASSUME NEW q \in Queues, NEW cs \in Seq(Changes)
  PROVE  Announced(q, cs) \in Queues
<1>. DEFINE c == Copies(cs)
            a == c \o q
<1>1. c \in Seq(Changes) /\ q \in Seq(Reports) /\ Leading(q)
  BY CopiesType DEF Queues
<1>2. c \in Seq(Reports)
  BY <1>1 DEF Reports
<1>3. \A n \in 1 .. Len(c) : Announces(c[n])
  BY <1>1 DEF Changes, Change, Announces
<1>. HIDE DEF c
<1>4. a \in Seq(Reports) /\ Leading(a)
  BY <1>1, <1>2, <1>3 DEF Leading
<1>. HIDE DEF a
<1>5. Cut(a) \in Seq(Reports) /\ Len(Cut(a)) <= QueueLen /\ Len(Cut(a)) <= Len(a)
      /\ \A n \in 1 .. Len(Cut(a)) : Cut(a)[n] = a[n]
  BY <1>4, InfinityAssumption DEF Cut
<1>6. Leading(Cut(a))
  BY <1>4, <1>5 DEF Leading
<1>. QED  BY <1>5, <1>6 DEF Announced, Queues, a, c

LEMMA PushedType ==
  ASSUME NEW q \in Queues, NEW r \in Reports, ~Announces(r)
  PROVE  Pushed(q, r) \in Queues
<1>1. q \in Seq(Reports) /\ Len(q) <= QueueLen /\ Leading(q)
  BY DEF Queues
<1>2. CASE Len(q) < QueueLen
  <2>. DEFINE p == Append(q, r)
  <2>1. p \in Seq(Reports) /\ Len(p) = Len(q) + 1 /\ p[Len(q) + 1] = r
        /\ \A n \in 1 .. Len(q) : p[n] = q[n]
    BY <1>1
  <2>2. Leading(p)
    <3>. HIDE DEF p
    <3>. QED  BY <1>1, <2>1 DEF Leading
  <2>3. Pushed(q, r) = p
    BY <1>2 DEF Pushed
  <2>4. Len(p) <= QueueLen
    BY <1>1, <1>2, <2>1, InfinityAssumption
  <2>. QED  BY <2>1, <2>2, <2>3, <2>4 DEF Queues
<1>3. CASE Len(q) >= QueueLen
  <2>. DEFINE p == [q EXCEPT ![QueueLen] = r]
  <2>1. p \in Seq(Reports) /\ Len(p) = QueueLen /\ p[QueueLen] = r
        /\ \A n \in 1 .. QueueLen - 1 : p[n] = q[n]
    BY <1>1, <1>3, InfinityAssumption
  <2>2. Leading(p)
    <3>. HIDE DEF p
    <3>1. Len(q) = QueueLen
      BY <1>1, <1>3, InfinityAssumption
    <3>. QED  BY <1>1, <2>1, <3>1, InfinityAssumption DEF Leading
  <2>3. Pushed(q, r) = p
    BY <1>1, <1>3, InfinityAssumption DEF Pushed
  <2>. QED  BY <2>1, <2>2, <2>3, InfinityAssumption DEF Queues
<1>. QED  BY <1>1, <1>2, <1>3, InfinityAssumption

LEMMA TailType ==
  ASSUME NEW q \in Queues, q # <<>>
  PROVE  Tail(q) \in Queues /\ Head(q) \in Reports
<1>1. q \in Seq(Reports) /\ Len(q) <= QueueLen /\ Leading(q) /\ Len(q) > 0
  BY DEF Queues
<1>2. Tail(q) \in Seq(Reports) /\ Len(Tail(q)) = Len(q) - 1
      /\ \A n \in 1 .. Len(q) - 1 : Tail(q)[n] = q[n + 1]
  BY <1>1
<1>3. Leading(Tail(q))
  <2>. DEFINE p == Tail(q)
  <2>1. p \in Seq(Reports) /\ Len(p) = Len(q) - 1
        /\ \A n \in 1 .. Len(q) - 1 : p[n] = q[n + 1]
    BY <1>2
  <2>. HIDE DEF p
  <2>2. ASSUME NEW m \in 1 .. Len(p), NEW n \in 1 .. Len(p), m < n, Announces(p[n])
        PROVE  Announces(p[m])
    <3>1. m + 1 \in 1 .. Len(q) /\ n + 1 \in 1 .. Len(q) /\ m + 1 < n + 1
      BY <1>1, <2>1, <2>2
    <3>2. p[n] = q[n + 1] /\ p[m] = q[m + 1]
      BY <1>1, <2>1
    <3>. QED  BY <1>1, <2>2, <3>1, <3>2 DEF Leading
  <2>3. Leading(p)
    BY <2>2 DEF Leading
  <2>. QED  BY <2>3 DEF p
<1>4. Head(q) \in Reports /\ Len(Tail(q)) <= QueueLen
  BY <1>1, <1>2, InfinityAssumption
<1>. QED  BY <1>2, <1>3, <1>4 DEF Queues

(***************************************************************************)
(* The inductive invariant.                                                *)
(***************************************************************************)
\* Orders are given out one after the other, so that the next is a new one.
OrdersCounted == \A s \in Ordered : figures[s].order < Cardinality(Ordered)

\* A selected figure exists, because a deletion deselects it.
SelectedExist == \A s \in Slots : selection[s] \in Foreign => stored[selection[s]] # None

FigureRecords == [present : BOOLEAN, order : Slots \union {NoOrder}, image : Images]

BaseInv ==
  /\ figures \in [Slots -> FigureRecords]
  /\ ids \in [Slots -> Foreign \union {None}]
  /\ dirty \subseteq Slots
  /\ TablesAgree /\ OrdersCounted

LibraryInv ==
  /\ stored \in [Foreign -> Images \union {None}]
  /\ selection \in Selections
  /\ SelectedExist

RestInv ==
  /\ changed \in BOOLEAN /\ reboot \in {"no", "asked", "flushed"}
  /\ refused \subseteq Slots
  /\ endpoint \in Seq(Reports) /\ Len(endpoint) <= 1
  /\ view \subseteq Slots
  /\ changes \in 0 .. MaxChanges /\ failures \in 0 .. MaxFailures
  /\ refusals \in 0 .. MaxRefusals

IInv == BaseInv /\ LibraryInv /\ RestInv /\ queue \in Queues

LEMMA IInvImplies == IInv => TypeOK /\ TablesAgree /\ ChangesFirst
<1>. SUFFICES ASSUME IInv PROVE TypeOK /\ TablesAgree /\ ChangesFirst
  OBVIOUS
<1>1. queue \in Seq(Reports) /\ Len(queue) <= QueueLen /\ Leading(queue)
  BY DEF IInv, Queues
<1>2. ChangesFirst
  BY <1>1 DEF Leading, ChangesFirst
<1>3. TypeOK
  BY <1>1 DEF IInv, BaseInv, LibraryInv, RestInv, FigureRecords, TypeOK
<1>. QED  BY <1>2, <1>3 DEF IInv, BaseInv

\* The empty base.
LEMMA EmptyBase ==
  ASSUME figures = [s \in Slots |-> NewFigure], ids = [s \in Slots |-> None], dirty = {}
  PROVE  BaseInv
<1>1. \A s \in Slots : figures[s] = NewFigure /\ ids[s] = None
  OBVIOUS
<1>2. NewFigure \in FigureRecords /\ ~NewFigure.present /\ NewFigure.order = NoOrder
  BY InfinityAssumption DEF NewFigure, FigureRecords
<1>3. Ordered = {}
  BY <1>1, <1>2 DEF Ordered
<1>4. TablesAgree
  BY <1>1, <1>2, <1>3 DEF TablesAgree
<1>. QED  BY <1>1, <1>2, <1>3, <1>4 DEF BaseInv, OrdersCounted

LEMMA EmptyQueue == <<>> \in Queues
  BY InfinityAssumption DEF Queues, Leading

LEMMA InvInit == Init => IInv
<1>. SUFFICES ASSUME Init PROVE IInv
  OBVIOUS
<1>1. BaseInv
  BY EmptyBase DEF Init
<1>2. LibraryInv
  <2>1. stored \in [Foreign -> Images \union {None}]
    BY InfinityAssumption DEF Init
  <2>2. \A s \in Slots : selection[s] = None
    BY DEF Init, NoSelection
  <2>3. SelectedExist
    BY <2>2, ActiveSlotsAssumption DEF SelectedExist
  <2>. QED  BY <2>1, <2>3, NothingSelected DEF Init, LibraryInv
<1>3. RestInv
  <2>1. endpoint \in Seq(Reports) /\ Len(endpoint) = 0
    BY DEF Init
  <2>2. changed = FALSE /\ reboot = "no" /\ refused = {} /\ view = {}
        /\ changes = 0 /\ failures = 0 /\ refusals = 0
    BY DEF Init
  <2>3. 0 \in 0 .. MaxChanges /\ 0 \in 0 .. MaxFailures /\ 0 \in 0 .. MaxRefusals
    BY InfinityAssumption
  <2>4. changed \in BOOLEAN /\ reboot \in {"no", "asked", "flushed"}
        /\ refused \subseteq Slots /\ view \subseteq Slots
    BY <2>2
  <2>5. Len(endpoint) <= 1
    BY <2>1
  <2>. HIDE DEF Init
  <2>. QED  BY <2>1, <2>2, <2>3, <2>4, <2>5, Zenon DEF RestInv
<1>. QED  BY <1>1, <1>2, <1>3, EmptyQueue DEF IInv, Init

(***************************************************************************)
(* Saves.                                                                  *)
(***************************************************************************)
LEMMA SaveType ==
  ASSUME IInv, NEW R, Save(R)
  PROVE  /\ R \subseteq dirty /\ R \subseteq Slots
         /\ stored' \in [Foreign -> Images \union {None}]
         /\ \A e \in Foreign : stored'[e] = None <=> stored[e] = None
         /\ refused' \subseteq Slots
         /\ refusals' \in 0 .. MaxRefusals
<1>1. R \subseteq Saved /\ Gone \subseteq R /\ Saved \subseteq dirty /\ dirty \subseteq Slots
  BY DEF Save, Refusals, Saved, IInv, BaseInv
<1>2. stored \in [Foreign -> Images \union {None}] /\ None \notin Images
      /\ figures \in [Slots -> FigureRecords]
  BY InfinityAssumption DEF IInv, LibraryInv, BaseInv
<1>3. \A e \in Foreign : \/ StoredAfter(R)[e] = stored[e]
                         \/ StoredAfter(R)[e] \in Images /\ stored[e] # None
  <2>. SUFFICES ASSUME NEW e \in Foreign
       PROVE  \/ StoredAfter(R)[e] = stored[e]
              \/ StoredAfter(R)[e] \in Images /\ stored[e] # None
    OBVIOUS
  <2>. DEFINE copies == {s \in Saved \ R : ids[s] = e}
  <2>1. CASE copies = {}
    BY <2>1 DEF StoredAfter
  <2>2. CASE copies # {}
    <3>. DEFINE last == CHOOSE s \in copies : \A t \in copies : t <= s
    <3>1. copies \in SUBSET Slots
      BY <1>1
    <3>2. last \in copies
      BY <2>2, <3>1, LastSlot
    <3>3. StoredAfter(R)[e] = figures[last].image
      BY <2>2 DEF StoredAfter
    <3>4. figures[last].image \in Images
      BY <1>2, <3>1, <3>2 DEF FigureRecords
    <3>5. stored[e] # None
      BY <1>1, <3>2 DEF Gone
    <3>. QED  BY <3>3, <3>4, <3>5
  <2>. QED  BY <2>1, <2>2
<1>4. stored' = StoredAfter(R) /\ refused' = R
  BY DEF Save
<1>5. StoredAfter(R) \in [Foreign -> Images \union {None}]
  <2>1. \A e \in Foreign : StoredAfter(R)[e] \in Images \union {None}
    BY <1>2, <1>3
  <2>2. StoredAfter(R) = [e \in Foreign |-> StoredAfter(R)[e]]
    BY DEF StoredAfter
  <2>. QED  BY <2>1, <2>2
<1>6. refusals' \in 0 .. MaxRefusals
  BY InfinityAssumption DEF Save, Refusals, IInv, RestInv
<1>. QED  BY <1>1, <1>2, <1>3, <1>4, <1>5, <1>6

LEMMA SaveKeepsLibrary ==
  ASSUME IInv, NEW R, Save(R), selection' = selection
  PROVE  LibraryInv'
  BY SaveType DEF IInv, LibraryInv, SelectedExist

\* Positions that are marked clean.
LEMMA FewerDirty ==
  ASSUME BaseInv, UNCHANGED <<figures, ids>>, dirty' \subseteq dirty
  PROVE  BaseInv'
  BY DEF BaseInv, TablesAgree, OrdersCounted, Ordered

(***************************************************************************)
(* What a poll makes of the base.                                          *)
(***************************************************************************)
LEMMA Placed ==
  ASSUME BaseInv, LibraryInv, NEW images \in [Foreign -> Images \union {None}],
         \A e \in Foreign : images[e] = None <=> stored[e] = None,
         figures' = Refreshed(images),
         ids' = [s \in Slots |-> IF s \in ToLoad \union ToRemove
                                 THEN selection[s] ELSE ids[s]],
         dirty' \subseteq dirty \ (ToLoad \union ToRemove)
  PROVE  BaseInv'
<1>. DEFINE New  == ToLoad \ Ordered
            F(s) == Loaded(figures[s], s, images)
<1>1. Ordered \in SUBSET Slots /\ New \in SUBSET Slots /\ ToLoad \subseteq Slots
      /\ ToRemove \subseteq Slots
  BY DEF Ordered, ToLoad, ToRemove
<1>2. /\ IsFiniteSet(Ordered) /\ Cardinality(Ordered) \in Nat
      /\ IsFiniteSet(New) /\ Cardinality(New) \in Nat
  BY <1>1, SlotsFinite
<1>3. Cardinality(Ordered \union New) = Cardinality(Ordered) + Cardinality(New)
      /\ Cardinality(Ordered \union New) <= NumSlots
  <2>1. Ordered \intersect New = {}
    OBVIOUS
  <2>2. Cardinality(Ordered \union New)
          = Cardinality(Ordered) + Cardinality(New) - Cardinality(Ordered \intersect New)
    BY <1>2, FS_Union
  <2>3. Cardinality(Ordered \intersect New) = 0
    BY <2>1, FS_EmptySet
  <2>4. Ordered \union New \in SUBSET Slots
    BY <1>1
  <2>. HIDE DEF New
  <2>5. Cardinality(Ordered \union New) <= NumSlots
    BY <2>4, SlotsFinite
  <2>. QED  BY <1>2, <2>2, <2>3, <2>5
<1>4. \A s \in New : Before(New, s) \in 0 .. Cardinality(New) - 1
  BY <1>1, BeforeIsPlace
<1>5. \A s, t \in New : Before(New, s) = Before(New, t) => s = t
  <2>. SUFFICES ASSUME NEW s \in New, NEW t \in New, Before(New, s) = Before(New, t)
       PROVE  s = t
    OBVIOUS
  <2>1. ~(s < t) /\ ~(t < s)
    BY <1>1, <1>2, BeforeIsPlace
  <2>2. s \in Nat /\ t \in Nat
    BY <1>1 DEF Slots
  <2>. QED  BY <2>1, <2>2
<1>6. ASSUME NEW s \in Slots
      PROVE  /\ s \in ToLoad => figures'[s] = F(s)
             /\ s \in ToRemove => figures'[s] = [figures[s] EXCEPT !.present = FALSE]
             /\ s \notin ToLoad \union ToRemove => figures'[s] = figures[s]
             /\ ids'[s] = IF s \in ToLoad \union ToRemove THEN selection[s] ELSE ids[s]
  <2>1. ~(s \in ToLoad /\ s \in ToRemove)
    BY ActiveSlotsAssumption DEF ToLoad, ToRemove
  <2>. QED  BY <2>1 DEF Refreshed
<1>7. ASSUME NEW s \in ToLoad
      PROVE  /\ F(s).present /\ F(s).image \in Images
             /\ s \in Ordered => F(s).order = figures[s].order
             /\ s \notin Ordered => F(s).order = Cardinality(Ordered) + Before(New, s)
  <2>1. images[selection[s]] \in Images
    BY DEF ToLoad, LibraryInv, SelectedExist
  <2>. QED  BY <1>1, <2>1 DEF Loaded, Ordered
<1>8. \A s \in Ordered : figures[s].order \in Slots /\ figures[s].order # NoOrder
                         /\ figures[s].order < Cardinality(Ordered)
  BY DEF Ordered, BaseInv, FigureRecords, OrdersCounted
<1>. HIDE DEF F, New
<1>9. \A s \in New : /\ Cardinality(Ordered) + Before(New, s) \in Slots
                    /\ Cardinality(Ordered) + Before(New, s) # NoOrder
  BY <1>2, <1>3, <1>4, ActiveSlotsAssumption, InfinityAssumption DEF Slots
<1>10. ASSUME NEW s \in Slots
       PROVE  /\ figures'[s] \in FigureRecords
              /\ s \in Ordered => figures'[s].order = figures[s].order
              /\ s \in New => figures'[s].order = Cardinality(Ordered) + Before(New, s)
              /\ s \notin Ordered /\ s \notin New => figures'[s].order = NoOrder
  <2>1. figures[s] \in FigureRecords
    BY DEF BaseInv
  <2>2. CASE s \in ToLoad
    <3>1. figures'[s] = F(s)
      BY <1>6, <2>2
    <3>2. s \in Ordered \/ s \in New
      BY <2>2 DEF New
    <3>3. F(s) = [present |-> TRUE, order |-> F(s).order, image |-> F(s).image]
      BY DEF F, Loaded
    <3>4. F(s).order \in Slots
      BY <1>7, <1>8, <1>9, <2>2, <3>2 DEF New
    <3>5. F(s).image \in Images
      BY <1>7, <2>2
    <3>6. F(s) \in FigureRecords
      <4>1. \A o \in Slots \union {NoOrder}, i \in Images :
              [present |-> TRUE, order |-> o, image |-> i] \in FigureRecords
        BY DEF FigureRecords
      <4>. QED  BY <3>3, <3>4, <3>5, <4>1, Zenon
    <3>. QED  BY <1>7, <2>2, <3>1, <3>2, <3>6 DEF New
  <2>3. CASE s \notin ToLoad
    <3>1. figures'[s] = figures[s] \/ figures'[s] = [figures[s] EXCEPT !.present = FALSE]
      BY <1>6, <2>3
    <3>2. figures'[s] \in FigureRecords /\ figures'[s].order = figures[s].order
      BY <2>1, <3>1 DEF FigureRecords
    <3>. QED  BY <2>3, <3>2 DEF Ordered, New
  <2>. QED  BY <2>2, <2>3
<1>11. Ordered' = Ordered \union New
  <2>1. \A s \in Slots : figures'[s].order # NoOrder <=> s \in Ordered \union New
    BY <1>8, <1>9, <1>10
  <2>. QED  BY <1>1, <2>1 DEF Ordered
<1>12. figures' \in [Slots -> FigureRecords]
  <2>1. figures' = [s \in Slots |-> figures'[s]]
    BY DEF Refreshed
  <2>. QED  BY <1>10, <2>1
<1>13. ids' \in [Slots -> Foreign \union {None}] /\ dirty' \subseteq Slots
  BY <1>1 DEF BaseInv, ToLoad, ToRemove
<1>14. OrdersCounted'
  <2>. SUFFICES ASSUME NEW s \in Ordered' PROVE figures'[s].order < Cardinality(Ordered')
    BY DEF OrdersCounted
  <2>1. s \in Slots
    BY <1>1, <1>11
  <2>2. CASE s \in Ordered
    BY <1>2, <1>3, <1>8, <1>10, <1>11, <2>1, <2>2 DEF Slots
  <2>3. CASE s \in New
    BY <1>2, <1>3, <1>4, <1>10, <1>11, <2>1, <2>3
  <2>. QED  BY <1>11, <2>2, <2>3
<1>15. TablesAgree'
  <2>1. ASSUME NEW s \in Slots
        PROVE  /\ figures'[s].present <=> ids'[s] # None
               /\ s \in dirty' => figures'[s].present
               /\ figures'[s].present => figures'[s].order # NoOrder
    <3>0. figures[s] \in FigureRecords /\ (figures[s].present <=> ids[s] # None)
          /\ (s \in dirty => figures[s].present)
          /\ (figures[s].present => s \in Ordered)
      BY DEF BaseInv, TablesAgree, Ordered
    <3>1. CASE s \in ToLoad
      <4>1. selection[s] # None
        BY <3>1, ActiveSlotsAssumption DEF ToLoad
      <4>2. figures'[s].order # NoOrder
        BY <1>8, <1>9, <1>10, <3>1 DEF New
      <4>. QED  BY <1>6, <1>7, <3>1, <4>1, <4>2
    <3>2. CASE s \in ToRemove
      <4>1. selection[s] = None
        BY <3>2 DEF ToRemove
      <4>2. figures'[s] = [figures[s] EXCEPT !.present = FALSE]
        BY <1>6, <3>2
      <4>3. ~figures'[s].present
        BY <3>0, <4>2 DEF FigureRecords
      <4>. QED  BY <1>6, <3>2, <4>1, <4>3
    <3>3. CASE s \notin ToLoad \union ToRemove
      <4>1. figures'[s] = figures[s] /\ ids'[s] = ids[s]
        BY <1>6, <3>3
      <4>. QED  BY <1>8, <3>0, <4>1
    <3>. QED  BY <3>1, <3>2, <3>3
  <2>2. ASSUME NEW s \in Ordered', NEW t \in Ordered', figures'[s].order = figures'[t].order
        PROVE  s = t
    <3>1. s \in Slots /\ t \in Slots
      BY <1>1, <1>11
    <3>2. CASE s \in Ordered /\ t \in Ordered
      BY <1>10, <2>2, <3>1, <3>2 DEF BaseInv, TablesAgree
    <3>3. CASE s \in New /\ t \in New
      <4>1. Before(New, s) = Before(New, t)
        <5>1. Before(New, s) \in Int /\ Before(New, t) \in Int
          BY <1>2, <1>4, <3>3
        <5>2. Cardinality(Ordered) + Before(New, s) = Cardinality(Ordered) + Before(New, t)
          BY <1>10, <2>2, <3>1, <3>3
        <5>. QED  BY <1>2, <5>1, <5>2
      <4>. QED  BY <1>5, <3>3, <4>1
    <3>4. CASE \/ s \in Ordered /\ t \in New
               \/ s \in New /\ t \in Ordered
      BY <1>2, <1>4, <1>8, <1>10, <2>2, <3>1, <3>4 DEF Slots
    <3>. QED  BY <1>11, <3>2, <3>3, <3>4
  <2>3. \A s \in dirty' : s \in Slots
    BY <1>13
  <2>. QED  BY <2>1, <2>2, <2>3 DEF TablesAgree
<1>. QED  BY <1>12, <1>13, <1>14, <1>15 DEF BaseInv

\* Nothing is left on the base.
LEMMA Emptied ==
  ASSUME BaseInv, ClearAllPositions
  PROVE  BaseInv'
<1>1. \A s \in Slots : /\ figures'[s] = [figures[s] EXCEPT !.present = FALSE]
                       /\ ids'[s] = None
  BY DEF ClearAllPositions
<1>2. \A s \in Slots : /\ figures'[s] \in FigureRecords /\ ~figures'[s].present
                       /\ figures'[s].order = figures[s].order
  <2>. SUFFICES ASSUME NEW s \in Slots
       PROVE  /\ figures'[s] \in FigureRecords /\ ~figures'[s].present
              /\ figures'[s].order = figures[s].order
    OBVIOUS
  <2>1. figures[s] \in FigureRecords /\ figures'[s] = [figures[s] EXCEPT !.present = FALSE]
    BY <1>1 DEF BaseInv
  <2>. QED  BY <2>1 DEF FigureRecords
<1>3. Ordered' = Ordered
  BY <1>2 DEF Ordered
<1>4. figures' \in [Slots -> FigureRecords] /\ ids' \in [Slots -> Foreign \union {None}]
      /\ dirty' = {}
  BY <1>2 DEF ClearAllPositions
<1>5. TablesAgree' /\ OrdersCounted'
  BY <1>1, <1>2, <1>3, <1>4 DEF BaseInv, TablesAgree, OrdersCounted, Ordered
<1>. QED  BY <1>4, <1>5 DEF BaseInv

\* The console writes to a position.
LEMMA Written ==
  ASSUME BaseInv, NEW o \in Slots, NEW img \in Images, ids' = ids,
         figures' = [s \in Slots |-> IF s \in AtOrder(o)
                                     THEN [figures[s] EXCEPT !.image = img]
                                     ELSE figures[s]],
         dirty' = dirty \union {s \in AtOrder(o) : ids[s] # None}
  PROVE  BaseInv'
<1>1. \A s \in Slots : /\ figures'[s] \in FigureRecords
                       /\ figures'[s].present = figures[s].present
                       /\ figures'[s].order = figures[s].order
  BY DEF BaseInv, FigureRecords
<1>2. Ordered' = Ordered
  BY <1>1 DEF Ordered
<1>3. figures' \in [Slots -> FigureRecords] /\ dirty' \subseteq Slots
  BY <1>1 DEF BaseInv, AtOrder
<1>4. \A s \in dirty' : s \in Slots /\ figures[s].present
  BY DEF AtOrder, BaseInv, TablesAgree
<1>5. TablesAgree' /\ OrdersCounted'
  BY <1>1, <1>2, <1>4 DEF BaseInv, TablesAgree, OrdersCounted, Ordered
<1>. QED  BY <1>3, <1>5 DEF BaseInv

(***************************************************************************)
(* The steps.                                                              *)
(***************************************************************************)
LEMMA RequestKeeps ==
  ASSUME IInv, NEW sel, ChangeSelection(sel), LibraryInv',
         reboot' \in {"no", "asked", "flushed"}
  PROVE  IInv'
<1>1. BaseInv'
  BY FewerDirty DEF ChangeSelection, base, IInv
<1>2. queue' \in Queues
  BY DEF ChangeSelection, console, IInv
<1>3. RestInv'
  BY InfinityAssumption DEF ChangeSelection, console, IInv, RestInv
<1>. QED  BY <1>1, <1>2, <1>3 DEF IInv

LEMMA RequestsKeep ==
  ASSUME IInv,
         \/ \E e \in Selectable, s \in Slots : SelectEntity(e, s)
         \/ \E S \in {{s} : s \in Slots} \union {Slots} : ClearActive(S)
         \/ \E e \in Foreign : DeleteEntity(e)
         \/ SetMode
  PROVE  IInv'
<1>. USE DEF IInv
<1>1. reboot \in {"no", "asked", "flushed"}
  BY DEF RestInv
<1>2. ASSUME NEW e \in Selectable, NEW s \in Slots, SelectEntity(e, s) PROVE IInv'
  <2>1. ChangeSelection(Selected(selection, e, s)) /\ UNCHANGED <<stored, reboot>>
        /\ (e \in Foreign => stored[e] # None)
    BY <1>2 DEF SelectEntity
  <2>2. selection' = Selected(selection, e, s) /\ selection' \in Selections
    BY <2>1, SelectionTypes DEF ChangeSelection, LibraryInv
  <2>3. \A x \in Slots : selection'[x] \in {e, None, selection[x]}
    BY <2>2 DEF Selected
  <2>4. SelectedExist'
    BY <2>1, <2>3, ActiveSlotsAssumption DEF SelectedExist, LibraryInv
  <2>. QED  BY <1>1, <2>1, <2>2, <2>4, RequestKeeps DEF LibraryInv
<1>3. ASSUME NEW S, ClearActive(S) PROVE IInv'
  <2>1. ChangeSelection(Cleared(selection, S)) /\ UNCHANGED <<stored, reboot>>
    BY <1>3 DEF ClearActive
  <2>2. selection' = Cleared(selection, S) /\ selection' \in Selections
    BY <2>1, SelectionTypes DEF ChangeSelection, LibraryInv
  <2>3. \A x \in Slots : selection'[x] \in {None, selection[x]}
    BY <2>2 DEF Cleared
  <2>4. SelectedExist'
    BY <2>1, <2>3, ActiveSlotsAssumption DEF SelectedExist, LibraryInv
  <2>. QED  BY <1>1, <2>1, <2>2, <2>4, RequestKeeps DEF LibraryInv
<1>4. ASSUME NEW e \in Foreign, DeleteEntity(e) PROVE IInv'
  <2>1. ChangeSelection(Deselected(selection, e)) /\ reboot' = reboot
        /\ stored' = [stored EXCEPT ![e] = None]
    BY <1>4 DEF DeleteEntity
  <2>2. selection' = Deselected(selection, e) /\ selection' \in Selections
    BY <2>1, SelectionTypes DEF ChangeSelection, LibraryInv
  <2>3. \A x \in Slots : selection'[x] \in {None, selection[x]} /\ selection'[x] # e
    BY <2>2, ActiveSlotsAssumption DEF Deselected
  <2>4. stored' \in [Foreign -> Images \union {None}]
    BY <2>1 DEF LibraryInv
  <2>5. SelectedExist'
    BY <2>1, <2>3, ActiveSlotsAssumption DEF SelectedExist, LibraryInv
  <2>. QED  BY <1>1, <2>1, <2>2, <2>4, <2>5, RequestKeeps DEF LibraryInv
<1>5. ASSUME SetMode PROVE IInv'
  <2>1. ChangeSelection(NoSelection) /\ stored' = stored
        /\ reboot' \in {"no", "asked", "flushed"}
    BY <1>1, <1>5 DEF SetMode
  <2>2. selection' = NoSelection
    BY <2>1 DEF ChangeSelection
  <2>3. SelectedExist'
    BY <2>2, ActiveSlotsAssumption DEF SelectedExist, NoSelection
  <2>. QED  BY <2>1, <2>2, <2>3, NothingSelected, RequestKeeps DEF LibraryInv
<1>. QED  BY <1>2, <1>3, <1>4, <1>5

LEMMA FlushesKeep ==
  ASSUME IInv, Flush \/ FlushForReboot \/ Reset
  PROVE  IInv'
<1>1. ASSUME Flush \/ FlushForReboot PROVE IInv'
  <2>1. PICK R \in Refusals : Save(R) /\ dirty' = R
    BY <1>1 DEF Flush, FlushForReboot
  <2>2. UNCHANGED <<selection, changed, figures, ids, console, changes, failures>>
        /\ reboot' \in {"no", "asked", "flushed"}
    BY <1>1 DEF Flush, FlushForReboot, IInv, RestInv
  <2>3. BaseInv'
    BY <2>1, <2>2, SaveType, FewerDirty DEF IInv
  <2>4. LibraryInv'
    BY <2>1, <2>2, SaveKeepsLibrary
  <2>5. RestInv' /\ queue' \in Queues
    BY <2>1, <2>2, SaveType DEF IInv, RestInv, console
  <2>. QED  BY <2>3, <2>4, <2>5 DEF IInv
<1>2. ASSUME Reset PROVE IInv'
  <2>1. BaseInv'
    <3>1. /\ figures' = [s \in Slots |-> NewFigure]
          /\ ids' = [s \in Slots |-> None] /\ dirty' = {}
      BY <1>2 DEF Reset
    <3>2. \A s \in Slots : figures'[s] = NewFigure /\ ids'[s] = None
      BY <3>1
    <3>3. NewFigure \in FigureRecords /\ ~NewFigure.present /\ NewFigure.order = NoOrder
      BY InfinityAssumption DEF NewFigure, FigureRecords
    <3>4. Ordered' = {}
      BY <3>2, <3>3 DEF Ordered
    <3>5. TablesAgree'
      BY <3>1, <3>2, <3>3, <3>4 DEF TablesAgree
    <3>. QED  BY <3>1, <3>3, <3>4, <3>5 DEF BaseInv, OrdersCounted
  <2>2. LibraryInv'
    <3>1. selection' = NoSelection /\ stored' = stored
      BY <1>2 DEF Reset, library
    <3>2. SelectedExist'
      BY <3>1, ActiveSlotsAssumption DEF SelectedExist, NoSelection
    <3>. QED  BY <3>1, <3>2, NothingSelected DEF LibraryInv, IInv
  <2>3. RestInv'
    <3>1. endpoint' \in Seq(Reports) /\ Len(endpoint') <= 1
      BY <1>2 DEF Reset
    <3>2. reboot' \in {"no", "asked", "flushed"} /\ changed' \in BOOLEAN /\ view' \subseteq Slots
      BY <1>2 DEF Reset
    <3>. QED  BY <1>2, <3>1, <3>2 DEF Reset, library, IInv, RestInv
  <2>4. queue' \in Queues
    BY <1>2, EmptyQueue DEF Reset
  <2>. QED  BY <2>1, <2>2, <2>3, <2>4 DEF IInv
<1>. QED  BY <1>1, <1>2

LEMMA ChangeReports ==
  ASSUME NEW q \in Queues, NEW S \in SUBSET Slots, NEW T \in SUBSET Slots
  PROVE  /\ Announced(q, ChangesOf(S, TRUE)) \in Queues
         /\ Announced(q, ChangesOf(S, TRUE) \o ChangesOf(T, FALSE)) \in Queues
<1>1. ChangesOf(S, TRUE) \in Seq(Changes) /\ ChangesOf(T, FALSE) \in Seq(Changes)
  BY ChangesOfType
<1>2. ChangesOf(S, TRUE) \o ChangesOf(T, FALSE) \in Seq(Changes)
  <2>1. \A a, b \in Seq(Changes) : a \o b \in Seq(Changes)
    OBVIOUS
  <2>. QED  BY <1>1, <2>1, Zenon
<1>. QED  BY <1>1, <1>2, AnnouncedType

LEMMA PollsKeep ==
  ASSUME IInv, PollActiveEntity \/ PollFails
  PROVE  IInv'
<1>1. ASSUME PollActiveEntity PROVE IInv'
  <2>1. PICK R \in Refusals : Save(R) /\ dirty' = R \ (ToLoad \union ToRemove)
    BY <1>1 DEF PollActiveEntity
  <2>2. UNCHANGED <<selection, reboot, endpoint, view, changes, failures>> /\ changed' = FALSE
    BY <1>1 DEF PollActiveEntity
  <2>3. BaseInv'
    <3>1. dirty' \subseteq dirty \ (ToLoad \union ToRemove)
      BY <2>1, SaveType
    <3>2. figures' = Refreshed(stored')
          /\ ids' = [s \in Slots |-> IF s \in ToLoad \union ToRemove
                                      THEN selection[s] ELSE ids[s]]
      BY <1>1 DEF PollActiveEntity
    <3>. QED  BY <2>1, <3>1, <3>2, SaveType, Placed DEF IInv
  <2>4. LibraryInv'
    BY <2>1, <2>2, SaveKeepsLibrary
  <2>5. RestInv'
    BY <2>1, <2>2, SaveType DEF IInv, RestInv
  <2>6. queue' \in Queues
    <3>. DEFINE gone == {s \in ToRemove : figures[s].present}
    <3>1. queue' = Announced(queue, ChangesOf(gone, TRUE) \o ChangesOf(ToLoad, FALSE))
      BY <1>1 DEF PollActiveEntity
    <3>2. gone \in SUBSET Slots /\ ToLoad \in SUBSET Slots
      BY DEF ToRemove, ToLoad
    <3>. HIDE DEF gone
    <3>. QED  BY <3>1, <3>2, ChangeReports DEF IInv
  <2>. QED  BY <2>3, <2>4, <2>5, <2>6 DEF IInv
<1>2. ASSUME PollFails PROVE IInv'
  <2>1. PICK R \in Refusals : Save(R)
    BY <1>2 DEF PollFails
  <2>2. UNCHANGED <<selection, changed, reboot, endpoint, view, changes>>
        /\ failures < MaxFailures /\ failures' = failures + 1 /\ ClearAllPositions
    BY <1>2 DEF PollFails
  <2>3. BaseInv'
    BY <2>2, Emptied DEF IInv
  <2>4. LibraryInv'
    BY <2>1, <2>2, SaveKeepsLibrary
  <2>5. failures' \in 0 .. MaxFailures
    BY <2>2, InfinityAssumption DEF IInv, RestInv
  <2>6. RestInv'
    BY <2>1, <2>2, <2>5, SaveType DEF IInv, RestInv
  <2>7. queue' \in Queues
    <3>. DEFINE gone == {s \in Slots : figures[s].present}
    <3>1. queue' = Announced(queue, ChangesOf(gone, TRUE))
      BY <2>2 DEF ClearAllPositions
    <3>2. gone \in SUBSET Slots
      OBVIOUS
    <3>. HIDE DEF gone
    <3>. QED  BY <3>1, <3>2, ChangeReports DEF IInv
  <2>. QED  BY <2>3, <2>4, <2>6, <2>7 DEF IInv
<1>. QED  BY <1>1, <1>2

LEMMA AnswerTypes ==
  /\ Echo \in Reports /\ ~Announces(Echo)
  /\ Done \in Reports /\ ~Announces(Done)
  /\ \A f : Presence(f) \in Reports /\ ~Announces(Presence(f))
<1>1. Echo \in Reports /\ Done \in Reports
  BY DEF Reports
<1>2. ~Announces(Echo) /\ ~Announces(Done)
  BY DEF Announces, Echo, Done
<1>3. ASSUME NEW f PROVE Presence(f) \in Reports /\ ~Announces(Presence(f))
  <2>1. Presence(f) \in [op : {"presence"}, present : SUBSET Slots]
    BY DEF Presence
  <2>. QED  BY <2>1 DEF Reports, Announces
<1>. QED  BY <1>1, <1>2, <1>3

LEMMA AnswersKeep ==
  ASSUME IInv, NEW r \in Reports, ~Announces(r), Answered(r), BaseInv'
  PROVE  IInv'
<1>1. Pushed(queue, Echo) \in Queues
  BY AnswerTypes, PushedType DEF IInv
<1>2. queue' \in Queues
  BY <1>1, PushedType DEF Answered
<1>3. LibraryInv' /\ RestInv'
  BY DEF Answered, library, IInv, LibraryInv, SelectedExist, RestInv
<1>. QED  BY <1>2, <1>3 DEF IInv

LEMMA CommandsKeep ==
  ASSUME IInv,
         \/ AskPresence \/ OtherCommand
         \/ \E o \in Slots, img \in Images : WriteBlock(o, img)
  PROVE  IInv'
<1>1. CASE AskPresence
  <2>1. Answered(Presence(figures)) /\ BaseInv'
    BY <1>1, FewerDirty DEF AskPresence, Answered, IInv
  <2>. QED  BY <2>1, AnswerTypes, AnswersKeep
<1>2. CASE OtherCommand
  <2>1. Answered(Done) /\ BaseInv'
    BY <1>2, FewerDirty DEF OtherCommand, Answered, IInv
  <2>. QED  BY <2>1, AnswerTypes, AnswersKeep
<1>3. ASSUME NEW o \in Slots, NEW img \in Images, WriteBlock(o, img) PROVE IInv'
  <2>1. Answered(Done) /\ ids' = ids
    BY <1>3 DEF WriteBlock, Answered
  <2>2. BaseInv'
    BY <1>3, <2>1, Written DEF WriteBlock, IInv
  <2>. QED  BY <2>1, <2>2, AnswerTypes, AnswersKeep
<1>. QED  BY <1>1, <1>2, <1>3

\* What the console reads names slots only.
LEMMA ReceiveType ==
  ASSUME NEW r \in Reports, Receive(r), view \subseteq Slots
  PROVE  view' \subseteq Slots
<1>1. CASE r.op = "change"
  <2>1. r \in Changes
    BY <1>1 DEF Reports, Echo, Done
  <2>2. r.slot \in Slots /\ r.removed \in BOOLEAN
    BY <2>1 DEF Changes, Change
  <2>. QED  BY <1>1, <2>2 DEF Receive
<1>2. CASE r.op = "presence"
  <2>1. r \in [op : {"presence"}, present : SUBSET Slots]
    BY <1>2 DEF Reports, Changes, Change, Echo, Done
  <2>. QED  BY <1>2, <2>1 DEF Receive
<1>3. CASE r.op # "change" /\ r.op # "presence"
  BY <1>3 DEF Receive
<1>. QED  BY <1>1, <1>2, <1>3

LEMMA ReportsKeep ==
  ASSUME IInv, SendQueued \/ ReadEndpoint \/ GetReport
  PROVE  IInv'
<1>. USE DEF IInv
<1>1. UNCHANGED <<library, selection, changed, reboot, base, changes, failures>>
  BY DEF SendQueued, ReadEndpoint, GetReport
<1>2. BaseInv' /\ LibraryInv'
  BY <1>1, FewerDirty DEF base, library, LibraryInv, SelectedExist
<1>3. view \subseteq Slots /\ endpoint \in Seq(Reports) /\ Len(endpoint) <= 1
  BY DEF RestInv
<1>4. CASE SendQueued
  <2>1. /\ queue # <<>> /\ endpoint' = <<Head(queue)>> /\ queue' = Tail(queue)
        /\ view' = view
    BY <1>4 DEF SendQueued
  <2>2. queue' \in Queues /\ Head(queue) \in Reports
    BY <2>1, TailType
  <2>3. endpoint' \in Seq(Reports) /\ Len(endpoint') <= 1
    BY <2>1, <2>2
  <2>4. RestInv'
    BY <1>1, <1>3, <2>1, <2>3 DEF RestInv, library
  <2>. QED  BY <1>2, <2>2, <2>4
<1>5. CASE ReadEndpoint
  <2>1. endpoint # <<>> /\ endpoint' = <<>> /\ Receive(Head(endpoint)) /\ queue' = queue
    BY <1>5 DEF ReadEndpoint
  <2>2. view' \subseteq Slots
    BY <1>3, <2>1, ReceiveType
  <2>3. endpoint' \in Seq(Reports) /\ Len(endpoint') <= 1
    BY <2>1
  <2>4. RestInv'
    BY <1>1, <2>2, <2>3 DEF RestInv, library
  <2>. QED  BY <1>2, <2>1, <2>4
<1>6. CASE GetReport
  <2>1. /\ endpoint' = endpoint
        /\ \/ queue # <<>> /\ Receive(Head(queue)) /\ queue' = Tail(queue)
           \/ Receive(Presence(figures)) /\ queue' = queue
    BY <1>6 DEF GetReport
  <2>2. queue' \in Queues /\ view' \subseteq Slots
    BY <1>3, <2>1, TailType, ReceiveType, AnswerTypes
  <2>3. RestInv'
    BY <1>1, <1>3, <2>1, <2>2 DEF RestInv, library
  <2>. QED  BY <1>2, <2>2, <2>3
<1>. QED  BY <1>4, <1>5, <1>6

LEMMA InvNext == IInv /\ [Next]_vars => IInv'
<1>. SUFFICES ASSUME IInv, [Next]_vars PROVE IInv'
  OBVIOUS
<1>1. CASE UNCHANGED vars
  <2>1. BaseInv' /\ LibraryInv'
    BY <1>1, FewerDirty DEF vars, base, library, IInv, LibraryInv, SelectedExist
  <2>. QED  BY <1>1, <2>1 DEF vars, library, console, IInv, RestInv
<1>. QED  BY <1>1, RequestsKeep, FlushesKeep, PollsKeep, CommandsKeep, ReportsKeep
          DEF Next

LEMMA AlwaysIInv == Spec => []IInv
  BY InvInit, InvNext, PTL DEF Spec

(***************************************************************************)
(* Results.                                                                *)
(***************************************************************************)
\* The types of base, library and reports, for every instance: what the base
\* loads exists, an order is one of as many numbers as there are positions,
\* and the queue does not outgrow its array.
THEOREM TypeCorrect == Spec => []TypeOK
  BY AlwaysIInv, IInvImplies, PTL

\* Figures, ids, dirty marks and orders of the base agree (load_figure,
\* remove_figure, mark_dirty_order, clear_all_positions), through failed
\* reads, moves, replacements, deletions and restarts.
THEOREM PositionsAgree == Spec => []TablesAgree
  BY AlwaysIInv, IInvImplies, PTL

\* However many changes are announced and lost, no change waits behind an
\* answer (push_report, push_report_front).
THEOREM ChangesAreReadFirst == Spec => []ChangesFirst
  BY AlwaysIInv, IInvImplies, PTL

(***************************************************************************)
(* Which figures are on the base, and saves.  A base that has taken over   *)
(* the selection holds it, but for positions that were given an entity of  *)
(* the other game; and what is still dirty when the restart of a mode      *)
(* switch is due was refused.                                              *)
(***************************************************************************)
OnOnePosition(f) == \A s, t \in Slots : f[s] # None /\ f[s] = f[t] => s = t

Follows ==
  \A s \in Slots : selection[s] \in Foreign \union {None} => ids[s] = selection[s]

SaveInv ==
  /\ IInv
  /\ OnOnePosition(selection)
  /\ ~changed => Follows
  /\ reboot = "flushed" => dirty \subseteq refused

LEMMA SaveInvInit == Init => SaveInv
<1>. SUFFICES ASSUME Init PROVE SaveInv
  OBVIOUS
<1>1. \A s \in Slots : selection[s] = None /\ ids[s] = None
  BY DEF Init, NoSelection
<1>2. reboot # "flushed"
  BY DEF Init
<1>. QED  BY <1>1, <1>2, InvInit DEF SaveInv, OnOnePosition, Follows

LEMMA SelectionStaysUnique ==
  ASSUME OnOnePosition(selection)
  PROVE  /\ \A e \in Selectable, s \in Slots : OnOnePosition(Selected(selection, e, s))
         /\ \A S : OnOnePosition(Cleared(selection, S))
         /\ \A e : OnOnePosition(Deselected(selection, e))
         /\ OnOnePosition(NoSelection)
<1>1. ASSUME NEW e \in Selectable, NEW s \in Slots
      PROVE  OnOnePosition(Selected(selection, e, s))
  <2>1. e \in Components(e)
    BY DEF Components
  <2>2. \A x \in Slots :
          \/ x = s /\ Selected(selection, e, s)[x] = e
          \/ x # s /\ Selected(selection, e, s)[x] = None
          \/ x # s /\ selection[x] # e /\ Selected(selection, e, s)[x] = selection[x]
    BY <2>1 DEF Selected
  <2>. QED  BY <2>2 DEF OnOnePosition
<1>2. ASSUME NEW S PROVE OnOnePosition(Cleared(selection, S))
  BY DEF OnOnePosition, Cleared
<1>3. ASSUME NEW e PROVE OnOnePosition(Deselected(selection, e))
  BY DEF OnOnePosition, Deselected
<1>4. OnOnePosition(NoSelection)
  BY DEF OnOnePosition, NoSelection
<1>. QED  BY <1>1, <1>2, <1>3, <1>4

LEMMA SaveInvNext == SaveInv /\ [Next]_vars => SaveInv'
<1>. SUFFICES ASSUME SaveInv, [Next]_vars PROVE SaveInv'
  OBVIOUS
<1>1. IInv' /\ IInv
  BY InvNext DEF SaveInv
<1>2. OnOnePosition(selection) /\ (~changed => Follows)
      /\ (reboot = "flushed" => dirty \subseteq refused)
  BY DEF SaveInv
<1>3. ASSUME UNCHANGED <<ids, dirty, refused>>, OnOnePosition(selection'),
             changed' \/ UNCHANGED <<selection, changed>>,
             reboot' = "flushed" => reboot = "flushed"
      PROVE  SaveInv'
  <2>1. ~changed' => Follows'
    BY <1>2, <1>3 DEF Follows
  <2>. QED  BY <1>1, <1>2, <1>3, <2>1 DEF SaveInv
<1>4. ASSUME NEW e \in Selectable, NEW s \in Slots, SelectEntity(e, s) PROVE SaveInv'
  BY <1>2, <1>3, <1>4, SelectionStaysUnique DEF SelectEntity, ChangeSelection, base
<1>5. ASSUME NEW S, ClearActive(S) PROVE SaveInv'
  BY <1>2, <1>3, <1>5, SelectionStaysUnique DEF ClearActive, ChangeSelection, base
<1>6. ASSUME NEW e \in Foreign, DeleteEntity(e) PROVE SaveInv'
  BY <1>2, <1>3, <1>6, SelectionStaysUnique DEF DeleteEntity, ChangeSelection, base
<1>7. ASSUME SetMode PROVE SaveInv'
  <2>1. UNCHANGED <<base, refused>> /\ selection' = NoSelection /\ changed'
        /\ (reboot' = "flushed" => reboot = "flushed")
    BY <1>7 DEF SetMode, ChangeSelection
  <2>. QED  BY <1>2, <1>3, <2>1, SelectionStaysUnique DEF base
<1>8. ASSUME Flush \/ FlushForReboot PROVE SaveInv'
  <2>1. PICK R \in Refusals : Save(R) /\ dirty' = R
    BY <1>8 DEF Flush, FlushForReboot
  <2>2. UNCHANGED <<ids, selection, changed>> /\ refused' = R
    BY <1>8, <2>1 DEF Flush, FlushForReboot, Save
  <2>. QED  BY <1>1, <1>2, <2>1, <2>2 DEF SaveInv, OnOnePosition, Follows
<1>9. ASSUME Reset PROVE SaveInv'
  <2>1. \A s \in Slots : selection'[s] = None /\ ids'[s] = None
    BY <1>9 DEF Reset, NoSelection
  <2>2. reboot' # "flushed"
    BY <1>9 DEF Reset
  <2>. QED  BY <1>1, <2>1, <2>2 DEF SaveInv, OnOnePosition, Follows
<1>10. ASSUME PollActiveEntity PROVE SaveInv'
  <2>1. selection' = selection /\ reboot' # "flushed"
        /\ ids' = [s \in Slots |-> IF s \in ToLoad \union ToRemove
                                   THEN selection[s] ELSE ids[s]]
    BY <1>10 DEF PollActiveEntity
  <2>2. Follows'
    BY <2>1 DEF Follows, ToLoad, ToRemove
  <2>. QED  BY <1>1, <1>2, <2>1, <2>2 DEF SaveInv, OnOnePosition
<1>11. ASSUME PollFails PROVE SaveInv'
  <2>1. selection' = selection /\ reboot' # "flushed" /\ changed'
    BY <1>11 DEF PollFails
  <2>. QED  BY <1>1, <1>2, <2>1 DEF SaveInv, OnOnePosition
<1>12. ASSUME AskPresence \/ OtherCommand \/ SendQueued \/ ReadEndpoint \/ GetReport
       PROVE  SaveInv'
  <2>1. UNCHANGED <<base, refused, selection, changed, reboot>>
    BY <1>12 DEF AskPresence, OtherCommand, Answered, SendQueued, ReadEndpoint, GetReport,
                 library, base
  <2>. QED  BY <1>2, <1>3, <2>1 DEF base
<1>13. ASSUME NEW o \in Slots, NEW img \in Images, WriteBlock(o, img) PROVE SaveInv'
  <2>1. UNCHANGED <<selection, changed, ids>> /\ reboot' # "flushed"
    BY <1>13 DEF WriteBlock, Answered
  <2>. QED  BY <1>1, <1>2, <2>1 DEF SaveInv, OnOnePosition, Follows
<1>14. CASE UNCHANGED vars
  BY <1>2, <1>3, <1>14 DEF vars, base, library
<1>. QED  BY <1>4, <1>5, <1>6, <1>7, <1>8, <1>9, <1>10, <1>11, <1>12, <1>13, <1>14
          DEF Next

LEMMA AlwaysSaveInv == Spec => []SaveInv
  BY SaveInvInit, SaveInvNext, PTL DEF Spec

\* A base that shows the selection has a figure on two positions only if one
\* of them was given an entity of the other game (poll_active_entity leaves
\* such a position alone).
THEOREM OnePositionPerFigure == Spec => []FigureOnOnePosition
<1>1. SaveInv => FigureOnOnePosition
  BY DEF SaveInv, OnOnePosition, Follows, FigureOnOnePosition
<1>. QED  BY <1>1, AlwaysSaveInv, PTL

\* After a save the library holds one of the changed copies of a figure, if
\* any of them was not refused, and otherwise what it held.
LEMMA SavedCopy ==
  ASSUME IInv, NEW R, Save(R), NEW e \in Foreign
  PROVE  \/ \E t \in CopiesOf(e) \intersect (dirty \ R) : stored'[e] = figures[t].image
         \/ CopiesOf(e) \intersect (dirty \ R) = {} /\ stored'[e] = stored[e]
<1>. DEFINE copies == {t \in Saved \ R : ids[t] = e}
<1>1. e # None
  BY ActiveSlotsAssumption
<1>2. \A t \in dirty : t \in Slots /\ figures[t].present
  BY DEF IInv, BaseInv, TablesAgree
<1>3. copies \in SUBSET Slots /\ copies = CopiesOf(e) \intersect (dirty \ R)
  BY <1>1, <1>2 DEF Saved, CopiesOf
<1>4. stored'[e] = IF copies = {} THEN stored[e]
                   ELSE figures[CHOOSE t \in copies : \A u \in copies : u <= t].image
  BY DEF Save, StoredAfter
<1>5. CASE copies = {}
  BY <1>3, <1>4, <1>5
<1>6. CASE copies # {}
  <2>1. (CHOOSE t \in copies : \A u \in copies : u <= t) \in copies
    BY <1>3, <1>6, LastSlot
  <2>. QED  BY <1>3, <1>4, <1>6, <2>1
<1>. QED  BY <1>5, <1>6

\* A figure that is on one position, and there as the library has it unless it
\* is dirty, is so after a save that does not refuse it.
LEMMA SavedClean ==
  ASSUME IInv, NEW R, Save(R), NEW e \in Foreign, OneCopy(e), CleanStored(e),
         NEW s \in CopiesOf(e), s \notin R
  PROVE  stored'[e] \in {figures[s].image, None}
<1>1. CASE s \in dirty
  <2>1. PICK t \in CopiesOf(e) \intersect (dirty \ R) : stored'[e] = figures[t].image
    BY <1>1, SavedCopy
  <2>. QED  BY <2>1 DEF OneCopy
<1>2. CASE s \notin dirty
  <2>1. CopiesOf(e) \intersect (dirty \ R) = {}
    BY <1>2 DEF OneCopy
  <2>2. stored'[e] = stored[e]
    BY <2>1, SavedCopy
  <2>. QED  BY <1>2, <2>2 DEF CleanStored
<1>. QED  BY <1>1, <1>2

LEMMA CleanKept ==
  ASSUME IInv, IInv', [Next]_vars, NEW e \in Foreign, OneCopy(e), CleanStored(e)
  PROVE  CleanStored(e)'
<1>. SUFFICES ASSUME NEW s \in Slots, ids'[s] = e, s \notin dirty'
     PROVE  stored'[e] \in {figures'[s].image, None}
  BY DEF CleanStored, CopiesOf
<1>0. e # None
  BY ActiveSlotsAssumption
<1>1. ASSUME ids'[s] = ids[s], s \notin dirty, figures'[s] = figures[s],
             stored'[e] \in {stored[e], None}
      PROVE  stored'[e] \in {figures'[s].image, None}
  BY <1>1 DEF CleanStored, CopiesOf
<1>2. ASSUME NEW R, Save(R), ids'[s] = ids[s], figures'[s] = figures[s], s \notin R
      PROVE  stored'[e] \in {figures'[s].image, None}
  <2>1. s \in CopiesOf(e)
    BY <1>2 DEF CopiesOf
  <2>. QED  BY <1>2, <2>1, SavedClean
<1>3. CASE UNCHANGED <<base, stored>>
  BY <1>1, <1>3 DEF base
<1>4. ASSUME NEW f \in Foreign, DeleteEntity(f)
      PROVE  stored'[e] \in {figures'[s].image, None}
  <2>1. stored'[e] \in {stored[e], None} /\ UNCHANGED base
    BY <1>4 DEF DeleteEntity, ChangeSelection, IInv, LibraryInv
  <2>. QED  BY <1>1, <2>1 DEF base
<1>5. CASE Flush \/ FlushForReboot
  BY <1>2, <1>5 DEF Flush, FlushForReboot
<1>6. CASE Reset
  BY <1>0, <1>6 DEF Reset
<1>7. CASE PollActiveEntity
  <2>1. PICK R \in Refusals : Save(R) /\ dirty' = R \ (ToLoad \union ToRemove)
    BY <1>7 DEF PollActiveEntity
  <2>2. /\ figures'[s] = IF s \in ToLoad THEN Loaded(figures[s], s, stored')
                         ELSE IF s \in ToRemove THEN [figures[s] EXCEPT !.present = FALSE]
                         ELSE figures[s]
        /\ ids'[s] = IF s \in ToLoad \union ToRemove THEN selection[s] ELSE ids[s]
    BY <1>7 DEF PollActiveEntity, Refreshed
  <2>3. CASE s \in ToLoad
    BY <2>2, <2>3 DEF Loaded
  <2>4. CASE s \in ToRemove
    BY <1>0, <2>2, <2>4 DEF ToRemove
  <2>5. CASE s \notin ToLoad \union ToRemove
    BY <1>2, <2>1, <2>2, <2>5
  <2>. QED  BY <2>3, <2>4, <2>5
<1>8. CASE PollFails
  BY <1>0, <1>8 DEF PollFails, ClearAllPositions
<1>9. ASSUME NEW o \in Slots, NEW img \in Images, WriteBlock(o, img)
      PROVE  stored'[e] \in {figures'[s].image, None}
  <2>1. ids' = ids /\ stored' = stored
    BY <1>9 DEF WriteBlock, Answered, library
  <2>2. s \notin dirty /\ figures'[s] = figures[s]
    BY <1>0, <1>9, <2>1 DEF WriteBlock
  <2>. QED  BY <1>1, <2>1, <2>2
<1>10. CASE AskPresence \/ OtherCommand \/ SendQueued \/ ReadEndpoint \/ GetReport
  BY <1>3, <1>10 DEF AskPresence, OtherCommand, Answered, SendQueued, ReadEndpoint,
                     GetReport, base, library
<1>. QED
  BY <1>3, <1>4, <1>5, <1>6, <1>7, <1>8, <1>9, <1>10
  DEF Next, SelectEntity, ClearActive, SetMode, ChangeSelection, base, library, vars

\* A position that is not marked dirty can be taken off at any time: the
\* library has its content, as long as the figure is on no second position
\* (poll_active_entity saves before it loads, mark_dirty_order,
\* flush_dirty_entities).
THEOREM CleanPositionsAreStored == Spec => CleanMeansStored
<1>1. IInv /\ IInv' /\ [Next]_vars =>
        [\A e \in Foreign : OneCopy(e) /\ CleanStored(e) => CleanStored(e)']_vars
  BY CleanKept
<1>. QED  BY <1>1, AlwaysIInv, PTL DEF Spec, CleanMeansStored

LEMMA DirtyKept ==
  ASSUME SaveInv, [Next]_vars, NEW s \in dirty
  PROVE  \/ s \in dirty' /\ ids'[s] = ids[s]
         \/ \E t \in CopiesOf(ids[s]) \intersect dirty :
              stored'[ids[s]] = figures[t].image
         \/ s \in refused'
<1>. DEFINE Kept ==
       \/ s \in dirty' /\ ids'[s] = ids[s]
       \/ \E t \in CopiesOf(ids[s]) \intersect dirty : stored'[ids[s]] = figures[t].image
       \/ s \in refused'
<1>. SUFFICES Kept
  OBVIOUS
<1>1. s \in Slots /\ ids[s] \in Foreign /\ s \in CopiesOf(ids[s])
  BY DEF SaveInv, IInv, BaseInv, TablesAgree, CopiesOf
<1>2. ASSUME NEW R, Save(R) PROVE Kept
  <2>1. CASE s \in R
    BY <1>2, <2>1 DEF Save
  <2>2. CASE s \notin R
    <3>1. PICK t \in CopiesOf(ids[s]) \intersect (dirty \ R) :
            stored'[ids[s]] = figures[t].image
      BY <1>1, <1>2, <2>2, SavedCopy DEF SaveInv
    <3>. QED  BY <3>1
  <2>. QED  BY <2>1, <2>2
<1>3. CASE ids' = ids /\ dirty \subseteq dirty'
  BY <1>3
<1>4. CASE Flush \/ FlushForReboot
  BY <1>2, <1>4 DEF Flush, FlushForReboot
<1>5. CASE PollActiveEntity
  BY <1>2, <1>5 DEF PollActiveEntity
<1>6. CASE PollFails
  BY <1>2, <1>6 DEF PollFails
<1>7. CASE Reset
  BY <1>7 DEF Reset, SaveInv, library
<1>8. ASSUME NEW o \in Slots, NEW img \in Images, WriteBlock(o, img) PROVE Kept
  BY <1>3, <1>8 DEF WriteBlock, Answered
<1>9. CASE AskPresence \/ OtherCommand \/ SendQueued \/ ReadEndpoint \/ GetReport
  BY <1>3, <1>9 DEF AskPresence, OtherCommand, Answered, SendQueued, ReadEndpoint,
                    GetReport, base
<1>. HIDE DEF Kept
<1>. QED
  BY <1>3, <1>4, <1>5, <1>6, <1>7, <1>8, <1>9
  DEF Next, SelectEntity, ClearActive, DeleteEntity, SetMode, ChangeSelection, base, vars

\* What the console wrote is given up - for another figure, a cleared position,
\* a failed read, the restart of a mode switch - only saved, replaced in the
\* library by another changed copy of the same figure, or refused
\* (poll_active_entity flushes before it looks at the selection, and so does
\* the restart).
THEOREM NothingDroppedSilently == Spec => DirtyLostOnlyIfRefused
<1>1. SaveInv /\ [Next]_vars =>
        [\A s \in dirty :
           \/ s \in dirty' /\ ids'[s] = ids[s]
           \/ \E t \in CopiesOf(ids[s]) \intersect dirty :
                stored'[ids[s]] = figures[t].image
           \/ s \in refused']_vars
  BY DirtyKept
<1>. QED  BY <1>1, AlwaysSaveInv, PTL DEF Spec, DirtyLostOnlyIfRefused
=============================================================================
