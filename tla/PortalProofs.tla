---------------------------- MODULE PortalProofs ----------------------------
(***************************************************************************)
(* Proofs about Portal, for any number of slots, any figures and combos,   *)
(* any hold time and any report queue.                                     *)
(***************************************************************************)
EXTENDS Portal, ActiveSlotsProofs, SequenceTheorems, TLAPS

(***************************************************************************)
(* Recursive functions: Walk and Compacted are what their equations say.   *)
(***************************************************************************)
\* The right side of the equation of Walk, for N reports.
WalkStep(ss, N, w) ==
  [n \in 0 .. N |-> IF n = 0 THEN ss ELSE Advanced(w[n - 1])]

LEMMA WalkExists ==
  ASSUME NEW ss
  PROVE  \A N \in Nat : \E w : w = WalkStep(ss, N, w)
<1>. DEFINE S == {N \in Nat : \E w : w = WalkStep(ss, N, w)}
<1>1. 0 \in S
  <2>. DEFINE w == [n \in 0 .. 0 |-> ss]
  <2>1. w = WalkStep(ss, 0, w)
    BY DEF WalkStep
  <2>. QED  BY <2>1
<1>2. ASSUME NEW N \in Nat, N \in S  PROVE N + 1 \in S
  <2>1. PICK w : w = WalkStep(ss, N, w)
    BY <1>2
  <2>. DEFINE x == [n \in 0 .. N + 1 |-> IF n = N + 1 THEN Advanced(w[N]) ELSE w[n]]
  <2>2. \A n \in 0 .. N : x[n] = w[n] /\ x[n] = IF n = 0 THEN ss ELSE Advanced(x[n - 1])
    <3>. TAKE n \in 0 .. N
    <3>1. x[n] = w[n]
      OBVIOUS
    <3>2. w[n] = IF n = 0 THEN ss ELSE Advanced(w[n - 1])
      BY <2>1 DEF WalkStep
    <3>3. n # 0 => x[n - 1] = w[n - 1]
      OBVIOUS
    <3>. QED  BY <3>1, <3>2, <3>3
  <2>3. x[N + 1] = Advanced(x[N])
    OBVIOUS
  <2>4. x = [n \in 0 .. N + 1 |-> x[n]]
    BY Zenon
  <2>. HIDE DEF x
  <2>5. \A n \in 0 .. N + 1 : x[n] = IF n = 0 THEN ss ELSE Advanced(x[n - 1])
    BY <2>2, <2>3
  <2>6. [n \in 0 .. N + 1 |-> x[n]] = WalkStep(ss, N + 1, x)
    BY <2>5, Zenon DEF WalkStep
  <2>. QED  BY <2>4, <2>6
<1>. HIDE DEF S
<1>3. Nat \subseteq S
  BY <1>1, <1>2, Induction
<1>. QED  BY <1>3 DEF S

LEMMA WalkEquation ==
  ASSUME NEW ss
  PROVE  Walk(ss) = WalkStep(ss, QueueLen, Walk(ss))
<1>1. QueueLen \in Nat
  BY PortalAssumption
<1>2. \E w : w = WalkStep(ss, QueueLen, w)
  BY <1>1, WalkExists
<1>. DEFINE c == CHOOSE w : w = WalkStep(ss, QueueLen, w)
<1>3. c = WalkStep(ss, QueueLen, c)
  BY <1>2, Zenon
<1>4. Walk(ss) = c
  BY DEF Walk, WalkStep
<1>. QED  BY <1>3, <1>4, Zenon

\* What a report keeps true is true after every report of a walk.
LEMMA WalkStays ==
  ASSUME NEW ss, NEW T, ss \in T[0],
         \A n \in Nat : \A x \in T[n] : Advanced(x) \in T[n + 1]
  PROVE  \A n \in 0 .. QueueLen : Walk(ss)[n] \in T[n]
<1>. DEFINE W == Walk(ss)
            S == {n \in Nat : n <= QueueLen => W[n] \in T[n]}
<1>1. QueueLen \in Nat
  BY PortalAssumption
<1>2. \A n \in 0 .. QueueLen : W[n] = IF n = 0 THEN ss ELSE Advanced(W[n - 1])
  BY WalkEquation DEF WalkStep
<1>. HIDE DEF W
<1>3. 0 \in S
  BY <1>1, <1>2
<1>4. ASSUME NEW n \in Nat, n \in S  PROVE n + 1 \in S
  <2>. SUFFICES ASSUME n + 1 <= QueueLen  PROVE W[n + 1] \in T[n + 1]
    OBVIOUS
  <2>1. W[n + 1] = Advanced(W[n])
    BY <1>1, <1>2
  <2>2. W[n] \in T[n]
    BY <1>1, <1>4
  <2>. QED  BY <2>1, <2>2
<1>. HIDE DEF S
<1>5. Nat \subseteq S
  BY <1>3, <1>4, Induction
<1>. QED  BY <1>1, <1>5 DEF S, W

\* The right side of the equation of Compacted, for N reports.
CompactStep(q, N, kept) ==
  [n \in 0 .. N |->
     IF n = 0 THEN <<>>
     ELSE IF q[n].op = "S" THEN kept[n - 1] ELSE Append(kept[n - 1], q[n])]

LEMMA CompactExists ==
  ASSUME NEW q
  PROVE  \A N \in Nat : \E kept : kept = CompactStep(q, N, kept)
<1>. DEFINE S == {N \in Nat : \E kept : kept = CompactStep(q, N, kept)}
            Step(n, before) == IF q[n].op = "S" THEN before ELSE Append(before, q[n])
<1>1. 0 \in S
  <2>. DEFINE w == [n \in 0 .. 0 |-> <<>>]
  <2>1. w = CompactStep(q, 0, w)
    BY DEF CompactStep
  <2>. QED  BY <2>1
<1>2. ASSUME NEW N \in Nat, N \in S  PROVE N + 1 \in S
  <2>1. PICK w : w = CompactStep(q, N, w)
    BY <1>2
  <2>2. \A n \in 0 .. N : w[n] = IF n = 0 THEN <<>> ELSE Step(n, w[n - 1])
    BY <2>1 DEF CompactStep
  <2>. HIDE DEF Step
  <2>. DEFINE x == [n \in 0 .. N + 1 |-> IF n = N + 1 THEN Step(N + 1, w[N]) ELSE w[n]]
  <2>3. \A n \in 0 .. N : x[n] = w[n] /\ x[n] = IF n = 0 THEN <<>> ELSE Step(n, x[n - 1])
    <3>. TAKE n \in 0 .. N
    <3>1. x[n] = w[n]
      OBVIOUS
    <3>2. w[n] = IF n = 0 THEN <<>> ELSE Step(n, w[n - 1])
      BY <2>2
    <3>3. n # 0 => x[n - 1] = w[n - 1]
      OBVIOUS
    <3>. QED  BY <3>1, <3>2, <3>3
  <2>4. x[N + 1] = Step(N + 1, x[N])
    OBVIOUS
  <2>5. x = [n \in 0 .. N + 1 |-> x[n]]
    BY Zenon
  <2>. HIDE DEF x
  <2>6. \A n \in 0 .. N + 1 : x[n] = IF n = 0 THEN <<>> ELSE Step(n, x[n - 1])
    BY <2>3, <2>4
  <2>7. [n \in 0 .. N + 1 |-> x[n]] = CompactStep(q, N + 1, x)
    BY <2>6, Zenon DEF CompactStep, Step
  <2>. QED  BY <2>5, <2>7
<1>. HIDE DEF S
<1>3. Nat \subseteq S
  BY <1>1, <1>2, Induction
<1>. QED  BY <1>3 DEF S

\* Dropping the status reports of a queue leaves its other reports, and none
\* if there are no others.
LEMMA CompactedKeeps ==
  ASSUME NEW q \in Seq(Reports)
  PROVE  /\ Compacted(q) \in Seq(Reports)
         /\ Len(Compacted(q)) <= Len(q)
         /\ (\A n \in 1 .. Len(q) : q[n].op = "S") => Compacted(q) = <<>>
<1>. DEFINE w == CHOOSE w : w = CompactStep(q, Len(q), w)
            Short(n) == /\ w[n] \in Seq(Reports) /\ Len(w[n]) <= n
                        /\ (\A i \in 1 .. n : q[i].op = "S") => w[n] = <<>>
            S == {n \in Nat : n <= Len(q) => Short(n)}
<1>1. Len(q) \in Nat
  OBVIOUS
<1>2. \E x : x = CompactStep(q, Len(q), x)
  BY <1>1, CompactExists
<1>3. w = CompactStep(q, Len(q), w)
  BY <1>2, Zenon
<1>4. Compacted(q) = w[Len(q)]
  BY DEF Compacted, CompactStep
<1>. HIDE DEF w
<1>5. 0 \in S
  <2>1. w[0] = <<>>
    BY <1>1, <1>3 DEF CompactStep
  <2>2. Short(0)
    BY <2>1
  <2>. QED  BY <2>2
<1>6. ASSUME NEW n \in Nat, n \in S  PROVE n + 1 \in S
  <2>. SUFFICES ASSUME n + 1 <= Len(q)  PROVE Short(n + 1)
    OBVIOUS
  <2>1. w[n + 1] = IF q[n + 1].op = "S" THEN w[n] ELSE Append(w[n], q[n + 1])
    <3>1. n + 1 \in 0 .. Len(q) /\ n + 1 # 0 /\ (n + 1) - 1 = n
      BY <1>1
    <3>. QED  BY <1>3, <3>1 DEF CompactStep
  <2>2. Short(n)
    BY <1>1, <1>6
  <2>3. q[n + 1] \in Reports
    BY <1>1
  <2>. QED  BY <2>1, <2>2, <2>3
<1>. HIDE DEF S
<1>7. Nat \subseteq S
  BY <1>5, <1>6, Induction
<1>. QED  BY <1>1, <1>4, <1>7 DEF S

(***************************************************************************)
(* What keeps a slot in order, whatever is queued.                         *)
(***************************************************************************)
\* With no figure nothing the slot is told to be is present; with a figure it
\* ends up present.  No more than `limit` statuses are queued.
Shape(slot) ==
  /\ slot.entity = NoFigure =>
       /\ slot.status \notin Present
       /\ \A n \in 1 .. Len(slot.queued) : slot.queued[n] \notin Present
  /\ slot.entity # NoFigure => FinalStatus(slot) \in Present

SoundSlots(limit) ==
  {slot \in PortalSlotType(Pieces) : Shape(slot) /\ Len(slot.queued) <= limit}

\* The longest queue is that of a figure replaced while the portal was off,
\* <<"removing", "removed", "added", "ready">>, and announced once more.
QueueLimit(on) == IF on THEN 6 ELSE 4

LEMMA SlotFields ==
  ASSUME NEW slot \in PortalSlotType(Pieces)
  PROVE  /\ slot.entity \in Pieces \union {NoFigure}
         /\ slot.status \in Statuses
         /\ slot.queued \in Seq(Statuses)
         /\ slot.hold \in 0 .. Hold - 1
         /\ \A h : [slot EXCEPT !.hold = h]
              = [entity |-> slot.entity, status |-> slot.status,
                 queued |-> slot.queued, hold |-> h]
  BY DEF PortalSlotType

LEMMA EmptyQueue ==
  ASSUME NEW R, NEW q \in Seq(R)
  PROVE  Len(q) \in Nat /\ (q = <<>> <=> Len(q) = 0)
  OBVIOUS

\* Every operation leaves a slot a slot.
LEMMA SlotTypes ==
  ASSUME NEW slot \in PortalSlotType(Pieces)
  PROVE  /\ NextStatus(slot) \in PortalSlotType(Pieces)
         /\ ClearSlot(slot) \in PortalSlotType(Pieces)
         /\ \A e \in Pieces : LoadEntity(slot, e) \in PortalSlotType(Pieces)
         /\ Activated(slot) \in PortalSlotType(Pieces)
         /\ Collapsed(slot) \in PortalSlotType(Pieces)
<1>. USE SlotFields, PortalSlotAssumption
<1>1. NextStatus(slot) \in PortalSlotType(Pieces)
  BY DEF NextStatus, PortalSlotType
<1>2. ClearSlot(slot) \in PortalSlotType(Pieces)
  BY DEF ClearSlot, PortalSlotType, Statuses
<1>3. \A e \in Pieces : LoadEntity(slot, e) \in PortalSlotType(Pieces)
  <2>1. <<"removing", "removed", "added", "ready">> \in Seq(Statuses)
    BY DEF Statuses
  <2>2. <<"added", "ready">> \in Seq(Statuses) /\ "added" \in Statuses
    BY DEF Statuses
  <2>3. 0 \in 0 .. Hold - 1
    OBVIOUS
  <2>. QED  BY <2>1, <2>2, <2>3 DEF LoadEntity, PortalSlotType
<1>4. Activated(slot) \in PortalSlotType(Pieces)
  <2>. DEFINE more == slot.queued \o <<"added", "ready">>
  <2>1. more \in Seq(Statuses)
    BY DEF Statuses
  <2>. HIDE DEF more
  <2>2. \A room \in 0 .. Len(more) : SubSeq(more, 1, room) \in Seq(Statuses)
    BY <2>1
  <2>. DEFINE room == IF Len(more) <= QueuedSlots THEN Len(more) ELSE QueuedSlots
  <2>3. room \in 0 .. Len(more)
    BY <2>1
  <2>. HIDE DEF room
  <2>4. PresentCycle(slot) = [entity |-> slot.entity, status |-> slot.status,
                              queued |-> SubSeq(more, 1, room), hold |-> 0]
    BY DEF PresentCycle, more, room
  <2>. QED  BY <2>2, <2>3, <2>4 DEF Activated, PortalSlotType
<1>5. Collapsed(slot) \in PortalSlotType(Pieces)
  BY DEF Collapsed, PortalSlotType, Statuses
<1>. QED  BY <1>1, <1>2, <1>3, <1>4, <1>5

LEMMA NextStatusSound ==
  ASSUME NEW limit \in Nat, NEW slot \in SoundSlots(limit)
  PROVE  NextStatus(slot) \in SoundSlots(limit)
<1>1. NextStatus(slot) \in PortalSlotType(Pieces)
  BY SlotTypes DEF SoundSlots
<1>2. slot \in PortalSlotType(Pieces) /\ Shape(slot) /\ Len(slot.queued) <= limit
  BY DEF SoundSlots
<1>. DEFINE h == [entity |-> slot.entity, status |-> slot.status,
                  queued |-> slot.queued, hold |-> slot.hold - 1]
            t == [entity |-> slot.entity, status |-> Head(slot.queued),
                  queued |-> Tail(slot.queued), hold |-> Hold - 1]
<1>3. CASE slot.hold > 0
  <2>1. NextStatus(slot) = h
    BY <1>2, <1>3, SlotFields DEF NextStatus
  <2>. QED  BY <1>1, <1>2, <2>1 DEF SoundSlots, Shape, FinalStatus
<1>4. CASE ~(slot.hold > 0) /\ slot.queued = <<>>
  BY <1>2, <1>4 DEF NextStatus
<1>5. CASE ~(slot.hold > 0) /\ slot.queued # <<>>
  <2>1. NextStatus(slot) = t
    BY <1>2, <1>5, SlotFields DEF NextStatus
  <2>2. /\ Len(slot.queued) \in Nat /\ Len(slot.queued) > 0
        /\ t.queued \in Seq(Statuses) /\ Len(t.queued) = Len(slot.queued) - 1
        /\ \A n \in 1 .. Len(t.queued) : t.queued[n] = slot.queued[n + 1]
        /\ t.status = slot.queued[1] /\ t.entity = slot.entity
    BY <1>2, <1>5, SlotFields
  <2>. HIDE DEF t
  <2>3. /\ slot.queued # <<>> /\ Len(t.queued) \in Nat
        /\ t.queued = <<>> <=> Len(t.queued) = 0
    BY <1>5, <2>2, EmptyQueue
  <2>4. FinalStatus(t) = FinalStatus(slot)
    <3>1. CASE t.queued = <<>>
      <4>1. Len(slot.queued) = 1
        BY <2>2, <2>3, <3>1
      <4>. QED  BY <2>2, <2>3, <3>1, <4>1 DEF FinalStatus
    <3>2. CASE t.queued # <<>>
      <4>1. PICK m \in 1 .. Len(t.queued) : m = Len(t.queued)
        BY <2>3, <3>2
      <4>2. m + 1 = Len(slot.queued)
        BY <2>2, <4>1
      <4>3. t.queued[Len(t.queued)] = slot.queued[Len(slot.queued)]
        BY <2>2, <4>1, <4>2
      <4>. QED  BY <2>3, <3>2, <4>3 DEF FinalStatus
    <3>. QED  BY <3>1, <3>2
  <2>5. Shape(t)
    <3>0. slot.entity = NoFigure => slot.queued[1] \notin Present
      BY <1>2, <2>2 DEF Shape
    <3>1. \A n \in 1 .. Len(t.queued) : n + 1 \in 1 .. Len(slot.queued)
      BY <2>2
    <3>2. 1 \in 1 .. Len(slot.queued)
      BY <2>2
    <3>. QED  BY <1>2, <2>2, <2>4, <3>1, <3>2 DEF Shape
  <2>. QED  BY <1>1, <1>2, <2>1, <2>2, <2>5 DEF SoundSlots
<1>. QED  BY <1>3, <1>4, <1>5

LEMMA ClearSlotSound ==
  ASSUME NEW limit \in Nat, limit >= 2, NEW slot \in SoundSlots(limit)
  PROVE  ClearSlot(slot) \in SoundSlots(limit)
<1>1. ClearSlot(slot) \in PortalSlotType(Pieces)
  BY SlotTypes DEF SoundSlots
<1>2. slot \in PortalSlotType(Pieces) /\ Shape(slot) /\ Len(slot.queued) <= limit
  BY DEF SoundSlots
<1>3. CASE slot.entity = NoFigure /\ slot.status = "removed"
  BY <1>3 DEF ClearSlot
<1>4. CASE ~(slot.entity = NoFigure /\ slot.status = "removed")
  <2>1. ClearSlot(slot) = [entity |-> NoFigure, status |-> "removing", hold |-> 0,
                           queued |-> <<"removing", "removed">>]
    BY <1>4 DEF ClearSlot
  <2>2. Shape(ClearSlot(slot)) /\ Len(ClearSlot(slot).queued) = 2
    BY <2>1 DEF Shape, Present
  <2>. QED  BY <1>1, <2>2 DEF SoundSlots
<1>. QED  BY <1>3, <1>4

LEMMA LoadEntitySound ==
  ASSUME NEW limit \in Nat, limit >= 4, NEW slot \in SoundSlots(limit),
         NEW e \in Pieces
  PROVE  LoadEntity(slot, e) \in SoundSlots(limit)
<1>1. LoadEntity(slot, e) \in PortalSlotType(Pieces)
  BY SlotTypes DEF SoundSlots
<1>2. e # NoFigure
  BY ActiveSlotsAssumption, PortalAssumption DEF Pieces
<1>. DEFINE l == LoadEntity(slot, e)
<1>3. /\ l.entity = e
      /\ l.queued \in {<<"removing", "removed", "added", "ready">>, <<"added", "ready">>}
  BY DEF LoadEntity
<1>. HIDE DEF l
<1>4. FinalStatus(l) \in Present /\ Len(l.queued) <= 4
  <2>1. CASE l.queued = <<"removing", "removed", "added", "ready">>
    BY <2>1 DEF FinalStatus, Present
  <2>2. CASE l.queued = <<"added", "ready">>
    BY <2>2 DEF FinalStatus, Present
  <2>. QED  BY <1>3, <2>1, <2>2
<1>. QED  BY <1>1, <1>2, <1>3, <1>4 DEF SoundSlots, Shape, l

\* queue_present_cycle finds room for its statuses in 8 places.
LEMMA ActivatedSound ==
  ASSUME QueuedSlots >= 8, NEW slot \in SoundSlots(4)
  PROVE  Activated(slot) \in SoundSlots(6)
<1>1. Activated(slot) \in PortalSlotType(Pieces)
  BY SlotTypes DEF SoundSlots
<1>2. slot \in PortalSlotType(Pieces) /\ Shape(slot) /\ Len(slot.queued) <= 4
  BY DEF SoundSlots
<1>3. CASE slot.status \in Present
  <2>. DEFINE more == slot.queued \o <<"added", "ready">>
  <2>1. /\ more \in Seq(Statuses) /\ Len(more) = Len(slot.queued) + 2
        /\ more[Len(more)] = "ready" /\ more # <<>>
    BY <1>2, SlotFields DEF Statuses
  <2>. HIDE DEF more
  <2>2. SubSeq(more, 1, Len(more)) = more
    BY <2>1
  <2>3. Len(more) <= QueuedSlots
    BY <1>2, <2>1, PortalSlotAssumption, SlotFields
  <2>4. Activated(slot) = [entity |-> slot.entity, status |-> slot.status,
                           queued |-> more, hold |-> 0]
    BY <1>2, <1>3, <2>2, <2>3, SlotFields DEF Activated, PresentCycle, more
  <2>5. slot.entity # NoFigure
    BY <1>2, <1>3 DEF Shape
  <2>. QED  BY <1>1, <1>2, <2>1, <2>4, <2>5, SlotFields
            DEF SoundSlots, Shape, FinalStatus, Present
<1>4. CASE slot.status \notin Present
  BY <1>2, <1>4, SlotFields DEF Activated, SoundSlots
<1>. QED  BY <1>3, <1>4

LEMMA CollapsedSound ==
  ASSUME NEW limit \in Nat, NEW slot \in SoundSlots(limit)
  PROVE  Collapsed(slot) \in SoundSlots(4)
<1>1. Collapsed(slot) \in PortalSlotType(Pieces)
  BY SlotTypes DEF SoundSlots
<1>2. slot \in PortalSlotType(Pieces) /\ Shape(slot)
  BY DEF SoundSlots
<1>3. slot.entity = NoFigure => FinalStatus(slot) \notin Present
  BY <1>2, SlotFields DEF Shape, FinalStatus
<1>. QED  BY <1>1, <1>2, <1>3, SlotFields
          DEF SoundSlots, Collapsed, Shape, FinalStatus, Present

(***************************************************************************)
(* Type correctness.                                                       *)
(***************************************************************************)
SlotTables == [Slots -> PortalSlotType(Pieces)]

LEMMA ReportTypes ==
  /\ \A ss \in SlotTables : StatusReport(ss) \in Reports
  /\ Answer \in Reports /\ Audio \in Reports
  /\ \A r \in Reports : r.op = "S" => r.slots \in [Slots -> SlotViews]
<1>1. ASSUME NEW ss \in SlotTables  PROVE StatusReport(ss) \in Reports
  <2>1. \A s \in Slots : /\ ss[s].status \in Statuses
                         /\ ss[s].entity \in Pieces \union {None}
    BY SlotFields, PortalAssumption DEF SlotTables
  <2>. QED  BY <2>1 DEF StatusReport, Reports, SlotViews
<1>2. Answer \in Reports /\ Audio \in Reports
  BY DEF Reports
<1>3. \A r \in Reports : r.op = "S" => r.slots \in [Slots -> SlotViews]
  BY DEF Reports, Answer, Audio
<1>. QED  BY <1>1, <1>2, <1>3

LEMMA AdvancedType ==
  \A ss \in SlotTables : Advanced(ss) \in SlotTables
  BY SlotTypes DEF Advanced, SlotTables

LEMMA WalkType ==
  ASSUME NEW ss \in SlotTables
  PROVE  \A n \in 0 .. QueueLen : Walk(ss)[n] \in SlotTables
<1>. DEFINE T == [n \in Nat |-> SlotTables]
<1>1. ss \in T[0] /\ \A n \in Nat : \A x \in T[n] : Advanced(x) \in T[n + 1]
  BY AdvancedType
<1>. HIDE DEF T
<1>2. \A n \in 0 .. QueueLen : Walk(ss)[n] \in T[n]
  BY <1>1, WalkStays
<1>. QED  BY <1>2, PortalAssumption DEF T

\* What is loaded onto a slot is a figure or a half.
LEMMA RefreshedType ==
  ASSUME selection \in Selections, slots \in SlotTables
  PROVE  [s \in Slots |-> Refreshed(s)] \in SlotTables
<1>1. ASSUME NEW slot \in PortalSlotType(Pieces), NEW e \in Pieces \union {None}
      PROVE  Loaded(slot, e) \in PortalSlotType(Pieces)
  BY SlotTypes DEF Loaded
<1>2. ASSUME NEW s \in Slots  PROVE Refreshed(s) \in PortalSlotType(Pieces)
  <2>1. /\ OwnOn(selection, s) \in Pieces \union {None}
        /\ BottomOn(selection, s) \in Pieces \union {None}
    BY ImageTypes DEF Pieces
  <2>2. /\ slots[s] \in PortalSlotType(Pieces)
        /\ ClearSlot(slots[s]) \in PortalSlotType(Pieces)
    BY SlotTypes DEF SlotTables
  <2>. QED  BY <1>1, <2>1, <2>2 DEF Refreshed
<1>. QED  BY <1>2 DEF SlotTables

\* A walk fills the queue and stops within it.
LEMMA QueueStatusReportsType ==
  ASSUME NEW ss \in SlotTables, QueueStatusReports(ss),
         queue \in Seq(Reports), Len(queue) <= QueueLen
  PROVE  /\ queue' \in Seq(Reports) /\ Len(queue') <= QueueLen
         /\ \E n \in 0 .. QueueLen : slots' = Walk(ss)[n]
         /\ (\A n \in 1 .. Len(queue) : queue[n].op = "S") =>
              slots' = Walk(ss)[QueueLen]
<1>. DEFINE kept == Compacted(queue)
            room == QueueLen - Len(kept)
            sent == [n \in 1 .. room |-> StatusReport(Walk(ss)[n])]
            last == IF kept = <<>> THEN room ELSE room + 1
<1>1. /\ kept \in Seq(Reports) /\ Len(kept) <= Len(queue)
      /\ (\A n \in 1 .. Len(queue) : queue[n].op = "S") => kept = <<>>
  BY CompactedKeeps
<1>2. queue' = kept \o sent
  BY DEF QueueStatusReports
<1>10. slots' = Walk(ss)[last]
  BY DEF QueueStatusReports
<1>. HIDE DEF kept
<1>3. kept = <<>> <=> Len(kept) = 0
  BY <1>1, EmptyQueue
<1>4. Len(kept) \in Nat /\ Len(kept) <= QueueLen /\ room \in 0 .. QueueLen
  <2>1. Len(queue) \in Nat /\ QueueLen \in Nat /\ Len(kept) \in Nat
    BY <1>1, PortalAssumption
  <2>2. Len(kept) <= Len(queue)
    BY <1>1
  <2>. QED  BY <2>1, <2>2
<1>5. sent \in Seq(Reports) /\ Len(sent) = room
  <2>1. \A n \in 1 .. room : StatusReport(Walk(ss)[n]) \in Reports
    BY <1>4, WalkType, ReportTypes, PortalAssumption
  <2>. QED  BY <1>4, <2>1
<1>6. last \in 0 .. QueueLen
  <2>1. kept # <<>> => Len(kept) >= 1
    BY <1>3, <1>4
  <2>. QED  BY <1>4, <2>1, PortalAssumption
<1>7. kept = <<>> => last = QueueLen
  BY <1>3, <1>4, PortalAssumption
<1>. HIDE DEF sent, last
<1>8. queue' \in Seq(Reports) /\ Len(queue') = Len(kept) + Len(sent)
  BY <1>1, <1>2, <1>5, ConcatProperties
<1>9. Len(queue') <= QueueLen
  <2>1. Len(kept) + Len(sent) = QueueLen
    BY <1>4, <1>5, PortalAssumption
  <2>. QED  BY <1>8, <2>1, PortalAssumption
<1>. QED  BY <1>1, <1>6, <1>7, <1>8, <1>9, <1>10

LEMMA PushType ==
  ASSUME NEW r \in Reports, PushReport(r),
         queue \in Seq(Reports), Len(queue) <= QueueLen
  PROVE  queue' \in Seq(Reports) /\ Len(queue') <= QueueLen
<1>1. Len(queue) \in Nat /\ QueueLen \in Nat
  BY PortalAssumption
<1>2. CASE Len(queue) < QueueLen
  BY <1>1, <1>2 DEF PushReport
<1>3. CASE ~(Len(queue) < QueueLen)
  <2>1. queue' = [queue EXCEPT ![QueueLen] = r]
    BY <1>3 DEF PushReport
  <2>2. Len(queue) = QueueLen /\ QueueLen \in 1 .. Len(queue)
    BY <1>1, <1>3, PortalAssumption
  <2>. QED  BY <2>1, <2>2, ExceptSeq
<1>. QED  BY <1>2, <1>3

\* A report that is read makes a view and takes no command back.
LEMMA ReceiveType ==
  ASSUME NEW r \in Reports, Receive(r), view \in [Slots -> SlotViews],
         awaiting \in 0 .. MaxOutstanding
  PROVE  view' \in [Slots -> SlotViews] /\ awaiting' \in 0 .. MaxOutstanding
<1>1. view' \in [Slots -> SlotViews]
  BY ReportTypes DEF Receive
<1>2. awaiting' \in 0 .. MaxOutstanding
  BY PortalAssumption DEF Receive
<1>. QED  BY <1>1, <1>2

LEMMA InitTyped == Init => TypeOK
<1>. SUFFICES ASSUME Init  PROVE TypeOK
  OBVIOUS
<1>1. NewSlot \in PortalSlotType(Pieces)
  BY PortalSlotAssumption DEF NewSlot, PortalSlotType, Statuses
<1>2. slots \in [Slots -> PortalSlotType(Pieces)]
  BY <1>1 DEF Init
<1>3. view \in [Slots -> SlotViews]
  BY DEF Init, SlotViews, Statuses
<1>4. selection \in Selections
  BY NothingSelected DEF Init
<1>5. changed \in BOOLEAN /\ active \in BOOLEAN
  BY DEF Init
<1>7. /\ queue \in Seq(Reports) /\ Len(queue) <= QueueLen
      /\ endpoint \in Seq(Reports) /\ Len(endpoint) <= 1
  BY EmptySeq, PortalAssumption DEF Init
<1>6. /\ awaiting \in 0 .. MaxOutstanding
      /\ changes \in 0 .. MaxChanges /\ failures \in 0 .. MaxFailures
  BY PortalAssumption DEF Init
<1>. QED  BY <1>2, <1>3, <1>4, <1>5, <1>6, <1>7 DEF TypeOK

LEMMA TypeNext == TypeOK /\ [Next]_vars => TypeOK'
<1>. SUFFICES ASSUME TypeOK, [Next]_vars  PROVE TypeOK'
  OBVIOUS
<1>t. /\ selection \in Selections /\ changed \in BOOLEAN /\ active \in BOOLEAN
      /\ slots \in SlotTables
      /\ queue \in Seq(Reports) /\ Len(queue) <= QueueLen
      /\ endpoint \in Seq(Reports) /\ Len(endpoint) <= 1
      /\ view \in [Slots -> SlotViews] /\ awaiting \in 0 .. MaxOutstanding
      /\ changes \in 0 .. MaxChanges /\ failures \in 0 .. MaxFailures
  BY DEF TypeOK, SlotTables
<1>a. Advanced(slots) \in SlotTables
  BY <1>t, AdvancedType
<1>. USE PortalAssumption
<1>1. ASSUME NEW e \in Selectable, NEW s \in Slots, SelectEntity(e, s)
      PROVE  TypeOK'
  <2>1. selection' \in Selections
    BY <1>1, <1>t, SelectionTypes DEF SelectEntity, Change
  <2>. QED  BY <1>1, <2>1 DEF SelectEntity, Change, TypeOK, device, console
<1>2. ASSUME NEW S, ClearActive(S)  PROVE TypeOK'
  <2>1. selection' \in Selections
    BY <1>2, <1>t, SelectionTypes DEF ClearActive, Change
  <2>. QED  BY <1>2, <2>1 DEF ClearActive, Change, TypeOK, device, console
<1>3. CASE PollActiveEntity
  <2>. DEFINE ss == [s \in Slots |-> Refreshed(s)]
  <2>1. ss \in SlotTables
    BY <1>t, RefreshedType
  <2>. HIDE DEF ss
  <2>2. QueueStatusReports(ss) \/ UNCHANGED <<queue, slots>>
    BY <1>3 DEF PollActiveEntity, ss
  <2>3. /\ queue' \in Seq(Reports) /\ Len(queue') <= QueueLen
        /\ slots' \in SlotTables
    <3>1. CASE QueueStatusReports(ss)
      BY <1>t, <2>1, <3>1, QueueStatusReportsType, WalkType
    <3>2. CASE UNCHANGED <<queue, slots>>
      BY <1>t, <3>2
    <3>. QED  BY <2>2, <3>1, <3>2
  <2>. QED  BY <1>3, <2>3 DEF PollActiveEntity, TypeOK, SlotTables, web, console
<1>4. CASE PollFails
  <2>1. slots' \in SlotTables
    BY <1>4, <1>t, SlotTypes DEF PollFails, SlotTables
  <2>. QED  BY <1>4, <2>1 DEF PollFails, TypeOK, SlotTables, web, console
<1>5. ASSUME Answered, slots' \in SlotTables, active' \in BOOLEAN  PROVE TypeOK'
  <2>1. queue' \in Seq(Reports) /\ Len(queue') <= QueueLen
    BY <1>5, <1>t, ReportTypes, PushType DEF Answered
  <2>. QED  BY <1>5, <2>1 DEF Answered, TypeOK, SlotTables, web
<1>6. CASE Activate
  <2>1. slots' \in SlotTables
    BY <1>6, <1>t, SlotTypes DEF Activate, SlotTables
  <2>. QED  BY <1>6, <1>5, <2>1 DEF Activate
<1>7. CASE Deactivate
  <2>1. slots' \in SlotTables
    BY <1>7, <1>t, SlotTypes DEF Deactivate, SlotTables
  <2>. QED  BY <1>7, <1>5, <2>1 DEF Deactivate
<1>8. CASE OtherCommand
  BY <1>8, <1>5, <1>t DEF OtherCommand
<1>9. CASE StatusCommand
  BY <1>9, <1>a DEF StatusCommand, TypeOK, SlotTables, web, console
<1>10. CASE AudioPacket
  <2>1. /\ queue' \in Seq(Reports) /\ Len(queue') <= QueueLen
        /\ endpoint' \in Seq(Reports) /\ Len(endpoint') <= 1
    <3>1. CASE endpoint' = <<Audio>> /\ UNCHANGED queue
      BY <1>t, <3>1, ReportTypes
    <3>2. CASE PushAudio /\ UNCHANGED endpoint
      BY <1>t, <3>2, ReportTypes DEF PushAudio
    <3>. QED  BY <1>10, <3>1, <3>2 DEF AudioPacket
  <2>. QED  BY <1>10, <2>1 DEF AudioPacket, TypeOK, web, console
<1>h. queue # <<>> => /\ Head(queue) \in Reports /\ Tail(queue) \in Seq(Reports)
                      /\ Len(Tail(queue)) <= QueueLen
  <2>. SUFFICES ASSUME queue # <<>>
                PROVE  /\ Head(queue) \in Reports /\ Tail(queue) \in Seq(Reports)
                       /\ Len(Tail(queue)) <= QueueLen
    OBVIOUS
  <2>1. /\ Head(queue) \in Reports /\ Tail(queue) \in Seq(Reports)
        /\ Len(Tail(queue)) = Len(queue) - 1
    BY <1>t, HeadTailProperties
  <2>2. Len(queue) \in Nat
    BY <1>t
  <2>. QED  BY <1>t, <2>1, <2>2
<1>11. CASE SendQueued
  <2>1. endpoint' \in Seq(Reports) /\ Len(endpoint') <= 1
    BY <1>11, <1>h DEF SendQueued
  <2>. QED  BY <1>11, <1>h, <2>1 DEF SendQueued, TypeOK, web, console
<1>12. CASE SendStatus
  <2>1. slots' \in SlotTables
    BY <1>12, <1>a DEF SendStatus
  <2>2. StatusReport(slots') \in Reports
    BY <2>1, ReportTypes
  <2>3. endpoint' \in Seq(Reports) /\ Len(endpoint') <= 1
    BY <1>12, <2>2 DEF SendStatus
  <2>. QED  BY <1>12, <2>1, <2>3 DEF SendStatus, TypeOK, SlotTables, web, console
<1>13. CASE LoseStatus
  BY <1>13, <1>a DEF LoseStatus, TypeOK, SlotTables, web, console
<1>14. CASE ReadEndpoint
  <2>1. Head(endpoint) \in Reports
    BY <1>14, <1>t, HeadTailProperties DEF ReadEndpoint
  <2>2. view' \in [Slots -> SlotViews] /\ awaiting' \in 0 .. MaxOutstanding
    BY <1>14, <1>t, <2>1, ReceiveType DEF ReadEndpoint
  <2>. QED  BY <1>14, <2>2 DEF ReadEndpoint, TypeOK, web, device
<1>15. CASE GetReport
  <2>1. /\ view' \in [Slots -> SlotViews] /\ awaiting' \in 0 .. MaxOutstanding
        /\ slots' \in SlotTables /\ queue' \in Seq(Reports) /\ Len(queue') <= QueueLen
    <3>1. CASE queue # <<>> /\ Receive(Head(queue)) /\ queue' = Tail(queue) /\ UNCHANGED slots
      BY <1>t, <1>h, <3>1, ReceiveType
    <3>2. CASE /\ slots' = Advanced(slots) /\ Receive(StatusReport(slots'))
               /\ UNCHANGED queue
      <4>1. slots' \in SlotTables
        BY <1>a, <3>2
      <4>2. StatusReport(slots') \in Reports
        BY <4>1, ReportTypes
      <4>. QED  BY <1>t, <3>2, <4>1, <4>2, ReceiveType
    <3>. QED  BY <1>15, <3>1, <3>2 DEF GetReport
  <2>. QED  BY <1>15, <2>1 DEF GetReport, TypeOK, SlotTables, web
<1>16. CASE UNCHANGED vars
  BY <1>16 DEF vars, web, device, console, TypeOK
<1>. QED  BY <1>1, <1>2, <1>3, <1>4, <1>6, <1>7, <1>8, <1>9, <1>10, <1>11,
             <1>12, <1>13, <1>14, <1>15, <1>16 DEF Next

\* Every reachable state has the right types: in particular no queue is longer
\* than its array, whatever a walk, an answer or an audio packet adds.
THEOREM TypeCorrect == Spec => []TypeOK
  BY InitTyped, TypeNext, PTL DEF Spec

(***************************************************************************)
(* Placement.  To the slots, every step is one of six things.              *)
(***************************************************************************)
Refresh == [s \in Slots |-> Refreshed(s)]

Walked ==
  /\ \E n \in 0 .. QueueLen : slots' = Walk(Refresh)[n]
  /\ (\A n \in 1 .. Len(queue) : queue[n].op = "S") => slots' = Walk(Refresh)[QueueLen]

SlotStep ==
  \/ active' = active /\ slots' = slots
  \/ active' = active /\ slots' = Advanced(slots)
  \/ active' = active /\ Walked
  \/ active' = active /\ changed' /\ slots' = [s \in Slots |-> ClearSlot(slots[s])]
  \/ ~active /\ active' /\ slots' = [s \in Slots |-> Activated(slots[s])]
  \/ ~active' /\ slots' = [s \in Slots |-> Collapsed(slots[s])]

LEMMA StepsOfSlots == TypeOK /\ [Next]_vars => SlotStep
<1>. SUFFICES ASSUME TypeOK, [Next]_vars  PROVE SlotStep
  OBVIOUS
<1>1. ASSUME NEW e \in Selectable, NEW s \in Slots, SelectEntity(e, s)
      PROVE  SlotStep
  BY <1>1 DEF SelectEntity, Change, SlotStep, device
<1>2. ASSUME NEW S, ClearActive(S)  PROVE SlotStep
  BY <1>2 DEF ClearActive, Change, SlotStep, device
<1>3. CASE PollActiveEntity
  <2>1. active' = active
    BY <1>3 DEF PollActiveEntity
  <2>2. CASE QueueStatusReports(Refresh)
    <3>1. Refresh \in SlotTables
      BY RefreshedType DEF Refresh, TypeOK, SlotTables
    <3>2. Walked
      BY <2>2, <3>1, QueueStatusReportsType DEF Walked, TypeOK
    <3>. QED  BY <2>1, <3>2 DEF SlotStep
  <2>3. CASE slots' = slots
    BY <2>1, <2>3 DEF SlotStep
  <2>. QED  BY <1>3, <2>2, <2>3 DEF PollActiveEntity, Refresh
<1>4. CASE PollFails
  BY <1>4 DEF PollFails, SlotStep
<1>5. CASE Activate
  BY <1>5 DEF Activate, SlotStep, TypeOK
<1>6. CASE Deactivate
  BY <1>6 DEF Deactivate, SlotStep
<1>7. CASE OtherCommand \/ AudioPacket \/ SendQueued \/ ReadEndpoint
  BY <1>7 DEF OtherCommand, AudioPacket, SendQueued, ReadEndpoint, SlotStep, device
<1>8. CASE StatusCommand \/ SendStatus \/ LoseStatus \/ GetReport
  BY <1>8 DEF StatusCommand, SendStatus, LoseStatus, GetReport, SlotStep
<1>9. CASE UNCHANGED vars
  BY <1>9 DEF vars, device, SlotStep
<1>. QED  BY <1>1, <1>2, <1>3, <1>4, <1>5, <1>6, <1>7, <1>8, <1>9 DEF Next

SlotsSound == slots \in [Slots -> SoundSlots(QueueLimit(active))]

LEMMA LimitIsWithin ==
  ASSUME NEW on \in BOOLEAN
  PROVE  QueueLimit(on) \in Nat /\ QueueLimit(on) >= 4
  BY DEF QueueLimit

LEMMA InitSound == Init => SlotsSound
<1>. SUFFICES ASSUME Init  PROVE SlotsSound
  OBVIOUS
<1>1. NewSlot \in PortalSlotType(Pieces)
  BY PortalSlotAssumption DEF NewSlot, PortalSlotType, Statuses
<1>2. NewSlot \in SoundSlots(QueueLimit(TRUE))
  BY <1>1 DEF SoundSlots, Shape, NewSlot, Present, QueueLimit
<1>. QED  BY <1>2 DEF Init, SlotsSound

LEMMA SoundWalk ==
  ASSUME NEW limit \in Nat, limit >= 4, slots \in [Slots -> SoundSlots(limit)],
         selection \in Selections
  PROVE  \A n \in 0 .. QueueLen : Walk(Refresh)[n] \in [Slots -> SoundSlots(limit)]
<1>1. ASSUME NEW slot \in SoundSlots(limit), NEW e \in Pieces \union {None}
      PROVE  Loaded(slot, e) \in SoundSlots(limit)
  BY LoadEntitySound DEF Loaded
<1>2. ASSUME NEW s \in Slots  PROVE Refreshed(s) \in SoundSlots(limit)
  <2>1. /\ OwnOn(selection, s) \in Pieces \union {None}
        /\ BottomOn(selection, s) \in Pieces \union {None}
    BY ImageTypes DEF Pieces
  <2>2. /\ slots[s] \in SoundSlots(limit)
        /\ ClearSlot(slots[s]) \in SoundSlots(limit)
    BY ClearSlotSound
  <2>. QED  BY <1>1, <2>1, <2>2 DEF Refreshed
<1>. DEFINE T == [n \in Nat |-> [Slots -> SoundSlots(limit)]]
<1>3. Refresh \in T[0]
  BY <1>2 DEF Refresh
<1>4. \A n \in Nat : \A x \in T[n] : Advanced(x) \in T[n + 1]
  BY NextStatusSound DEF Advanced
<1>. HIDE DEF T
<1>5. \A n \in 0 .. QueueLen : Walk(Refresh)[n] \in T[n]
  BY <1>3, <1>4, WalkStays
<1>. QED  BY <1>5, PortalAssumption DEF T

\* The places the code has for queued statuses.
RoomForStatuses == QueuedSlots >= 8

LEMMA SoundNext ==
  ASSUME RoomForStatuses
  PROVE  TypeOK /\ SlotsSound /\ [Next]_vars => SlotsSound'
<1>. SUFFICES ASSUME TypeOK, SlotsSound, [Next]_vars  PROVE SlotsSound'
  OBVIOUS
<1>0. /\ active \in BOOLEAN /\ selection \in Selections
      /\ QueueLimit(active) \in Nat /\ QueueLimit(active) >= 4
  BY LimitIsWithin DEF TypeOK
<1>. DEFINE limit == QueueLimit(active)
<1>. HIDE DEF limit
<1>a. /\ limit \in Nat /\ limit >= 4 /\ limit = QueueLimit(active)
      /\ slots \in [Slots -> SoundSlots(limit)]
  BY <1>0 DEF limit, SlotsSound
<1>b. active' = active /\ slots' \in [Slots -> SoundSlots(limit)] => SlotsSound'
  BY <1>a DEF SlotsSound
<1>1. CASE active' = active /\ slots' = slots
  BY <1>a, <1>b, <1>1
<1>2. CASE active' = active /\ slots' = Advanced(slots)
  BY <1>a, <1>b, <1>2, NextStatusSound DEF Advanced
<1>3. CASE active' = active /\ Walked
  BY <1>0, <1>a, <1>b, <1>3, SoundWalk DEF Walked
<1>4. CASE active' = active /\ slots' = [s \in Slots |-> ClearSlot(slots[s])]
  BY <1>a, <1>b, <1>4, ClearSlotSound
<1>5. CASE ~active /\ active' /\ slots' = [s \in Slots |-> Activated(slots[s])]
  <2>1. slots \in [Slots -> SoundSlots(4)]
    BY <1>a, <1>5 DEF QueueLimit
  <2>2. slots' \in [Slots -> SoundSlots(6)]
    BY <1>5, <2>1, ActivatedSound DEF RoomForStatuses
  <2>. QED  BY <1>5, <2>2 DEF SlotsSound, QueueLimit
<1>6. CASE ~active' /\ slots' = [s \in Slots |-> Collapsed(slots[s])]
  <2>1. slots' \in [Slots -> SoundSlots(4)]
    BY <1>a, <1>6, CollapsedSound
  <2>. QED  BY <1>6, <2>1 DEF SlotsSound, QueueLimit
<1>. QED  BY <1>1, <1>2, <1>3, <1>4, <1>5, <1>6, StepsOfSlots DEF SlotStep

LEMMA SoundIsConsistent ==
  ASSUME RoomForStatuses
  PROVE  TypeOK /\ SlotsSound => SlotsConsistent
<1>. SUFFICES ASSUME TypeOK, SlotsSound, NEW s \in Slots
              PROVE  /\ slots[s].status \in Present => slots[s].entity # NoFigure
                     /\ FinalStatus(slots[s]) \in Present <=> slots[s].entity # NoFigure
                     /\ Len(slots[s].queued) + 2 <= QueuedSlots
  BY DEF SlotsConsistent
<1>. DEFINE slot == slots[s]
<1>1. slot \in SoundSlots(QueueLimit(active))
  BY DEF SlotsSound
<1>. HIDE DEF slot
<1>2. slot \in PortalSlotType(Pieces) /\ Shape(slot) /\ Len(slot.queued) <= 6
  BY <1>1, SlotFields DEF SoundSlots, QueueLimit
<1>3. /\ slot.status \in Present => slot.entity # NoFigure
      /\ slot.entity # NoFigure => FinalStatus(slot) \in Present
  BY <1>2 DEF Shape
<1>4. slot.entity = NoFigure => FinalStatus(slot) \notin Present
  BY <1>2, SlotFields DEF Shape, FinalStatus
<1>5. Len(slot.queued) + 2 <= QueuedSlots
  BY <1>2, SlotFields, PortalSlotAssumption DEF RoomForStatuses
<1>. QED  BY <1>3, <1>4, <1>5 DEF slot

\* Whatever is queued, cut short by a deactivation or lost on the way, a slot
\* ends up present exactly when it has a figure, is never present without one,
\* and the 8 places of queued_statuses are enough: queue_present_cycle never
\* drops a status.
THEOREM StatusesMatchFigures ==
  ASSUME RoomForStatuses
  PROVE  Spec => []SlotsConsistent
<1>1. Init => SlotsSound
  BY InitSound
<1>2. TypeOK /\ SlotsSound /\ [Next]_vars => SlotsSound'
  BY SoundNext
<1>3. TypeOK /\ SlotsSound => SlotsConsistent
  BY SoundIsConsistent
<1>. QED  BY <1>1, <1>2, <1>3, TypeCorrect, PTL DEF Spec

(***************************************************************************)
(* The placement is that of the selection.                                 *)
(***************************************************************************)
LEMMA OwnImage ==
  ASSUME selection \in Selections, NEW s \in Slots, selection[s] \notin Foreign
  PROVE  OwnOn(selection, s) = None <=> selection[s] = None
<1>1. selection[s] \in Figures \union Combos \union {None}
  BY DEF Selections, Selectable
<1>2. \A c \in Combos : c[1] # None
  BY ActiveSlotsAssumption
<1>. QED  BY <1>1, <1>2, ActiveSlotsAssumption DEF OwnOn

\* A poll clears and loads each slot until it has the image for it.
LEMMA RefreshedFollows ==
  ASSUME selection \in Selections, NEW s \in Slots, selection[s] \notin Foreign
  PROVE  Refreshed(s).entity = ImageOn(selection, s)
<1>. DEFINE kept   == IF selection[s] = None /\ slots[s].entity # NoFigure
                      THEN ClearSlot(slots[s]) ELSE slots[s]
            bottom == BottomOn(selection, s)
            own    == OwnOn(selection, s)
<1>1. \A slot, e : Loaded(slot, e).entity = IF e = None THEN slot.entity ELSE e
  BY DEF Loaded, LoadEntity
<1>2. Refreshed(s) = Loaded(Loaded(kept, bottom), own)
  BY DEF Refreshed
<1>3. own = None => selection[s] = None
  BY OwnImage
<1>4. selection[s] = None => kept.entity = None
  BY PortalAssumption DEF ClearSlot
<1>5. ImageOn(selection, s) = IF own # None THEN own ELSE bottom
  BY DEF ImageOn
<1>. HIDE DEF kept, bottom, own
<1>. QED  BY <1>1, <1>2, <1>3, <1>4, <1>5

\* A walk does not change what stands on a slot.
LEMMA WalkKeepsFigures ==
  ASSUME NEW ss \in SlotTables, NEW s \in Slots
  PROVE  \A n \in 0 .. QueueLen : Walk(ss)[n][s].entity = ss[s].entity
<1>. DEFINE T == [n \in Nat |-> {x \in SlotTables : x[s].entity = ss[s].entity}]
<1>1. ss \in T[0]
  OBVIOUS
<1>2. \A slot \in PortalSlotType(Pieces) : NextStatus(slot).entity = slot.entity
  BY SlotFields DEF NextStatus
<1>3. ASSUME NEW n \in Nat, NEW x \in T[n]  PROVE Advanced(x) \in T[n + 1]
  <2>1. Advanced(x) \in SlotTables /\ Advanced(x)[s] = NextStatus(x[s])
    BY AdvancedType DEF Advanced
  <2>. QED  BY <1>2, <2>1 DEF SlotTables
<1>. HIDE DEF T
<1>4. \A n \in 0 .. QueueLen : Walk(ss)[n] \in T[n]
  BY <1>1, <1>3, WalkStays
<1>. QED  BY <1>4, PortalAssumption DEF T

LEMMA PollFollows == TypeOK /\ PollActiveEntity => PlacementFollows'
<1>. SUFFICES ASSUME TypeOK, PollActiveEntity, NEW s \in Slots, selection[s] \notin Foreign
              PROVE  slots'[s].entity = ImageOn(selection, s)
  BY DEF PlacementFollows, PollActiveEntity, web
<1>1. selection \in Selections /\ slots \in SlotTables
  BY DEF TypeOK, SlotTables
<1>2. CASE PlacementChanged
  <2>1. Refresh \in SlotTables /\ Refresh[s] = Refreshed(s)
    BY <1>1, RefreshedType DEF Refresh
  <2>2. \E n \in 0 .. QueueLen : slots' = Walk(Refresh)[n]
    BY <1>2, <2>1, QueueStatusReportsType DEF PollActiveEntity, Refresh, TypeOK
  <2>. QED  BY <1>1, <2>1, <2>2, WalkKeepsFigures, RefreshedFollows
<1>3. CASE ~PlacementChanged
  <2>1. slots' = slots
    BY <1>3 DEF PollActiveEntity
  <2>2. /\ selection[s] = None => slots[s].entity = None
        /\ OwnOn(selection, s) \in {None, slots[s].entity}
        /\ BottomOn(selection, s) \in {None, slots[s].entity}
    BY <1>3, PortalAssumption DEF PlacementChanged
  <2>3. OwnOn(selection, s) = None <=> selection[s] = None
    BY <1>1, OwnImage
  <2>. QED  BY <2>1, <2>2, <2>3 DEF ImageOn
<1>. QED  BY <1>2, <1>3

\* Every other step leaves the marker different, or the figures where they are.
LEMMA StepsOfPlacement ==
  TypeOK /\ [Next]_vars =>
    \/ changed' \/ PollActiveEntity
    \/ /\ UNCHANGED <<selection, changed>>
       /\ \A s \in Slots : slots'[s].entity = slots[s].entity
<1>. SUFFICES ASSUME TypeOK, [Next]_vars, ~changed', ~PollActiveEntity
              PROVE  /\ UNCHANGED <<selection, changed>>
                     /\ \A s \in Slots : slots'[s].entity = slots[s].entity
  OBVIOUS
<1>1. UNCHANGED <<selection, changed>>
  BY DEF Next, SelectEntity, ClearActive, Change, PollFails, Answered, Activate,
         Deactivate, OtherCommand, StatusCommand, AudioPacket, SendQueued, SendStatus,
         LoseStatus, ReadEndpoint, GetReport, vars, web
<1>2. \/ slots' = slots \/ slots' = Advanced(slots)
      \/ slots' = [s \in Slots |-> Activated(slots[s])]
      \/ slots' = [s \in Slots |-> Collapsed(slots[s])]
  BY DEF Next, SelectEntity, ClearActive, Change, PollFails, Answered, Activate,
         Deactivate, OtherCommand, StatusCommand, AudioPacket, SendQueued, SendStatus,
         LoseStatus, ReadEndpoint, GetReport, vars, web, device
<1>3. \A slot \in PortalSlotType(Pieces) :
        /\ NextStatus(slot).entity = slot.entity
        /\ Activated(slot).entity = slot.entity
        /\ Collapsed(slot).entity = slot.entity
  BY SlotFields DEF NextStatus, Activated, PresentCycle, Collapsed
<1>4. \A s \in Slots : slots[s] \in PortalSlotType(Pieces)
  BY DEF TypeOK
<1>. QED  BY <1>1, <1>2, <1>3, <1>4 DEF Advanced

\* When the device takes the selection for known, the portal shows that
\* selection: a poll that fails half way keeps the marker different, and no
\* report, command or (de)activation moves a figure (poll_active_entity).
THEOREM PlacementIsCurrent == Spec => []PlacementFollows
<1>1. Init => PlacementFollows
  <2>. SUFFICES ASSUME Init, NEW s \in Slots  PROVE slots[s].entity = ImageOn(selection, s)
    BY DEF PlacementFollows
  <2>1. slots[s].entity = None /\ \A x \in Slots : selection[x] = None
    BY PortalAssumption DEF Init, NewSlot, NoSelection
  <2>2. None \notin Combos \union Figures
    BY ActiveSlotsAssumption
  <2>3. OwnOn(selection, s) = None
    BY <2>1, <2>2 DEF OwnOn
  <2>4. s > 0 => s - 1 \in Slots
    BY ActiveSlotsAssumption DEF Slots
  <2>5. BottomOn(selection, s) = None
    BY <2>1, <2>2, <2>4 DEF BottomOn
  <2>. QED  BY <2>1, <2>3, <2>5 DEF ImageOn
<1>2. TypeOK /\ PlacementFollows /\ [Next]_vars => PlacementFollows'
  <2>. SUFFICES ASSUME TypeOK, PlacementFollows, [Next]_vars  PROVE PlacementFollows'
    OBVIOUS
  <2>1. CASE changed'
    BY <2>1 DEF PlacementFollows
  <2>2. CASE PollActiveEntity
    BY <2>2, PollFollows
  <2>3. CASE /\ UNCHANGED <<selection, changed>>
             /\ \A s \in Slots : slots'[s].entity = slots[s].entity
    BY <2>3 DEF PlacementFollows
  <2>. QED  BY <2>1, <2>2, <2>3, StepsOfPlacement
<1>. QED  BY <1>1, <1>2, TypeCorrect, PTL DEF Spec

(***************************************************************************)
(* Announcements.  A slot has so many reports to go as Left says, and each *)
(* report is one of them.                                                  *)
(***************************************************************************)
Left(slot) == Hold * Len(slot.queued) + slot.hold

LEMMA OneLess ==
  ASSUME NEW slot \in PortalSlotType(Pieces)
  PROVE  /\ NextStatus(slot).entity = slot.entity
         /\ Left(slot) \in Nat /\ Left(NextStatus(slot)) \in Nat
         /\ \/ Left(NextStatus(slot)) < Left(slot)
            \/ Left(slot) = 0 /\ NextStatus(slot) = slot
<1>. DEFINE h == [entity |-> slot.entity, status |-> slot.status,
                  queued |-> slot.queued, hold |-> slot.hold - 1]
            t == [entity |-> slot.entity, status |-> Head(slot.queued),
                  queued |-> Tail(slot.queued), hold |-> Hold - 1]
            k == Len(slot.queued)
<1>1. /\ slot.queued \in Seq(Statuses) /\ k \in Nat /\ slot.hold \in 0 .. Hold - 1
      /\ Hold \in Nat \ {0} /\ (slot.queued = <<>> <=> k = 0)
  BY SlotFields, EmptyQueue, PortalSlotAssumption
<1>2. Left(slot) = Hold * k + slot.hold /\ Hold * k \in Nat
  BY <1>1 DEF Left
<1>3. CASE slot.hold > 0
  <2>1. NextStatus(slot) = h
    BY <1>3, SlotFields DEF NextStatus
  <2>2. Left(NextStatus(slot)) = Hold * k + (slot.hold - 1)
    BY <2>1 DEF Left
  <2>. HIDE DEF k
  <2>. QED  BY <1>1, <1>2, <1>3, <2>1, <2>2
<1>4. CASE ~(slot.hold > 0) /\ slot.queued = <<>>
  BY <1>1, <1>2, <1>4 DEF NextStatus
<1>5. CASE ~(slot.hold > 0) /\ slot.queued # <<>>
  <2>1. NextStatus(slot) = t
    BY <1>5 DEF NextStatus
  <2>2. Len(t.queued) = k - 1
    BY <1>1, <1>5, HeadTailProperties
  <2>3. Left(t) = Hold * (k - 1) + (Hold - 1)
    BY <2>2 DEF Left
  <2>. HIDE DEF k, t
  <2>4. Hold * (k - 1) = Hold * k - Hold /\ k >= 1
    BY <1>1, <1>5
  <2>5. k - 1 \in Nat /\ Hold * (k - 1) \in Nat
    BY <1>1, <2>4
  <2>6. t.entity = slot.entity
    BY DEF t
  <2>7. slot.hold = 0
    BY <1>1, <1>5
  <2>. QED  BY <1>1, <1>2, <2>1, <2>3, <2>4, <2>5, <2>6, <2>7
<1>. QED  BY <1>3, <1>4, <1>5

\* A slot whose figure changes in a poll starts its announcement afresh.
LEMMA FreshSlot ==
  ASSUME NEW s \in Slots, slots \in SlotTables, selection \in Selections,
         Refreshed(s).entity # slots[s].entity
  PROVE  Left(Refreshed(s)) <= 4 * Hold
<1>. DEFINE Fresh(slot) == slot.hold = 0 /\ Len(slot.queued) \in 0 .. 4
            before == slots[s]
            kept == IF selection[s] = None /\ before.entity # NoFigure
                    THEN ClearSlot(before) ELSE before
<1>1. kept = before \/ Fresh(kept)
  BY DEF ClearSlot
<1>2. \A slot, e : Loaded(slot, e) = slot \/ Fresh(Loaded(slot, e))
  <2>1. \A slot, e : Fresh(LoadEntity(slot, e))
    BY DEF LoadEntity
  <2>. HIDE DEF Fresh
  <2>. QED  BY <2>1 DEF Loaded
<1>3. Refreshed(s) = Loaded(Loaded(kept, BottomOn(selection, s)), OwnOn(selection, s))
  BY DEF Refreshed
<1>4. Refreshed(s) # before
  OBVIOUS
<1>. HIDE DEF Fresh, kept
<1>5. Fresh(Refreshed(s))
  BY <1>1, <1>2, <1>3, <1>4
<1>6. \A k \in 0 .. 4 : Hold * k + 0 <= 4 * Hold
  <2>1. \A k \in 0 .. 4 : k = 0 \/ k = 1 \/ k = 2 \/ k = 3 \/ k = 4
    OBVIOUS
  <2>. QED  BY <2>1, PortalSlotAssumption
<1>. QED  BY <1>5, <1>6 DEF Fresh, Left

\* The code's own queue has 32 places, and a status is held for 8 reports.
WalkFits == QueueLen > 3 * Hold

\* With nothing else in the queue a walk ends when all is announced.
LEMMA WalkEnds ==
  ASSUME WalkFits, NEW ss \in SlotTables, NEW s \in Slots
  PROVE  /\ \A n \in 0 .. QueueLen : Walk(ss)[n][s].entity = ss[s].entity
         /\ Left(ss[s]) <= 4 * Hold => Walk(ss)[QueueLen][s].queued = <<>>
<1>. DEFINE Togo(n) == {k \in Nat : k = 0 \/ k + n <= Left(ss[s])}
            T == [n \in Nat |-> {x \in SlotTables :
                    x[s].entity = ss[s].entity /\ Left(x[s]) \in Togo(n)}]
<1>1. ss \in T[0]
  BY OneLess DEF SlotTables
<1>2. ASSUME NEW n \in Nat, NEW x \in T[n]  PROVE Advanced(x) \in T[n + 1]
  <2>1. x \in SlotTables /\ x[s].entity = ss[s].entity /\ Left(x[s]) \in Togo(n)
    OBVIOUS
  <2>2. x[s] \in PortalSlotType(Pieces) /\ ss[s] \in PortalSlotType(Pieces)
    BY <2>1 DEF SlotTables
  <2>3. Advanced(x) \in SlotTables /\ Advanced(x)[s] = NextStatus(x[s])
    BY <2>1, AdvancedType DEF Advanced
  <2>4. NextStatus(x[s]).entity = ss[s].entity
    BY <2>1, <2>2, OneLess
  <2>5. Left(NextStatus(x[s])) \in Togo(n + 1)
    <3>1. /\ Left(ss[s]) \in Nat /\ Left(x[s]) \in Nat /\ Left(NextStatus(x[s])) \in Nat
          /\ \/ Left(NextStatus(x[s])) < Left(x[s])
             \/ Left(NextStatus(x[s])) = 0
      BY <2>2, OneLess
    <3>. QED  BY <2>1, <3>1
  <2>. QED  BY <2>3, <2>4, <2>5
<1>. HIDE DEF T
<1>3. \A n \in 0 .. QueueLen : Walk(ss)[n] \in T[n]
  BY <1>1, <1>2, WalkStays
<1>4. ASSUME Left(ss[s]) <= 4 * Hold  PROVE Walk(ss)[QueueLen][s].queued = <<>>
  <2>. DEFINE last == Walk(ss)[QueueLen][s]
  <2>1. last \in PortalSlotType(Pieces) /\ Left(last) \in Togo(QueueLen)
    BY <1>3, PortalAssumption DEF T, SlotTables
  <2>. HIDE DEF last
  <2>2. /\ Len(last.queued) \in Nat /\ last.hold \in Nat /\ Hold \in Nat \ {0}
        /\ (last.queued = <<>> <=> Len(last.queued) = 0)
    BY <2>1, SlotFields, EmptyQueue, PortalSlotAssumption
  <2>3. ss[s] \in PortalSlotType(Pieces) /\ Left(ss[s]) \in Nat
    BY OneLess DEF SlotTables
  <2>4. Left(last) < Hold
    BY <1>4, <2>1, <2>2, <2>3, PortalAssumption DEF WalkFits
  <2>. DEFINE k == Len(last.queued)
  <2>5. Left(last) = Hold * k + last.hold
    BY DEF Left
  <2>6. k \in Nat /\ Hold * k < Hold
    <3>1. k \in Nat /\ Hold * k \in Nat
      BY <2>2
    <3>. HIDE DEF k
    <3>. QED  BY <2>2, <2>4, <2>5, <3>1
  <2>7. k = 0
    <3>. HIDE DEF k
    <3>1. k >= 1 => Hold * k >= Hold
      BY <2>2, <2>6
    <3>. QED  BY <2>2, <2>6, <3>1
  <2>. QED  BY <2>2, <2>7 DEF last
<1>. QED  BY <1>3, <1>4, PortalAssumption DEF T

\* Unless other reports wait, all statuses of a slot whose figure changed are
\* queued at once: REPORT_QUEUE_LEN is enough for a whole replacement, whose
\* four statuses are held for PLACEMENT_STATUS_HOLD_REPORTS reports each.
THEOREM ReplacementsAreQueuedWhole ==
  ASSUME WalkFits
  PROVE  Spec => WholeWalkQueued
<1>. DEFINE A == ~changed' /\ (\A n \in 1 .. Len(queue) : queue[n].op = "S") =>
                   \A s \in Slots : slots'[s].entity # slots[s].entity =>
                                      slots'[s].queued = <<>>
<1>1. TypeOK /\ [Next]_vars => A
  <2>. SUFFICES ASSUME TypeOK, [Next]_vars, ~changed',
                       \A n \in 1 .. Len(queue) : queue[n].op = "S",
                       NEW s \in Slots, slots'[s].entity # slots[s].entity
                PROVE  slots'[s].queued = <<>>
    OBVIOUS
  <2>1. slots \in SlotTables /\ selection \in Selections /\ slots[s] \in PortalSlotType(Pieces)
    BY DEF TypeOK, SlotTables
  <2>2. CASE Walked
    <3>1. Refresh \in SlotTables /\ Refresh[s] = Refreshed(s)
      BY <2>1, RefreshedType DEF Refresh
    <3>2. slots' = Walk(Refresh)[QueueLen]
      BY <2>2 DEF Walked
    <3>3. Refreshed(s).entity # slots[s].entity
      BY <3>1, <3>2, WalkEnds, PortalAssumption
    <3>4. Left(Refresh[s]) <= 4 * Hold
      BY <2>1, <3>1, <3>3, FreshSlot
    <3>. QED  BY <3>1, <3>2, <3>4, WalkEnds
  <2>3. CASE slots' = slots \/ slots' = Advanced(slots)
    BY <2>1, <2>3, OneLess DEF Advanced
  <2>4. CASE slots' = [x \in Slots |-> Activated(slots[x])]
    BY <2>4 DEF Activated, PresentCycle
  <2>5. CASE slots' = [x \in Slots |-> Collapsed(slots[x])]
    BY <2>5 DEF Collapsed
  <2>. QED  BY <2>2, <2>3, <2>4, <2>5, StepsOfSlots DEF SlotStep
<1>. QED  BY <1>1, TypeCorrect, PTL DEF Spec, WholeWalkQueued
=============================================================================
