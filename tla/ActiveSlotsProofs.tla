------------------------- MODULE ActiveSlotsProofs -------------------------
(***************************************************************************)
(* Facts about selections and slots that the proofs of both bases use.     *)
(***************************************************************************)
EXTENDS ActiveSlots, WellFoundedInduction, TLAPS

LEMMA NothingSelected == NoSelection \in Selections
  BY DEF NoSelection, Selections

LEMMA SelectionTypes ==
  ASSUME NEW sel \in Selections
  PROVE  /\ \A e \in Selectable, s \in Slots : Selected(sel, e, s) \in Selections
         /\ \A S : Cleared(sel, S) \in Selections
         /\ \A e : Deselected(sel, e) \in Selections
  BY DEF Selections, Selected, Cleared, Deselected

LEMMA ImageTypes ==
  ASSUME NEW sel \in Selections, NEW s \in Slots
  PROVE  /\ OwnOn(sel, s) \in Pieces \union {None}
         /\ BottomOn(sel, s) \in Halves \union {None}
  BY ActiveSlotsAssumption
  DEF Selections, OwnOn, BottomOn, Pieces, Slots, Selectable

\* Induction over the numbers: of those outside a set there is a least one.
LEMMA Induction ==
  ASSUME NEW S, 0 \in S, \A n \in Nat : n \in S => n + 1 \in S
  PROVE  Nat \subseteq S
<1>. DEFINE T == {n \in Nat : n \notin S}
<1>. SUFFICES ASSUME T # {}  PROVE FALSE
  OBVIOUS
<1>1. IsWellFoundedOn(OpToRel(<, Nat), Nat)
  BY NatLessThanWellFounded
<1>2. PICK n \in T : \A m \in T : ~(<<m, n>> \in OpToRel(<, Nat))
  BY <1>1, WFMin
<1>3. n # 0 /\ n - 1 \in Nat /\ n - 1 < n
  OBVIOUS
<1>4. n - 1 \in S
  BY <1>2, <1>3 DEF OpToRel
<1>5. (n - 1) + 1 \in S
  BY <1>3, <1>4
<1>6. (n - 1) + 1 = n
  BY <1>3
<1>. QED  BY <1>5, <1>6

\* The last of several copies of a figure exists.
LEMMA LastSlot ==
  ASSUME NEW T \in SUBSET Slots, T # {}
  PROVE  \E s \in T : \A t \in T : t <= s
<1>. DEFINE U == {n \in Nat : NumSlots - 1 - n \in T}
<1>1. U # {}
  <2>1. PICK t \in T : TRUE
    OBVIOUS
  <2>2. NumSlots - 1 - t \in U
    BY ActiveSlotsAssumption DEF Slots
  <2>. QED  BY <2>2
<1>2. IsWellFoundedOn(OpToRel(<, Nat), Nat)
  BY NatLessThanWellFounded
<1>3. PICK n \in U : \A m \in U : ~(<<m, n>> \in OpToRel(<, Nat))
  BY <1>1, <1>2, WFMin
<1>4. \A m \in U : n <= m
  <2>1. \A i, j \in Nat : i < j => <<i, j>> \in OpToRel(<, Nat)
    BY DEF OpToRel
  <2>2. \A m \in U : ~(m < n)
    BY <1>3, <2>1
  <2>. QED  BY <2>2
<1>5. \A t \in T : NumSlots - 1 - t \in U
  BY ActiveSlotsAssumption DEF Slots
<1>. QED  BY <1>4, <1>5, ActiveSlotsAssumption DEF Slots
=============================================================================
