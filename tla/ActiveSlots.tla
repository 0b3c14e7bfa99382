---------------------------- MODULE ActiveSlots ----------------------------
(***************************************************************************)
(* Which entity is selected for which portal slot (Catalog.active_slots in *)
(* src/storage/catalog.rs, the operations in src/storage/mod.rs), and what *)
(* active_slot_images makes of it for the Skylanders portal.  Pure         *)
(* operators on a selection `sel`.                                         *)
(*                                                                         *)
(* A Swap Force combo is the pair of its halves.  An entity of the other   *)
(* game can be selected but is never handed to this portal.                *)
(***************************************************************************)
EXTENDS Naturals

CONSTANTS
  NumSlots,  \* MAX_FIGURES
  Figures,   \* Skylanders entities that fill one slot
  Halves,    \* Swap Force halves, placed only as part of a combo
  Combos,    \* <<top, bottom>> pairs of halves
  Foreign,   \* entities of Disney Infinity
  None       \* no entity

ASSUME ActiveSlotsAssumption ==
  /\ NumSlots \in Nat \ {0}
  /\ Combos \subseteq Halves \X Halves
  /\ \A c, d \in Combos : c[1] # d[2]  \* is_swapper_top, is_swapper_bottom
  /\ Figures \intersect Halves = {}
  /\ None \notin Figures \union Halves \union Combos \union Foreign

Slots      == 0 .. NumSlots - 1
Selectable == Figures \union Combos \union Foreign
Pieces     == Figures \union Halves   \* what stands on a physical slot
Selections == [Slots -> Selectable \union {None}]

NoSelection == [s \in Slots |-> None]

CanUseSlot(e, s) ==
  /\ e \in Combos => s + 1 < NumSlots
  /\ e \in Foreign => s <= 2

\* Entities that may not stay elsewhere once e is placed.
Components(e) == IF e \in Combos THEN {e, e[1], e[2]} ELSE {e}

\* Mutant of Selected: what is selected elsewhere stays there.
SelectedAgain(sel, e, s) == [sel EXCEPT ![s] = e]

Selected(sel, e, s) ==
  [x \in Slots |->
     IF x = s THEN e
     ELSE IF sel[x] \in Components(e) \/ (e \in Combos /\ x = s + 1)
          THEN None ELSE sel[x]]

Cleared(sel, S) == [x \in Slots |-> IF x \in S THEN None ELSE sel[x]]

Deselected(sel, e) == [x \in Slots |-> IF sel[x] = e THEN None ELSE sel[x]]

(***************************************************************************)
(* The images for slot s: the bottom half of a combo selected one slot     *)
(* below, and then what is selected for s itself.  Selecting does not      *)
(* exclude that there are both.                                            *)
(***************************************************************************)
BottomOn(sel, s) ==
  IF s > 0 /\ sel[s - 1] \in Combos THEN sel[s - 1][2] ELSE None

OwnOn(sel, s) ==
  IF sel[s] \in Combos THEN sel[s][1]
  ELSE IF sel[s] \in Figures THEN sel[s] ELSE None

\* The last image for slot s is the one that stays on it.
ImageOn(sel, s) == IF OwnOn(sel, s) # None THEN OwnOn(sel, s) ELSE BottomOn(sel, s)
=============================================================================
