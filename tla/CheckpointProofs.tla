-------------------------- MODULE CheckpointProofs --------------------------
(***************************************************************************)
(* Proofs about Checkpoint, for any number of slots, any figures, images   *)
(* and debounce time.                                                      *)
(***************************************************************************)
EXTENDS Checkpoint, ActiveSlotsProofs, TLAPS

\* What storage guarantees of a selection: selected figures exist, because a
\* deletion deselects, and so do halves, which are never deleted under a combo.
SelectedExist ==
  /\ \A s \in Slots : selection[s] \in Figures => stored[selection[s]] # None
  /\ \A h \in Halves : stored[h] # None

(***************************************************************************)
(* Saves.                                                                  *)
(***************************************************************************)
LEMMA SaveType ==
  ASSUME TypeOK, NEW R, Save(R)
  PROVE  /\ R \subseteq Dirty /\ R \subseteq Slots
         /\ stored' \in [Pieces -> Images \union {None}]
         /\ \A e \in Pieces : stored'[e] = None <=> stored[e] = None
         /\ refused' = R
         /\ refusals' \in 0 .. MaxRefusals
         /\ DeadlineAfter(R) \in 0 .. Debounce \union {Off}
<1>1. R \subseteq Dirty /\ Gone \subseteq R /\ R \subseteq Slots
  BY DEF Save, Refusals, Dirty
<1>2. \A e \in Pieces : \/ StoredAfter(R)[e] = stored[e]
                        \/ StoredAfter(R)[e] \in Images /\ stored[e] # None
  <2>. SUFFICES ASSUME NEW e \in Pieces
       PROVE  \/ StoredAfter(R)[e] = stored[e]
              \/ StoredAfter(R)[e] \in Images /\ stored[e] # None
    OBVIOUS
  <2>. DEFINE copies == {s \in Dirty \ R : slots[s].entity = e}
  <2>1. CASE copies = {}
    BY <2>1 DEF StoredAfter
  <2>2. CASE copies # {}
    <3>. DEFINE last == CHOOSE s \in copies : \A t \in copies : t <= s
    <3>1. copies \in SUBSET Slots
      BY DEF Dirty
    <3>2. last \in copies
      BY <2>2, <3>1, LastSlot
    <3>3. StoredAfter(R)[e] = slots[last].image
      BY <2>2 DEF StoredAfter
    <3>4. slots[last].image \in Images
      BY <3>1, <3>2 DEF TypeOK, SlotCopies
    <3>5. stored[e] # None
      BY <1>1, <3>2 DEF Gone
    <3>. QED  BY <3>3, <3>4, <3>5
  <2>. QED  BY <2>1, <2>2
<1>3. stored' = StoredAfter(R) /\ refused' = R
  BY DEF Save
<1>4. stored \in [Pieces -> Images \union {None}] /\ None \notin Images
  BY CheckpointAssumption DEF TypeOK
<1>5. StoredAfter(R) \in [Pieces -> Images \union {None}]
  <2>1. \A e \in Pieces : StoredAfter(R)[e] \in Images \union {None}
    BY <1>2, <1>4
  <2>2. StoredAfter(R) = [e \in Pieces |-> StoredAfter(R)[e]]
    BY DEF StoredAfter
  <2>. QED  BY <2>1, <2>2
<1>6. refusals' \in 0 .. MaxRefusals
  BY CheckpointAssumption DEF Save, Refusals, TypeOK
<1>7. DeadlineAfter(R) \in 0 .. Debounce \union {Off}
  BY CheckpointAssumption DEF DeadlineAfter
<1>. QED  BY <1>1, <1>2, <1>3, <1>4, <1>5, <1>6, <1>7

\* A save leaves figures and images where they are, and R dirty.
LEMMA SlotsAfterShape ==
  ASSUME TypeOK, NEW R
  PROVE  /\ SlotsAfter(R) \in [Slots -> SlotCopies]
         /\ \A s \in Slots : /\ SlotsAfter(R)[s].entity = slots[s].entity
                             /\ SlotsAfter(R)[s].image = slots[s].image
                             /\ SlotsAfter(R)[s].dirty <=> s \in R
<1>1. \A s \in Slots : SlotsAfter(R)[s] = [slots[s] EXCEPT !.dirty = s \in R]
  BY DEF SlotsAfter
<1>2. \A s \in Slots : slots[s] \in SlotCopies
  BY DEF TypeOK
<1>3. ASSUME NEW s \in Slots PROVE SlotsAfter(R)[s] \in SlotCopies
  <2>1. CASE s \in R
    <3>1. SlotsAfter(R)[s] = [slots[s] EXCEPT !.dirty = TRUE]
      BY <1>1, <2>1
    <3>. QED  BY <1>2, <3>1 DEF SlotCopies
  <2>2. CASE s \notin R
    <3>0. (s \in R) = FALSE
      BY <2>2
    <3>1. SlotsAfter(R)[s] = [slots[s] EXCEPT !.dirty = FALSE]
      BY <1>1, <3>0, Zenon
    <3>. QED  BY <1>2, <3>1 DEF SlotCopies
  <2>. QED  BY <2>1, <2>2
<1>. QED  BY <1>1, <1>2, <1>3 DEF SlotCopies, SlotsAfter

\* What a slot holds after a poll: what it held, nothing, or a clean copy of
\* a figure that the library has.
LEMMA RefreshedShape ==
  ASSUME TypeOK, SelectedExist, NEW ss \in [Slots -> SlotCopies],
         stored' \in [Pieces -> Images \union {None}],
         \A e \in Pieces : stored'[e] = None <=> stored[e] = None,
         NEW s \in Slots
  PROVE  \/ Refreshed(ss)[s] = ss[s] /\ selection[s] # None
         \/ Refreshed(ss)[s] = EmptyCopy
         \/ \E e \in Pieces : stored'[e] \in Images /\ Refreshed(ss)[s] = Copy(e)
<1>1. selection \in Selections
  BY DEF TypeOK
<1>2. ASSUME NEW e \in Halves PROVE e \in Pieces /\ stored'[e] \in Images
  BY DEF SelectedExist, Pieces
<1>3. OwnOn(selection, s) # None =>
        OwnOn(selection, s) \in Pieces /\ stored'[OwnOn(selection, s)] \in Images
  <2>1. CASE selection[s] \in Combos
    <3>1. OwnOn(selection, s) \in Halves
      BY <2>1, ActiveSlotsAssumption DEF OwnOn
    <3>. QED  BY <3>1, <1>2
  <2>2. CASE selection[s] \notin Combos /\ selection[s] \in Figures
    <3>1. OwnOn(selection, s) = selection[s] /\ selection[s] \in Pieces
      BY <2>2 DEF OwnOn, Pieces
    <3>. QED  BY <2>2, <3>1 DEF SelectedExist
  <2>3. CASE selection[s] \notin Combos /\ selection[s] \notin Figures
    BY <2>3 DEF OwnOn
  <2>. QED  BY <2>1, <2>2, <2>3
<1>4. BottomOn(selection, s) # None =>
        BottomOn(selection, s) \in Pieces /\ stored'[BottomOn(selection, s)] \in Images
  BY <1>1, <1>2, ImageTypes
<1>. DEFINE kept   == IF selection[s] = None THEN EmptyCopy ELSE ss[s]
            bottom == BottomOn(selection, s)
            own    == OwnOn(selection, s)
            under  == IF bottom \in {None, kept.entity} THEN kept ELSE Copy(bottom)
<1>5. Refreshed(ss)[s] = IF own \in {None, under.entity} THEN under ELSE Copy(own)
  BY DEF Refreshed
<1>. HIDE DEF own, under, bottom
<1>6. \/ under = kept
      \/ bottom # None /\ under = Copy(bottom)
  BY DEF under
<1>7. \/ Refreshed(ss)[s] = under
      \/ own # None /\ Refreshed(ss)[s] = Copy(own)
  BY <1>5
<1>. QED  BY <1>3, <1>4, <1>6, <1>7 DEF own, bottom

(***************************************************************************)
(* Types.                                                                  *)
(***************************************************************************)
TypeInv == TypeOK /\ SelectedExist

LEMMA EmptyCopyType == EmptyCopy \in SlotCopies
  BY CheckpointAssumption DEF EmptyCopy, SlotCopies

LEMMA TypeInit == Init => TypeInv
<1>. SUFFICES ASSUME Init PROVE TypeInv
  OBVIOUS
<1>1. SelectedExist
  <2>1. \A s \in Slots : selection[s] = None
    BY DEF Init, NoSelection
  <2>2. \A e \in Pieces : stored[e] # None
    BY CheckpointAssumption DEF Init
  <2>. QED  BY <2>1, <2>2, ActiveSlotsAssumption DEF SelectedExist, Pieces
<1>2. slots \in [Slots -> SlotCopies] /\ Dirty = {}
  BY EmptyCopyType DEF Init, EmptyCopy, Dirty
<1>3. stored \in [Pieces -> Images \union {None}]
  BY CheckpointAssumption DEF Init
<1>4. TypeOK
  <2>1. selection \in Selections /\ changed \in BOOLEAN /\ reboot \in BOOLEAN
    BY NothingSelected DEF Init
  <2>2. deadline \in 0 .. Debounce \union {Off} /\ refused \subseteq Slots
        /\ pc \in {"poll", "flush", "force", "out", "wait", "rebooting"}
    BY DEF Init
  <2>3. changes \in 0 .. MaxChanges /\ refusals \in 0 .. MaxRefusals
    BY CheckpointAssumption DEF Init
  <2>. QED  BY <1>2, <1>3, <2>1, <2>2, <2>3 DEF TypeOK
<1>. QED  BY <1>1, <1>4 DEF TypeInv

\* What a request does apart from the library.
LEMMA ChangeType ==
  ASSUME TypeOK, NEW sel \in Selections, Change(sel),
         stored' \in [Pieces -> Images \union {None}], reboot' \in BOOLEAN
  PROVE  TypeOK'
  BY CheckpointAssumption DEF TypeOK, Change, Dirty

LEMMA SelectedExistKept ==
  ASSUME SelectedExist, selection' = selection, stored \in [Pieces -> Images \union {None}],
         \A e \in Pieces : stored'[e] = None <=> stored[e] = None
  PROVE  SelectedExist'
  BY DEF SelectedExist, Pieces

\* A save alone.
LEMMA SaveKeepsTypes ==
  ASSUME TypeInv, NEW R, Save(R), slots' = SlotsAfter(R),
         deadline' = DeadlineAfter(R),
         pc' \in {"poll", "flush", "force", "out", "wait", "rebooting"},
         UNCHANGED <<selection, changed, reboot, changes>>
  PROVE  TypeInv'
<1>. USE DEF TypeInv
<1>1. \A s \in Slots : s \in R => s \in Dirty
  BY SaveType
<1>2. \A s \in Dirty' : slots'[s].entity # None
  BY <1>1, SlotsAfterShape DEF TypeOK, Dirty
<1>3. SelectedExist'
  BY SaveType, SelectedExistKept DEF TypeOK
<1>. QED  BY <1>2, <1>3, SaveType, SlotsAfterShape DEF TypeOK

LEMMA PollType ==
  ASSUME TypeInv, PollActiveEntity
  PROVE  TypeInv'
<1>. USE DEF TypeInv
<1>1. PICK R \in Refusals :
        /\ Save(R) /\ deadline' = DeadlineAfter(R)
        /\ \/ slots' = Refreshed(SlotsAfter(R)) /\ changed' = FALSE
           \/ slots' = [s \in Slots |-> EmptyCopy] /\ changed' = TRUE
  BY DEF PollActiveEntity
<1>2. UNCHANGED <<selection, reboot, changes>> /\ pc' = "flush"
  BY DEF PollActiveEntity
<1>3. SelectedExist'
  BY <1>1, <1>2, SaveType, SelectedExistKept DEF TypeOK
<1>4. slots' \in [Slots -> SlotCopies] /\ (\A s \in Dirty' : slots'[s].entity # None)
  <2>1. CASE slots' = [s \in Slots |-> EmptyCopy]
    BY <2>1, EmptyCopyType DEF Dirty, EmptyCopy
  <2>2. CASE slots' = Refreshed(SlotsAfter(R))
    <3>1. ASSUME NEW s \in Slots
          PROVE  slots'[s] \in SlotCopies /\ (slots'[s].dirty => slots'[s].entity # None)
      <4>1. CASE Refreshed(SlotsAfter(R))[s] = SlotsAfter(R)[s]
        <5>1. SlotsAfter(R)[s].dirty => slots[s].dirty
          BY <1>1, SaveType, SlotsAfterShape DEF Dirty
        <5>2. slots[s].dirty => slots[s].entity # None
          BY DEF TypeOK, Dirty
        <5>. QED  BY <2>2, <4>1, <5>1, <5>2, SlotsAfterShape
      <4>2. CASE Refreshed(SlotsAfter(R))[s] = EmptyCopy
        BY <2>2, <4>2, EmptyCopyType DEF EmptyCopy
      <4>3. CASE \E e \in Pieces : stored'[e] \in Images
                                   /\ Refreshed(SlotsAfter(R))[s] = Copy(e)
        BY <2>2, <4>3 DEF Copy, SlotCopies
      <4>. QED  BY <1>1, <4>1, <4>2, <4>3, SaveType, SlotsAfterShape, RefreshedShape
    <3>2. slots' = [s \in Slots |-> slots'[s]]
      BY <2>2 DEF Refreshed
    <3>. QED  BY <3>1, <3>2 DEF Dirty
  <2>. QED  BY <1>1, <2>1, <2>2
<1>. QED  BY <1>1, <1>2, <1>3, <1>4, SaveType DEF TypeOK

LEMMA TypeNext == TypeInv /\ [Next]_vars => TypeInv'
<1>. SUFFICES ASSUME TypeInv, [Next]_vars PROVE TypeInv'
  OBVIOUS
<1>. USE DEF TypeInv
<1>0. stored \in [Pieces -> Images \union {None}] /\ selection \in Selections
      /\ reboot \in BOOLEAN
  BY DEF TypeOK
<1>1. ASSUME NEW e \in Selectable, NEW s \in Slots, SelectEntity(e, s) PROVE TypeInv'
  <2>1. Change(Selected(selection, e, s)) /\ UNCHANGED <<stored, reboot>>
    BY <1>1 DEF SelectEntity
  <2>2. TypeOK'
    BY <1>0, <2>1, SelectionTypes, ChangeType
  <2>3. \A x \in Slots : selection'[x] \in {e, None, selection[x]}
    BY <2>1 DEF Change, Selected
  <2>4. e \in Figures => stored[e] # None
    BY <1>1 DEF SelectEntity
  <2>. QED  BY <2>1, <2>2, <2>3, <2>4, ActiveSlotsAssumption DEF SelectedExist
<1>2. ASSUME NEW S \in {{s} : s \in Slots} \union {Slots}, ClearActive(S) PROVE TypeInv'
  <2>1. Change(Cleared(selection, S)) /\ UNCHANGED <<stored, reboot>>
    BY <1>2 DEF ClearActive
  <2>2. TypeOK'
    BY <1>0, <2>1, SelectionTypes, ChangeType
  <2>3. \A x \in Slots : selection'[x] \in {None, selection[x]}
    BY <2>1 DEF Change, Cleared
  <2>. QED  BY <2>1, <2>2, <2>3, ActiveSlotsAssumption DEF SelectedExist
<1>3. ASSUME NEW e \in Figures, DeleteEntity(e) PROVE TypeInv'
  <2>1. Change(Deselected(selection, e)) /\ stored' = [stored EXCEPT ![e] = None]
        /\ reboot' = reboot
    BY <1>3 DEF DeleteEntity
  <2>2. stored' \in [Pieces -> Images \union {None}]
    BY <1>0, <2>1
  <2>3. TypeOK'
    BY <1>0, <2>1, <2>2, SelectionTypes, ChangeType
  <2>4. \A x \in Slots : selection'[x] # e /\ selection'[x] \in {None, selection[x]}
    BY <2>1, ActiveSlotsAssumption DEF Change, Deselected
  <2>5. \A x \in Pieces : x # e => stored'[x] = stored[x]
    BY <1>0, <2>1
  <2>. QED  BY <2>3, <2>4, <2>5, ActiveSlotsAssumption DEF SelectedExist, Pieces
<1>4. CASE SetMode
  <2>1. Change(NoSelection) /\ reboot' = TRUE /\ stored' = stored
    BY <1>4 DEF SetMode
  <2>2. TypeOK'
    BY <1>0, <2>1, NothingSelected, ChangeType
  <2>3. \A x \in Slots : selection'[x] = None
    BY <2>1 DEF Change, NoSelection
  <2>. QED  BY <2>1, <2>2, <2>3, ActiveSlotsAssumption DEF SelectedExist
<1>5. CASE SkipPoll
  BY <1>5 DEF SkipPoll, TypeOK, SelectedExist, Dirty, counters
<1>6. CASE PollActiveEntity
  BY <1>6, PollType
<1>7. CASE Flush
  <2>1. ASSUME UNCHANGED <<stored, slots, refused, refusals>>,
               deadline' \in {Off, Debounce, deadline}
        PROVE  TypeInv'
    BY <1>7, <2>1, CheckpointAssumption DEF Flush, AfterFlush, TypeOK, SelectedExist, Dirty
  <2>2. ASSUME NEW R \in Refusals, Save(R), slots' = SlotsAfter(R),
               deadline' = DeadlineAfter(R)
        PROVE  TypeInv'
    BY <1>7, <2>2, SaveKeepsTypes DEF Flush, AfterFlush
  <2>. QED  BY <1>7, <2>1, <2>2 DEF Flush
<1>8. CASE FlushForReboot
  BY <1>8, SaveKeepsTypes DEF FlushForReboot
<1>9. CASE Reset
  <2>1. \A s \in Slots : selection'[s] = None
    BY <1>9 DEF Reset, NoSelection
  <2>2. SelectedExist'
    BY <1>9, <2>1, ActiveSlotsAssumption DEF Reset, SelectedExist
  <2>3. slots' \in [Slots -> SlotCopies] /\ Dirty' = {}
    BY <1>9, EmptyCopyType DEF Reset, EmptyCopy, Dirty
  <2>. QED  BY <1>9, <2>2, <2>3, NothingSelected DEF Reset, TypeOK, counters
<1>10. CASE WriteBlock
  <2>1. slots' \in [Slots -> SlotCopies] /\ (\A s \in Dirty' : slots'[s].entity # None)
    <3>1. CASE slots' = slots
      BY <3>1 DEF TypeOK, Dirty
    <3>2. ASSUME NEW s \in Slots, NEW img \in Images, slots[s].entity # None,
                 slots' = [slots EXCEPT ![s].image = img, ![s].dirty = TRUE]
          PROVE  slots' \in [Slots -> SlotCopies]
                 /\ (\A t \in Dirty' : slots'[t].entity # None)
      BY <3>2 DEF TypeOK, Dirty, SlotCopies
    <3>. QED  BY <1>10, <3>1, <3>2 DEF WriteBlock
  <2>2. deadline' \in 0 .. Debounce \union {Off}
    BY <1>10, CheckpointAssumption DEF WriteBlock, Scheduled, TypeOK
  <2>3. SelectedExist'
    BY <1>10 DEF WriteBlock, SelectedExist
  <2>. QED  BY <1>10, <2>1, <2>2, <2>3 DEF WriteBlock, TypeOK, counters
<1>11. CASE NoWrite
  BY <1>11 DEF NoWrite, TypeOK, SelectedExist, Dirty, counters
<1>12. CASE Wait
  <2>1. deadline' \in 0 .. Debounce \union {Off}
    BY <1>12, CheckpointAssumption DEF Wait, TypeOK
  <2>. QED  BY <1>12, <2>1 DEF Wait, TypeOK, SelectedExist, Dirty, counters
<1>13. CASE UNCHANGED vars
  BY <1>13 DEF vars, TypeOK, SelectedExist, Dirty, counters
<1>. QED
  BY <1>1, <1>2, <1>3, <1>4, <1>5, <1>6, <1>7, <1>8, <1>9, <1>10, <1>11, <1>12, <1>13
  DEF Next, Loop

\* Checkpoint keeps its types: in particular what is loaded onto the portal is
\* always an image, because a deletion deselects the figure and a combo keeps
\* its halves (poll_active_entity, active_slot_images).
THEOREM TypeCorrect == Spec => []TypeOK
<1>1. TypeInv /\ [Next]_vars => TypeInv'
  BY TypeNext
<1>2. TypeInv => TypeOK
  BY DEF TypeInv
<1>. QED  BY <1>1, <1>2, TypeInit, PTL DEF Spec

-----------------------------------------------------------------------------
(***************************************************************************)
(* Which figures stand on the portal.                                      *)
(***************************************************************************)
SelectedOnce(sel) ==
  \A s, t \in Slots : sel[s] # None /\ sel[s] = sel[t] => s = t

LEMMA OnceKept ==
  ASSUME NEW sel \in Selections, SelectedOnce(sel)
  PROVE  /\ \A e \in Selectable, s \in Slots : SelectedOnce(Selected(sel, e, s))
         /\ \A S : SelectedOnce(Cleared(sel, S))
         /\ \A e : SelectedOnce(Deselected(sel, e))
         /\ SelectedOnce(NoSelection)
<1>1. ASSUME NEW e \in Selectable, NEW s \in Slots
      PROVE  SelectedOnce(Selected(sel, e, s))
  <2>1. e \in Components(e)
    BY DEF Components
  <2>2. Selected(sel, e, s)[s] = e
    BY DEF Selected
  <2>3. \A x \in Slots : x # s => /\ Selected(sel, e, s)[x] \in {None, sel[x]}
                                  /\ Selected(sel, e, s)[x] # None =>
                                       Selected(sel, e, s)[x] # e
    BY <2>1 DEF Selected
  <2>. QED  BY <2>2, <2>3 DEF SelectedOnce
<1>2. \A S : SelectedOnce(Cleared(sel, S))
  BY DEF SelectedOnce, Cleared
<1>3. \A e : SelectedOnce(Deselected(sel, e))
  BY DEF SelectedOnce, Deselected
<1>4. SelectedOnce(NoSelection)
  BY DEF SelectedOnce, NoSelection
<1>. QED  BY <1>1, <1>2, <1>3, <1>4

\* Where the image of a slot comes from.
LEMMA ImageOrigin ==
  ASSUME NEW sel \in Selections, NEW s \in Slots, ImageOn(sel, s) # None
  PROVE  \/ sel[s] \in Combos /\ ImageOn(sel, s) = sel[s][1]
         \/ sel[s] \in Figures /\ ImageOn(sel, s) = sel[s]
         \/ /\ s - 1 \in Slots /\ sel[s - 1] \in Combos
            /\ ImageOn(sel, s) = sel[s - 1][2]
  BY ActiveSlotsAssumption DEF ImageOn, OwnOn, BottomOn, Slots

\* active_slot_images hands out a figure for two slots only when two of the
\* selected combos share it.
LEMMA ImagesDistinct ==
  ASSUME selection \in Selections, SelectedOnce(selection),
         NEW s \in Slots, NEW t \in Slots, s # t,
         ImageOn(selection, s) # None, ImageOn(selection, s) = ImageOn(selection, t)
  PROVE  SharedHalf(ImageOn(selection, s))
<1>. DEFINE e == ImageOn(selection, s)
<1>1. /\ \A c \in Combos : c[1] \in Halves /\ c[2] \in Halves /\ c # None
      /\ \A c, d \in Combos : c[1] # d[2]
  BY ActiveSlotsAssumption
<1>2. \A f \in Figures : f \notin Halves /\ f # None
  BY ActiveSlotsAssumption
<1>3. ASSUME NEW x \in Slots, NEW y \in Slots, x # y,
             selection[x] \in Combos, selection[y] \in Combos,
             e \in {selection[x][1], selection[x][2]},
             e \in {selection[y][1], selection[y][2]}
      PROVE  SharedHalf(e)
  <2>1. selection[x] # selection[y]
    BY <1>1, <1>3 DEF SelectedOnce
  <2>. QED  BY <1>3, <2>1 DEF SharedHalf
<1>4. CASE selection[s] \in Figures /\ e = selection[s]
  <2>1. ImageOn(selection, t) \notin Halves
    BY <1>2, <1>4
  <2>2. selection[t] \in Figures /\ ImageOn(selection, t) = selection[t]
    BY <1>1, <2>1, ImageOrigin
  <2>. QED  BY <1>2, <1>4, <2>2 DEF SelectedOnce
<1>5. CASE selection[s] \in Combos /\ e = selection[s][1]
  <2>1. CASE selection[t] \in Combos /\ ImageOn(selection, t) = selection[t][1]
    BY <1>3, <1>5, <2>1
  <2>2. CASE /\ t - 1 \in Slots /\ selection[t - 1] \in Combos
             /\ ImageOn(selection, t) = selection[t - 1][2]
    BY <1>1, <1>5, <2>2
  <2>. QED  BY <1>1, <1>2, <1>5, <2>1, <2>2, ImageOrigin
<1>6. CASE /\ s - 1 \in Slots /\ selection[s - 1] \in Combos
           /\ e = selection[s - 1][2]
  <2>1. CASE selection[t] \in Combos /\ ImageOn(selection, t) = selection[t][1]
    BY <1>1, <1>6, <2>1
  <2>2. CASE /\ t - 1 \in Slots /\ selection[t - 1] \in Combos
             /\ ImageOn(selection, t) = selection[t - 1][2]
    <3>1. s - 1 # t - 1
      BY ActiveSlotsAssumption DEF Slots
    <3>. QED  BY <1>3, <1>6, <2>2, <3>1
  <2>. QED  BY <1>1, <1>2, <1>6, <2>1, <2>2, ImageOrigin
<1>. QED  BY <1>4, <1>5, <1>6, ImageOrigin

\* After a poll a slot holds exactly the figure that is selected for it, unless
\* that is an entity of the other game.
LEMMA RefreshedFollows ==
  ASSUME selection \in Selections, NEW ss, NEW s \in Slots,
         selection[s] \notin Foreign
  PROVE  Refreshed(ss)[s].entity = ImageOn(selection, s)
<1>. DEFINE kept   == IF selection[s] = None THEN EmptyCopy ELSE ss[s]
            bottom == BottomOn(selection, s)
            own    == OwnOn(selection, s)
            under  == IF bottom \in {None, kept.entity} THEN kept ELSE Copy(bottom)
<1>1. Refreshed(ss)[s] = IF own \in {None, under.entity} THEN under ELSE Copy(own)
  BY DEF Refreshed
<1>2. own = None <=> selection[s] = None
  <2>1. selection[s] \in Figures \union Combos \union {None}
    BY DEF Selections, Selectable
  <2>2. \A c \in Combos : c[1] # None
    BY ActiveSlotsAssumption
  <2>. QED  BY <2>1, <2>2, ActiveSlotsAssumption DEF OwnOn
<1>3. \A e : Copy(e).entity = e
  BY DEF Copy
<1>4. CASE own # None
  <2>1. Refreshed(ss)[s].entity = own
    BY <1>1, <1>3, <1>4
  <2>. QED  BY <1>4, <2>1 DEF ImageOn
<1>5. CASE own = None
  <2>1. kept = EmptyCopy /\ EmptyCopy.entity = None
    BY <1>2, <1>5 DEF EmptyCopy
  <2>2. under.entity = bottom
    BY <1>3, <2>1
  <2>3. Refreshed(ss)[s].entity = bottom
    BY <1>1, <1>5, <2>2
  <2>. QED  BY <1>5, <2>3 DEF ImageOn
<1>. QED  BY <1>4, <1>5

(***************************************************************************)
(* The invariant: a portal that has taken over the selection shows it, and *)
(* what is still dirty when the restart of a mode switch is due was        *)
(* refused.                                                                *)
(***************************************************************************)
Follows ==
  \A s \in Slots :
    selection[s] \notin Foreign => slots[s].entity = ImageOn(selection, s)

SaveInv ==
  /\ TypeInv
  /\ SelectedOnce(selection)
  /\ ~changed => Follows
  /\ pc = "rebooting" => Dirty \subseteq refused

LEMMA NothingShown ==
  ASSUME NEW s \in Slots
  PROVE  ImageOn(NoSelection, s) = None
<1>1. \A t \in Slots : NoSelection[t] = None
  BY DEF NoSelection
<1>2. None \notin Combos /\ None \notin Figures
  BY ActiveSlotsAssumption
<1>3. s > 0 => s - 1 \in Slots
  BY ActiveSlotsAssumption DEF Slots
<1>. QED  BY <1>1, <1>2, <1>3 DEF ImageOn, OwnOn, BottomOn

LEMMA SaveInit == Init => SaveInv
<1>. SUFFICES ASSUME Init PROVE SaveInv
  OBVIOUS
<1>1. SelectedOnce(selection)
  BY DEF Init, SelectedOnce, NoSelection
<1>2. Follows
  BY NothingShown DEF Init, EmptyCopy, Follows
<1>. QED  BY <1>1, <1>2, TypeInit DEF SaveInv, Init

\* A step that leaves the copies alone, and the selection or the news of it.
LEMMA CopiesKept ==
  ASSUME SaveInv, TypeInv', slots' = slots, refused' = refused,
         SelectedOnce(selection'), pc' = "rebooting" => pc = "rebooting",
         changed' \/ (selection' = selection /\ changed' = changed)
  PROVE  SaveInv'
<1>1. Dirty' = Dirty
  BY DEF Dirty
<1>2. ~changed' => Follows'
  BY DEF SaveInv, Follows
<1>. QED  BY <1>1, <1>2 DEF SaveInv

LEMMA SaveKeepsInv ==
  ASSUME SaveInv, TypeInv', NEW R, Save(R), slots' = SlotsAfter(R),
         selection' = selection, changed' = changed
  PROVE  SaveInv'
<1>1. TypeOK
  BY DEF SaveInv, TypeInv
<1>2. R \subseteq Slots /\ refused' = R
  BY <1>1, SaveType
<1>3. \A s \in Slots : /\ slots'[s].entity = slots[s].entity
                       /\ slots'[s].dirty <=> s \in R
  BY <1>1, SlotsAfterShape
<1>4. ~changed' => Follows'
  BY <1>3 DEF SaveInv, Follows
<1>5. Dirty' \subseteq refused'
  BY <1>2, <1>3 DEF Dirty
<1>. QED  BY <1>4, <1>5 DEF SaveInv

LEMMA SaveNext == SaveInv /\ [Next]_vars => SaveInv'
<1>. SUFFICES ASSUME SaveInv, [Next]_vars PROVE SaveInv'
  OBVIOUS
<1>0. TypeInv' /\ selection \in Selections /\ SelectedOnce(selection)
  BY TypeNext DEF SaveInv, TypeInv, TypeOK
<1>1. ASSUME NEW e \in Selectable, NEW s \in Slots, SelectEntity(e, s) PROVE SaveInv'
  BY <1>0, <1>1, OnceKept, CopiesKept DEF SelectEntity, Change
<1>2. ASSUME NEW S \in {{s} : s \in Slots} \union {Slots}, ClearActive(S) PROVE SaveInv'
  BY <1>0, <1>2, OnceKept, CopiesKept DEF ClearActive, Change
<1>3. ASSUME NEW e \in Figures, DeleteEntity(e) PROVE SaveInv'
  BY <1>0, <1>3, OnceKept, CopiesKept DEF DeleteEntity, Change
<1>4. CASE SetMode
  BY <1>0, <1>4, OnceKept, CopiesKept DEF SetMode, Change
<1>5. CASE SkipPoll
  BY <1>0, <1>5, CopiesKept DEF SkipPoll
<1>6. CASE PollActiveEntity
  <2>1. PICK R \in Refusals :
          \/ slots' = Refreshed(SlotsAfter(R)) /\ changed' = FALSE
          \/ changed' = TRUE
    BY <1>6 DEF PollActiveEntity
  <2>2. selection' = selection /\ pc' = "flush"
    BY <1>6 DEF PollActiveEntity
  <2>3. ~changed' => Follows'
    BY <1>0, <2>1, <2>2, RefreshedFollows DEF Follows
  <2>. QED  BY <1>0, <2>2, <2>3 DEF SaveInv
<1>7. CASE Flush
  BY <1>0, <1>7, CopiesKept, SaveKeepsInv DEF Flush, AfterFlush
<1>8. CASE FlushForReboot
  BY <1>0, <1>8, SaveKeepsInv DEF FlushForReboot
<1>9. CASE Reset
  <2>1. Follows'
    BY <1>9, NothingShown DEF Reset, EmptyCopy, Follows
  <2>2. SelectedOnce(selection') /\ pc' = "poll"
    BY <1>0, <1>9, OnceKept DEF Reset
  <2>. QED  BY <1>0, <2>1, <2>2 DEF SaveInv
<1>10. CASE WriteBlock
  <2>1. CASE slots' = slots
    BY <1>0, <1>10, <2>1, CopiesKept DEF WriteBlock
  <2>2. ASSUME NEW s \in Slots, NEW img \in Images,
               slots' = [slots EXCEPT ![s].image = img, ![s].dirty = TRUE]
        PROVE  SaveInv'
    <3>1. \A t \in Slots : slots'[t].entity = slots[t].entity
      BY <2>2 DEF SaveInv, TypeInv, TypeOK, SlotCopies
    <3>2. ~changed' => Follows'
      BY <1>10, <3>1 DEF WriteBlock, SaveInv, Follows
    <3>. QED  BY <1>0, <1>10, <3>2 DEF WriteBlock, SaveInv
  <2>. QED  BY <1>10, <2>1, <2>2 DEF WriteBlock
<1>11. CASE NoWrite
  BY <1>0, <1>11, CopiesKept DEF NoWrite
<1>12. CASE Wait
  BY <1>0, <1>12, CopiesKept DEF Wait
<1>13. CASE UNCHANGED vars
  BY <1>0, <1>13, CopiesKept DEF vars
<1>. QED
  BY <1>1, <1>2, <1>3, <1>4, <1>5, <1>6, <1>7, <1>8, <1>9, <1>10, <1>11, <1>12, <1>13
  DEF Next, Loop

\* A portal that has taken over the selection has a figure on two slots only
\* in the two ways that storage leaves open: one of the slots was given an
\* entity of the other game, or two selected combos share the figure
\* (poll_active_entity replaces all slots together, and selecting a figure
\* takes it off its old slot).
THEOREM OneSlotPerFigure == Spec => []FigureOnOneSlot
<1>1. SaveInv /\ [Next]_vars => SaveInv'
  BY SaveNext
<1>2. SaveInv => FigureOnOneSlot
  <2>. SUFFICES ASSUME SaveInv, ~changed, NEW s \in Slots, NEW t \in Slots, s # t,
                       slots[s].entity # None, slots[s].entity = slots[t].entity,
                       selection[s] \notin Foreign, selection[t] \notin Foreign
       PROVE  SharedHalf(slots[s].entity)
    BY DEF FigureOnOneSlot
  <2>1. /\ slots[s].entity = ImageOn(selection, s)
        /\ slots[t].entity = ImageOn(selection, t)
    BY DEF SaveInv, Follows
  <2>2. selection \in Selections /\ SelectedOnce(selection)
    BY DEF SaveInv, TypeInv, TypeOK
  <2>. QED  BY <2>1, <2>2, ImagesDistinct
<1>. QED  BY <1>1, <1>2, SaveInit, PTL DEF Spec

(***************************************************************************)
(* Saves that reach the library.                                           *)
(***************************************************************************)

\* After a save the library holds one of the changed copies of a figure, if
\* any of them was not refused, and otherwise what it held.
LEMMA SavedCopy ==
  ASSUME TypeOK, NEW R, Save(R), NEW e \in Pieces
  PROVE  \/ \E t \in CopiesOf(e) \intersect (Dirty \ R) : stored'[e] = slots[t].image
         \/ CopiesOf(e) \intersect (Dirty \ R) = {} /\ stored'[e] = stored[e]
<1>. DEFINE copies == {t \in Dirty \ R : slots[t].entity = e}
<1>1. copies \in SUBSET Slots /\ copies = CopiesOf(e) \intersect (Dirty \ R)
  BY DEF Dirty, CopiesOf
<1>2. stored'[e] = IF copies = {} THEN stored[e]
                   ELSE slots[CHOOSE t \in copies : \A u \in copies : u <= t].image
  BY DEF Save, StoredAfter
<1>3. CASE copies = {}
  BY <1>1, <1>2, <1>3
<1>4. CASE copies # {}
  <2>1. (CHOOSE t \in copies : \A u \in copies : u <= t) \in copies
    BY <1>1, <1>4, LastSlot
  <2>. QED  BY <1>1, <1>2, <1>4, <2>1
<1>. QED  BY <1>3, <1>4

\* A figure that is on one slot, and there as the library has it unless it is
\* dirty, is so after a save that does not refuse it.
LEMMA SavedClean ==
  ASSUME TypeOK, NEW R, Save(R), NEW e \in Pieces, OneCopy(e), CleanStored(e),
         NEW s \in CopiesOf(e), s \notin R
  PROVE  stored'[e] \in {slots[s].image, None}
<1>1. CASE s \in Dirty
  <2>1. PICK t \in CopiesOf(e) \intersect (Dirty \ R) : stored'[e] = slots[t].image
    BY <1>1, SavedCopy
  <2>. QED  BY <2>1 DEF OneCopy
<1>2. CASE s \notin Dirty
  <2>1. CopiesOf(e) \intersect (Dirty \ R) = {}
    BY <1>2 DEF OneCopy
  <2>2. stored'[e] = stored[e]
    BY <2>1, SavedCopy
  <2>. QED  BY <1>2, <2>2 DEF CleanStored, CopiesOf, Dirty
<1>. QED  BY <1>1, <1>2

LEMMA CleanKept ==
  ASSUME TypeInv, [Next]_vars, NEW e \in Pieces, OneCopy(e), CleanStored(e)
  PROVE  CleanStored(e)'
<1>. SUFFICES ASSUME NEW s \in Slots, slots'[s].entity = e, ~slots'[s].dirty
     PROVE  stored'[e] \in {slots'[s].image, None}
  BY DEF CleanStored, CopiesOf
<1>0. e # None /\ TypeOK /\ SelectedExist
  BY ActiveSlotsAssumption DEF TypeInv, Pieces
<1>1. ASSUME slots'[s] = slots[s], stored'[e] \in {stored[e], None}
      PROVE  stored'[e] \in {slots'[s].image, None}
  BY <1>1 DEF CleanStored, CopiesOf
<1>2. ASSUME NEW R, Save(R), slots'[s] = SlotsAfter(R)[s]
      PROVE  stored'[e] \in {slots'[s].image, None}
  <2>1. s \in CopiesOf(e) /\ s \notin R /\ slots'[s].image = slots[s].image
    BY <1>0, <1>2, SlotsAfterShape DEF CopiesOf
  <2>. QED  BY <1>0, <1>2, <2>1, SavedClean
<1>3. CASE UNCHANGED <<slots, stored>>
  BY <1>1, <1>3
<1>4. ASSUME NEW f \in Figures, DeleteEntity(f)
      PROVE  stored'[e] \in {slots'[s].image, None}
  <2>1. stored'[e] \in {stored[e], None} /\ slots' = slots
    BY <1>0, <1>4 DEF DeleteEntity, Change, TypeOK
  <2>. QED  BY <1>1, <2>1
<1>5. CASE PollActiveEntity
  <2>1. PICK R \in Refusals :
          Save(R) /\ \/ slots' = Refreshed(SlotsAfter(R))
                     \/ slots' = [t \in Slots |-> EmptyCopy]
    BY <1>5 DEF PollActiveEntity
  <2>2. CASE slots'[s] = EmptyCopy
    BY <1>0, <2>2 DEF EmptyCopy
  <2>3. CASE slots'[s] = SlotsAfter(R)[s]
    BY <1>2, <2>1, <2>3
  <2>4. CASE \E x \in Pieces : slots'[s] = Copy(x)
    BY <2>4 DEF Copy
  <2>5. CASE slots' = [t \in Slots |-> EmptyCopy]
    BY <2>2, <2>5
  <2>6. CASE slots' = Refreshed(SlotsAfter(R))
    <3>1. \/ slots'[s] = SlotsAfter(R)[s]
          \/ slots'[s] = EmptyCopy
          \/ \E x \in Pieces : slots'[s] = Copy(x)
      BY <1>0, <2>1, <2>6, SaveType, SlotsAfterShape, RefreshedShape
    <3>. QED  BY <2>2, <2>3, <2>4, <3>1
  <2>. QED  BY <2>1, <2>5, <2>6
<1>6. CASE Flush
  BY <1>2, <1>3, <1>6 DEF Flush
<1>7. CASE FlushForReboot
  BY <1>2, <1>7 DEF FlushForReboot
<1>8. CASE Reset
  BY <1>0, <1>8 DEF Reset, EmptyCopy
<1>9. CASE WriteBlock
  <2>1. slots'[s] = slots[s]
    BY <1>0, <1>9 DEF WriteBlock, TypeOK, SlotCopies
  <2>. QED  BY <1>1, <1>9, <2>1 DEF WriteBlock
<1>. QED
  BY <1>3, <1>4, <1>5, <1>6, <1>7, <1>8, <1>9
  DEF Next, Loop, SelectEntity, ClearActive, SetMode, Change, SkipPoll, NoWrite, Wait, vars

\* A copy that is not marked dirty is what the library holds, and may be
\* dropped, as long as the figure has no second copy (flush_dirty_entity,
\* write_block).
THEOREM CleanCopiesAreStored == Spec => CleanMeansStored
<1>1. TypeInv /\ [Next]_vars => TypeInv'
  BY TypeNext
<1>2. TypeInv /\ [Next]_vars =>
        [\A e \in Pieces : OneCopy(e) /\ CleanStored(e) => CleanStored(e)']_vars
  BY CleanKept
<1>. QED  BY <1>1, <1>2, TypeInit, PTL DEF Spec, CleanMeansStored

(***************************************************************************)
(* What the console wrote is never dropped silently.                       *)
(***************************************************************************)
KeptOrSaved(s) ==
  LET e == slots[s].entity IN
    \/ slots'[s].dirty /\ slots'[s].entity = e
    \/ \E t \in CopiesOf(e) : /\ stored'[e] = slots[t].image
                              /\ t = s \/ slots[t].dirty
    \/ s \in refused'

LEMMA DirtyKept ==
  ASSUME SaveInv, [Next]_vars, NEW s \in Dirty
  PROVE  KeptOrSaved(s)
<1>1. /\ TypeOK /\ s \in Slots /\ slots[s].dirty /\ slots[s].entity # None
      /\ slots[s].entity \in Pieces
  BY DEF SaveInv, TypeInv, TypeOK, Dirty, SlotCopies
<1>2. ASSUME NEW R, Save(R) PROVE KeptOrSaved(s)
  <2>1. CASE s \in R
    BY <1>1, <1>2, <2>1, SaveType DEF KeptOrSaved
  <2>2. CASE s \notin R
    <3>1. s \in CopiesOf(slots[s].entity) \intersect (Dirty \ R)
      BY <1>1, <2>2 DEF CopiesOf
    <3>2. PICK t \in CopiesOf(slots[s].entity) \intersect (Dirty \ R) :
            stored'[slots[s].entity] = slots[t].image
      BY <1>1, <1>2, <3>1, SavedCopy
    <3>. QED  BY <3>2 DEF KeptOrSaved, Dirty
  <2>. QED  BY <2>1, <2>2
<1>3. CASE slots' = slots
  BY <1>1, <1>3 DEF KeptOrSaved
<1>4. CASE PollActiveEntity
  BY <1>2, <1>4 DEF PollActiveEntity
<1>5. CASE Flush
  BY <1>2, <1>3, <1>5 DEF Flush
<1>6. CASE FlushForReboot
  BY <1>2, <1>6 DEF FlushForReboot
<1>7. CASE Reset
  BY <1>7 DEF Reset, SaveInv, KeptOrSaved
<1>8. CASE WriteBlock
  <2>1. ASSUME NEW t \in Slots, NEW img \in Images,
               slots' = [slots EXCEPT ![t].image = img, ![t].dirty = TRUE]
        PROVE  KeptOrSaved(s)
    BY <1>1, <2>1 DEF TypeOK, SlotCopies, KeptOrSaved
  <2>. QED  BY <1>3, <1>8, <2>1 DEF WriteBlock
<1>. QED
  BY <1>3, <1>4, <1>5, <1>6, <1>7, <1>8
  DEF Next, Loop, SelectEntity, ClearActive, DeleteEntity, SetMode, Change, SkipPoll,
      NoWrite, Wait, vars

\* A copy that the console changed leaves the portal - for another figure, a
\* cleared slot, the restart of a mode switch - only saved, replaced in the
\* library by another changed copy of the same figure, or refused
\* (poll_active_entity flushes first, and so does the restart).
THEOREM NothingDroppedSilently == Spec => DirtyLostOnlyIfRefused
<1>1. SaveInv /\ [Next]_vars => SaveInv'
  BY SaveNext
<1>2. SaveInv /\ [Next]_vars => [\A s \in Dirty : KeptOrSaved(s)]_vars
  BY DirtyKept
<1>3. DirtyLostOnlyIfRefused <=> [][\A s \in Dirty : KeptOrSaved(s)]_vars
  BY PTL DEF DirtyLostOnlyIfRefused, KeptOrSaved
<1>. QED  BY <1>1, <1>2, <1>3, SaveInit, PTL DEF Spec
=============================================================================
