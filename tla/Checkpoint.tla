----------------------------- MODULE Checkpoint -----------------------------
(***************************************************************************)
(* What the console writes to the figures on the Skylanders portal, and    *)
(* how it gets back into the library (src/usb/skylanders_device.rs): the   *)
(* portal works on copies, which are saved some time after the last write  *)
(* and before they are dropped.                                            *)
(*                                                                         *)
(* The USB task is one cooperative task: `pc` is the part of its loop that *)
(* is next, and web requests are served only while it waits.  Statuses and *)
(* reports are the subject of Portal.                                      *)
(***************************************************************************)
EXTENDS ActiveSlots, FiniteSets

CONSTANTS
  Images,       \* save data a figure can carry
  Fresh,        \* the save data all figures start with
  Debounce,     \* STORAGE_WRITE_DEBOUNCE, in iterations of the loop
  Off,          \* no deadline
  MaxChanges,   \* bound: changes of the selection
  MaxRefusals   \* bound: flushes in which the library refuses a save

ASSUME CheckpointAssumption ==
  /\ Fresh \in Images /\ None \notin Images
  /\ Debounce \in Nat \ {0} /\ Off \notin Nat
  /\ MaxChanges \in Nat /\ MaxRefusals \in Nat

VARIABLES
  stored,     \* the image of each figure in the library; None once deleted
  selection,  \* Catalog.active_slots
  changed,    \* its marker differs from active_selection_marker
  reboot,     \* REBOOT_AFTER_FLUSH_REQUESTED
  slots,      \* PortalState.slots
  deadline,   \* iterations left to dirty_write_deadline, or Off
  pc,         \* what the USB task does next
  refused,    \* slots whose save the last flush could not store
  changes, refusals  \* so far

counters == <<changes, refusals>>
vars == <<stored, selection, changed, reboot, slots, deadline, pc, refused, counters>>

SlotCopies == [entity : Pieces \union {None}, image : Images, dirty : BOOLEAN]
EmptyCopy  == [entity |-> None, image |-> Fresh, dirty |-> FALSE]

Dirty == {s \in Slots : slots[s].dirty}

TypeOK ==
  /\ stored \in [Pieces -> Images \union {None}]
  /\ selection \in Selections
  /\ changed \in BOOLEAN /\ reboot \in BOOLEAN
  /\ slots \in [Slots -> SlotCopies]
  /\ \A s \in Dirty : slots[s].entity # None
  /\ deadline \in 0 .. Debounce \union {Off}
  /\ pc \in {"poll", "flush", "force", "out", "wait", "rebooting"}
  /\ refused \subseteq Slots
  /\ changes \in 0 .. MaxChanges /\ refusals \in 0 .. MaxRefusals

Init ==
  /\ stored = [e \in Pieces |-> Fresh]
  /\ selection = NoSelection /\ changed = FALSE /\ reboot = FALSE
  /\ slots = [s \in Slots |-> EmptyCopy]
  /\ deadline = Off /\ pc = "poll" /\ refused = {}
  /\ changes = 0 /\ refusals = 0

-----------------------------------------------------------------------------
(***************************************************************************)
(* Web requests.                                                           *)
(***************************************************************************)
Change(sel) ==
  /\ pc \in {"wait", "rebooting"}
  /\ changes < MaxChanges /\ changes' = changes + 1
  /\ selection' = sel /\ changed' = TRUE
  /\ UNCHANGED <<slots, deadline, pc, refused, refusals>>

SelectEntity(e, s) ==
  /\ CanUseSlot(e, s)
  /\ e \in Figures => stored[e] # None
  /\ Change(Selected(selection, e, s))
  /\ UNCHANGED <<stored, reboot>>

ClearActive(S) ==
  Change(Cleared(selection, S)) /\ UNCHANGED <<stored, reboot>>

DeleteEntity(e) ==
  /\ stored[e] # None /\ stored' = [stored EXCEPT ![e] = None]
  /\ Change(Deselected(selection, e))
  /\ UNCHANGED reboot

\* The mode is switched, which clears the slots and asks for a restart.
SetMode ==
  Change(NoSelection) /\ reboot' = TRUE /\ UNCHANGED stored

-----------------------------------------------------------------------------
(***************************************************************************)
(* Saves.  R is the set of dirty slots whose save the library refuses: it  *)
(* is full, the flash fails, or the figure is gone.                        *)
(***************************************************************************)
Gone == {s \in Dirty : stored[slots[s].entity] = None}

Refusals ==
  {R \in SUBSET Dirty : Gone \subseteq R /\ (R # Gone => refusals < MaxRefusals)}

\* Slots are saved in order: of two copies of a figure the last one stays.
StoredAfter(R) ==
  [e \in Pieces |->
     LET copies == {s \in Dirty \ R : slots[s].entity = e}
     IN IF copies = {} THEN stored[e]
        ELSE slots[CHOOSE s \in copies : \A t \in copies : t <= s].image]

\* Mutant of SlotsAfter: one save that succeeds marks every slot clean.
AllCleanAfter(R) ==
  [s \in Slots |-> [slots[s] EXCEPT !.dirty = @ /\ R = Dirty]]

SlotsAfter(R) == [s \in Slots |-> [slots[s] EXCEPT !.dirty = s \in R]]

\* A refused save is tried again after another debounce time; if some other
\* save succeeded the deadline is dropped, and set by the next flush.
DeadlineAfter(R) == IF R # {} /\ R = Dirty THEN Debounce ELSE Off

\* What flush_dirty_entity(true) does apart from the slots.
Save(R) ==
  /\ R \in Refusals
  /\ stored' = StoredAfter(R) /\ refused' = R
  /\ refusals' = IF R = Gone THEN refusals ELSE refusals + 1

\* A requested restart makes the loop flush once more before it looks at USB.
AfterFlush == IF reboot THEN "force" ELSE "out"


\* flush_dirty_entity(false)
Flush ==
  /\ pc = "flush" /\ pc' = AfterFlush
  /\ \/ /\ Dirty = {} /\ deadline' = Off
        /\ UNCHANGED <<stored, slots, refused, refusals>>
     \/ /\ Dirty # {} /\ deadline # 0
        /\ deadline' = IF deadline = Off THEN Debounce ELSE deadline
        /\ UNCHANGED <<stored, slots, refused, refusals>>
     \/ /\ Dirty # {} /\ deadline = 0
        /\ \E R \in Refusals :
             Save(R) /\ slots' = SlotsAfter(R) /\ deadline' = DeadlineAfter(R)
  /\ UNCHANGED <<selection, changed, reboot, changes>>

\* With a restart requested everything is saved first, whatever the deadline:
\* flush_dirty_entity(true), with nothing in between.
FlushForReboot ==
  /\ pc = "force" /\ pc' = "rebooting"
  /\ \E R \in Refusals :
       Save(R) /\ slots' = SlotsAfter(R) /\ deadline' = DeadlineAfter(R)
  /\ UNCHANGED <<selection, changed, reboot, changes>>

\* software_reset a second later; the slots come up empty.
Reset ==
  /\ pc = "rebooting" /\ pc' = "poll"
  /\ selection' = NoSelection /\ changed' = FALSE /\ reboot' = FALSE
  /\ slots' = [s \in Slots |-> EmptyCopy] /\ deadline' = Off
  /\ UNCHANGED <<stored, refused, counters>>

-----------------------------------------------------------------------------
(***************************************************************************)
(* poll_active_entity.                                                     *)
(***************************************************************************)
Copy(e) == [entity |-> e, image |-> stored'[e], dirty |-> FALSE]

\* Mutant of Refreshed: a cleared slot stays dirty.
RefreshedDirty(ss) ==
  [s \in Slots |->
     LET kept == IF selection[s] = None THEN [ss[s] EXCEPT !.entity = None] ELSE ss[s]
         own  == OwnOn(selection, s)
     IN IF own \in {None, kept.entity} THEN kept ELSE Copy(own)]

\* The copies on the portal once it shows the selection.  ss are the copies
\* after the flush, which comes first, so that images are read as saved.
Refreshed(ss) ==
  [s \in Slots |->
     LET kept   == IF selection[s] = None THEN EmptyCopy ELSE ss[s]
         bottom == BottomOn(selection, s)
         own    == OwnOn(selection, s)
         under  == IF bottom \in {None, kept.entity} THEN kept ELSE Copy(bottom)
     IN IF own \in {None, under.entity} THEN under ELSE Copy(own)]

\* Mutant of PollActiveEntity: the copies are replaced without being saved.
PollUnsaved ==
  /\ pc = "poll" /\ changed /\ pc' = "flush"
  /\ UNCHANGED <<stored, selection, reboot, deadline, refused, counters>>
  /\ slots' = Refreshed(slots) /\ changed' = FALSE

\* Not every iteration polls (storage_poll_ticks).
SkipPoll ==
  /\ pc = "poll" /\ pc' = "flush"
  /\ UNCHANGED <<stored, selection, changed, reboot, slots, deadline, refused, counters>>

\* A failed read of one image empties every slot and is tried again.
PollActiveEntity ==
  /\ pc = "poll" /\ changed /\ pc' = "flush"
  /\ \E R \in Refusals :
       /\ Save(R) /\ deadline' = DeadlineAfter(R)
       /\ \/ slots' = Refreshed(SlotsAfter(R)) /\ changed' = FALSE
          \/ /\ \E s \in Slots : ImageOn(selection, s) # None
             /\ slots' = [s \in Slots |-> EmptyCopy] /\ changed' = TRUE
  /\ UNCHANGED <<selection, reboot, changes>>

-----------------------------------------------------------------------------
(***************************************************************************)
(* The console's write_block, one command an iteration at most.            *)
(***************************************************************************)
\* schedule_dirty_flush
Scheduled(ss) ==
  IF \E s \in Slots : ss[s].dirty THEN Debounce ELSE deadline

\* Writes are refused while the slot is between two figures; what is written
\* unchanged, or refused, postpones the flush as well.
WriteBlock ==
  /\ pc = "out" /\ pc' = "wait"
  /\ \/ \E s \in Slots, img \in Images :
          /\ slots[s].entity # None /\ slots[s].image # img
          /\ slots' = [slots EXCEPT ![s].image = img, ![s].dirty = TRUE]
     \/ UNCHANGED slots
  /\ deadline' = Scheduled(slots')
  /\ UNCHANGED <<stored, selection, changed, reboot, refused, counters>>

NoWrite ==
  /\ pc = "out" /\ pc' = "wait"
  /\ UNCHANGED <<stored, selection, changed, reboot, slots, deadline, refused, counters>>

\* A millisecond passes.
Wait ==
  /\ pc = "wait" /\ pc' = "poll"
  /\ deadline' = IF deadline \in {0, Off} THEN deadline ELSE deadline - 1
  /\ UNCHANGED <<stored, selection, changed, reboot, slots, refused, counters>>

Loop ==
  \/ SkipPoll \/ PollActiveEntity \/ Flush \/ FlushForReboot \/ Reset
  \/ WriteBlock \/ NoWrite \/ Wait

Next ==
  \/ \E e \in Selectable, s \in Slots : SelectEntity(e, s)
  \/ \E S \in {{s} : s \in Slots} \union {Slots} : ClearActive(S)
  \/ \E e \in Figures : DeleteEntity(e)
  \/ SetMode
  \/ Loop

\* The loop never ends, and polls the selection again and again.
Spec == Init /\ [][Next]_vars /\ WF_vars(Loop) /\ SF_vars(PollActiveEntity)

-----------------------------------------------------------------------------
(***************************************************************************)
(* Properties.                                                             *)
(***************************************************************************)
CopiesOf(e) == {s \in Slots : slots[s].entity = e}

\* A copy the console changed is given up - for another figure, a cleared
\* slot, a restart in another mode - only after the library took over its
\* content or refused to.  Of several copies of one figure, which an entity of
\* the other game and combos that share a half make possible, only one is taken
\* over: the others are lost to it.
DirtyLostOnlyIfRefused ==
  [][\A s \in Dirty :
       LET e == slots[s].entity IN
         \/ slots'[s].dirty /\ slots'[s].entity = e
         \/ \E t \in CopiesOf(e) : /\ stored'[e] = slots[t].image
                                   /\ t = s \/ slots[t].dirty
         \/ s \in refused']_vars

\* A copy that is not marked dirty is what the library holds, so that it can be
\* dropped at any time: through refused saves, moves between slots, combos that
\* overlap another selection, failed reads and deletions.  Only while a figure
\* is on two slots can that end: the copy saved last makes the other one stale.
OneCopy(e)     == \A s, t \in CopiesOf(e) : s = t
CleanStored(e) == \A s \in CopiesOf(e) :
                    ~slots[s].dirty => stored[e] \in {slots[s].image, None}

CleanMeansStored ==
  [][\A e \in Pieces : OneCopy(e) /\ CleanStored(e) => CleanStored(e)']_vars

\* When the portal shows the selection a figure is on one slot only (moving a
\* selection takes it off its old slot, storage/tests.rs:168), but for the two
\* cases that nothing in storage prevents: it is half of two combos that are
\* both selected, or stayed on a slot that was given an entity of the other
\* game and then was selected for another slot.
SharedHalf(e) ==
  \E s, t \in Slots :
    /\ {selection[s], selection[t]} \subseteq Combos /\ selection[s] # selection[t]
    /\ e \in {selection[s][1], selection[s][2]}
    /\ e \in {selection[t][1], selection[t][2]}

FigureOnOneSlot ==
  ~changed =>
    \A s, t \in Slots :
      s # t /\ slots[s].entity # None /\ slots[s].entity = slots[t].entity =>
        {selection[s], selection[t]} \intersect Foreign # {} \/ SharedHalf(slots[s].entity)

=============================================================================
