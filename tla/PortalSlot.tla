----------------------------- MODULE PortalSlot -----------------------------
(***************************************************************************)
(* One slot of the emulated Portal of Power (PortalSlot in                 *)
(* src/usb/skylanders.rs), its image apart: the figure on it, the status   *)
(* the console is told, and the statuses it will be told next, each one    *)
(* for Hold reports.  Pure operators.                                      *)
(***************************************************************************)
EXTENDS Naturals, Sequences

CONSTANTS
  Hold,         \* PLACEMENT_STATUS_HOLD_REPORTS
  QueuedSlots,  \* places for queued statuses
  NoFigure      \* active_entity_id = None

ASSUME PortalSlotAssumption == Hold \in Nat \ {0} /\ QueuedSlots \in Nat

Statuses == {"removed", "ready", "removing", "added"}
Present  == {"ready", "added"}

PortalSlotType(figures) ==
  [entity : figures \union {NoFigure}, status : Statuses,
   queued : Seq(Statuses), hold : 0 .. Hold - 1]

NewSlot ==
  [entity |-> NoFigure, status |-> "removed", queued |-> <<>>, hold |-> 0]

WasPresent(slot) == slot.entity # NoFigure /\ slot.status \in Present

LoadEntity(slot, e) ==
  [entity |-> e, status |-> "added", hold |-> 0,
   queued |-> IF WasPresent(slot)
              THEN <<"removing", "removed", "added", "ready">>
              ELSE <<"added", "ready">>]

ClearSlot(slot) ==
  IF slot.entity = NoFigure /\ slot.status = "removed" THEN slot
  ELSE [entity |-> NoFigure, status |-> "removing", hold |-> 0,
        queued |-> <<"removing", "removed">>]

\* queue_present_cycle: statuses that find no free place are dropped.
PresentCycle(slot) ==
  LET more == slot.queued \o <<"added", "ready">>
      room == IF Len(more) <= QueuedSlots THEN Len(more) ELSE QueuedSlots
  IN [entity |-> slot.entity, status |-> slot.status, hold |-> 0,
      queued |-> SubSeq(more, 1, room)]

\* Mutant of Activated: empty slots are announced too.
ActivatedAlways(slot) == PresentCycle(slot)

Activated(slot) == IF slot.status \in Present THEN PresentCycle(slot) ELSE slot

\* The status the slot arrives at when nothing else happens to it.
FinalStatus(slot) ==
  IF slot.queued = <<>> THEN slot.status ELSE slot.queued[Len(slot.queued)]

\* collapse_for_deactivate.  The hold is reset with the queue only.
Collapsed(slot) ==
  [entity |-> slot.entity, queued |-> <<>>,
   hold   |-> IF slot.queued = <<>> THEN slot.hold ELSE 0,
   status |-> IF FinalStatus(slot) \in Present THEN "ready" ELSE "removed"]

\* Mutant of NextStatus: a status is held for one report too many.
NextStatusLate(slot) ==
  IF slot.hold > 0 THEN [slot EXCEPT !.hold = @ - 1]
  ELSE IF slot.queued = <<>> THEN slot
  ELSE [entity |-> slot.entity, status |-> Head(slot.queued),
        queued |-> Tail(slot.queued), hold |-> Hold]

\* The slot after one status report, which carries the status it has then.
NextStatus(slot) ==
  IF slot.hold > 0 THEN [slot EXCEPT !.hold = @ - 1]
  ELSE IF slot.queued = <<>> THEN slot
  ELSE [entity |-> slot.entity, status |-> Head(slot.queued),
        queued |-> Tail(slot.queued), hold |-> Hold - 1]
=============================================================================
