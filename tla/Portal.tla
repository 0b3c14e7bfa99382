------------------------------- MODULE Portal -------------------------------
(***************************************************************************)
(* Placement on the Skylanders portal: the web interface changes the       *)
(* selection, the USB task polls it and announces it in status reports     *)
(* (src/usb/skylanders_device.rs), and the console reads these reports and *)
(* sends commands.  Images and save data are the subject of Checkpoint.    *)
(*                                                                         *)
(* The USB task calls its parts in a fixed order once a millisecond; here  *)
(* they interleave freely, which includes every pace of the console.       *)
(***************************************************************************)
EXTENDS ActiveSlots, PortalSlot, FiniteSets

CONSTANTS
  QueueLen,       \* REPORT_QUEUE_LEN
  MaxOutstanding, \* bound: commands the console leaves unanswered
  MaxChanges,     \* bound: changes of the selection
  MaxFailures,    \* bound: failed reads of the selected images
  MaxAudio        \* bound: audio packets waiting while there is room

ASSUME PortalAssumption ==
  /\ QueueLen \in Nat \ {0} /\ MaxOutstanding \in Nat
  /\ MaxChanges \in Nat /\ MaxFailures \in Nat /\ MaxAudio \in Nat
  /\ NoFigure = None

VARIABLES
  selection,  \* Catalog.active_slots
  changed,    \* its marker differs from active_selection_marker
  slots,      \* PortalState.slots
  active,     \* PortalState.active
  queue,      \* reports waiting for the interrupt endpoint
  endpoint,   \* what the interrupt endpoint holds: <<>> or one report
  view,       \* what the console was last told of each slot
  awaiting,   \* commands it has no answer for yet
  changes, failures  \* so far

web     == <<selection, changes>>
device  == <<slots, active, queue>>
console == <<view, awaiting>>
vars    == <<web, changed, device, endpoint, console, failures>>

\* A status report; `entity` is not part of it and tells what it was about.
StatusReport(ss) ==
  [op |-> "S", slots |-> [s \in Slots |-> [status |-> ss[s].status,
                                           entity |-> ss[s].entity]]]
Answer == [op |-> "answer"]
Audio  == [op |-> "audio"]

SlotViews == [status : Statuses, entity : Pieces \union {None}]
Reports   == [op : {"S"}, slots : [Slots -> SlotViews]] \union {Answer, Audio}

TypeOK ==
  /\ selection \in Selections
  /\ changed \in BOOLEAN /\ active \in BOOLEAN
  /\ slots \in [Slots -> PortalSlotType(Pieces)]
  /\ queue \in Seq(Reports) /\ Len(queue) <= QueueLen
  /\ endpoint \in Seq(Reports) /\ Len(endpoint) <= 1
  /\ view \in [Slots -> SlotViews]
  /\ awaiting \in 0 .. MaxOutstanding
  /\ changes \in 0 .. MaxChanges /\ failures \in 0 .. MaxFailures

Init ==
  /\ selection = NoSelection /\ changed = FALSE
  /\ slots = [s \in Slots |-> NewSlot] /\ active = TRUE
  /\ queue = <<>> /\ endpoint = <<>>
  /\ view = [s \in Slots |-> [status |-> "removed", entity |-> None]]
  /\ awaiting = 0 /\ changes = 0 /\ failures = 0

-----------------------------------------------------------------------------
(***************************************************************************)
(* The web interface.  Every change takes a new generation, so that the    *)
(* marker the device compares differs even if the slots are the same.      *)
(***************************************************************************)
Change(sel) ==
  /\ changes < MaxChanges /\ changes' = changes + 1
  /\ selection' = sel /\ changed' = TRUE
  /\ UNCHANGED <<device, endpoint, console, failures>>

SelectEntity(e, s) == CanUseSlot(e, s) /\ Change(Selected(selection, e, s))

ClearActive(S) == Change(Cleared(selection, S))

-----------------------------------------------------------------------------
(***************************************************************************)
(* Status reports.                                                         *)
(***************************************************************************)
HasPresentEntities == \E s \in Slots : WasPresent(slots[s])

Advanced(ss) == [s \in Slots |-> NextStatus(ss[s])]

\* The slots after 0, 1, ... QueueLen status reports.
Walk(ss) ==
  LET w[n \in 0 .. QueueLen] == IF n = 0 THEN ss ELSE Advanced(w[n - 1])
  IN w

\* Mutant of QueueStatusReports: what is queued stays, the rest is cut off.
QueueBehind(ss) ==
  LET room == QueueLen - Len(queue) IN
    /\ queue' = queue \o [n \in 1 .. room |-> StatusReport(Walk(ss)[n])]
    /\ slots' = Walk(ss)[room]

\* drop_queued_status_reports.
Compacted(q) ==
  LET kept[n \in 0 .. Len(q)] ==
        IF n = 0 THEN <<>>
        ELSE IF q[n].op = "S" THEN kept[n - 1] ELSE Append(kept[n - 1], q[n])
  IN kept[Len(q)]

\* queue_status_reports(REPORT_QUEUE_LEN): status reports still queued are
\* dropped, and fresh ones fill the queue.  One more is generated, and lost,
\* when other reports make it full before the count is reached.
QueueStatusReports(ss) ==
  LET kept == Compacted(queue)
      room == QueueLen - Len(kept)
  IN /\ queue' = kept \o [n \in 1 .. room |-> StatusReport(Walk(ss)[n])]
     /\ slots' = Walk(ss)[IF kept = <<>> THEN room ELSE room + 1]

-----------------------------------------------------------------------------
(***************************************************************************)
(* poll_active_entity.                                                     *)
(***************************************************************************)
Loaded(slot, e) == IF e \in {None, slot.entity} THEN slot ELSE LoadEntity(slot, e)

\* Slots without a selection are cleared, then the images are loaded.
Refreshed(s) ==
  LET kept == IF selection[s] = None /\ slots[s].entity # NoFigure
              THEN ClearSlot(slots[s]) ELSE slots[s]
  IN Loaded(Loaded(kept, BottomOn(selection, s)), OwnOn(selection, s))

\* Something is cleared or loaded, also if it ends as it was.
PlacementChanged ==
  \E s \in Slots :
    \/ selection[s] = None /\ slots[s].entity # NoFigure
    \/ OwnOn(selection, s) \notin {None, slots[s].entity}
    \/ BottomOn(selection, s) \notin {None, slots[s].entity}

PollActiveEntity ==
  /\ changed /\ changed' = FALSE
  /\ IF PlacementChanged
     THEN QueueStatusReports([s \in Slots |-> Refreshed(s)])
     ELSE UNCHANGED <<queue, slots>>
  /\ UNCHANGED <<web, active, endpoint, console, failures>>

\* Mutant of PollFails: the marker is taken over all the same.
PollFailsOnce ==
  /\ changed /\ \E s \in Slots : ImageOn(selection, s) # None
  /\ failures < MaxFailures /\ failures' = failures + 1
  /\ changed' = FALSE
  /\ slots' = [s \in Slots |-> ClearSlot(slots[s])]
  /\ UNCHANGED <<web, active, queue, endpoint, console>>

\* One image cannot be read: every slot is cleared, nothing is announced and
\* the marker stays different.
PollFails ==
  /\ changed /\ \E s \in Slots : ImageOn(selection, s) # None
  /\ failures < MaxFailures /\ failures' = failures + 1
  /\ slots' = [s \in Slots |-> ClearSlot(slots[s])]
  /\ UNCHANGED <<web, changed, active, queue, endpoint, console>>

-----------------------------------------------------------------------------
(***************************************************************************)
(* Commands of the console (handle_command).                               *)
(***************************************************************************)
\* Mutant of PushReport: a full queue takes no more reports.
PushIfSpace(r) == queue' = IF Len(queue) < QueueLen THEN Append(queue, r) ELSE queue

\* A full queue loses its newest report to the answer.
PushReport(r) ==
  queue' = IF Len(queue) < QueueLen THEN Append(queue, r)
           ELSE [queue EXCEPT ![QueueLen] = r]

Answered ==
  /\ awaiting < MaxOutstanding /\ awaiting' = awaiting + 1
  /\ PushReport(Answer)
  /\ UNCHANGED <<web, changed, endpoint, view, failures>>

Activate ==
  /\ Answered /\ active' = TRUE
  /\ slots' = IF active THEN slots ELSE [s \in Slots |-> Activated(slots[s])]

Deactivate ==
  /\ Answered /\ active' = FALSE
  /\ slots' = [s \in Slots |-> Collapsed(slots[s])]

\* R, J, M, Q and W: an answer, and no change of the placement.
OtherCommand == Answered /\ UNCHANGED <<slots, active>>

\* S: a report is generated, which moves the statuses on, and not queued.
StatusCommand ==
  /\ slots' = Advanced(slots)
  /\ UNCHANGED <<web, changed, active, queue, endpoint, console, failures>>

\* push_audio_report: only audio gives way to audio, here to its like, and
\* without audio in a full queue the packet is dropped.
PushAudio ==
  queue' = IF Len(queue) < QueueLen THEN Append(queue, Audio) ELSE queue

WaitingAudio == {n \in 1 .. Len(queue) : queue[n] = Audio}

\* A 64-byte packet is echoed at once, or queued if the endpoint is busy.
AudioPacket ==
  /\ Cardinality(WaitingAudio) < MaxAudio \/ Len(queue) = QueueLen
  /\ \/ endpoint = <<>> /\ endpoint' = <<Audio>> /\ UNCHANGED queue
     \/ endpoint # <<>> /\ PushAudio /\ UNCHANGED endpoint
  /\ UNCHANGED <<web, changed, slots, active, console, failures>>

-----------------------------------------------------------------------------
(***************************************************************************)
(* Reports on their way to the console (poll_in_endpoint, control_in).     *)
(***************************************************************************)
\* A busy endpoint puts the report back: nothing changes.
SendQueued ==
  /\ queue # <<>> /\ endpoint = <<>>
  /\ endpoint' = <<Head(queue)>> /\ queue' = Tail(queue)
  /\ UNCHANGED <<web, changed, slots, active, console, failures>>

\* With nothing queued the current status is sent while a figure is present.
SendStatus ==
  /\ queue = <<>> /\ HasPresentEntities /\ endpoint = <<>>
  /\ slots' = Advanced(slots)
  /\ endpoint' = <<StatusReport(slots')>>
  /\ UNCHANGED <<web, changed, active, queue, console, failures>>

\* A busy endpoint loses it, and the statuses move on all the same.
LoseStatus ==
  /\ queue = <<>> /\ HasPresentEntities /\ endpoint # <<>>
  /\ slots' = Advanced(slots)
  /\ UNCHANGED <<web, changed, active, queue, endpoint, console, failures>>

\* What the console makes of a report.
Receive(r) ==
  /\ view' = IF r.op = "S" THEN r.slots ELSE view
  /\ awaiting' = IF r.op = "answer" /\ awaiting > 0 THEN awaiting - 1 ELSE awaiting

ReadEndpoint ==
  /\ endpoint # <<>>
  /\ endpoint' = <<>> /\ Receive(Head(endpoint))
  /\ UNCHANGED <<web, changed, device, failures>>

\* GET_REPORT overtakes what the endpoint holds.
GetReport ==
  /\ \/ /\ queue # <<>>
        /\ Receive(Head(queue)) /\ queue' = Tail(queue) /\ UNCHANGED slots
     \/ /\ queue = <<>>
        /\ slots' = Advanced(slots) /\ Receive(StatusReport(slots'))
        /\ UNCHANGED queue
  /\ UNCHANGED <<web, changed, active, endpoint, failures>>

Next ==
  \/ \E e \in Selectable, s \in Slots : SelectEntity(e, s)
  \/ \E S \in {{s} : s \in Slots} \union {Slots} : ClearActive(S)
  \/ PollActiveEntity \/ PollFails
  \/ Activate \/ Deactivate \/ OtherCommand \/ StatusCommand \/ AudioPacket
  \/ SendQueued \/ SendStatus \/ LoseStatus \/ ReadEndpoint \/ GetReport

\* The only step that does this is PollActiveEntity, whose guard is `changed`.
Polled == changed /\ changed' = FALSE

\* The USB task polls the selection and serves the endpoint for ever, the
\* console keeps reading, and neither its commands nor its audio packets
\* always come just before the USB task finds the endpoint free.
Fairness ==
  /\ WF_changed(Polled)
  /\ SF_vars(SendQueued) /\ SF_vars(SendStatus)
  /\ WF_vars(ReadEndpoint)

Spec == Init /\ [][Next]_vars /\ Fairness

-----------------------------------------------------------------------------
(***************************************************************************)
(* Properties.                                                             *)
(***************************************************************************)
\* Whatever is queued, cut short by a deactivation or lost on the way, a
\* slot ends up present exactly when it has a figure, is never present
\* without one, and queue_present_cycle always finds room for its statuses.
SlotsConsistent ==
  \A s \in Slots :
    /\ slots[s].status \in Present => slots[s].entity # NoFigure
    /\ FinalStatus(slots[s]) \in Present <=> slots[s].entity # NoFigure
    /\ Len(slots[s].queued) + 2 <= QueuedSlots

\* When the device takes the selection for known (its marker is the current
\* one), every slot has the figure it gets from the selection, also after reads
\* that failed half way and (de)activations.  A slot with an entity of the
\* other game keeps what it had.
PlacementFollows ==
  ~changed => \A s \in Slots :
                selection[s] \notin Foreign =>
                  slots[s].entity = ImageOn(selection, s)

\* Unless other reports wait, all statuses of a slot whose figure changed are
\* queued at once: REPORT_QUEUE_LEN is enough for a whole replacement.
WholeWalkQueued ==
  [][~changed' /\ (\A n \in 1 .. Len(queue) : queue[n].op = "S") =>
       \A s \in Slots : slots'[s].entity # slots[s].entity =>
                          slots'[s].queued = <<>>]_vars

\* A figure that stays selected is in the end, and for good, what a console
\* that pauses from time to time is told of its slot, through failed reads,
\* dropped and lost reports, audio and (de)activations.
Pause == queue = <<>> /\ endpoint = <<>>

Shown(s) ==
  ImageOn(selection, s) # None =>
    view[s].status \in Present /\ view[s].entity = ImageOn(selection, s)

SelectionIsShown == []<>Pause => <>[](\A s \in Slots : Shown(s))

\* A console that waits for the answer to a command before it sends the next
\* gets every answer, also when the queue is full of status reports or of audio.
\* Of two answers it waits for the first may be lost: in a full queue the second
\* takes its place (push_report), and nothing makes up for that.
CommandsAreAnswered ==
  [](awaiting <= 1) => [](awaiting > 0 => <>(awaiting = 0))

\* A change of figure is never hidden from the console: between the status
\* reports about two figures on one slot it sees the slot not ready
\* ("Clearing or changing the active entity should queue REMOVING, then
\* REMOVED for the old slot", docs/usb-target.md).
SwapIsSeen ==
  [][\A s \in Slots :
       view[s].status = "ready" /\ view'[s].status = "ready" =>
         view'[s].entity = view[s].entity]_vars
=============================================================================
