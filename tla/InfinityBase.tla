---------------------------- MODULE InfinityBase ----------------------------
(***************************************************************************)
(* The Disney Infinity base: its positions follow the selection, changes   *)
(* are announced in front of everything else the console has to read, and  *)
(* what the console writes is saved as by the Skylanders portal            *)
(* (src/usb/infinity.rs, src/usb/infinity_device.rs).                      *)
(*                                                                         *)
(* In ActiveSlots `Foreign` are the Infinity figures; what is selected of  *)
(* the other kind is never handed to this base.  The parts of the USB loop *)
(* interleave freely, and the flush comes at any time after a write; only  *)
(* a requested restart ends the service of the console.                    *)
(***************************************************************************)
EXTENDS ActiveSlots, FiniteSets, Sequences

CONSTANTS
  Images,       \* save data a figure can carry
  Fresh,        \* the save data all figures start with
  NoOrder,      \* 0xff: nothing was on the position yet
  Repeats,      \* INFINITY_CHANGE_REPORT_REPEATS
  QueueLen,     \* REPORT_QUEUE_LEN
  MaxChanges,   \* bound: changes of the selection
  MaxFailures,  \* bound: failed reads of the selected images
  MaxRefusals   \* bound: flushes in which the library refuses a save

ASSUME InfinityAssumption ==
  /\ Fresh \in Images /\ None \notin Images
  /\ NoOrder \notin Nat
  /\ Repeats \in Nat \ {0} /\ QueueLen \in Nat \ {0}
  /\ MaxChanges \in Nat /\ MaxFailures \in Nat /\ MaxRefusals \in Nat

VARIABLES
  stored,    \* the image of each figure in the library; None once deleted
  selection, \* Catalog.active_slots
  changed,   \* its marker differs from active_selection_marker
  reboot,    \* a restart is "asked" for, or waits for a second, "flushed"
  figures,   \* InfinityBaseState.figures, by portal index
  ids,       \* active_entity_ids
  dirty,     \* dirty_slots
  refused,   \* slots whose save the last flush could not store
  queue,     \* reports for the console
  endpoint,  \* what the interrupt endpoint holds: <<>> or one report
  view,      \* the slots that are occupied as far as the console was told
  changes, failures, refusals  \* so far

library  == <<stored, refused, refusals>>
base     == <<figures, ids, dirty>>
console  == <<queue, endpoint, view>>
vars     == <<library, selection, changed, reboot, base, console, changes, failures>>

\* Reports.  A change names base position and order, which only one slot has.
Change(s, removed) == [op |-> "change", slot |-> s, removed |-> removed]
Presence(fs) == [op |-> "presence", present |-> {s \in Slots : fs[s].present}]
Echo         == [op |-> "echo"]
Done         == [op |-> "done"]

Changes == {Change(s, removed) : s \in Slots, removed \in BOOLEAN}
Reports == Changes \union {Echo, Done}
             \union [op : {"presence"}, present : SUBSET Slots]

NewFigure == [present |-> FALSE, order |-> NoOrder, image |-> Fresh]

TypeOK ==
  /\ stored \in [Foreign -> Images \union {None}]
  /\ selection \in Selections
  /\ changed \in BOOLEAN /\ reboot \in {"no", "asked", "flushed"}
  /\ figures \in [Slots -> [present : BOOLEAN, order : Slots \union {NoOrder},
                            image : Images]]
  /\ ids \in [Slots -> Foreign \union {None}]
  /\ dirty \subseteq Slots /\ refused \subseteq Slots
  /\ queue \in Seq(Reports) /\ Len(queue) <= QueueLen
  /\ endpoint \in Seq(Reports) /\ Len(endpoint) <= 1
  /\ view \subseteq Slots
  /\ changes \in 0 .. MaxChanges /\ failures \in 0 .. MaxFailures
  /\ refusals \in 0 .. MaxRefusals

Init ==
  /\ stored = [e \in Foreign |-> Fresh]
  /\ selection = NoSelection /\ changed = FALSE /\ reboot = "no"
  /\ figures = [s \in Slots |-> NewFigure]
  /\ ids = [s \in Slots |-> None] /\ dirty = {} /\ refused = {}
  /\ queue = <<>> /\ endpoint = <<>> /\ view = {}
  /\ changes = 0 /\ failures = 0 /\ refusals = 0

-----------------------------------------------------------------------------
(***************************************************************************)
(* Web requests.                                                           *)
(***************************************************************************)
ChangeSelection(sel) ==
  /\ changes < MaxChanges /\ changes' = changes + 1
  /\ selection' = sel /\ changed' = TRUE
  /\ UNCHANGED <<refused, refusals, base, console, failures>>

SelectEntity(e, s) ==
  /\ CanUseSlot(e, s)
  /\ e \in Foreign => stored[e] # None
  /\ ChangeSelection(Selected(selection, e, s))
  /\ UNCHANGED <<stored, reboot>>

ClearActive(S) ==
  ChangeSelection(Cleared(selection, S)) /\ UNCHANGED <<stored, reboot>>

DeleteEntity(e) ==
  /\ stored[e] # None /\ stored' = [stored EXCEPT ![e] = None]
  /\ ChangeSelection(Deselected(selection, e))
  /\ UNCHANGED reboot

\* The mode is switched, which clears the slots and asks for a restart.
SetMode ==
  /\ ChangeSelection(NoSelection)
  /\ reboot' = IF reboot = "no" THEN "asked" ELSE reboot
  /\ UNCHANGED stored

-----------------------------------------------------------------------------
(***************************************************************************)
(* Reports waiting for the console.                                        *)
(***************************************************************************)
\* push_report: a full queue loses its newest report.
Pushed(q, r) == IF Len(q) < QueueLen THEN Append(q, r) ELSE [q EXCEPT ![QueueLen] = r]

\* What the queue keeps of q.
Cut(q) == IF Len(q) > QueueLen THEN SubSeq(q, 1, QueueLen) ELSE q

\* The last of the changes cs first, each one Repeats times.
Copies(cs) == [n \in 1 .. Repeats * Len(cs) |-> cs[Len(cs) - (n - 1) \div Repeats]]

\* Mutant of Announced: nothing is lost.
AnnouncedAll(q, cs) == Copies(cs) \o q

\* Mutant of Announced: changes wait for their turn.
AnnouncedInTurn(q, cs) == Cut(q \o Copies(cs))

\* queue_pending_change_reports after each of the changes cs: every report is
\* pushed to the front (push_report_front), and each time everything moves up
\* and the last of a full queue is lost.
Announced(q, cs) == Cut(Copies(cs) \o q)

\* How many of the slots in S come before s.
Before(S, s) == Cardinality({t \in S : t < s})

\* The changes of the slots in S, lowest slot first.
ChangesOf(S, removed) ==
  [n \in 1 .. Cardinality(S) |-> Change(CHOOSE s \in S : Before(S, s) = n - 1, removed)]

-----------------------------------------------------------------------------
(***************************************************************************)
(* Saves (flush_dirty_entities).  R is the set of dirty slots whose save   *)
(* the library refuses.  A slot without id or figure is not saved.         *)
(***************************************************************************)
Saved == {s \in dirty : ids[s] # None /\ figures[s].present}
Gone  == {s \in Saved : stored[ids[s]] = None}

Refusals ==
  {R \in SUBSET Saved : Gone \subseteq R /\ (R # Gone => refusals < MaxRefusals)}

\* Slots are saved in order: of two copies of a figure the last one stays.
StoredAfter(R) ==
  [e \in Foreign |->
     LET copies == {s \in Saved \ R : ids[s] = e}
     IN IF copies = {} THEN stored[e]
        ELSE figures[CHOOSE s \in copies : \A t \in copies : t <= s].image]

Save(R) ==
  /\ R \in Refusals
  /\ stored' = StoredAfter(R) /\ refused' = R
  /\ refusals' = IF R = Gone THEN refusals ELSE refusals + 1

\* Some time after the last write, unless the next write comes first.
Flush ==
  /\ dirty # {} /\ reboot # "flushed"
  /\ \E R \in Refusals : Save(R) /\ dirty' = R
  /\ UNCHANGED <<selection, changed, reboot, figures, ids, console, changes, failures>>

\* With a restart requested everything is saved before it.
FlushForReboot ==
  /\ reboot = "asked" /\ reboot' = "flushed"
  /\ \E R \in Refusals : Save(R) /\ dirty' = R
  /\ UNCHANGED <<selection, changed, figures, ids, console, changes, failures>>

\* The next boots in this mode start with an empty base.
Reset ==
  /\ reboot = "flushed" /\ reboot' = "no"
  /\ selection' = NoSelection /\ changed' = FALSE
  /\ figures' = [s \in Slots |-> NewFigure]
  /\ ids' = [s \in Slots |-> None] /\ dirty' = {}
  /\ queue' = <<>> /\ endpoint' = <<>> /\ view' = {}
  /\ UNCHANGED <<library, changes, failures>>

-----------------------------------------------------------------------------
(***************************************************************************)
(* poll_active_entity.                                                     *)
(***************************************************************************)
ToRemove == {s \in Slots : selection[s] = None /\ ids[s] # None}
ToLoad   == {s \in Slots : selection[s] \in Foreign /\ selection[s] # ids[s]}

Ordered == {s \in Slots : figures[s].order # NoOrder}

\* load_figure, slot by slot: a position keeps the order of its first figure.
\* images is what the library holds when they are read.
Loaded(f, s, images) ==
  [present |-> TRUE,
   order   |-> IF f.order # NoOrder THEN f.order
               ELSE Cardinality(Ordered) + Before(ToLoad \ Ordered, s),
   image   |-> images[selection[s]]]

\* Mutant of Refreshed: images are read before the dirty ones are saved.
RefreshedEarly(images) ==
  [s \in Slots |->
     IF s \in ToLoad THEN Loaded(figures[s], s, stored)
     ELSE IF s \in ToRemove THEN [figures[s] EXCEPT !.present = FALSE]
     ELSE figures[s]]

Refreshed(images) ==
  [s \in Slots |->
     IF s \in ToLoad THEN Loaded(figures[s], s, images)
     ELSE IF s \in ToRemove THEN [figures[s] EXCEPT !.present = FALSE]
     ELSE figures[s]]

\* Mutant of PollActiveEntity: the copies are replaced without being saved.
PollUnsaved ==
  /\ changed /\ changed' = FALSE /\ reboot # "flushed"
  /\ figures' = Refreshed(stored)
  /\ ids' = [s \in Slots |-> IF s \in ToLoad \union ToRemove THEN selection[s] ELSE ids[s]]
  /\ dirty' = dirty \ (ToLoad \union ToRemove)
  /\ queue' = Announced(queue, ChangesOf({s \in ToRemove : figures[s].present}, TRUE)
                                 \o ChangesOf(ToLoad, FALSE))
  /\ UNCHANGED <<library, selection, reboot, endpoint, view, changes, failures>>

\* Everything dirty is saved, then positions are cleared, then loaded.  A
\* figure that takes the place of another is announced as added, no more.
PollActiveEntity ==
  /\ changed /\ changed' = FALSE /\ reboot # "flushed"
  /\ \E R \in Refusals : Save(R) /\ dirty' = R \ (ToLoad \union ToRemove)
  /\ figures' = Refreshed(stored')
  /\ ids' = [s \in Slots |-> IF s \in ToLoad \union ToRemove THEN selection[s] ELSE ids[s]]
  /\ queue' = Announced(queue, ChangesOf({s \in ToRemove : figures[s].present}, TRUE)
                                 \o ChangesOf(ToLoad, FALSE))
  /\ UNCHANGED <<selection, reboot, endpoint, view, changes, failures>>

\* Mutant of ClearAllPositions: the ids stay.
ClearFiguresOnly ==
  /\ figures' = [s \in Slots |-> [figures[s] EXCEPT !.present = FALSE]]
  /\ ids' = ids /\ dirty' = {}
  /\ queue' = Announced(queue, ChangesOf({s \in Slots : figures[s].present}, TRUE))

\* clear_all_positions
ClearAllPositions ==
  /\ figures' = [s \in Slots |-> [figures[s] EXCEPT !.present = FALSE]]
  /\ ids' = [s \in Slots |-> None] /\ dirty' = {}
  /\ queue' = Announced(queue, ChangesOf({s \in Slots : figures[s].present}, TRUE))

\* Mutant of PollFails: the marker is taken over all the same.
PollFailsOnce ==
  /\ changed /\ changed' = FALSE /\ reboot # "flushed"
  /\ \E s \in Slots : selection[s] \in Foreign
  /\ failures < MaxFailures /\ failures' = failures + 1
  /\ \E R \in Refusals : Save(R)
  /\ ClearAllPositions
  /\ UNCHANGED <<selection, reboot, endpoint, view, changes>>

\* One image cannot be read: everything is taken off the base, and the marker
\* stays different.
PollFails ==
  /\ changed /\ reboot # "flushed"
  /\ \E s \in Slots : selection[s] \in Foreign
  /\ failures < MaxFailures /\ failures' = failures + 1
  /\ \E R \in Refusals : Save(R)
  /\ ClearAllPositions
  /\ UNCHANGED <<selection, changed, reboot, endpoint, view, changes>>

-----------------------------------------------------------------------------
(***************************************************************************)
(* Commands of the console (handle_report): an echo and an answer each.    *)
(* It waits for the answer before the next one.                            *)
(***************************************************************************)
Announces(r) == r.op = "change"

Answered(answer) ==
  /\ reboot = "no"
  /\ \A n \in 1 .. Len(endpoint \o queue) : Announces((endpoint \o queue)[n])
  /\ queue' = Pushed(Pushed(queue, Echo), answer)
  /\ UNCHANGED <<library, selection, changed, reboot, ids, endpoint, view,
                 changes, failures>>

\* 0xa1
AskPresence == Answered(Presence(figures)) /\ UNCHANGED <<figures, dirty>>

AtOrder(o) == {s \in Slots : figures[s].present /\ figures[s].order = o}

\* 0xa3: a block outside the image changes nothing and is marked all the same.
WriteBlock(o, img) ==
  /\ Answered(Done)
  /\ figures' = [s \in Slots |-> IF s \in AtOrder(o)
                                 THEN [figures[s] EXCEPT !.image = img] ELSE figures[s]]
  /\ dirty' = dirty \union {s \in AtOrder(o) : ids[s] # None}

\* Commands that read, light up or draw random numbers.
OtherCommand == Answered(Done) /\ UNCHANGED <<figures, dirty>>

-----------------------------------------------------------------------------
(***************************************************************************)
(* Reports on their way to the console (poll_in_endpoint, control_in).     *)
(***************************************************************************)
\* A busy endpoint puts the report back: nothing changes.
SendQueued ==
  /\ reboot = "no" /\ queue # <<>> /\ endpoint = <<>>
  /\ endpoint' = <<Head(queue)>> /\ queue' = Tail(queue)
  /\ UNCHANGED <<library, selection, changed, reboot, base, view, changes, failures>>

\* What the console makes of a report.
Receive(r) ==
  view' = CASE r.op = "change" /\ r.removed  -> view \ {r.slot}
            [] r.op = "change" /\ ~r.removed -> view \union {r.slot}
            [] r.op = "presence"             -> r.present
            [] OTHER                         -> view

ReadEndpoint ==
  /\ endpoint # <<>>
  /\ endpoint' = <<>> /\ Receive(Head(endpoint))
  /\ UNCHANGED <<library, selection, changed, reboot, base, queue, changes, failures>>

\* GET_REPORT overtakes what the endpoint holds.
GetReport ==
  /\ reboot = "no"
  /\ \/ /\ queue # <<>>
        /\ Receive(Head(queue)) /\ queue' = Tail(queue)
     \/ queue = <<>> /\ Receive(Presence(figures)) /\ UNCHANGED queue
  /\ UNCHANGED <<library, selection, changed, reboot, base, endpoint, changes, failures>>

Next ==
  \/ \E e \in Selectable, s \in Slots : SelectEntity(e, s)
  \/ \E S \in {{s} : s \in Slots} \union {Slots} : ClearActive(S)
  \/ \E e \in Foreign : DeleteEntity(e)
  \/ SetMode
  \/ PollActiveEntity \/ PollFails \/ Flush \/ FlushForReboot \/ Reset
  \/ AskPresence \/ OtherCommand
  \/ \E o \in Slots, img \in Images : WriteBlock(o, img)
  \/ SendQueued \/ ReadEndpoint \/ GetReport

\* Only PollActiveEntity and Reset do this.
Polled == changed /\ changed' = FALSE

\* The USB task polls the selection and serves the endpoint for ever, restarts
\* do not hang, and the console keeps reading; commands do not always come
\* just before the USB task finds the endpoint free.
Fairness ==
  /\ WF_changed(Polled) /\ WF_vars(FlushForReboot) /\ WF_vars(Reset)
  /\ SF_vars(SendQueued) /\ WF_vars(ReadEndpoint)

Spec == Init /\ [][Next]_vars /\ Fairness

-----------------------------------------------------------------------------
(***************************************************************************)
(* Properties.                                                             *)
(***************************************************************************)
\* The three tables of the base agree, through failed reads, replacements and
\* restarts: a position is occupied if and only if it has an id, or a write
\* would be answered and then dropped (infinity_device.rs:353), and orders,
\* by which the console names figures, are given to one position each.
TablesAgree ==
  /\ \A s \in Slots : figures[s].present <=> ids[s] # None
  /\ \A s \in dirty : figures[s].present
  /\ \A s \in Slots : figures[s].present => figures[s].order # NoOrder
  /\ \A s, t \in Ordered : figures[s].order = figures[t].order => s = t

\* The console reads of all changes before anything else that waits ("If a
\* figure add/remove response is queued, it is returned first",
\* docs/infinity-usb-target.md:48), also those of a base that filled its queue
\* before and those announced while an answer waits.
ChangesFirst ==
  \A m, n \in 1 .. Len(queue) : m < n /\ Announces(queue[n]) => Announces(queue[m])

\* When the base shows the selection a figure is on one position only (a figure
\* that is selected for a position is taken off its old one), unless one of
\* the two was given an entity of the other game, which nothing in storage
\* prevents: that position keeps its figure, also when the figure is selected
\* for another one.
FigureOnOnePosition ==
  ~changed =>
    \A s, t \in Slots :
      s # t /\ ids[s] # None /\ ids[s] = ids[t] =>
        \E u \in {s, t} : selection[u] \notin Foreign \union {None}

\* A position that is not marked dirty holds what the library holds, so that it
\* can be cleared at any time: through refused saves, moves between positions,
\* failed reads and deletions.  Only while a figure is on two positions can that
\* end: the copy saved last makes the other one stale.
CopiesOf(e)    == {s \in Slots : ids[s] = e}
OneCopy(e)     == \A s, t \in CopiesOf(e) : s = t
CleanStored(e) == \A s \in CopiesOf(e) \ dirty : stored[e] \in {figures[s].image, None}

CleanMeansStored ==
  [][\A e \in Foreign : OneCopy(e) /\ CleanStored(e) => CleanStored(e)']_vars

\* What the console wrote is given up - for another figure, a cleared position,
\* a failed read, a restart in another mode - only after the library took it
\* over, or instead of it another changed copy of the same figure, or refused to.
DirtyLostOnlyIfRefused ==
  [][\A s \in dirty :
       \/ s \in dirty' /\ ids'[s] = ids[s]
       \/ \E t \in CopiesOf(ids[s]) \intersect dirty : stored'[ids[s]] = figures[t].image
       \/ s \in refused']_vars

\* Change reports may be lost or come in the wrong order; a console that asks
\* what is present again and again knows in the end, and for good, which
\* positions are occupied: those with an Infinity figure selected, and of
\* those with an entity of the other game the ones that kept a figure.
AskingIsEnough ==
  []<><<AskPresence>>_vars =>
    <>[](/\ view = {s \in Slots : figures[s].present}
         /\ \A s \in Slots : selection[s] \in Foreign => s \in view
         /\ \A s \in view : selection[s] # None)
=============================================================================
