----------------------------- MODULE SaveSeries -----------------------------
(***************************************************************************)
(* A game saves to a figure block by block, while the device copies the    *)
(* image to the library whenever a selection changes or a minute is over,  *)
(* also in the middle of a series.  One slot of the portal is modelled,    *)
(* with its image part by part; the other slots, reports and deadlines are *)
(* in Portal and Checkpoint.                                               *)
(*                                                                         *)
(* The console learns of a change of figure from status reports, some time *)
(* after it happened (`told`).  It keeps two rules of the format: it       *)
(* writes to the area that does not count, in any order of its parts, and  *)
(* encrypts with the header of the figure it believes to be there.         *)
(***************************************************************************)
EXTENDS FigureImage

CONSTANTS
  MaxId,       \* bound: record ids of figures
  Kinds,       \* characters, with their variants
  Uids,        \* tag uids
  Uid,         \* generated_uid: the uid of a figure, from its id and its kind
  MaxSave,     \* bound: saves of one figure
  MaxFormats,  \* bound: formats of the storage
  Refusals,    \* may the library refuse to save, or fail to read?
  Spoilt       \* a figure of which nothing is promised any more

Ids == 1 .. MaxId

Headers == Uids \X Kinds
Blocks  == [key : Headers \union {None}, save : Junk .. MaxSave]
Images  == [header : Headers \union {None}, area : [Areas -> [Parts -> Blocks]]]

\* The figure it has read: its header, the area that counts and the save there.
Knowledge == [key : Headers, area : Areas, save : 1 .. MaxSave]

ASSUME SeriesAssumption ==
  /\ MaxId \in Nat /\ MaxSave \in Nat \ {0} /\ MaxFormats \in Nat
  /\ Refusals \in BOOLEAN /\ Uid \in [Ids \X Kinds -> Uids]
  /\ None \notin Ids /\ None \notin Kinds /\ None \notin Headers /\ None \notin Images
  /\ None \notin Knowledge /\ None \notin 0 .. MaxSave
  /\ Spoilt \notin (0 .. MaxSave) \union {None}

VARIABLES
  stored,    \* the library's image of each figure, or None
  kind,      \* what each figure is, or None
  next,      \* Catalog.next_record_id
  formats,   \* formats so far
  selected,  \* the figure selected for the slot, or None
  changed,   \* the selection marker differs from the device's
  slot,      \* the slot
  known,     \* what the console knows of the figure, or None
  left,      \* parts it still has to write
  spoilt     \* figures that hold a part meant for another

library == <<stored, kind, next, formats, spoilt>>
console == <<known, left>>
vars    == <<library, selected, changed, slot, console>>

\* The header given to a figure: two figures of a kind whose ids have the same
\* uid have the same, and so may those with one id before and after a format.
HeaderOf(id, k) == <<Uid[id, k], k>>

Header(id) == HeaderOf(id, kind[id])

\* entity: active_entity_id; told: the console knows; strayed: an accepted
\* part was written by a console that did not; old: from before a format.
SlotType == [entity : Ids \union {None}, image : Images, dirty : BOOLEAN,
             told : BOOLEAN, strayed : BOOLEAN, old : BOOLEAN]

Empty == [entity |-> None, image |-> Placeholder(None), dirty |-> FALSE,
          told |-> TRUE, strayed |-> FALSE, old |-> FALSE]

TypeOK ==
  /\ stored \in [Ids -> Images \union {None}]
  /\ kind \in [Ids -> Kinds \union {None}]
  /\ next \in Nat \ {0} /\ \A i \in Ids : stored[i] # None => i < next
  /\ formats \in 0 .. MaxFormats
  /\ selected \in Ids \union {None} /\ changed \in BOOLEAN
  /\ slot \in SlotType
  /\ known \in Knowledge \union {None}
  /\ left \subseteq Parts
  /\ spoilt \subseteq Ids

Init ==
  /\ stored = [i \in Ids |-> None] /\ kind = [i \in Ids |-> None]
  /\ next = 1 /\ formats = 0 /\ spoilt = {}
  /\ selected = None /\ changed = FALSE /\ slot = Empty
  /\ known = None /\ left = {}

-----------------------------------------------------------------------------
(***************************************************************************)
(* The web interface.                                                      *)
(***************************************************************************)
Added(k, img) ==
  /\ next \in Ids
  /\ stored' = [stored EXCEPT ![next] = img] /\ next' = next + 1
  /\ kind' = [kind EXCEPT ![next] = k]
  /\ UNCHANGED <<formats, selected, changed, slot, console>>

CreateEntity(k) == Added(k, NewImage(HeaderOf(next, k))) /\ UNCHANGED spoilt

\* clone_entity_from_params copies the library's image, not the portal's.
CloneEntity(i) ==
  /\ stored[i] # None
  /\ Added(kind[i], Rekeyed(stored[i], HeaderOf(next, kind[i])))
  /\ spoilt' = spoilt \union {n \in {next} : i \in spoilt}

\* Bound: a spoilt figure is not put on the portal again.
Selectable(i) == stored[i] # None /\ i \notin spoilt

\* A selection takes a new generation even if it is the old one.  After a
\* format generations begin again, and the marker may be the old one by chance.
SelectEntity(i) ==
  /\ Selectable(i)
  /\ selected' = i
  /\ changed' \in IF slot.entity = i /\ slot.old THEN BOOLEAN ELSE {TRUE}
  /\ UNCHANGED <<library, slot, console>>

ClearActive ==
  /\ selected' = None /\ changed' = TRUE
  /\ UNCHANGED <<library, slot, console>>

DeleteEntity(i) ==
  /\ stored[i] # None
  /\ stored' = [stored EXCEPT ![i] = None] /\ kind' = [kind EXCEPT ![i] = None]
  /\ spoilt' = spoilt \ {i}
  /\ IF selected = i THEN selected' = None /\ changed' = TRUE
     ELSE UNCHANGED <<selected, changed>>
  /\ UNCHANGED <<next, formats, slot, console>>

\* Mutant of Format: the ids begin again, the figures stay.
FormatIds ==
  /\ formats < MaxFormats /\ formats' = formats + 1
  /\ next' = 1 /\ selected' = None /\ changed' = TRUE
  /\ UNCHANGED <<stored, kind, spoilt, slot, console>>

\* format_storage: a new catalog, whose ids and generations begin again.  The
\* portal keeps its copy of a figure that is no more.
Format ==
  /\ formats < MaxFormats /\ formats' = formats + 1
  /\ stored' = [i \in Ids |-> None] /\ kind' = [i \in Ids |-> None]
  /\ next' = 1 /\ spoilt' = {}
  /\ selected' = None /\ changed' = TRUE
  /\ slot' = [slot EXCEPT !.old = slot.entity # None]
  /\ UNCHANGED console

-----------------------------------------------------------------------------
(***************************************************************************)
(* The device.                                                             *)
(***************************************************************************)
\* replace_entity_blob of a dirty slot; it refuses deleted figures, and may
\* refuse others.  It knows a figure by its id alone, so the copy of one from
\* before a format, which may even have the same header, replaces the image of
\* the one that has its id now.  s is the slot afterwards.
Flushed(s) ==
  \/ /\ ~slot.dirty /\ s = slot /\ UNCHANGED <<stored, spoilt>>
  \/ /\ slot.dirty /\ slot.entity # None /\ stored[slot.entity] # None
     /\ s = [slot EXCEPT !.dirty = FALSE]
     /\ stored' = [stored EXCEPT ![slot.entity] = slot.image]
     /\ spoilt' = spoilt \union
          {i \in {slot.entity} : slot.strayed \/ slot.old}
  \/ /\ slot.dirty /\ (Refusals \/ slot.entity = None \/ stored[slot.entity] = None)
     /\ s = slot /\ UNCHANGED <<stored, spoilt>>

\* flush_dirty_entity, when the debounce time is over.
Flush ==
  /\ slot.dirty
  /\ \E s \in {slot, [slot EXCEPT !.dirty = FALSE]} : Flushed(s) /\ slot' = s
  /\ UNCHANGED <<kind, next, formats, selected, changed, console>>

\* clear_slot; the image of an empty slot is never read.
Cleared(s) ==
  IF s.entity = None THEN s
  ELSE [Empty EXCEPT !.told = FALSE]

\* Mutant of Loaded: a figure that takes the place of another is not announced.
LoadedSilently(s, i) ==
  [entity |-> i, image |-> stored'[i], dirty |-> FALSE,
   told |-> s.told /\ s.entity # None, strayed |-> i \in spoilt', old |-> FALSE]

\* load_entity_into_slot: present at once, before the console hears of it.
Loaded(s, i) ==
  [entity |-> i, image |-> stored'[i], dirty |-> FALSE,
   told |-> FALSE, strayed |-> i \in spoilt', old |-> FALSE]

\* poll_active_entity: save, clear, load.  A figure with the id of the one on
\* the portal is taken for it.
PollActiveEntity ==
  /\ changed /\ changed' = FALSE
  /\ \E s \in {slot, [slot EXCEPT !.dirty = FALSE]} :
       /\ Flushed(s)
       /\ slot' = IF selected = None THEN Cleared(s)
                  ELSE IF selected = s.entity THEN s
                  ELSE Loaded(s, selected)
  /\ UNCHANGED <<kind, next, formats, selected, console>>

\* An image that cannot be read clears the portal; the poll is repeated.
PollFails ==
  /\ Refusals /\ changed
  /\ \E s \in {slot, [slot EXCEPT !.dirty = FALSE]} : Flushed(s) /\ slot' = Cleared(s)
  /\ UNCHANGED <<kind, next, formats, selected, changed, console>>

\* Power fails, or the mode changes: the selection is not kept.
Restart ==
  /\ selected' = None /\ changed' = FALSE /\ slot' = Empty
  /\ known' = None /\ left' = {}
  /\ UNCHANGED library

-----------------------------------------------------------------------------
(***************************************************************************)
(* The console.                                                            *)
(***************************************************************************)
\* It has read the status reports and then, if a figure is ready, its image.
Notice ==
  /\ ~slot.told /\ slot' = [slot EXCEPT !.told = TRUE]
  /\ known' = IF slot.entity # None /\ Newest(slot.image) > 0
              THEN [key  |-> slot.image.header,
                    area |-> NewestArea(slot.image), save |-> Newest(slot.image)]
              ELSE None
  /\ left' = {}
  /\ UNCHANGED <<library, selected, changed>>

\* Bound: one stray part in a figure, and none once a figure is spoilt.
OneStray == ~slot.strayed /\ (slot.told \/ spoilt = {})

StartSave ==
  /\ OneStray /\ known # None /\ left = {} /\ known.save < MaxSave
  /\ known' = [known EXCEPT !.area = Other(@), !.save = @ + 1]
  /\ left' = Parts
  /\ UNCHANGED <<library, selected, changed, slot>>

\* write_block: any figure that is present takes it; what is there already
\* changes nothing.
WriteBlock(p) ==
  LET img == Written(slot.image, known.area, p, Encrypted(known.key, known.save)) IN
  /\ p \in left /\ left' = left \ {p} /\ slot.entity # None /\ OneStray
  /\ slot' = IF img = slot.image THEN slot
             ELSE [slot EXCEPT !.image = img, !.dirty = TRUE, !.strayed = ~slot.told]
  /\ UNCHANGED <<library, selected, changed, known>>

WriteRefused ==
  /\ left # {} /\ slot.entity = None
  /\ known' = None /\ left' = {}
  /\ UNCHANGED <<library, selected, changed, slot>>

Next ==
  \/ ClearActive \/ Format
  \/ \E k \in Kinds : CreateEntity(k)
  \/ \E i \in Ids : CloneEntity(i) \/ SelectEntity(i) \/ DeleteEntity(i)
  \/ Flush \/ PollActiveEntity \/ PollFails \/ Restart
  \/ Notice \/ StartSave \/ WriteRefused
  \/ \E p \in Parts : WriteBlock(p)

Spec == Init /\ [][Next]_vars

-----------------------------------------------------------------------------
(***************************************************************************)
(* Properties.                                                             *)
(***************************************************************************)
\* Whenever it was copied, also between two blocks of a save: the image of a
\* figure in the library has a valid save, under its own header.
AlwaysPlayable ==
  \A i \in Ids \ spoilt :
    stored[i] # None => stored[i].header = Header(i) /\ Newest(stored[i]) > 0

\* The save a figure is loaded with.
SaveOf == [i \in Ids |-> IF stored[i] = None THEN None
                        ELSE IF i \in spoilt THEN Spoilt
                        ELSE Newest(stored[i])]

Progress == INSTANCE Saves WITH progress <- SaveOf

\* The save in a figure never gets older: not by a save in the middle of a
\* series, a refused save, a change of figures, a clone or a restart.
ImplementsSaves == Progress!Spec
=============================================================================
