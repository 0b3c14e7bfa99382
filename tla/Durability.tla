----------------------------- MODULE Durability -----------------------------
(***************************************************************************)
(* What the flash holds, as a definition rather than as a scan, and the    *)
(* properties of Store that relate it to the catalog in RAM.               *)
(***************************************************************************)
EXTENDS Store

\* The next boot reads the journal up to the first cell that is no record.
JournalEnd ==
  LET ends == {p \in Cells : flash[p] \in {Erased, Torn}} \union {Cap}
  IN CHOOSE e \in ends : \A p \in ends : e <= p

Journal == 0 .. JournalEnd - 1

Latest(S) == CHOOSE p \in S : \A q \in S : q <= p

\* Cells of the journal with a record of one of the given types about id i.
About(types, i) == {p \in Journal : flash[p].type \in types /\ flash[p].id = i}

\* The last word of the journal about entity i, identity i and blob b.
DurableEntity(i) ==
  LET about == About({"entity", "entityDel"}, i) IN
    IF about = {} \/ flash[Latest(about)].type = "entityDel" THEN Absent
    ELSE flash[Latest(about)].entity

DurableIdentity(i) ==
  LET about == About({"identity", "identityDel"}, i) IN
    IF about = {} \/ flash[Latest(about)].type = "identityDel" THEN Absent
    ELSE flash[Latest(about)].name

DurableBlob(b) ==
  LET about == About({"blob"}, b) IN
    IF about = {} THEN Absent ELSE flash[Latest(about)].img

DurableMode ==
  LET about == {p \in Journal : flash[p].type = "config"} IN
    IF about = {} THEN "skylanders" ELSE flash[Latest(about)].mode

\* A figure as users see it: the blob id gives way to the image behind it.
Seen(e, image) ==
  IF e = Absent THEN Absent
  ELSE [kind |-> e.kind, name |-> e.name, parent |-> e.parent,
        top |-> e.top, bottom |-> e.bottom,
        img |-> IF e.kind = "combo" \/ e.blob = 0 THEN Fresh ELSE image]

\* No figure looks like an empty slot.
ASSUME SeenAssumption ==
  Absent \notin [kind : Kinds, name : Names, parent : RecordIds \union {NoId},
                top : RecordIds \union {NoId}, bottom : RecordIds \union {NoId},
                img : Images]

BlobOf(e) == IF e = Absent THEN 0 ELSE e.blob

RamFigure(i) ==
  LET e == Entities[i] IN
    Seen(e, IF BlobOf(e) = 0 THEN Fresh ELSE ReadBlob(e.blob))

DurableFigure(i) ==
  LET e == DurableEntity(i) IN
    Seen(e, IF BlobOf(e) = 0 THEN Fresh ELSE DurableBlob(e.blob))

SameLibrary ==
  \A i \in RecordIds : /\ RamFigure(i) = DurableFigure(i)
                       /\ Identities[i] = DurableIdentity(i)

\* No torn record before the append position.
NoTear == \A p \in Cells : p < Offset => flash[p] # Torn

-----------------------------------------------------------------------------
(***************************************************************************)
(* Safety.                                                                 *)
(***************************************************************************)
\* Between operations a restart would bring back exactly the library that
\* users are being shown: every acknowledged create, rename, delete and save
\* is in the journal, and nothing else is.
RebootSafe == pc = "idle" => SameLibrary

\* As long as appends are answered Ok or by a refusal, and no table is full, a
\* torn record is the only thing that can make the library on flash fall behind
\* the one in RAM: unless one lies before it, the journal is never appended to
\* in a place that the next boot does not reach.
LossOnlyAfterTear == pc = "idle" /\ NoTear => SameLibrary

\* The USB mode in RAM differs from the one the next boot will use only if
\* its configuration record was refused (set_usb_mode_from_params changes RAM
\* first and reports the error), or lies behind a torn record.
ModeDivergesOnlyWhenRefused ==
  pc = "idle" /\ Writable(catalog) /\ NoTear => catalog.usb_mode = DurableMode

\* The image behind every mutable figure of the catalog can be read, also
\* while the catalog is being rebuilt by a boot or a compaction: blobs always
\* come before the entities that refer to them, and survive as long as these.
BlobsReadable ==
  \A i \in RecordIds :
    BlobOf(Entities[i]) # 0 => ReadBlob(Entities[i].blob) # Absent

\* Both halves of every Swap Force combo are figures of the right kind
\* (active_slot_images would otherwise fail for every slot of the portal).
CombosComplete ==
  pc = "idle" =>
    \A i \in RecordIds :
      Entities[i] # Absent /\ Entities[i].kind = "combo" =>
        HalfOf(Entities[i].top, "top") /\ HalfOf(Entities[i].bottom, "bottom")

\* Every row of the catalog is backed by the journal: its record, with this
\* very content, is intact in a cell before the append position.
RowsBacked ==
  /\ \A i \in RecordIds :
       Entities[i] # Absent =>
         \E p \in Cells : p < Offset /\ flash[p] = EntityRec(i, Entities[i])
  /\ \A i \in RecordIds :
       Identities[i] # Absent =>
         \E p \in Cells : p < Offset /\ flash[p] = IdentityRec(i, Identities[i])
  /\ \A b \in BlobIds :
       catalog.blobs[b] # Absent =>
         /\ catalog.blobs[b].offset < Offset
         /\ flash[catalog.blobs[b].offset] = BlobRec(b, catalog.blobs[b].crc)

\* The journal has lost its first record, and the catalog still ends behind it:
\* what a failed erase leaves (compact_store and format_storage return the error
\* and keep the catalog).  No append fills the hole.
Holed == Offset > 0 /\ flash[0] = Erased

\* Nothing is shown to users, put on the portal or compacted that flash does not
\* hold, through every power failure; after a failed erase the catalog may show
\* figures that are gone, until the store is compacted, formatted or restarted.
RowsJournalled == Holed \/ RowsBacked

\* An id handed out next is not the id of a figure, identity or blob of the
\* catalog: upsert_by_id would silently replace that row.  (Until the counter
\* of record ids comes round: CounterWraps.)
NewIdsAreUnused ==
  /\ \A i \in RecordIds :
       Entities[i] # Absent \/ Identities[i] # Absent => i < catalog.next_record_id
  /\ \A b \in BlobIds : catalog.blobs[b] # Absent => b < catalog.next_blob_id

\* What a compaction or a format has still to write always fits: the erased
\* region takes back every live figure, identity and blob and the configuration,
\* whatever was deleted or saved again before (compact_store, which could not
\* give back what it has erased).
RewriteKeepsFigures ==
  pc = "rewrite" => Offset + Cardinality(job.todo) <= Cap

\* The store refuses to work ("storage needs format") only when the flash is
\* damaged: every library that users can build is one the next boot accepts.
OnlyDamageNeedsFormat ==
  pc = "idle" /\ catalog.needs_format => \E p \in Cells : flash[p] = Torn

-----------------------------------------------------------------------------
(***************************************************************************)
(* Action property: outside an erase, a programmed cell is never written   *)
(* again (journal.rs appends at the end, and scan_flash finds that end).   *)
(***************************************************************************)
ErasesAll == \A p \in Cells : flash'[p] = Erased

AppendOnly ==
  [][ErasesAll \/ \A p \in Cells : flash[p] \in {Erased, flash'[p]}]_vars

-----------------------------------------------------------------------------
\* The largest record id is handed out, and the counter starts again at zero
\* (u32 arithmetic of Catalog::next_record_id): a client that deletes the record
\* with that id, which need not exist, brings it about with the next boot and
\* creation.  Ids are only unique until then.
CounterWraps ==
  catalog.next_record_id = MaxRecordId /\ catalog'.next_record_id = 0

(***************************************************************************)
(* Refinement: users see the abstract Library.  While the region is being  *)
(* rewritten what is still to be written counts as part of it.             *)
(***************************************************************************)
Pending(type, i) ==
  {r \in job.todo : pc = "rewrite" /\ r.type = type /\ r.id = i}

LibraryEntity(i) ==
  IF Pending("entity", i) = {} THEN DurableEntity(i)
  ELSE (CHOOSE r \in Pending("entity", i) : TRUE).entity

LibraryBlob(b) ==
  IF Pending("blob", b) = {} THEN DurableBlob(b)
  ELSE (CHOOSE r \in Pending("blob", b) : TRUE).img

LibraryFigure(i) ==
  LET e == LibraryEntity(i) IN
    Seen(e, IF BlobOf(e) = 0 THEN Fresh ELSE LibraryBlob(e.blob))

LibraryPerson(i) ==
  IF Pending("identity", i) = {} THEN DurableIdentity(i)
  ELSE (CHOOSE r \in Pending("identity", i) : TRUE).name

\* Boots, power cuts and compactions are invisible: the library users get
\* back is the one they had.
Maintenance ==
  \/ boots' # boots \/ pc = "scan"
  \/ "rewrite" \in {pc, pc'} /\ "format" \notin {job.op, job'.op}

MaintenanceInvisible ==
  [][Maintenance => /\ \A i \in RecordIds : LibraryFigure(i)' = LibraryFigure(i)
                    /\ \A i \in RecordIds : LibraryPerson(i)' = LibraryPerson(i)]_vars

Lib == INSTANCE Library WITH
  Ids <- RecordIds, Nobody <- Absent,
  figures <- [i \in RecordIds |-> LibraryFigure(i)],
  people <- [i \in RecordIds |-> LibraryPerson(i)]

\* Store implements Library: whatever the interleaving of operations, power
\* cuts, boots and compactions, the library on flash changes only by whole
\* operations that users asked for.
ImplementsLibrary == Lib!Spec
=============================================================================
