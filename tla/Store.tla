------------------------------- MODULE Store -------------------------------
(***************************************************************************)
(* The figure library: an append-only journal in NOR flash and the catalog *)
(* rebuilt from it at boot (src/storage/mod.rs, src/storage/journal.rs).   *)
(*                                                                         *)
(* Every public operation runs inside one critical section, so only a      *)
(* power failure separates two flash accesses of one operation.  An        *)
(* operation with one append is one action; the others leave in `pc` and   *)
(* `job` what is still to be written.  Flash is a row of cells, one record *)
(* each; Sector cells form an erase sector.                                *)
(***************************************************************************)
EXTENDS Catalog

CONSTANTS
  Sector,          \* cells of a flash sector
  CompactPercent,  \* PROACTIVE_COMPACT_USED_PERCENT
  MaxBoots,        \* bound: restarts of the device
  Erased, Torn,    \* a cell of erased flash; a cell that decodes to no record
  Faults,          \* where power, or an erase, may fail in this instance
  Requests,        \* the operations clients use in this instance
  Deletable        \* record ids that clients try to delete in this instance

FaultKinds == {"idle", "append", "rewrite", "tear", "erase", "eraseError"}

ASSUME StoreAssumption ==
  /\ Sector \in Nat \ {0} /\ CompactPercent \in Nat /\ MaxBoots \in Nat
  /\ Faults \subseteq FaultKinds /\ Deletable \subseteq RecordIds
  /\ Erased # Torn /\ {Erased, Torn} \intersect Records = {}

VARIABLES
  flash,    \* the storage partition
  catalog,  \* Store.catalog; write_offset doubles as the scan position at boot
  pc,       \* what the store is in the middle of
  job,      \* the operation in progress
  boots     \* restarts so far

vars == <<flash, catalog, pc, job, boots>>

Entities   == catalog.entities
Identities == catalog.identities
Offset     == catalog.write_offset

Jobs  == [op : {"none", "create", "upload", "save", "compact", "format"},
          id : RecordIds \union {NoId}, ent : Entity \union {Absent},
          img : Images \union {Absent}, todo : SUBSET Records, again : BOOLEAN]
NoJob == [op |-> "none", id |-> NoId, ent |-> Absent, img |-> Absent,
          todo |-> {}, again |-> FALSE]

\* The ids are bounded: guards of every operation that takes one.  With
\* MaxTaken = MaxRecordId the first of them is no restriction.
FreshRecordId == catalog.next_record_id <= MaxTaken
FreshBlobId   == catalog.next_blob_id <= MaxBlobId

\* A save from the console that is waiting for a compaction.
Saving == pc = "resume" \/ (pc = "rewrite" /\ job.op = "save")

\* The types of the state, and what the operations with two appends leave
\* in `job`: who the second record is about and which ids it will take.
TypeOK ==
  /\ flash \in [Cells -> Records \union {Erased, Torn}]
  /\ catalog \in CatalogType
  /\ pc \in {"scan", "idle", "entity", "rewrite", "resume"}
  /\ job \in Jobs
  /\ boots \in 0 .. MaxBoots
  /\ (pc = "entity" \/ Saving) => job.ent # Absent
  /\ Saving => job.id # NoId /\ job.img # Absent /\ FreshBlobId
  /\ pc = "entity" => IF job.op = "upload" THEN FreshRecordId ELSE job.id # NoId

Init ==
  /\ flash = [p \in Cells |-> Erased]
  /\ catalog = NewCatalog
  /\ pc = "scan" /\ job = NoJob /\ boots = 0

-----------------------------------------------------------------------------
(***************************************************************************)
(* Boot: one action per iteration of scan_flash.                           *)
(***************************************************************************)
\* Mutant of NextSector: not clamped to the end of the region.
NextSectorUnclamped(p) == (p \div Sector + 1) * Sector

NextSector(p) ==
  LET q == (p \div Sector + 1) * Sector IN IF q <= Cap THEN q ELSE Cap

ScanEnd ==
  /\ pc = "scan"
  /\ Offset < Cap => flash[Offset] = Erased
  /\ pc' = "idle"
  /\ UNCHANGED <<flash, catalog, job, boots>>

ScanCorrupt ==
  /\ pc = "scan" /\ Offset < Cap /\ flash[Offset] = Torn
  /\ catalog' = IF Offset = 0
                THEN [catalog EXCEPT !.needs_format = TRUE]
                ELSE [catalog EXCEPT !.write_offset = NextSector(@)]
  /\ pc' = "idle"
  /\ UNCHANGED <<flash, job, boots>>

ScanRecord ==
  /\ pc = "scan" /\ Offset < Cap /\ flash[Offset] \in Records
  /\ LET r == flash[Offset]
         seen == Observed(catalog, r)
     IN IF TableFull(catalog, r)
        THEN /\ catalog' = [seen EXCEPT !.needs_format = TRUE]
             /\ pc' = "idle"
        ELSE /\ catalog' = Applied(seen, r)
             /\ pc' = "scan"
  /\ UNCHANGED <<flash, job, boots>>

-----------------------------------------------------------------------------
(***************************************************************************)
(* append_record writes at the catalog's offset and reads back.  NOR cells *)
(* only lose bits: programming a cell that is not erased leaves garbage,   *)
(* unless the very same bytes are there already (generations, which the    *)
(* model leaves out, may still differ: both outcomes are allowed).         *)
(***************************************************************************)
Writable(c) == ~c.needs_format /\ c.write_offset < Cap

Written(c, r) ==
  /\ Writable(c)
  /\ flash[c.write_offset] \in {Erased, r}
  /\ flash' = [flash EXCEPT ![c.write_offset] = r]

Refused(c) ==
  \/ ~Writable(c) /\ flash' = flash
  \/ /\ Writable(c) /\ flash[c.write_offset] # Erased
     /\ flash' = [flash EXCEPT ![c.write_offset] = Torn]

\* Mutant of Commit: the catalog changes although the append was refused.
CommitAnyway(c, r) ==
  \/ Written(c, r) /\ catalog' = Applied(c, r)
  \/ Refused(c) /\ catalog' = Tables(c, r, 0)

\* One append and the catalog change that follows it, or neither.
Commit(c, r) ==
  \/ Written(c, r) /\ catalog' = Applied(c, r)
  \/ Refused(c) /\ catalog' = c

\* The same for a new row: a name that does not fit is refused after the id
\* of c was taken.
CommitNamed(c, r) == Commit(c, r) \/ (catalog' = c /\ UNCHANGED flash)

Idle(request) == pc = "idle" /\ request \in Requests
Done == UNCHANGED <<pc, job, boots>>
Abort == pc' = "idle" /\ job' = NoJob

-----------------------------------------------------------------------------
(***************************************************************************)
(* Operations with a single append.                                        *)
(***************************************************************************)
CreateIdentity(n) ==
  /\ Idle("identity") /\ FreshRecordId
  /\ CommitNamed(NewRecordId(catalog), IdentityRec(catalog.next_record_id, n))
  /\ Done

RenameIdentity(i, n) ==
  /\ Idle("rename") /\ Identities[i] # Absent
  /\ Commit(catalog, IdentityRec(i, n))
  /\ Done

\* Any id is accepted: the tombstone is written before the id is looked up.
DeleteIdentity(i) ==
  /\ Idle("identity")
  /\ Commit(catalog, IdentityDel(i))
  /\ Done

Figure(kind, name, parent) ==
  [kind |-> kind, name |-> name, parent |-> parent, blob |-> 0,
   top |-> NoId, bottom |-> NoId]

\* A catalog figure without save data (items, and all Infinity figures).
CreateStatic(n) ==
  /\ Idle("static") /\ FreshRecordId
  /\ CommitNamed(NewRecordId(catalog),
                 EntityRec(catalog.next_record_id, Figure("figure", n, NoId)))
  /\ Done

HalfOf(i, kind) ==
  Entities[i] # Absent /\ Entities[i].kind = kind

CreateCombo(t, b, n) ==
  /\ Idle("combo") /\ FreshRecordId
  /\ HalfOf(t, "top") /\ HalfOf(b, "bottom")
  /\ CommitNamed(NewRecordId(catalog),
                 EntityRec(catalog.next_record_id,
                           [Figure("combo", n, NoId) EXCEPT !.top = t, !.bottom = b]))
  /\ Done

RenameEntity(i, n) ==
  /\ Idle("rename") /\ Entities[i] # Absent
  /\ Commit(catalog, EntityRec(i, [Entities[i] EXCEPT !.name = n]))
  /\ Done

DeleteEntity(i) ==
  /\ Idle("delete") /\ ~UsedByCombo(catalog, i)
  /\ Commit(catalog, EntityDel(i))
  /\ Done

\* Mutant of SetUsbMode: nothing is written.
SetUsbModeInRam(m) ==
  /\ Idle("mode") /\ catalog.usb_mode # m
  /\ catalog' = [catalog EXCEPT !.usb_mode = m]
  /\ Done /\ UNCHANGED flash

\* The mode changes in RAM before the append, and stays changed if it fails.
SetUsbMode(m) ==
  /\ Idle("mode") /\ catalog.usb_mode # m
  /\ Commit([catalog EXCEPT !.usb_mode = m], ConfigRec(m))
  /\ Done

-----------------------------------------------------------------------------
(***************************************************************************)
(* Operations that append a blob and then an entity record.                *)
(***************************************************************************)
\* read_blob and read_entity_image; Absent stands for their errors.
ReadBlob(b) ==
  LET row == catalog.blobs[b] IN
    IF row = Absent THEN Absent
    ELSE IF flash[row.offset] \in BlobRecords /\ flash[row.offset].img = row.crc
         THEN row.crc ELSE Absent

ReadImage(e) ==
  IF e.kind = "combo" THEN Absent
  ELSE IF e.blob = 0 THEN Fresh ELSE ReadBlob(e.blob)

\* append_blob for a figure e: op and id say how the entity record follows.
AppendBlob(c, op, id, e, img) ==
  LET b == c.next_blob_id
      r == BlobRec(b, img)
  IN \/ /\ Written(NewBlobId(c), r)
        /\ catalog' = Applied(NewBlobId(c), r)
        /\ IF TableFull(c, r) THEN Abort
           ELSE /\ pc' = "entity"
                /\ job' = [NoJob EXCEPT !.op = op, !.id = id,
                                        !.ent = [e EXCEPT !.blob = b]]
     \/ Refused(NewBlobId(c)) /\ catalog' = NewBlobId(c) /\ Abort

CreateFromCatalog(kind, n) ==
  /\ Idle("create") /\ FreshRecordId /\ FreshBlobId
  /\ AppendBlob(NewRecordId(catalog), "create", catalog.next_record_id,
                Figure(kind, n, NoId), Fresh)
  /\ UNCHANGED boots

CreateFromIdentity(i, n) ==
  /\ Idle("identity") /\ FreshRecordId /\ FreshBlobId
  /\ Identities[i] # Absent
  /\ AppendBlob(NewRecordId(catalog), "create", catalog.next_record_id,
                Figure("figure", n, i), Fresh)
  /\ UNCHANGED boots

\* An upload takes its record id only once the blob is written.
Upload(kind, n, parent, img) ==
  /\ Idle("upload") /\ FreshRecordId /\ FreshBlobId
  /\ parent # NoId => Identities[parent] # Absent
  /\ AppendBlob(catalog, "upload", NoId, Figure(kind, n, parent), img)
  /\ UNCHANGED boots

CloneEntity(i, n) ==
  /\ Idle("clone") /\ FreshRecordId /\ FreshBlobId
  /\ Entities[i] # Absent
  /\ LET e == Entities[i]
         c == NewRecordId(catalog)
     IN IF ReadImage(e) = Absent
        THEN catalog' = c /\ UNCHANGED <<flash, pc, job>>
        ELSE AppendBlob(c, "create", catalog.next_record_id,
                        Figure(e.kind, n, e.parent), ReadImage(e))
  /\ UNCHANGED boots

\* append_entity_record, the second half of these operations.
AppendEntity ==
  /\ pc = "entity"
  /\ IF job.op = "upload"
     THEN Commit(NewRecordId(catalog),
                 EntityRec(catalog.next_record_id, job.ent))
     ELSE Commit(catalog, EntityRec(job.id, job.ent))
  /\ Abort
  /\ UNCHANGED boots

\* A name that does not fit is refused only after the blob was written.
RejectName ==
  /\ pc = "entity" /\ job.op \in {"create", "upload"}
  /\ catalog' = IF job.op = "upload" THEN NewRecordId(catalog) ELSE catalog
  /\ Abort
  /\ UNCHANGED <<flash, boots>>

-----------------------------------------------------------------------------
(***************************************************************************)
(* Compaction and format: erase the region, then write it anew.            *)
(***************************************************************************)
Snapshot ==
  {Marker, ConfigRec(catalog.usb_mode)}
  \union {BlobRec(b, ReadBlob(b)) : b \in LiveBlobs(catalog)}
  \union {IdentityRec(i, Identities[i]) :
            i \in {j \in RecordIds : Identities[j] # Absent}}
  \union {EntityRec(i, Entities[i]) :
            i \in {j \in RecordIds : Entities[j] # Absent}}

Readable == \A b \in LiveBlobs(catalog) : ReadBlob(b) # Absent

\* compact_store up to its first append; `then` is the job it belongs to.
StartCompact(then) ==
  /\ Readable
  /\ flash' = [p \in Cells |-> Erased]
  /\ catalog' = [NewCatalog EXCEPT
                   !.next_record_id = catalog.next_record_id,
                   !.next_blob_id   = catalog.next_blob_id]
  /\ pc' = "rewrite"
  /\ job' = [then EXCEPT !.todo = Snapshot]
  /\ UNCHANGED boots

Compact ==
  /\ Idle("compact")
  /\ StartCompact([NoJob EXCEPT !.op = "compact"])

\* Mutant of Format: the region is erased and the tables are kept.
FormatFlashOnly ==
  /\ Idle("format")
  /\ flash' = [p \in Cells |-> Erased]
  /\ catalog' = [catalog EXCEPT !.write_offset = 0]
  /\ pc' = "rewrite"
  /\ job' = [NoJob EXCEPT !.op = "format", !.todo = {Marker}]
  /\ UNCHANGED boots

Format ==
  /\ Idle("format")
  /\ flash' = [p \in Cells |-> Erased]
  /\ catalog' = NewCatalog
  /\ pc' = "rewrite"
  /\ job' = [NoJob EXCEPT !.op = "format", !.todo = {Marker}]
  /\ UNCHANGED boots

\* Mutant of Rank: entities are written back before their blobs.
RankEntitiesFirst(r) ==
  CASE r.type = "marker" -> 0
    [] r.type = "entity" -> 1
    [] r.type = "blob"   -> 2
    [] OTHER             -> 3

\* Marker, blobs, identities, entities, configuration, in that order.
Rank(r) ==
  CASE r.type = "marker"   -> 0
    [] r.type = "blob"     -> 1
    [] r.type = "identity" -> 2
    [] r.type = "entity"   -> 3
    [] OTHER               -> 4

Rewrite(r) ==
  LET c == IF r.type = "config" THEN [catalog EXCEPT !.usb_mode = r.mode]
           ELSE catalog
  IN /\ pc = "rewrite" /\ r \in job.todo
     /\ \A s \in job.todo : Rank(r) <= Rank(s)
     /\ \/ /\ Written(c, r)
           /\ catalog' = Applied(c, r)
           /\ \/ /\ job.todo # {r}
                 /\ job' = [job EXCEPT !.todo = @ \ {r}]
                 /\ pc' = "rewrite"
              \/ /\ job.todo = {r} /\ job.op = "save"
                 /\ job' = [job EXCEPT !.todo = {}]
                 /\ pc' = "resume"
              \/ job.todo = {r} /\ job.op # "save" /\ Abort
        \/ Refused(c) /\ catalog' = c /\ Abort
     /\ UNCHANGED boots

-----------------------------------------------------------------------------
(***************************************************************************)
(* replace_entity_blob: a save from the console.  ensure_journal_space may *)
(* compact first, and once more when that did not make room.               *)
(***************************************************************************)
UsedPercent == (Offset * 100) \div Cap
Fits        == Offset + 2 <= Cap

\* ensure_journal_space is not content with the room there is.
SaveCompacts == UsedPercent >= CompactPercent \/ ~Fits

Save(i, img) ==
  /\ Idle("save") /\ FreshBlobId
  /\ Entities[i] # Absent /\ ReadImage(Entities[i]) # img
  /\ Entities[i].kind # "combo"  \* the portal holds halves, never the combo
  /\ LET e == Entities[i]
         compacting == [NoJob EXCEPT !.op = "save", !.id = i, !.ent = e,
                          !.img = img, !.again = UsedPercent >= CompactPercent]
     IN IF SaveCompacts
        THEN StartCompact(compacting)
        ELSE AppendBlob(catalog, "save", i, e, img) /\ UNCHANGED boots

ResumeSave ==
  /\ pc = "resume"
  /\ \/ /\ Fits
        /\ AppendBlob(catalog, "save", job.id, job.ent, job.img)
        /\ UNCHANGED boots
     \/ /\ ~Fits /\ job.again
        /\ StartCompact([job EXCEPT !.again = FALSE])
     \/ /\ ~Fits /\ ~job.again
        /\ Abort
        /\ UNCHANGED <<flash, catalog, boots>>

-----------------------------------------------------------------------------
(***************************************************************************)
(* Power failures, after which RAM is lost and the next boot scans the     *)
(* flash again, and erases that fail.                                      *)
(***************************************************************************)
Reboot ==
  /\ boots < MaxBoots /\ boots' = boots + 1
  /\ catalog' = NewCatalog /\ pc' = "scan" /\ job' = NoJob

CutName ==
  CASE pc \in {"scan", "idle"}     -> "idle"
    [] pc \in {"entity", "resume"} -> "append"
    [] OTHER                       -> "rewrite"

PowerCut == CutName \in Faults /\ Reboot /\ UNCHANGED flash

\* Power fails while a record is programmed.  The record in the last cell of
\* a sector may run over into the next one and leave a beginning there too.
TornWrite ==
  /\ "tear" \in Faults /\ CutName \in Faults
  /\ pc # "scan" /\ Writable(catalog)
  /\ \E cells \in {{Offset}, {Offset, Offset + 1}} :
       /\ Offset + 1 \in cells => (Offset + 1) % Sector = 0 /\ Offset + 1 < Cap
       /\ flash' = [p \in Cells |-> IF p \in cells THEN Torn ELSE flash[p]]
  /\ Reboot

\* The region is erased sector by sector, and not to its end.
PartlyErased ==
  \E k \in 0 .. Cap \div Sector :
    flash' = [p \in Cells |-> IF p < k * Sector THEN Erased ELSE flash[p]]

EraseCut ==
  /\ "erase" \in Faults /\ pc = "idle"
  /\ {"compact", "format"} \intersect Requests # {}
  /\ PartlyErased
  /\ Reboot

\* The flash reports an error while it is erased: compact_store and
\* format_storage return it and keep the catalog, journal end included, as it
\* was.  A save that was to compact first is given up.
EraseFails ==
  /\ "eraseError" \in Faults
  /\ \/ Idle("format")
     \/ Readable /\ Idle("compact")
     \/ Readable /\ pc = "resume" /\ ~Fits /\ job.again
     \/ /\ Readable /\ Idle("save") /\ SaveCompacts
        /\ \E i \in RecordIds : Entities[i] # Absent /\ Entities[i].kind # "combo"
  /\ PartlyErased
  /\ UNCHANGED <<catalog, boots>> /\ Abort

Next ==
  \/ ScanEnd \/ ScanCorrupt \/ ScanRecord
  \/ \E n \in Names : CreateIdentity(n) \/ CreateStatic(n)
  \/ \E i \in RecordIds, n \in Names :
       RenameIdentity(i, n) \/ RenameEntity(i, n) \/ CreateFromIdentity(i, n)
         \/ CloneEntity(i, n)
  \/ \E i \in Deletable : DeleteIdentity(i) \/ DeleteEntity(i)
  \/ \E t, b \in RecordIds, n \in Names : CreateCombo(t, b, n)
  \/ \E m \in Modes : SetUsbMode(m)
  \/ \E kind \in {"figure", "top", "bottom"}, n \in Names :
       \/ CreateFromCatalog(kind, n)
       \/ \E parent \in RecordIds \union {NoId}, img \in Images :
            Upload(kind, n, parent, img)
  \/ AppendEntity \/ RejectName
  \/ Compact \/ Format
  \/ \E r \in job.todo : Rewrite(r)
  \/ \E i \in RecordIds, img \in Images : Save(i, img)
  \/ ResumeSave
  \/ PowerCut \/ TornWrite \/ EraseCut \/ EraseFails

Spec == Init /\ [][Next]_vars
=============================================================================
