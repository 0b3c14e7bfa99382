---------------------------- MODULE StoreProofs ----------------------------
(***************************************************************************)
(* Proofs about Store, for every size of the flash, of the tables and of   *)
(* the id spaces, every subset of the requests and every power failure.    *)
(***************************************************************************)
EXTENDS Durability, FiniteSetTheorems, TLAPS

(***************************************************************************)
(* Lemmas about records and tables.                                        *)
(***************************************************************************)
\* The constructors of journal.rs build records.
LEMMA RecordsBuilt ==
  /\ \A b \in BlobIds, img \in Images : BlobRec(b, img) \in Records
  /\ \A i \in RecordIds, e \in Entity : EntityRec(i, e) \in Records
  /\ \A i \in RecordIds : EntityDel(i) \in Records
  /\ \A i \in RecordIds, n \in Names : IdentityRec(i, n) \in Records
  /\ \A i \in RecordIds : IdentityDel(i) \in Records
  /\ \A m \in Modes : ConfigRec(m) \in Records
  /\ Marker \in Records
  BY DEF Records, BlobRecords

\* A record is what the constructor of its type built.
LEMMA RecordShape ==
  ASSUME NEW r \in Records
  PROVE  /\ r.type \in {"blob", "entity", "entityDel", "identity",
                        "identityDel", "config", "marker"}
         /\ r.type = "entity" =>
              r.id \in RecordIds /\ r.entity \in Entity /\ r = EntityRec(r.id, r.entity)
         /\ r.type = "identity" =>
              r.id \in RecordIds /\ r.name \in Names /\ r = IdentityRec(r.id, r.name)
         /\ r.type = "blob" =>
              r.id \in BlobIds /\ r.img \in Images /\ r = BlobRec(r.id, r.img)
         /\ r.type \in {"entityDel", "identityDel"} => r.id \in RecordIds
         /\ r.type = "config" => r.mode \in Modes
  BY DEF Records, BlobRecords, BlobRec, EntityRec, EntityDel, IdentityRec,
         IdentityDel, ConfigRec, Marker

\* No cell is both a record and erased or torn.
LEMMA CellKinds == Erased # Torn /\ Erased \notin Records /\ Torn \notin Records
  BY StoreAssumption

\* The catalog after an append is a catalog.
LEMMA AppliedType ==
  ASSUME NEW c \in CatalogType, NEW r \in Records, c.write_offset < Cap
  PROVE  Applied(c, r) \in CatalogType
<1>1. c.write_offset \in Cells /\ c.write_offset + 1 \in 0 .. Cap
  BY CatalogAssumption DEF CatalogType, Cells
<1>2. Tables(c, r, c.write_offset) \in CatalogType
  <2>1. CASE r.type = "entity"
    BY <2>1, RecordShape DEF Tables, Put, CatalogType
  <2>2. CASE r.type = "identity"
    BY <2>2, RecordShape DEF Tables, Put, CatalogType
  <2>3. CASE r.type = "blob"
    BY <2>3, <1>1, RecordShape DEF Tables, Put, CatalogType, StoredBlob
  <2>4. CASE r.type = "entityDel"
    BY <2>4, RecordShape DEF Tables, CatalogType
  <2>5. CASE r.type = "identityDel"
    BY <2>5, RecordShape DEF Tables, CatalogType
  <2>6. CASE r.type = "config"
    BY <2>6, RecordShape DEF Tables, CatalogType
  <2>7. CASE r.type = "marker"
    BY <2>7 DEF Tables, CatalogType
  <2>. QED  BY <2>1, <2>2, <2>3, <2>4, <2>5, <2>6, <2>7, RecordShape
<1>3. Tables(c, r, c.write_offset).write_offset = c.write_offset
  BY RecordShape DEF Tables, CatalogType
<1>. QED  BY <1>1, <1>2, <1>3 DEF Applied, CatalogType

\* A catalog that took note of a record's ids is a catalog with the same
\* tables and the same end of the journal.
LEMMA ObservedType ==
  ASSUME NEW c \in CatalogType, NEW r \in Records
  PROVE  /\ Observed(c, r) \in CatalogType
         /\ Observed(c, r).entities = c.entities
         /\ Observed(c, r).identities = c.identities
         /\ Observed(c, r).blobs = c.blobs
         /\ Observed(c, r).write_offset = c.write_offset
<1>1. \A n, i \in RecordIds : AtLeast(n, i, MaxRecordId) \in RecordIds
  BY CatalogAssumption DEF AtLeast, RecordIds
<1>2. \A n \in 1 .. MaxBlobId + 1, b \in BlobIds :
        AtLeast(n, b, MaxBlobId + 1) \in 1 .. MaxBlobId + 1
  BY CatalogAssumption DEF AtLeast, BlobIds
<1>3. CASE r.type \in {"entity", "entityDel", "identity", "identityDel"}
  BY <1>1, <1>3, RecordShape DEF Observed, CatalogType
<1>4. CASE r.type = "blob"
  BY <1>2, <1>4, RecordShape DEF Observed, CatalogType
<1>5. CASE r.type \in {"config", "marker"}
  BY <1>5 DEF Observed, CatalogType
<1>. QED  BY <1>3, <1>4, <1>5, RecordShape

\* The empty catalog, and the two counters.
LEMMA NewCatalogType == NewCatalog \in CatalogType
  BY CatalogAssumption DEF NewCatalog, CatalogType, Modes, RecordIds

LEMMA NoIdIsNoRecord == NoId \notin RecordIds
  BY CatalogAssumption DEF NoId, RecordIds

LEMMA CountersType ==
  ASSUME NEW c \in CatalogType
  PROVE  /\ NewRecordId(c) \in CatalogType
         /\ c.next_blob_id <= MaxBlobId => NewBlobId(c) \in CatalogType
<1>1. (c.next_record_id + 1) % (MaxRecordId + 1) \in RecordIds
  BY CatalogAssumption DEF CatalogType, RecordIds
<1>2. NewRecordId(c) \in CatalogType
  BY <1>1 DEF NewRecordId, CatalogType
<1>3. c.next_blob_id <= MaxBlobId => NewBlobId(c) \in CatalogType
  BY CatalogAssumption DEF NewBlobId, CatalogType
<1>. QED  BY <1>2, <1>3

LEMMA FreshIds ==
  ASSUME catalog \in CatalogType
  PROVE  /\ catalog.next_record_id \in RecordIds
         /\ catalog.next_record_id # NoId
         /\ NewRecordId(catalog) \in CatalogType
         /\ NewRecordId(catalog).next_blob_id = catalog.next_blob_id
<1>1. catalog.next_record_id \in RecordIds /\ catalog.next_record_id # NoId
  BY NoIdIsNoRecord DEF CatalogType
<1>2. NewRecordId(catalog) \in CatalogType
  BY CountersType
<1>. QED  BY <1>1, <1>2 DEF NewRecordId, CatalogType

\* The first sector boundary after a cell, or the end of the region.
LEMMA NextSectorBounds ==
  ASSUME NEW p \in Cells
  PROVE  NextSector(p) \in p + 1 .. Cap
<1>. DEFINE q == p \div Sector
<1>1. q \in Nat /\ p < q * Sector + Sector
  BY StoreAssumption, CatalogAssumption DEF Cells
<1>2. (q + 1) * Sector = q * Sector + Sector /\ (q + 1) * Sector \in Nat
  BY <1>1, StoreAssumption
<1>. HIDE DEF q
<1>3. (q + 1) * Sector > p
  BY <1>1, <1>2, StoreAssumption, CatalogAssumption DEF Cells
<1>. QED  BY <1>2, <1>3, CatalogAssumption DEF NextSector, Cells, q

\* read_blob gives an image or an error.
LEMMA ReadBlobType ==
  ASSUME catalog \in CatalogType, NEW b \in BlobIds
  PROVE  ReadBlob(b) \in Images \union {Absent}
  BY DEF ReadBlob, CatalogType, StoredBlob

LEMMA ReadImageType ==
  ASSUME catalog \in CatalogType, NEW e \in Entity
  PROVE  ReadImage(e) \in Images \union {Absent}
  BY ReadBlobType, CatalogAssumption DEF ReadImage, Entity

(***************************************************************************)
(* Type correctness.                                                       *)
(***************************************************************************)
FlashType == flash \in [Cells -> Records \union {Erased, Torn}]

JobType == job \in Jobs

\* An append writes at most the cell at the end of the journal.
LEMMA AppendType ==
  ASSUME TypeOK, NEW c \in CatalogType, NEW r \in Records,
         Written(c, r) \/ Refused(c)
  PROVE  FlashType'
<1>1. CASE Written(c, r)
  BY <1>1 DEF Written, Writable, TypeOK, FlashType, Cells, CatalogType
<1>2. CASE Refused(c)
  BY <1>2 DEF Refused, Writable, TypeOK, FlashType, Cells, CatalogType
<1>. QED  BY <1>1, <1>2

LEMMA CommitType ==
  ASSUME TypeOK, NEW c \in CatalogType, NEW r \in Records, Commit(c, r)
  PROVE  FlashType' /\ catalog' \in CatalogType
<1>1. FlashType'
  BY AppendType DEF Commit
<1>2. catalog' \in CatalogType
  BY AppliedType DEF Commit, Written, Writable
<1>. QED  BY <1>1, <1>2

\* A step that ends at "idle" owes nothing to `job`.
LEMMA IdleType ==
  ASSUME FlashType', catalog' \in CatalogType, JobType', boots' \in 0 .. MaxBoots,
         pc' \in {"idle", "scan"}
  PROVE  TypeOK'
  BY DEF TypeOK, FlashType, JobType, Saving

LEMMA NoJobType == NoJob \in Jobs
  BY DEF NoJob, Jobs

LEMMA OneAppendType ==
  ASSUME TypeOK, pc = "idle", NEW c \in CatalogType, NEW r \in Records,
         CommitNamed(c, r), Done
  PROVE  TypeOK'
<1>1. FlashType' /\ catalog' \in CatalogType
  BY CommitType DEF CommitNamed, TypeOK, FlashType
<1>. QED  BY <1>1, IdleType DEF Done, TypeOK, JobType

LEMMA AppendBlobType ==
  ASSUME TypeOK, NEW c \in CatalogType, c.next_blob_id <= MaxBlobId,
         NEW op \in {"create", "upload", "save"}, NEW id \in RecordIds \union {NoId},
         IF op = "upload" THEN c.next_record_id <= MaxTaken ELSE id # NoId,
         NEW e \in Entity, NEW img \in Images,
         AppendBlob(c, op, id, e, img), boots' = boots
  PROVE  TypeOK'
<1>. DEFINE b == c.next_blob_id
            r == BlobRec(b, img)
            d == NewBlobId(c)
<1>1. b \in BlobIds /\ r \in Records /\ d \in CatalogType
  BY RecordsBuilt, CountersType, CatalogAssumption DEF CatalogType, BlobIds
<1>2. CASE Written(d, r) /\ catalog' = Applied(d, r) /\ TableFull(c, r) /\ Abort
  <2>1. FlashType' /\ catalog' \in CatalogType
    BY <1>1, <1>2, AppendType, AppliedType DEF Written, Writable
  <2>. QED  BY <1>2, <2>1, IdleType, NoJobType DEF Abort, JobType, TypeOK
<1>3. CASE /\ Written(d, r) /\ catalog' = Applied(d, r)
           /\ pc' = "entity"
           /\ job' = [NoJob EXCEPT !.op = op, !.id = id, !.ent = [e EXCEPT !.blob = b]]
  <2>1. FlashType' /\ catalog' \in CatalogType
    BY <1>1, <1>3, AppendType, AppliedType DEF Written, Writable
  <2>2. [e EXCEPT !.blob = b] \in Entity
    BY <1>1 DEF Entity
  <2>3. /\ job'.ent # Absent /\ job'.op = op /\ job'.id = id
    BY <1>3, <2>2, AbsentAssumption DEF NoJob
  <2>4. JobType'
    BY <1>3, <2>2 DEF NoJob, JobType, Jobs
  <2>5. catalog'.next_record_id = c.next_record_id
    BY <1>1, <1>3 DEF Applied, Tables, r, d, BlobRec, NewBlobId, CatalogType
  <2>. QED  BY <1>3, <2>1, <2>3, <2>4, <2>5
            DEF TypeOK, FlashType, JobType, Saving, FreshRecordId
<1>4. CASE Refused(d) /\ catalog' = d /\ Abort
  <2>1. FlashType'
    BY <1>1, <1>4, AppendType
  <2>. QED  BY <1>1, <1>4, <2>1, IdleType, NoJobType DEF Abort, JobType, TypeOK
<1>. QED  BY <1>2, <1>3, <1>4 DEF AppendBlob

\* What a compaction writes back is a set of records, if it can read them.
LEMMA SnapshotType ==
  ASSUME catalog \in CatalogType, Readable
  PROVE  Snapshot \subseteq Records
<1>1. \A b \in LiveBlobs(catalog) : BlobRec(b, ReadBlob(b)) \in Records
  BY RecordsBuilt, ReadBlobType DEF Readable, LiveBlobs
<1>2. \A i \in RecordIds : Identities[i] # Absent => IdentityRec(i, Identities[i]) \in Records
  BY RecordsBuilt DEF CatalogType, Identities
<1>3. \A i \in RecordIds : Entities[i] # Absent => EntityRec(i, Entities[i]) \in Records
  BY RecordsBuilt DEF CatalogType, Entities
<1>4. Marker \in Records /\ ConfigRec(catalog.usb_mode) \in Records
  BY RecordsBuilt DEF CatalogType
<1>. QED  BY <1>1, <1>2, <1>3, <1>4 DEF Snapshot


LEMMA StartCompactType ==
  ASSUME TypeOK, NEW then, StartCompact(then),
         then \in Jobs,
         then.op = "save" =>
           then.id # NoId /\ then.ent # Absent /\ then.img # Absent /\ FreshBlobId
  PROVE  TypeOK'
<1>1. FlashType'
  BY DEF StartCompact, FlashType
<1>2. /\ catalog' \in CatalogType
      /\ catalog'.next_blob_id = catalog.next_blob_id
  BY NewCatalogType DEF StartCompact, CatalogType, TypeOK, NewCatalog
<1>3. JobType' /\ job'.op = then.op /\ job'.id = then.id
      /\ job'.ent = then.ent /\ job'.img = then.img
  BY SnapshotType DEF StartCompact, JobType, Jobs, TypeOK
<1>. QED  BY <1>1, <1>2, <1>3
          DEF StartCompact, TypeOK, FlashType, JobType, Saving, FreshBlobId

LEMMA RewriteType ==
  ASSUME TypeOK, NEW r \in job.todo, Rewrite(r)
  PROVE  TypeOK'
<1>. DEFINE c == IF r.type = "config" THEN [catalog EXCEPT !.usb_mode = r.mode]
                 ELSE catalog
<1>1. r \in Records /\ c \in CatalogType /\ c.next_blob_id = catalog.next_blob_id
  BY RecordShape DEF TypeOK, Jobs, CatalogType
<1>2. CASE Written(c, r) /\ catalog' = Applied(c, r)
  <2>1. FlashType' /\ catalog' \in CatalogType
    BY <1>1, <1>2, AppendType, AppliedType DEF Written, Writable
  <2>2. catalog'.next_blob_id = c.next_blob_id
    BY <1>1, <1>2, RecordShape DEF Applied, Tables, CatalogType
  <2>3. CASE /\ job' = [job EXCEPT !.todo = @ \ {r}]
             /\ pc' = "rewrite"
    <3>1. JobType' /\ job'.op = job.op /\ job'.id = job.id
          /\ job'.ent = job.ent /\ job'.img = job.img
      BY <2>3 DEF TypeOK, JobType, Jobs
    <3>. QED  BY <1>1, <2>1, <2>2, <2>3, <3>1
              DEF Rewrite, TypeOK, FlashType, JobType, Saving, FreshBlobId
  <2>4. CASE /\ job.op = "save"
             /\ job' = [job EXCEPT !.todo = {}]
             /\ pc' = "resume"
    <3>1. JobType' /\ job'.op = job.op /\ job'.id = job.id
          /\ job'.ent = job.ent /\ job'.img = job.img
      BY <2>4 DEF TypeOK, JobType, Jobs
    <3>. QED  BY <1>1, <2>1, <2>2, <2>4, <3>1
              DEF Rewrite, TypeOK, FlashType, JobType, Saving, FreshBlobId
  <2>5. CASE Abort
    BY <2>1, <2>5, IdleType, NoJobType DEF Abort, Rewrite, TypeOK, JobType
  <2>. QED  BY <1>2, <2>3, <2>4, <2>5 DEF Rewrite
<1>3. CASE Refused(c) /\ catalog' = c /\ Abort
  <2>1. FlashType'
    BY <1>1, <1>3, AppendType
  <2>. QED  BY <1>1, <1>3, <2>1, IdleType, NoJobType DEF Abort, Rewrite, TypeOK, JobType
<1>. QED  BY <1>2, <1>3 DEF Rewrite

LEMMA FigureType ==
  ASSUME NEW kind \in {"figure", "top", "bottom"}, NEW n \in Names,
         NEW parent \in RecordIds \union {NoId}
  PROVE  Figure(kind, n, parent) \in Entity
  BY DEF Figure, Entity, Kinds

LEMMA TypeInit == Init => TypeOK
<1>. SUFFICES ASSUME Init PROVE TypeOK
  OBVIOUS
<1>1. FlashType /\ JobType
  BY NoJobType DEF Init, FlashType, JobType
<1>. QED  BY <1>1, NewCatalogType, StoreAssumption
          DEF Init, TypeOK, FlashType, JobType, Saving

LEMMA TypeNext == TypeOK /\ [Next]_vars => TypeOK'
<1>. SUFFICES ASSUME TypeOK, [Next]_vars PROVE TypeOK'
  OBVIOUS
<1>. USE DEF Idle
<1>0. /\ catalog \in CatalogType
      /\ flash \in [Cells -> Records \union {Erased, Torn}]
      /\ JobType
      /\ job.id \in RecordIds \union {NoId} /\ job.ent \in Entity \union {Absent}
      /\ job.img \in Images \union {Absent} /\ job.todo \subseteq Records
  BY DEF TypeOK, JobType, Jobs
<1>1. CASE ScanEnd
  BY <1>1 DEF ScanEnd, TypeOK, Saving
<1>2. CASE ScanCorrupt
  <2>1. catalog' \in CatalogType
    <3>1. Offset \in Cells
      BY <1>0, <1>2, CatalogAssumption DEF ScanCorrupt, CatalogType, Cells, Offset
    <3>2. NextSector(Offset) \in 0 .. Cap
      BY <3>1, NextSectorBounds, CatalogAssumption DEF Cells
    <3>. QED  BY <1>0, <1>2, <3>2 DEF ScanCorrupt, CatalogType, Offset
  <2>. QED  BY <1>2, <2>1, IdleType DEF ScanCorrupt, TypeOK, FlashType, JobType
<1>3. CASE ScanRecord
  <2>. DEFINE r == flash[Offset]
              seen == Observed(catalog, r)
  <2>1. r \in Records /\ Offset < Cap
    BY <1>3 DEF ScanRecord
  <2>2. seen \in CatalogType /\ seen.write_offset = Offset
    BY <1>0, <2>1, ObservedType DEF Offset
  <2>3. [seen EXCEPT !.needs_format = TRUE] \in CatalogType
    BY <2>2 DEF CatalogType
  <2>4. Applied(seen, r) \in CatalogType
    BY <2>1, <2>2, AppliedType
  <2>5. catalog' \in CatalogType /\ pc' \in {"scan", "idle"}
    BY <1>3, <2>3, <2>4 DEF ScanRecord
  <2>. QED  BY <1>3, <2>5, IdleType DEF ScanRecord, TypeOK, FlashType, JobType
<1>4. ASSUME NEW n \in Names, CreateIdentity(n) PROVE TypeOK'
  <2>1. catalog.next_record_id \in RecordIds
    BY <1>0, <1>4 DEF CreateIdentity, FreshRecordId, CatalogType, RecordIds
  <2>. QED  BY <1>0, <1>4, <2>1, OneAppendType, RecordsBuilt, CountersType
            DEF CreateIdentity, FreshRecordId
<1>5. ASSUME NEW n \in Names, CreateStatic(n) PROVE TypeOK'
  <2>1. catalog.next_record_id \in RecordIds
    BY <1>0, <1>5 DEF CreateStatic, FreshRecordId, CatalogType, RecordIds
  <2>. QED  BY <1>0, <1>5, <2>1, OneAppendType, RecordsBuilt, CountersType, FigureType
            DEF CreateStatic, FreshRecordId
<1>6. ASSUME NEW i \in RecordIds, NEW n \in Names, RenameIdentity(i, n) PROVE TypeOK'
  BY <1>0, <1>6, OneAppendType, RecordsBuilt DEF RenameIdentity, CommitNamed
<1>7. ASSUME NEW i \in RecordIds, NEW n \in Names, RenameEntity(i, n) PROVE TypeOK'
  <2>1. [Entities[i] EXCEPT !.name = n] \in Entity
    BY <1>0, <1>7 DEF RenameEntity, CatalogType, Entities, Entity
  <2>. QED  BY <1>0, <1>7, <2>1, OneAppendType, RecordsBuilt DEF RenameEntity, CommitNamed
<1>8. ASSUME NEW i \in RecordIds, NEW n \in Names, CreateFromIdentity(i, n) PROVE TypeOK'
  <2>1. /\ catalog.next_record_id \in RecordIds /\ catalog.next_record_id # NoId
        /\ NewRecordId(catalog) \in CatalogType
        /\ NewRecordId(catalog).next_blob_id <= MaxBlobId
    BY <1>0, <1>8, FreshIds DEF CreateFromIdentity, FreshBlobId
  <2>2. Figure("figure", n, i) \in Entity
    BY FigureType
  <2>. QED  BY <1>8, <2>1, <2>2, AppendBlobType, CatalogAssumption DEF CreateFromIdentity
<1>9. ASSUME NEW i \in RecordIds, NEW n \in Names, CloneEntity(i, n) PROVE TypeOK'
  <2>. DEFINE e == Entities[i]
              c == NewRecordId(catalog)
  <2>1. /\ catalog.next_record_id \in RecordIds /\ catalog.next_record_id # NoId
        /\ c \in CatalogType /\ c.next_blob_id <= MaxBlobId
    BY <1>0, <1>9, FreshIds DEF CloneEntity, FreshBlobId
  <2>2. e \in Entity
    BY <1>0, <1>9 DEF CloneEntity, CatalogType, Entities
  <2>3. CASE ReadImage(e) = Absent
    BY <1>0, <1>9, <2>1, <2>3, IdleType DEF CloneEntity, TypeOK, FlashType, JobType
  <2>4. CASE ReadImage(e) # Absent
    <3>1. ReadImage(e) \in Images
      BY <1>0, <2>2, <2>4, ReadImageType
    <3>3. Figure(e.kind, n, e.parent) \in Entity
      BY <2>2 DEF Entity, Figure
    <3>. QED  BY <1>9, <2>1, <2>4, <3>1, <3>3, AppendBlobType DEF CloneEntity
  <2>. QED  BY <2>3, <2>4
<1>10. ASSUME NEW i \in RecordIds, DeleteIdentity(i) PROVE TypeOK'
  BY <1>0, <1>10, OneAppendType, RecordsBuilt DEF DeleteIdentity, CommitNamed
<1>11. ASSUME NEW i \in RecordIds, DeleteEntity(i) PROVE TypeOK'
  BY <1>0, <1>11, OneAppendType, RecordsBuilt DEF DeleteEntity, CommitNamed
<1>12. ASSUME NEW t \in RecordIds, NEW b \in RecordIds, NEW n \in Names, CreateCombo(t, b, n)
       PROVE TypeOK'
  <2>1. catalog.next_record_id \in RecordIds
    BY <1>0, <1>12 DEF CreateCombo, FreshRecordId, CatalogType, RecordIds
  <2>2. [Figure("combo", n, NoId) EXCEPT !.top = t, !.bottom = b] \in Entity
    BY DEF Figure, Entity, Kinds
  <2>. QED  BY <1>0, <1>12, <2>1, <2>2, OneAppendType, RecordsBuilt, CountersType
            DEF CreateCombo, FreshRecordId
<1>13. ASSUME NEW m \in Modes, SetUsbMode(m) PROVE TypeOK'
  <2>1. [catalog EXCEPT !.usb_mode = m] \in CatalogType
    BY <1>0 DEF CatalogType
  <2>. QED  BY <1>13, <2>1, OneAppendType, RecordsBuilt DEF SetUsbMode, CommitNamed
<1>14. ASSUME NEW kind \in {"figure", "top", "bottom"}, NEW n \in Names,
              CreateFromCatalog(kind, n)
       PROVE TypeOK'
  <2>1. /\ catalog.next_record_id \in RecordIds /\ catalog.next_record_id # NoId
        /\ NewRecordId(catalog) \in CatalogType
        /\ NewRecordId(catalog).next_blob_id <= MaxBlobId
    BY <1>0, <1>14, FreshIds DEF CreateFromCatalog, FreshBlobId
  <2>2. Figure(kind, n, NoId) \in Entity
    BY FigureType
  <2>. QED  BY <1>14, <2>1, <2>2, AppendBlobType, CatalogAssumption DEF CreateFromCatalog
<1>15. ASSUME NEW kind \in {"figure", "top", "bottom"}, NEW n \in Names,
              NEW parent \in RecordIds \union {NoId}, NEW img \in Images,
              Upload(kind, n, parent, img)
       PROVE TypeOK'
  BY <1>0, <1>15, FigureType, AppendBlobType DEF Upload, FreshRecordId, FreshBlobId
<1>16. CASE AppendEntity
  <2>1. job.ent \in Entity
    BY <1>0, <1>16 DEF AppendEntity, TypeOK
  <2>2. CASE job.op = "upload"
    <3>1. catalog.next_record_id \in RecordIds /\ NewRecordId(catalog) \in CatalogType
      BY <1>0, <1>16, <2>2, CountersType
         DEF AppendEntity, TypeOK, FreshRecordId, CatalogType, RecordIds
    <3>2. FlashType' /\ catalog' \in CatalogType
      BY <1>16, <2>1, <2>2, <3>1, CommitType, RecordsBuilt DEF AppendEntity
    <3>. QED  BY <1>16, <3>2, IdleType, NoJobType DEF AppendEntity, Abort, TypeOK, JobType
  <2>3. CASE job.op # "upload"
    <3>1. job.id \in RecordIds
      BY <1>0, <1>16, <2>3 DEF AppendEntity, TypeOK
    <3>2. FlashType' /\ catalog' \in CatalogType
      BY <1>0, <1>16, <2>1, <2>3, <3>1, CommitType, RecordsBuilt DEF AppendEntity
    <3>. QED  BY <1>16, <3>2, IdleType, NoJobType DEF AppendEntity, Abort, TypeOK, JobType
  <2>. QED  BY <2>2, <2>3
<1>17. CASE RejectName
  <2>1. catalog' \in CatalogType
    BY <1>0, <1>17, CountersType DEF RejectName, TypeOK, FreshRecordId
  <2>. QED  BY <1>17, <2>1, IdleType, NoJobType
            DEF RejectName, Abort, TypeOK, FlashType, JobType
<1>18. CASE Compact
  BY <1>18, StartCompactType, NoJobType DEF Compact, NoJob, Jobs
<1>19. CASE Format
  <2>1. FlashType'
    BY <1>19 DEF Format, FlashType
  <2>2. JobType' /\ job'.op = "format"
    BY <1>19, RecordsBuilt DEF Format, JobType, Jobs, NoJob
  <2>. QED  BY <1>19, <2>1, <2>2, NewCatalogType
            DEF Format, TypeOK, FlashType, JobType, Saving
<1>20. ASSUME NEW r \in job.todo, Rewrite(r) PROVE TypeOK'
  BY <1>20, RewriteType
<1>21. ASSUME NEW i \in RecordIds, NEW img \in Images, Save(i, img) PROVE TypeOK'
  <2>1. Entities[i] \in Entity /\ i # NoId /\ catalog.next_blob_id <= MaxBlobId
    BY <1>0, <1>21, NoIdIsNoRecord DEF Save, CatalogType, Entities, FreshBlobId
  <2>2. CASE AppendBlob(catalog, "save", i, Entities[i], img) /\ UNCHANGED boots
    BY <1>0, <2>1, <2>2, AppendBlobType
  <2>3. CASE StartCompact([NoJob EXCEPT !.op = "save", !.id = i, !.ent = Entities[i],
                             !.img = img, !.again = UsedPercent >= CompactPercent])
    <3>1. Entities[i] # Absent /\ img # Absent
      BY <2>1, AbsentAssumption
    <3>. DEFINE again == UsedPercent >= CompactPercent
                then == [NoJob EXCEPT !.op = "save", !.id = i, !.ent = Entities[i],
                           !.img = img, !.again = again]
    <3>2. again \in BOOLEAN
      BY <1>0, CatalogAssumption, StoreAssumption DEF UsedPercent, Offset, CatalogType
    <3>3. then \in Jobs
      <4>. HIDE DEF again
      <4>. QED  BY <2>1, <3>2 DEF NoJob, Jobs
    <3>4. then.id = i /\ then.ent = Entities[i] /\ then.img = img
      BY DEF NoJob
    <3>. QED  BY <2>1, <2>3, <3>1, <3>3, <3>4, StartCompactType DEF FreshBlobId
  <2>. QED  BY <1>21, <2>2, <2>3 DEF Save
<1>22. CASE ResumeSave
  <2>1. /\ job.id \in RecordIds /\ job.id # NoId
        /\ job.ent \in Entity /\ job.ent # Absent
        /\ job.img \in Images /\ job.img # Absent
        /\ catalog.next_blob_id <= MaxBlobId
    BY <1>0, <1>22 DEF ResumeSave, TypeOK, Saving, FreshBlobId
  <2>2. CASE AppendBlob(catalog, "save", job.id, job.ent, job.img) /\ UNCHANGED boots
    BY <1>0, <2>1, <2>2, AppendBlobType
  <2>3. CASE StartCompact([job EXCEPT !.again = FALSE])
    BY <1>0, <2>1, <2>3, StartCompactType DEF JobType, Jobs, FreshBlobId
  <2>4. CASE Abort /\ UNCHANGED <<flash, catalog, boots>>
    BY <1>0, <2>4, IdleType, NoJobType DEF Abort, TypeOK, FlashType, JobType
  <2>. QED  BY <1>22, <2>2, <2>3, <2>4 DEF ResumeSave
<1>23. ASSUME Reboot, FlashType' PROVE TypeOK'
  BY <1>23, NewCatalogType, NoJobType, IdleType, StoreAssumption DEF Reboot, TypeOK, JobType
<1>24. CASE PowerCut
  BY <1>23, <1>24 DEF PowerCut, TypeOK, FlashType
<1>25. CASE TornWrite
  BY <1>23, <1>25 DEF TornWrite, TypeOK, FlashType
<1>26. ASSUME PartlyErased PROVE FlashType'
  BY <1>0, <1>26 DEF PartlyErased, FlashType
<1>27. CASE EraseCut
  BY <1>23, <1>26, <1>27 DEF EraseCut
<1>28. CASE EraseFails
  BY <1>0, <1>26, <1>28, IdleType, NoJobType DEF EraseFails, Abort, TypeOK, JobType
<1>29. CASE UNCHANGED vars
  BY <1>29 DEF vars, TypeOK, Saving, FreshRecordId, FreshBlobId
<1>. QED
  BY <1>1, <1>2, <1>3, <1>4, <1>5, <1>6, <1>7, <1>8, <1>9, <1>10, <1>11, <1>12,
     <1>13, <1>14, <1>15, <1>16, <1>17, <1>18, <1>19, <1>20, <1>21, <1>22,
     <1>24, <1>25, <1>27, <1>28, <1>29, StoreAssumption DEF Next

\* The type invariant holds in every reachable state, for every size of the
\* flash and the tables, whatever power failures happen.
THEOREM TypeCorrect == Spec => []TypeOK
  BY TypeInit, TypeNext, PTL DEF Spec

(***************************************************************************)
(* RowsBacked: every row of the catalog is in the journal.                 *)
(***************************************************************************)
\* c is the catalog, counters and mode apart.
SameTables(c) ==
  /\ c.entities = catalog.entities /\ c.identities = catalog.identities
  /\ c.blobs = catalog.blobs /\ c.write_offset = catalog.write_offset

\* A step that leaves the journal before its end, and the tables, alone.
LEMMA RowsKept ==
  ASSUME TypeOK, RowsBacked,
         catalog'.entities = catalog.entities,
         catalog'.identities = catalog.identities,
         catalog'.blobs = catalog.blobs,
         catalog'.write_offset \in Nat, Offset <= catalog'.write_offset,
         \A p \in Cells : p < Offset => flash'[p] = flash[p]
  PROVE  RowsBacked'
<1>1. Offset \in Nat
  BY CatalogAssumption DEF TypeOK, CatalogType, Offset
<1>2. \A p \in Cells : p < Offset => p < Offset'
  BY <1>1 DEF Cells, Offset
<1>3. \A b \in BlobIds : catalog.blobs[b] # Absent => catalog.blobs[b].offset \in Cells
  BY DEF TypeOK, CatalogType, StoredBlob
<1>. QED  BY <1>2, <1>3 DEF RowsBacked, Entities, Identities

\* Nothing is claimed of an empty catalog.
LEMMA RowsOfNone ==
  ASSUME catalog'.entities = NewCatalog.entities,
         catalog'.identities = NewCatalog.identities,
         catalog'.blobs = NewCatalog.blobs
  PROVE  RowsBacked'
  BY DEF RowsBacked, NewCatalog, Entities, Identities

\* The end of the journal moves past a record that is there, and the record
\* takes effect in the catalog.
LEMMA RowsExtended ==
  ASSUME TypeOK, RowsBacked, NEW c \in CatalogType, SameTables(c),
         NEW r \in Records, Offset < Cap, flash'[Offset] = r,
         \A p \in Cells : p < Offset => flash'[p] = flash[p],
         catalog' = Applied(c, r)
  PROVE  RowsBacked'
<1>1. Offset \in Cells /\ Offset = c.write_offset
  BY CatalogAssumption DEF TypeOK, CatalogType, Offset, Cells, SameTables
<1>2. Offset' = Offset + 1
  BY <1>1, RecordShape DEF Applied, Tables, CatalogType, Offset
<1>3. \A p \in Cells : p < Offset => p < Offset' /\ flash'[p] = flash[p]
  BY <1>1, <1>2 DEF Cells
<1>4. Offset < Offset' /\ flash'[Offset] = r
  BY <1>1, <1>2 DEF Cells
<1>5. \A i \in RecordIds : Entities'[i] # Absent =>
        \/ Entities[i] = Entities'[i]
        \/ r = EntityRec(i, Entities'[i])
  <2>1. CASE r.type = "entity"
    BY <2>1, RecordShape DEF Applied, Tables, Put, SameTables, CatalogType, Entities
  <2>2. CASE r.type = "entityDel"
    BY <2>2, RecordShape DEF Applied, Tables, SameTables, CatalogType, Entities
  <2>3. CASE r.type \notin {"entity", "entityDel"}
    BY <2>3, RecordShape DEF Applied, Tables, SameTables, CatalogType, Entities
  <2>. QED  BY <2>1, <2>2, <2>3
<1>6. \A i \in RecordIds : Identities'[i] # Absent =>
        \/ Identities[i] = Identities'[i]
        \/ r = IdentityRec(i, Identities'[i])
  <2>1. CASE r.type = "identity"
    BY <2>1, RecordShape DEF Applied, Tables, Put, SameTables, CatalogType, Identities
  <2>2. CASE r.type = "identityDel"
    BY <2>2, RecordShape DEF Applied, Tables, SameTables, CatalogType, Identities
  <2>3. CASE r.type \notin {"identity", "identityDel"}
    BY <2>3, RecordShape DEF Applied, Tables, SameTables, CatalogType, Identities
  <2>. QED  BY <2>1, <2>2, <2>3
<1>7. \A b \in BlobIds : catalog'.blobs[b] # Absent =>
        \/ catalog.blobs[b] = catalog'.blobs[b]
        \/ /\ catalog'.blobs[b].offset = Offset
           /\ r = BlobRec(b, catalog'.blobs[b].crc)
  <2>1. CASE r.type = "blob"
    BY <1>1, <2>1, RecordShape DEF Applied, Tables, Put, SameTables, CatalogType
  <2>2. CASE r.type # "blob"
    BY <2>2, RecordShape DEF Applied, Tables, SameTables, CatalogType
  <2>. QED  BY <2>1, <2>2
<1>8. \A b \in BlobIds : catalog.blobs[b] # Absent => catalog.blobs[b].offset \in Cells
  BY DEF TypeOK, CatalogType, StoredBlob
<1>9. ASSUME NEW i \in RecordIds, Entities'[i] # Absent
      PROVE  \E p \in Cells : p < Offset' /\ flash'[p] = EntityRec(i, Entities'[i])
  BY <1>1, <1>3, <1>4, <1>5, <1>9 DEF RowsBacked
<1>10. ASSUME NEW i \in RecordIds, Identities'[i] # Absent
       PROVE  \E p \in Cells : p < Offset' /\ flash'[p] = IdentityRec(i, Identities'[i])
  BY <1>1, <1>3, <1>4, <1>6, <1>10 DEF RowsBacked
<1>11. ASSUME NEW b \in BlobIds, catalog'.blobs[b] # Absent
       PROVE  /\ catalog'.blobs[b].offset < Offset'
              /\ flash'[catalog'.blobs[b].offset] = BlobRec(b, catalog'.blobs[b].crc)
  BY <1>3, <1>4, <1>7, <1>8, <1>11 DEF RowsBacked
<1>. QED  BY <1>9, <1>10, <1>11 DEF RowsBacked

LEMMA RowsWritten ==
  ASSUME TypeOK, RowsBacked, NEW c \in CatalogType, SameTables(c),
         NEW r \in Records, Written(c, r), catalog' = Applied(c, r)
  PROVE  RowsBacked'
<1>1. /\ Offset < Cap /\ Offset = c.write_offset
      /\ flash' = [flash EXCEPT ![Offset] = r]
  BY DEF Written, Writable, SameTables, Offset
<1>2. flash'[Offset] = r /\ \A p \in Cells : p < Offset => flash'[p] = flash[p]
  BY <1>1, CatalogAssumption DEF TypeOK, CatalogType, Cells, Offset
<1>. QED  BY <1>1, <1>2, RowsExtended

LEMMA RowsRefused ==
  ASSUME TypeOK, RowsBacked, NEW c \in CatalogType, SameTables(c),
         Refused(c), catalog' = c
  PROVE  RowsBacked'
<1>1. \A p \in Cells : p < Offset => flash'[p] = flash[p]
  BY CatalogAssumption
     DEF Refused, Writable, SameTables, TypeOK, CatalogType, Cells, Offset
<1>2. catalog'.write_offset \in Nat /\ Offset <= catalog'.write_offset
  BY CatalogAssumption DEF SameTables, CatalogType, Offset
<1>. QED  BY <1>1, <1>2, RowsKept DEF SameTables

LEMMA RowsCommit ==
  ASSUME TypeOK, RowsBacked, NEW c \in CatalogType, SameTables(c),
         NEW r \in Records, Commit(c, r)
  PROVE  RowsBacked'
  BY RowsWritten, RowsRefused DEF Commit

LEMMA RowsCommitNamed ==
  ASSUME TypeOK, RowsBacked, NEW c \in CatalogType, SameTables(c),
         NEW r \in Records, CommitNamed(c, r)
  PROVE  RowsBacked'
<1>1. CASE Commit(c, r)
  BY <1>1, RowsCommit
<1>2. CASE catalog' = c /\ UNCHANGED flash
  <2>1. Offset \in Nat /\ catalog'.write_offset = Offset
    BY <1>2, CatalogAssumption DEF TypeOK, CatalogType, Offset, SameTables
  <2>. QED  BY <1>2, <2>1, RowsKept DEF SameTables
<1>. QED  BY <1>1, <1>2 DEF CommitNamed

LEMMA RowsAppendBlob ==
  ASSUME TypeOK, RowsBacked, NEW c \in CatalogType, SameTables(c),
         c.next_blob_id <= MaxBlobId, NEW op, NEW id, NEW e,
         NEW img \in Images, AppendBlob(c, op, id, e, img)
  PROVE  RowsBacked'
<1>1. /\ BlobRec(c.next_blob_id, img) \in Records
      /\ NewBlobId(c) \in CatalogType /\ SameTables(NewBlobId(c))
  <2>1. c.next_blob_id \in BlobIds
    BY CatalogAssumption DEF CatalogType, BlobIds
  <2>2. SameTables(NewBlobId(c))
    BY DEF CatalogType, NewBlobId, SameTables
  <2>. QED  BY <2>1, <2>2, RecordsBuilt, CountersType
<1>. QED  BY <1>1, RowsWritten, RowsRefused DEF AppendBlob

LEMMA RowsStartCompact ==
  ASSUME NEW then, StartCompact(then)
  PROVE  RowsBacked'
  BY RowsOfNone DEF StartCompact, NewCatalog

LEMMA RowsInit == Init => RowsBacked
  BY DEF Init, RowsBacked, NewCatalog, Entities, Identities

LEMMA RowsNext == TypeOK /\ RowsBacked /\ [Next]_vars /\ ~EraseFails => RowsBacked'
<1>. SUFFICES ASSUME TypeOK, RowsBacked, [Next]_vars, ~EraseFails PROVE RowsBacked'
  OBVIOUS
<1>0. /\ catalog \in CatalogType /\ SameTables(catalog)
      /\ Offset \in Nat /\ catalog.write_offset = Offset
      /\ job.todo \subseteq Records
  BY CatalogAssumption DEF TypeOK, Jobs, SameTables, CatalogType, Offset
<1>00. ASSUME FreshRecordId
       PROVE  /\ catalog.next_record_id \in RecordIds
              /\ NewRecordId(catalog) \in CatalogType
              /\ SameTables(NewRecordId(catalog))
              /\ NewRecordId(catalog).next_blob_id = catalog.next_blob_id
  BY <1>0, <1>00, FreshIds DEF NewRecordId, SameTables, CatalogType
<1>1. CASE ScanEnd
  BY <1>0, <1>1, RowsKept DEF ScanEnd
<1>2. CASE ScanCorrupt
  <2>1. Offset \in Cells
    BY <1>0, <1>2, CatalogAssumption DEF ScanCorrupt, Cells
  <2>2. NextSector(Offset) \in Nat /\ Offset <= NextSector(Offset)
    BY <1>0, <2>1, NextSectorBounds
  <2>3. /\ catalog'.entities = catalog.entities
        /\ catalog'.identities = catalog.identities
        /\ catalog'.blobs = catalog.blobs
        /\ catalog'.write_offset \in {Offset, NextSector(Offset)}
    BY <1>0, <1>2 DEF ScanCorrupt, CatalogType
  <2>. QED  BY <1>0, <1>2, <2>2, <2>3, RowsKept DEF ScanCorrupt
<1>3. CASE ScanRecord
  <2>. DEFINE r == flash[Offset]
              seen == Observed(catalog, r)
  <2>1. r \in Records /\ Offset < Cap /\ flash' = flash
    BY <1>3 DEF ScanRecord
  <2>2. seen \in CatalogType /\ SameTables(seen)
    BY <1>0, <2>1, ObservedType DEF SameTables
  <2>3. CASE catalog' = [seen EXCEPT !.needs_format = TRUE]
    BY <1>0, <2>1, <2>2, <2>3, RowsKept DEF SameTables, CatalogType
  <2>4. CASE catalog' = Applied(seen, r)
    BY <2>1, <2>2, <2>4, RowsExtended
  <2>. QED  BY <1>3, <2>3, <2>4 DEF ScanRecord
<1>4. ASSUME NEW n \in Names, CreateIdentity(n) PROVE RowsBacked'
  BY <1>00, <1>4, RowsCommitNamed, RecordsBuilt DEF CreateIdentity
<1>5. ASSUME NEW n \in Names, CreateStatic(n) PROVE RowsBacked'
  BY <1>00, <1>5, RowsCommitNamed, RecordsBuilt, FigureType DEF CreateStatic
<1>6. ASSUME NEW i \in RecordIds, NEW n \in Names, RenameIdentity(i, n)
      PROVE  RowsBacked'
  BY <1>0, <1>6, RowsCommit, RecordsBuilt DEF RenameIdentity
<1>7. ASSUME NEW i \in RecordIds, NEW n \in Names, RenameEntity(i, n)
      PROVE  RowsBacked'
  <2>1. [Entities[i] EXCEPT !.name = n] \in Entity
    BY <1>0, <1>7 DEF RenameEntity, CatalogType, Entities, Entity
  <2>. QED  BY <1>0, <1>7, <2>1, RowsCommit, RecordsBuilt DEF RenameEntity
<1>8. ASSUME NEW i \in RecordIds, NEW n \in Names, CreateFromIdentity(i, n)
      PROVE  RowsBacked'
  BY <1>00, <1>8, RowsAppendBlob, CatalogAssumption DEF CreateFromIdentity, FreshBlobId
<1>9. ASSUME NEW i \in RecordIds, NEW n \in Names, CloneEntity(i, n)
      PROVE  RowsBacked'
  <2>1. Entities[i] \in Entity /\ FreshRecordId /\ FreshBlobId
    BY <1>0, <1>9 DEF CloneEntity, CatalogType, Entities
  <2>2. CASE ReadImage(Entities[i]) = Absent
    BY <1>0, <1>00, <1>9, <2>1, <2>2, RowsKept DEF CloneEntity, SameTables
  <2>3. CASE ReadImage(Entities[i]) # Absent
    BY <1>0, <1>00, <1>9, <2>1, <2>3, RowsAppendBlob, ReadImageType
       DEF CloneEntity, FreshBlobId
  <2>. QED  BY <2>2, <2>3
<1>10. ASSUME NEW i \in RecordIds, DeleteIdentity(i) PROVE RowsBacked'
  BY <1>0, <1>10, RowsCommit, RecordsBuilt DEF DeleteIdentity
<1>11. ASSUME NEW i \in RecordIds, DeleteEntity(i) PROVE RowsBacked'
  BY <1>0, <1>11, RowsCommit, RecordsBuilt DEF DeleteEntity
<1>12. ASSUME NEW t \in RecordIds, NEW b \in RecordIds, NEW n \in Names,
              CreateCombo(t, b, n)
       PROVE  RowsBacked'
  <2>1. [Figure("combo", n, NoId) EXCEPT !.top = t, !.bottom = b] \in Entity
    BY DEF Figure, Entity, Kinds
  <2>. QED  BY <1>00, <1>12, <2>1, RowsCommitNamed, RecordsBuilt DEF CreateCombo
<1>13. ASSUME NEW m \in Modes, SetUsbMode(m) PROVE RowsBacked'
  <2>1. /\ [catalog EXCEPT !.usb_mode = m] \in CatalogType
        /\ SameTables([catalog EXCEPT !.usb_mode = m])
    BY <1>0 DEF CatalogType, SameTables
  <2>. QED  BY <1>13, <2>1, RowsCommit, RecordsBuilt DEF SetUsbMode
<1>14. ASSUME NEW kind \in {"figure", "top", "bottom"}, NEW n \in Names,
              CreateFromCatalog(kind, n)
       PROVE  RowsBacked'
  BY <1>00, <1>14, RowsAppendBlob, CatalogAssumption DEF CreateFromCatalog, FreshBlobId
<1>15. ASSUME NEW kind \in {"figure", "top", "bottom"}, NEW n \in Names,
              NEW parent \in RecordIds \union {NoId}, NEW img \in Images,
              Upload(kind, n, parent, img)
       PROVE  RowsBacked'
  BY <1>0, <1>15, RowsAppendBlob DEF Upload, FreshBlobId
<1>16. CASE AppendEntity
  <2>1. job.ent \in Entity
    BY <1>16 DEF AppendEntity, TypeOK, Jobs
  <2>2. CASE job.op = "upload"
    BY <1>00, <1>16, <2>1, <2>2, RowsCommit, RecordsBuilt DEF AppendEntity, TypeOK
  <2>3. CASE job.op # "upload"
    <3>1. job.id \in RecordIds
      BY <1>16, <2>3 DEF AppendEntity, TypeOK, Jobs
    <3>. QED  BY <1>0, <1>16, <2>1, <2>3, <3>1, RowsCommit, RecordsBuilt DEF AppendEntity
  <2>. QED  BY <2>2, <2>3
<1>17. CASE RejectName
  <2>1. /\ catalog'.entities = catalog.entities
        /\ catalog'.identities = catalog.identities
        /\ catalog'.blobs = catalog.blobs
        /\ catalog'.write_offset = Offset
    BY <1>0, <1>17 DEF RejectName, NewRecordId, CatalogType
  <2>. QED  BY <1>0, <1>17, <2>1, RowsKept DEF RejectName
<1>18. CASE Compact
  BY <1>18, RowsStartCompact DEF Compact
<1>19. CASE Format
  BY <1>19, RowsOfNone DEF Format
<1>20. ASSUME NEW r \in job.todo, Rewrite(r) PROVE RowsBacked'
  <2>. DEFINE c == IF r.type = "config" THEN [catalog EXCEPT !.usb_mode = r.mode]
                   ELSE catalog
  <2>1. r \in Records /\ c \in CatalogType /\ SameTables(c)
    BY <1>0, <1>20, RecordShape DEF CatalogType, SameTables
  <2>2. CASE Written(c, r) /\ catalog' = Applied(c, r)
    BY <2>1, <2>2, RowsWritten
  <2>3. CASE Refused(c) /\ catalog' = c
    BY <2>1, <2>3, RowsRefused
  <2>. QED  BY <1>20, <2>2, <2>3 DEF Rewrite
<1>21. ASSUME NEW i \in RecordIds, NEW img \in Images, Save(i, img)
       PROVE  RowsBacked'
  <2>1. catalog.next_blob_id <= MaxBlobId
    BY <1>21 DEF Save, FreshBlobId
  <2>. QED  BY <1>0, <1>21, <2>1, RowsAppendBlob, RowsStartCompact DEF Save
<1>22. CASE ResumeSave
  <2>1. job.img \in Images /\ catalog.next_blob_id <= MaxBlobId
    BY <1>22 DEF ResumeSave, TypeOK, Jobs, Saving, FreshBlobId
  <2>2. CASE AppendBlob(catalog, "save", job.id, job.ent, job.img)
    BY <1>0, <2>1, <2>2, RowsAppendBlob
  <2>3. CASE StartCompact([job EXCEPT !.again = FALSE])
    BY <2>3, RowsStartCompact
  <2>4. CASE UNCHANGED <<flash, catalog>>
    BY <1>0, <2>4, RowsKept
  <2>. QED  BY <1>22, <2>2, <2>3, <2>4 DEF ResumeSave
<1>23. CASE Reboot
  BY <1>23, RowsOfNone DEF Reboot
<1>24. CASE UNCHANGED vars
  BY <1>0, <1>24, RowsKept DEF vars
<1>. QED
  BY <1>1, <1>2, <1>3, <1>4, <1>5, <1>6, <1>7, <1>8, <1>9, <1>10, <1>11, <1>12,
     <1>13, <1>14, <1>15, <1>16, <1>17, <1>18, <1>19, <1>20, <1>21, <1>22,
     <1>23, <1>24, StoreAssumption DEF Next, PowerCut, TornWrite, EraseCut

(***************************************************************************)
(* NewIdsAreUnused, and what makes it inductive as long as the counter of  *)
(* record ids does not come round: the id that a half-done operation is    *)
(* about, and the ids of what a compaction has still to write back, have   *)
(* been handed out before; and no row in the journal has the largest id,   *)
(* past which observe_record_id cannot go.                                 *)
(***************************************************************************)
SmallIds ==
  \A p \in Cells :
    flash[p] \in Records /\ flash[p].type \in {"entity", "identity"} =>
      flash[p].id < MaxRecordId

IdsAccounted ==
  /\ NewIdsAreUnused
  /\ SmallIds
  /\ (pc = "entity" /\ job.op # "upload") \/ Saving => job.id < catalog.next_record_id
  /\ pc = "rewrite" =>
       \A r \in job.todo :
         /\ r.type \in {"entity", "identity"} => r.id < catalog.next_record_id
         /\ r.type = "blob" => r.id < catalog.next_blob_id

\* The rows of c have ids that were handed out before.
RowsNumbered(c) ==
  /\ \A i \in RecordIds :
       c.entities[i] # Absent \/ c.identities[i] # Absent => i < c.next_record_id
  /\ \A b \in BlobIds : c.blobs[b] # Absent => b < c.next_blob_id

LEMMA NumberedIsUnused ==
  /\ NewIdsAreUnused <=> RowsNumbered(catalog)
  /\ NewIdsAreUnused' <=> RowsNumbered(catalog')
  BY DEF NewIdsAreUnused, RowsNumbered, Entities, Identities

\* The record r is about rows whose ids were handed out before.
Numbered(c, r) ==
  /\ r.type \in {"entity", "identity"} => r.id < c.next_record_id
  /\ r.type = "blob" => r.id < c.next_blob_id

LEMMA AppliedNumbered ==
  ASSUME NEW c \in CatalogType, RowsNumbered(c), NEW r \in Records, Numbered(c, r)
  PROVE  /\ RowsNumbered(Applied(c, r))
         /\ Applied(c, r).next_record_id = c.next_record_id
         /\ Applied(c, r).next_blob_id = c.next_blob_id
<1>1. /\ Applied(c, r).next_record_id = c.next_record_id
      /\ Applied(c, r).next_blob_id = c.next_blob_id
  BY RecordShape DEF Applied, Tables, CatalogType
<1>2. ASSUME NEW i \in RecordIds, Applied(c, r).entities[i] # Absent
      PROVE  i < c.next_record_id
  <2>1. CASE r.type = "entity"
    BY <1>2, <2>1, RecordShape DEF Applied, Tables, Put, CatalogType, RowsNumbered, Numbered
  <2>2. CASE r.type = "entityDel"
    BY <1>2, <2>2, RecordShape DEF Applied, Tables, CatalogType, RowsNumbered
  <2>3. CASE r.type \notin {"entity", "entityDel"}
    BY <1>2, <2>3, RecordShape DEF Applied, Tables, CatalogType, RowsNumbered
  <2>. QED  BY <2>1, <2>2, <2>3
<1>3. ASSUME NEW i \in RecordIds, Applied(c, r).identities[i] # Absent
      PROVE  i < c.next_record_id
  <2>1. CASE r.type = "identity"
    BY <1>3, <2>1, RecordShape DEF Applied, Tables, Put, CatalogType, RowsNumbered, Numbered
  <2>2. CASE r.type = "identityDel"
    BY <1>3, <2>2, RecordShape DEF Applied, Tables, CatalogType, RowsNumbered
  <2>3. CASE r.type \notin {"identity", "identityDel"}
    BY <1>3, <2>3, RecordShape DEF Applied, Tables, CatalogType, RowsNumbered
  <2>. QED  BY <2>1, <2>2, <2>3
<1>4. ASSUME NEW b \in BlobIds, Applied(c, r).blobs[b] # Absent
      PROVE  b < c.next_blob_id
  <2>1. CASE r.type = "blob"
    BY <1>4, <2>1, RecordShape DEF Applied, Tables, Put, CatalogType, RowsNumbered, Numbered
  <2>2. CASE r.type # "blob"
    BY <1>4, <2>2, RecordShape DEF Applied, Tables, CatalogType, RowsNumbered
  <2>. QED  BY <2>1, <2>2
<1>. QED  BY <1>1, <1>2, <1>3, <1>4 DEF RowsNumbered

\* Replay takes note of the ids of a record before it takes effect.
LEMMA ObservedNumbered ==
  ASSUME NEW c \in CatalogType, RowsNumbered(c), NEW r \in Records,
         r.type \in {"entity", "identity"} => r.id < MaxRecordId
  PROVE  RowsNumbered(Observed(c, r)) /\ Numbered(Observed(c, r), r)
<1>1. \A n, i \in RecordIds : /\ n <= AtLeast(n, i, MaxRecordId)
                              /\ i < MaxRecordId => i < AtLeast(n, i, MaxRecordId)
  BY CatalogAssumption DEF AtLeast, RecordIds
<1>2. \A n \in 1 .. MaxBlobId + 1, b \in BlobIds :
        n <= AtLeast(n, b, MaxBlobId + 1) /\ b < AtLeast(n, b, MaxBlobId + 1)
  BY CatalogAssumption DEF AtLeast, BlobIds
<1>. DEFINE o == Observed(c, r)
<1>3. /\ c.next_record_id \in RecordIds
      /\ c.next_blob_id \in 1 .. MaxBlobId + 1
      /\ MaxRecordId \in Nat /\ MaxBlobId \in Nat
  BY CatalogAssumption DEF CatalogType
<1>4. /\ c.next_record_id <= o.next_record_id
      /\ r.type \in {"entity", "identity"} => r.id < o.next_record_id
      /\ c.next_blob_id <= o.next_blob_id
      /\ r.type = "blob" => r.id < o.next_blob_id
  <2>1. CASE r.type \in {"entity", "entityDel", "identity", "identityDel"}
    <3>1. /\ o.next_record_id = AtLeast(c.next_record_id, r.id, MaxRecordId)
          /\ o.next_blob_id = c.next_blob_id
      BY <2>1 DEF Observed, CatalogType
    <3>2. r.id \in RecordIds
      BY <2>1, RecordShape
    <3>. QED  BY <1>1, <1>3, <2>1, <3>1, <3>2
  <2>2. CASE r.type = "blob"
    <3>1. /\ o.next_blob_id = AtLeast(c.next_blob_id, r.id, MaxBlobId + 1)
          /\ o.next_record_id = c.next_record_id
      BY <2>2 DEF Observed, CatalogType
    <3>2. r.id \in BlobIds
      BY <2>2, RecordShape
    <3>. QED  BY <1>2, <1>3, <2>2, <3>1, <3>2 DEF RecordIds
  <2>3. CASE r.type \in {"config", "marker"}
    <3>1. o = c
      BY <2>3 DEF Observed
    <3>. QED  BY <1>3, <2>3, <3>1 DEF RecordIds
  <2>. QED  BY <2>1, <2>2, <2>3, RecordShape
<1>5. o.next_record_id \in Nat /\ o.next_blob_id \in Nat
  BY <1>3, ObservedType DEF CatalogType, RecordIds
<1>6. /\ o.entities = c.entities /\ o.identities = c.identities /\ o.blobs = c.blobs
  BY ObservedType
<1>7. RowsNumbered(o)
  <2>. HIDE DEF o
  <2>. QED  BY <1>3, <1>4, <1>5, <1>6 DEF RowsNumbered, RecordIds, BlobIds
<1>. QED  BY <1>4, <1>7 DEF Numbered

\* Handing out ids.
LEMMA CountersNumbered ==
  ASSUME NEW c \in CatalogType, RowsNumbered(c)
  PROVE  /\ c.next_record_id < MaxRecordId =>
              /\ NewRecordId(c).next_record_id = c.next_record_id + 1
              /\ RowsNumbered(NewRecordId(c))
         /\ RowsNumbered(NewBlobId(c))
<1>1. ASSUME c.next_record_id < MaxRecordId
      PROVE  /\ NewRecordId(c).next_record_id = c.next_record_id + 1
             /\ RowsNumbered(NewRecordId(c))
  <2>1. c.next_record_id \in Nat /\ MaxRecordId \in Nat
    BY CatalogAssumption DEF CatalogType, RecordIds
  <2>2. (c.next_record_id + 1) % (MaxRecordId + 1) = c.next_record_id + 1
    BY <1>1, <2>1
  <2>3. NewRecordId(c).next_record_id = c.next_record_id + 1
    BY <2>2 DEF NewRecordId, CatalogType
  <2>. QED  BY <2>1, <2>3 DEF RowsNumbered, NewRecordId, CatalogType, RecordIds
<1>2. RowsNumbered(NewBlobId(c))
  BY CatalogAssumption DEF RowsNumbered, NewBlobId, CatalogType, BlobIds
<1>. QED  BY <1>1, <1>2

\* A step that takes a record id, and does not wrap the counter.
LEMMA IdTaken ==
  ASSUME catalog \in CatalogType, RowsNumbered(catalog), ~CounterWraps,
         catalog'.next_record_id = NewRecordId(catalog).next_record_id
  PROVE  /\ RowsNumbered(NewRecordId(catalog))
         /\ catalog.next_record_id < NewRecordId(catalog).next_record_id
<1>1. catalog.next_record_id \in 0 .. MaxRecordId /\ MaxRecordId \in Nat
  BY CatalogAssumption DEF CatalogType, RecordIds
<1>2. catalog.next_record_id < MaxRecordId
  <2>. SUFFICES ASSUME catalog.next_record_id = MaxRecordId PROVE FALSE
    BY <1>1
  <2>1. (MaxRecordId + 1) % (MaxRecordId + 1) = 0
    BY <1>1
  <2>2. NewRecordId(catalog).next_record_id = 0
    BY <2>1 DEF NewRecordId, CatalogType
  <2>. QED  BY <2>2 DEF CounterWraps
<1>. QED  BY <1>1, <1>2, CountersNumbered

LEMMA AppliedCounter ==
  ASSUME NEW c \in CatalogType, NEW r \in Records
  PROVE  Applied(c, r).next_record_id = c.next_record_id
  BY RecordShape DEF Applied, Tables, CatalogType

LEMMA CommitCounter ==
  ASSUME NEW c \in CatalogType, NEW r \in Records, CommitNamed(c, r)
  PROVE  catalog'.next_record_id = c.next_record_id
  BY AppliedCounter DEF Commit, CommitNamed

LEMMA AppendBlobCounter ==
  ASSUME NEW c \in CatalogType, c.next_blob_id <= MaxBlobId,
         NEW op, NEW id, NEW e, NEW img \in Images, AppendBlob(c, op, id, e, img)
  PROVE  catalog'.next_record_id = c.next_record_id
<1>1. c.next_blob_id \in BlobIds
  BY CatalogAssumption DEF CatalogType, BlobIds
<1>2. BlobRec(c.next_blob_id, img) \in Records /\ NewBlobId(c) \in CatalogType
  BY <1>1, RecordsBuilt, CountersType
<1>3. NewBlobId(c).next_record_id = c.next_record_id
  BY DEF NewBlobId, CatalogType
<1>. QED  BY <1>2, <1>3, AppliedCounter DEF AppendBlob

\* What steps write to flash keeps the ids there small.
LEMMA SmallIdsWritten ==
  ASSUME TypeOK, SmallIds, NEW c \in CatalogType, NEW r \in Records, Numbered(c, r),
         Written(c, r) \/ Refused(c)
  PROVE  SmallIds'
<1>1. c.next_record_id \in 0 .. MaxRecordId /\ MaxRecordId \in Nat
  BY CatalogAssumption DEF CatalogType, RecordIds
<1>2. r.type \in {"entity", "identity"} => r.id < MaxRecordId
  BY <1>1, RecordShape DEF Numbered, RecordIds
<1>3. \A p \in Cells : flash'[p] \in {flash[p], r, Torn}
  BY DEF Written, Refused, TypeOK
<1>. QED  BY <1>2, <1>3, CellKinds DEF SmallIds

LEMMA SmallIdsKept ==
  ASSUME SmallIds, \A p \in Cells : flash'[p] \in {flash[p], Erased, Torn}
  PROVE  SmallIds'
  BY CellKinds DEF SmallIds

LEMMA CommitNumbered ==
  ASSUME TypeOK, SmallIds, NEW c \in CatalogType, RowsNumbered(c), NEW r \in Records,
         Numbered(c, r), CommitNamed(c, r)
  PROVE  RowsNumbered(catalog') /\ SmallIds'
<1>1. CASE UNCHANGED flash /\ catalog' = c
  BY <1>1, SmallIdsKept
<1>2. CASE Commit(c, r)
  BY <1>2, AppliedNumbered, SmallIdsWritten DEF Commit
<1>. QED  BY <1>1, <1>2 DEF CommitNamed

LEMMA IdleNumbered ==
  ASSUME RowsNumbered(catalog'), SmallIds', pc' \in {"idle", "scan"}
  PROVE  IdsAccounted'
  BY NumberedIsUnused DEF IdsAccounted, Saving

LEMMA AppendBlobNumbered ==
  ASSUME TypeOK, SmallIds, NEW c \in CatalogType, RowsNumbered(c), c.next_blob_id <= MaxBlobId,
         NEW op, NEW id, op # "upload" => id < c.next_record_id,
         NEW e, NEW img \in Images, AppendBlob(c, op, id, e, img)
  PROVE  IdsAccounted'
<1>. DEFINE d == NewBlobId(c)
            r == BlobRec(c.next_blob_id, img)
<1>1. /\ r \in Records /\ d \in CatalogType /\ RowsNumbered(d)
      /\ Numbered(d, r) /\ d.next_record_id = c.next_record_id
  <2>1. c.next_blob_id \in BlobIds
    BY CatalogAssumption DEF CatalogType, BlobIds
  <2>2. r \in Records /\ d \in CatalogType /\ RowsNumbered(d)
    BY <2>1, RecordsBuilt, CountersType, CountersNumbered
  <2>3. d.next_blob_id = c.next_blob_id + 1 /\ d.next_record_id = c.next_record_id
    BY DEF NewBlobId, CatalogType
  <2>4. Numbered(d, r)
    BY <2>1, <2>3, CatalogAssumption DEF Numbered, BlobRec, BlobIds
  <2>. QED  BY <2>2, <2>3, <2>4
<1>0. SmallIds'
  BY <1>1, SmallIdsWritten DEF AppendBlob
<1>2. CASE catalog' = Applied(d, r)
  <2>1. RowsNumbered(catalog') /\ catalog'.next_record_id = c.next_record_id
    BY <1>1, <1>2, AppliedNumbered
  <2>2. CASE Abort
    BY <1>0, <2>1, <2>2, IdleNumbered DEF Abort
  <2>3. CASE /\ pc' = "entity"
             /\ job' = [NoJob EXCEPT !.op = op, !.id = id, !.ent = [e EXCEPT !.blob = c.next_blob_id]]
    <3>1. job'.op = op /\ job'.id = id
      BY <2>3 DEF NoJob
    <3>. QED  BY <1>0, <2>1, <2>3, <3>1, NumberedIsUnused DEF IdsAccounted, Saving
  <2>. QED  BY <1>2, <2>2, <2>3 DEF AppendBlob
<1>3. CASE catalog' = d /\ Abort
  BY <1>0, <1>1, <1>3, IdleNumbered DEF Abort
<1>. QED  BY <1>2, <1>3 DEF AppendBlob

LEMMA StartCompactNumbered ==
  ASSUME catalog \in CatalogType, RowsNumbered(catalog), NEW then \in Jobs,
         StartCompact(then), then.op = "save" => then.id < catalog.next_record_id
  PROVE  IdsAccounted'
<1>1. /\ catalog'.next_record_id = catalog.next_record_id
      /\ catalog'.next_blob_id = catalog.next_blob_id
      /\ RowsNumbered(catalog')
  BY DEF StartCompact, NewCatalog, RowsNumbered
<1>2. ASSUME NEW r \in Snapshot PROVE Numbered(catalog, r)
  <2>1. CASE r \in {Marker, ConfigRec(catalog.usb_mode)}
    BY <2>1 DEF Marker, ConfigRec, Numbered
  <2>2. CASE r \in {BlobRec(b, ReadBlob(b)) : b \in LiveBlobs(catalog)}
    BY <2>2 DEF BlobRec, Numbered, LiveBlobs, RowsNumbered
  <2>3. CASE r \in {IdentityRec(i, Identities[i]) :
                      i \in {j \in RecordIds : Identities[j] # Absent}}
    BY <2>3 DEF IdentityRec, Numbered, RowsNumbered, Identities
  <2>4. CASE r \in {EntityRec(i, Entities[i]) :
                      i \in {j \in RecordIds : Entities[j] # Absent}}
    BY <2>4 DEF EntityRec, Numbered, RowsNumbered, Entities
  <2>. QED  BY <1>2, <2>1, <2>2, <2>3, <2>4 DEF Snapshot
<1>3. pc' = "rewrite" /\ job'.op = then.op /\ job'.id = then.id /\ job'.todo = Snapshot
  BY DEF StartCompact, Jobs
<1>4. SmallIds'
  BY CellKinds DEF StartCompact, SmallIds
<1>. QED  BY <1>1, <1>2, <1>3, <1>4, NumberedIsUnused DEF IdsAccounted, Saving, Numbered

LEMMA RewriteNumbered ==
  ASSUME TypeOK, IdsAccounted, NEW r \in job.todo, Rewrite(r)
  PROVE  IdsAccounted'
<1>. DEFINE c == IF r.type = "config" THEN [catalog EXCEPT !.usb_mode = r.mode]
                 ELSE catalog
<1>1. /\ r \in Records /\ c \in CatalogType /\ RowsNumbered(c) /\ Numbered(c, r)
      /\ c.next_record_id = catalog.next_record_id
      /\ c.next_blob_id = catalog.next_blob_id
  <2>1. r \in Records /\ RowsNumbered(catalog) /\ Numbered(catalog, r)
    BY NumberedIsUnused DEF Rewrite, TypeOK, Jobs, IdsAccounted, Numbered
  <2>. QED  BY <2>1, RecordShape DEF TypeOK, CatalogType, RowsNumbered, Numbered
<1>2. /\ RowsNumbered(catalog')
      /\ catalog'.next_record_id = catalog.next_record_id
      /\ catalog'.next_blob_id = catalog.next_blob_id
  <2>1. catalog' \in {c, Applied(c, r)}
    BY DEF Rewrite
  <2>. QED  BY <1>1, <2>1, AppliedNumbered
<1>0. SmallIds'
  BY <1>1, SmallIdsWritten DEF Rewrite, IdsAccounted
<1>3. CASE Abort
  BY <1>0, <1>2, <1>3, IdleNumbered DEF Abort
<1>4. CASE job' = [job EXCEPT !.todo = @ \ {r}] /\ pc' = "rewrite"
  <2>1. job'.op = job.op /\ job'.id = job.id /\ job'.todo \subseteq job.todo
    BY <1>4 DEF TypeOK, Jobs
  <2>. QED  BY <1>0, <1>2, <1>4, <2>1, NumberedIsUnused DEF IdsAccounted, Saving, Rewrite
<1>5. CASE job.op = "save" /\ job' = [job EXCEPT !.todo = {}] /\ pc' = "resume"
  <2>1. job'.id = job.id
    BY <1>5 DEF TypeOK, Jobs
  <2>. QED  BY <1>0, <1>2, <1>5, <2>1, NumberedIsUnused DEF IdsAccounted, Saving, Rewrite
<1>. QED  BY <1>3, <1>4, <1>5 DEF Rewrite

LEMMA IdsInit == Init => IdsAccounted
  BY CellKinds DEF Init, IdsAccounted, NewIdsAreUnused, SmallIds, NewCatalog, Entities,
                   Identities, Saving

LEMMA IdsNext == TypeOK /\ IdsAccounted /\ [Next]_vars /\ ~CounterWraps => IdsAccounted'
<1>. SUFFICES ASSUME TypeOK, IdsAccounted, [Next]_vars, ~CounterWraps PROVE IdsAccounted'
  OBVIOUS
<1>. USE DEF Idle
<1>0. /\ catalog \in CatalogType /\ RowsNumbered(catalog) /\ SmallIds
      /\ job.ent \in Entity \union {Absent} /\ job.todo \subseteq Records
  BY NumberedIsUnused DEF TypeOK, Jobs, IdsAccounted
<1>00. /\ catalog.next_record_id \in RecordIds
       /\ NewRecordId(catalog) \in CatalogType
       /\ NewRecordId(catalog).next_blob_id = catalog.next_blob_id
  BY <1>0, FreshIds
<1>01. ASSUME flash' = flash PROVE SmallIds'
  BY <1>0, <1>01, SmallIdsKept
<1>02. ASSUME NEW r \in Records, CommitNamed(NewRecordId(catalog), r),
              r.type \in {"entity", "identity"}, r.id = catalog.next_record_id
       PROVE  RowsNumbered(catalog') /\ SmallIds'
  <2>1. /\ RowsNumbered(NewRecordId(catalog))
        /\ catalog.next_record_id < NewRecordId(catalog).next_record_id
    BY <1>0, <1>00, <1>02, CommitCounter, IdTaken
  <2>2. Numbered(NewRecordId(catalog), r)
    BY <1>02, <2>1 DEF Numbered
  <2>. QED  BY <1>0, <1>00, <1>02, <2>1, <2>2, CommitNumbered
<1>03. ASSUME FreshBlobId, NEW e, NEW img \in Images,
              AppendBlob(NewRecordId(catalog), "create", catalog.next_record_id, e, img)
       PROVE  IdsAccounted'
  <2>1. /\ RowsNumbered(NewRecordId(catalog))
        /\ catalog.next_record_id < NewRecordId(catalog).next_record_id
    BY <1>0, <1>00, <1>03, AppendBlobCounter, IdTaken DEF FreshBlobId
  <2>. QED  BY <1>0, <1>00, <1>03, <2>1, AppendBlobNumbered DEF FreshBlobId
<1>1. CASE ScanEnd
  BY <1>0, <1>01, <1>1, IdleNumbered DEF ScanEnd
<1>2. CASE ScanCorrupt
  <2>1. RowsNumbered(catalog')
    BY <1>0, <1>2 DEF ScanCorrupt, RowsNumbered, CatalogType
  <2>. QED  BY <1>01, <1>2, <2>1, IdleNumbered DEF ScanCorrupt
<1>3. CASE ScanRecord
  <2>. DEFINE r == flash[Offset]
              seen == Observed(catalog, r)
  <2>1. /\ r \in Records /\ pc' \in {"scan", "idle"} /\ SmallIds'
        /\ r.type \in {"entity", "identity"} => r.id < MaxRecordId
    <3>1. Offset \in Cells
      BY <1>0, <1>3, CatalogAssumption DEF ScanRecord, CatalogType, Cells, Offset
    <3>. QED  BY <1>0, <1>01, <1>3, <3>1 DEF ScanRecord, SmallIds
  <2>2. seen \in CatalogType /\ RowsNumbered(seen) /\ Numbered(seen, r)
    BY <1>0, <2>1, ObservedType, ObservedNumbered
  <2>3. RowsNumbered([seen EXCEPT !.needs_format = TRUE])
    BY <2>2 DEF RowsNumbered, CatalogType
  <2>4. RowsNumbered(Applied(seen, r))
    BY <2>1, <2>2, AppliedNumbered
  <2>5. RowsNumbered(catalog')
    BY <1>3, <2>3, <2>4 DEF ScanRecord
  <2>. QED  BY <2>1, <2>5, IdleNumbered
<1>4. ASSUME NEW n \in Names, CreateIdentity(n) PROVE IdsAccounted'
  <2>1. RowsNumbered(catalog') /\ SmallIds'
    BY <1>00, <1>02, <1>4, RecordsBuilt DEF CreateIdentity, IdentityRec
  <2>. QED  BY <1>4, <2>1, IdleNumbered DEF CreateIdentity, Done
<1>5. ASSUME NEW n \in Names, CreateStatic(n) PROVE IdsAccounted'
  <2>1. RowsNumbered(catalog') /\ SmallIds'
    BY <1>00, <1>02, <1>5, RecordsBuilt, FigureType DEF CreateStatic, EntityRec
  <2>. QED  BY <1>5, <2>1, IdleNumbered DEF CreateStatic, Done
<1>6. ASSUME NEW i \in RecordIds, NEW n \in Names, RenameIdentity(i, n)
      PROVE  IdsAccounted'
  <2>1. RowsNumbered(catalog') /\ SmallIds'
    BY <1>0, <1>6, CommitNumbered, RecordsBuilt
       DEF CommitNamed, RenameIdentity, Numbered, IdentityRec, RowsNumbered, Identities
  <2>. QED  BY <1>6, <2>1, IdleNumbered DEF RenameIdentity, Done
<1>7. ASSUME NEW i \in RecordIds, NEW n \in Names, RenameEntity(i, n)
      PROVE  IdsAccounted'
  <2>. DEFINE r == EntityRec(i, [Entities[i] EXCEPT !.name = n])
  <2>1. [Entities[i] EXCEPT !.name = n] \in Entity
    BY <1>0, <1>7 DEF RenameEntity, CatalogType, Entities, Entity
  <2>2. r \in Records /\ Numbered(catalog, r)
    BY <1>0, <1>7, <2>1, RecordsBuilt
       DEF RenameEntity, Numbered, EntityRec, RowsNumbered, Entities
  <2>3. RowsNumbered(catalog') /\ SmallIds'
    BY <1>0, <1>7, <2>2, CommitNumbered DEF CommitNamed, RenameEntity
  <2>. QED  BY <1>7, <2>3, IdleNumbered DEF RenameEntity, Done
<1>8. ASSUME NEW i \in RecordIds, NEW n \in Names, CreateFromIdentity(i, n)
      PROVE  IdsAccounted'
  BY <1>03, <1>8, CatalogAssumption DEF CreateFromIdentity
<1>9. ASSUME NEW i \in RecordIds, NEW n \in Names, CloneEntity(i, n)
      PROVE  IdsAccounted'
  <2>1. Entities[i] \in Entity /\ FreshRecordId /\ FreshBlobId
    BY <1>0, <1>9 DEF CloneEntity, CatalogType, Entities
  <2>2. CASE ReadImage(Entities[i]) = Absent
    BY <1>0, <1>01, <1>9, <2>1, <2>2, IdTaken, IdleNumbered DEF CloneEntity
  <2>3. CASE ReadImage(Entities[i]) # Absent
    BY <1>0, <1>03, <1>9, <2>1, <2>3, ReadImageType DEF CloneEntity
  <2>. QED  BY <2>2, <2>3
<1>10. ASSUME NEW i \in RecordIds, DeleteIdentity(i) PROVE IdsAccounted'
  <2>1. RowsNumbered(catalog') /\ SmallIds'
    BY <1>0, <1>10, CommitNumbered, RecordsBuilt DEF CommitNamed, DeleteIdentity, Numbered, IdentityDel
  <2>. QED  BY <1>10, <2>1, IdleNumbered DEF DeleteIdentity, Done
<1>11. ASSUME NEW i \in RecordIds, DeleteEntity(i) PROVE IdsAccounted'
  <2>1. RowsNumbered(catalog') /\ SmallIds'
    BY <1>0, <1>11, CommitNumbered, RecordsBuilt DEF CommitNamed, DeleteEntity, Numbered, EntityDel
  <2>. QED  BY <1>11, <2>1, IdleNumbered DEF DeleteEntity, Done
<1>12. ASSUME NEW t \in RecordIds, NEW b \in RecordIds, NEW n \in Names,
              CreateCombo(t, b, n)
       PROVE  IdsAccounted'
  <2>1. [Figure("combo", n, NoId) EXCEPT !.top = t, !.bottom = b] \in Entity
    BY DEF Figure, Entity, Kinds
  <2>2. RowsNumbered(catalog') /\ SmallIds'
    BY <1>00, <1>02, <1>12, <2>1, RecordsBuilt DEF CreateCombo, EntityRec
  <2>. QED  BY <1>12, <2>2, IdleNumbered DEF CreateCombo, Done
<1>13. ASSUME NEW m \in Modes, SetUsbMode(m) PROVE IdsAccounted'
  <2>1. /\ [catalog EXCEPT !.usb_mode = m] \in CatalogType
        /\ RowsNumbered([catalog EXCEPT !.usb_mode = m])
    BY <1>0 DEF CatalogType, RowsNumbered
  <2>2. RowsNumbered(catalog') /\ SmallIds'
    BY <1>0, <1>13, <2>1, CommitNumbered, RecordsBuilt DEF CommitNamed, SetUsbMode, Numbered, ConfigRec
  <2>. QED  BY <1>13, <2>2, IdleNumbered DEF SetUsbMode, Done
<1>14. ASSUME NEW kind \in {"figure", "top", "bottom"}, NEW n \in Names,
              CreateFromCatalog(kind, n)
       PROVE  IdsAccounted'
  BY <1>03, <1>14, CatalogAssumption DEF CreateFromCatalog
<1>15. ASSUME NEW kind \in {"figure", "top", "bottom"}, NEW n \in Names,
              NEW parent \in RecordIds \union {NoId}, NEW img \in Images,
              Upload(kind, n, parent, img)
       PROVE  IdsAccounted'
  BY <1>0, <1>15, AppendBlobNumbered DEF Upload, FreshBlobId
<1>16. CASE AppendEntity
  <2>1. job.ent \in Entity
    BY <1>0, <1>16 DEF AppendEntity, TypeOK
  <2>2. CASE job.op = "upload"
    <3>1. RowsNumbered(catalog') /\ SmallIds'
      BY <1>00, <1>02, <1>16, <2>1, <2>2, RecordsBuilt DEF CommitNamed, AppendEntity, EntityRec
    <3>. QED  BY <1>16, <3>1, IdleNumbered DEF AppendEntity, Abort
  <2>3. CASE job.op # "upload"
    <3>1. job.id \in RecordIds /\ job.id < catalog.next_record_id
      BY <1>16, <2>3 DEF AppendEntity, TypeOK, Jobs, IdsAccounted
    <3>2. RowsNumbered(catalog') /\ SmallIds'
      BY <1>0, <1>16, <2>1, <2>3, <3>1, CommitNumbered, RecordsBuilt
         DEF CommitNamed, AppendEntity, Numbered, EntityRec
    <3>. QED  BY <1>16, <3>2, IdleNumbered DEF AppendEntity, Abort
  <2>. QED  BY <2>2, <2>3
<1>17. CASE RejectName
  <2>1. RowsNumbered(catalog') /\ SmallIds'
    BY <1>0, <1>01, <1>17, IdTaken DEF RejectName
  <2>. QED  BY <1>17, <2>1, IdleNumbered DEF RejectName, Abort
<1>18. CASE Compact
  <2>1. [NoJob EXCEPT !.op = "compact"] \in Jobs
    BY NoJobType DEF NoJob, Jobs
  <2>. QED  BY <1>0, <1>18, <2>1, StartCompactNumbered DEF Compact, NoJob
<1>19. CASE Format
  <2>1. RowsNumbered(catalog')
    BY <1>19 DEF Format, RowsNumbered, NewCatalog
  <2>2. pc' = "rewrite" /\ job'.op = "format" /\ job'.todo = {Marker}
    BY <1>19 DEF Format, NoJob
  <2>3. SmallIds'
    BY <1>19, CellKinds DEF Format, SmallIds
  <2>. QED  BY <2>1, <2>2, <2>3, NumberedIsUnused DEF IdsAccounted, Saving, Marker
<1>20. ASSUME NEW r \in job.todo, Rewrite(r) PROVE IdsAccounted'
  BY <1>20, RewriteNumbered
<1>21. ASSUME NEW i \in RecordIds, NEW img \in Images, Save(i, img)
       PROVE  IdsAccounted'
  <2>1. /\ Entities[i] \in Entity /\ i < catalog.next_record_id
        /\ catalog.next_blob_id <= MaxBlobId
    BY <1>0, <1>21 DEF Save, CatalogType, Entities, FreshBlobId, RowsNumbered
  <2>. DEFINE again == UsedPercent >= CompactPercent
              then == [NoJob EXCEPT !.op = "save", !.id = i, !.ent = Entities[i],
                         !.img = img, !.again = again]
  <2>2. again \in BOOLEAN
    BY <1>0, CatalogAssumption, StoreAssumption DEF UsedPercent, Offset, CatalogType
  <2>3. then \in Jobs
    <3>. HIDE DEF again
    <3>. QED  BY <2>1, <2>2 DEF NoJob, Jobs
  <2>4. then.id = i
    BY DEF NoJob
  <2>5. CASE AppendBlob(catalog, "save", i, Entities[i], img)
    BY <1>0, <2>1, <2>5, AppendBlobNumbered
  <2>6. CASE StartCompact(then)
    BY <1>0, <2>1, <2>3, <2>4, <2>6, StartCompactNumbered
  <2>. QED  BY <1>21, <2>5, <2>6 DEF Save
<1>22. CASE ResumeSave
  <2>1. /\ job.img \in Images /\ job.id < catalog.next_record_id
        /\ catalog.next_blob_id <= MaxBlobId
    BY <1>22 DEF ResumeSave, TypeOK, Jobs, Saving, FreshBlobId, IdsAccounted
  <2>2. CASE AppendBlob(catalog, "save", job.id, job.ent, job.img)
    BY <1>0, <2>1, <2>2, AppendBlobNumbered
  <2>3. CASE StartCompact([job EXCEPT !.again = FALSE])
    BY <1>0, <2>1, <2>3, StartCompactNumbered DEF TypeOK, Jobs
  <2>4. CASE Abort /\ UNCHANGED <<flash, catalog>>
    BY <1>0, <1>01, <2>4, IdleNumbered DEF Abort
  <2>. QED  BY <1>22, <2>2, <2>3, <2>4 DEF ResumeSave
<1>23. ASSUME Reboot, \A p \in Cells : flash'[p] \in {flash[p], Erased, Torn}
       PROVE  IdsAccounted'
  <2>1. RowsNumbered(catalog')
    BY <1>23 DEF Reboot, RowsNumbered, NewCatalog
  <2>. QED  BY <1>0, <1>23, <2>1, SmallIdsKept, IdleNumbered DEF Reboot
<1>24. CASE UNCHANGED vars
  BY <1>24 DEF vars, IdsAccounted, NewIdsAreUnused, SmallIds, Saving, Entities, Identities
<1>25. CASE PowerCut \/ TornWrite
  BY <1>23, <1>25 DEF PowerCut, TornWrite
<1>26. CASE EraseCut
  BY <1>23, <1>26 DEF EraseCut, PartlyErased
<1>27. CASE EraseFails
  BY <1>0, <1>27, SmallIdsKept, IdleNumbered DEF EraseFails, PartlyErased, Abort
<1>. QED
  BY <1>1, <1>2, <1>3, <1>4, <1>5, <1>6, <1>7, <1>8, <1>9, <1>10, <1>11, <1>12,
     <1>13, <1>14, <1>15, <1>16, <1>17, <1>18, <1>19, <1>20, <1>21, <1>22,
     <1>24, <1>25, <1>26, <1>27, StoreAssumption DEF Next

LEMMA IdsAlways == Spec /\ [][~CounterWraps]_vars => [](TypeOK /\ IdsAccounted)
<1>1. Init => TypeOK /\ IdsAccounted
  BY TypeInit, IdsInit
<1>2. TypeOK /\ IdsAccounted /\ [Next]_vars /\ [~CounterWraps]_vars
        => (TypeOK /\ IdsAccounted)'
  <2>1. UNCHANGED vars => ~CounterWraps
    BY CatalogAssumption DEF vars, CounterWraps
  <2>. QED  BY <2>1, TypeNext, IdsNext
<1>. QED  BY <1>1, <1>2, PTL DEF Spec

\* Until the counter of record ids comes round (u32 in the code, and a client
\* who deletes the largest id brings it about with the next boot), whatever is
\* replayed, compacted or cut off by a power failure, the next id is never the
\* id of a row that is still there.
THEOREM NewIdsNeverCollide == Spec /\ [][~CounterWraps]_vars => []NewIdsAreUnused
<1>1. IdsAccounted => NewIdsAreUnused
  BY DEF IdsAccounted
<1>. QED  BY <1>1, IdsAlways, PTL


-----------------------------------------------------------------------------
(***************************************************************************)
(* A restart brings back the library users were shown.                     *)
(*                                                                         *)
(* To the journal every step of Store is one of five things: a record is   *)
(* appended, or replayed, at its end; nothing of it changes; the scan is   *)
(* broken off at a torn record, or at a full table; or flash and catalog   *)
(* start over.  The invariants are proved from this classification.        *)
(***************************************************************************)

\* The two defects the runs torn_tail and table_full show, and an erase that
\* fails or is cut short, are what the theorems below exclude.
WholeErases == {"erase", "eraseError"} \intersect Faults = {}
WholeWrites == "tear" \notin Faults

\* An operation appends a record and then finds its table full: it is answered
\* Full, with the record in the journal.
RefusedAsFull ==
  /\ pc \notin {"scan", "rewrite"} /\ Offset < Cap /\ Offset' = Offset + 1
  /\ flash'[Offset] \in Records /\ TableFull(catalog, flash'[Offset])

(***************************************************************************)
(* The kinds of steps.                                                     *)
(***************************************************************************)
SameRows ==
  /\ catalog'.entities = catalog.entities
  /\ catalog'.identities = catalog.identities
  /\ catalog'.blobs = catalog.blobs
  /\ catalog'.write_offset = catalog.write_offset

\* c is the catalog, counters apart, and the mode that r is about to record.
Precedes(c, r) ==
  /\ SameTables(c) /\ c.needs_format = catalog.needs_format
  /\ c.usb_mode = catalog.usb_mode \/ r = ConfigRec(c.usb_mode)

Appends(c, r) ==
  /\ Precedes(c, r) /\ Offset < Cap
  /\ catalog' = Applied(c, r)
  /\ flash' = [flash EXCEPT ![Offset] = r]
  /\ \/ /\ pc = "scan" /\ pc' = "scan" /\ flash' = flash
        /\ ~TableFull(catalog, r)
     \/ /\ pc # "scan" /\ pc' # "scan"
        /\ Writable(catalog) /\ flash[Offset] \in {Erased, r}
        /\ pc = "rewrite" => r \in job.todo

\* Nothing is written, or a cell that was not erased is spoilt.
Keeps ==
  /\ SameRows /\ catalog'.needs_format = catalog.needs_format
  /\ \/ catalog'.usb_mode = catalog.usb_mode
     \/ ~Writable(catalog)
     \/ flash[Offset] # Erased
  /\ \/ flash' = flash
     \/ /\ pc # "scan" /\ Writable(catalog) /\ flash[Offset] # Erased
        /\ flash' = [flash EXCEPT ![Offset] = Torn]
  /\ pc' # "scan"
  /\ pc = "scan" => flash' = flash /\ (Offset < Cap => flash[Offset] = Erased)

ScanFull ==
  /\ pc = "scan" /\ pc' = "idle" /\ flash' = flash
  /\ SameRows /\ catalog'.needs_format
  /\ Offset \in Cells /\ flash[Offset] \in Records /\ TableFull(catalog, flash[Offset])

Tears ==
  /\ pc # "scan" /\ Writable(catalog) /\ "tear" \in Faults
  /\ \E cells \in {{Offset}, {Offset, Offset + 1}} :
       flash' = [p \in Cells |-> IF p \in cells THEN Torn ELSE flash[p]]

StartsOver ==
  /\ catalog'.entities = NewCatalog.entities
  /\ catalog'.identities = NewCatalog.identities
  /\ catalog'.blobs = NewCatalog.blobs
  /\ catalog'.write_offset = 0
  /\ catalog'.usb_mode = "skylanders"
  /\ ~catalog'.needs_format
  /\ \/ pc' = "scan" /\ (flash' = flash \/ Tears)
     \/ pc' = "rewrite" /\ flash' = [p \in Cells |-> Erased]

JournalStep ==
  \/ \E c \in CatalogType, r \in Records : Appends(c, r)
  \/ Keeps \/ ScanFull \/ ScanCorrupt \/ StartsOver

-----------------------------------------------------------------------------
\* An append of the operations, and its refusal.
LEMMA CommitKind ==
  ASSUME TypeOK, pc # "scan", pc' # "scan", NEW c \in CatalogType,
         NEW r \in Records, Precedes(c, r), Commit(c, r), pc = "rewrite" => r \in job.todo
  PROVE  JournalStep
<1>0. Offset = c.write_offset /\ (Writable(c) <=> Writable(catalog))
  BY DEF Precedes, SameTables, Offset, Writable
<1>1. CASE Written(c, r) /\ catalog' = Applied(c, r)
  <2>1. Appends(c, r)
    BY <1>0, <1>1 DEF Appends, Written, Writable
  <2>. QED  BY <2>1 DEF JournalStep
<1>2. CASE Refused(c) /\ catalog' = c
  <2>1. SameRows /\ catalog'.needs_format = catalog.needs_format
    BY <1>2 DEF SameRows, Precedes, SameTables
  <2>2. Keeps
    BY <1>0, <1>2, <2>1 DEF Keeps, Refused, Precedes, ConfigRec
  <2>. QED  BY <2>2 DEF JournalStep
<1>. QED  BY <1>1, <1>2 DEF Commit

LEMMA CommitNamedKind ==
  ASSUME TypeOK, pc # "scan", pc' # "scan", NEW c \in CatalogType,
         NEW r \in Records, Precedes(c, r), c.usb_mode = catalog.usb_mode,
         pc = "idle", CommitNamed(c, r)
  PROVE  JournalStep
<1>1. CASE Commit(c, r)
  BY <1>1, CommitKind
<1>2. CASE catalog' = c /\ UNCHANGED flash
  BY <1>2 DEF JournalStep, Keeps, SameRows, Precedes, SameTables
<1>. QED  BY <1>1, <1>2 DEF CommitNamed

LEMMA AppendBlobKind ==
  ASSUME TypeOK, pc \notin {"scan", "rewrite"}, NEW c \in CatalogType, SameTables(c),
         c.needs_format = catalog.needs_format, c.usb_mode = catalog.usb_mode,
         c.next_blob_id <= MaxBlobId, NEW op, NEW id, NEW e,
         NEW img \in Images, AppendBlob(c, op, id, e, img)
  PROVE  JournalStep
<1>. DEFINE d == NewBlobId(c)
            r == BlobRec(c.next_blob_id, img)
<1>1. /\ r \in Records /\ d \in CatalogType /\ Precedes(d, r)
  <2>1. c.next_blob_id \in BlobIds
    BY CatalogAssumption DEF CatalogType, BlobIds
  <2>2. r \in Records /\ d \in CatalogType
    BY <2>1, RecordsBuilt, CountersType
  <2>3. Precedes(d, r)
    BY DEF Precedes, NewBlobId, SameTables, CatalogType
  <2>. QED  BY <2>2, <2>3
<1>2. pc' # "scan" /\ Commit(d, r)
  BY DEF AppendBlob, Abort, Commit
<1>. QED  BY <1>1, <1>2, CommitKind

LEMMA StartCompactKind ==
  ASSUME NEW then, StartCompact(then)
  PROVE  JournalStep
  BY DEF StartCompact, JournalStep, StartsOver, NewCatalog

\* Every step of Store but an erase that fails or is cut short is a step of one
\* of these kinds.
LEMMA StepKindOrCut ==
  ASSUME TypeOK, [Next]_vars
  PROVE  JournalStep \/ EraseCut \/ EraseFails \/ UNCHANGED vars
<1>0. /\ catalog \in CatalogType /\ Offset \in 0 .. Cap /\ Cap \in Nat
      /\ catalog.write_offset = Offset
      /\ job.todo \subseteq Records
      /\ flash \in [Cells -> Records \union {Erased, Torn}]
  BY CatalogAssumption DEF TypeOK, Jobs, CatalogType, Offset
<1>00. /\ catalog.next_record_id \in RecordIds
       /\ NewRecordId(catalog) \in CatalogType
       /\ NewRecordId(catalog).next_blob_id = catalog.next_blob_id
       /\ NewRecordId(catalog).usb_mode = catalog.usb_mode
       /\ NewRecordId(catalog).needs_format = catalog.needs_format
       /\ SameTables(NewRecordId(catalog))
       /\ \A r \in Records : Precedes(NewRecordId(catalog), r)
  BY <1>0, FreshIds DEF NewRecordId, SameTables, Precedes, CatalogType
<1>000. SameTables(catalog) /\ \A r \in Records : Precedes(catalog, r)
  BY DEF SameTables, Precedes
<1>1. CASE ScanEnd
  BY <1>1 DEF ScanEnd, JournalStep, Keeps, SameRows
<1>2. CASE ScanCorrupt
  BY <1>2 DEF JournalStep
<1>3. CASE ScanRecord
  <2>. DEFINE r == flash[Offset]
              seen == Observed(catalog, r)
  <2>1. r \in Records /\ Offset < Cap /\ flash' = flash /\ Offset \in Cells
        /\ pc = "scan"
    BY <1>0, <1>3 DEF ScanRecord, Cells
  <2>2. seen \in CatalogType /\ SameTables(seen)
    BY <1>0, <2>1, ObservedType DEF SameTables
  <2>3. Precedes(seen, r)
    BY <1>0, <2>1, <2>2, RecordShape DEF Precedes, Observed, CatalogType
  <2>4. CASE /\ TableFull(catalog, r) /\ pc' = "idle"
             /\ catalog' = [seen EXCEPT !.needs_format = TRUE]
    <3>1. SameRows /\ catalog'.needs_format
      BY <2>2, <2>4 DEF SameRows, SameTables, CatalogType
    <3>. QED  BY <2>1, <2>4, <3>1 DEF JournalStep, ScanFull
  <2>5. CASE ~TableFull(catalog, r) /\ catalog' = Applied(seen, r) /\ pc' = "scan"
    <3>1. flash' = [flash EXCEPT ![Offset] = r]
      BY <1>0, <2>1
    <3>2. Appends(seen, r)
      BY <2>1, <2>3, <2>5, <3>1 DEF Appends
    <3>. QED  BY <2>1, <2>2, <3>2 DEF JournalStep
  <2>. QED  BY <1>3, <2>4, <2>5 DEF ScanRecord
<1>4. ASSUME NEW n \in Names, CreateIdentity(n) PROVE JournalStep
  BY <1>00, <1>4, CommitNamedKind, RecordsBuilt DEF CreateIdentity, Idle, Done
<1>5. ASSUME NEW n \in Names, CreateStatic(n) PROVE JournalStep
  BY <1>00, <1>5, CommitNamedKind, RecordsBuilt, FigureType DEF CreateStatic, Idle, Done
<1>6. ASSUME NEW i \in RecordIds, NEW n \in Names, RenameIdentity(i, n)
      PROVE  JournalStep
  BY <1>0, <1>000, <1>6, CommitKind, RecordsBuilt DEF RenameIdentity, Idle, Done
<1>7. ASSUME NEW i \in RecordIds, NEW n \in Names, RenameEntity(i, n)
      PROVE  JournalStep
  <2>1. [Entities[i] EXCEPT !.name = n] \in Entity
    BY <1>0, <1>7 DEF RenameEntity, CatalogType, Entities, Entity
  <2>. QED  BY <1>0, <1>000, <1>7, <2>1, CommitKind, RecordsBuilt
            DEF RenameEntity, Idle, Done
<1>8. ASSUME NEW i \in RecordIds, NEW n \in Names, CreateFromIdentity(i, n)
      PROVE  JournalStep
  BY <1>00, <1>8, AppendBlobKind, CatalogAssumption
     DEF CreateFromIdentity, FreshBlobId, Idle
<1>9. ASSUME NEW i \in RecordIds, NEW n \in Names, CloneEntity(i, n)
      PROVE  JournalStep
  <2>1. Entities[i] \in Entity /\ FreshRecordId /\ FreshBlobId /\ pc = "idle"
    BY <1>0, <1>9 DEF CloneEntity, CatalogType, Entities, Idle
  <2>2. CASE ReadImage(Entities[i]) = Absent
    BY <1>0, <1>00, <1>9, <2>1, <2>2
       DEF CloneEntity, SameTables, JournalStep, Keeps, SameRows
  <2>3. CASE ReadImage(Entities[i]) # Absent
    BY <1>0, <1>00, <1>9, <2>1, <2>3, AppendBlobKind, ReadImageType
       DEF CloneEntity, FreshBlobId
  <2>. QED  BY <2>2, <2>3
<1>10. ASSUME NEW i \in RecordIds, DeleteIdentity(i) PROVE JournalStep
  BY <1>0, <1>000, <1>10, CommitKind, RecordsBuilt DEF DeleteIdentity, Idle, Done
<1>11. ASSUME NEW i \in RecordIds, DeleteEntity(i) PROVE JournalStep
  BY <1>0, <1>000, <1>11, CommitKind, RecordsBuilt DEF DeleteEntity, Idle, Done
<1>12. ASSUME NEW t \in RecordIds, NEW b \in RecordIds, NEW n \in Names,
              CreateCombo(t, b, n)
       PROVE  JournalStep
  <2>1. [Figure("combo", n, NoId) EXCEPT !.top = t, !.bottom = b] \in Entity
    BY DEF Figure, Entity, Kinds
  <2>. QED  BY <1>00, <1>12, <2>1, CommitNamedKind, RecordsBuilt
            DEF CreateCombo, Idle, Done
<1>13. ASSUME NEW m \in Modes, SetUsbMode(m) PROVE JournalStep
  <2>1. /\ [catalog EXCEPT !.usb_mode = m] \in CatalogType
        /\ Precedes([catalog EXCEPT !.usb_mode = m], ConfigRec(m))
    BY <1>0 DEF CatalogType, SameTables, Precedes
  <2>. QED  BY <1>13, <2>1, CommitKind, RecordsBuilt DEF SetUsbMode, Idle, Done
<1>14. ASSUME NEW kind \in {"figure", "top", "bottom"}, NEW n \in Names,
              CreateFromCatalog(kind, n)
       PROVE  JournalStep
  BY <1>00, <1>14, AppendBlobKind, CatalogAssumption
     DEF CreateFromCatalog, FreshBlobId, Idle
<1>15. ASSUME NEW kind \in {"figure", "top", "bottom"}, NEW n \in Names,
              NEW parent \in RecordIds \union {NoId}, NEW img \in Images,
              Upload(kind, n, parent, img)
       PROVE  JournalStep
  BY <1>0, <1>000, <1>15, AppendBlobKind DEF Upload, FreshBlobId, Idle
<1>16. CASE AppendEntity
  <2>1. job.ent \in Entity /\ pc = "entity" /\ pc' = "idle"
    BY <1>16 DEF AppendEntity, TypeOK, Jobs, Abort
  <2>2. CASE job.op = "upload"
    BY <1>00, <1>16, <2>1, <2>2, CommitKind, RecordsBuilt DEF AppendEntity, TypeOK
  <2>3. CASE job.op # "upload"
    <3>1. job.id \in RecordIds
      BY <1>16, <2>3 DEF AppendEntity, TypeOK, Jobs
    <3>. QED  BY <1>0, <1>000, <1>16, <2>1, <2>3, <3>1, CommitKind, RecordsBuilt
              DEF AppendEntity
  <2>. QED  BY <2>2, <2>3
<1>17. CASE RejectName
  <2>1. SameRows /\ catalog'.needs_format = catalog.needs_format
        /\ catalog'.usb_mode = catalog.usb_mode
    BY <1>0, <1>17 DEF RejectName, NewRecordId, CatalogType, SameRows
  <2>. QED  BY <1>17, <2>1 DEF RejectName, Abort, JournalStep, Keeps
<1>18. CASE Compact
  BY <1>18, StartCompactKind DEF Compact
<1>19. CASE Format
  BY <1>19 DEF Format, JournalStep, StartsOver, NewCatalog
<1>20. ASSUME NEW r \in job.todo, Rewrite(r) PROVE JournalStep
  <2>. DEFINE c == IF r.type = "config" THEN [catalog EXCEPT !.usb_mode = r.mode]
                   ELSE catalog
  <2>1. r \in Records /\ c \in CatalogType
    BY <1>0, <1>20, RecordShape DEF CatalogType
  <2>2. r.type = "config" => r = ConfigRec(r.mode)
    BY <2>1 DEF Records, BlobRecords, BlobRec, EntityRec, EntityDel, IdentityRec,
                IdentityDel, ConfigRec, Marker
  <2>3. Precedes(c, r)
    BY <1>0, <2>2 DEF Precedes, SameTables, CatalogType
  <2>4. pc = "rewrite" /\ pc' # "scan" /\ Commit(c, r)
    BY <1>20 DEF Rewrite, Commit, Abort
  <2>. QED  BY <2>1, <2>3, <2>4, CommitKind
<1>21. ASSUME NEW i \in RecordIds, NEW img \in Images, Save(i, img)
       PROVE  JournalStep
  <2>1. catalog.next_blob_id <= MaxBlobId /\ pc = "idle"
    BY <1>21 DEF Save, FreshBlobId, Idle
  <2>. QED  BY <1>0, <1>000, <1>21, <2>1, AppendBlobKind, StartCompactKind DEF Save
<1>22. CASE ResumeSave
  <2>1. job.img \in Images /\ catalog.next_blob_id <= MaxBlobId /\ pc = "resume"
    BY <1>22 DEF ResumeSave, TypeOK, Jobs, Saving, FreshBlobId
  <2>2. CASE AppendBlob(catalog, "save", job.id, job.ent, job.img)
    BY <1>0, <1>000, <2>1, <2>2, AppendBlobKind
  <2>3. CASE StartCompact([job EXCEPT !.again = FALSE])
    BY <2>3, StartCompactKind
  <2>4. CASE Abort /\ UNCHANGED <<flash, catalog>>
    BY <2>1, <2>4 DEF Abort, JournalStep, Keeps, SameRows
  <2>. QED  BY <1>22, <2>2, <2>3, <2>4 DEF ResumeSave
<1>23. CASE PowerCut
  BY <1>23 DEF PowerCut, Reboot, JournalStep, StartsOver, NewCatalog
<1>24. CASE TornWrite
  BY <1>24 DEF TornWrite, Reboot, JournalStep, StartsOver, NewCatalog, Tears
<1>. QED
  BY <1>1, <1>2, <1>3, <1>4, <1>5, <1>6, <1>7, <1>8, <1>9, <1>10, <1>11, <1>12,
     <1>13, <1>14, <1>15, <1>16, <1>17, <1>18, <1>19, <1>20, <1>21, <1>22,
     <1>23, <1>24, StoreAssumption DEF Next

LEMMA StepKind ==
  ASSUME TypeOK, WholeErases, [Next]_vars
  PROVE  (JournalStep \/ UNCHANGED vars) /\ ~EraseFails
  BY StepKindOrCut DEF EraseCut, EraseFails, WholeErases

-----------------------------------------------------------------------------
(***************************************************************************)
(* The catalog in RAM and the journal.                                     *)
(***************************************************************************)
\* No append fills the hole that a failed erase leaves: it stays until flash
\* and catalog start over.
LEMMA HoledNext ==
  TypeOK /\ Holed /\ [Next]_vars => (Holed \/ RowsBacked)'
<1>. SUFFICES ASSUME TypeOK, Holed, [Next]_vars PROVE Holed' \/ RowsBacked'
  OBVIOUS
<1>0. /\ Offset \in 1 .. Cap /\ Cap \in Nat /\ catalog.write_offset = Offset
      /\ 0 \in Cells /\ flash[0] = Erased /\ flash \in [Cells -> Records \union {Erased, Torn}]
  BY CatalogAssumption DEF TypeOK, CatalogType, Offset, Holed, Cells
<1>1. ASSUME NEW c \in CatalogType, NEW r \in Records, Appends(c, r) PROVE Holed'
  <2>1. catalog'.write_offset = Offset + 1
    BY <1>0, <1>1, RecordShape
       DEF Appends, Precedes, SameTables, Applied, Tables, CatalogType
  <2>2. flash'[0] = Erased
    BY <1>0, <1>1 DEF Appends
  <2>. QED  BY <1>0, <2>1, <2>2 DEF Holed, Offset
<1>2. CASE Keeps
  <2>1. flash'[0] = Erased
    BY <1>0, <1>2 DEF Keeps
  <2>. QED  BY <1>0, <1>2, <2>1 DEF Keeps, SameRows, Holed, Offset
<1>3. CASE ScanFull \/ UNCHANGED vars
  BY <1>3 DEF ScanFull, SameRows, vars, Holed, Offset
<1>4. CASE ScanCorrupt
  <2>1. Offset \in Cells
    BY <1>0, <1>4 DEF ScanCorrupt, Cells
  <2>2. catalog'.write_offset = NextSector(Offset) /\ flash' = flash
    BY <1>0, <1>4 DEF ScanCorrupt, TypeOK, CatalogType
  <2>. QED  BY <1>0, <2>1, <2>2, NextSectorBounds DEF Holed, Offset
<1>5. CASE StartsOver
  BY <1>5, RowsOfNone DEF StartsOver, NewCatalog
<1>6. CASE EraseCut
  BY <1>6, RowsOfNone DEF EraseCut, Reboot
<1>7. CASE EraseFails
  <2>1. flash'[0] = Erased
    BY <1>0, <1>7 DEF EraseFails, PartlyErased
  <2>. QED  BY <1>0, <1>7, <2>1 DEF EraseFails, Holed, Offset
<1>. QED  BY <1>1, <1>2, <1>3, <1>4, <1>5, <1>6, <1>7, StepKindOrCut DEF JournalStep

LEMMA EraseFailsHoles ==
  TypeOK /\ RowsBacked /\ EraseFails => (Holed \/ RowsBacked)'
<1>. SUFFICES ASSUME TypeOK, RowsBacked, EraseFails PROVE Holed' \/ RowsBacked'
  OBVIOUS
<1>1. PICK k \in 0 .. Cap \div Sector :
        flash' = [p \in Cells |-> IF p < k * Sector THEN Erased ELSE flash[p]]
  BY DEF EraseFails, PartlyErased
<1>2. /\ catalog' = catalog /\ Offset \in Nat /\ 0 \in Cells
      /\ k \in Nat /\ Sector \in Nat \ {0}
  BY <1>1, CatalogAssumption, StoreAssumption
     DEF EraseFails, TypeOK, CatalogType, Offset, Cells
<1>3. CASE Offset > 0 /\ k > 0
  <2>1. k * Sector > 0
    BY <1>2, <1>3
  <2>2. flash'[0] = Erased
    BY <1>1, <1>2, <2>1
  <2>. QED  BY <1>2, <1>3, <2>2 DEF Holed, Offset
<1>4. CASE k = 0 \/ Offset = 0
  <2>1. ASSUME NEW p \in Cells, p < Offset PROVE flash'[p] = flash[p]
    <3>1. p \in Nat /\ ~(p < 0)
      BY CatalogAssumption DEF Cells
    <3>2. k = 0
      BY <1>4, <2>1, <3>1
    <3>3. k * Sector = 0
      BY <1>2, <3>2
    <3>. QED  BY <1>1, <3>1, <3>3
  <2>. QED  BY <1>2, <2>1, RowsKept DEF Offset
<1>. QED  BY <1>2, <1>3, <1>4

\* Whatever power failures happen, torn writes and half-done erases included,
\* every figure, identity and blob the firmware shows is backed by an intact
\* record of this very content before the append position; after an erase that
\* failed, this is so again once the catalog starts over.
THEOREM CatalogIsJournalled == Spec => []RowsJournalled
<1>1. Init => TypeOK /\ RowsJournalled
  BY TypeInit, RowsInit DEF RowsJournalled
<1>2. TypeOK /\ RowsJournalled /\ [Next]_vars => (TypeOK /\ RowsJournalled)'
  BY TypeNext, RowsNext, HoledNext, EraseFailsHoles DEF RowsJournalled
<1>. QED  BY <1>1, <1>2, PTL DEF Spec

\* Where no erase fails or is cut short the catalog is never ahead of flash.
LEMMA RowsAlways ==
  ASSUME WholeErases
  PROVE  Spec => [](TypeOK /\ RowsBacked)
<1>1. Init => TypeOK /\ RowsBacked
  BY TypeInit, RowsInit
<1>2. TypeOK /\ RowsBacked /\ [Next]_vars => (TypeOK /\ RowsBacked)'
  BY TypeNext, RowsNext, StepKind
<1>. QED  BY <1>1, <1>2, PTL DEF Spec

(***************************************************************************)
(* Tables.                                                                 *)
(***************************************************************************)
Rows(table) == {i \in DOMAIN table : table[i] # Absent}

TablesFit ==
  /\ Cardinality(Rows(Entities)) <= MaxEntities
  /\ Cardinality(Rows(Identities)) <= MaxIdentities
  /\ Cardinality(Rows(catalog.blobs)) <= MaxEntities

LEMMA RowsFinite ==
  ASSUME NEW I, IsFiniteSet(I), NEW T, NEW table \in [I -> T]
  PROVE  /\ IsFiniteSet(Rows(table)) /\ Cardinality(Rows(table)) \in Nat
         /\ \A S \in SUBSET Rows(table) :
              IsFiniteSet(S) /\ Cardinality(S) <= Cardinality(Rows(table))
<1>1. Rows(table) \in SUBSET I
  BY DEF Rows
<1>2. IsFiniteSet(Rows(table))
  BY <1>1, FS_Subset
<1>. QED  BY <1>2, FS_CardinalityType, FS_Subset

LEMMA IdsFinite == IsFiniteSet(RecordIds) /\ IsFiniteSet(BlobIds)
  BY FS_Interval, CatalogAssumption DEF RecordIds, BlobIds

\* An upsert never makes a table larger than it may be.
LEMMA PutFits ==
  ASSUME NEW I, IsFiniteSet(I), NEW T, NEW table \in [I -> T], NEW id \in I,
         NEW row, row # Absent, NEW max \in Nat, Cardinality(Rows(table)) <= max
  PROVE  Cardinality(Rows(Put(table, id, row, max))) <= max
<1>. DEFINE new == [table EXCEPT ![id] = row]
<1>1. Rows(new) = Rows(table) \union {id}
  BY DEF Rows
<1>2. IsFiniteSet(Rows(table)) /\ Cardinality(Rows(table)) \in Nat
  BY RowsFinite
<1>3. CASE id \in Rows(table)
  <2>1. Rows(new) = Rows(table)
    BY <1>1, <1>3
  <2>. QED  BY <2>1 DEF Put
<1>4. CASE id \notin Rows(table) /\ Cardinality(Rows(table)) < max
  <2>1. Cardinality(Rows(new)) = Cardinality(Rows(table)) + 1
    BY <1>1, <1>2, <1>4, FS_AddElement
  <2>2. Cardinality(Rows(new)) <= max
    BY <1>2, <1>4, <2>1
  <2>. QED  BY <2>2 DEF Put
<1>5. CASE id \notin Rows(table) /\ ~(Cardinality(Rows(table)) < max)
  <2>1. ~HasRoom(table, id, max)
    BY <1>5 DEF HasRoom, Rows
  <2>. QED  BY <2>1 DEF Put
<1>. QED  BY <1>3, <1>4, <1>5

LEMMA DeleteFits ==
  ASSUME NEW I, IsFiniteSet(I), NEW T, NEW table \in [I -> T], NEW id \in I,
         NEW max \in Nat, Cardinality(Rows(table)) <= max
  PROVE  Cardinality(Rows([table EXCEPT ![id] = Absent])) <= max
<1>. DEFINE new == [table EXCEPT ![id] = Absent]
<1>1. Rows(new) \in SUBSET Rows(table) /\ new \in [I -> T \union {Absent}]
  BY DEF Rows
<1>2. /\ Cardinality(Rows(new)) <= Cardinality(Rows(table))
      /\ Cardinality(Rows(new)) \in Nat /\ Cardinality(Rows(table)) \in Nat
  BY <1>1, RowsFinite
<1>. QED  BY <1>2

LEMMA AppliedFits ==
  ASSUME TypeOK, TablesFit, NEW c \in CatalogType, SameTables(c), NEW r \in Records
  PROVE  /\ Cardinality(Rows(Applied(c, r).entities)) <= MaxEntities
         /\ Cardinality(Rows(Applied(c, r).identities)) <= MaxIdentities
         /\ Offset < Cap => Cardinality(Rows(Applied(c, r).blobs)) <= MaxEntities
<1>. DEFINE d == Applied(c, r)
<1>0. /\ c.entities \in [RecordIds -> Entity \union {Absent}]
      /\ c.identities \in [RecordIds -> Names \union {Absent}]
      /\ c.blobs \in [BlobIds -> StoredBlob \union {Absent}]
      /\ IsFiniteSet(RecordIds) /\ IsFiniteSet(BlobIds)
      /\ MaxEntities \in Nat /\ MaxIdentities \in Nat
  BY CatalogAssumption, IdsFinite DEF CatalogType
<1>1. /\ Cardinality(Rows(c.entities)) <= MaxEntities
      /\ Cardinality(Rows(c.identities)) <= MaxIdentities
      /\ Cardinality(Rows(c.blobs)) <= MaxEntities
      /\ c.write_offset = Offset
  BY DEF TablesFit, SameTables, Entities, Identities, Offset
<1>2. Cardinality(Rows(d.entities)) <= MaxEntities
  <2>1. CASE r.type = "entity"
    <3>1. /\ r.id \in RecordIds /\ r.entity # Absent
          /\ d.entities = Put(c.entities, r.id, r.entity, MaxEntities)
      BY <2>1, RecordShape, AbsentAssumption DEF Applied, Tables, CatalogType
    <3>. QED  BY <1>0, <1>1, <3>1, PutFits
  <2>2. CASE r.type = "entityDel"
    <3>1. /\ r.id \in RecordIds
          /\ d.entities = [c.entities EXCEPT ![r.id] = Absent]
      BY <2>2, RecordShape DEF Applied, Tables, CatalogType
    <3>. QED  BY <1>0, <1>1, <3>1, DeleteFits
  <2>3. CASE r.type \notin {"entity", "entityDel"}
    <3>1. d.entities = c.entities
      BY <2>3, RecordShape DEF Applied, Tables, CatalogType
    <3>. QED  BY <1>1, <3>1
  <2>. QED  BY <2>1, <2>2, <2>3
<1>3. Cardinality(Rows(d.identities)) <= MaxIdentities
  <2>1. CASE r.type = "identity"
    <3>1. /\ r.id \in RecordIds /\ r.name # Absent
          /\ d.identities = Put(c.identities, r.id, r.name, MaxIdentities)
      BY <2>1, RecordShape, AbsentAssumption DEF Applied, Tables, CatalogType
    <3>. QED  BY <1>0, <1>1, <3>1, PutFits
  <2>2. CASE r.type = "identityDel"
    <3>1. /\ r.id \in RecordIds
          /\ d.identities = [c.identities EXCEPT ![r.id] = Absent]
      BY <2>2, RecordShape DEF Applied, Tables, CatalogType
    <3>. QED  BY <1>0, <1>1, <3>1, DeleteFits
  <2>3. CASE r.type \notin {"identity", "identityDel"}
    <3>1. d.identities = c.identities
      BY <2>3, RecordShape DEF Applied, Tables, CatalogType
    <3>. QED  BY <1>1, <3>1
  <2>. QED  BY <2>1, <2>2, <2>3
<1>4. ASSUME Offset < Cap PROVE Cardinality(Rows(d.blobs)) <= MaxEntities
  <2>1. CASE r.type = "blob"
    <3>. DEFINE row == [offset |-> Offset, crc |-> r.img]
    <3>1. /\ r.id \in BlobIds /\ r.img \in Images
          /\ d.blobs = Put(c.blobs, r.id, row, MaxEntities)
      BY <1>1, <2>1, RecordShape DEF Applied, Tables, CatalogType
    <3>2. row \in StoredBlob
      BY <1>4, <3>1, CatalogAssumption DEF StoredBlob, Cells, TypeOK, CatalogType, Offset
    <3>3. row # Absent
      BY <3>2, AbsentAssumption
    <3>. QED  BY <1>0, <1>1, <3>1, <3>3, PutFits
  <2>2. CASE r.type # "blob"
    <3>1. d.blobs = c.blobs
      BY <2>2, RecordShape DEF Applied, Tables, CatalogType
    <3>. QED  BY <1>1, <3>1
  <2>. QED  BY <2>1, <2>2
<1>. QED  BY <1>2, <1>3, <1>4

LEMMA NoRowsFit ==
  ASSUME catalog'.entities = NewCatalog.entities,
         catalog'.identities = NewCatalog.identities,
         catalog'.blobs = NewCatalog.blobs
  PROVE  TablesFit'
<1>1. Rows(Entities') = {} /\ Rows(Identities') = {} /\ Rows(catalog'.blobs) = {}
  BY DEF Rows, NewCatalog, Entities, Identities
<1>2. MaxEntities \in Nat /\ MaxIdentities \in Nat
  BY CatalogAssumption
<1>. QED  BY <1>1, <1>2, FS_EmptySet DEF TablesFit, Entities, Identities

LEMMA TablesInit == Init => TablesFit
<1>. SUFFICES ASSUME Init PROVE TablesFit
  OBVIOUS
<1>1. Rows(Entities) = {} /\ Rows(Identities) = {} /\ Rows(catalog.blobs) = {}
  BY DEF Init, Rows, NewCatalog, Entities, Identities
<1>2. MaxEntities \in Nat /\ MaxIdentities \in Nat
  BY CatalogAssumption
<1>. QED  BY <1>1, <1>2, FS_EmptySet DEF TablesFit

LEMMA TablesNext == TypeOK /\ TablesFit /\ [Next]_vars => TablesFit'
<1>. SUFFICES ASSUME TypeOK, TablesFit, [Next]_vars PROVE TablesFit'
  OBVIOUS
<1>1. ASSUME NEW c \in CatalogType, NEW r \in Records, Appends(c, r)
      PROVE  TablesFit'
  <2>1. SameTables(c) /\ Offset < Cap /\ catalog' = Applied(c, r)
    BY <1>1 DEF Appends, Precedes
  <2>. QED  BY <2>1, AppliedFits DEF TablesFit, Entities, Identities
<1>2. CASE SameRows
  BY <1>2 DEF SameRows, TablesFit, Entities, Identities
<1>3. CASE ScanCorrupt
  <2>1. SameRows \/ /\ catalog'.entities = catalog.entities
                    /\ catalog'.identities = catalog.identities
                    /\ catalog'.blobs = catalog.blobs
    BY <1>3 DEF ScanCorrupt, TypeOK, CatalogType
  <2>. QED  BY <1>2, <2>1 DEF TablesFit, Entities, Identities
<1>4. CASE StartsOver
  BY <1>4, NoRowsFit DEF StartsOver
<1>5. CASE EraseCut
  BY <1>5, NoRowsFit DEF EraseCut, Reboot
<1>6. CASE UNCHANGED vars \/ EraseFails
  BY <1>6 DEF vars, EraseFails, TablesFit, Entities, Identities
<1>. QED
  BY <1>1, <1>2, <1>3, <1>4, <1>5, <1>6, StepKindOrCut
     DEF JournalStep, Keeps, ScanFull

\* A compaction for job `then`: by itself, or so that figure then.id, or the
\* one of a save that is waiting, can be saved.
Compaction(then) ==
  /\ pc \in {"idle", "resume"} /\ StartCompact(then)
  /\ then.op = "save" =>
       \/ then.id \in RecordIds /\ then.ent = Entities[then.id]
       \/ pc = "resume" /\ then.id = job.id /\ then.ent = job.ent

\* The steps after which the region is being rewritten.
LEMMA RewriteGoesOn ==
  ASSUME TypeOK, [Next]_vars, pc' = "rewrite"
  PROVE  \/ \E r \in job.todo : Rewrite(r)
         \/ Format
         \/ \E then \in Jobs : Compaction(then)
         \/ UNCHANGED vars
<1>1. NoJob \in Jobs /\ [NoJob EXCEPT !.op = "compact"] \in Jobs
  BY NoJobType DEF Jobs, NoJob
<1>2. ASSUME Compact PROVE \E then \in Jobs : Compaction(then)
  <2>1. Compaction([NoJob EXCEPT !.op = "compact"])
    BY <1>2 DEF Compact, Compaction, Idle, NoJob
  <2>. QED  BY <1>1, <2>1
<1>3. ASSUME NEW i \in RecordIds, NEW img \in Images, Save(i, img)
      PROVE  \E then \in Jobs : Compaction(then)
  <2>. DEFINE again == UsedPercent >= CompactPercent
              then == [NoJob EXCEPT !.op = "save", !.id = i, !.ent = Entities[i],
                         !.img = img, !.again = again]
  <2>1. then \in Jobs
    <3>1. again \in BOOLEAN
      BY CatalogAssumption, StoreAssumption
         DEF UsedPercent, Offset, TypeOK, CatalogType
    <3>2. Entities[i] \in Entity \union {Absent}
      BY DEF TypeOK, CatalogType, Entities
    <3>. HIDE DEF again
    <3>. QED  BY <3>1, <3>2 DEF NoJob, Jobs
  <2>2. StartCompact(then) /\ pc = "idle"
    BY <1>3 DEF Save, AppendBlob, Abort, Idle
  <2>3. then.id = i /\ then.ent = Entities[i]
    <3>. HIDE DEF again
    <3>. QED  BY DEF NoJob
  <2>4. Compaction(then)
    BY <2>2, <2>3 DEF Compaction
  <2>. QED  BY <2>1, <2>4
<1>4. ASSUME ResumeSave PROVE \E then \in Jobs : Compaction(then)
  <2>1. [job EXCEPT !.again = FALSE] \in Jobs
    BY DEF TypeOK, Jobs
  <2>2. StartCompact([job EXCEPT !.again = FALSE]) /\ pc = "resume"
    BY <1>4 DEF ResumeSave, AppendBlob, Abort
  <2>3. Compaction([job EXCEPT !.again = FALSE])
    BY <2>2 DEF Compaction, TypeOK, Jobs
  <2>. QED  BY <2>1, <2>3
<1>. QED
  BY <1>2, <1>3, <1>4
     DEF Next, ScanEnd, ScanCorrupt, ScanRecord, CreateIdentity, CreateStatic,
         RenameIdentity, RenameEntity, CreateFromIdentity, CloneEntity,
         DeleteIdentity, DeleteEntity, CreateCombo, SetUsbMode,
         CreateFromCatalog, Upload, AppendEntity, RejectName, PowerCut,
         TornWrite, EraseCut, EraseFails, Reboot, Idle, Done, Abort, AppendBlob

(***************************************************************************)
(* No record of a compaction finds its table full.                         *)
(***************************************************************************)
RowTypes == {"entity", "identity", "blob"}

Ids(t)      == IF t = "blob" THEN BlobIds ELSE RecordIds
Limit(t)    == IF t = "identity" THEN MaxIdentities ELSE MaxEntities
Table(c, t) == CASE t = "entity"   -> c.entities
                 [] t = "identity" -> c.identities
                 [] OTHER          -> c.blobs

\* The rows of a table, and those a compaction has yet to write back to it.
Claimed(t) ==
  {i \in Ids(t) : \/ Table(catalog, t)[i] # Absent
                  \/ \E r \in job.todo : r.type = t /\ r.id = i}

RewriteRoom ==
  pc = "rewrite" => \A t \in RowTypes : Cardinality(Claimed(t)) <= Limit(t)

LEMMA TableTypes ==
  ASSUME NEW c \in CatalogType, NEW t \in RowTypes
  PROVE  /\ \E T : Table(c, t) \in [Ids(t) -> T]
         /\ Limit(t) \in Nat /\ IsFiniteSet(Ids(t))
<1>1. Limit(t) \in Nat
  BY CatalogAssumption DEF Limit
<1>2. IsFiniteSet(Ids(t))
  BY IdsFinite DEF Ids
<1>3. CASE t = "entity"
  BY <1>1, <1>2, <1>3 DEF Table, Ids, CatalogType
<1>4. CASE t = "identity"
  BY <1>1, <1>2, <1>4 DEF Table, Ids, CatalogType
<1>5. CASE t = "blob"
  BY <1>1, <1>2, <1>5 DEF Table, Ids, CatalogType
<1>. QED  BY <1>3, <1>4, <1>5 DEF RowTypes

\* A record finds its table full if it is about a new row and all are taken.
LEMMA FullTable ==
  ASSUME NEW c \in CatalogType, NEW r \in Records
  PROVE  TableFull(c, r) <=>
           /\ r.type \in RowTypes /\ r.id \notin Rows(Table(c, r.type))
           /\ ~(Cardinality(Rows(Table(c, r.type))) < Limit(r.type))
<1>1. CASE r.type \notin RowTypes
  BY <1>1 DEF TableFull, RowTypes
<1>2. CASE r.type \in RowTypes
  <2>. DEFINE t == r.type
              table == Table(c, t)
  <2>1. r.id \in DOMAIN table
    <3>1. r.id \in Ids(t)
      BY <1>2, RecordShape DEF Ids, RowTypes
    <3>. QED  BY <1>2, <3>1, TableTypes
  <2>2. TableFull(c, r) <=> ~HasRoom(table, r.id, Limit(t))
    BY <1>2 DEF TableFull, RowTypes, Table, Limit
  <2>. HIDE DEF table
  <2>3. HasRoom(table, r.id, Limit(t))
          <=> r.id \in Rows(table) \/ Cardinality(Rows(table)) < Limit(t)
    BY <2>1 DEF HasRoom, Rows
  <2>. QED  BY <1>2, <2>2, <2>3 DEF table
<1>. QED  BY <1>1, <1>2

LEMMA ClaimsFinite ==
  ASSUME TypeOK, NEW t \in RowTypes
  PROVE  IsFiniteSet(Claimed(t)) /\ Cardinality(Claimed(t)) \in Nat
<1>1. Claimed(t) \in SUBSET Ids(t)
  BY DEF Claimed
<1>. QED  BY <1>1, TableTypes, FS_Subset, FS_CardinalityType DEF TypeOK

\* The room that is claimed is there.
LEMMA RewriteFits ==
  ASSUME TypeOK, RewriteRoom, pc = "rewrite", NEW r \in job.todo, r \in Records
  PROVE  ~TableFull(catalog, r)
<1>. SUFFICES ASSUME r.type \in RowTypes, r.id \notin Rows(Table(catalog, r.type))
              PROVE  Cardinality(Rows(Table(catalog, r.type))) < Limit(r.type)
  BY FullTable DEF TypeOK
<1>. DEFINE t == r.type
            rows == Rows(Table(catalog, t))
<1>1. r.id \in Ids(t)
  BY RecordShape DEF Ids, RowTypes
<1>2. rows \in SUBSET Claimed(t) /\ r.id \in Claimed(t) \ rows
  <2>1. \E T : Table(catalog, t) \in [Ids(t) -> T]
    BY TableTypes DEF TypeOK
  <2>. QED  BY <1>1, <2>1 DEF Rows, Claimed
<1>3. /\ IsFiniteSet(Claimed(t)) /\ Cardinality(Claimed(t)) \in Nat
      /\ Cardinality(Claimed(t)) <= Limit(t) /\ Limit(t) \in Nat
  BY ClaimsFinite, TableTypes DEF RewriteRoom, TypeOK
<1>. HIDE DEF rows
<1>4. /\ IsFiniteSet(rows) /\ Cardinality(rows) \in Nat
      /\ Cardinality(rows) < Cardinality(Claimed(t))
  <2>1. IsFiniteSet(rows) /\ Cardinality(rows) <= Cardinality(Claimed(t))
    BY <1>2, <1>3, FS_Subset
  <2>2. rows # Claimed(t)
    BY <1>2
  <2>3. Cardinality(rows) = Cardinality(Claimed(t)) => rows = Claimed(t)
    BY <1>2, <1>3, FS_Subset
  <2>4. Cardinality(rows) \in Nat
    BY <2>1, FS_CardinalityType
  <2>. QED  BY <1>3, <2>1, <2>2, <2>3, <2>4
<1>. QED  BY <1>3, <1>4 DEF rows

\* No other append finds its table full, unless it is refused for that.
LEMMA AppendFits ==
  ASSUME TypeOK, RewriteRoom, ~RefusedAsFull,
         NEW c \in CatalogType, NEW r \in Records, Appends(c, r)
  PROVE  ~TableFull(catalog, r)
<1>1. CASE pc = "scan"
  BY <1>1 DEF Appends
<1>2. CASE pc = "rewrite"
  BY <1>2, RewriteFits DEF Appends
<1>3. CASE pc \notin {"scan", "rewrite"}
  <2>1. /\ Offset \in Cells /\ Offset < Cap
    BY CatalogAssumption DEF Appends, TypeOK, CatalogType, Offset, Cells
  <2>2. flash'[Offset] = r
    BY <2>1 DEF Appends, TypeOK
  <2>3. Offset' = Offset + 1
    <3>1. /\ c.write_offset = Offset /\ catalog' = Applied(c, r)
      BY DEF Appends, Precedes, SameTables, Offset
    <3>2. Applied(c, r).write_offset = c.write_offset + 1
      BY RecordShape DEF Applied, Tables, CatalogType
    <3>. QED  BY <3>1, <3>2 DEF Offset
  <2>. QED  BY <1>3, <2>1, <2>2, <2>3 DEF RefusedAsFull
<1>. QED  BY <1>1, <1>2, <1>3

\* The rows of a full table are not touched by a record that finds it full.
LEMMA RowsGrow ==
  ASSUME NEW c \in CatalogType, NEW r \in Records, NEW t \in RowTypes
  PROVE  \A i \in Ids(t) : Table(Applied(c, r), t)[i] # Absent
                             => Table(c, t)[i] # Absent \/ (r.type = t /\ r.id = i)
<1>1. CASE t = "entity"
  <2>1. Table(Applied(c, r), t) =
          CASE r.type = "entity"    -> Put(c.entities, r.id, r.entity, MaxEntities)
            [] r.type = "entityDel" -> [c.entities EXCEPT ![r.id] = Absent]
            [] OTHER -> c.entities
    BY <1>1, RecordShape DEF Table, Applied, Tables, CatalogType
  <2>2. Table(c, t) = c.entities /\ Ids(t) = RecordIds
    BY <1>1 DEF Table, Ids
  <2>. QED  BY <1>1, <2>1, <2>2 DEF Put, CatalogType
<1>2. CASE t = "identity"
  <2>1. Table(Applied(c, r), t) =
          CASE r.type = "identity"    -> Put(c.identities, r.id, r.name, MaxIdentities)
            [] r.type = "identityDel" -> [c.identities EXCEPT ![r.id] = Absent]
            [] OTHER -> c.identities
    BY <1>2, RecordShape DEF Table, Applied, Tables, CatalogType
  <2>2. Table(c, t) = c.identities /\ Ids(t) = RecordIds
    BY <1>2 DEF Table, Ids
  <2>. QED  BY <1>2, <2>1, <2>2 DEF Put, CatalogType
<1>3. CASE t = "blob"
  <2>. DEFINE row == [offset |-> c.write_offset, crc |-> r.img]
  <2>1. Table(Applied(c, r), t) =
          IF r.type = "blob" THEN Put(c.blobs, r.id, row, MaxEntities) ELSE c.blobs
    BY <1>3, RecordShape DEF Table, Applied, Tables, CatalogType
  <2>2. Table(c, t) = c.blobs /\ Ids(t) = BlobIds
    BY <1>3 DEF Table, Ids
  <2>. HIDE DEF row
  <2>. QED  BY <1>3, <2>1, <2>2 DEF Put, CatalogType
<1>. QED  BY <1>1, <1>2, <1>3 DEF RowTypes

LEMMA RoomInit == Init => RewriteRoom
  BY DEF Init, RewriteRoom

\* What a compaction claims was in the tables when it began.
LEMMA RoomNext == TypeOK /\ TablesFit /\ RewriteRoom /\ [Next]_vars => RewriteRoom'
<1>. SUFFICES ASSUME TypeOK, TablesFit, RewriteRoom, [Next]_vars, pc' = "rewrite",
                     NEW t \in RowTypes
              PROVE  Cardinality(Claimed(t)') <= Limit(t)
  BY DEF RewriteRoom
<1>0. Limit(t) \in Nat /\ \E T : Table(catalog, t) \in [Ids(t) -> T]
  BY TableTypes DEF TypeOK
<1>1. ASSUME NEW S, IsFiniteSet(S), Cardinality(S) <= Limit(t), Claimed(t)' \in SUBSET S
      PROVE  Cardinality(Claimed(t)') <= Limit(t)
  <2>1. /\ IsFiniteSet(Claimed(t)') /\ Cardinality(Claimed(t)') <= Cardinality(S)
    BY <1>1, FS_Subset
  <2>2. Cardinality(S) \in Nat /\ Cardinality(Claimed(t)') \in Nat
    BY <1>1, <2>1, FS_CardinalityType
  <2>. QED  BY <1>0, <1>1, <2>1, <2>2
<1>2. ASSUME NEW r \in job.todo, Rewrite(r)
      PROVE  Cardinality(Claimed(t)') <= Limit(t)
  <2>. DEFINE c == IF r.type = "config" THEN [catalog EXCEPT !.usb_mode = r.mode]
                   ELSE catalog
  <2>1. /\ r \in Records /\ c \in CatalogType /\ Table(c, t) = Table(catalog, t)
        /\ pc = "rewrite"
    BY <1>2, RecordShape DEF Rewrite, TypeOK, Jobs, CatalogType, Table, RowTypes
  <2>2. catalog' = Applied(c, r) /\ job' = [job EXCEPT !.todo = @ \ {r}]
    BY <1>2 DEF Rewrite, Abort
  <2>3. job'.todo = job.todo \ {r}
    BY <2>2 DEF TypeOK, Jobs
  <2>. HIDE DEF c
  <2>4. Claimed(t)' \in SUBSET Claimed(t)
    <3>1. \A i \in Ids(t) : Table(catalog', t)[i] # Absent
                              => Table(catalog, t)[i] # Absent \/ (r.type = t /\ r.id = i)
      BY <2>1, <2>2, RowsGrow
    <3>. QED  BY <2>3, <3>1 DEF Claimed
  <2>. QED  BY <1>1, <2>1, <2>4, ClaimsFinite DEF RewriteRoom
<1>3. CASE Format
  <2>1. catalog' = NewCatalog /\ job'.todo = {Marker}
    BY <1>3 DEF Format, NoJob
  <2>2. Claimed(t)' \in SUBSET {}
    BY <2>1 DEF Claimed, Table, NewCatalog, Marker, RowTypes, Ids
  <2>. QED  BY <1>0, <1>1, <2>2, FS_EmptySet
<1>4. ASSUME NEW then \in Jobs, Compaction(then)
      PROVE  Cardinality(Claimed(t)') <= Limit(t)
  <2>1. /\ job'.todo = Snapshot
        /\ catalog'.entities = NewCatalog.entities
        /\ catalog'.identities = NewCatalog.identities
        /\ catalog'.blobs = NewCatalog.blobs
    BY <1>4 DEF Compaction, StartCompact, NewCatalog, Jobs
  <2>2. \A i \in Ids(t) : Table(catalog', t)[i] = Absent
    BY <2>1 DEF Table, NewCatalog, RowTypes, Ids
  <2>3. ASSUME NEW r \in Snapshot, r.type = t
        PROVE  Table(catalog, t)[r.id] # Absent
    BY <2>3 DEF Snapshot, Table, RowTypes, LiveBlobs, Entities, Identities,
                Marker, ConfigRec, BlobRec, IdentityRec, EntityRec
  <2>4. Claimed(t)' \in SUBSET Rows(Table(catalog, t))
    BY <1>0, <2>1, <2>2, <2>3 DEF Claimed, Rows
  <2>5. IsFiniteSet(Rows(Table(catalog, t)))
    <3>1. Rows(Table(catalog, t)) \in SUBSET Ids(t)
      BY <1>0 DEF Rows
    <3>. QED  BY <3>1, TableTypes, FS_Subset DEF TypeOK
  <2>6. Cardinality(Rows(Table(catalog, t))) <= Limit(t)
    BY DEF TablesFit, Table, Limit, RowTypes, Entities, Identities
  <2>. QED  BY <1>1, <2>4, <2>5, <2>6
<1>5. CASE UNCHANGED vars
  <2>1. Claimed(t)' = Claimed(t) /\ pc = "rewrite"
    BY <1>5 DEF vars, Claimed
  <2>. QED  BY <2>1 DEF RewriteRoom
<1>. QED  BY <1>2, <1>3, <1>4, <1>5, RewriteGoesOn

(***************************************************************************)
(* The shape of the journal.                                               *)
(***************************************************************************)
\* The next boot replays every cell before n.
Unbroken(n) == \A q \in Cells : q < n => flash[q] \in Records

\* Until something is torn there is no gap before the append position, what
\* follows is erased, and so every append goes to an erased cell that the
\* next boot reaches.
JournalInv ==
  /\ NoTear => Unbroken(Offset)
  /\ pc = "scan" => Unbroken(Offset)
  /\ \A p \in Cells : p < Offset /\ Unbroken(p) => flash[p] # Erased
  /\ \A p \in Cells :
       Unbroken(p) /\ flash[p] = Erased =>
         \A q \in Cells : p <= q => flash[q] = Erased
  /\ pc # "scan" /\ Writable(catalog) /\ Unbroken(Offset) => flash[Offset] = Erased

LEMMA JournalInit == Init => JournalInv
  BY CatalogAssumption DEF Init, JournalInv, Unbroken, NewCatalog, Offset, Cells, Writable

\* An append moves the end by one cell and changes none before it.
LEMMA AppendMoves ==
  ASSUME TypeOK, NEW c \in CatalogType, NEW r \in Records, Appends(c, r)
  PROVE  /\ Offset \in Cells /\ Offset' = Offset + 1
         /\ flash'[Offset] = r
         /\ \A p \in Cells : p # Offset => flash'[p] = flash[p]
         /\ NoTear' => NoTear
         /\ catalog'.needs_format = catalog.needs_format
<1>1. Offset \in Cells /\ c.write_offset = Offset /\ Cap \in Nat
  BY CatalogAssumption
     DEF TypeOK, CatalogType, Offset, Cells, Appends, Precedes, SameTables
<1>2. /\ Applied(c, r).write_offset = Offset + 1
      /\ Applied(c, r).needs_format = c.needs_format
  BY <1>1, RecordShape DEF Applied, Tables, CatalogType
<1>3. Offset' = Offset + 1 /\ catalog'.needs_format = catalog.needs_format
  BY <1>2 DEF Appends, Precedes, Offset
<1>4. /\ flash'[Offset] = r
      /\ \A p \in Cells : p # Offset => flash'[p] = flash[p]
  BY <1>1 DEF Appends, TypeOK
<1>5. NoTear' => NoTear
  BY <1>1, <1>3, <1>4 DEF NoTear, Cells
<1>. QED  BY <1>1, <1>3, <1>4, <1>5

LEMMA JournalAppends ==
  ASSUME TypeOK, JournalInv, NEW c \in CatalogType, NEW r \in Records, Appends(c, r)
  PROVE  JournalInv'
<1>0. /\ Offset \in Cells /\ Offset' = Offset + 1
      /\ flash'[Offset] = r
      /\ \A p \in Cells : p # Offset => flash'[p] = flash[p]
      /\ NoTear' => NoTear
      /\ catalog'.needs_format = catalog.needs_format
      /\ catalog.write_offset = Offset /\ catalog'.write_offset = Offset'
      /\ \A p \in Cells : p \in Nat
      /\ Offset \in Nat
  BY AppendMoves, CatalogAssumption DEF Offset, Cells
<1>1. \A n \in 0 .. Offset : Unbroken(n)' <=> Unbroken(n)
  BY <1>0 DEF Unbroken, Cells
<1>2. \A n \in Cells : n = Offset /\ Unbroken(n)' => Unbroken(n + 1)'
  BY <1>0 DEF Unbroken, Cells
<1>3. \A n \in Nat : n > Offset /\ Unbroken(n)' => Unbroken(Offset)
  BY <1>0 DEF Unbroken, Cells
<1>4. r # Erased
  BY CellKinds
<1>5. pc # "scan" /\ Unbroken(Offset) => flash[Offset] = Erased
  BY DEF JournalInv, Appends
<1>6. pc = "scan" => flash' = flash /\ pc' = "scan"
  BY DEF Appends
<1>7. NoTear' => Unbroken(Offset)'
  BY <1>0, <1>1, <1>2 DEF JournalInv
<1>8. pc' = "scan" => Unbroken(Offset)'
  BY <1>0, <1>1, <1>2 DEF JournalInv, Appends
<1>9. ASSUME NEW p \in Cells, p < Offset', Unbroken(p)'
      PROVE  flash'[p] # Erased
  <2>1. CASE p = Offset
    BY <1>0, <1>4, <2>1
  <2>2. CASE p < Offset
    <3>0. p \in 0 .. Offset
      <4>1. p \in Nat /\ Offset \in Nat
        BY <1>0
      <4>. QED  BY <2>2, <4>1
    <3>1. Unbroken(p)
      BY <1>1, <1>9, <3>0
    <3>2. flash[p] # Erased
      BY <2>2, <3>1 DEF JournalInv
    <3>3. p # Offset
      BY <1>0, <2>2
    <3>. QED  BY <1>0, <3>2, <3>3
  <2>3. p < Offset \/ p = Offset
    <3>1. p \in Nat /\ Offset \in Nat /\ p < Offset + 1
      BY <1>0, <1>9
    <3>. QED  BY <3>1
  <2>. QED  BY <2>1, <2>2, <2>3
<1>10. ASSUME NEW p \in Cells, Unbroken(p)', flash'[p] = Erased,
              NEW q \in Cells, p <= q
       PROVE  flash'[q] = Erased
  <2>1. p > Offset
    <3>1. ~(p < Offset') /\ p \in Nat
      BY <1>0, <1>9, <1>10
    <3>. QED  BY <1>0, <3>1
  <2>2. CASE pc = "scan"
    <3>1. Unbroken(p) /\ flash[p] = Erased /\ flash' = flash
      BY <1>6, <1>10, <2>2 DEF Unbroken
    <3>. QED  BY <1>10, <3>1 DEF JournalInv
  <2>3. CASE pc # "scan"
    <3>1. Unbroken(Offset) /\ flash[Offset] = Erased
      BY <1>0, <1>3, <1>5, <1>10, <2>1, <2>3
    <3>2. flash[q] = Erased
      BY <1>0, <1>10, <2>1, <3>1 DEF JournalInv
    <3>3. q # Offset
      BY <1>0, <1>10, <2>1
    <3>. QED  BY <1>0, <3>2, <3>3
  <2>. QED  BY <2>2, <2>3
<1>11. ASSUME pc' # "scan", Writable(catalog'), Unbroken(Offset)'
       PROVE  flash'[Offset'] = Erased
  <2>1. pc # "scan" /\ Offset' \in Cells
    BY <1>0, <1>6, <1>11, CatalogAssumption DEF Writable, Cells
  <2>0. Unbroken(Offset)
    <3>1. ASSUME NEW q \in Cells, q < Offset PROVE flash[q] \in Records
      <4>1. q \in Nat /\ Offset \in Nat /\ Offset' = Offset + 1
        BY <1>0
      <4>2. q < Offset' /\ q # Offset
        BY <3>1, <4>1
      <4>3. flash'[q] \in Records
        BY <1>11, <4>2 DEF Unbroken
      <4>. QED  BY <1>0, <4>2, <4>3
    <3>. QED  BY <3>1 DEF Unbroken
  <2>2. flash[Offset] = Erased
    BY <1>5, <2>0, <2>1
  <2>3. flash[Offset'] = Erased
    BY <1>0, <2>0, <2>1, <2>2 DEF JournalInv
  <2>. QED  BY <1>0, <2>1, <2>3
<1>. QED  BY <1>7, <1>8, <1>9, <1>10, <1>11 DEF JournalInv

LEMMA JournalKeeps ==
  ASSUME TypeOK, JournalInv, Keeps
  PROVE  JournalInv'
<1>0. /\ Offset' = Offset /\ Offset \in Nat /\ Cap \in Nat
      /\ catalog.write_offset = Offset /\ catalog'.write_offset = Offset
      /\ Writable(catalog') <=> Writable(catalog)
      /\ flash \in [Cells -> Records \union {Erased, Torn}]
      /\ pc' # "scan"
  BY CatalogAssumption DEF Keeps, SameRows, Offset, TypeOK, CatalogType, Writable
<1>1. CASE flash' = flash
  <2>1. \A n : Unbroken(n)' <=> Unbroken(n)
    BY <1>1 DEF Unbroken
  <2>2. NoTear' <=> NoTear
    BY <1>0, <1>1 DEF NoTear
  <2>3. ASSUME Writable(catalog'), Unbroken(Offset)
        PROVE  flash[Offset] = Erased
    BY <1>0, <2>3 DEF JournalInv, Keeps, Writable
  <2>. QED  BY <1>0, <1>1, <2>1, <2>2, <2>3 DEF JournalInv
<1>2. CASE /\ pc # "scan" /\ Writable(catalog) /\ flash[Offset] # Erased
           /\ flash' = [flash EXCEPT ![Offset] = Torn]
  <2>1. /\ Offset \in Cells /\ flash'[Offset] = Torn
        /\ \A p \in Cells : p # Offset => flash'[p] = flash[p]
    BY <1>0, <1>2 DEF Writable, Cells
  <2>2. ~Unbroken(Offset)
    BY <1>2 DEF JournalInv
  <2>3. \A n \in 0 .. Offset : Unbroken(n)' <=> Unbroken(n)
    BY <1>0, <2>1 DEF Unbroken, Cells
  <2>4. \A n \in Nat : n > Offset => ~Unbroken(n)'
    BY <1>0, <2>1, CellKinds DEF Unbroken, Cells
  <2>5. NoTear' <=> NoTear
    BY <1>0, <2>1 DEF NoTear, Cells
  <2>6. \A p \in Cells : Unbroken(p)' => p < Offset /\ Unbroken(p) /\ flash'[p] = flash[p]
    BY <1>0, <2>1, <2>2, <2>3, <2>4 DEF Cells
  <2>7. ~Unbroken(Offset)'
    BY <1>0, <2>2, <2>3
  <2>8. \A p \in Cells : Unbroken(p)' => flash'[p] # Erased
    BY <2>6 DEF JournalInv
  <2>9. ~NoTear
    BY <2>2 DEF JournalInv
  <2>. QED  BY <1>0, <2>5, <2>7, <2>8, <2>9 DEF JournalInv
<1>. QED  BY <1>1, <1>2 DEF Keeps

LEMMA JournalStartsOver ==
  ASSUME TypeOK, JournalInv, StartsOver
  PROVE  JournalInv'
<1>0. Offset' = 0 /\ Offset \in Nat /\ catalog.write_offset = Offset /\ Cap \in Nat \ {0}
  BY CatalogAssumption DEF StartsOver, Offset, TypeOK, CatalogType
<1>1. \A p \in Cells : p \in Nat
  BY DEF Cells
<1>2. Unbroken(0)'
  BY <1>1 DEF Unbroken
<1>3. CASE pc' = "scan" /\ flash' = flash
  <2>1. \A n : Unbroken(n)' <=> Unbroken(n)
    BY <1>3 DEF Unbroken
  <2>. QED  BY <1>0, <1>1, <1>2, <1>3, <2>1 DEF JournalInv
<1>4. CASE pc' = "scan" /\ Tears
  <2>1. /\ Offset \in Cells /\ flash'[Offset] = Torn
        /\ \A p \in Cells : p < Offset => flash'[p] = flash[p]
        /\ flash'[Offset] # Erased
    BY <1>0, <1>4, CellKinds DEF Tears, Writable, Cells
  <2>2. \A p \in Cells : p <= Offset => (Unbroken(p)' <=> Unbroken(p))
    BY <1>0, <2>1 DEF Unbroken, Cells
  <2>3. \A p \in Cells : p > Offset => ~Unbroken(p)'
    BY <1>0, <2>1, CellKinds DEF Unbroken, Cells
  <2>4. \A p \in Cells : Unbroken(p)' => flash'[p] # Erased
    BY <1>0, <1>1, <2>1, <2>2, <2>3 DEF JournalInv
  <2>. QED  BY <1>0, <1>1, <1>2, <1>4, <2>4 DEF JournalInv
<1>5. CASE pc' = "rewrite" /\ flash' = [p \in Cells |-> Erased]
  <2>1. 0 \in Cells /\ \A p \in Cells : flash'[p] = Erased
    BY <1>0, <1>5 DEF Cells
  <2>. QED  BY <1>0, <1>1, <1>2, <1>5, <2>1 DEF JournalInv
<1>. QED  BY <1>3, <1>4, <1>5 DEF StartsOver

LEMMA JournalCorrupt ==
  ASSUME TypeOK, JournalInv, ScanCorrupt
  PROVE  JournalInv'
<1>0. /\ Offset \in Cells /\ flash' = flash /\ flash[Offset] = Torn
      /\ catalog.write_offset = Offset /\ pc' = "idle"
      /\ \A p \in Cells : p \in Nat
  BY CatalogAssumption DEF ScanCorrupt, Offset, TypeOK, CatalogType, Cells
<1>1. \A n : Unbroken(n)' <=> Unbroken(n)
  BY <1>0 DEF Unbroken
<1>2. \A n \in Nat : n > Offset => ~Unbroken(n)
  BY <1>0, CellKinds DEF Unbroken
<1>3. CASE Offset = 0
  <2>1. Offset' = Offset /\ ~Writable(catalog')
    BY <1>0, <1>3 DEF ScanCorrupt, Offset, TypeOK, CatalogType, Writable
  <2>2. Unbroken(Offset)
    BY <1>0, <1>3 DEF Unbroken
  <2>. QED  BY <1>0, <1>1, <2>1, <2>2 DEF JournalInv
<1>4. CASE Offset # 0
  <2>1. Offset' = NextSector(Offset) /\ Offset' \in Nat /\ Offset' > Offset
    BY <1>0, <1>4, NextSectorBounds DEF ScanCorrupt, Offset, TypeOK, CatalogType
  <2>2. ~NoTear' /\ ~Unbroken(Offset)'
    BY <1>0, <1>1, <1>2, <2>1 DEF NoTear
  <2>3. \A p \in Cells : Unbroken(p) => p <= Offset
    BY <1>0, <1>2
  <2>4. \A p \in Cells : Unbroken(p) /\ p < Offset' => flash[p] # Erased
    BY <1>0, <2>3, CellKinds DEF JournalInv
  <2>. QED  BY <1>0, <1>1, <2>2, <2>4 DEF JournalInv
<1>. QED  BY <1>3, <1>4

LEMMA JournalNext == TypeOK /\ WholeErases /\ JournalInv /\ [Next]_vars => JournalInv'
<1>. SUFFICES ASSUME TypeOK, WholeErases, JournalInv, [Next]_vars PROVE JournalInv'
  OBVIOUS
<1>1. CASE ScanFull
  <2>1. /\ flash' = flash /\ Offset' = Offset /\ pc' = "idle" /\ ~Writable(catalog')
    BY <1>1 DEF ScanFull, SameRows, Offset, Writable
  <2>2. \A n : Unbroken(n)' <=> Unbroken(n)
    BY <2>1 DEF Unbroken
  <2>3. NoTear' <=> NoTear
    BY <2>1 DEF NoTear
  <2>. QED  BY <2>1, <2>2, <2>3 DEF JournalInv
<1>2. CASE UNCHANGED vars
  BY <1>2 DEF JournalInv, Unbroken, NoTear, Offset, Writable, vars
<1>. QED  BY <1>1, <1>2, StepKind, JournalAppends, JournalKeeps, JournalStartsOver,
             JournalCorrupt DEF JournalStep

(***************************************************************************)
(* Without torn writes, nothing is ever torn: a cell that is not erased is *)
(* never programmed.                                                       *)
(***************************************************************************)
NoTorn == \A p \in Cells : flash[p] # Torn

LEMMA NoTornInit == Init => NoTorn
  BY CellKinds DEF Init, NoTorn

\* The cell an operation programs is erased.
LEMMA NeverSpoils ==
  ASSUME TypeOK, JournalInv, NoTear, pc # "scan", Writable(catalog)
  PROVE  flash[Offset] = Erased
  BY DEF JournalInv

LEMMA NoTornNext ==
  ASSUME TypeOK, WholeErases, WholeWrites, JournalInv, NoTorn, [Next]_vars
  PROVE  NoTorn' /\ (ErasesAll \/ \A p \in Cells : flash[p] \in {Erased, flash'[p]})
<1>0. NoTear
  BY DEF NoTorn, NoTear
<1>1. ASSUME NEW c \in CatalogType, NEW r \in Records, Appends(c, r)
      PROVE  NoTorn' /\ \A p \in Cells : flash[p] \in {Erased, flash'[p]}
  <2>1. /\ flash'[Offset] = r
        /\ \A p \in Cells : p # Offset => flash'[p] = flash[p]
    BY <1>1, AppendMoves
  <2>2. flash[Offset] \in {Erased, flash'[Offset]}
    BY <1>1, <2>1 DEF Appends
  <2>. QED  BY <2>1, <2>2, CellKinds DEF NoTorn
<1>2. CASE flash' = flash
  BY <1>2 DEF NoTorn
<1>3. CASE Keeps
  BY <1>0, <1>2, <1>3, NeverSpoils DEF Keeps
<1>4. CASE StartsOver
  <2>1. ~Tears
    BY DEF Tears, WholeWrites
  <2>2. CASE flash' = [p \in Cells |-> Erased]
    BY <2>2, CellKinds DEF NoTorn, ErasesAll
  <2>. QED  BY <1>2, <1>4, <2>1, <2>2 DEF StartsOver
<1>. QED  BY <1>1, <1>2, <1>3, <1>4, StepKind DEF JournalStep, ScanFull, ScanCorrupt, vars

\* Unless a write or an erase is cut in two, a cell of the journal is never
\* programmed twice, and nothing but a whole erase takes a record away
\* (journal.rs appends at the end that scan_flash found): AppendOnly.
THEOREM JournalIsAppendOnly ==
  ASSUME WholeErases, WholeWrites
  PROVE  Spec => AppendOnly
<1>1. Init => JournalInv /\ NoTorn
  BY JournalInit, NoTornInit
<1>2. TypeOK /\ (JournalInv /\ NoTorn) /\ [Next]_vars => (JournalInv /\ NoTorn)'
  BY JournalNext, NoTornNext
<1>3. TypeOK /\ (JournalInv /\ NoTorn) /\ [Next]_vars =>
        [ErasesAll \/ \A p \in Cells : flash[p] \in {Erased, flash'[p]}]_vars
  BY NoTornNext
<1>. QED  BY <1>1, <1>2, <1>3, TypeCorrect, PTL DEF Spec, AppendOnly

(***************************************************************************)
(* The catalog is what the journal says.                                   *)
(***************************************************************************)
\* The records that settle what becomes of an entity, an identity, a blob
\* and the mode.
EntityWords(i) ==
  {r \in Records : r.type \in {"entity", "entityDel"} /\ r.id = i}
IdentityWords(i) ==
  {r \in Records : r.type \in {"identity", "identityDel"} /\ r.id = i}
BlobWords(b) == {r \in Records : r.type = "blob" /\ r.id = b}
ModeWords    == {r \in Records : r.type = "config"}

\* Before the append position no record is in W, or the last one is at p.
Silent(W) == \A p \in Cells : p < Offset => flash[p] \notin W
LastAt(W, p) ==
  /\ p < Offset /\ flash[p] \in W
  /\ \A q \in Cells : p < q /\ q < Offset => flash[q] \notin W

EntityReplayed(i) ==
  \/ Silent(EntityWords(i)) /\ Entities[i] = Absent
  \/ \E p \in Cells :
       /\ LastAt(EntityWords(i), p)
       /\ Entities[i] = IF flash[p].type = "entity" THEN flash[p].entity ELSE Absent

IdentityReplayed(i) ==
  \/ Silent(IdentityWords(i)) /\ Identities[i] = Absent
  \/ \E p \in Cells :
       /\ LastAt(IdentityWords(i), p)
       /\ Identities[i] = IF flash[p].type = "identity" THEN flash[p].name ELSE Absent

BlobReplayed(b) ==
  \/ Silent(BlobWords(b)) /\ catalog.blobs[b] = Absent
  \/ \E p \in Cells :
       /\ LastAt(BlobWords(b), p)
       /\ catalog.blobs[b] = [offset |-> p, crc |-> flash[p].img]

ModeReplayed ==
  \/ Silent(ModeWords) /\ catalog.usb_mode = "skylanders"
  \/ \E p \in Cells : LastAt(ModeWords, p) /\ catalog.usb_mode = flash[p].mode

\* Until something is torn the catalog is what replay of the journal would
\* make of it, also in the middle of a boot or of a compaction.  The mode is
\* an exception once nothing can be appended: SetUsbMode changes RAM first.
Replayed ==
  NoTear =>
    /\ \A i \in RecordIds : EntityReplayed(i) /\ IdentityReplayed(i)
    /\ \A b \in BlobIds : BlobReplayed(b)
    /\ pc = "scan" \/ Writable(catalog) => ModeReplayed
    /\ catalog.needs_format => Offset = 0 /\ flash[0] = Torn

(***************************************************************************)
(* A journal that no operation filled a table with does not fill one when  *)
(* it is replayed.                                                         *)
(***************************************************************************)
Words(t, i) == CASE t = "entity"   -> EntityWords(i)
                 [] t = "identity" -> IdentityWords(i)
                 [] OTHER          -> BlobWords(i)

\* The rows of table t after a replay of the cells before q.
LiveAt(t, q) ==
  {i \in Ids(t) :
     \E p \in Cells :
       /\ p < q /\ flash[p] \in Words(t, i) /\ flash[p].type = t
       /\ \A s \in Cells : p < s /\ s < q => flash[s] \notin Words(t, i)}

FitsAt(q) ==
  flash[q].type \in RowTypes =>
    \/ flash[q].id \in LiveAt(flash[q].type, q)
    \/ Cardinality(LiveAt(flash[q].type, q)) < Limit(flash[q].type)

JournalFits == \A q \in Cells : Unbroken(q) /\ flash[q] \in Records => FitsAt(q)

LEMMA LiveRows ==
  ASSUME TypeOK, Replayed, NoTear, NEW t \in RowTypes
  PROVE  LiveAt(t, Offset) = Rows(Table(catalog, t))
<1>0. \A i \in Ids(t) :
        \/ Silent(Words(t, i)) /\ Table(catalog, t)[i] = Absent
        \/ \E p \in Cells :
             /\ LastAt(Words(t, i), p)
             /\ flash[p].type = t <=> Table(catalog, t)[i] # Absent
  <2>1. CASE t = "entity"
    <3>1. Ids(t) = RecordIds /\ Table(catalog, t) = Entities
      BY <2>1 DEF Ids, Table, Entities
    <3>2. ASSUME NEW i \in RecordIds
          PROVE  \/ Silent(EntityWords(i)) /\ Entities[i] = Absent
                 \/ \E p \in Cells : /\ LastAt(EntityWords(i), p)
                                     /\ flash[p].type = "entity" <=> Entities[i] # Absent
      <4>1. EntityReplayed(i)
        BY DEF Replayed
      <4>2. ASSUME NEW p \in Cells, LastAt(EntityWords(i), p), flash[p].type = "entity"
            PROVE  flash[p].entity # Absent
        BY <4>2, RecordShape, AbsentAssumption DEF LastAt, EntityWords
      <4>. QED  BY <4>1, <4>2 DEF EntityReplayed
    <3>. QED  BY <2>1, <3>1, <3>2 DEF Words
  <2>2. CASE t = "identity"
    <3>1. Ids(t) = RecordIds /\ Table(catalog, t) = Identities
      BY <2>2 DEF Ids, Table, Identities
    <3>2. ASSUME NEW i \in RecordIds
          PROVE  \/ Silent(IdentityWords(i)) /\ Identities[i] = Absent
                 \/ \E p \in Cells :
                      /\ LastAt(IdentityWords(i), p)
                      /\ flash[p].type = "identity" <=> Identities[i] # Absent
      <4>1. IdentityReplayed(i)
        BY DEF Replayed
      <4>2. ASSUME NEW p \in Cells, LastAt(IdentityWords(i), p),
                   flash[p].type = "identity"
            PROVE  flash[p].name # Absent
        BY <4>2, RecordShape, AbsentAssumption DEF LastAt, IdentityWords
      <4>. QED  BY <4>1, <4>2 DEF IdentityReplayed
    <3>. QED  BY <2>2, <3>1, <3>2 DEF Words
  <2>3. CASE t = "blob"
    <3>1. Ids(t) = BlobIds /\ Table(catalog, t) = catalog.blobs
      BY <2>3 DEF Ids, Table
    <3>2. ASSUME NEW b \in BlobIds
          PROVE  \/ Silent(BlobWords(b)) /\ catalog.blobs[b] = Absent
                 \/ \E p \in Cells :
                      /\ LastAt(BlobWords(b), p)
                      /\ flash[p].type = "blob" <=> catalog.blobs[b] # Absent
      <4>1. BlobReplayed(b)
        BY DEF Replayed
      <4>2. ASSUME NEW p \in Cells, LastAt(BlobWords(b), p)
            PROVE  flash[p].type = "blob" /\ [offset |-> p, crc |-> flash[p].img] # Absent
        <5>1. [offset |-> p, crc |-> flash[p].img] \in StoredBlob
          BY <4>2, RecordShape DEF LastAt, BlobWords, StoredBlob
        <5>. QED  BY <4>2, <5>1, AbsentAssumption DEF LastAt, BlobWords
      <4>. QED  BY <4>1, <4>2 DEF BlobReplayed
    <3>. QED  BY <2>3, <3>1, <3>2 DEF Words
  <2>. QED  BY <2>1, <2>2, <2>3 DEF RowTypes
<1>1. Rows(Table(catalog, t)) = {i \in Ids(t) : Table(catalog, t)[i] # Absent}
  BY TableTypes DEF Rows, TypeOK
<1>2. ASSUME NEW i \in Ids(t)
      PROVE  i \in LiveAt(t, Offset) <=> Table(catalog, t)[i] # Absent
  <2>0. /\ \A p \in Cells : p \in Nat
        /\ Offset \in Nat
    BY CatalogAssumption DEF Cells, TypeOK, CatalogType, Offset
  <2>1. CASE Silent(Words(t, i)) /\ Table(catalog, t)[i] = Absent
    BY <2>1 DEF Silent, LiveAt
  <2>2. ASSUME NEW p \in Cells, LastAt(Words(t, i), p),
               flash[p].type = t <=> Table(catalog, t)[i] # Absent
        PROVE  i \in LiveAt(t, Offset) <=> Table(catalog, t)[i] # Absent
    <3>1. \A q \in Cells : /\ q < Offset /\ flash[q] \in Words(t, i)
                           /\ \A s \in Cells : q < s /\ s < Offset => flash[s] \notin Words(t, i)
                           => q = p
      BY <2>0, <2>2 DEF LastAt
    <3>. QED  BY <2>2, <3>1 DEF LastAt, LiveAt
  <2>. QED  BY <1>0, <2>1, <2>2
<1>3. LiveAt(t, Offset) \subseteq Ids(t)
  BY DEF LiveAt
<1>. QED  BY <1>1, <1>2, <1>3

\* The next record of the journal finds its table full when replay does.
LEMMA FitsAtOffset ==
  ASSUME TypeOK, Replayed, NoTear, NEW r \in Records
  PROVE  TableFull(catalog, r) <=>
           /\ r.type \in RowTypes /\ r.id \notin LiveAt(r.type, Offset)
           /\ ~(Cardinality(LiveAt(r.type, Offset)) < Limit(r.type))
  BY LiveRows, FullTable DEF TypeOK

LEMMA ScanNeverFull ==
  ASSUME TypeOK, JournalInv, JournalFits, Replayed
  PROVE  ~ScanFull
<1>. SUFFICES ASSUME ScanFull PROVE FALSE
  OBVIOUS
<1>1. /\ Unbroken(Offset) /\ Offset \in Cells /\ flash[Offset] \in Records
      /\ TableFull(catalog, flash[Offset])
  BY DEF ScanFull, JournalInv
<1>2. NoTear
  BY <1>1, CellKinds DEF Unbroken, NoTear
<1>3. FitsAt(Offset)
  BY <1>1 DEF JournalFits
<1>. QED  BY <1>1, <1>2, <1>3, FitsAtOffset DEF FitsAt

\* What fits at cell q depends on the cells up to q.
LEMMA FitsKept ==
  ASSUME NEW q \in Cells, \A p \in Cells : p <= q => flash'[p] = flash[p]
  PROVE  /\ Unbroken(q)' <=> Unbroken(q)
         /\ \A t : LiveAt(t, q)' = LiveAt(t, q)
         /\ FitsAt(q)' <=> FitsAt(q)
<1>0. \A p \in Cells : p \in Nat
  BY CatalogAssumption DEF Cells
<1>1. /\ flash'[q] = flash[q]
      /\ \A p \in Cells : p < q => flash'[p] = flash[p]
  BY <1>0
<1>2. Unbroken(q)' <=> Unbroken(q)
  BY <1>1 DEF Unbroken
<1>3. ASSUME NEW t PROVE LiveAt(t, q)' = LiveAt(t, q)
  BY <1>1 DEF LiveAt
<1>4. FitsAt(q)' <=> FitsAt(q)
  BY <1>1, <1>3 DEF FitsAt
<1>. QED  BY <1>2, <1>3, <1>4

LEMMA FitsAppends ==
  ASSUME TypeOK, JournalInv, JournalFits, Replayed, NEW c \in CatalogType,
         NEW r \in Records, Appends(c, r), ~TableFull(catalog, r)
  PROVE  JournalFits'
<1>. SUFFICES ASSUME NEW q \in Cells, Unbroken(q)', flash'[q] \in Records
              PROVE  FitsAt(q)'
  BY DEF JournalFits
<1>0. /\ Offset \in Cells /\ Offset \in Nat /\ flash'[Offset] = r
      /\ \A p \in Cells : p # Offset => flash'[p] = flash[p]
      /\ \A p \in Cells : p \in Nat
  BY AppendMoves, CatalogAssumption DEF Cells
<1>1. CASE flash' = flash
  BY <1>1, FitsKept DEF JournalFits
<1>2. CASE q < Offset
  <2>1. \A p \in Cells : p <= q => flash'[p] = flash[p]
    BY <1>0, <1>2
  <2>2. (Unbroken(q)' <=> Unbroken(q)) /\ (FitsAt(q)' <=> FitsAt(q))
    BY <2>1, FitsKept
  <2>3. flash'[q] = flash[q]
    BY <1>0, <2>1
  <2>. QED  BY <2>2, <2>3 DEF JournalFits
<1>3. CASE q = Offset
  <2>1. \A p \in Cells : p < Offset => flash'[p] = flash[p]
    BY <1>0
  <2>2. NoTear
    <3>1. Unbroken(Offset)
      BY <1>3, <2>1 DEF Unbroken
    <3>. QED  BY <3>1, CellKinds DEF Unbroken, NoTear
  <2>3. LiveAt(r.type, q)' = LiveAt(r.type, Offset)
    BY <1>0, <1>3, <2>1 DEF LiveAt
  <2>. QED  BY <1>0, <1>3, <2>2, <2>3, FitsAtOffset DEF FitsAt
<1>4. CASE pc # "scan" /\ q > Offset
  <2>1. Unbroken(Offset)
    BY <1>0, <1>4 DEF Unbroken
  <2>2. flash[Offset] = Erased
    BY <1>4, <2>1 DEF JournalInv, Appends
  <2>3. flash[q] = Erased
    BY <1>0, <1>4, <2>1, <2>2 DEF JournalInv
  <2>. QED  BY <1>0, <1>4, <2>3, CellKinds
<1>5. flash' = flash \/ pc # "scan"
  BY DEF Appends
<1>6. q < Offset \/ q = Offset \/ q > Offset
  <2>1. q \in Nat /\ Offset \in Nat
    BY <1>0
  <2>. QED  BY <2>1
<1>. QED  BY <1>1, <1>2, <1>3, <1>4, <1>5, <1>6

LEMMA FitsInit == Init => JournalFits
  BY CellKinds DEF Init, JournalFits

LEMMA FitsNext ==
  ASSUME TypeOK, WholeErases, RewriteRoom, JournalInv, JournalFits, Replayed,
         [Next]_vars, [~RefusedAsFull]_vars
  PROVE  JournalFits'
<1>1. CASE flash' = flash
  BY <1>1, FitsKept DEF JournalFits
<1>2. ASSUME NEW o \in Cells, flash'[o] = Torn,
             \A p \in Cells : p < o => flash'[p] = flash[p]
      PROVE  JournalFits'
  <2>. SUFFICES ASSUME NEW q \in Cells, Unbroken(q)', flash'[q] \in Records
                PROVE  FitsAt(q)'
    BY DEF JournalFits
  <2>0. \A p \in Cells : p \in Nat
    BY CatalogAssumption DEF Cells
  <2>1. q < o
    BY <1>2, <2>0, CellKinds DEF Unbroken
  <2>2. \A p \in Cells : p <= q => flash'[p] = flash[p]
    BY <1>2, <2>0, <2>1
  <2>. QED  BY <2>0, <2>2, FitsKept DEF JournalFits
<1>3. Offset \in Nat /\ catalog.write_offset = Offset
  BY CatalogAssumption DEF TypeOK, CatalogType, Offset
<1>4. CASE Keeps
  <2>1. CASE Writable(catalog) /\ flash' = [flash EXCEPT ![Offset] = Torn]
    <3>1. Offset \in Cells
      BY <1>3, <2>1, CatalogAssumption DEF Writable, Cells
    <3>2. flash'[Offset] = Torn /\ \A p \in Cells : p < Offset => flash'[p] = flash[p]
      BY <2>1, <3>1 DEF TypeOK, Cells
    <3>. QED  BY <1>2, <3>1, <3>2
  <2>. QED  BY <1>1, <1>4, <2>1 DEF Keeps
<1>5. CASE StartsOver
  <2>1. CASE Tears
    <3>1. Offset \in Cells
      BY <1>3, <2>1, CatalogAssumption DEF Tears, Writable, Cells
    <3>2. flash'[Offset] = Torn /\ \A p \in Cells : p < Offset => flash'[p] = flash[p]
      BY <2>1, <3>1 DEF Tears, Cells
    <3>. QED  BY <1>2, <3>1, <3>2
  <2>2. CASE flash' = [p \in Cells |-> Erased]
    BY <2>2, CellKinds DEF JournalFits
  <2>. QED  BY <1>1, <1>5, <2>1, <2>2 DEF StartsOver
<1>6. ASSUME ~RefusedAsFull, NEW c \in CatalogType, NEW r \in Records, Appends(c, r)
      PROVE  JournalFits'
  BY <1>6, AppendFits, FitsAppends
<1>. QED  BY <1>1, <1>4, <1>5, <1>6, StepKind DEF JournalStep, ScanFull, ScanCorrupt, vars

\* What is known of the records before the end stays known when one more is
\* appended, unless that one is the last word itself.
LEMMA WordsExtended ==
  ASSUME NEW W, Offset \in Cells, Offset' = Offset + 1,
         \A p \in Cells : p # Offset => flash'[p] = flash[p]
  PROVE  /\ flash'[Offset] \in W =>
              \E p \in Cells : p = Offset /\ LastAt(W, p)'
         /\ flash'[Offset] \notin W =>
              /\ Silent(W) => Silent(W)'
              /\ \A p \in Cells : LastAt(W, p) => LastAt(W, p)' /\ flash'[p] = flash[p]
<1>0. \A p \in Cells : p \in Nat
  BY CatalogAssumption DEF Cells
<1>1. ASSUME flash'[Offset] \in W
      PROVE  \E p \in Cells : p = Offset /\ LastAt(W, p)'
  <2>1. PICK p \in Cells : p = Offset
    OBVIOUS
  <2>2. LastAt(W, p)'
    BY <1>0, <1>1, <2>1 DEF LastAt
  <2>. QED  BY <2>1, <2>2
<1>2. ASSUME flash'[Offset] \notin W, Silent(W)
      PROVE  Silent(W)'
  BY <1>0, <1>2 DEF Silent
<1>3. ASSUME flash'[Offset] \notin W, NEW p \in Cells, LastAt(W, p)
      PROVE  LastAt(W, p)' /\ flash'[p] = flash[p]
  BY <1>0, <1>3 DEF LastAt
<1>. QED  BY <1>1, <1>2, <1>3

\* Nor does it change while the records before the end do not.
LEMMA WordsKept ==
  ASSUME Offset' = Offset, \A p \in Cells : p < Offset => flash'[p] = flash[p]
  PROVE  /\ \A W : Silent(W)' <=> Silent(W)
         /\ \A W : \A p \in Cells :
              LastAt(W, p) => LastAt(W, p)' /\ flash'[p] = flash[p]
         /\ NoTear' <=> NoTear
  BY DEF Silent, LastAt, NoTear

\* What a record does to the rows it is about, and to no other.
LEMMA AppliedRows ==
  ASSUME TypeOK, NEW c \in CatalogType, NEW r \in Records, Precedes(c, r),
         ~TableFull(catalog, r)
  PROVE  /\ \A i \in RecordIds :
              Applied(c, r).entities[i] =
                IF r \in EntityWords(i)
                THEN IF r.type = "entity" THEN r.entity ELSE Absent
                ELSE Entities[i]
         /\ \A i \in RecordIds :
              Applied(c, r).identities[i] =
                IF r \in IdentityWords(i)
                THEN IF r.type = "identity" THEN r.name ELSE Absent
                ELSE Identities[i]
         /\ \A b \in BlobIds :
              Applied(c, r).blobs[b] =
                IF r \in BlobWords(b) THEN [offset |-> Offset, crc |-> r.img]
                ELSE catalog.blobs[b]
         /\ Applied(c, r).usb_mode = IF r \in ModeWords THEN r.mode
                                     ELSE catalog.usb_mode
<1>0. /\ c.entities = Entities /\ c.identities = Identities
      /\ c.blobs = catalog.blobs /\ c.write_offset = Offset
  BY DEF Precedes, SameTables, Entities, Identities, Offset
<1>1. CASE r.type = "entity"
  <2>1. /\ r.id \in RecordIds /\ HasRoom(c.entities, r.id, MaxEntities)
        /\ r \notin ModeWords
        /\ \A i \in RecordIds : r \in EntityWords(i) <=> i = r.id
        /\ \A i \in RecordIds : r \notin IdentityWords(i)
        /\ \A b \in BlobIds : r \notin BlobWords(b)
    BY <1>0, <1>1, RecordShape
       DEF TableFull, Entities, Identities, EntityWords, IdentityWords, BlobWords,
           ModeWords
  <2>2. Applied(c, r) = [c EXCEPT !.entities = [c.entities EXCEPT ![r.id] = r.entity],
                                  !.write_offset = Offset + 1]
    BY <1>0, <1>1, <2>1 DEF Applied, Tables, Put, CatalogType
  <2>3. r # ConfigRec(c.usb_mode)
    BY <1>1 DEF ConfigRec
  <2>. QED  BY <1>0, <1>1, <2>1, <2>2, <2>3 DEF CatalogType, Precedes
<1>2. CASE r.type = "entityDel"
  <2>1. /\ r.id \in RecordIds
        /\ r \notin ModeWords
        /\ \A i \in RecordIds : r \in EntityWords(i) <=> i = r.id
        /\ \A i \in RecordIds : r \notin IdentityWords(i)
        /\ \A b \in BlobIds : r \notin BlobWords(b)
    BY <1>2, RecordShape DEF EntityWords, IdentityWords, BlobWords, ModeWords
  <2>2. Applied(c, r) = [c EXCEPT !.entities = [c.entities EXCEPT ![r.id] = Absent],
                                  !.write_offset = Offset + 1]
    BY <1>0, <1>2, <2>1 DEF Applied, Tables, CatalogType
  <2>3. r # ConfigRec(c.usb_mode)
    BY <1>2 DEF ConfigRec
  <2>. QED  BY <1>0, <1>2, <2>1, <2>2, <2>3 DEF CatalogType, Precedes
<1>3. CASE r.type = "identity"
  <2>1. /\ r.id \in RecordIds /\ HasRoom(c.identities, r.id, MaxIdentities)
        /\ r \notin ModeWords
        /\ \A i \in RecordIds : r \in IdentityWords(i) <=> i = r.id
        /\ \A i \in RecordIds : r \notin EntityWords(i)
        /\ \A b \in BlobIds : r \notin BlobWords(b)
    BY <1>0, <1>3, RecordShape
       DEF TableFull, Entities, Identities, EntityWords, IdentityWords, BlobWords,
           ModeWords
  <2>2. Applied(c, r) = [c EXCEPT !.identities = [c.identities EXCEPT ![r.id] = r.name],
                                  !.write_offset = Offset + 1]
    BY <1>0, <1>3, <2>1 DEF Applied, Tables, Put, CatalogType
  <2>3. r # ConfigRec(c.usb_mode)
    BY <1>3 DEF ConfigRec
  <2>. QED  BY <1>0, <1>3, <2>1, <2>2, <2>3 DEF CatalogType, Precedes
<1>4. CASE r.type = "identityDel"
  <2>1. /\ r.id \in RecordIds
        /\ r \notin ModeWords
        /\ \A i \in RecordIds : r \in IdentityWords(i) <=> i = r.id
        /\ \A i \in RecordIds : r \notin EntityWords(i)
        /\ \A b \in BlobIds : r \notin BlobWords(b)
    BY <1>4, RecordShape DEF EntityWords, IdentityWords, BlobWords, ModeWords
  <2>2. Applied(c, r) = [c EXCEPT !.identities = [c.identities EXCEPT ![r.id] = Absent],
                                  !.write_offset = Offset + 1]
    BY <1>0, <1>4, <2>1 DEF Applied, Tables, CatalogType
  <2>3. r # ConfigRec(c.usb_mode)
    BY <1>4 DEF ConfigRec
  <2>. QED  BY <1>0, <1>4, <2>1, <2>2, <2>3 DEF CatalogType, Precedes
<1>5. CASE r.type = "blob"
  <2>1. /\ r.id \in BlobIds /\ HasRoom(c.blobs, r.id, MaxEntities)
        /\ r \notin ModeWords
        /\ \A b \in BlobIds : r \in BlobWords(b) <=> b = r.id
        /\ \A i \in RecordIds : r \notin EntityWords(i) /\ r \notin IdentityWords(i)
    BY <1>0, <1>5, RecordShape
       DEF TableFull, Entities, Identities, EntityWords, IdentityWords, BlobWords,
           ModeWords
  <2>2. Applied(c, r) =
          [c EXCEPT !.blobs = [c.blobs EXCEPT ![r.id] = [offset |-> Offset, crc |-> r.img]],
                    !.write_offset = Offset + 1]
    BY <1>0, <1>5, <2>1 DEF Applied, Tables, Put, CatalogType
  <2>3. r # ConfigRec(c.usb_mode)
    BY <1>5 DEF ConfigRec
  <2>. QED  BY <1>0, <1>5, <2>1, <2>2, <2>3 DEF CatalogType, Precedes
<1>6. CASE r.type \in {"config", "marker"}
  <2>1. /\ r \in ModeWords <=> r.type = "config"
        /\ \A b \in BlobIds : r \notin BlobWords(b)
        /\ \A i \in RecordIds : r \notin EntityWords(i) /\ r \notin IdentityWords(i)
    BY <1>6 DEF EntityWords, IdentityWords, BlobWords, ModeWords
  <2>2. CASE r.type = "config"
    BY <1>0, <2>1, <2>2 DEF Applied, Tables, CatalogType
  <2>3. CASE r.type = "marker"
    <3>1. r # ConfigRec(c.usb_mode)
      BY <2>3 DEF ConfigRec
    <3>. QED  BY <1>0, <2>1, <2>3, <3>1 DEF Applied, Tables, CatalogType, Precedes
  <2>. QED  BY <1>6, <2>2, <2>3
<1>. QED  BY <1>1, <1>2, <1>3, <1>4, <1>5, <1>6, RecordShape

\* A record that finds its table full does nothing to the tables.
LEMMA AppliedToFull ==
  ASSUME NEW c \in CatalogType, NEW r \in Records, Precedes(c, r),
         TableFull(catalog, r)
  PROVE  /\ Applied(c, r).entities = Entities
         /\ Applied(c, r).identities = Identities
         /\ Applied(c, r).blobs = catalog.blobs
<1>1. /\ c.entities = catalog.entities /\ c.identities = catalog.identities
      /\ c.blobs = catalog.blobs
  BY DEF Precedes, SameTables
<1>. QED  BY <1>1 DEF Applied, Tables, Put, TableFull, Entities, Identities, CatalogType

LEMMA ReplayedAppends ==
  ASSUME TypeOK, JournalInv, Replayed, NEW c \in CatalogType, NEW r \in Records,
         Appends(c, r), ~TableFull(catalog, r)
  PROVE  Replayed'
<1>. SUFFICES ASSUME NoTear'
              PROVE  /\ \A i \in RecordIds : EntityReplayed(i)' /\ IdentityReplayed(i)'
                     /\ \A b \in BlobIds : BlobReplayed(b)'
                     /\ ModeReplayed'
                     /\ ~catalog'.needs_format
  BY DEF Replayed
<1>0. /\ Offset \in Cells /\ Offset' = Offset + 1 /\ flash'[Offset] = r
      /\ \A p \in Cells : p # Offset => flash'[p] = flash[p]
      /\ catalog'.needs_format = catalog.needs_format
      /\ NoTear /\ catalog' = Applied(c, r) /\ Precedes(c, r)
  BY AppendMoves DEF Appends
<1>1. \A W : /\ r \in W => \E p \in Cells : p = Offset /\ LastAt(W, p)'
             /\ r \notin W =>
                  /\ Silent(W) => Silent(W)'
                  /\ \A p \in Cells : LastAt(W, p) => LastAt(W, p)' /\ flash'[p] = flash[p]
  BY <1>0, WordsExtended
<1>2. ASSUME NEW i \in RecordIds PROVE EntityReplayed(i)'
  <2>1. Entities'[i] = IF r \in EntityWords(i)
                       THEN IF r.type = "entity" THEN r.entity ELSE Absent
                       ELSE Entities[i]
    BY <1>0, AppliedRows DEF Entities
  <2>2. CASE r \in EntityWords(i)
    <3>1. PICK p \in Cells : p = Offset /\ LastAt(EntityWords(i), p)'
      BY <1>1, <2>2
    <3>. QED  BY <1>0, <2>1, <2>2, <3>1 DEF EntityReplayed
  <2>3. CASE r \notin EntityWords(i)
    <3>1. EntityReplayed(i)
      BY <1>0 DEF Replayed
    <3>. QED  BY <1>1, <2>1, <2>3, <3>1 DEF EntityReplayed
  <2>. QED  BY <2>2, <2>3
<1>3. ASSUME NEW i \in RecordIds PROVE IdentityReplayed(i)'
  <2>1. Identities'[i] = IF r \in IdentityWords(i)
                         THEN IF r.type = "identity" THEN r.name ELSE Absent
                         ELSE Identities[i]
    BY <1>0, AppliedRows DEF Identities
  <2>2. CASE r \in IdentityWords(i)
    <3>1. PICK p \in Cells : p = Offset /\ LastAt(IdentityWords(i), p)'
      BY <1>1, <2>2
    <3>. QED  BY <1>0, <2>1, <2>2, <3>1 DEF IdentityReplayed
  <2>3. CASE r \notin IdentityWords(i)
    <3>1. IdentityReplayed(i)
      BY <1>0 DEF Replayed
    <3>. QED  BY <1>1, <2>1, <2>3, <3>1 DEF IdentityReplayed
  <2>. QED  BY <2>2, <2>3
<1>4. ASSUME NEW b \in BlobIds PROVE BlobReplayed(b)'
  <2>1. catalog'.blobs[b] = IF r \in BlobWords(b) THEN [offset |-> Offset, crc |-> r.img]
                            ELSE catalog.blobs[b]
    BY <1>0, AppliedRows
  <2>2. CASE r \in BlobWords(b)
    <3>1. PICK p \in Cells : p = Offset /\ LastAt(BlobWords(b), p)'
      BY <1>1, <2>2
    <3>. QED  BY <1>0, <2>1, <2>2, <3>1 DEF BlobReplayed
  <2>3. CASE r \notin BlobWords(b)
    <3>1. BlobReplayed(b)
      BY <1>0 DEF Replayed
    <3>. QED  BY <1>1, <2>1, <2>3, <3>1 DEF BlobReplayed
  <2>. QED  BY <2>2, <2>3
<1>5. ModeReplayed'
  <2>1. catalog'.usb_mode = IF r \in ModeWords THEN r.mode ELSE catalog.usb_mode
    BY <1>0, AppliedRows
  <2>2. CASE r \in ModeWords
    <3>1. PICK p \in Cells : p = Offset /\ LastAt(ModeWords, p)'
      BY <1>1, <2>2
    <3>. QED  BY <1>0, <2>1, <2>2, <3>1 DEF ModeReplayed
  <2>3. CASE r \notin ModeWords
    <3>1. ModeReplayed
      BY <1>0 DEF Replayed, Appends
    <3>. QED  BY <1>1, <2>1, <2>3, <3>1 DEF ModeReplayed
  <2>. QED  BY <2>2, <2>3
<1>6. ~catalog.needs_format
  <2>1. CASE pc = "scan"
    BY <1>0, <2>1, CellKinds DEF Appends, Replayed
  <2>2. CASE pc # "scan"
    BY <2>2 DEF Appends, Writable
  <2>. QED  BY <2>1, <2>2
<1>. QED  BY <1>0, <1>2, <1>3, <1>4, <1>5, <1>6

\* Neither the rows nor the records before the end change.
LEMMA ReplayedRowsKept ==
  ASSUME TypeOK, Replayed, NoTear, SameRows,
         \A p \in Cells : p < Offset => flash'[p] = flash[p]
  PROVE  /\ \A i \in RecordIds : EntityReplayed(i)' /\ IdentityReplayed(i)'
         /\ \A b \in BlobIds : BlobReplayed(b)'
         /\ ModeReplayed /\ catalog'.usb_mode = catalog.usb_mode => ModeReplayed'
<1>0. Offset' = Offset
  BY DEF SameRows, Offset
<1>1. /\ \A W : Silent(W)' <=> Silent(W)
      /\ \A W : \A p \in Cells :
           LastAt(W, p) => LastAt(W, p)' /\ flash'[p] = flash[p]
  BY <1>0, WordsKept
<1>2. ASSUME NEW i \in RecordIds PROVE EntityReplayed(i)'
  <2>1. EntityReplayed(i) /\ Entities'[i] = Entities[i]
    BY DEF Replayed, SameRows, Entities
  <2>. QED  BY <1>1, <2>1 DEF EntityReplayed
<1>3. ASSUME NEW i \in RecordIds PROVE IdentityReplayed(i)'
  <2>1. IdentityReplayed(i) /\ Identities'[i] = Identities[i]
    BY DEF Replayed, SameRows, Identities
  <2>. QED  BY <1>1, <2>1 DEF IdentityReplayed
<1>4. ASSUME NEW b \in BlobIds PROVE BlobReplayed(b)'
  <2>1. BlobReplayed(b) /\ catalog'.blobs[b] = catalog.blobs[b]
    BY DEF Replayed, SameRows
  <2>. QED  BY <1>1, <2>1 DEF BlobReplayed
<1>5. ASSUME ModeReplayed, catalog'.usb_mode = catalog.usb_mode PROVE ModeReplayed'
  BY <1>1, <1>5 DEF ModeReplayed
<1>. QED  BY <1>2, <1>3, <1>4, <1>5

LEMMA ReplayedKeeps ==
  ASSUME TypeOK, JournalInv, Replayed, Keeps
  PROVE  Replayed'
<1>0. /\ Offset' = Offset /\ Offset \in 0 .. Cap /\ Cap \in Nat /\ pc' # "scan"
      /\ catalog'.write_offset = Offset /\ catalog.write_offset = Offset
      /\ Writable(catalog') <=> Writable(catalog)
      /\ SameRows /\ catalog'.needs_format = catalog.needs_format
  BY CatalogAssumption DEF Keeps, SameRows, Offset, TypeOK, CatalogType, Writable
<1>1. \A p \in Cells : p < Offset => flash'[p] = flash[p]
  BY <1>0 DEF Keeps, Cells, TypeOK
<1>. SUFFICES ASSUME NoTear'
              PROVE  /\ \A i \in RecordIds : EntityReplayed(i)' /\ IdentityReplayed(i)'
                     /\ \A b \in BlobIds : BlobReplayed(b)'
                     /\ Writable(catalog') => ModeReplayed'
                     /\ catalog.needs_format => Offset = 0 /\ flash'[0] = Torn
  BY <1>0 DEF Replayed
<1>2. NoTear
  BY <1>0, <1>1, WordsKept
<1>3. ASSUME Writable(catalog)
      PROVE  ModeReplayed /\ catalog'.usb_mode = catalog.usb_mode
  <2>1. flash[Offset] = Erased
    BY <1>0, <1>2, <1>3, NeverSpoils DEF Keeps, Writable
  <2>. QED  BY <1>2, <1>3, <2>1 DEF Keeps, Replayed
<1>4. ASSUME catalog.needs_format PROVE Offset = 0 /\ flash'[0] = Torn
  <2>1. flash' = flash
    BY <1>4 DEF Keeps, Writable
  <2>. QED  BY <1>2, <1>4, <2>1 DEF Replayed
<1>. QED  BY <1>0, <1>1, <1>2, <1>3, <1>4, ReplayedRowsKept

LEMMA ReplayedCorrupt ==
  ASSUME TypeOK, JournalInv, Replayed, ScanCorrupt
  PROVE  Replayed'
<1>0. /\ Offset \in Cells /\ flash' = flash /\ flash[Offset] = Torn /\ pc' = "idle"
      /\ \A p \in Cells : p \in Nat
  BY CatalogAssumption DEF ScanCorrupt, Offset, TypeOK, CatalogType, Cells
<1>1. CASE Offset = 0
  <2>1. /\ SameRows /\ Offset' = Offset /\ ~Writable(catalog')
    BY <1>0, <1>1 DEF ScanCorrupt, Offset, TypeOK, CatalogType, Writable, SameRows
  <2>2. NoTear
    BY <1>0, <1>1 DEF NoTear
  <2>. QED  BY <1>0, <1>1, <2>1, <2>2, ReplayedRowsKept DEF Replayed
<1>2. CASE Offset # 0
  <2>1. Offset' = NextSector(Offset) /\ Offset < Offset'
    BY <1>0, <1>2, NextSectorBounds DEF ScanCorrupt, Offset, TypeOK, CatalogType
  <2>2. ~NoTear'
    BY <1>0, <2>1 DEF NoTear
  <2>. QED  BY <2>2 DEF Replayed
<1>. QED  BY <1>1, <1>2

LEMMA ReplayedNothing ==
  ASSUME StartsOver
  PROVE  Replayed'
<1>1. \A W : Silent(W)'
  BY CatalogAssumption DEF Silent, StartsOver, Offset, Cells
<1>2. /\ \A i \in RecordIds : Entities'[i] = Absent /\ Identities'[i] = Absent
      /\ \A b \in BlobIds : catalog'.blobs[b] = Absent
      /\ catalog'.usb_mode = "skylanders" /\ ~catalog'.needs_format
  BY DEF StartsOver, NewCatalog, Entities, Identities
<1>. QED  BY <1>1, <1>2
          DEF Replayed, EntityReplayed, IdentityReplayed, BlobReplayed, ModeReplayed

LEMMA ReplayedInit == Init => Replayed
<1>. SUFFICES ASSUME Init PROVE Replayed
  OBVIOUS
<1>1. \A W : Silent(W)
  BY CatalogAssumption DEF Silent, Init, NewCatalog, Offset, Cells
<1>2. /\ \A i \in RecordIds : Entities[i] = Absent /\ Identities[i] = Absent
      /\ \A b \in BlobIds : catalog.blobs[b] = Absent
      /\ catalog.usb_mode = "skylanders" /\ ~catalog.needs_format
  BY DEF Init, NewCatalog, Entities, Identities
<1>. QED  BY <1>1, <1>2
          DEF Replayed, EntityReplayed, IdentityReplayed, BlobReplayed, ModeReplayed

LEMMA ReplayedNext ==
  ASSUME TypeOK, WholeErases, RewriteRoom, JournalInv, JournalFits, Replayed,
         [Next]_vars, [~RefusedAsFull]_vars
  PROVE  Replayed'
<1>1. CASE UNCHANGED vars
  <2>1. SameRows /\ Offset' = Offset /\ (NoTear' <=> NoTear) /\ flash' = flash
        /\ catalog' = catalog /\ pc' = pc
    BY <1>1 DEF vars, SameRows, Offset, NoTear
  <2>2. NoTear => /\ \A i \in RecordIds : EntityReplayed(i)' /\ IdentityReplayed(i)'
                  /\ \A b \in BlobIds : BlobReplayed(b)'
                  /\ ModeReplayed => ModeReplayed'
    BY <2>1, ReplayedRowsKept
  <2>. QED  BY <2>1, <2>2 DEF Replayed, Writable
<1>2. ASSUME ~RefusedAsFull, NEW c \in CatalogType, NEW r \in Records, Appends(c, r)
      PROVE  Replayed'
  BY <1>2, AppendFits, ReplayedAppends
<1>. QED  BY <1>1, <1>2, StepKind, ReplayedKeeps, ReplayedCorrupt,
             ReplayedNothing, ScanNeverFull DEF JournalStep

(***************************************************************************)
(* From there to what Durability defines: once it is scanned, the journal  *)
(* ends at the append position.                                            *)
(***************************************************************************)
LEMMA JournalEndsAtOffset ==
  ASSUME TypeOK, JournalInv, Replayed, pc # "scan", NoTear
  PROVE  JournalEnd = Offset
<1>. DEFINE ends == {p \in Cells : flash[p] \in {Erased, Torn}} \union {Cap}
<1>0. Offset \in 0 .. Cap /\ Cap \in Nat /\ catalog.write_offset = Offset
  BY CatalogAssumption DEF TypeOK, CatalogType, Offset
<1>1. Unbroken(Offset)
  BY DEF JournalInv
<1>2. Offset \in ends
  <2>1. CASE Offset = Cap
    BY <2>1
  <2>2. CASE Offset # Cap /\ catalog.needs_format
    BY <1>0, <2>2 DEF Replayed, Cells
  <2>3. CASE Offset # Cap /\ ~catalog.needs_format
    <3>1. Writable(catalog) /\ Offset \in Cells
      BY <1>0, <2>3 DEF Writable, Cells
    <3>. QED  BY <3>1, NeverSpoils
  <2>. QED  BY <2>1, <2>2, <2>3
<1>3. \A p \in ends : p \in Nat /\ Offset <= p
  BY <1>0, <1>1, CellKinds DEF Unbroken, Cells
<1>4. \A e \in ends : (\A p \in ends : e <= p) => e = Offset
  BY <1>0, <1>2, <1>3
<1>5. JournalEnd = CHOOSE e \in ends : \A p \in ends : e <= p
  BY DEF JournalEnd
<1>. HIDE DEF ends
<1>. QED  BY <1>2, <1>3, <1>4, <1>5

\* The cells the journal has about something, and the last of them.
LEMMA LatestWord ==
  ASSUME TypeOK, JournalInv, NoTear, JournalEnd = Offset, NEW W \in SUBSET Records,
         NEW about, about = {p \in Journal : flash[p] \in W}
  PROVE  /\ Silent(W) => about = {}
         /\ \A p \in Cells : LastAt(W, p) => about # {} /\ Latest(about) = p
<1>0. /\ Offset \in 0 .. Cap /\ Cap \in Nat
      /\ \A p \in Cells : p \in Nat
      /\ \A p : p \in Journal <=> p \in Cells /\ p < Offset
  BY CatalogAssumption DEF TypeOK, CatalogType, Offset, Journal, Cells
<1>1. Silent(W) => about = {}
  BY <1>0 DEF Silent
<1>2. ASSUME NEW p \in Cells, LastAt(W, p)
      PROVE  about # {} /\ Latest(about) = p
  <2>1. p \in about /\ \A q \in about : q \in Nat /\ q <= p
    BY <1>0, <1>2 DEF LastAt
  <2>2. \A e \in about : (\A q \in about : q <= e) => e = p
    BY <1>0, <2>1
  <2>. QED  BY <2>1, <2>2 DEF Latest
<1>. QED  BY <1>1, <1>2

\* After the boot, and until something is torn, the last word of the journal
\* about anything is what the catalog has.
LEMMA JournalHasLastWord ==
  ASSUME TypeOK, JournalInv, Replayed, pc # "scan", NoTear
  PROVE  /\ \A i \in RecordIds : Entities[i] = DurableEntity(i)
         /\ \A i \in RecordIds : Identities[i] = DurableIdentity(i)
         /\ \A b \in BlobIds : ReadBlob(b) = DurableBlob(b)
         /\ Writable(catalog) => catalog.usb_mode = DurableMode
<1>0. JournalEnd = Offset
  BY JournalEndsAtOffset
<1>1. \A p \in Journal : p \in Cells /\ p < Offset /\ flash[p] \in Records
  <2>1. Unbroken(Offset)
    BY DEF JournalInv
  <2>2. Offset \in 0 .. Cap /\ Cap \in Nat
    BY CatalogAssumption DEF TypeOK, CatalogType, Offset
  <2>3. \A p \in Journal : p \in Cells /\ p < Offset
    BY <1>0, <2>2 DEF Journal, Cells
  <2>. QED  BY <2>1, <2>3 DEF Unbroken
<1>2. ASSUME NEW i \in RecordIds PROVE Entities[i] = DurableEntity(i)
  <2>1. About({"entity", "entityDel"}, i) = {p \in Journal : flash[p] \in EntityWords(i)}
    BY <1>1 DEF About, EntityWords
  <2>2. EntityReplayed(i)
    BY DEF Replayed
  <2>3. EntityWords(i) \in SUBSET Records
    BY DEF EntityWords
  <2>4. CASE Silent(EntityWords(i)) /\ Entities[i] = Absent
    <3>1. About({"entity", "entityDel"}, i) = {}
      BY <1>0, <2>1, <2>3, <2>4, LatestWord
    <3>. QED  BY <2>4, <3>1 DEF DurableEntity
  <2>5. ASSUME NEW p \in Cells, LastAt(EntityWords(i), p),
               Entities[i] = IF flash[p].type = "entity" THEN flash[p].entity ELSE Absent
        PROVE  Entities[i] = DurableEntity(i)
    <3>1. /\ About({"entity", "entityDel"}, i) # {}
          /\ Latest(About({"entity", "entityDel"}, i)) = p
      BY <1>0, <2>1, <2>3, <2>5, LatestWord
    <3>2. flash[p].type \in {"entity", "entityDel"}
      BY <2>5 DEF LastAt, EntityWords
    <3>. QED  BY <2>5, <3>1, <3>2 DEF DurableEntity
  <2>. QED  BY <2>2, <2>4, <2>5 DEF EntityReplayed
<1>3. ASSUME NEW i \in RecordIds PROVE Identities[i] = DurableIdentity(i)
  <2>1. About({"identity", "identityDel"}, i)
          = {p \in Journal : flash[p] \in IdentityWords(i)}
    BY <1>1 DEF About, IdentityWords
  <2>2. IdentityReplayed(i)
    BY DEF Replayed
  <2>3. IdentityWords(i) \in SUBSET Records
    BY DEF IdentityWords
  <2>4. CASE Silent(IdentityWords(i)) /\ Identities[i] = Absent
    <3>1. About({"identity", "identityDel"}, i) = {}
      BY <1>0, <2>1, <2>3, <2>4, LatestWord
    <3>. QED  BY <2>4, <3>1 DEF DurableIdentity
  <2>5. ASSUME NEW p \in Cells, LastAt(IdentityWords(i), p),
               Identities[i] = IF flash[p].type = "identity" THEN flash[p].name ELSE Absent
        PROVE  Identities[i] = DurableIdentity(i)
    <3>1. /\ About({"identity", "identityDel"}, i) # {}
          /\ Latest(About({"identity", "identityDel"}, i)) = p
      BY <1>0, <2>1, <2>3, <2>5, LatestWord
    <3>2. flash[p].type \in {"identity", "identityDel"}
      BY <2>5 DEF LastAt, IdentityWords
    <3>. QED  BY <2>5, <3>1, <3>2 DEF DurableIdentity
  <2>. QED  BY <2>2, <2>4, <2>5 DEF IdentityReplayed
<1>4. ASSUME NEW b \in BlobIds PROVE ReadBlob(b) = DurableBlob(b)
  <2>1. About({"blob"}, b) = {p \in Journal : flash[p] \in BlobWords(b)}
    BY <1>1 DEF About, BlobWords
  <2>2. BlobReplayed(b)
    BY DEF Replayed
  <2>3. BlobWords(b) \in SUBSET Records
    BY DEF BlobWords
  <2>4. CASE Silent(BlobWords(b)) /\ catalog.blobs[b] = Absent
    <3>1. About({"blob"}, b) = {}
      BY <1>0, <2>1, <2>3, <2>4, LatestWord
    <3>. QED  BY <2>4, <3>1 DEF DurableBlob, ReadBlob
  <2>5. ASSUME NEW p \in Cells, LastAt(BlobWords(b), p),
               catalog.blobs[b] = [offset |-> p, crc |-> flash[p].img]
        PROVE  ReadBlob(b) = DurableBlob(b)
    <3>1. About({"blob"}, b) # {} /\ Latest(About({"blob"}, b)) = p
      BY <1>0, <2>1, <2>3, <2>5, LatestWord
    <3>2. flash[p] \in BlobRecords /\ flash[p].img \in Images
      <4>1. flash[p] \in Records /\ flash[p].type = "blob"
        BY <2>5 DEF LastAt, BlobWords
      <4>. QED  BY <4>1, RecordShape DEF BlobRecords
    <3>3. catalog.blobs[b] # Absent
      <4>1. catalog.blobs[b] \in StoredBlob
        BY <2>5, <3>2 DEF StoredBlob
      <4>. QED  BY <4>1, AbsentAssumption
    <3>. QED  BY <2>5, <3>1, <3>2, <3>3 DEF DurableBlob, ReadBlob
  <2>. QED  BY <2>2, <2>4, <2>5 DEF BlobReplayed
<1>5. ASSUME Writable(catalog) PROVE catalog.usb_mode = DurableMode
  <2>. DEFINE about == {p \in Journal : flash[p].type = "config"}
  <2>1. about = {p \in Journal : flash[p] \in ModeWords}
    BY <1>1 DEF ModeWords
  <2>2. ModeReplayed
    BY <1>5 DEF Replayed
  <2>3. ModeWords \in SUBSET Records
    BY DEF ModeWords
  <2>. HIDE DEF about
  <2>4. CASE Silent(ModeWords) /\ catalog.usb_mode = "skylanders"
    <3>1. about = {}
      BY <1>0, <2>1, <2>3, <2>4, LatestWord
    <3>. QED  BY <2>4, <3>1 DEF DurableMode, about
  <2>5. ASSUME NEW p \in Cells, LastAt(ModeWords, p), catalog.usb_mode = flash[p].mode
        PROVE  catalog.usb_mode = DurableMode
    <3>1. about # {} /\ Latest(about) = p
      BY <1>0, <2>1, <2>3, <2>5, LatestWord
    <3>. QED  BY <2>5, <3>1 DEF DurableMode, about
  <2>. QED  BY <2>2, <2>4, <2>5 DEF ModeReplayed
<1>. QED  BY <1>2, <1>3, <1>4, <1>5

LEMMA LibraryIsDurable ==
  ASSUME TypeOK, JournalInv, Replayed, pc = "idle", NoTear
  PROVE  SameLibrary
<1>1. ASSUME NEW i \in RecordIds PROVE RamFigure(i) = DurableFigure(i)
  <2>1. Entities[i] = DurableEntity(i)
    BY JournalHasLastWord
  <2>2. CASE BlobOf(Entities[i]) = 0
    BY <2>1, <2>2 DEF RamFigure, DurableFigure
  <2>3. CASE BlobOf(Entities[i]) # 0
    <3>1. Entities[i].blob \in BlobIds
      BY <2>3 DEF BlobOf, TypeOK, CatalogType, Entity, Entities
    <3>2. ReadBlob(Entities[i].blob) = DurableBlob(Entities[i].blob)
      BY <3>1, JournalHasLastWord
    <3>. QED  BY <2>1, <3>2 DEF RamFigure, DurableFigure
  <2>. QED  BY <2>2, <2>3
<1>. QED  BY <1>1, JournalHasLastWord DEF SameLibrary

(***************************************************************************)
(* The theorems.                                                           *)
(***************************************************************************)
\* A compaction never finds a table full, whatever happened before.
LEMMA RoomInvariant == Spec => [](TablesFit /\ RewriteRoom)
<1>1. Init => TablesFit /\ RewriteRoom
  BY TablesInit, RoomInit
<1>2. TypeOK /\ TablesFit /\ RewriteRoom /\ [Next]_vars => (TablesFit /\ RewriteRoom)'
  BY TablesNext, RoomNext
<1>. QED  BY <1>1, <1>2, TypeCorrect, PTL DEF Spec

\* The invariants in every reachable state, as long as no operation was
\* answered Full.
LEMMA ReplayInvariant ==
  ASSUME WholeErases
  PROVE  Spec /\ [][~RefusedAsFull]_vars
           => [](TypeOK /\ JournalInv /\ Replayed /\ JournalFits)
<1>1. Init => JournalInv /\ Replayed /\ JournalFits
  BY JournalInit, ReplayedInit, FitsInit
<1>2. TypeOK /\ RewriteRoom /\ (JournalInv /\ Replayed /\ JournalFits)
        /\ [Next]_vars /\ [~RefusedAsFull]_vars
      => (JournalInv /\ Replayed /\ JournalFits)'
  BY JournalNext, ReplayedNext, FitsNext
<1>. QED  BY <1>1, <1>2, RoomInvariant, TypeCorrect, PTL DEF Spec

\* As long as no operation was answered Full and every erase is whole, a torn
\* record is the only thing that can make the library on flash fall behind the
\* one in RAM (append_record, scan_flash, compact_store): LossOnlyAfterTear.
THEOREM LibraryOutlivesRestarts ==
  ASSUME WholeErases
  PROVE  Spec /\ [][~RefusedAsFull]_vars => []LossOnlyAfterTear
<1>1. TypeOK /\ JournalInv /\ Replayed => LossOnlyAfterTear
  BY LibraryIsDurable DEF LossOnlyAfterTear
<1>. QED  BY <1>1, ReplayInvariant, PTL

\* Under the same conditions the USB mode in RAM is the one of the next boot,
\* unless its record was refused (set_usb_mode_from_params):
\* ModeDivergesOnlyWhenRefused.
THEOREM ModeOutlivesRestarts ==
  ASSUME WholeErases
  PROVE  Spec /\ [][~RefusedAsFull]_vars => []ModeDivergesOnlyWhenRefused
<1>1. TypeOK /\ JournalInv /\ Replayed => ModeDivergesOnlyWhenRefused
  BY JournalHasLastWord DEF ModeDivergesOnlyWhenRefused
<1>. QED  BY <1>1, ReplayInvariant, PTL

\* If power also never fails while a record is programmed, a restart between
\* operations brings back exactly the library users were shown, however often
\* it restarted before, in the middle of operations and of compactions:
\* RebootSafe.
THEOREM RestartBringsBackLibrary ==
  ASSUME WholeErases, WholeWrites
  PROVE  Spec /\ [][~RefusedAsFull]_vars => []RebootSafe
<1>1. Init => NoTorn
  BY NoTornInit
<1>2. TypeOK /\ JournalInv /\ NoTorn /\ [Next]_vars => NoTorn'
  BY NoTornNext
<1>3. TypeOK /\ JournalInv /\ Replayed /\ NoTorn => RebootSafe
  BY LibraryIsDurable DEF RebootSafe, NoTorn, NoTear
<1>. QED  BY <1>1, <1>2, <1>3, ReplayInvariant, PTL DEF Spec

\* A boot asks for a format only if the first record is damaged: whatever is in
\* the tables, unless an operation that was answered Full left its record
\* behind (init, append_entity_record): OnlyDamageNeedsFormat.
THEOREM OnlyDamageStopsBoots ==
  ASSUME WholeErases
  PROVE  Spec /\ [][~RefusedAsFull]_vars => []OnlyDamageNeedsFormat
<1>1. TypeOK /\ Replayed => OnlyDamageNeedsFormat
  <2>. SUFFICES ASSUME TypeOK, Replayed, catalog.needs_format
                PROVE  \E p \in Cells : flash[p] = Torn
    BY DEF OnlyDamageNeedsFormat
  <2>1. 0 \in Cells
    BY CatalogAssumption DEF Cells
  <2>2. NoTear => flash[0] = Torn
    BY DEF Replayed
  <2>. QED  BY <2>1, <2>2 DEF NoTear
<1>. QED  BY <1>1, ReplayInvariant, PTL

(***************************************************************************)
(* BlobsReadable: no figure loses its image.                               *)
(***************************************************************************)
\* The blob that entity e refers to, if any, is in the table.
HasBlob(e) == e.blob # 0 => catalog.blobs[e.blob] # Absent

\* What is about to be written refers to blobs that are there, or that a
\* compaction writes first.
JobHasBlobs ==
  /\ pc = "entity" => HasBlob(job.ent)
  /\ pc = "rewrite" =>
       \A r \in job.todo :
         r.type = "entity" =>
           HasBlob(r.entity) \/ \E s \in job.todo : s \in BlobWords(r.entity.blob)

\* In the part of the journal that boots replay, blobs come before the
\* entities that refer to them.
JournalHasBlobs ==
  \A p \in Cells :
    /\ Unbroken(p) /\ flash[p] \in Records
    /\ flash[p].type = "entity" /\ flash[p].entity.blob # 0
    => \E q \in Cells : q < p /\ flash[q] \in BlobWords(flash[p].entity.blob)

\* A boot has put in the table every blob it came across.
ScannedBlobs ==
  pc = "scan" =>
    \A p \in Cells, b \in BlobIds :
      p < Offset /\ flash[p] \in BlobWords(b) => catalog.blobs[b] # Absent

BlobsInv ==
  /\ \A i \in RecordIds : Entities[i] # Absent => HasBlob(Entities[i])
  /\ JobHasBlobs
  /\ JournalHasBlobs
  /\ ScannedBlobs

\* An entity record that an operation adds has its blob.
AddsWithBlob ==
  pc # "scan" /\ Offset' = Offset + 1 /\ flash'[Offset].type = "entity" =>
    HasBlob(flash'[Offset].entity)

LEMMA CommitAddsWithBlob ==
  ASSUME TypeOK, NEW c \in CatalogType, c.write_offset = Offset, NEW r \in Records,
         r.type = "entity" => HasBlob(r.entity), CommitNamed(c, r)
  PROVE  AddsWithBlob
<1>0. Offset \in Nat
  BY CatalogAssumption DEF TypeOK, CatalogType, Offset
<1>1. CASE Written(c, r)
  <2>1. Offset \in Cells
    BY <1>0, <1>1, CatalogAssumption DEF Written, Writable, Cells
  <2>2. flash'[Offset] = r
    BY <1>1, <2>1 DEF Written, TypeOK
  <2>. QED  BY <2>2 DEF AddsWithBlob
<1>2. CASE catalog' = c
  BY <1>0, <1>2 DEF AddsWithBlob, Offset
<1>. QED  BY <1>1, <1>2 DEF CommitNamed, Commit

\* append_blob leaves the entity record to come with its blob in the table.
LEMMA AppendBlobAdds ==
  ASSUME TypeOK, NEW c \in CatalogType, SameTables(c),
         c.next_blob_id <= MaxBlobId, NEW op, NEW id,
         NEW e \in Entity, NEW img \in Images, AppendBlob(c, op, id, e, img)
  PROVE  AddsWithBlob /\ JobHasBlobs'
<1>. DEFINE b == c.next_blob_id
            d == NewBlobId(c)
            r == BlobRec(b, img)
<1>1. /\ b \in BlobIds /\ r \in Records /\ d \in CatalogType
      /\ d.write_offset = Offset /\ c.write_offset = Offset
      /\ d.blobs = catalog.blobs
  <2>1. b \in BlobIds
    BY CatalogAssumption DEF CatalogType, BlobIds
  <2>. QED  BY <2>1, RecordsBuilt, CountersType
            DEF NewBlobId, CatalogType, SameTables, Offset
<1>2. CommitNamed(d, r) /\ r.type # "entity"
  BY DEF AppendBlob, CommitNamed, Commit, BlobRec
<1>3. AddsWithBlob
  BY <1>1, <1>2, CommitAddsWithBlob
<1>4. CASE Abort
  BY <1>3, <1>4 DEF Abort, JobHasBlobs
<1>5. CASE /\ Written(d, r) /\ catalog' = Applied(d, r)
           /\ ~TableFull(c, r)
           /\ pc' = "entity"
           /\ job' = [NoJob EXCEPT !.op = op, !.id = id, !.ent = [e EXCEPT !.blob = b]]
  <2>1. Offset \in Cells
    BY <1>1, <1>5, CatalogAssumption DEF Written, Writable, TypeOK, CatalogType, Cells, Offset
  <2>2. HasRoom(d.blobs, b, MaxEntities)
    BY <1>1, <1>5 DEF TableFull, BlobRec, SameTables
  <2>3. catalog'.blobs[b] = [offset |-> Offset, crc |-> img]
    BY <1>1, <1>5, <2>2 DEF Applied, Tables, Put, BlobRec, CatalogType
  <2>4. catalog'.blobs[b] # Absent
    BY <2>1, <2>3, AbsentAssumption DEF StoredBlob
  <2>5. job'.ent.blob = b
    BY <1>5 DEF NoJob, Entity
  <2>. QED  BY <1>3, <1>5, <2>4, <2>5 DEF JobHasBlobs, HasBlob
<1>. QED  BY <1>3, <1>4, <1>5 DEF AppendBlob

\* A compaction is to write back every blob an entity of its refers to.
LEMMA StartCompactAdds ==
  ASSUME TypeOK, BlobsInv, NEW then \in Jobs, StartCompact(then)
  PROVE  AddsWithBlob /\ JobHasBlobs'
<1>1. AddsWithBlob
  BY CatalogAssumption
     DEF AddsWithBlob, StartCompact, NewCatalog, Offset, TypeOK, CatalogType
<1>2. /\ pc' = "rewrite" /\ job'.todo = Snapshot /\ Snapshot \subseteq Records
  BY SnapshotType DEF StartCompact, Jobs, TypeOK
<1>3. ASSUME NEW r \in Snapshot, r.type = "entity"
      PROVE  HasBlob(r.entity)' \/ \E s \in Snapshot : s \in BlobWords(r.entity.blob)
  <2>1. PICK i \in RecordIds : Entities[i] # Absent /\ r = EntityRec(i, Entities[i])
    BY <1>3 DEF Snapshot, Marker, ConfigRec, BlobRec, IdentityRec
  <2>. DEFINE b == Entities[i].blob
  <2>2. r.entity = Entities[i] /\ Entities[i] \in Entity
    BY <2>1 DEF EntityRec, Entities, TypeOK, CatalogType
  <2>3. CASE b # 0
    <3>1. b \in BlobIds /\ catalog.blobs[b] # Absent
      BY <2>1, <2>2, <2>3 DEF BlobsInv, HasBlob, Entity
    <3>2. b \in LiveBlobs(catalog)
      BY <2>1, <3>1 DEF LiveBlobs, Entities
    <3>3. BlobRec(b, ReadBlob(b)) \in Snapshot
      BY <3>2 DEF Snapshot
    <3>4. BlobRec(b, ReadBlob(b)) \in BlobWords(b)
      BY <1>2, <3>3 DEF BlobRec, BlobWords
    <3>. QED  BY <2>2, <3>3, <3>4
  <2>4. CASE b = 0
    BY <2>2, <2>4 DEF HasBlob
  <2>. QED  BY <2>3, <2>4
<1>. QED  BY <1>1, <1>2, <1>3 DEF JobHasBlobs

\* The blobs of the table stay there when a record is applied.
LEMMA BlobRowsGrow ==
  ASSUME TypeOK, NEW c \in CatalogType, NEW r \in Records, Appends(c, r),
         NEW b \in BlobIds,
         catalog.blobs[b] # Absent \/ (r \in BlobWords(b) /\ ~TableFull(catalog, r))
  PROVE  catalog'.blobs[b] # Absent
<1>1. Offset \in Cells
  BY AppendMoves
<1>0. CASE TableFull(catalog, r)
  BY <1>0, AppliedToFull DEF Appends
<1>. SUFFICES ASSUME ~TableFull(catalog, r)
              PROVE  catalog'.blobs[b] # Absent
  BY <1>0
<1>2. catalog'.blobs[b] = IF r \in BlobWords(b) THEN [offset |-> Offset, crc |-> r.img]
                          ELSE catalog.blobs[b]
  BY AppliedRows DEF Appends
<1>3. CASE r \in BlobWords(b)
  <2>1. [offset |-> Offset, crc |-> r.img] \in StoredBlob
    BY <1>1, <1>3, RecordShape DEF BlobWords, StoredBlob
  <2>. QED  BY <1>2, <1>3, <2>1, AbsentAssumption
<1>. QED  BY <1>2, <1>3

\* Blobs are written back before the entities that refer to them.
LEMMA RewriteAdds ==
  ASSUME TypeOK, RewriteRoom, BlobsInv, NEW r \in job.todo, Rewrite(r)
  PROVE  AddsWithBlob /\ JobHasBlobs'
<1>. DEFINE c == IF r.type = "config" THEN [catalog EXCEPT !.usb_mode = r.mode]
                 ELSE catalog
<1>1. /\ job.todo \subseteq Records /\ r \in Records /\ c \in CatalogType
      /\ c.write_offset = Offset /\ c.blobs = catalog.blobs /\ pc = "rewrite"
      /\ c.needs_format = catalog.needs_format
  BY RecordShape DEF TypeOK, Jobs, CatalogType, Offset, Rewrite
<1>2. r.type = "entity" => HasBlob(r.entity)
  <2>1. SUFFICES ASSUME r.type = "entity", NEW s \in job.todo,
                        s \in BlobWords(r.entity.blob)
                 PROVE  FALSE
    BY <1>1 DEF BlobsInv, JobHasBlobs
  <2>2. s.type = "blob" /\ Rank(s) = 1 /\ Rank(r) = 3
    BY <2>1 DEF BlobWords, Rank
  <2>. QED  BY <2>2 DEF Rewrite
<1>3. CommitNamed(c, r)
  BY DEF Rewrite, CommitNamed, Commit
<1>4. AddsWithBlob
  BY <1>1, <1>2, <1>3, CommitAddsWithBlob
<1>5. CASE pc' # "rewrite"
  BY <1>4, <1>5 DEF JobHasBlobs, Rewrite, Abort
<1>6. CASE pc' = "rewrite"
  <2>1. /\ Written(c, r) /\ catalog' = Applied(c, r)
        /\ job' = [job EXCEPT !.todo = @ \ {r}]
    BY <1>6 DEF Rewrite, Abort
  <2>2. job'.todo = job.todo \ {r}
    BY <2>1 DEF TypeOK, Jobs
  <2>3. Precedes(c, r)
    <3>1. r.type = "config" => r = ConfigRec(r.mode)
      BY <1>1 DEF Records, BlobRecords, BlobRec, EntityRec, EntityDel, IdentityRec,
                  IdentityDel, ConfigRec, Marker
    <3>. QED  BY <3>1 DEF Precedes, SameTables, TypeOK, CatalogType
  <2>4. Appends(c, r)
    <3>. HIDE DEF c
    <3>. QED  BY <1>1, <1>6, <2>1, <2>3 DEF Appends, Written, Writable, Offset
  <2>5. \A b \in BlobIds : catalog.blobs[b] # Absent \/ r \in BlobWords(b)
                             => catalog'.blobs[b] # Absent
    BY <1>1, <2>4, BlobRowsGrow, RewriteFits
  <2>6. ASSUME NEW s \in job'.todo, s.type = "entity", s.entity.blob # 0
        PROVE  HasBlob(s.entity)' \/ \E t \in job'.todo : t \in BlobWords(s.entity.blob)
    <3>1. s.entity.blob \in BlobIds /\ s \in job.todo
      BY <1>1, <2>2, <2>6, RecordShape DEF Entity
    <3>2. CASE catalog.blobs[s.entity.blob] # Absent
      BY <2>5, <3>1, <3>2 DEF HasBlob
    <3>3. CASE catalog.blobs[s.entity.blob] = Absent
      <4>1. PICK t \in job.todo : t \in BlobWords(s.entity.blob)
        BY <1>1, <2>6, <3>1, <3>3 DEF BlobsInv, JobHasBlobs, HasBlob
      <4>2. CASE t = r
        BY <2>5, <3>1, <4>1, <4>2 DEF HasBlob
      <4>3. CASE t # r
        BY <2>2, <4>1, <4>3
      <4>. QED  BY <4>2, <4>3
    <3>. QED  BY <3>2, <3>3
  <2>7. \A s \in job'.todo : s.entity.blob = 0 => HasBlob(s.entity)'
    BY DEF HasBlob
  <2>. QED  BY <1>4, <1>6, <2>6, <2>7 DEF JobHasBlobs
<1>. QED  BY <1>4, <1>5, <1>6

LEMMA StepAddsWithBlob ==
  ASSUME TypeOK, RewriteRoom, BlobsInv, Next
  PROVE  AddsWithBlob /\ JobHasBlobs'
<1>0. /\ catalog \in CatalogType /\ Offset \in Nat /\ SameTables(catalog)
      /\ catalog.write_offset = Offset
  BY CatalogAssumption DEF TypeOK, CatalogType, Offset, SameTables
<1>00. /\ catalog.next_record_id \in RecordIds
       /\ NewRecordId(catalog) \in CatalogType
       /\ NewRecordId(catalog).next_blob_id = catalog.next_blob_id
       /\ NewRecordId(catalog).write_offset = Offset
       /\ SameTables(NewRecordId(catalog))
  BY <1>0, FreshIds DEF NewRecordId, SameTables, CatalogType
<1>000. ASSUME pc = "idle", Done PROVE JobHasBlobs'
  BY <1>000 DEF Done, JobHasBlobs
<1>1. CASE ScanEnd \/ ScanCorrupt \/ ScanRecord
  BY <1>1 DEF ScanEnd, ScanCorrupt, ScanRecord, AddsWithBlob, JobHasBlobs
<1>4. ASSUME NEW n \in Names, CreateIdentity(n) PROVE AddsWithBlob /\ JobHasBlobs'
  <2>. DEFINE r == IdentityRec(catalog.next_record_id, n)
  <2>1. r \in Records /\ r.type # "entity"
    BY <1>00, <1>4, RecordsBuilt DEF CreateIdentity, IdentityRec
  <2>. QED  BY <1>00, <1>000, <1>4, <2>1, CommitAddsWithBlob DEF CreateIdentity, Idle
<1>5. ASSUME NEW n \in Names, CreateStatic(n) PROVE AddsWithBlob /\ JobHasBlobs'
  <2>. DEFINE r == EntityRec(catalog.next_record_id, Figure("figure", n, NoId))
  <2>1. r \in Records /\ HasBlob(r.entity)
    BY <1>00, <1>5, RecordsBuilt, FigureType
       DEF CreateStatic, EntityRec, HasBlob, Figure
  <2>. QED  BY <1>00, <1>000, <1>5, <2>1, CommitAddsWithBlob DEF CreateStatic, Idle
<1>6. ASSUME NEW i \in RecordIds, NEW n \in Names, RenameIdentity(i, n)
      PROVE  AddsWithBlob /\ JobHasBlobs'
  <2>1. IdentityRec(i, n) \in Records /\ IdentityRec(i, n).type # "entity"
    BY RecordsBuilt DEF IdentityRec
  <2>. QED  BY <1>0, <1>000, <1>6, <2>1, CommitAddsWithBlob
            DEF RenameIdentity, Idle, CommitNamed
<1>7. ASSUME NEW i \in RecordIds, NEW n \in Names, RenameEntity(i, n)
      PROVE  AddsWithBlob /\ JobHasBlobs'
  <2>. DEFINE e == [Entities[i] EXCEPT !.name = n]
              r == EntityRec(i, e)
  <2>1. Entities[i] \in Entity /\ Entities[i] # Absent
    BY <1>0, <1>7 DEF RenameEntity, CatalogType, Entities
  <2>2. e \in Entity /\ e.blob = Entities[i].blob
    BY <2>1 DEF Entity
  <2>3. r \in Records /\ r.entity = e
    BY <2>2, RecordsBuilt DEF EntityRec
  <2>4. HasBlob(r.entity)
    BY <2>1, <2>2, <2>3 DEF BlobsInv, HasBlob
  <2>. HIDE DEF e
  <2>. QED  BY <1>0, <1>000, <1>7, <2>3, <2>4, CommitAddsWithBlob
            DEF RenameEntity, Idle, CommitNamed, e
<1>8. ASSUME NEW i \in RecordIds, NEW n \in Names, CreateFromIdentity(i, n)
      PROVE  AddsWithBlob /\ JobHasBlobs'
  BY <1>00, <1>8, AppendBlobAdds, FigureType, CatalogAssumption
     DEF CreateFromIdentity, FreshBlobId
<1>9. ASSUME NEW i \in RecordIds, NEW n \in Names, CloneEntity(i, n)
      PROVE  AddsWithBlob /\ JobHasBlobs'
  <2>1. Entities[i] \in Entity /\ FreshRecordId /\ FreshBlobId /\ pc = "idle"
    BY <1>0, <1>9 DEF CloneEntity, CatalogType, Entities, Idle
  <2>2. CASE ReadImage(Entities[i]) = Absent
    BY <1>0, <1>00, <1>9, <2>1, <2>2
       DEF CloneEntity, AddsWithBlob, JobHasBlobs, Offset
  <2>3. CASE ReadImage(Entities[i]) # Absent
    <3>. DEFINE e == Figure(Entities[i].kind, n, Entities[i].parent)
    <3>1. e \in Entity
      BY <2>1 DEF Figure, Entity
    <3>2. ReadImage(Entities[i]) \in Images
      BY <1>0, <2>1, <2>3, ReadImageType
    <3>. QED  BY <1>00, <1>9, <2>1, <2>3, <3>1, <3>2, AppendBlobAdds
              DEF CloneEntity, FreshBlobId
  <2>. QED  BY <2>2, <2>3
<1>10. ASSUME NEW i \in RecordIds, DeleteIdentity(i) PROVE AddsWithBlob /\ JobHasBlobs'
  <2>1. IdentityDel(i) \in Records /\ IdentityDel(i).type # "entity"
    BY RecordsBuilt DEF IdentityDel
  <2>. QED  BY <1>0, <1>000, <1>10, <2>1, CommitAddsWithBlob
            DEF DeleteIdentity, Idle, CommitNamed
<1>11. ASSUME NEW i \in RecordIds, DeleteEntity(i) PROVE AddsWithBlob /\ JobHasBlobs'
  <2>1. EntityDel(i) \in Records /\ EntityDel(i).type # "entity"
    BY RecordsBuilt DEF EntityDel
  <2>. QED  BY <1>0, <1>000, <1>11, <2>1, CommitAddsWithBlob
            DEF DeleteEntity, Idle, CommitNamed
<1>12. ASSUME NEW t \in RecordIds, NEW b \in RecordIds, NEW n \in Names,
              CreateCombo(t, b, n)
       PROVE  AddsWithBlob /\ JobHasBlobs'
  <2>. DEFINE e == [Figure("combo", n, NoId) EXCEPT !.top = t, !.bottom = b]
              r == EntityRec(catalog.next_record_id, e)
  <2>1. e \in Entity /\ e.blob = 0
    BY DEF Figure, Entity, Kinds
  <2>2. r \in Records /\ HasBlob(r.entity)
    BY <1>00, <1>12, <2>1, RecordsBuilt DEF CreateCombo, EntityRec, HasBlob
  <2>. QED  BY <1>00, <1>000, <1>12, <2>2, CommitAddsWithBlob DEF CreateCombo, Idle
<1>13. ASSUME NEW m \in Modes, SetUsbMode(m) PROVE AddsWithBlob /\ JobHasBlobs'
  <2>1. /\ [catalog EXCEPT !.usb_mode = m] \in CatalogType
        /\ [catalog EXCEPT !.usb_mode = m].write_offset = Offset
        /\ ConfigRec(m) \in Records /\ ConfigRec(m).type # "entity"
    BY <1>0, RecordsBuilt DEF CatalogType, ConfigRec
  <2>. QED  BY <1>000, <1>13, <2>1, CommitAddsWithBlob
            DEF SetUsbMode, Idle, CommitNamed
<1>14. ASSUME NEW kind \in {"figure", "top", "bottom"}, NEW n \in Names,
              CreateFromCatalog(kind, n)
       PROVE  AddsWithBlob /\ JobHasBlobs'
  BY <1>00, <1>14, AppendBlobAdds, FigureType, CatalogAssumption
     DEF CreateFromCatalog, FreshBlobId
<1>15. ASSUME NEW kind \in {"figure", "top", "bottom"}, NEW n \in Names,
              NEW parent \in RecordIds \union {NoId}, NEW img \in Images,
              Upload(kind, n, parent, img)
       PROVE  AddsWithBlob /\ JobHasBlobs'
  BY <1>0, <1>15, AppendBlobAdds, FigureType DEF Upload, FreshBlobId
<1>16. CASE AppendEntity
  <2>1. /\ job.ent \in Entity /\ HasBlob(job.ent) /\ JobHasBlobs'
    BY <1>16 DEF AppendEntity, TypeOK, Jobs, Abort, JobHasBlobs, BlobsInv
  <2>2. CASE job.op = "upload"
    <3>. DEFINE r == EntityRec(catalog.next_record_id, job.ent)
    <3>1. FreshRecordId /\ r \in Records /\ r.entity = job.ent
      BY <1>00, <1>16, <2>1, <2>2, RecordsBuilt DEF AppendEntity, TypeOK, EntityRec
    <3>. QED  BY <1>00, <1>16, <2>1, <2>2, <3>1, CommitAddsWithBlob
              DEF AppendEntity, CommitNamed
  <2>3. CASE job.op # "upload"
    <3>. DEFINE r == EntityRec(job.id, job.ent)
    <3>1. job.id \in RecordIds
      BY <1>16, <2>3 DEF AppendEntity, TypeOK, Jobs
    <3>2. r \in Records /\ r.entity = job.ent
      BY <2>1, <3>1, RecordsBuilt DEF EntityRec
    <3>. QED  BY <1>0, <1>16, <2>1, <2>3, <3>2, CommitAddsWithBlob
              DEF AppendEntity, CommitNamed
  <2>. QED  BY <2>2, <2>3
<1>17. CASE RejectName
  BY <1>0, <1>17
     DEF RejectName, NewRecordId, CatalogType, AddsWithBlob, Offset, JobHasBlobs, Abort
<1>18. CASE Compact
  <2>1. [NoJob EXCEPT !.op = "compact"] \in Jobs
    BY DEF NoJob, Jobs
  <2>. QED  BY <1>18, <2>1, StartCompactAdds DEF Compact
<1>19. CASE Format
  BY <1>0, <1>19
     DEF Format, NewCatalog, AddsWithBlob, Offset, JobHasBlobs, Marker, NoJob
<1>20. ASSUME NEW r \in job.todo, Rewrite(r) PROVE AddsWithBlob /\ JobHasBlobs'
  BY <1>20, RewriteAdds
<1>21. ASSUME NEW i \in RecordIds, NEW img \in Images, Save(i, img)
       PROVE  AddsWithBlob /\ JobHasBlobs'
  <2>. DEFINE again == UsedPercent >= CompactPercent
              then == [NoJob EXCEPT !.op = "save", !.id = i, !.ent = Entities[i],
                         !.img = img, !.again = again]
  <2>1. catalog.next_blob_id <= MaxBlobId /\ Entities[i] \in Entity
    BY <1>0, <1>21 DEF Save, FreshBlobId, CatalogType, Entities
  <2>2. then \in Jobs
    <3>1. again \in BOOLEAN
      BY <1>0, CatalogAssumption, StoreAssumption DEF UsedPercent, Offset, CatalogType
    <3>. HIDE DEF again
    <3>. QED  BY <2>1, <3>1 DEF NoJob, Jobs
  <2>3. AppendBlob(catalog, "save", i, Entities[i], img) \/ StartCompact(then)
    BY <1>21 DEF Save
  <2>. HIDE DEF then
  <2>. QED  BY <1>0, <2>1, <2>2, <2>3, AppendBlobAdds, StartCompactAdds
<1>22. CASE ResumeSave
  <2>1. /\ job.img \in Images /\ job.ent \in Entity /\ catalog.next_blob_id <= MaxBlobId
        /\ [job EXCEPT !.again = FALSE] \in Jobs
    BY <1>22 DEF ResumeSave, TypeOK, Jobs, Saving, FreshBlobId
  <2>2. CASE AppendBlob(catalog, "save", job.id, job.ent, job.img)
    BY <1>0, <2>1, <2>2, AppendBlobAdds
  <2>3. CASE StartCompact([job EXCEPT !.again = FALSE])
    BY <2>1, <2>3, StartCompactAdds
  <2>4. CASE Abort /\ UNCHANGED <<flash, catalog>>
    BY <1>0, <2>4 DEF Abort, AddsWithBlob, Offset, JobHasBlobs
  <2>. QED  BY <1>22, <2>2, <2>3, <2>4 DEF ResumeSave
<1>23. CASE Reboot
  BY <1>0, <1>23 DEF Reboot, NewCatalog, AddsWithBlob, Offset, JobHasBlobs
<1>24. CASE EraseFails
  BY <1>0, <1>24 DEF EraseFails, Abort, AddsWithBlob, Offset, JobHasBlobs
<1>. QED
  BY <1>1, <1>4, <1>5, <1>6, <1>7, <1>8, <1>9, <1>10, <1>11, <1>12, <1>13, <1>14,
     <1>15, <1>16, <1>17, <1>18, <1>19, <1>20, <1>21, <1>22, <1>23, <1>24,
     StoreAssumption DEF Next, PowerCut, TornWrite, EraseCut

\* An append keeps blobs before the entities that refer to them.
LEMMA JournalBlobsAppends ==
  ASSUME TypeOK, JournalInv, RowsBacked, BlobsInv, AddsWithBlob,
         NEW c \in CatalogType, NEW r \in Records, Appends(c, r)
  PROVE  JournalHasBlobs'
<1>0. /\ Offset \in Cells /\ Offset' = Offset + 1 /\ flash'[Offset] = r
      /\ \A p \in Cells : p # Offset => flash'[p] = flash[p]
      /\ \A p \in Cells : p \in Nat
  BY AppendMoves, CatalogAssumption DEF Cells
<1>. SUFFICES ASSUME NEW p \in Cells, Unbroken(p)', flash'[p] \in Records,
                     flash'[p].type = "entity", flash'[p].entity.blob # 0
              PROVE  \E q \in Cells : q < p /\ flash'[q] \in BlobWords(flash'[p].entity.blob)
  BY DEF JournalHasBlobs
<1>. DEFINE b == flash'[p].entity.blob
<1>1. CASE flash' = flash
  BY <1>1 DEF BlobsInv, JournalHasBlobs, Unbroken
<1>2. CASE pc # "scan" /\ p = Offset
  <2>1. b \in BlobIds /\ catalog.blobs[b] # Absent
    BY <1>0, <1>2, RecordShape DEF AddsWithBlob, HasBlob, Entity
  <2>2. catalog.blobs[b] \in StoredBlob
    BY <2>1 DEF TypeOK, CatalogType
  <2>. DEFINE q == catalog.blobs[b].offset
  <2>3. /\ q \in Cells /\ q < Offset /\ flash[q] = BlobRec(b, catalog.blobs[b].crc)
        /\ catalog.blobs[b].crc \in Images
    BY <2>1, <2>2 DEF RowsBacked, StoredBlob
  <2>4. flash[q] \in BlobWords(b)
    BY <2>1, <2>3, RecordsBuilt DEF BlobWords, BlobRec
  <2>. HIDE DEF q, b
  <2>. QED  BY <1>0, <1>2, <2>3, <2>4 DEF b
<1>3. CASE p < Offset
  <2>1. \A q \in Cells : q <= p => flash'[q] = flash[q]
    BY <1>0, <1>3
  <2>2. Unbroken(p) /\ flash'[p] = flash[p]
    BY <1>0, <2>1 DEF Unbroken
  <2>3. PICK q \in Cells : q < p /\ flash[q] \in BlobWords(b)
    BY <2>2 DEF BlobsInv, JournalHasBlobs
  <2>. QED  BY <1>0, <2>1, <2>3
<1>4. CASE pc # "scan" /\ p > Offset
  <2>1. Unbroken(Offset)
    BY <1>0, <1>4 DEF Unbroken
  <2>2. flash[Offset] = Erased
    BY <1>4, <2>1 DEF JournalInv, Appends
  <2>3. flash[p] = Erased
    BY <1>0, <1>4, <2>1, <2>2 DEF JournalInv
  <2>. QED  BY <1>0, <1>4, <2>3, CellKinds
<1>. QED  BY <1>0, <1>1, <1>2, <1>3, <1>4 DEF Appends

LEMMA JournalBlobsNext ==
  ASSUME TypeOK, WholeErases, JournalInv, RowsBacked, BlobsInv,
         AddsWithBlob, [Next]_vars
  PROVE  JournalHasBlobs'
<1>1. CASE flash' = flash
  BY <1>1 DEF BlobsInv, JournalHasBlobs, Unbroken
<1>2. ASSUME NEW o \in Cells, flash'[o] = Torn,
             \A p \in Cells : p < o => flash'[p] = flash[p]
      PROVE  JournalHasBlobs'
  <2>. SUFFICES ASSUME NEW p \in Cells, Unbroken(p)', flash'[p] \in Records,
                       flash'[p].type = "entity", flash'[p].entity.blob # 0
                PROVE  \E q \in Cells : q < p /\ flash'[q] \in BlobWords(flash'[p].entity.blob)
    BY DEF JournalHasBlobs
  <2>0. \A q \in Cells : q \in Nat
    BY CatalogAssumption DEF Cells
  <2>1. p < o
    BY <1>2, <2>0, CellKinds DEF Unbroken
  <2>2. Unbroken(p) /\ flash'[p] = flash[p] /\ \A q \in Cells : q < p => flash'[q] = flash[q]
    BY <1>2, <2>0, <2>1 DEF Unbroken
  <2>3. PICK q \in Cells : q < p /\ flash[q] \in BlobWords(flash[p].entity.blob)
    BY <2>2 DEF BlobsInv, JournalHasBlobs
  <2>. QED  BY <2>2, <2>3
<1>3. Offset \in Nat /\ catalog.write_offset = Offset
  BY CatalogAssumption DEF TypeOK, CatalogType, Offset
<1>4. CASE Keeps
  <2>1. CASE Writable(catalog) /\ flash' = [flash EXCEPT ![Offset] = Torn]
    <3>1. Offset \in Cells
      BY <1>3, <2>1, CatalogAssumption DEF Writable, Cells
    <3>2. flash'[Offset] = Torn /\ \A p \in Cells : p < Offset => flash'[p] = flash[p]
      BY <2>1, <3>1 DEF TypeOK, Cells
    <3>. QED  BY <1>2, <3>1, <3>2
  <2>. QED  BY <1>1, <1>4, <2>1 DEF Keeps
<1>5. CASE StartsOver
  <2>1. CASE Tears
    <3>1. Offset \in Cells
      BY <1>3, <2>1, CatalogAssumption DEF Tears, Writable, Cells
    <3>2. flash'[Offset] = Torn /\ \A p \in Cells : p < Offset => flash'[p] = flash[p]
      BY <2>1, <3>1 DEF Tears, Cells
    <3>. QED  BY <1>2, <3>1, <3>2
  <2>2. CASE flash' = [p \in Cells |-> Erased]
    BY <2>2, CellKinds DEF JournalHasBlobs
  <2>. QED  BY <1>1, <1>5, <2>1, <2>2 DEF StartsOver
<1>. QED  BY <1>1, <1>4, <1>5, StepKind, JournalBlobsAppends
          DEF JournalStep, ScanFull, ScanCorrupt, vars

LEMMA ScannedBlobsNext ==
  ASSUME TypeOK, ScannedBlobs, JournalStep
  PROVE  ScannedBlobs'
<1>. SUFFICES ASSUME pc' = "scan", NEW p \in Cells, NEW b \in BlobIds,
                     p < Offset', flash'[p] \in BlobWords(b)
              PROVE  catalog'.blobs[b] # Absent
  BY DEF ScannedBlobs
<1>1. ASSUME NEW c \in CatalogType, NEW r \in Records, Appends(c, r)
      PROVE  catalog'.blobs[b] # Absent
  <2>1. /\ Offset \in Cells /\ Offset' = Offset + 1 /\ flash'[Offset] = r
        /\ p \in Nat /\ Offset \in Nat
    BY <1>1, AppendMoves, CatalogAssumption DEF Cells
  <2>2. pc = "scan" /\ flash' = flash /\ ~TableFull(catalog, r)
    BY <1>1 DEF Appends
  <2>3. CASE p = Offset
    BY <1>1, <2>1, <2>2, <2>3, BlobRowsGrow
  <2>4. CASE p < Offset
    BY <1>1, <2>2, <2>4, BlobRowsGrow DEF ScannedBlobs
  <2>5. p < Offset \/ p = Offset
    BY <2>1
  <2>. QED  BY <2>3, <2>4, <2>5
<1>2. CASE StartsOver
  BY <1>2, CatalogAssumption DEF StartsOver, Offset, Cells
<1>. QED  BY <1>1, <1>2 DEF JournalStep, Keeps, ScanFull, ScanCorrupt

LEMMA BlobsInit == Init => BlobsInv
  BY CellKinds, CatalogAssumption
     DEF Init, BlobsInv, NewCatalog, Entities, JobHasBlobs, JournalHasBlobs,
         ScannedBlobs, Offset, Cells

LEMMA BlobsNext ==
  ASSUME TypeOK, WholeErases, RewriteRoom, JournalInv, RowsBacked,
         BlobsInv, [Next]_vars
  PROVE  BlobsInv'
<1>1. CASE UNCHANGED vars
  BY <1>1 DEF vars, BlobsInv, HasBlob, Entities, JobHasBlobs, JournalHasBlobs,
              ScannedBlobs, Offset, Unbroken
<1>. SUFFICES ASSUME Next, JournalStep PROVE BlobsInv'
  BY <1>1, StepKind
<1>2. AddsWithBlob /\ JobHasBlobs'
  BY StepAddsWithBlob
<1>3. JournalHasBlobs' /\ ScannedBlobs'
  BY <1>2, JournalBlobsNext, ScannedBlobsNext DEF BlobsInv
<1>4. \A i \in RecordIds : Entities[i] # Absent /\ Entities[i].blob # 0 =>
        Entities[i].blob \in BlobIds
  BY DEF TypeOK, CatalogType, Entities, Entity
<1>5. ASSUME NEW c \in CatalogType, NEW r \in Records, Appends(c, r),
             NEW i \in RecordIds, Entities'[i] # Absent, Entities'[i].blob # 0
      PROVE  catalog'.blobs[Entities'[i].blob] # Absent
  <2>0. /\ Offset \in Cells /\ Offset' = Offset + 1 /\ flash'[Offset] = r
        /\ \A p \in Cells : p # Offset => flash'[p] = flash[p]
    BY <1>5, AppendMoves
  <2>1. CASE TableFull(catalog, r)
    <3>1. Entities' = Entities /\ catalog'.blobs = catalog.blobs
      BY <1>5, <2>1, AppliedToFull DEF Appends, Entities
    <3>. QED  BY <1>5, <3>1 DEF BlobsInv, HasBlob
  <2>. SUFFICES ASSUME ~TableFull(catalog, r)
                PROVE  catalog'.blobs[Entities'[i].blob] # Absent
    BY <2>1
  <2>2. Entities'[i] = IF r \in EntityWords(i)
                       THEN IF r.type = "entity" THEN r.entity ELSE Absent
                       ELSE Entities[i]
    BY <1>5, AppliedRows DEF Appends, Entities
  <2>3. CASE r \notin EntityWords(i)
    <3>1. Entities'[i].blob \in BlobIds /\ catalog.blobs[Entities'[i].blob] # Absent
      BY <1>4, <1>5, <2>2, <2>3 DEF BlobsInv, HasBlob
    <3>. QED  BY <1>5, <3>1, BlobRowsGrow
  <2>4. CASE r \in EntityWords(i)
    <3>. DEFINE b == r.entity.blob
    <3>1. /\ r.type = "entity" /\ Entities'[i] = r.entity /\ b \in BlobIds
      BY <1>5, <2>2, <2>4, RecordShape DEF Entity
    <3>2. CASE pc # "scan"
      <4>1. catalog.blobs[b] # Absent
        BY <1>2, <1>5, <2>0, <3>1, <3>2 DEF AddsWithBlob, HasBlob
      <4>. QED  BY <1>5, <3>1, <4>1, BlobRowsGrow
    <3>3. CASE pc = "scan"
      <4>1. Unbroken(Offset) /\ flash' = flash /\ flash[Offset] = r
        BY <1>5, <2>0, <3>3 DEF JournalInv, Appends
      <4>2. PICK q \in Cells : q < Offset /\ flash[q] \in BlobWords(b)
        BY <1>5, <2>0, <3>1, <4>1 DEF BlobsInv, JournalHasBlobs
      <4>3. catalog.blobs[b] # Absent
        BY <3>1, <3>3, <4>2 DEF BlobsInv, ScannedBlobs
      <4>. QED  BY <1>5, <3>1, <4>3, BlobRowsGrow
    <3>. QED  BY <3>2, <3>3
  <2>. QED  BY <2>3, <2>4
<1>6. CASE \E c \in CatalogType, r \in Records : Appends(c, r)
  BY <1>2, <1>3, <1>5, <1>6 DEF BlobsInv, HasBlob
<1>7. CASE catalog'.entities = catalog.entities /\ catalog'.blobs = catalog.blobs
  BY <1>2, <1>3, <1>7 DEF BlobsInv, HasBlob, Entities
<1>8. CASE StartsOver
  BY <1>2, <1>3, <1>8 DEF BlobsInv, StartsOver, NewCatalog, Entities
<1>9. CASE ScanCorrupt
  <2>1. catalog'.entities = catalog.entities /\ catalog'.blobs = catalog.blobs
    BY <1>9 DEF ScanCorrupt, TypeOK, CatalogType
  <2>. QED  BY <1>7, <2>1
<1>. QED  BY <1>6, <1>7, <1>8, <1>9 DEF JournalStep, Keeps, ScanFull, SameRows

\* As long as no erase fails or is cut short, the image behind every figure can
\* be read, torn records and full tables or not, also in the middle of a boot or
\* of a compaction (read_entity_image, compact_store): BlobsReadable.
THEOREM ImagesStayReadable ==
  ASSUME WholeErases
  PROVE  Spec => []BlobsReadable
<1>1. Init => JournalInv /\ BlobsInv
  BY JournalInit, BlobsInit
<1>2. TypeOK /\ RewriteRoom /\ RowsBacked /\ JournalInv /\ BlobsInv
        /\ [Next]_vars => JournalInv' /\ BlobsInv'
  BY JournalNext, BlobsNext
<1>3. TypeOK /\ RowsBacked /\ BlobsInv => BlobsReadable
  <2>. SUFFICES ASSUME TypeOK, RowsBacked, BlobsInv, NEW i \in RecordIds,
                       BlobOf(Entities[i]) # 0
                PROVE  ReadBlob(Entities[i].blob) # Absent
    BY DEF BlobsReadable
  <2>. DEFINE b == Entities[i].blob
  <2>1. b \in BlobIds /\ catalog.blobs[b] # Absent
    BY DEF BlobOf, BlobsInv, HasBlob, TypeOK, CatalogType, Entity, Entities
  <2>2. catalog.blobs[b] \in StoredBlob
    BY <2>1 DEF TypeOK, CatalogType
  <2>3. /\ catalog.blobs[b].crc \in Images
        /\ flash[catalog.blobs[b].offset] = BlobRec(b, catalog.blobs[b].crc)
    BY <2>1, <2>2 DEF RowsBacked, StoredBlob
  <2>4. ReadBlob(b) = catalog.blobs[b].crc
    BY <2>1, <2>3 DEF ReadBlob, BlobRecords, BlobRec
  <2>. QED  BY <2>3, <2>4, AbsentAssumption
<1>. QED  BY <1>1, <1>2, <1>3, RoomInvariant, RowsAlways, PTL DEF Spec
=============================================================================
