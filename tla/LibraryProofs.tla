--------------------------- MODULE LibraryProofs ---------------------------
(***************************************************************************)
(* Proofs about compactions and about Library: a compaction has room for   *)
(* what it has to write back, and Store implements Library.                *)
(***************************************************************************)
EXTENDS StoreProofs

\* The marker, the configuration and all rows the tables can hold fit into
\* the region (2 MiB for 64 entities, 64 blobs and 32 identities).
SnapshotFits == 2 + MaxEntities + MaxIdentities + MaxEntities <= Cap

\* What is still to be written fits behind what is written.
TodoFits ==
  pc = "rewrite" => /\ IsFiniteSet(job.todo)
                    /\ Offset + Cardinality(job.todo) <= Cap

(***************************************************************************)
(* The snapshot.                                                           *)
(***************************************************************************)
\* The image of a finite set under a function is no larger than the set.
LEMMA ImageFits ==
  ASSUME NEW S, IsFiniteSet(S), NEW f, DOMAIN f = S, f = [x \in S |-> f[x]]
  PROVE  /\ IsFiniteSet({f[x] : x \in S})
         /\ Cardinality({f[x] : x \in S}) \in Nat
         /\ Cardinality({f[x] : x \in S}) <= Cardinality(S)
<1>. DEFINE T == {f[x] : x \in S}
<1>1. f \in [S -> T]
  OBVIOUS
<1>2. f \in Surjection(S, T)
  BY <1>1 DEF Surjection
<1>3. IsFiniteSet(T) /\ Cardinality(T) <= Cardinality(S)
  BY <1>2, FS_Surjection
<1>. QED  BY <1>3, FS_CardinalityType

LEMMA UnionFits ==
  ASSUME NEW S, NEW T, IsFiniteSet(S), IsFiniteSet(T), NEW m \in Nat, NEW n \in Nat,
         Cardinality(S) <= m, Cardinality(T) <= n
  PROVE  IsFiniteSet(S \union T) /\ Cardinality(S \union T) <= m + n
<1>1. /\ Cardinality(S) \in Nat /\ Cardinality(T) \in Nat
      /\ IsFiniteSet(S \union T)
      /\ Cardinality(S \union T)
           = Cardinality(S) + Cardinality(T) - Cardinality(S \intersect T)
  BY FS_Union, FS_CardinalityType
<1>2. Cardinality(S \intersect T) \in Nat
  <2>1. S \intersect T \in SUBSET S
    OBVIOUS
  <2>. QED  BY <2>1, FS_Subset, FS_CardinalityType
<1>. QED  BY <1>1, <1>2

LEMMA SnapshotIsSmall ==
  ASSUME TypeOK, TablesFit
  PROVE  /\ IsFiniteSet(Snapshot)
         /\ Cardinality(Snapshot) <= 2 + MaxEntities + MaxIdentities + MaxEntities
<1>. DEFINE live == LiveBlobs(catalog)
            bf == [b \in live |-> BlobRec(b, ReadBlob(b))]
            nf == [i \in Rows(Identities) |-> IdentityRec(i, Identities[i])]
            ef == [i \in Rows(Entities) |-> EntityRec(i, Entities[i])]
            B == {bf[b] : b \in live}
            N == {nf[i] : i \in Rows(Identities)}
            E == {ef[i] : i \in Rows(Entities)}
            head == {Marker, ConfigRec(catalog.usb_mode)}
<1>0. /\ Entities \in [RecordIds -> Entity \union {Absent}]
      /\ Identities \in [RecordIds -> Names \union {Absent}]
      /\ catalog.blobs \in [BlobIds -> StoredBlob \union {Absent}]
      /\ IsFiniteSet(RecordIds) /\ IsFiniteSet(BlobIds)
      /\ MaxEntities \in Nat /\ MaxIdentities \in Nat
  BY CatalogAssumption, IdsFinite DEF TypeOK, CatalogType, Entities, Identities
<1>1. IsFiniteSet(head) /\ Cardinality(head) <= 2
  <2>. DEFINE M == {Marker}
              C == {ConfigRec(catalog.usb_mode)}
  <2>1. head = M \union C
    OBVIOUS
  <2>2. /\ IsFiniteSet(M) /\ IsFiniteSet(C)
        /\ Cardinality(M) = 1 /\ Cardinality(C) = 1
    BY FS_Singleton
  <2>3. /\ IsFiniteSet(M \union C) /\ Cardinality(M \union C) \in Nat
        /\ Cardinality(M \union C) = 1 + 1 \/ Cardinality(M \union C) = 1
    BY <2>2, FS_AddElement, FS_CardinalityType
  <2>4. IsFiniteSet(M \union C) /\ Cardinality(M \union C) <= 2
    <3>. HIDE DEF M, C
    <3>. QED  BY <2>3
  <2>. QED  BY <2>1, <2>4
<1>2. IsFiniteSet(B) /\ Cardinality(B) <= MaxEntities
  <2>1. live \in SUBSET Rows(catalog.blobs)
    BY <1>0 DEF LiveBlobs, Rows
  <2>2. /\ IsFiniteSet(live) /\ Cardinality(live) <= Cardinality(Rows(catalog.blobs))
        /\ Cardinality(Rows(catalog.blobs)) \in Nat
    BY <1>0, <2>1, RowsFinite
  <2>3. IsFiniteSet(B) /\ Cardinality(B) \in Nat /\ Cardinality(B) <= Cardinality(live)
    BY <2>2, ImageFits
  <2>4. Cardinality(live) \in Nat
    BY <2>2, FS_CardinalityType
  <2>. QED  BY <1>0, <2>2, <2>3, <2>4 DEF TablesFit
<1>3. IsFiniteSet(N) /\ Cardinality(N) <= MaxIdentities
  <2>1. IsFiniteSet(Rows(Identities)) /\ Cardinality(Rows(Identities)) \in Nat
    BY <1>0, RowsFinite
  <2>2. /\ IsFiniteSet(N) /\ Cardinality(N) \in Nat
        /\ Cardinality(N) <= Cardinality(Rows(Identities))
    BY <2>1, ImageFits
  <2>. QED  BY <1>0, <2>1, <2>2 DEF TablesFit
<1>4. IsFiniteSet(E) /\ Cardinality(E) <= MaxEntities
  <2>1. IsFiniteSet(Rows(Entities)) /\ Cardinality(Rows(Entities)) \in Nat
    BY <1>0, RowsFinite
  <2>2. /\ IsFiniteSet(E) /\ Cardinality(E) \in Nat
        /\ Cardinality(E) <= Cardinality(Rows(Entities))
    BY <2>1, ImageFits
  <2>. QED  BY <1>0, <2>1, <2>2 DEF TablesFit
<1>5. Snapshot = ((head \union B) \union N) \union E
  BY <1>0 DEF Snapshot, Rows
<1>6. /\ IsFiniteSet(head \union B)
      /\ Cardinality(head \union B) <= 2 + MaxEntities
  BY <1>0, <1>1, <1>2, UnionFits
<1>7. /\ IsFiniteSet((head \union B) \union N)
      /\ Cardinality((head \union B) \union N) <= 2 + MaxEntities + MaxIdentities
  <2>. HIDE DEF head, B, N
  <2>1. 2 + MaxEntities \in Nat
    BY <1>0
  <2>. QED  BY <1>0, <1>3, <1>6, <2>1, UnionFits
<1>8. /\ IsFiniteSet(((head \union B) \union N) \union E)
      /\ Cardinality(((head \union B) \union N) \union E)
           <= 2 + MaxEntities + MaxIdentities + MaxEntities
  <2>. HIDE DEF head, B, N, E
  <2>1. 2 + MaxEntities + MaxIdentities \in Nat
    BY <1>0
  <2>. QED  BY <2>1, <1>0, <1>4, <1>7, UnionFits
<1>. QED  BY <1>5, <1>8

(***************************************************************************)
(* The rewrite.                                                            *)
(***************************************************************************)
LEMMA TodoNext ==
  ASSUME TypeOK, TablesFit, SnapshotFits, TodoFits, [Next]_vars
  PROVE  TodoFits'
<1>. SUFFICES ASSUME pc' = "rewrite"
              PROVE  /\ IsFiniteSet(job'.todo)
                     /\ Offset' + Cardinality(job'.todo) <= Cap
  BY DEF TodoFits
<1>0. /\ Cap \in Nat \ {0} /\ MaxEntities \in Nat /\ MaxIdentities \in Nat
      /\ Offset \in Nat
  BY CatalogAssumption DEF TypeOK, CatalogType, Offset
<1>1. ASSUME NEW r \in job.todo, Rewrite(r)
      PROVE  /\ IsFiniteSet(job'.todo)
             /\ Offset' + Cardinality(job'.todo) <= Cap
  <2>. DEFINE c == IF r.type = "config" THEN [catalog EXCEPT !.usb_mode = r.mode]
                   ELSE catalog
  <2>1. /\ r \in Records /\ c \in CatalogType /\ c.write_offset = Offset
        /\ pc = "rewrite"
    BY <1>1, RecordShape DEF Rewrite, TypeOK, Jobs, CatalogType, Offset
  <2>2. catalog' = Applied(c, r) /\ job' = [job EXCEPT !.todo = @ \ {r}]
    BY <1>1 DEF Rewrite, Abort
  <2>3. Offset' = Offset + 1
    <3>. HIDE DEF c
    <3>. QED  BY <2>1, <2>2, RecordShape DEF Applied, Tables, CatalogType, Offset
  <2>4. job'.todo = job.todo \ {r}
    BY <2>2 DEF TypeOK, Jobs
  <2>5. /\ IsFiniteSet(job'.todo) /\ Cardinality(job.todo) \in Nat
        /\ Cardinality(job'.todo) = Cardinality(job.todo) - 1
        /\ Offset + Cardinality(job.todo) <= Cap
    BY <2>1, <2>4, FS_RemoveElement, FS_CardinalityType DEF TodoFits
  <2>. QED  BY <1>0, <2>3, <2>5
<1>2. CASE Format
  <2>1. Offset' = 0 /\ job'.todo = {Marker}
    BY <1>2 DEF Format, NewCatalog, NoJob, Offset
  <2>2. IsFiniteSet({Marker}) /\ Cardinality({Marker}) = 1
    BY FS_Singleton
  <2>. QED  BY <1>0, <2>1, <2>2
<1>3. ASSUME NEW then \in Jobs, Compaction(then)
      PROVE  /\ IsFiniteSet(job'.todo)
             /\ Offset' + Cardinality(job'.todo) <= Cap
  <2>1. Offset' = 0 /\ job'.todo = Snapshot
    BY <1>3 DEF Compaction, StartCompact, NewCatalog, Jobs, Offset
  <2>2. /\ IsFiniteSet(Snapshot) /\ Cardinality(Snapshot) \in Nat
        /\ Cardinality(Snapshot) <= 2 + MaxEntities + MaxIdentities + MaxEntities
    BY SnapshotIsSmall, FS_CardinalityType
  <2>. QED  BY <1>0, <2>1, <2>2 DEF SnapshotFits
<1>4. CASE UNCHANGED vars
  BY <1>4 DEF vars, TodoFits, Offset
<1>. QED  BY <1>1, <1>2, <1>3, <1>4, RewriteGoesOn

\* If the region has room for a full library, a compaction never runs out of
\* it, whatever was compacted before and however often power failed: what it
\* still has to write (compact_store) always fits.  This is RewriteKeepsFigures,
\* for a region of the real proportions.
THEOREM CompactionNeverRunsOut ==
  ASSUME SnapshotFits
  PROVE  Spec => []RewriteKeepsFigures
<1>1. Init => TodoFits
  BY DEF Init, TodoFits
<1>2. TypeOK /\ TablesFit /\ TodoFits /\ [Next]_vars => TodoFits'
  BY TodoNext
<1>3. TodoFits => RewriteKeepsFigures
  BY DEF TodoFits, RewriteKeepsFigures
<1>. QED  BY <1>1, <1>2, <1>3, TablesInit, TablesNext, TypeCorrect, PTL DEF Spec

-----------------------------------------------------------------------------
\* A compaction that is not cut short by a power failure.
WholeRewrites == "rewrite" \notin Faults

(***************************************************************************)
(* The library in terms of RAM: the tables, and what a compaction has yet  *)
(* to write back.                                                          *)
(***************************************************************************)
ShownEntity(i) ==
  IF Pending("entity", i) = {} THEN Entities[i]
  ELSE (CHOOSE r \in Pending("entity", i) : TRUE).entity

ShownPerson(i) ==
  IF Pending("identity", i) = {} THEN Identities[i]
  ELSE (CHOOSE r \in Pending("identity", i) : TRUE).name

CrcOf(b) == IF catalog.blobs[b] = Absent THEN Absent ELSE catalog.blobs[b].crc

ShownBlob(b) ==
  IF Pending("blob", b) = {} THEN CrcOf(b)
  ELSE (CHOOSE r \in Pending("blob", b) : TRUE).img

\* A compaction writes back rows only, and of each id one.
TodoInv ==
  pc = "rewrite" =>
    /\ \A r \in job.todo : r.type \notin {"entityDel", "identityDel"}
    /\ \A r, s \in job.todo :
         /\ r.type = s.type /\ r.type \in {"entity", "identity", "blob"}
         /\ r.id = s.id
         => r = s

\* What the second append of an operation will do: add a figure that is no
\* combo under a free id, or give one a new blob.
JobInv ==
  /\ pc = "entity" =>
       /\ job.op \in {"create", "upload", "save"} /\ job.ent.blob # 0
       /\ job.op # "save" => job.ent.kind # "combo"
       /\ job.op = "create" => Entities[job.id] = Absent
       /\ job.op = "save" => /\ Entities[job.id] # Absent
                             /\ job.ent = [Entities[job.id] EXCEPT !.blob = job.ent.blob]
  /\ Saving => \A i \in RecordIds : i = job.id => ShownEntity(i) = job.ent

\* After the boot, RAM and flash tell of the same library.
ShownIsDurable ==
  pc # "scan" =>
    /\ \A i \in RecordIds : /\ LibraryEntity(i) = ShownEntity(i)
                            /\ LibraryPerson(i) = ShownPerson(i)
    /\ \A b \in BlobIds : LibraryBlob(b) = ShownBlob(b)

LEMMA BlobsIntact ==
  ASSUME TypeOK, RowsBacked, NEW b \in BlobIds
  PROVE  ReadBlob(b) = CrcOf(b)
<1>1. CASE catalog.blobs[b] = Absent
  BY <1>1 DEF ReadBlob, CrcOf
<1>2. CASE catalog.blobs[b] # Absent
  <2>1. catalog.blobs[b] \in StoredBlob
    BY <1>2 DEF TypeOK, CatalogType
  <2>2. /\ catalog.blobs[b].crc \in Images
        /\ flash[catalog.blobs[b].offset] = BlobRec(b, catalog.blobs[b].crc)
    BY <1>2, <2>1 DEF RowsBacked, StoredBlob
  <2>. QED  BY <1>2, <2>2 DEF ReadBlob, CrcOf, BlobRecords, BlobRec
<1>. QED  BY <1>1, <1>2

LEMMA ShownAfterBoot ==
  TypeOK /\ JournalInv /\ Replayed /\ NoTorn /\ RowsBacked => ShownIsDurable
<1>. SUFFICES ASSUME TypeOK, JournalInv, Replayed, NoTorn, RowsBacked, pc # "scan"
              PROVE  /\ \A i \in RecordIds : /\ LibraryEntity(i) = ShownEntity(i)
                                             /\ LibraryPerson(i) = ShownPerson(i)
                     /\ \A b \in BlobIds : LibraryBlob(b) = ShownBlob(b)
  BY DEF ShownIsDurable
<1>1. NoTear
  BY DEF NoTorn, NoTear
<1>2. /\ \A i \in RecordIds : Entities[i] = DurableEntity(i)
      /\ \A i \in RecordIds : Identities[i] = DurableIdentity(i)
      /\ \A b \in BlobIds : CrcOf(b) = DurableBlob(b)
  BY <1>1, JournalHasLastWord, BlobsIntact
<1>. QED  BY <1>2 DEF LibraryEntity, LibraryPerson, LibraryBlob,
                      ShownEntity, ShownPerson, ShownBlob

\* What is pending is shown, and where nothing is pending the tables are.
ShownRules ==
  IF pc = "rewrite"
  THEN /\ \A r \in job.todo :
            /\ r.type = "entity" => ShownEntity(r.id) = r.entity
            /\ r.type = "identity" => ShownPerson(r.id) = r.name
            /\ r.type = "blob" => ShownBlob(r.id) = r.img
       /\ \A i \in RecordIds :
            /\ (\A r \in job.todo : r.type = "entity" => r.id # i)
                 => ShownEntity(i) = Entities[i]
            /\ (\A r \in job.todo : r.type = "identity" => r.id # i)
                 => ShownPerson(i) = Identities[i]
       /\ \A b \in BlobIds :
            (\A r \in job.todo : r.type = "blob" => r.id # b) => ShownBlob(b) = CrcOf(b)
  ELSE /\ \A i \in RecordIds : /\ ShownEntity(i) = Entities[i]
                               /\ ShownPerson(i) = Identities[i]
       /\ \A b \in BlobIds : ShownBlob(b) = CrcOf(b)

LEMMA RulesHold == TodoInv => ShownRules
<1>. SUFFICES ASSUME TodoInv PROVE ShownRules
  OBVIOUS
<1>1. CASE pc # "rewrite"
  <2>1. \A type, i : Pending(type, i) = {}
    BY <1>1 DEF Pending
  <2>. QED  BY <1>1, <2>1 DEF ShownRules, ShownEntity, ShownPerson, ShownBlob
<1>2. CASE pc = "rewrite"
  <2>1. ASSUME NEW r \in job.todo
        PROVE  /\ r.type = "entity" => ShownEntity(r.id) = r.entity
               /\ r.type = "identity" => ShownPerson(r.id) = r.name
               /\ r.type = "blob" => ShownBlob(r.id) = r.img
    <3>1. ASSUME NEW type \in {"entity", "identity", "blob"}, r.type = type
          PROVE  Pending(type, r.id) = {r}
      BY <1>2, <3>1 DEF Pending, TodoInv
    <3>2. ASSUME NEW S, S = {r} PROVE S # {} /\ (CHOOSE s \in S : TRUE) = r
      BY <3>2
    <3>. QED  BY <3>1, <3>2 DEF ShownEntity, ShownPerson, ShownBlob
  <2>2. ASSUME NEW type, NEW i, \A r \in job.todo : r.type = type => r.id # i
        PROVE  Pending(type, i) = {}
    BY <2>2 DEF Pending
  <2>. QED  BY <1>2, <2>1, <2>2 DEF ShownRules, ShownEntity, ShownPerson, ShownBlob
<1>. QED  BY <1>1, <1>2

LEMMA RulesHoldNext == TodoInv' => ShownRules'
  BY RulesHold, PTL

(***************************************************************************)
(* Compactions change nothing.                                             *)
(***************************************************************************)
SameShown ==
  \A i \in RecordIds :
    /\ ShownEntity(i)' = ShownEntity(i) /\ ShownPerson(i)' = ShownPerson(i)
    /\ \A b \in BlobIds : ShownEntity(i) # Absent /\ ShownEntity(i).blob = b
                           => ShownBlob(b)' = ShownBlob(b)

LEMMA StartCompactShown ==
  ASSUME TypeOK, RowsBacked, BlobsInv, TodoInv, pc # "rewrite",
         NEW then \in Jobs, StartCompact(then)
  PROVE  TodoInv' /\ SameShown
<1>1. /\ pc' = "rewrite" /\ job'.todo = Snapshot
      /\ catalog'.entities = NewCatalog.entities
      /\ catalog'.identities = NewCatalog.identities
  BY DEF StartCompact, Jobs, NewCatalog
<1>2. ASSUME NEW r \in Snapshot
      PROVE  /\ r.type \in {"marker", "config", "blob", "identity", "entity"}
             /\ r.type = "blob" => r = BlobRec(r.id, ReadBlob(r.id))
             /\ r.type = "identity" => /\ r = IdentityRec(r.id, Identities[r.id])
                                       /\ Identities[r.id] # Absent
             /\ r.type = "entity" => /\ r = EntityRec(r.id, Entities[r.id])
                                     /\ Entities[r.id] # Absent
  BY DEF Snapshot, Marker, ConfigRec, BlobRec, IdentityRec, EntityRec
<1>3. TodoInv'
  BY <1>1, <1>2 DEF TodoInv
<1>4. ShownRules /\ ShownRules'
  BY <1>3, RulesHold, RulesHoldNext
<1>5. ASSUME NEW i \in RecordIds PROVE ShownEntity(i)' = ShownEntity(i)
  <2>0. ShownEntity(i) = Entities[i]
    BY <1>4 DEF ShownRules
  <2>1. CASE Entities[i] # Absent
    <3>1. EntityRec(i, Entities[i]) \in job'.todo
      BY <1>1, <2>1 DEF Snapshot
    <3>2. ShownEntity(i)' = Entities[i]
      BY <1>1, <1>4, <3>1 DEF ShownRules, EntityRec
    <3>. QED  BY <2>0, <3>2
  <2>2. CASE Entities[i] = Absent
    <3>1. \A r \in job'.todo : r.type = "entity" => r.id # i
      BY <1>1, <1>2, <2>2
    <3>2. ShownEntity(i)' = Entities'[i]
      BY <1>1, <1>4, <3>1 DEF ShownRules, Entities
    <3>. QED  BY <1>1, <2>0, <2>2, <3>2 DEF NewCatalog, Entities
  <2>. QED  BY <2>1, <2>2
<1>6. ASSUME NEW i \in RecordIds PROVE ShownPerson(i)' = ShownPerson(i)
  <2>0. ShownPerson(i) = Identities[i]
    BY <1>4 DEF ShownRules
  <2>1. CASE Identities[i] # Absent
    <3>1. IdentityRec(i, Identities[i]) \in job'.todo
      BY <1>1, <2>1 DEF Snapshot
    <3>2. ShownPerson(i)' = Identities[i]
      BY <1>1, <1>4, <3>1 DEF ShownRules, IdentityRec
    <3>. QED  BY <2>0, <3>2
  <2>2. CASE Identities[i] = Absent
    <3>1. \A r \in job'.todo : r.type = "identity" => r.id # i
      BY <1>1, <1>2, <2>2
    <3>2. ShownPerson(i)' = Identities'[i]
      BY <1>1, <1>4, <3>1 DEF ShownRules, Identities
    <3>. QED  BY <1>1, <2>0, <2>2, <3>2 DEF NewCatalog, Identities
  <2>. QED  BY <2>1, <2>2
<1>7. ASSUME NEW i \in RecordIds, NEW b \in BlobIds,
             Entities[i] # Absent, Entities[i].blob = b
      PROVE  ShownBlob(b)' = ShownBlob(b)
  <2>1. catalog.blobs[b] # Absent
    BY <1>7, CatalogAssumption DEF BlobsInv, HasBlob, BlobIds
  <2>2. ShownBlob(b) = CrcOf(b) /\ ReadBlob(b) = CrcOf(b)
    BY <1>4, <2>1, BlobsIntact DEF ShownRules
  <2>3. b \in LiveBlobs(catalog)
    BY <1>7, <2>1 DEF LiveBlobs, Entities
  <2>4. BlobRec(b, ReadBlob(b)) \in job'.todo
    BY <1>1, <2>3 DEF Snapshot
  <2>5. ShownBlob(b)' = ReadBlob(b)
    BY <1>1, <1>4, <2>4 DEF ShownRules, BlobRec
  <2>. QED  BY <2>2, <2>5
<1>8. \A i \in RecordIds : ShownEntity(i) = Entities[i]
  BY <1>4 DEF ShownRules
<1>. QED  BY <1>3, <1>5, <1>6, <1>7, <1>8 DEF SameShown

\* A compaction is not refused, and each record it writes takes effect.
LEMMA RewriteWrites ==
  ASSUME TypeOK, RewriteRoom, JournalInv, NoTorn, Replayed, TodoFits,
         NEW r \in job.todo, Rewrite(r)
  PROVE  /\ r \in Records /\ pc = "rewrite"
         /\ \A i \in RecordIds :
              /\ Entities'[i] = IF r \in EntityWords(i)
                                THEN IF r.type = "entity" THEN r.entity ELSE Absent
                                ELSE Entities[i]
              /\ Identities'[i] = IF r \in IdentityWords(i)
                                  THEN IF r.type = "identity" THEN r.name ELSE Absent
                                  ELSE Identities[i]
         /\ \A b \in BlobIds :
              CrcOf(b)' = IF r \in BlobWords(b) THEN r.img ELSE CrcOf(b)
         /\ \/ pc' = "rewrite" /\ job' = [job EXCEPT !.todo = @ \ {r}]
            \/ /\ job.todo = {r} /\ pc' = "resume" /\ job.op = "save"
               /\ job' = [job EXCEPT !.todo = {}]
            \/ job.todo = {r} /\ Abort
<1>. DEFINE c == IF r.type = "config" THEN [catalog EXCEPT !.usb_mode = r.mode]
                 ELSE catalog
<1>1. /\ r \in Records /\ c \in CatalogType /\ pc = "rewrite"
      /\ c.write_offset = Offset /\ c.needs_format = catalog.needs_format
      /\ Offset \in 0 .. Cap /\ Cap \in Nat /\ catalog.write_offset = Offset
  BY RecordShape, CatalogAssumption
     DEF TypeOK, Jobs, CatalogType, Offset, Rewrite
<1>2. Precedes(c, r)
  <2>1. r.type = "config" => r = ConfigRec(r.mode)
    BY <1>1 DEF Records, BlobRecords, BlobRec, EntityRec, EntityDel, IdentityRec,
                IdentityDel, ConfigRec, Marker
  <2>. QED  BY <2>1 DEF Precedes, SameTables, TypeOK, CatalogType
<1>. HIDE DEF c
<1>3. Offset < Cap
  <2>1. IsFiniteSet(job.todo) /\ Offset + Cardinality(job.todo) <= Cap
    BY <1>1 DEF TodoFits
  <2>2. Cardinality(job.todo) \in Nat /\ Cardinality(job.todo) # 0
    BY <2>1, FS_CardinalityType, FS_EmptySet
  <2>. QED  BY <1>1, <2>1, <2>2
<1>4. ~catalog.needs_format
  BY <1>1, CatalogAssumption DEF Replayed, NoTorn, NoTear, Cells
<1>5. flash[Offset] = Erased
  BY <1>1, <1>3, <1>4, NeverSpoils DEF Writable, NoTorn, NoTear
<1>6. ~Refused(c)
  BY <1>1, <1>3, <1>4, <1>5 DEF Refused, Writable
<1>7. /\ catalog' = Applied(c, r)
      /\ \/ pc' = "rewrite" /\ job' = [job EXCEPT !.todo = @ \ {r}]
         \/ /\ job.todo = {r} /\ pc' = "resume" /\ job.op = "save"
            /\ job' = [job EXCEPT !.todo = {}]
         \/ job.todo = {r} /\ Abort
  BY <1>6 DEF Rewrite, c
<1>8. /\ \A i \in RecordIds :
           catalog'.entities[i] =
             IF r \in EntityWords(i)
             THEN IF r.type = "entity" THEN r.entity ELSE Absent
             ELSE Entities[i]
      /\ \A i \in RecordIds :
           catalog'.identities[i] =
             IF r \in IdentityWords(i)
             THEN IF r.type = "identity" THEN r.name ELSE Absent
             ELSE Identities[i]
      /\ \A b \in BlobIds :
           catalog'.blobs[b] =
             IF r \in BlobWords(b) THEN [offset |-> Offset, crc |-> r.img]
             ELSE catalog.blobs[b]
  BY <1>1, <1>2, <1>7, RewriteFits, AppliedRows
<1>9. ASSUME NEW b \in BlobIds
      PROVE  CrcOf(b)' = IF r \in BlobWords(b) THEN r.img ELSE CrcOf(b)
  <2>1. CASE r \in BlobWords(b)
    <3>1. [offset |-> Offset, crc |-> r.img] \in StoredBlob
      BY <1>1, <1>3, <2>1, RecordShape DEF BlobWords, StoredBlob, Cells
    <3>2. [offset |-> Offset, crc |-> r.img] # Absent
      BY <3>1, AbsentAssumption
    <3>. QED  BY <1>8, <2>1, <3>2 DEF CrcOf
  <2>2. CASE r \notin BlobWords(b)
    BY <1>8, <2>2 DEF CrcOf
  <2>. QED  BY <2>1, <2>2
<1>. QED  BY <1>1, <1>7, <1>8, <1>9 DEF Entities, Identities

LEMMA RewriteShown ==
  ASSUME TypeOK, RewriteRoom, JournalInv, NoTorn, Replayed, TodoFits, TodoInv,
         NEW r \in job.todo, Rewrite(r)
  PROVE  TodoInv' /\ SameShown
<1>. DEFINE rest == job.todo \ {r}
<1>0. /\ r \in Records /\ pc = "rewrite" /\ job.todo \subseteq Records
      /\ \A i \in RecordIds :
           /\ Entities'[i] = IF r \in EntityWords(i)
                             THEN IF r.type = "entity" THEN r.entity ELSE Absent
                             ELSE Entities[i]
           /\ Identities'[i] = IF r \in IdentityWords(i)
                               THEN IF r.type = "identity" THEN r.name ELSE Absent
                               ELSE Identities[i]
      /\ \A b \in BlobIds : CrcOf(b)' = IF r \in BlobWords(b) THEN r.img ELSE CrcOf(b)
  BY RewriteWrites DEF TypeOK, Jobs
<1>1. \/ pc' = "rewrite" /\ job'.todo = rest
      \/ pc' # "rewrite" /\ rest = {}
  BY RewriteWrites DEF TypeOK, Jobs, Abort
<1>2. TodoInv'
  BY <1>0, <1>1 DEF TodoInv
<1>3. ShownRules /\ ShownRules'
  BY <1>2, RulesHold, RulesHoldNext
<1>4. /\ \A s \in rest :
           /\ s.type = "entity" => ShownEntity(s.id)' = s.entity
           /\ s.type = "identity" => ShownPerson(s.id)' = s.name
           /\ s.type = "blob" => ShownBlob(s.id)' = s.img
      /\ \A i \in RecordIds :
           /\ (\A s \in rest : s.type = "entity" => s.id # i)
                => ShownEntity(i)' = Entities'[i]
           /\ (\A s \in rest : s.type = "identity" => s.id # i)
                => ShownPerson(i)' = Identities'[i]
      /\ \A b \in BlobIds :
           (\A s \in rest : s.type = "blob" => s.id # b) => ShownBlob(b)' = CrcOf(b)'
  <2>1. CASE pc' = "rewrite" /\ job'.todo = rest
    BY <1>3, <2>1 DEF ShownRules, Entities, Identities
  <2>2. CASE pc' # "rewrite" /\ rest = {}
    BY <1>3, <2>2 DEF ShownRules, Entities, Identities
  <2>. QED  BY <1>1, <2>1, <2>2
<1>5. r.type \notin {"entityDel", "identityDel"}
  BY <1>0 DEF TodoInv
<1>6. ASSUME NEW i \in RecordIds PROVE ShownEntity(i)' = ShownEntity(i)
  <2>1. ASSUME NEW s \in rest, s.type = "entity", s.id = i
        PROVE  ShownEntity(i)' = ShownEntity(i)
    BY <1>0, <1>3, <1>4, <2>1 DEF ShownRules
  <2>2. CASE \A s \in rest : s.type = "entity" => s.id # i
    <3>1. ShownEntity(i)' = Entities'[i]
      BY <1>4, <2>2
    <3>2. CASE r.type = "entity" /\ r.id = i
      BY <1>0, <1>3, <3>1, <3>2 DEF ShownRules, EntityWords
    <3>3. CASE ~(r.type = "entity" /\ r.id = i)
      <4>1. r \notin EntityWords(i)
        BY <1>5, <3>3 DEF EntityWords
      <4>2. ShownEntity(i) = Entities[i]
        BY <1>0, <1>3, <2>2, <3>3 DEF ShownRules
      <4>. QED  BY <1>0, <3>1, <4>1, <4>2
    <3>. QED  BY <3>2, <3>3
  <2>. QED  BY <2>1, <2>2
<1>7. ASSUME NEW i \in RecordIds PROVE ShownPerson(i)' = ShownPerson(i)
  <2>1. ASSUME NEW s \in rest, s.type = "identity", s.id = i
        PROVE  ShownPerson(i)' = ShownPerson(i)
    BY <1>0, <1>3, <1>4, <2>1 DEF ShownRules
  <2>2. CASE \A s \in rest : s.type = "identity" => s.id # i
    <3>1. ShownPerson(i)' = Identities'[i]
      BY <1>4, <2>2
    <3>2. CASE r.type = "identity" /\ r.id = i
      BY <1>0, <1>3, <3>1, <3>2 DEF ShownRules, IdentityWords
    <3>3. CASE ~(r.type = "identity" /\ r.id = i)
      <4>1. r \notin IdentityWords(i)
        BY <1>5, <3>3 DEF IdentityWords
      <4>2. ShownPerson(i) = Identities[i]
        BY <1>0, <1>3, <2>2, <3>3 DEF ShownRules
      <4>. QED  BY <1>0, <3>1, <4>1, <4>2
    <3>. QED  BY <3>2, <3>3
  <2>. QED  BY <2>1, <2>2
<1>8. ASSUME NEW b \in BlobIds PROVE ShownBlob(b)' = ShownBlob(b)
  <2>1. ASSUME NEW s \in rest, s.type = "blob", s.id = b
        PROVE  ShownBlob(b)' = ShownBlob(b)
    BY <1>0, <1>3, <1>4, <2>1 DEF ShownRules
  <2>2. CASE \A s \in rest : s.type = "blob" => s.id # b
    <3>1. ShownBlob(b)' = CrcOf(b)'
      BY <1>4, <2>2
    <3>2. CASE r.type = "blob" /\ r.id = b
      BY <1>0, <1>3, <3>1, <3>2 DEF ShownRules, BlobWords
    <3>3. CASE ~(r.type = "blob" /\ r.id = b)
      <4>1. r \notin BlobWords(b)
        BY <3>3 DEF BlobWords
      <4>2. ShownBlob(b) = CrcOf(b)
        BY <1>0, <1>3, <2>2, <3>3 DEF ShownRules
      <4>. QED  BY <1>0, <3>1, <4>1, <4>2
    <3>. QED  BY <3>2, <3>3
  <2>. QED  BY <2>1, <2>2
<1>. QED  BY <1>2, <1>6, <1>7, <1>8 DEF SameShown

(***************************************************************************)
(* Operations change one row, or none.                                     *)
(***************************************************************************)
\* What an operation may do to the row of entity i.
EntityChange(i, e) ==
  \/ /\ Entities[i] = Absent /\ e \in Entity
     /\ e.kind = "combo" => /\ e.top \in RecordIds /\ HalfOf(e.top, "top")
                            /\ e.bottom \in RecordIds /\ HalfOf(e.bottom, "bottom")
  \/ /\ Entities[i] # Absent /\ e \in Entity
     /\ \/ e = [Entities[i] EXCEPT !.name = e.name]
        \/ e.blob # 0 /\ e = [Entities[i] EXCEPT !.blob = e.blob]
  \/ e = Absent /\ ~UsedByCombo(catalog, i)

BlobsStay ==
  \A b \in BlobIds : catalog.blobs[b] # Absent => catalog'.blobs[b] = catalog.blobs[b]

OpStep ==
  /\ BlobsStay
  /\ \/ Entities' = Entities /\ Identities' = Identities
     \/ /\ Entities' = Entities
        /\ \E i \in RecordIds : Identities' = [Identities EXCEPT ![i] = Identities'[i]]
     \/ /\ Identities' = Identities
        /\ \E i \in RecordIds : \E e \in Entity \union {Absent} :
             EntityChange(i, e) /\ Entities' = [Entities EXCEPT ![i] = e]

LEMMA CommitChanges ==
  ASSUME TypeOK, NEW c \in CatalogType, NEW r \in Records, Precedes(c, r),
         CommitNamed(c, r)
  PROVE  /\ r.type # "blob" => BlobsStay
         /\ r.type \in {"entity", "entityDel"} =>
              /\ Identities' = Identities
              /\ \/ Entities' = Entities
                 \/ Entities' = [Entities EXCEPT ![r.id] =
                                   IF r.type = "entity" THEN r.entity ELSE Absent]
         /\ r.type \in {"identity", "identityDel"} =>
              /\ Entities' = Entities
              /\ Identities' = [Identities EXCEPT ![r.id] = Identities'[r.id]]
         /\ r.type \in {"config", "blob"} => Entities' = Entities /\ Identities' = Identities
<1>0. /\ c.entities = Entities /\ c.identities = Identities /\ c.blobs = catalog.blobs
      /\ Identities \in [RecordIds -> Names \union {Absent}]
      /\ Entities \in [RecordIds -> Entity \union {Absent}]
  BY DEF Precedes, SameTables, Entities, Identities, TypeOK, CatalogType
<1>1. CASE catalog' = c
  BY <1>0, <1>1, RecordShape DEF BlobsStay, Entities, Identities
<1>2. CASE catalog' = Applied(c, r)
  <2>1. CASE r.type \in {"entity", "entityDel"}
    <3>1. /\ catalog'.identities = c.identities /\ catalog'.blobs = c.blobs
          /\ r.type = "entity" =>
               catalog'.entities = Put(c.entities, r.id, r.entity, MaxEntities)
          /\ r.type = "entityDel" =>
               catalog'.entities = [c.entities EXCEPT ![r.id] = Absent]
      BY <1>2, <2>1, RecordShape DEF Applied, Tables, CatalogType
    <3>. QED  BY <1>0, <2>1, <3>1 DEF Put, BlobsStay, Entities, Identities
  <2>2. CASE r.type \in {"identity", "identityDel"}
    <3>1. /\ catalog'.entities = c.entities /\ catalog'.blobs = c.blobs
          /\ r.type = "identity" =>
               catalog'.identities = Put(c.identities, r.id, r.name, MaxIdentities)
          /\ r.type = "identityDel" =>
               catalog'.identities = [c.identities EXCEPT ![r.id] = Absent]
      BY <1>2, <2>2, RecordShape DEF Applied, Tables, CatalogType
    <3>2. r.id \in RecordIds
      BY <2>2, RecordShape
    <3>3. Identities' = Identities \/ \E n : Identities' = [Identities EXCEPT ![r.id] = n]
      BY <1>0, <2>2, <3>1 DEF Put, Identities
    <3>. QED  BY <1>0, <2>2, <3>1, <3>2, <3>3 DEF BlobsStay, Entities
  <2>3. CASE r.type \in {"config", "blob", "marker"}
    <3>1. /\ catalog'.entities = c.entities /\ catalog'.identities = c.identities
          /\ r.type # "blob" => catalog'.blobs = c.blobs
      BY <1>2, <2>3, RecordShape DEF Applied, Tables, CatalogType
    <3>. QED  BY <1>0, <2>3, <3>1 DEF BlobsStay, Entities, Identities
  <2>. QED  BY <2>1, <2>2, <2>3, RecordShape
<1>. QED  BY <1>1, <1>2 DEF CommitNamed, Commit

LEMMA AppendBlobChanges ==
  ASSUME TypeOK, NewIdsAreUnused, NEW c \in CatalogType, SameTables(c),
         c.next_blob_id = catalog.next_blob_id, c.next_blob_id <= MaxBlobId,
         c.needs_format = catalog.needs_format, c.usb_mode = catalog.usb_mode,
         NEW op, NEW id, NEW e \in Entity, NEW img \in Images,
         AppendBlob(c, op, id, e, img)
  PROVE  /\ OpStep /\ Entities' = Entities
         /\ \/ pc' = "idle"
            \/ /\ pc' = "entity"
               /\ job'.op = op /\ job'.id = id
               /\ job'.ent = [e EXCEPT !.blob = c.next_blob_id]
               /\ job'.ent.blob # 0
<1>. DEFINE b == c.next_blob_id
            r == BlobRec(b, img)
            d == NewBlobId(c)
<1>1. b \in BlobIds /\ b # 0
  BY CatalogAssumption DEF CatalogType, BlobIds
<1>2. r \in Records /\ d \in CatalogType /\ Precedes(d, r) /\ r.type = "blob"
  <2>1. r \in Records /\ d \in CatalogType
    BY <1>1, RecordsBuilt, CountersType
  <2>2. Precedes(d, r)
    BY DEF Precedes, NewBlobId, SameTables, CatalogType
  <2>. QED  BY <2>1, <2>2 DEF BlobRec
<1>3. Commit(d, r)
  BY DEF AppendBlob, Commit
<1>4. Entities' = Entities /\ Identities' = Identities
  BY <1>2, <1>3, CommitChanges DEF CommitNamed
<1>5. catalog.blobs[b] = Absent
  BY <1>1, CatalogAssumption DEF NewIdsAreUnused, BlobIds
<1>6. BlobsStay
  <2>1. CASE catalog' = d
    BY <2>1 DEF BlobsStay, NewBlobId, SameTables, CatalogType
  <2>2. CASE catalog' = Applied(d, r) /\ TableFull(catalog, r)
    BY <1>2, <2>2, AppliedToFull DEF BlobsStay
  <2>3. CASE catalog' = Applied(d, r) /\ ~TableFull(catalog, r)
    <3>1. \A k \in BlobIds : catalog'.blobs[k] =
            IF r \in BlobWords(k) THEN [offset |-> Offset, crc |-> r.img]
            ELSE catalog.blobs[k]
      BY <1>2, <2>3, AppliedRows
    <3>. QED  BY <1>5, <3>1 DEF BlobsStay, BlobWords, BlobRec
  <2>. QED  BY <1>3, <2>1, <2>2, <2>3 DEF Commit
<1>7. \/ pc' = "idle"
      \/ /\ pc' = "entity"
         /\ job'.op = op /\ job'.id = id /\ job'.ent = [e EXCEPT !.blob = b]
  BY DEF AppendBlob, Abort, NoJob
<1>8. [e EXCEPT !.blob = b].blob = b
  BY DEF Entity
<1>. QED  BY <1>1, <1>4, <1>6, <1>7, <1>8 DEF OpStep

LEMMA JobIdle ==
  ASSUME pc' = "idle"
  PROVE  JobInv'
  BY DEF JobInv, Saving

\* Every step of Store that neither boots nor compacts.
LEMMA OperationSteps ==
  ASSUME TypeOK, IdsAccounted, BlobsInv, TodoInv, JobInv, [Next]_vars,
         pc \notin {"scan", "rewrite"}, pc' \notin {"scan", "rewrite"}
  PROVE  OpStep /\ JobInv'
<1>0. /\ catalog \in CatalogType /\ NewIdsAreUnused
      /\ Entities \in [RecordIds -> Entity \union {Absent}]
      /\ SameTables(catalog) /\ \A r \in Records : Precedes(catalog, r)
  BY DEF TypeOK, CatalogType, IdsAccounted, Entities, SameTables, Precedes
<1>00. /\ catalog.next_record_id \in RecordIds
       /\ Entities[catalog.next_record_id] = Absent
       /\ NewRecordId(catalog) \in CatalogType
       /\ NewRecordId(catalog).next_blob_id = catalog.next_blob_id
       /\ NewRecordId(catalog).usb_mode = catalog.usb_mode
       /\ NewRecordId(catalog).needs_format = catalog.needs_format
       /\ SameTables(NewRecordId(catalog))
       /\ \A r \in Records : Precedes(NewRecordId(catalog), r)
  <2>1. catalog.next_record_id \in RecordIds /\ NewRecordId(catalog) \in CatalogType
    BY <1>0, FreshIds
  <2>2. Entities[catalog.next_record_id] = Absent
    BY <1>0, <2>1, CatalogAssumption DEF NewIdsAreUnused, RecordIds
  <2>. QED  BY <1>0, <2>1, <2>2 DEF NewRecordId, SameTables, Precedes, CatalogType
<1>01. ASSUME BlobsStay, Entities' = Entities, Identities' = Identities
       PROVE  OpStep
  BY <1>01 DEF OpStep
<1>02. ASSUME catalog'.blobs = catalog.blobs, catalog'.entities = catalog.entities,
              catalog'.identities = catalog.identities
       PROVE  OpStep
  BY <1>02 DEF OpStep, BlobsStay, Entities, Identities
<1>03. ASSUME NEW c \in CatalogType, NEW i \in RecordIds, NEW n,
              IdentityRec(i, n) \in Records, Precedes(c, IdentityRec(i, n)),
              CommitNamed(c, IdentityRec(i, n))
       PROVE  OpStep
  <2>1. BlobsStay /\ Entities' = Entities
        /\ Identities' = [Identities EXCEPT ![i] = Identities'[i]]
    BY <1>03, CommitChanges DEF IdentityRec
  <2>. QED  BY <2>1 DEF OpStep
<1>04. ASSUME NEW c \in CatalogType, NEW i \in RecordIds, NEW e \in Entity,
              EntityChange(i, e), Precedes(c, EntityRec(i, e)),
              CommitNamed(c, EntityRec(i, e))
       PROVE  OpStep
  <2>1. /\ BlobsStay /\ Identities' = Identities
        /\ Entities' = Entities \/ Entities' = [Entities EXCEPT ![i] = e]
    BY <1>04, CommitChanges, RecordsBuilt DEF EntityRec
  <2>. QED  BY <1>04, <2>1 DEF OpStep
<1>05. ASSUME NEW op \in {"create", "upload", "save"}, NEW id, NEW e \in Entity,
              op # "save" => e.kind # "combo",
              op = "create" => Entities[id] = Absent,
              op = "save" => Entities[id] = e, Entities' = Entities,
              \/ pc' = "idle"
              \/ /\ pc' = "entity"
                 /\ job'.op = op /\ job'.id = id
                 /\ job'.ent = [e EXCEPT !.blob = catalog.next_blob_id]
                 /\ job'.ent.blob # 0
       PROVE  JobInv'
  <2>1. CASE pc' = "entity"
    <3>1. /\ job'.ent = [e EXCEPT !.blob = job'.ent.blob] /\ job'.ent.kind = e.kind
          /\ e # Absent
      BY <1>05, <2>1, AbsentAssumption DEF Entity
    <3>. QED  BY <1>05, <2>1, <3>1 DEF JobInv, Saving
  <2>. QED  BY <1>05, <2>1, JobIdle
<1>1. ASSUME NEW n \in Names, CreateIdentity(n) PROVE OpStep /\ JobInv'
  BY <1>00, <1>03, <1>1, JobIdle, RecordsBuilt DEF CreateIdentity, Idle, Done
<1>2. ASSUME NEW n \in Names, CreateStatic(n) PROVE OpStep /\ JobInv'
  <2>. DEFINE e == Figure("figure", n, NoId)
  <2>1. e \in Entity /\ e.kind = "figure"
    BY DEF Figure, Entity, Kinds
  <2>2. EntityChange(catalog.next_record_id, e)
    BY <1>00, <1>2, <2>1 DEF EntityChange, CreateStatic
  <2>. QED  BY <1>00, <1>04, <1>2, <2>1, <2>2, JobIdle, RecordsBuilt
            DEF CreateStatic, Idle, Done
<1>3. ASSUME NEW i \in RecordIds, NEW n \in Names, RenameIdentity(i, n)
      PROVE  OpStep /\ JobInv'
  BY <1>0, <1>03, <1>3, JobIdle, RecordsBuilt DEF RenameIdentity, Idle, Done, CommitNamed
<1>4. ASSUME NEW i \in RecordIds, NEW n \in Names, RenameEntity(i, n)
      PROVE  OpStep /\ JobInv'
  <2>. DEFINE e == [Entities[i] EXCEPT !.name = n]
  <2>1. Entities[i] \in Entity /\ Entities[i] # Absent
    BY <1>0, <1>4 DEF RenameEntity
  <2>2. e \in Entity /\ e = [Entities[i] EXCEPT !.name = e.name]
    BY <2>1 DEF Entity
  <2>3. EntityChange(i, e)
    BY <2>1, <2>2 DEF EntityChange
  <2>4. CommitNamed(catalog, EntityRec(i, e)) /\ pc' = "idle"
    BY <1>4 DEF RenameEntity, CommitNamed, Idle, Done
  <2>. QED  BY <1>0, <1>04, <2>2, <2>3, <2>4, JobIdle, RecordsBuilt
<1>5. ASSUME NEW i \in RecordIds, NEW n \in Names, CreateFromIdentity(i, n)
      PROVE  OpStep /\ JobInv'
  <2>. DEFINE e == Figure("figure", n, i)
  <2>1. e \in Entity /\ e.kind = "figure"
    BY DEF Figure, Entity, Kinds
  <2>2. AppendBlob(NewRecordId(catalog), "create", catalog.next_record_id, e, Fresh)
        /\ FreshRecordId /\ catalog.next_blob_id <= MaxBlobId
    BY <1>5 DEF CreateFromIdentity, FreshBlobId
  <2>. HIDE DEF e
  <2>3. /\ OpStep /\ Entities' = Entities
        /\ \/ pc' = "idle"
           \/ /\ pc' = "entity"
              /\ job'.op = "create" /\ job'.id = catalog.next_record_id
              /\ job'.ent = [e EXCEPT !.blob = catalog.next_blob_id]
              /\ job'.ent.blob # 0
    BY <1>0, <1>00, <2>1, <2>2, AppendBlobChanges, CatalogAssumption
  <2>. QED  BY <1>00, <1>05, <2>1, <2>2, <2>3
<1>6. ASSUME NEW i \in RecordIds, NEW n \in Names, CloneEntity(i, n)
      PROVE  OpStep /\ JobInv'
  <2>. DEFINE e == Figure(Entities[i].kind, n, Entities[i].parent)
  <2>1. Entities[i] \in Entity /\ FreshRecordId /\ catalog.next_blob_id <= MaxBlobId
        /\ pc = "idle"
    BY <1>0, <1>6 DEF CloneEntity, FreshBlobId, Idle
  <2>2. CASE ReadImage(Entities[i]) = Absent
    <3>1. catalog' = NewRecordId(catalog) /\ pc' = "idle"
      BY <1>6, <2>1, <2>2 DEF CloneEntity
    <3>. QED  BY <1>00, <1>02, <2>1, <3>1, JobIdle DEF SameTables
  <2>3. CASE ReadImage(Entities[i]) # Absent
    <3>1. e \in Entity /\ e.kind # "combo" /\ ReadImage(Entities[i]) \in Images
      <4>1. Entities[i].kind # "combo"
        BY <2>3 DEF ReadImage
      <4>. QED  BY <2>1, <2>3, <4>1, ReadImageType DEF TypeOK, Figure, Entity
    <3>2. AppendBlob(NewRecordId(catalog), "create", catalog.next_record_id, e,
                     ReadImage(Entities[i]))
      BY <1>6, <2>3 DEF CloneEntity
    <3>. HIDE DEF e
    <3>3. /\ OpStep /\ Entities' = Entities
          /\ \/ pc' = "idle"
             \/ /\ pc' = "entity"
                /\ job'.op = "create" /\ job'.id = catalog.next_record_id
                /\ job'.ent = [e EXCEPT !.blob = catalog.next_blob_id]
                /\ job'.ent.blob # 0
      BY <1>0, <1>00, <2>1, <3>1, <3>2, AppendBlobChanges
    <3>. QED  BY <1>00, <1>05, <2>1, <3>1, <3>3
  <2>. QED  BY <2>2, <2>3
<1>7. ASSUME NEW i \in RecordIds, DeleteIdentity(i) PROVE OpStep /\ JobInv'
  <2>1. CommitNamed(catalog, IdentityDel(i)) /\ pc' = "idle"
    BY <1>7 DEF DeleteIdentity, CommitNamed, Idle, Done
  <2>2. BlobsStay /\ Entities' = Entities
        /\ Identities' = [Identities EXCEPT ![i] = Identities'[i]]
    BY <1>0, <2>1, CommitChanges, RecordsBuilt DEF IdentityDel
  <2>. QED  BY <2>1, <2>2, JobIdle DEF OpStep
<1>8. ASSUME NEW i \in RecordIds, DeleteEntity(i) PROVE OpStep /\ JobInv'
  <2>1. /\ CommitNamed(catalog, EntityDel(i)) /\ pc' = "idle"
        /\ ~UsedByCombo(catalog, i)
    BY <1>8 DEF DeleteEntity, CommitNamed, Idle, Done
  <2>2. /\ BlobsStay /\ Identities' = Identities
        /\ Entities' = Entities \/ Entities' = [Entities EXCEPT ![i] = Absent]
    BY <1>0, <2>1, CommitChanges, RecordsBuilt DEF EntityDel
  <2>3. EntityChange(i, Absent)
    BY <2>1 DEF EntityChange
  <2>. QED  BY <2>1, <2>2, <2>3, JobIdle DEF OpStep
<1>9. ASSUME NEW t \in RecordIds, NEW b \in RecordIds, NEW n \in Names,
             CreateCombo(t, b, n)
      PROVE  OpStep /\ JobInv'
  <2>. DEFINE e == [Figure("combo", n, NoId) EXCEPT !.top = t, !.bottom = b]
  <2>1. e \in Entity /\ e.top = t /\ e.bottom = b
    BY DEF Figure, Entity, Kinds
  <2>2. /\ FreshRecordId /\ HalfOf(t, "top") /\ HalfOf(b, "bottom") /\ pc' = "idle"
        /\ CommitNamed(NewRecordId(catalog), EntityRec(catalog.next_record_id, e))
    BY <1>9 DEF CreateCombo, Idle, Done
  <2>3. EntityChange(catalog.next_record_id, e)
    BY <1>00, <2>1, <2>2 DEF EntityChange
  <2>. HIDE DEF e
  <2>. QED  BY <1>00, <1>04, <2>1, <2>2, <2>3, JobIdle, RecordsBuilt
<1>10. ASSUME NEW m \in Modes, SetUsbMode(m) PROVE OpStep /\ JobInv'
  <2>. DEFINE c == [catalog EXCEPT !.usb_mode = m]
  <2>1. /\ c \in CatalogType /\ Precedes(c, ConfigRec(m)) /\ CommitNamed(c, ConfigRec(m))
        /\ pc' = "idle"
    BY <1>0, <1>10 DEF SetUsbMode, CatalogType, SameTables, Precedes, CommitNamed,
                       Idle, Done
  <2>. HIDE DEF c
  <2>2. BlobsStay /\ Entities' = Entities /\ Identities' = Identities
    BY <2>1, CommitChanges, RecordsBuilt DEF ConfigRec
  <2>. QED  BY <1>01, <2>1, <2>2, JobIdle
<1>11. ASSUME NEW kind \in {"figure", "top", "bottom"}, NEW n \in Names,
              CreateFromCatalog(kind, n)
       PROVE  OpStep /\ JobInv'
  <2>. DEFINE e == Figure(kind, n, NoId)
  <2>1. e \in Entity /\ e.kind # "combo"
    BY DEF Figure, Entity, Kinds
  <2>2. AppendBlob(NewRecordId(catalog), "create", catalog.next_record_id, e, Fresh)
        /\ FreshRecordId /\ catalog.next_blob_id <= MaxBlobId
    BY <1>11 DEF CreateFromCatalog, FreshBlobId
  <2>. HIDE DEF e
  <2>3. /\ OpStep /\ Entities' = Entities
        /\ \/ pc' = "idle"
           \/ /\ pc' = "entity"
              /\ job'.op = "create" /\ job'.id = catalog.next_record_id
              /\ job'.ent = [e EXCEPT !.blob = catalog.next_blob_id]
              /\ job'.ent.blob # 0
    BY <1>0, <1>00, <2>1, <2>2, AppendBlobChanges, CatalogAssumption
  <2>. QED  BY <1>00, <1>05, <2>1, <2>2, <2>3
<1>12. ASSUME NEW kind \in {"figure", "top", "bottom"}, NEW n \in Names,
              NEW parent \in RecordIds \union {NoId}, NEW img \in Images,
              Upload(kind, n, parent, img)
       PROVE  OpStep /\ JobInv'
  <2>. DEFINE e == Figure(kind, n, parent)
  <2>1. e \in Entity /\ e.kind # "combo"
    BY DEF Figure, Entity, Kinds
  <2>2. AppendBlob(catalog, "upload", NoId, e, img) /\ catalog.next_blob_id <= MaxBlobId
    BY <1>12 DEF Upload, FreshBlobId
  <2>. HIDE DEF e
  <2>3. /\ OpStep /\ Entities' = Entities
        /\ \/ pc' = "idle"
           \/ /\ pc' = "entity"
              /\ job'.op = "upload" /\ job'.id = NoId
              /\ job'.ent = [e EXCEPT !.blob = catalog.next_blob_id]
              /\ job'.ent.blob # 0
    BY <1>0, <2>1, <2>2, AppendBlobChanges
  <2>. QED  BY <1>05, <2>1, <2>3
<1>13. CASE AppendEntity
  <2>0. /\ pc = "entity" /\ pc' = "idle" /\ job.ent \in Entity
        /\ job.op # "upload" => job.id \in RecordIds
        /\ job.op = "upload" => FreshRecordId
    BY <1>13 DEF AppendEntity, Abort, TypeOK, Jobs
  <2>1. CASE job.op = "upload"
    <3>1. EntityChange(catalog.next_record_id, job.ent)
      BY <1>00, <2>0, <2>1 DEF EntityChange, JobInv
    <3>2. CommitNamed(NewRecordId(catalog), EntityRec(catalog.next_record_id, job.ent))
      BY <1>13, <2>1 DEF AppendEntity, CommitNamed
    <3>. QED  BY <1>00, <1>04, <2>0, <2>1, <3>1, <3>2, JobIdle, RecordsBuilt
  <2>2. CASE job.op # "upload"
    <3>1. EntityChange(job.id, job.ent)
      BY <2>0, <2>2 DEF EntityChange, JobInv
    <3>2. CommitNamed(catalog, EntityRec(job.id, job.ent))
      BY <1>13, <2>2 DEF AppendEntity, CommitNamed
    <3>. QED  BY <1>0, <1>04, <2>0, <2>2, <3>1, <3>2, JobIdle, RecordsBuilt
  <2>. QED  BY <2>1, <2>2
<1>14. CASE RejectName
  <2>1. /\ pc' = "idle" /\ catalog'.blobs = catalog.blobs
        /\ catalog'.entities = catalog.entities
        /\ catalog'.identities = catalog.identities
    BY <1>0, <1>14 DEF RejectName, Abort, NewRecordId, CatalogType
  <2>. QED  BY <1>02, <2>1, JobIdle
<1>15. ASSUME NEW i \in RecordIds, NEW img \in Images, Save(i, img)
       PROVE  OpStep /\ JobInv'
  <2>1. /\ AppendBlob(catalog, "save", i, Entities[i], img)
        /\ Entities[i] \in Entity /\ catalog.next_blob_id <= MaxBlobId
    BY <1>0, <1>15 DEF Save, StartCompact, FreshBlobId
  <2>2. /\ OpStep /\ Entities' = Entities
        /\ \/ pc' = "idle"
           \/ /\ pc' = "entity"
              /\ job'.op = "save" /\ job'.id = i
              /\ job'.ent = [Entities[i] EXCEPT !.blob = catalog.next_blob_id]
              /\ job'.ent.blob # 0
    BY <1>0, <1>15, <2>1, AppendBlobChanges
  <2>. QED  BY <1>05, <2>1, <2>2
<1>16. CASE ResumeSave
  <2>0. /\ pc = "resume" /\ job.ent \in Entity /\ job.id \in RecordIds
        /\ job.img \in Images /\ catalog.next_blob_id <= MaxBlobId
        /\ Entities[job.id] = job.ent
    <3>1. ShownRules
      BY RulesHold
    <3>2. pc = "resume" /\ job.id \in RecordIds
      BY <1>16 DEF ResumeSave, TypeOK, Jobs, Saving
    <3>3. ShownEntity(job.id) = Entities[job.id] /\ ShownEntity(job.id) = job.ent
      BY <3>1, <3>2 DEF ShownRules, JobInv, Saving
    <3>. QED  BY <3>2, <3>3 DEF TypeOK, Jobs, Saving, FreshBlobId
  <2>1. CASE AppendBlob(catalog, "save", job.id, job.ent, job.img)
    <3>1. /\ OpStep /\ Entities' = Entities
          /\ \/ pc' = "idle"
             \/ /\ pc' = "entity"
                /\ job'.op = "save" /\ job'.id = job.id
                /\ job'.ent = [job.ent EXCEPT !.blob = catalog.next_blob_id]
                /\ job'.ent.blob # 0
      BY <1>0, <2>0, <2>1, AppendBlobChanges
    <3>. QED  BY <1>05, <2>0, <3>1
  <2>2. CASE Abort /\ UNCHANGED catalog
    BY <1>02, <2>2, JobIdle DEF Abort
  <2>. QED  BY <1>16, <2>1, <2>2 DEF ResumeSave, StartCompact
<1>17. CASE EraseFails
  <2>1. pc' = "idle" /\ catalog' = catalog
    BY <1>17 DEF EraseFails, Abort
  <2>. QED  BY <1>02, <2>1, JobIdle
<1>18. CASE UNCHANGED vars
  <2>1. OpStep
    BY <1>02, <1>18 DEF vars
  <2>2. JobInv'
    BY <1>18 DEF vars, JobInv, Saving, ShownEntity, Pending, Entities
  <2>. QED  BY <2>1, <2>2
<1>. QED
  BY <1>1, <1>2, <1>3, <1>4, <1>5, <1>6, <1>7, <1>8, <1>9, <1>10, <1>11, <1>12,
     <1>13, <1>14, <1>15, <1>16, <1>17, <1>18, StoreAssumption
     DEF Next, ScanEnd, ScanCorrupt, ScanRecord, Compact, Format, StartCompact,
         Rewrite, PowerCut, TornWrite, EraseCut, Reboot

(***************************************************************************)
(* What users see.                                                         *)
(***************************************************************************)
ImageOf(e) == IF BlobOf(e) = 0 THEN Fresh ELSE CrcOf(e.blob)

ShownFigure(i) ==
  Seen(ShownEntity(i),
       IF BlobOf(ShownEntity(i)) = 0 THEN Fresh ELSE ShownBlob(ShownEntity(i).blob))

ShownTypes == \A i \in RecordIds : ShownEntity(i) \in Entity \union {Absent}

LibraryIsShown ==
  \A i \in RecordIds : /\ LibraryFigure(i) = ShownFigure(i)
                       /\ LibraryPerson(i) = ShownPerson(i)

\* Between boots and compactions users see the tables.
LibraryIsTables ==
  \A i \in RecordIds : /\ LibraryFigure(i) = Seen(Entities[i], ImageOf(Entities[i]))
                       /\ ImageOf(Entities[i]) \in Images
                       /\ LibraryPerson(i) = Identities[i]

LEMMA ShownEntityType == TypeOK /\ TodoInv => ShownTypes
<1>. SUFFICES ASSUME TypeOK, TodoInv, NEW i \in RecordIds
              PROVE  ShownEntity(i) \in Entity \union {Absent}
  BY DEF ShownTypes
<1>1. ShownRules /\ Entities[i] \in Entity \union {Absent} /\ job.todo \subseteq Records
  BY RulesHold DEF TypeOK, CatalogType, Entities, Jobs
<1>2. ASSUME NEW r \in job.todo, r.type = "entity" PROVE r.entity \in Entity
  BY <1>1, <1>2, RecordShape
<1>. QED  BY <1>1, <1>2 DEF ShownRules

LEMMA UsersSeeShown ==
  TypeOK /\ TodoInv /\ ShownIsDurable /\ pc # "scan" => LibraryIsShown
<1>. SUFFICES ASSUME TypeOK, TodoInv, ShownIsDurable, pc # "scan", NEW i \in RecordIds
              PROVE  /\ LibraryFigure(i) = ShownFigure(i)
                     /\ LibraryPerson(i) = ShownPerson(i)
  BY DEF LibraryIsShown
<1>1. /\ LibraryEntity(i) = ShownEntity(i) /\ LibraryPerson(i) = ShownPerson(i)
      /\ \A b \in BlobIds : LibraryBlob(b) = ShownBlob(b)
  BY DEF ShownIsDurable
<1>2. BlobOf(ShownEntity(i)) # 0 => ShownEntity(i).blob \in BlobIds
  BY ShownEntityType DEF ShownTypes, BlobOf, Entity
<1>. QED  BY <1>1, <1>2 DEF LibraryFigure, ShownFigure

LEMMA UsersSeeTables ==
  TypeOK /\ TodoInv /\ BlobsInv /\ ShownIsDurable /\ pc \notin {"scan", "rewrite"}
    => LibraryIsTables
<1>. SUFFICES ASSUME TypeOK, TodoInv, BlobsInv, ShownIsDurable,
                     pc \notin {"scan", "rewrite"}, NEW i \in RecordIds
              PROVE  /\ LibraryFigure(i) = Seen(Entities[i], ImageOf(Entities[i]))
                     /\ ImageOf(Entities[i]) \in Images
                     /\ LibraryPerson(i) = Identities[i]
  BY DEF LibraryIsTables
<1>1. /\ LibraryFigure(i) = ShownFigure(i) /\ LibraryPerson(i) = ShownPerson(i)
      /\ ShownEntity(i) = Entities[i] /\ ShownPerson(i) = Identities[i]
      /\ \A b \in BlobIds : ShownBlob(b) = CrcOf(b)
  BY UsersSeeShown, RulesHold DEF LibraryIsShown, ShownRules
<1>2. Entities[i] \in Entity \union {Absent}
  BY DEF TypeOK, CatalogType, Entities
<1>3. CASE BlobOf(Entities[i]) = 0
  BY <1>1, <1>3, CatalogAssumption DEF ShownFigure, ImageOf
<1>4. CASE BlobOf(Entities[i]) # 0
  <2>1. Entities[i].blob \in BlobIds /\ Entities[i] # Absent /\ Entities[i].blob # 0
    BY <1>2, <1>4 DEF BlobOf, Entity
  <2>2. catalog.blobs[Entities[i].blob] # Absent
    BY <2>1 DEF BlobsInv, HasBlob
  <2>3. CrcOf(Entities[i].blob) \in Images
    BY <2>1, <2>2 DEF CrcOf, TypeOK, CatalogType, StoredBlob
  <2>. QED  BY <1>1, <1>4, <2>1, <2>3 DEF ShownFigure, ImageOf
<1>. QED  BY <1>3, <1>4

(***************************************************************************)
(* Boots, power cuts and compactions.                                      *)
(***************************************************************************)
BootStep ==
  /\ "scan" \in {pc, pc'} /\ "rewrite" \notin {pc, pc'}
  /\ pc' \in {"scan", "idle"} /\ flash' = flash

LEMMA StepClasses ==
  ASSUME TypeOK, WholeErases, WholeWrites, WholeRewrites, [Next]_vars
  PROVE  \/ BootStep
         \/ \E r \in job.todo : Rewrite(r)
         \/ Format
         \/ \E then \in Jobs : Compaction(then)
         \/ UNCHANGED vars
         \/ pc \notin {"scan", "rewrite"} /\ pc' \notin {"scan", "rewrite"} /\ boots' = boots
<1>1. CASE pc' = "rewrite"
  BY <1>1, RewriteGoesOn
<1>2. ASSUME Next
      PROVE  \/ ScanEnd \/ ScanCorrupt \/ ScanRecord
             \/ PowerCut \/ TornWrite \/ EraseCut \/ EraseFails
             \/ \E r \in job.todo : Rewrite(r)
             \/ pc \notin {"scan", "rewrite"} /\ pc' # "scan" /\ boots' = boots
  <2>1. ASSUME NEW n \in Names, CreateIdentity(n) \/ CreateStatic(n)
        PROVE  pc \notin {"scan", "rewrite"} /\ pc' # "scan" /\ boots' = boots
    BY <2>1 DEF CreateIdentity, CreateStatic, Idle, Done
  <2>2. ASSUME NEW i \in RecordIds, NEW n \in Names,
               \/ RenameIdentity(i, n) \/ RenameEntity(i, n)
               \/ CreateFromIdentity(i, n) \/ CloneEntity(i, n)
        PROVE  pc \notin {"scan", "rewrite"} /\ pc' # "scan" /\ boots' = boots
    BY <2>2 DEF RenameIdentity, RenameEntity, CreateFromIdentity, CloneEntity, Idle,
                Done, AppendBlob, Abort
  <2>3. ASSUME NEW i \in RecordIds, DeleteIdentity(i) \/ DeleteEntity(i)
        PROVE  pc \notin {"scan", "rewrite"} /\ pc' # "scan" /\ boots' = boots
    BY <2>3 DEF DeleteIdentity, DeleteEntity, Idle, Done
  <2>4. ASSUME NEW t \in RecordIds, NEW b \in RecordIds, NEW n \in Names,
               CreateCombo(t, b, n)
        PROVE  pc \notin {"scan", "rewrite"} /\ pc' # "scan" /\ boots' = boots
    BY <2>4 DEF CreateCombo, Idle, Done
  <2>5. ASSUME NEW m \in Modes, SetUsbMode(m)
        PROVE  pc \notin {"scan", "rewrite"} /\ pc' # "scan" /\ boots' = boots
    BY <2>5 DEF SetUsbMode, Idle, Done
  <2>6. ASSUME NEW kind, NEW n, CreateFromCatalog(kind, n)
        PROVE  pc \notin {"scan", "rewrite"} /\ pc' # "scan" /\ boots' = boots
    BY <2>6 DEF CreateFromCatalog, Idle, AppendBlob, Abort
  <2>7. ASSUME NEW kind, NEW n, NEW parent, NEW img, Upload(kind, n, parent, img)
        PROVE  pc \notin {"scan", "rewrite"} /\ pc' # "scan" /\ boots' = boots
    BY <2>7 DEF Upload, Idle, AppendBlob, Abort
  <2>8. ASSUME AppendEntity \/ RejectName \/ Compact \/ Format \/ ResumeSave
        PROVE  pc \notin {"scan", "rewrite"} /\ pc' # "scan" /\ boots' = boots
    BY <2>8 DEF AppendEntity, RejectName, Compact, Format, ResumeSave, StartCompact,
                Idle, AppendBlob, Abort
  <2>9. ASSUME NEW i \in RecordIds, NEW img \in Images, Save(i, img)
        PROVE  pc \notin {"scan", "rewrite"} /\ pc' # "scan" /\ boots' = boots
    BY <2>9 DEF Save, StartCompact, Idle, AppendBlob, Abort
  <2>. QED  BY <1>2, <2>1, <2>2, <2>3, <2>4, <2>5, <2>6, <2>7, <2>8, <2>9,
            StoreAssumption DEF Next
<1>3. ASSUME ScanEnd \/ ScanCorrupt \/ ScanRecord
      PROVE  BootStep
  BY <1>3 DEF ScanEnd, ScanCorrupt, ScanRecord, BootStep
<1>4. ASSUME PowerCut PROVE BootStep
  BY <1>4 DEF PowerCut, CutName, Reboot, WholeRewrites, BootStep, TypeOK
<1>5. ~TornWrite /\ ~EraseCut /\ ~EraseFails
  BY DEF TornWrite, EraseCut, EraseFails, WholeErases, WholeWrites
<1>. QED  BY <1>1, <1>2, <1>3, <1>4, <1>5

(***************************************************************************)
(* The work in hand.                                                       *)
(***************************************************************************)
Sound ==
  /\ TypeOK /\ JournalInv /\ JournalFits /\ Replayed /\ NoTorn
  /\ RowsBacked /\ IdsAccounted /\ BlobsInv
  /\ TablesFit /\ RewriteRoom /\ TodoFits /\ TodoInv /\ JobInv

LEMMA CompactionShown ==
  ASSUME Sound, NEW then \in Jobs, Compaction(then)
  PROVE  TodoInv' /\ JobInv' /\ SameShown
<1>1. /\ TypeOK /\ TodoInv /\ JobInv /\ pc \in {"idle", "resume"} /\ StartCompact(then)
      /\ TodoInv' /\ SameShown
  BY StartCompactShown DEF Sound, Compaction
<1>2. pc' = "rewrite" /\ job'.op = then.op /\ job'.id = then.id /\ job'.ent = then.ent
  BY DEF Compaction, StartCompact, Jobs
<1>3. ASSUME then.op = "save", NEW i \in RecordIds, i = then.id
      PROVE  ShownEntity(i)' = then.ent
  <2>1. ShownEntity(i)' = ShownEntity(i) /\ ShownEntity(i) = Entities[i]
    BY <1>1, RulesHold DEF SameShown, ShownRules
  <2>2. pc = "resume" => Saving
    BY DEF Saving
  <2>. QED  BY <1>1, <1>3, <2>1, <2>2 DEF Compaction, JobInv
<1>4. JobInv'
  BY <1>2, <1>3 DEF JobInv, Saving
<1>. QED  BY <1>1, <1>4

LEMMA RewriteStepShown ==
  ASSUME Sound, NEW r \in job.todo, Rewrite(r)
  PROVE  TodoInv' /\ JobInv' /\ SameShown
<1>1. /\ TypeOK /\ JobInv /\ pc = "rewrite"
      /\ TodoInv' /\ SameShown
      /\ \/ pc' \in {"rewrite", "resume"} /\ \E todo : job' = [job EXCEPT !.todo = todo]
         \/ Abort
      /\ pc' = "resume" => job.op = "save"
  BY RewriteShown, RewriteWrites DEF Sound, Abort
<1>2. CASE Abort
  BY <1>1, <1>2, JobIdle DEF Abort
<1>3. CASE pc' \in {"rewrite", "resume"} /\ \E todo : job' = [job EXCEPT !.todo = todo]
  <2>1. job'.op = job.op /\ job'.id = job.id /\ job'.ent = job.ent /\ (Saving' => Saving)
    BY <1>1, <1>3 DEF TypeOK, Jobs, Saving
  <2>2. pc' # "entity" /\ \A i \in RecordIds : ShownEntity(i)' = ShownEntity(i)
    BY <1>1, <1>3 DEF SameShown
  <2>. QED  BY <1>1, <2>1, <2>2 DEF JobInv
<1>. QED  BY <1>1, <1>2, <1>3

LEMMA WorkNext ==
  ASSUME WholeErases, WholeWrites, WholeRewrites, Sound, [Next]_vars
  PROVE  TodoInv' /\ JobInv'
<1>0. TypeOK /\ IdsAccounted /\ BlobsInv /\ TodoInv /\ JobInv
  BY DEF Sound
<1>1. CASE pc' \in {"scan", "idle"}
  BY <1>1 DEF TodoInv, JobInv, Saving
<1>2. CASE Format
  BY <1>2, RecordShape DEF Format, TodoInv, JobInv, Saving, NoJob, Marker
<1>3. CASE UNCHANGED vars
  BY <1>0, <1>3 DEF vars, TodoInv, JobInv, Saving, ShownEntity, Pending, Entities
<1>4. CASE pc \notin {"scan", "rewrite"} /\ pc' \notin {"scan", "rewrite"}
  <2>1. JobInv'
    BY <1>0, <1>4, OperationSteps
  <2>. QED  BY <1>4, <2>1 DEF TodoInv
<1>. QED
  BY <1>0, <1>1, <1>2, <1>3, <1>4, StepClasses, CompactionShown, RewriteStepShown
     DEF BootStep

LEMMA SoundShown ==
  /\ Sound /\ pc # "scan" => LibraryIsShown
  /\ Sound /\ pc \notin {"scan", "rewrite"} => LibraryIsTables
<1>1. Sound => TypeOK /\ TodoInv /\ BlobsInv /\ ShownIsDurable
  BY ShownAfterBoot DEF Sound
<1>2. Sound /\ pc # "scan" => LibraryIsShown
  BY <1>1, UsersSeeShown
<1>3. Sound /\ pc \notin {"scan", "rewrite"} => LibraryIsTables
  BY <1>1, UsersSeeTables
<1>. QED  BY <1>2, <1>3

LEMMA SoundShownNext ==
  /\ Sound' /\ pc' # "scan" => LibraryIsShown'
  /\ Sound' /\ pc' \notin {"scan", "rewrite"} => LibraryIsTables'
<1>1. /\ (Sound /\ pc # "scan")' => LibraryIsShown'
      /\ (Sound /\ pc \notin {"scan", "rewrite"})' => LibraryIsTables'
  BY SoundShown, PTL
<1>. QED  BY <1>1

(***************************************************************************)
(* Steps that users do not see.                                            *)
(***************************************************************************)
LibraryStays ==
  \A i \in RecordIds : /\ LibraryFigure(i)' = LibraryFigure(i)
                       /\ LibraryPerson(i)' = LibraryPerson(i)

\* A boot reads the flash and leaves it alone.
LEMMA BootShowsSame ==
  ASSUME BootStep
  PROVE  LibraryStays
<1>1. flash' = flash /\ pc # "rewrite" /\ pc' # "rewrite"
  BY DEF BootStep
<1>2. JournalEnd' = JournalEnd
  BY <1>1 DEF JournalEnd
<1>3. Journal' = Journal
  BY <1>2 DEF Journal
<1>4. \A types, i : About(types, i)' = About(types, i)
  BY <1>1, <1>3 DEF About
<1>5. /\ \A i : LibraryEntity(i) = DurableEntity(i) /\ LibraryEntity(i)' = DurableEntity(i)'
      /\ \A i : LibraryPerson(i) = DurableIdentity(i)
                /\ LibraryPerson(i)' = DurableIdentity(i)'
      /\ \A b : LibraryBlob(b) = DurableBlob(b) /\ LibraryBlob(b)' = DurableBlob(b)'
  <2>1. \A type, i : Pending(type, i) = {} /\ Pending(type, i)' = {}
    BY <1>1 DEF Pending
  <2>. QED  BY <2>1 DEF LibraryEntity, LibraryPerson, LibraryBlob
<1>6. /\ \A i : DurableEntity(i)' = DurableEntity(i)
      /\ \A i : DurableIdentity(i)' = DurableIdentity(i)
      /\ \A b : DurableBlob(b)' = DurableBlob(b)
  BY <1>1, <1>4 DEF DurableEntity, DurableIdentity, DurableBlob
<1>. QED  BY <1>5, <1>6 DEF LibraryStays, LibraryFigure

LEMMA ShownStays ==
  ASSUME TypeOK, TodoInv, SameShown, LibraryIsShown, LibraryIsShown'
  PROVE  LibraryStays
<1>. SUFFICES ASSUME NEW i \in RecordIds
              PROVE  /\ LibraryFigure(i)' = LibraryFigure(i)
                     /\ LibraryPerson(i)' = LibraryPerson(i)
  BY DEF LibraryStays
<1>1. /\ LibraryFigure(i)' = ShownFigure(i)' /\ LibraryFigure(i) = ShownFigure(i)
      /\ LibraryPerson(i)' = ShownPerson(i)' /\ LibraryPerson(i) = ShownPerson(i)
      /\ ShownEntity(i)' = ShownEntity(i) /\ ShownPerson(i)' = ShownPerson(i)
  BY DEF LibraryIsShown, SameShown
<1>2. CASE BlobOf(ShownEntity(i)) = 0
  BY <1>1, <1>2 DEF ShownFigure
<1>3. CASE BlobOf(ShownEntity(i)) # 0
  <2>1. PICK b \in BlobIds : b = ShownEntity(i).blob /\ ShownEntity(i) # Absent
    BY <1>3, ShownEntityType DEF ShownTypes, BlobOf, Entity
  <2>2. ShownBlob(b)' = ShownBlob(b)
    BY <2>1 DEF SameShown
  <2>. QED  BY <1>1, <2>1, <2>2 DEF ShownFigure
<1>. QED  BY <1>2, <1>3

LEMMA SoundInit == Init => Sound
<1>. SUFFICES ASSUME Init PROVE Sound
  OBVIOUS
<1>1. /\ TypeOK /\ JournalInv /\ JournalFits /\ Replayed /\ NoTorn /\ RowsBacked
      /\ IdsAccounted /\ BlobsInv /\ TablesFit /\ RewriteRoom
  BY TypeInit, JournalInit, FitsInit, ReplayedInit, NoTornInit, RowsInit, IdsInit,
     BlobsInit, TablesInit, RoomInit
<1>2. TodoFits /\ TodoInv /\ JobInv
  BY DEF Init, TodoFits, TodoInv, JobInv, Saving
<1>. QED  BY <1>1, <1>2 DEF Sound

LEMMA SoundNext ==
  ASSUME WholeErases, WholeWrites, WholeRewrites, SnapshotFits,
         Sound, [Next]_vars, [~RefusedAsFull]_vars, [~CounterWraps]_vars
  PROVE  Sound'
<1>0. /\ TypeOK /\ JournalInv /\ JournalFits /\ Replayed /\ NoTorn /\ RowsBacked
      /\ IdsAccounted /\ BlobsInv /\ TablesFit /\ RewriteRoom /\ TodoFits
      /\ ~EraseFails
  BY DEF Sound, EraseFails, WholeErases
<1>00. ~CounterWraps
  BY <1>0, CatalogAssumption DEF vars, CounterWraps, TypeOK
<1>1. /\ TypeOK' /\ JournalInv' /\ JournalFits' /\ Replayed' /\ RowsBacked'
      /\ IdsAccounted' /\ TablesFit' /\ RewriteRoom'
  BY <1>0, <1>00, TypeNext, JournalNext, FitsNext, ReplayedNext, RowsNext, IdsNext, TablesNext,
     RoomNext
<1>2. NoTorn'
  BY <1>0, NoTornNext
<1>3. BlobsInv'
  BY <1>0, BlobsNext
<1>4. TodoFits'
  BY <1>0, TodoNext
<1>5. TodoInv' /\ JobInv'
  BY WorkNext
<1>. QED  BY <1>1, <1>2, <1>3, <1>4, <1>5 DEF Sound

LEMMA SoundAlways ==
  ASSUME WholeErases, WholeWrites, WholeRewrites, SnapshotFits
  PROVE  Spec /\ [][~RefusedAsFull]_vars /\ [][~CounterWraps]_vars => []Sound
<1>1. Sound /\ [Next]_vars /\ [~RefusedAsFull]_vars /\ [~CounterWraps]_vars => Sound'
  BY SoundNext
<1>. QED  BY <1>1, SoundInit, PTL DEF Spec

LEMMA QuietSteps ==
  ASSUME Sound, Sound',
         \/ BootStep
         \/ \E r \in job.todo : Rewrite(r)
         \/ \E then \in Jobs : Compaction(then)
         \/ UNCHANGED vars
  PROVE  LibraryStays
<1>0. TypeOK /\ TodoInv
  BY DEF Sound
<1>1. CASE BootStep
  BY <1>1, BootShowsSame
<1>2. ASSUME NEW r \in job.todo, Rewrite(r) PROVE LibraryStays
  <2>1. SameShown /\ pc # "scan" /\ pc' # "scan"
    BY <1>2, RewriteStepShown DEF Rewrite, Abort
  <2>. QED  BY <1>0, <2>1, SoundShown, SoundShownNext, ShownStays
<1>3. ASSUME NEW then \in Jobs, Compaction(then) PROVE LibraryStays
  <2>1. SameShown /\ pc # "scan" /\ pc' # "scan"
    BY <1>3, CompactionShown DEF Compaction, StartCompact
  <2>. QED  BY <1>0, <2>1, SoundShown, SoundShownNext, ShownStays
<1>4. CASE UNCHANGED vars
  <2>1. CASE pc = "scan"
    BY <1>4, <2>1, BootShowsSame DEF BootStep, vars
  <2>2. CASE pc # "scan"
    <3>1. SameShown /\ pc' # "scan"
      BY <1>4, <2>2 DEF vars, SameShown, ShownEntity, ShownPerson, ShownBlob, Pending,
                        Entities, Identities, CrcOf
    <3>. QED  BY <1>0, <2>2, <3>1, SoundShown, SoundShownNext, ShownStays
  <2>. QED  BY <2>1, <2>2
<1>. QED  BY <1>1, <1>2, <1>3, <1>4

\* Restarts, power cuts between operations and compactions, with the saves
\* that trigger them, are invisible to users: each step of scan_flash and
\* compact_store leaves every figure, its image and every identity as it was,
\* until the counter of record ids comes round.
THEOREM MaintenanceIsInvisible ==
  ASSUME WholeErases, WholeWrites, WholeRewrites, SnapshotFits
  PROVE  Spec /\ [][~RefusedAsFull]_vars /\ [][~CounterWraps]_vars => MaintenanceInvisible
<1>. DEFINE Kept == Maintenance =>
                      /\ \A i \in RecordIds : LibraryFigure(i)' = LibraryFigure(i)
                      /\ \A i \in RecordIds : LibraryPerson(i)' = LibraryPerson(i)
<1>1. Sound /\ Sound' /\ [Next]_vars => [Kept]_vars
  <2>. SUFFICES ASSUME Sound, Sound', [Next]_vars, Maintenance,
                       ~LibraryStays
                PROVE  FALSE
    BY DEF LibraryStays
  <2>1. \/ Format
        \/ pc \notin {"scan", "rewrite"} /\ pc' \notin {"scan", "rewrite"} /\ boots' = boots
    BY QuietSteps, StepClasses DEF Sound
  <2>2. ~Format
    BY DEF Format, Idle, Maintenance, NoJob
  <2>. QED  BY <2>1, <2>2 DEF Maintenance
<1>. QED  BY <1>1, SoundAlways, PTL DEF Spec, MaintenanceInvisible

(***************************************************************************)
(* Steps that users ask for.                                               *)
(***************************************************************************)
LEMMA SeenFields ==
  ASSUME NEW e \in Entity, NEW img \in Images
  PROVE  LET f == Seen(e, img) IN
           /\ f # Absent
           /\ f = [kind |-> e.kind, name |-> e.name, parent |-> e.parent, top |-> e.top,
                   bottom |-> e.bottom, img |-> f.img]
           /\ f.kind = e.kind /\ f.top = e.top /\ f.bottom = e.bottom /\ f.name = e.name
           /\ f.img = IF e.kind = "combo" \/ e.blob = 0 THEN Fresh ELSE img
           /\ f.img \in Images
<1>. DEFINE i == IF e.kind = "combo" \/ e.blob = 0 THEN Fresh ELSE img
            f == [kind |-> e.kind, name |-> e.name, parent |-> e.parent, top |-> e.top,
                  bottom |-> e.bottom, img |-> i]
<1>1. Seen(e, img) = f
  BY AbsentAssumption DEF Seen
<1>2. i \in Images
  BY CatalogAssumption
<1>3. f \in [kind : Kinds, name : Names, parent : RecordIds \union {NoId},
             top : RecordIds \union {NoId}, bottom : RecordIds \union {NoId}, img : Images]
  <2>. HIDE DEF i
  <2>. QED  BY <1>2 DEF Entity
<1>4. f # Absent
  BY <1>3, SeenAssumption
<1>. QED  BY <1>1, <1>2, <1>4

\* A row that stays shows the same figure, as its blob stays too.
LEMMA RowStays ==
  ASSUME TypeOK, BlobsInv, BlobsStay, LibraryIsTables, LibraryIsTables',
         NEW i \in RecordIds, Entities'[i] = Entities[i]
  PROVE  LibraryFigure(i)' = LibraryFigure(i)
<1>1. /\ LibraryFigure(i) = Seen(Entities[i], ImageOf(Entities[i]))
      /\ LibraryFigure(i)' = Seen(Entities'[i], ImageOf(Entities[i])')
  BY DEF LibraryIsTables
<1>2. ImageOf(Entities[i])' = ImageOf(Entities[i])
  <2>1. CASE BlobOf(Entities[i]) = 0
    BY <2>1 DEF ImageOf
  <2>2. CASE BlobOf(Entities[i]) # 0
    <3>1. Entities[i] # Absent /\ Entities[i].blob \in BlobIds /\ Entities[i].blob # 0
      BY <2>2 DEF BlobOf, TypeOK, CatalogType, Entities, Entity
    <3>2. catalog'.blobs[Entities[i].blob] = catalog.blobs[Entities[i].blob]
      BY <3>1 DEF BlobsInv, HasBlob, BlobsStay
    <3>. QED  BY <2>2, <3>2 DEF ImageOf, CrcOf
  <2>. QED  BY <2>1, <2>2
<1>. QED  BY <1>1, <1>2

LEMMA EntityStep ==
  ASSUME TypeOK, TypeOK', BlobsInv, BlobsStay, LibraryIsTables, LibraryIsTables',
         NEW i \in RecordIds, NEW e \in Entity \union {Absent}, EntityChange(i, e),
         Entities' = [Entities EXCEPT ![i] = e], Entities[i] # Absent \/ e # Absent
  PROVE  Lib!OneChange([k \in RecordIds |-> LibraryFigure(k)], i, LibraryFigure(i)')
<1>. DEFINE lib == [k \in RecordIds |-> LibraryFigure(k)]
            f == LibraryFigure(i)'
<1>0. /\ Entities \in [RecordIds -> Entity \union {Absent}]
      /\ Entities'[i] = e
  BY DEF TypeOK, CatalogType, Entities
<1>1. ASSUME NEW k \in RecordIds, Entities[k] = Absent PROVE lib[k] = Absent
  BY <1>1 DEF LibraryIsTables, Seen
<1>2. ASSUME NEW k \in RecordIds, Entities[k] # Absent
      PROVE  /\ lib[k] # Absent /\ lib[k].kind = Entities[k].kind
             /\ lib[k].top = Entities[k].top /\ lib[k].bottom = Entities[k].bottom
  <2>1. /\ lib[k] = Seen(Entities[k], ImageOf(Entities[k]))
        /\ ImageOf(Entities[k]) \in Images /\ Entities[k] \in Entity
    BY <1>0, <1>2 DEF LibraryIsTables
  <2>. QED  BY <2>1, SeenFields
<1>3. PICK img : f = Seen(e, img) /\ img \in Images /\ img = ImageOf(Entities[i])'
  BY <1>0 DEF LibraryIsTables
<1>4. CASE Entities[i] = Absent
  <2>1. e \in Entity /\ f # Absent /\ f.kind = e.kind /\ f.top = e.top
        /\ f.bottom = e.bottom
    BY <1>3, <1>4, SeenFields
  <2>2. f.kind = "combo" => /\ Lib!Half(lib, f.top, "top")
                            /\ Lib!Half(lib, f.bottom, "bottom")
    BY <1>2, <1>4, <2>1, AbsentAssumption DEF EntityChange, HalfOf, Lib!Half
  <2>3. Lib!Added(lib, i, f)
    BY <1>1, <1>4, <2>1, <2>2 DEF Lib!Added
  <2>. QED  BY <2>3 DEF Lib!OneChange
<1>5. CASE Entities[i] # Absent /\ e # Absent
  <2>. DEFINE old == ImageOf(Entities[i])
  <2>1. /\ Entities[i] \in Entity /\ e \in Entity
        /\ lib[i] = Seen(Entities[i], old) /\ old \in Images
    BY <1>0, <1>5 DEF LibraryIsTables
  <2>2. /\ lib[i] # Absent /\ f # Absent
        /\ lib[i] = [kind |-> Entities[i].kind, name |-> Entities[i].name,
                     parent |-> Entities[i].parent, top |-> Entities[i].top,
                     bottom |-> Entities[i].bottom, img |-> lib[i].img]
        /\ f = [kind |-> e.kind, name |-> e.name, parent |-> e.parent,
                top |-> e.top, bottom |-> e.bottom, img |-> f.img]
        /\ f.img \in Images /\ f.name = e.name
    BY <1>3, <2>1, SeenFields
  <2>3. /\ lib[i].img = IF Entities[i].kind = "combo" \/ Entities[i].blob = 0
                        THEN Fresh ELSE old
        /\ f.img = IF e.kind = "combo" \/ e.blob = 0 THEN Fresh ELSE img
    BY <1>3, <2>1, SeenFields
  <2>4. CASE e = [Entities[i] EXCEPT !.name = e.name]
    <3>1. /\ e.kind = Entities[i].kind /\ e.parent = Entities[i].parent
          /\ e.top = Entities[i].top /\ e.bottom = Entities[i].bottom
          /\ e.blob = Entities[i].blob
      BY <2>1, <2>4 DEF Entity
    <3>2. f.img = lib[i].img
      <4>1. CASE e.blob = 0
        BY <2>3, <3>1, <4>1
      <4>2. CASE e.blob # 0
        <5>1. e.blob \in BlobIds /\ catalog'.blobs[e.blob] = catalog.blobs[e.blob]
          BY <1>5, <2>1, <3>1, <4>2 DEF BlobsInv, HasBlob, BlobsStay, Entity
        <5>2. img = old
          BY <1>0, <1>3, <1>5, <3>1, <4>2, <5>1 DEF ImageOf, BlobOf, CrcOf
        <5>. QED  BY <2>3, <3>1, <5>2
      <4>. QED  BY <4>1, <4>2
    <3>3. f = [lib[i] EXCEPT !.name = f.name]
      <4>. DEFINE g == lib[i]
      <4>. HIDE DEF g, f
      <4>1. /\ g = [kind |-> Entities[i].kind, name |-> Entities[i].name,
                    parent |-> Entities[i].parent, top |-> Entities[i].top,
                    bottom |-> Entities[i].bottom, img |-> g.img]
            /\ f = [kind |-> Entities[i].kind, name |-> f.name,
                    parent |-> Entities[i].parent, top |-> Entities[i].top,
                    bottom |-> Entities[i].bottom, img |-> g.img]
        BY <2>2, <3>1, <3>2 DEF g
      <4>2. f = [g EXCEPT !.name = f.name]
        BY <4>1
      <4>. QED  BY <4>2 DEF g
    <3>. QED  BY <2>2, <3>3 DEF Lib!OneChange, Lib!Edited
  <2>5. CASE e = [Entities[i] EXCEPT !.blob = e.blob]
    <3>1. /\ e.kind = Entities[i].kind /\ e.parent = Entities[i].parent
          /\ e.top = Entities[i].top /\ e.bottom = Entities[i].bottom
          /\ e.name = Entities[i].name
      BY <2>1, <2>5 DEF Entity
    <3>2. f = [lib[i] EXCEPT !.img = f.img]
      <4>. DEFINE g == lib[i]
      <4>. HIDE DEF g, f
      <4>1. /\ g = [kind |-> Entities[i].kind, name |-> Entities[i].name,
                    parent |-> Entities[i].parent, top |-> Entities[i].top,
                    bottom |-> Entities[i].bottom, img |-> g.img]
            /\ f = [kind |-> Entities[i].kind, name |-> Entities[i].name,
                    parent |-> Entities[i].parent, top |-> Entities[i].top,
                    bottom |-> Entities[i].bottom, img |-> f.img]
        BY <2>2, <3>1 DEF g
      <4>2. f = [g EXCEPT !.img = f.img]
        BY <4>1
      <4>. QED  BY <4>2 DEF g
    <3>. QED  BY <2>2, <3>2 DEF Lib!OneChange, Lib!Edited
  <2>. QED  BY <1>5, <2>4, <2>5 DEF EntityChange
<1>6. CASE Entities[i] # Absent /\ e = Absent
  <2>1. lib[i] # Absent /\ f = Absent
    BY <1>2, <1>3, <1>6 DEF Seen
  <2>2. \A k \in RecordIds : lib[k] # Absent => i \notin {lib[k].top, lib[k].bottom}
    <3>1. ASSUME NEW k \in RecordIds, lib[k] # Absent
          PROVE  i \notin {lib[k].top, lib[k].bottom}
      <4>1. Entities[k] # Absent
        BY <1>1, <3>1
      <4>2. i \notin {Entities[k].top, Entities[k].bottom}
        BY <1>6, <4>1, AbsentAssumption DEF EntityChange, UsedByCombo, Entities
      <4>. QED  BY <1>2, <4>1, <4>2
    <3>. QED  BY <3>1
  <2>. QED  BY <2>1, <2>2 DEF Lib!OneChange, Lib!Removed
<1>. QED  BY <1>4, <1>5, <1>6

LEMMA OperationImplements ==
  ASSUME TypeOK, TypeOK', BlobsInv, OpStep, LibraryIsTables, LibraryIsTables'
  PROVE  [Lib!Next]_(Lib!vars)
<1>. DEFINE figs == [i \in RecordIds |-> LibraryFigure(i)]
            newFigs == [i \in RecordIds |-> LibraryFigure(i)']
            ppl == [i \in RecordIds |-> LibraryPerson(i)]
            newPpl == [i \in RecordIds |-> LibraryPerson(i)']
<1>1. ASSUME Entities' = Entities PROVE newFigs = figs
  BY <1>1, RowStays DEF OpStep
<1>2. ASSUME Identities' = Identities PROVE newPpl = ppl
  BY <1>2 DEF LibraryIsTables
<1>3. CASE Entities' = Entities /\ Identities' = Identities
  BY <1>1, <1>2, <1>3 DEF Lib!vars
<1>4. ASSUME Entities' = Entities, NEW i \in RecordIds,
             Identities' = [Identities EXCEPT ![i] = Identities'[i]]
      PROVE  [Lib!Next]_(Lib!vars)
  <2>1. \A k \in RecordIds : k # i => Identities'[k] = Identities[k]
    BY <1>4 DEF TypeOK, CatalogType, Identities
  <2>2. \A k \in RecordIds : k # i => LibraryPerson(k)' = LibraryPerson(k)
    BY <2>1 DEF LibraryIsTables
  <2>3. newPpl = [ppl EXCEPT ![i] = newPpl[i]]
    BY <2>2
  <2>4. Lib!PersonStep(ppl, newPpl)
    BY <2>3 DEF Lib!PersonStep
  <2>. QED  BY <1>1, <1>4, <2>4 DEF Lib!Next
<1>5. ASSUME Identities' = Identities, NEW i \in RecordIds,
             NEW e \in Entity \union {Absent}, EntityChange(i, e),
             Entities' = [Entities EXCEPT ![i] = e]
      PROVE  [Lib!Next]_(Lib!vars)
  <2>0. Entities \in [RecordIds -> Entity \union {Absent}]
    BY DEF TypeOK, CatalogType, Entities
  <2>1. CASE Entities[i] = Absent /\ e = Absent
    BY <1>3, <1>5, <2>0, <2>1
  <2>2. CASE Entities[i] # Absent \/ e # Absent
    <3>1. Lib!OneChange(figs, i, newFigs[i])
      BY <1>5, <2>2, EntityStep DEF OpStep
    <3>2. \A k \in RecordIds : k # i => Entities'[k] = Entities[k]
      BY <1>5, <2>0
    <3>3. \A k \in RecordIds : k # i => LibraryFigure(k)' = LibraryFigure(k)
      BY <3>2, RowStays DEF OpStep
    <3>4. newFigs = [figs EXCEPT ![i] = newFigs[i]]
      BY <3>3
    <3>5. Lib!FigureStep(figs, newFigs)
      BY <3>1, <3>4 DEF Lib!FigureStep
    <3>. QED  BY <1>2, <1>5, <3>5 DEF Lib!Next
  <2>. QED  BY <2>1, <2>2
<1>. QED  BY <1>3, <1>4, <1>5 DEF OpStep

LEMMA FormatImplements ==
  ASSUME Sound', Format
  PROVE  Lib!Clear
<1>1. /\ catalog' = NewCatalog /\ pc' = "rewrite" /\ job'.todo = {Marker}
  BY DEF Format, NoJob
<1>2. ASSUME NEW i \in RecordIds
      PROVE  LibraryFigure(i)' = Absent /\ LibraryPerson(i)' = Absent
  <2>1. /\ LibraryFigure(i)' = ShownFigure(i)' /\ LibraryPerson(i)' = ShownPerson(i)'
    BY <1>1, SoundShownNext DEF LibraryIsShown
  <2>2. Entities'[i] = Absent /\ Identities'[i] = Absent
    BY <1>1 DEF NewCatalog, Entities, Identities
  <2>3. ShownEntity(i)' = Entities'[i] /\ ShownPerson(i)' = Identities'[i]
    <3>1. ShownRules'
      BY RulesHoldNext DEF Sound
    <3>. QED  BY <1>1, <3>1 DEF ShownRules, Marker, Entities, Identities
  <2>. QED  BY <2>1, <2>2, <2>3 DEF ShownFigure, Seen
<1>. QED  BY <1>2 DEF Lib!Clear

LEMMA InitImplements == Init => Lib!Init
<1>. SUFFICES ASSUME Init PROVE Lib!Init
  OBVIOUS
<1>1. flash = [p \in Cells |-> Erased] /\ pc = "scan" /\ Cap \in Nat \ {0}
  BY CatalogAssumption DEF Init
<1>2. JournalEnd = 0
  <2>. DEFINE ends == {p \in Cells : flash[p] \in {Erased, Torn}} \union {Cap}
  <2>1. 0 \in ends /\ \A p \in ends : 0 <= p
    BY <1>1 DEF Cells
  <2>2. \A e \in ends : (\A p \in ends : e <= p) => e = 0
    BY <1>1, <2>1 DEF Cells
  <2>. HIDE DEF ends
  <2>3. (CHOOSE e \in ends : \A p \in ends : e <= p) = 0
    BY <2>1, <2>2
  <2>. QED  BY <2>3 DEF JournalEnd, ends
<1>3. Journal = {}
  BY <1>2 DEF Journal
<1>4. \A types, i : About(types, i) = {}
  BY <1>3 DEF About
<1>5. \A type, i : Pending(type, i) = {}
  BY <1>1 DEF Pending
<1>6. \A i : LibraryEntity(i) = Absent /\ LibraryPerson(i) = Absent
  BY <1>4, <1>5 DEF LibraryEntity, LibraryPerson, DurableEntity, DurableIdentity
<1>7. \A i : LibraryFigure(i) = Absent
  BY <1>6 DEF LibraryFigure, Seen
<1>. QED  BY <1>6, <1>7 DEF Lib!Init

LEMMA StepImplements ==
  ASSUME WholeErases, WholeWrites, WholeRewrites, Sound, Sound', [Next]_vars
  PROVE  [Lib!Next]_(Lib!vars)
<1>1. CASE LibraryStays
  BY <1>1 DEF LibraryStays, Lib!vars
<1>2. CASE Format
  BY <1>2, FormatImplements DEF Lib!Next
<1>3. CASE pc \notin {"scan", "rewrite"} /\ pc' \notin {"scan", "rewrite"}
  <2>1. TypeOK /\ IdsAccounted /\ BlobsInv /\ TodoInv /\ JobInv /\ TypeOK'
    BY DEF Sound
  <2>2. OpStep
    BY <1>3, <2>1, OperationSteps
  <2>3. LibraryIsTables /\ LibraryIsTables'
    BY <1>3, SoundShown, SoundShownNext
  <2>. QED  BY <2>1, <2>2, <2>3, OperationImplements
<1>. QED  BY <1>1, <1>2, <1>3, QuietSteps, StepClasses DEF Sound

\* Store implements Library: every operation of the store, with its appends,
\* boots, power cuts between operations and compactions, is to its users one
\* change that they asked for, or nothing at all, until the counter of record ids
\* comes round.
THEOREM StoreImplementsLibrary ==
  ASSUME WholeErases, WholeWrites, WholeRewrites, SnapshotFits
  PROVE  Spec /\ [][~RefusedAsFull]_vars /\ [][~CounterWraps]_vars => ImplementsLibrary
<1>1. Sound /\ Sound' /\ [Next]_vars => [Lib!Next]_(Lib!vars)
  BY StepImplements
<1>. QED  BY <1>1, InitImplements, SoundAlways, PTL DEF Spec, ImplementsLibrary, Lib!Spec

(***************************************************************************)
(* What holds of Library holds of Store: combos have both halves.          *)
(***************************************************************************)
Figures == [i \in RecordIds |-> LibraryFigure(i)]

CombosWhole(lib) ==
  \A i \in RecordIds :
    lib[i] # Absent /\ lib[i].kind = "combo" =>
      Lib!Half(lib, lib[i].top, "top") /\ Lib!Half(lib, lib[i].bottom, "bottom")

\* f looks like a figure.
Shaped(f) ==
  f = [kind |-> f.kind, name |-> f.name, parent |-> f.parent,
       top |-> f.top, bottom |-> f.bottom, img |-> f.img]

LEMMA FiguresShaped ==
  ASSUME NEW i \in RecordIds
  PROVE  LibraryFigure(i) = Absent \/ Shaped(LibraryFigure(i))
  BY DEF LibraryFigure, Seen, Shaped

LEMMA ChangeKeepsCombos ==
  ASSUME NEW lib, NEW new, CombosWhole(lib), NEW i \in RecordIds,
         lib[i] = Absent \/ Shaped(lib[i]),
         \A k \in RecordIds : k # i => new[k] = lib[k],
         Lib!OneChange(lib, i, new[i])
  PROVE  CombosWhole(new)
<1>. SUFFICES ASSUME NEW k \in RecordIds, new[k] # Absent, new[k].kind = "combo"
              PROVE  /\ Lib!Half(new, new[k].top, "top")
                     /\ Lib!Half(new, new[k].bottom, "bottom")
  BY DEF CombosWhole
<1>1. CASE Lib!Added(lib, i, new[i])
  <2>1. Lib!Half(lib, new[k].top, "top") /\ Lib!Half(lib, new[k].bottom, "bottom")
    BY <1>1 DEF Lib!Added, CombosWhole
  <2>. QED  BY <1>1, <2>1 DEF Lib!Added, Lib!Half
<1>2. CASE Lib!Edited(lib, i, new[i])
  <2>1. /\ lib[i] # Absent /\ new[i] # Absent /\ new[i].kind = lib[i].kind
        /\ new[i].top = lib[i].top /\ new[i].bottom = lib[i].bottom
    BY <1>2 DEF Lib!Edited, Shaped
  <2>2. Lib!Half(lib, new[k].top, "top") /\ Lib!Half(lib, new[k].bottom, "bottom")
    BY <2>1 DEF CombosWhole
  <2>. QED  BY <2>1, <2>2 DEF Lib!Half
<1>3. CASE Lib!Removed(lib, i, new[i])
  BY <1>3 DEF Lib!Removed, CombosWhole, Lib!Half
<1>. QED  BY <1>1, <1>2, <1>3 DEF Lib!OneChange

LEMMA CombosStayWhole ==
  ASSUME CombosWhole(Figures), [Lib!Next]_(Lib!vars)
  PROVE  CombosWhole(Figures')
<1>. DEFINE new == [i \in RecordIds |-> LibraryFigure(i)']
<1>0. Figures' = new
  BY DEF Figures
<1>1. CASE new = Figures
  BY <1>0, <1>1
<1>2. CASE Lib!FigureStep(Figures, new)
  <2>1. PICK i \in RecordIds : /\ new = [Figures EXCEPT ![i] = new[i]]
                               /\ Lib!OneChange(Figures, i, new[i])
    BY <1>2 DEF Lib!FigureStep
  <2>2. Figures[i] = Absent \/ Shaped(Figures[i])
    BY FiguresShaped DEF Figures
  <2>3. \A k \in RecordIds : k # i => new[k] = Figures[k]
    BY <2>1 DEF Figures
  <2>. HIDE DEF new
  <2>4. CombosWhole(new)
    BY <2>1, <2>2, <2>3, ChangeKeepsCombos
  <2>. QED  BY <1>0, <2>4
<1>3. CASE Lib!Clear
  <2>1. \A i \in RecordIds : new[i] = Absent
    BY <1>3 DEF Lib!Clear
  <2>. QED  BY <1>0, <2>1 DEF CombosWhole
<1>. QED  BY <1>1, <1>2, <1>3 DEF Lib!Next, Lib!vars, Figures

\* Both halves of every combo exist and are halves of the right kind, between
\* any two operations and after any restart (create_swapforce_combo checks it
\* once, delete_entity keeps it), until the counter of record ids comes round:
\* Library has it by its three kinds of changes, and Store implements Library.
THEOREM HalvesStay ==
  ASSUME WholeErases, WholeWrites, WholeRewrites, SnapshotFits
  PROVE  Spec /\ [][~RefusedAsFull]_vars /\ [][~CounterWraps]_vars => []CombosComplete
<1>1. Init => CombosWhole(Figures)
  <2>. SUFFICES ASSUME Init PROVE CombosWhole(Figures)
    OBVIOUS
  <2>1. \A i \in RecordIds : Figures[i] = Absent
    BY InitImplements DEF Lib!Init, Figures
  <2>. QED  BY <2>1 DEF CombosWhole
<1>2. Sound /\ Sound' /\ [Next]_vars /\ CombosWhole(Figures)
        => CombosWhole(Figures)'
  <2>. SUFFICES ASSUME Sound, Sound', [Next]_vars, CombosWhole(Figures)
                PROVE  CombosWhole(Figures')
    BY DEF CombosWhole, Lib!Half
  <2>. QED  BY StepImplements, CombosStayWhole
<1>3. Sound /\ CombosWhole(Figures) => CombosComplete
  <2>. SUFFICES ASSUME Sound, CombosWhole(Figures), pc = "idle", NEW i \in RecordIds,
                       Entities[i] # Absent, Entities[i].kind = "combo"
                PROVE  HalfOf(Entities[i].top, "top") /\ HalfOf(Entities[i].bottom, "bottom")
    BY DEF CombosComplete
  <2>1. \A k \in RecordIds :
          /\ Entities[k] = Absent => Figures[k] = Absent
          /\ Entities[k] # Absent =>
               /\ Figures[k] # Absent /\ Figures[k].kind = Entities[k].kind
               /\ Figures[k].top = Entities[k].top
               /\ Figures[k].bottom = Entities[k].bottom
    <3>. SUFFICES ASSUME NEW k \in RecordIds
                  PROVE  /\ Entities[k] = Absent => Figures[k] = Absent
                         /\ Entities[k] # Absent =>
                              /\ Figures[k] # Absent /\ Figures[k].kind = Entities[k].kind
                              /\ Figures[k].top = Entities[k].top
                              /\ Figures[k].bottom = Entities[k].bottom
      OBVIOUS
    <3>1. /\ Figures[k] = Seen(Entities[k], ImageOf(Entities[k]))
          /\ ImageOf(Entities[k]) \in Images /\ Entities[k] \in Entity \union {Absent}
      BY SoundShown DEF LibraryIsTables, Figures, Sound, TypeOK, CatalogType, Entities
    <3>2. CASE Entities[k] = Absent
      BY <3>1, <3>2 DEF Seen
    <3>3. CASE Entities[k] # Absent
      BY <3>1, <3>3, SeenFields
    <3>. QED  BY <3>2, <3>3
  <2>2. /\ Lib!Half(Figures, Entities[i].top, "top")
        /\ Lib!Half(Figures, Entities[i].bottom, "bottom")
    BY <2>1 DEF CombosWhole
  <2>. QED  BY <2>1, <2>2 DEF Lib!Half, HalfOf
<1>. QED  BY <1>1, <1>2, <1>3, SoundAlways, PTL DEF Spec
=============================================================================
