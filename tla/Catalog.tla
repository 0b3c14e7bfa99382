------------------------------ MODULE Catalog ------------------------------
(***************************************************************************)
(* The RAM catalog of the firmware's library (src/storage/catalog.rs) and  *)
(* the journal records it is rebuilt from (src/storage/journal.rs).  Pure  *)
(* operators: the module has no variable.                                  *)
(*                                                                         *)
(* A figure image is abstracted to the save data it carries, and a CRC to  *)
(* the image it was computed from.  Generations are left out: replay       *)
(* follows the order of the records and never compares generations.        *)
(*                                                                         *)
(* Record ids are machine words: 0 .. MaxRecordId, with MaxRecordId in the *)
(* place of u32::MAX.  Clients may name any of them, observe_record_id     *)
(* saturates at the largest and next_record_id wraps.  Blob ids come from  *)
(* their counter only, one for each blob written to flash: the flash wears *)
(* out long before 2^32 of them, so they are numbers with a bound.         *)
(***************************************************************************)
EXTENDS Naturals, FiniteSets

CONSTANTS
  Cap,           \* record cells in the storage region (STORAGE_FLASH_BYTES)
  MaxEntities,   \* slots of the entity table, and of the blob table
  MaxIdentities, \* slots of the identity table
  MaxRecordId,   \* the largest record id
  MaxTaken,      \* bound: the largest record id that an operation takes
  MaxBlobId,     \* bound: blob ids handed out
  Images,        \* save data an image can carry
  Fresh,         \* the save data of a figure nobody has played yet
  Names,         \* display names
  Absent         \* an empty table slot (None)

ASSUME CatalogAssumption ==
  /\ Cap \in Nat \ {0}
  /\ MaxEntities \in Nat /\ MaxIdentities \in Nat
  /\ MaxRecordId \in Nat \ {0} /\ MaxBlobId \in Nat
  /\ MaxTaken \in 0 .. MaxRecordId
  /\ Fresh \in Images

Cells     == 0 .. Cap - 1
RecordIds == 0 .. MaxRecordId
BlobIds   == 1 .. MaxBlobId
Modes     == {"skylanders", "infinity"}

\* FigureKind, as far as storage tells kinds apart: the two Swap Force halves,
\* the combo that joins two halves, and everything else.  Option::None is NoId
\* for a record id and 0 for a blob id.
NoId   == MaxRecordId + 1
Kinds  == {"figure", "top", "bottom", "combo"}
Entity == [kind : Kinds, name : Names, parent : RecordIds \union {NoId},
           blob : BlobIds \union {0},
           top : RecordIds \union {NoId}, bottom : RecordIds \union {NoId}]
StoredBlob == [offset : Cells, crc : Images]

ASSUME AbsentAssumption ==
  Absent \notin Entity \union StoredBlob \union Names \union Images

CatalogType ==
  [entities       : [RecordIds -> Entity \union {Absent}],
   identities     : [RecordIds -> Names \union {Absent}],
   blobs          : [BlobIds -> StoredBlob \union {Absent}],
   usb_mode       : Modes,
   needs_format   : BOOLEAN,
   write_offset   : 0 .. Cap,
   next_record_id : RecordIds,
   next_blob_id   : 1 .. MaxBlobId + 1]

NewCatalog ==
  [entities       |-> [i \in RecordIds |-> Absent],
   identities     |-> [i \in RecordIds |-> Absent],
   blobs          |-> [b \in BlobIds |-> Absent],
   usb_mode       |-> "skylanders",
   needs_format   |-> FALSE,
   write_offset   |-> 0,
   next_record_id |-> 1,
   next_blob_id   |-> 1]

(***************************************************************************)
(* Journal records.                                                        *)
(***************************************************************************)
BlobRec(b, img)    == [type |-> "blob", id |-> b, img |-> img]
EntityRec(i, e)    == [type |-> "entity", id |-> i, entity |-> e]
EntityDel(i)       == [type |-> "entityDel", id |-> i]
IdentityRec(i, n)  == [type |-> "identity", id |-> i, name |-> n]
IdentityDel(i)     == [type |-> "identityDel", id |-> i]
ConfigRec(m)       == [type |-> "config", mode |-> m]
Marker             == [type |-> "marker"]

BlobRecords == {BlobRec(b, img) : b \in BlobIds, img \in Images}
Records ==
  UNION {BlobRecords,
         {EntityRec(i, e) : i \in RecordIds, e \in Entity},
         {EntityDel(i) : i \in RecordIds},
         {IdentityRec(i, n) : i \in RecordIds, n \in Names},
         {IdentityDel(i) : i \in RecordIds},
         {ConfigRec(m) : m \in Modes},
         {Marker}}

(***************************************************************************)
(* Tables.  An upsert replaces the row of the same id, else takes an empty *)
(* slot, else is refused with Full and leaves the table alone.             *)
(***************************************************************************)
HasRoom(table, id, max) ==
  \/ table[id] # Absent
  \/ Cardinality({i \in DOMAIN table : table[i] # Absent}) < max

Put(table, id, row, max) ==
  IF HasRoom(table, id, max) THEN [table EXCEPT ![id] = row] ELSE table

\* The upsert that applying record r asks for would be refused.
TableFull(c, r) ==
  \/ r.type = "entity"   /\ ~HasRoom(c.entities, r.id, MaxEntities)
  \/ r.type = "identity" /\ ~HasRoom(c.identities, r.id, MaxIdentities)
  \/ r.type = "blob"     /\ ~HasRoom(c.blobs, r.id, MaxEntities)

\* The catalog after record r at cell `at` took effect, its offset apart.
Tables(c, r, at) ==
  CASE r.type = "entity" ->
         [c EXCEPT !.entities = Put(@, r.id, r.entity, MaxEntities)]
    [] r.type = "identity" ->
         [c EXCEPT !.identities = Put(@, r.id, r.name, MaxIdentities)]
    [] r.type = "blob" ->
         [c EXCEPT !.blobs =
            Put(@, r.id, [offset |-> at, crc |-> r.img], MaxEntities)]
    [] r.type = "entityDel"   -> [c EXCEPT !.entities[r.id] = Absent]
    [] r.type = "identityDel" -> [c EXCEPT !.identities[r.id] = Absent]
    [] r.type = "config"      -> [c EXCEPT !.usb_mode = r.mode]
    [] OTHER -> c

\* Mutant of Applied: the journal's end is left where it was.
AppliedInPlace(c, r) == Tables(c, r, c.write_offset)

\* ... and the journal's end moved past it.
Applied(c, r) ==
  [Tables(c, r, c.write_offset) EXCEPT !.write_offset = @ + 1]

\* Mutant of AtLeast: off by one, the last id seen is handed out again.
AtLeastOffByOne(next, id, largest) == IF next <= id THEN id ELSE next

\* next.max(id.saturating_add(1))
AtLeast(next, id, largest) ==
  LET after == IF id < largest THEN id + 1 ELSE largest
  IN IF next < after THEN after ELSE next

\* observe_record_id and observe_blob_id: the ids of the journal are not handed
\* out again, as long as there is a larger one.
Observed(c, r) ==
  CASE r.type \in {"entity", "entityDel", "identity", "identityDel"} ->
         [c EXCEPT !.next_record_id = AtLeast(@, r.id, MaxRecordId)]
    [] r.type = "blob" ->
         [c EXCEPT !.next_blob_id = AtLeast(@, r.id, MaxBlobId + 1)]
    [] OTHER -> c

\* Mutant of NewRecordId: the counter is read and not advanced.
NewRecordIdAgain(c) == c

\* The id handed out is the counter's value; the counter wraps.
NewRecordId(c) == [c EXCEPT !.next_record_id = (@ + 1) % (MaxRecordId + 1)]
NewBlobId(c)   == [c EXCEPT !.next_blob_id = @ + 1]

\* Mutant of UsedByCombo: the bottom half is forgotten.
UsedAsTop(c, i) ==
  \E k \in RecordIds : c.entities[k] # Absent /\ c.entities[k].top = i

\* A Swap Force combo that is made of entity i.
UsedByCombo(c, i) ==
  \E k \in RecordIds : /\ c.entities[k] # Absent
                       /\ i \in {c.entities[k].top, c.entities[k].bottom}

\* Mutant of LiveBlobs: blobs that no entity refers to any more count as used.
AllBlobs(c) == {b \in BlobIds : c.blobs[b] # Absent}

\* Mutant of LiveBlobs: only the halves of combos count as used.
BlobsOfHalves(c) ==
  {b \in BlobIds :
     /\ c.blobs[b] # Absent
     /\ \E i \in RecordIds : /\ c.entities[i] # Absent
                             /\ c.entities[i].kind \in {"top", "bottom"}
                             /\ c.entities[i].blob = b}

\* Blobs of the table that some entity still refers to.
LiveBlobs(c) ==
  {b \in BlobIds :
     /\ c.blobs[b] # Absent
     /\ \E i \in RecordIds : c.entities[i] # Absent /\ c.entities[i].blob = b}
=============================================================================
