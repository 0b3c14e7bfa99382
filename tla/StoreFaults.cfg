SPECIFICATION Spec
CONSTANTS
  Cap = 6
  MaxEntities = 3
  MaxIdentities = 3
  MaxRecordId = 4
  MaxTaken = 3
  MaxBlobId = 2
  Images = {fresh}
  Fresh = fresh
  Names = {ann}
  Absent = Absent
  Erased = Erased
  Torn = Torn
  Sector = 3
  CompactPercent = 80
  MaxBoots = 2
  Faults = {"idle", "append", "tear"}
  Requests = {"create", "mode", "combo", "delete", "compact"}
  Deletable = {1, 2, 3}
INVARIANTS
  ModeDivergesOnlyWhenRefused
  LossOnlyAfterTear
  BlobsReadable
  CombosComplete
