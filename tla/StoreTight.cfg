SPECIFICATION Spec
CONSTANTS
  Cap = 4
  MaxEntities = 1
  MaxIdentities = 1
  MaxRecordId = 1
  MaxTaken = 1
  MaxBlobId = 2
  Images = {fresh, played}
  Fresh = fresh
  Names = {ann}
  Absent = Absent
  Erased = Erased
  Torn = Torn
  Sector = 3
  CompactPercent = 80
  MaxBoots = 1
  Faults = {"idle", "append", "tear", "rewrite", "erase", "eraseError"}
  Requests = {"identity", "static", "create", "upload", "clone", "rename", "save", "delete", "compact", "format"}
  Deletable = {1}
INVARIANTS
  TypeOK
  RowsJournalled
