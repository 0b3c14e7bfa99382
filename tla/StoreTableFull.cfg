SPECIFICATION Spec
CONSTANTS
  Cap = 4
  MaxEntities = 1
  MaxIdentities = 2
  MaxRecordId = 3
  MaxTaken = 2
  MaxBlobId = 2
  Images = {fresh, played}
  Fresh = fresh
  Names = {ann}
  Absent = Absent
  Erased = Erased
  Torn = Torn
  Sector = 2
  CompactPercent = 80
  MaxBoots = 2
  Faults = {"idle"}
  Requests = {"static", "delete"}
  Deletable = {1, 2}
INVARIANT
  OnlyDamageNeedsFormat
