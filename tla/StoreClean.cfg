SPECIFICATION Spec
CONSTANTS
  Cap = 6
  MaxEntities = 4
  MaxIdentities = 3
  MaxRecordId = 3
  MaxTaken = 2
  MaxBlobId = 3
  Images = {fresh, played}
  Fresh = fresh
  Names = {ann}
  Absent = Absent
  Erased = Erased
  Torn = Torn
  Sector = 4
  CompactPercent = 80
  MaxBoots = 1
  Faults = {"idle", "append"}
  Requests = {"create", "save", "delete", "compact", "format"}
  Deletable = {1, 3}
INVARIANTS
  RebootSafe
  BlobsReadable
  NewIdsAreUnused
  RewriteKeepsFigures
PROPERTIES
  MaintenanceInvisible
  ImplementsLibrary
  AppendOnly
