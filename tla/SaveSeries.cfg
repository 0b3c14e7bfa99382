SPECIFICATION Spec
CONSTANTS
  None = None
  Spoilt = Spoilt
  MaxId = 2
  Kinds = {"one", "other"}
  Uids <- MCUids
  Uid <- MCUid
  MaxSave = 3
  MaxFormats = 1
  Refusals = TRUE
INVARIANTS
  TypeOK
  AlwaysPlayable
PROPERTIES
  ImplementsSaves
