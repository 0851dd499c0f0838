SPECIFICATION LinksSpec
CONSTANTS
  Codes = {"a", "b", "c"}
  Urls = {u1, u2}
  Times = {1, 2}
  CodeOrder <- MCCodeOrder
  max_entries = 2
SYMMETRY Symmetry
INVARIANTS MemoryIsOnDisk ConfirmedSurvives DeletedStaysDeleted
