SPECIFICATION Spec
CONSTANTS
  Revisions = {1, 2, 3}
  Platforms = {"linux", "windows"}
  First = 1
CHECK_DEADLOCK FALSE
INVARIANTS RootIsSound Journalled InterruptedExchangeRecovers
