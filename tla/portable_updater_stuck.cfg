SPECIFICATION Spec
CONSTANTS
  Revisions = {1, 2}
  Platforms = {"linux"}
  First = 1
CHECK_DEADLOCK FALSE
INVARIANTS Reconcilable
