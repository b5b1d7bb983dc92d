CONSTANTS
  A = A
  B = B
  a1 = a1
  a2 = a2
  b1 = b1
  b2 = b2
  Templates <- MCTemplates
  RecordsOf <- MCRecordsOf
  Fields <- MCFields
  Mirror = Mirror
  NoHalf = NoHalf
  Overlap = {}
  Declared <- MCDeclared
  Menu = {"many-to-one", "many-to-many"}
  MaxOps = 3
  MaxEdits = 3
  MaxSteps = 4
SPECIFICATION Spec
SYMMETRY Symm
INVARIANTS
  TypeInv
  Symmetric
  ReferencesSettle
  SyncMirrors
PROPERTY LinksFit
CHECK_DEADLOCK FALSE
