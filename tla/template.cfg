SPECIFICATION Spec
CONSTANTS
  Files <- MCFiles
  Facets <- MCFacets
  Formulas <- MCFormulas
  Candidates <- MCCandidates
  MaxFields = 7
  MaxEdits = 3
  Reordered = FALSE
INVARIANTS TypeInv TreeAgrees DraftSettles SavedIsStable
PROPERTIES EditsKeepLoops
CHECK_DEADLOCK FALSE
