SPECIFICATION Spec
CONSTANTS
    Templates <- MCTemplates
    Forms <- MCForms
    Disks <- MCDisks
    Ids <- MCIds
    Inputs <- MCInputs
    Plans <- MCPlans
    DateForms <- MCDateForms
    Nested = FALSE
    Overlap = FALSE
    MaxOps = 4
INVARIANTS TypeInv DeclaredKept FixSettles
PROPERTIES IdsStable
CHECK_DEADLOCK FALSE
