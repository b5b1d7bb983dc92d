SPECIFICATION Spec
CONSTANTS
    Templates <- MCTemplates
    Forms <- MCForms
    Disks <- MCDisks
    Ids <- MCIds
    Inputs <- MCInputs
    Plans <- MCPlans
    DateForms <- MCDateForms
    Nested = TRUE
    Overlap = FALSE
    MaxOps = 3
PROPERTIES MovesStay
CHECK_DEADLOCK FALSE
