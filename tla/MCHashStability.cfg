\* The same build, checking the summaries against the canonical ones.
CONSTANTS
    Crates <- MCCrates
    UsedCrates <- MCUsedCrates
    CrateName <- MCCrateName
    Sesame <- MCSesame
    Impls <- MCImpls
SPECIFICATION Spec
INVARIANT SummaryCanonical
CHECK_DEADLOCK FALSE
