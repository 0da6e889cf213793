\* The five-crate workspace with its two policy crates built in parallel:
\* their index lines, each written as a name and then a newline, interleave.
CONSTANTS
    Crates <- MCCrates
    UsedCrates <- MCUsedCrates
    CrateName <- MCCrateName
    Sesame <- MCSesame
    Impls <- MCImpls
SPECIFICATION Spec
INVARIANT RollupComplete
CHECK_DEADLOCK FALSE
