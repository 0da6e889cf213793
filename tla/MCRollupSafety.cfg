\* A full cargo build, in every order cargo may choose, of the workspace
\* whose policy crates are built one after another.  The build ends when
\* every crate is built (or one failed).
CONSTANTS
    Crates <- MCCrates
    UsedCrates <- SerialUsedCrates
    CrateName <- MCCrateName
    Sesame <- MCSesame
    Impls <- MCImpls
SPECIFICATION Spec
INVARIANT TypeOK
INVARIANT RollupComplete
INVARIANT RollupPairsMatch
INVARIANT NoCrateFails
PROPERTY RollupRefinement
CHECK_DEADLOCK FALSE
