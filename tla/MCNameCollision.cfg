\* A package whose library and binary share the crate name, with a second
\* crate using the library: the binary's build rewrites the library's file.
CONSTANTS
    Crates <- LibBinCrates
    UsedCrates <- LibBinUsedCrates
    CrateName <- LibBinCrateName
    Sesame <- LibBinSesame
    Impls <- LibBinImpls
SPECIFICATION Spec
PROPERTY RollupRefinement
CHECK_DEADLOCK FALSE
