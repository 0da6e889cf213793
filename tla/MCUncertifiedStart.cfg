CONSTANTS
    b1 = b1
    b2 = b2
    c1 = c1
    NoValue = NoValue
    Bins <- MCBins
    MaxBuild = 3
    None = NoValue
    CrateOf <- MCHyphenNames
    InitUses = {b1}
    Removable = {}
SPECIFICATION Spec
INVARIANT NoStartupPanic
