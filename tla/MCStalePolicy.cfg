CONSTANTS
    b1 = b1
    b2 = b2
    c1 = c1
    NoValue = NoValue
    Bins <- MCBins
    MaxBuild = 3
    None = NoValue
    CrateOf <- MCSameNames
    InitUses = {b1, b2}
    Removable = {b1}
SPECIFICATION Spec
INVARIANT CertificateClaimsTrue
