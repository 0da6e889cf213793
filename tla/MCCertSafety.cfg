CONSTANTS
    b1 = b1
    b2 = b2
    c1 = c1
    NoValue = NoValue
    Bins <- MCBins
    MaxBuild = 4
    None = NoValue
    CrateOf <- MCSameNames
    InitUses = {b1}
    Removable = {}
SPECIFICATION Spec
INVARIANT TypeOK
INVARIANT CertificateClaimsTrue
