CONSTANTS
    b1 = b1
    b2 = b2
    s1 = s1
    s2 = s2
    d1 = d1
    d2 = d2
    Original = Original
    Other = Other
    NoValue = NoValue
    Binaries <- MCBinaries
    ServiceOf <- MCServiceOf
    RunDir <- MCRunDir
    Images <- MCImages
    Built = Original
    None = NoValue
SPECIFICATION FairSpec
INVARIANT TypeOK
INVARIANT EveryServiceRouted
PROPERTY SidecarServes
