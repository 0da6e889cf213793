CONSTANTS
    c1 = c1
    c2 = c2
    i1 = i1
    i2 = i2
    s1 = s1
    s2 = s2
    n1 = n1
    n2 = n2
    n3 = n3
    None = None
    Adversary = Adversary
    Clients <- MCClients
    ClientIds <- MCClientIds
    Services <- MCOneService
    PipeCapacity = 4
    ServiceMapping <- MCOneMapping
    ServiceNames = {n1}
    Tampered = {}
    Attacks = {}
SYMMETRY MCSymmetry
SPECIFICATION Spec
INVARIANT AttestedClientServed
CHECK_DEADLOCK FALSE
