\* Every attack on: replayed reports, swapped client shares and forged
\* handler calls; one of the two binaries is altered on disk.  Safety, and
\* termination of attest_binary under the fairness of FairSpec.
CONSTANTS
    c1 = c1
    c2 = c2
    i1 = i1
    i2 = i2
    s1 = s1
    s2 = s2
    n1 = n1
    n2 = n2
    n3 = n3
    None = None
    Adversary = Adversary
    Clients <- MCClients
    ClientIds <- MCClientIds
    Services <- MCServices
    PipeCapacity = 2
    ServiceMapping <- MCServiceMapping
    ServiceNames <- MCServiceNames
    Tampered = {s2}
    Attacks = {"replay", "swap_share", "forge_call"}
SPECIFICATION FairSpec
INVARIANT TypeOK
INVARIANT AttestationBinding
INVARIANT HonestKeyAgreement
INVARIANT FifoLinesWhole
PROPERTY SessionRefinement
PROPERTY AttestTerminates
CHECK_DEADLOCK FALSE
