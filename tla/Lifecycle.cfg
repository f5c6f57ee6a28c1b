SPECIFICATION FairSpec
CONSTANTS
    Process = {p, q}  Key = {k1, k2}  NoKey = NoKey  Torn = Torn
    MaxFaults = 2
INVARIANTS TypeOK OneIdentity
PROPERTY ServesInTheEnd
