SPECIFICATION Spec
CONSTANTS
    ann = ann  bob = bob  n1 = n1  home = home
    NoParent = NoParent  Blank = Blank
    Key = {ann, bob}  Nonce = {n1}  Word = {}
    Network = {home}  HomeNetwork = home
    Sig = {"old", "new", "twin", "other"}
    Hash <- MCHash  SigHash <- MCSigHash  ID <- MCID  UUID <- MCUUID
    SignedFields <- MCSignedFields
    Arrivals <- Posts  Question <- OfAnn  Wish = 3
    DefaultLimit = 2  MaxLimit = 2
    Powers = {"delete"}
    TTL = 0  MaxClock = 0  MaxFaults = 1
INVARIANTS TypeOK NothingOverlooked NothingRepeated
