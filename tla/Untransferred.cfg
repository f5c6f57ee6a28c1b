SPECIFICATION FairFedSpec
CONSTANTS
    ann = ann  bob = bob
    n1 = n1  n2 = n2  n3 = n3
    home = home  elsewhere = elsewhere
    spam = spam
    r1 = r1  r2 = r2  r3 = r3  b1 = b1
    NoParent = NoParent  Blank = Blank  NoKey = NoKey
    Hash <- MCHash  SigHash <- MCSigHash  ID <- MCID  UUID <- MCUUID
    SignedFields <- MCSignedFields
    Network = {home, elsewhere}  HomeNetwork = home  Mainnet = home
    Nonce = {n1, n2, n3}
    Skew = 1
    Key = {ann, bob}  Word = {spam}
    Sig = {"root", "reply"}
    Post <- Roots  Batch = {}
    Request = {}  Bulk = {}
    Parcel <- FromTable
    Powers = {}
    WhitelistMode = FALSE  SyncExternal = TRUE
    TTL = 0  MaxClock = 0  MaxFaults = 0
    DefaultLimit = 20  MaxLimit = 100
PROPERTY SyncTransfers
