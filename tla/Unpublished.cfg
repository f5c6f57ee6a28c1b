SPECIFICATION ClientSpec
CONSTANTS
    ann = ann  bob = bob
    n1 = n1  n2 = n2  n3 = n3
    home = home  elsewhere = elsewhere
    spam = spam
    r1 = r1  r2 = r2  r3 = r3  b1 = b1
    NoParent = NoParent  Blank = Blank  NoKey = NoKey
    Hash <- MCHash  SigHash <- MCSigHash  ID <- MCID  UUID <- MCUUID
    SignedFields <- MCSignedFields
    Network = {home, elsewhere}  HomeNetwork = home  Mainnet = home
    Nonce = {n1, n2, n3}
    Skew = 1
    Key = {ann}  Word = {spam}
    Sig = {"root", "pipe"}
    Post <- Composable  Batch = {}
    Request = {r1}  Bulk = {}
    Powers = {}
    WhitelistMode = FALSE  SyncExternal = TRUE
    Using = {"page"}
    TTL = 1  MaxClock = 0  MaxFaults = 0
    DefaultLimit = 20  MaxLimit = 100
INVARIANT ClientsServed
