SPECIFICATION FairRestoreSpec
CONSTANTS
    ann = ann  bob = bob
    n1 = n1  n2 = n2  n3 = n3
    home = home  elsewhere = elsewhere
    spam = spam
    r1 = r1  r2 = r2  r3 = r3  b1 = b1  b2 = b2
    NoParent = NoParent  Blank = Blank  NoKey = NoKey
    Hash <- MCHash  SigHash <- MCSigHash  ID <- MCID  UUID <- MCUUID
    SignedFields <- MCSignedFields
    Network = {home, elsewhere}  HomeNetwork = home  Mainnet = home
    Nonce = {n1, n2, n3}
    Skew = 1
    Key = {ann, bob}  Word = {spam}
    Sig = {"root", "reply", "foreign", "pipe"}
    Post <- Arriving  Batch <- Chunks
    Request = {r1}  Bulk = {b1, b2}
    Powers = {"user", "delete"}
    WhitelistMode = FALSE  SyncExternal = TRUE
    TTL = 1  MaxClock = 0  MaxFaults = 1
    File <- Backups  ChunkSize = 2  Uploads <- InOrder
    DefaultLimit = 20  MaxLimit = 100
INVARIANTS OnlyGenuine ClosedBarrier RestoreCountsTrue
PROPERTIES  ImplementsLedger EveryRequestAnswered
