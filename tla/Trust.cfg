SPECIFICATION FairSpec
CONSTANTS
    a = a  b = b  f = f  g = g  kf = kf  kg = kg  ka = ka
    Shared = "discovered-from-gossip"
    PubKey = {kf, kg, ka}
    Reputation = 100  Day = 1
    GossipLimit = 10  ServeLimit = 50
    Server = {a}  Foreign = {f, g}
    Seeds <- SeedG  Trusted = {g}
    Listed <- Echo  Manners <- Blunt  Posts <- SomePosts
    SyncExternal = TRUE  MaxFaults = 1  Leaving = {f}
INVARIANTS TypeOK BlameIsEarned
PROPERTIES   DeadForgotten
