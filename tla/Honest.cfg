SPECIFICATION Spec
CONSTANTS
    a = a  b = b  f = f  g = g  kf = kf  kg = kg  ka = ka
    Shared = "discovered-from-gossip"
    PubKey = {kf, kg, ka}
    Reputation = 100  Day = 1
    GossipLimit = 10  ServeLimit = 50
    Server = {a, b}  Foreign = {g}
    Seeds <- Chain  Trusted = {g}
    Listed <- Empty  Manners <- Polite  Posts <- GoodPosts
    SyncExternal = TRUE  MaxFaults = 0  Leaving = {}
INVARIANT HonestStayConnected
