SPECIFICATION Spec
CONSTANTS
    q1 = q1  q2 = q2  q3 = q3  home = home  ann = ann
    NoPubKey = NoPubKey  NoBucket = NoBucket
    Request = {q1, q2, q3}  IP = {home}  PubKey = {ann}
    IPOf <- OneIPOf  KeyOf <- MCKeyOf
    IPRate = 2  PubKeyRate = 1
    Window = 1  StaleAfter = 1  SweepEvery = 1
    MaxStall = 3  MaxClock = 3
INVARIANTS TypeOK LimitedUnlessOrphaned PassedPaidBoth BucketBudget
CHECK_DEADLOCK FALSE
