SPECIFICATION Spec
CONSTANTS
    Period = 2  MaxRound = 3  Minute = 1  MaxFetches = 3
    Hour = 12  PullLimit = 1
    Post = {p1, p2}  Backdating = {0, 1}
    MaxClock = 16  MaxFaults = 1
SYMMETRY PostSymmetry
INVARIANTS TypeOK NeverQuarantined 
CHECK_DEADLOCK FALSE
