CONSTANTS
    p1 = p1
    p2 = p2
    k1 = k1
    k2 = k2
    Passwords = {p1, p2}
    HostKeys = {k1, k2}
    Methods = {"password"}
    InputDefects = {"text"}
    MaxCycle = 1
    MaxPairing = 2
    PvMaxOps = 3
    PvMaxFaults = 2
SPECIFICATION PvSpec
INVARIANTS
    PairingJournaled
    RemovalForgets
    
SYMMETRY PvSymmetry
CHECK_DEADLOCK FALSE
