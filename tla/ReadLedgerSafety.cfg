SPECIFICATION Spec
CONSTANTS
    p = p
    q = q
    Proc = {p, q}
    Cap = 3
    SignInCap = 2
    Chunk = 2
    NoCookie = NoCookie
    MaxDay = 2
    MaxSignIns = 2
    MaxCrashes = 1
    MaxFails = 1
SYMMETRY Symmetry
INVARIANTS TypeOK AllCounted
PROPERTY HonouredStays
CHECK_DEADLOCK FALSE
