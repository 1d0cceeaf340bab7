SPECIFICATION FairSpec
CONSTANTS
    Procs = {p1, p2}
    Tokens = {t1}
    Nonces = {n1}
    Second = 2
    TokenLife = 4
    NonceTtl = 2
    MaxTime = 6
    MaxFaults = 2
INVARIANTS
    RefusalHasACause
PROPERTIES
    NonceOpensOneStreamInTime
    RevokedUntilTheLastSecond
    ProcessesComeBack
\* Clients need not come back, and the bounds end the run.
CHECK_DEADLOCK FALSE
