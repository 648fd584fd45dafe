SPECIFICATION Spec
CONSTANTS
    Tokens = {t1, t2, t3}
    Procs = {p1, p2}
    Users = {ana}
    NoToken = NoToken
    NoUser = NoUser
    TTL = 2
    MaxTime = 2
    MaxResets = 1
    MaxRestarts = 1
SYMMETRY Symmetry
INVARIANTS OneLivePerFamily CutFamiliesStayDead OldSessionsEnd FixedLifetime ChainIsWhole
PROPERTIES RevokedForever
