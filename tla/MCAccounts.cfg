SPECIFICATION Spec
CONSTANTS
    Name = {n1, n2, n3}
    Obj = {o1, o2, o3}
    Http = {t1, t2}
    Main = Main
    NoObj = NoObj
    Free = Free
    MaxAccounts = 1
    MaxCalls = 1
SYMMETRY Symmetry
INVARIANTS
    TypeOK
    MapIsExact
    AccountsBounded
    FileMatchesRegistry
    AckedIsRegistered
\* In the phase "undefined" nothing more is said.
CHECK_DEADLOCK FALSE
