SPECIFICATION Spec
CONSTANTS
    Phones = {p1, p2}
    Codes = {k1}
    Conns = {c1, c2}
    Revokers = {r1, r2}
    MaxAttempts = 2
    NoPhone = NoPhone
    NoCode = NoCode
SYMMETRY Symmetry
INVARIANTS TypeOK RevokedDisconnected
PROPERTIES TrustNeedsFreshCode LedgerSpec
