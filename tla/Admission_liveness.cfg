SPECIFICATION FairSpec
CONSTANTS
    Phones = {p1}
    Codes = {k1}
    Conns = {c1, c2}
    Revokers = {r1}
    MaxAttempts = 2
    NoPhone = NoPhone
    NoCode = NoCode
PROPERTIES RevokedPhoneCutOff
