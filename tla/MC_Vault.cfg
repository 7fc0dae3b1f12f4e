SPECIFICATION Spec
CONSTANTS
    Passwords = {p1, p2}
    Plain = Plain
    Tables = {t1, t2}
    Contents = {c1, c2}
    MaxID = 2
    MaxLog = 2
    MaxCalls = 1
SYMMETRY Symmetry
INVARIANTS
    BlobsSound
    PasswordOpens
    TablesSurvive
