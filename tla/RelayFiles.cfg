SPECIFICATION FilesSpec
CONSTANTS
    Tokens = {t1, t2, t3, t4, t5}
    Rotators = {r1, r2}
    WritesFail = TRUE
    Pairs = {p1, p2, p3}
SYMMETRY Symmetry
INVARIANTS
    RetiredStaysRetired
    KeysStay
CHECK_DEADLOCK FALSE
