SPECIFICATION Spec
CONSTANTS
    Tokens = {t1, t2, t3}
    Names = {n1, n2}
    None = None
    Absent = Absent
PROPERTY IsTokenBook
