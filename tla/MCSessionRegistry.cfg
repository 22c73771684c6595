SPECIFICATION FairSpec
CONSTANTS
    Tokens = {t1}
    Sources = {s1, s2}
    Objects = {o1, o2, o3, o4, o5}
    None = None
    MaxHeld = 2
INVARIANTS RefsCounted SourceGetsItsToken
PROPERTIES ForgottenGoes IsSessionTable
