SPECIFICATION Spec
CONSTANTS
    Calls = {c1, c2, c3, c4, c5}
    Emails = {e1, e2}
    Nothing = Nothing
SYMMETRY Symmetry
INVARIANTS
    TypeOK
    OneAccountPerEmail
    TokensGoBackToPasswords
CHECK_DEADLOCK FALSE
