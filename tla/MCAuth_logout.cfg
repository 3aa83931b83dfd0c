SPECIFICATION Spec
CONSTANTS
    Calls = {c1, c2, c3}
    Emails = {e1}
    Nothing = Nothing
PROPERTIES
    LogoutInvalidates
CHECK_DEADLOCK FALSE
