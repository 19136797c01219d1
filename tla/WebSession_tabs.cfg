SPECIFICATION Spec
CONSTANTS
    Tabs = {t1, t2}
    Emails = {e1}
    Passwords = {p1, p2}
    FirstID = 3
    Exact = 4
    DefaultAge = 0
    RememberAge = 1
    MaxInFlight = 2
    MaxTokens = 2
    MaxLogins = 2
    MaxUsers = 2
    MaxTime = 2
    None = None
INVARIANTS
    SessionUserProved
    LogoutFinal
    CredentialsWork
PROPERTIES
    TokenKept
SYMMETRY Symmetry
CHECK_DEADLOCK FALSE
