SPECIFICATION Spec
CONSTANTS
    Attempt = {a1, a2, a3}
    AuthTime = {0, 2}
    None = None
CHECK_DEADLOCK FALSE
INVARIANTS
    TokenIsGuarded
PROPERTIES
    RefreshOnlyRenews
    EveryAttemptAnswered
