SPECIFICATION Spec
CONSTANTS
    Accounts = {a1, a2}
    Hosts = {h1}
    LoginSockets = {s1}
    GameSockets = {s1}
    Keys = {k1, k2}
    MaxInFlight = 1
    MaxTickets = 1
    Nobody = Nobody
    MaxFailures = 1
    MaxKicks = 2
    LogoutPortHeard = TRUE
    PacketsAfterReady = TRUE
    Restarts = TRUE
SYMMETRY SocketSymmetry
INVARIANTS TypeOK HandoffInv
PROPERTIES EndingFreesRow ImplementsAccountSession
