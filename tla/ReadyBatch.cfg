SPECIFICATION Spec
CONSTANTS
    Accounts = {a1}
    Hosts = {h1}
    LoginSockets = {s1}
    GameSockets = {s1}
    Keys = {k1}
    MaxInFlight = 1
    MaxTickets = 1
    Nobody = Nobody
    MaxFailures = 0
    MaxKicks = 2
    LogoutPortHeard = FALSE
    PacketsAfterReady = TRUE
    Restarts = FALSE
SYMMETRY SocketSymmetry
INVARIANT QueuedPlayerIsAlive
