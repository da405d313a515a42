SPECIFICATION Spec
CONSTANTS
    Accounts = {a1}
    Hosts = {h1}
    LoginSockets = {s1, s2}
    GameSockets = {s1, s2}
    Keys = {k1}
    MaxInFlight = 1
    MaxTickets = 1
    Nobody = Nobody
    MaxFailures = 0
    MaxKicks = 2
    LogoutPortHeard = FALSE
    PacketsAfterReady = FALSE
    Restarts = FALSE
SYMMETRY SocketSymmetry
INVARIANT PlayingRowIsGame
