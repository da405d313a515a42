SPECIFICATION Spec
CONSTANTS
    Accounts = {a1}
    Hosts = {h1}
    LoginSockets = {s1}
    GameSockets = {s1, s2}
    Keys = {k1}
    MaxInFlight = 2
    MaxTickets = 1
    Nobody = Nobody
    MaxFailures = 0
    MaxKicks = 2
    LogoutPortHeard = FALSE
    PacketsAfterReady = FALSE
    Restarts = TRUE
SYMMETRY DataSymmetry
INVARIANTS OnePlayerPerCharacter HeldOnce GameRowHasConnection PlaceFitsStatus ReconnectIsOnItsWay
PROPERTIES ImplementsAccountSession KickIsNotForgotten
