SPECIFICATION FairSpec
CONSTANTS
    a = a
    b = b
    c = c
    Characters = {a, b, c}
    GuildIDs = {1, 2}
    NoGuild = NoGuild
    Failed = Failed
    Servers = {s1}
    ActivateAbove = 1
    MinMembers = 2
    NoRow = NoRow
    Unknown = Unknown
    InitTables <- MCInitTables
    MaxRequests = 2
    MaxFaults = 1
INVARIANTS TypeOK CountsAgree OneMaster RestartRaisesNobody QuietCopyIsCurrent
PROPERTIES SyncedLinkHolds ImplementsReplica Converges
CHECK_DEADLOCK FALSE
