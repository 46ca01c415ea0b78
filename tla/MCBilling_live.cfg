SPECIFICATION FairSpec
CONSTANTS
    u1 = u1
    User = {u1}
    Sub <- OneSub
    Period <- OnePeriod
    TrialPeriod <- NoTrial
    AutoRenew <- Renewing
    UpgradeTo <- NoSub
    DowngradeTo <- OneSub
    Day = 1
    Owner <- OneOwner
    Crons = {c1}
    Workers = {w1}
    MaxTime = 4
    MaxLinks = 2
    MaxDeaths = 1
PROPERTIES
    EndedIsClosed
    NoticeIsFollowed
