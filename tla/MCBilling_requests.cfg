SPECIFICATION Spec
CONSTANTS
    u1 = u1
    User = {u1}
    Sub <- OneSub
    Period <- OnePeriod
    TrialPeriod <- NoTrial
    AutoRenew <- Renewing
    UpgradeTo <- OneSub
    DowngradeTo <- NoSub
    Day = 1
    Owner <- OneOwner
    Crons = {c1}
    Workers = {w1}
    MaxTime = 3
    MaxLinks = 3
    MaxDeaths = 0
INVARIANTS
    TypeOK
    ServedWhilePaid
    RenewedOnce
    RefusedLeavesNoLink
