SPECIFICATION Spec
CONSTANTS
    u1 = u1
    User = {u1}
    Sub <- OneSub
    Period <- OnePeriod
    TrialPeriod <- NoTrial
    AutoRenew <- Renewing
    UpgradeTo <- OneSub
    DowngradeTo <- OneSub
    Day = 1
    Owner <- OneOwner
    Crons = {c1}
    Workers = {w1}
    MaxTime = 5
    MaxLinks = 2
    MaxDeaths = 0
INVARIANTS
    DowngradeIsPaid
