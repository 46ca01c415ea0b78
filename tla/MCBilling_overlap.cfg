SPECIFICATION Spec
CONSTANTS
    u1 = u1
    User = {u1}
    Sub <- OneSub
    Period <- OnePeriod
    TrialPeriod <- NoTrial
    AutoRenew <- Renewing
    UpgradeTo <- OneSub
    DowngradeTo <- NoSub
    Day = 1
    Owner <- OneOwner
    Crons = {c1, c2}
    Workers = {}
    MaxTime = 4
    MaxLinks = 3
    MaxDeaths = 1
INVARIANTS
    ServedWhilePaid
    RefusedLeavesNoLink
    BillingInv
