SPECIFICATION Spec
CONSTANTS
    u1 = u1
    User = {u1}
    Sub <- ThreeSubs
    Period <- ThreePeriods
    TrialPeriod <- ThreeTrials
    AutoRenew <- ThreeRenewals
    UpgradeTo <- NoSub
    DowngradeTo <- OneSub
    Day = 2
    Owner <- OneOwner
    Crons = {c1}
    Workers = {}
    MaxTime = 6
    MaxLinks = 3
    MaxDeaths = 1
INVARIANTS
    TypeOK
    RenewedOnce
    RenewalsArePaid
    ServedWhilePaid
    RefusedLeavesNoLink
    OneRunInv
    ClosedIsOff
PROPERTIES
    RenewalFollowsNotice
    ExpiredIsFinal
    ImplementsStages
