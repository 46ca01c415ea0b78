SPECIFICATION Spec
CONSTANTS
    Email = {e1, e2}
    Sub <- TwoSubs
    Price <- TwoPrices
    Code <- OneCode
    CodeText <- OneText
    Amount <- OneDiscount
    Forms = {f1, f2}
    Payers = {p1, p2}
    MaxDeaths = 1
INVARIANTS
    TypeOK
    ActiveIsPaid
    PaidIsOn
    InvoiceIsCharge
    DiscountIsHeld
    NobodyIsStranded
SYMMETRY Interchangeable
CHECK_DEADLOCK FALSE
