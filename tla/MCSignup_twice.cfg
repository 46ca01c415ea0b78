SPECIFICATION Spec
CONSTANTS
    Email = {e1}
    Sub <- TwoSubs
    Price <- TwoPrices
    Code <- OneCode
    CodeText <- OneText
    Amount <- OneDiscount
    Forms = {f1}
    Payers = {p1, p2}
    MaxDeaths = 0
INVARIANT
    ChargedOnce
CHECK_DEADLOCK FALSE
