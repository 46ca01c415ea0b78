SPECIFICATION Spec
CONSTANTS
    Sub = {basic, pro}
    StartSubs = {basic, pro}
    FormPrice = {2, 3}
    FormCount = {2}
    PayRequests = {first, second}
    Discounts <- Codes
    Gateways = {"braintree", "stripe"}
    MaxDay = 3
    MaxEdits = 1
SYMMETRY Symmetry
CHECK_DEADLOCK FALSE
INVARIANTS TypeOK CreditIsBacked ChargedAsQuoted
