SPECIFICATION Spec
CONSTANTS
    ThemeRequests = {t1, t2, t3}
    StartThemes = 2
    MaxThemeDeaths = 1
    TokenUser = {ana}
    TokenRequests = {p1, p2, p3, p4}
    MaxTokenDeaths = 1
    UsersLink = {link}
    UsersRequests = {u1, u2, u3, u4}
    LargestLimit = 2
    EditRequests = {e1, e2}
    Sub = {"basic", "pro"}
    StartSubs = {"basic"}
    Feature = {"f"}
    FormPrice = {1}
    FormCount = {1}
    FormUnit = {"Day", "Month"}
    FormLists = {"features"}
SYMMETRY Symmetry
CHECK_DEADLOCK FALSE
INVARIANTS
    TypeOK OneThemeActive SomeThemeActive ThemeHasFolder
    TokenSetsOnce NewestTokenWorks CountedWithinLimit
    EditIsComplete LengthAsAsked OrderAsAsked
PROPERTIES ImplementsPriceList
