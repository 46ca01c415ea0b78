--------------------------- MODULE Administration ---------------------------
(***************************************************************************)
(* What the administrator and the users do besides paying: themes, mailed  *)
(* tokens for passwords, period users, and the catalogue of subscriptions. *)
(* They share no table and no file, so interleaving them would show        *)
(* nothing: a behaviour stays in the area it begins in.                    *)
(***************************************************************************)
EXTENDS Themes, PasswordTokens, PeriodUsers, Catalogue

vars == <<themeVars, tokenVars, usersVars, catalogueVars>>

Init == InitThemes /\ InitTokens /\ InitUsers /\ InitCatalogue

\* An area that has not begun, in one of its initial states.
ThemesAtRest == ActiveThemes = {StartThemes} /\ \A r \in ThemeRequests : At(r, "unsent")

TokensAtRest == \A r \in TokenRequests : Stage(r) = "unsent"

UsersAtRest ==
    /\ \A l \in UsersLink : nrOfPeriodUsers[l] = LargestLimit
    /\ \A r \in UsersRequests : UsersStage(r) = "unsent"

CatalogueAtRest == \A r \in EditRequests : EditAt(r) = "unsent"

Next ==
    \/ /\ TokensAtRest /\ UsersAtRest /\ CatalogueAtRest
       /\ \E r \in ThemeRequests : ThemeStep(r)
       /\ UNCHANGED <<tokenVars, usersVars, catalogueVars>>
    \/ /\ ThemesAtRest /\ UsersAtRest /\ CatalogueAtRest
       /\ \E r \in TokenRequests : TokenStep(r)
       /\ UNCHANGED <<themeVars, usersVars, catalogueVars>>
    \/ /\ ThemesAtRest /\ TokensAtRest /\ CatalogueAtRest
       /\ \E r \in UsersRequests : UsersStep(r)
       /\ UNCHANGED <<themeVars, tokenVars, catalogueVars>>
    \/ /\ ThemesAtRest /\ TokensAtRest /\ UsersAtRest
       /\ \E r \in EditRequests : CatalogueStep(r)
       /\ UNCHANGED <<themeVars, tokenVars, usersVars>>

Spec == Init /\ [][Next]_vars

-----------------------------------------------------------------------------
\* The tables of the four areas, the requests at work on them and what is
\* noted about them have the types the modules give them.
TypeOK == ThemesOK /\ TokensOK /\ UsersOK /\ CatalogueOK

-----------------------------------------------------------------------------
\* The payments see a list of prices, whose periods are what forms carry or what
\* the edit page made of it.
Prices == INSTANCE PriceList WITH FormCount <- Nat \ {0}, priced <- Priced

\* Every save takes the price and the period of its subscription off and sets
\* them together, and no other step of the administrator changes a price or a
\* period.
ImplementsPriceList == Prices!PriceListSpec

=============================================================================
