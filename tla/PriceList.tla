------------------------------ MODULE PriceList ------------------------------
(***************************************************************************)
(* What the payments see of the administrator's edits: the price and the   *)
(* period of each subscription, which every save first takes off and then  *)
(* sets to those of its form, one subscription at a time.  The Catalogue   *)
(* module has the whole save and is shown to implement this.               *)
(***************************************************************************)
EXTENDS Integers

CONSTANTS
    Sub,        \* names of subscriptions
    StartSubs,  \* those that exist at the start
    FormPrice,  \* prices that forms may carry
    FormCount   \* periods that forms may carry

\* The forms refuse an empty price or period, and 0 (CheckAccessType).
ASSUME PriceListAssumption ==
    /\ StartSubs \subseteq Sub
    /\ FormPrice \subseteq Nat \ {0} /\ FormPrice # {}
    /\ FormCount \subseteq Nat \ {0} /\ FormCount # {}

VARIABLE priced  \* price and period of the subscriptions that exist

Offers == [price : FormPrice, period : FormCount]

NoOffer == [price |-> 0, period |-> 0]

InitPriceList == priced \in [StartSubs -> Offers]

\* A new subscription, or the first update of one that is edited.
Withdraw(s) ==
    priced' = [t \in DOMAIN priced \cup {s} |-> IF t = s THEN NoOffer ELSE priced[t]]

\* The update with the columns of the form.
Offer(s, o) ==
    /\ s \in DOMAIN priced
    /\ o \in Offers
    /\ priced' = [priced EXCEPT ![s] = o]

Reprice == \E s \in Sub : Withdraw(s) \/ \E o \in Offers : Offer(s, o)

\* The same, for a step whose outcome is known.
Repriced == \E s \in Sub : Withdraw(s) \/ Offer(s, priced'[s])

PriceListSpec == InitPriceList /\ [][Repriced]_priced

PriceListOK ==
    /\ DOMAIN priced \in SUBSET Sub
    /\ \A s \in DOMAIN priced : priced[s] \in Offers \cup {NoOffer}

=============================================================================
