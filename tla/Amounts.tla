------------------------------ MODULE Amounts ------------------------------
(***************************************************************************)
(* What upgrades and renewals are charged (upgrade, upgrade_save, renew,   *)
(* renew_save and calculate_reminder in                                    *)
(* Controller/Common/SubscriptionActions.pm, amount_with_discount, and the *)
(* amounts the gateway helpers send), while days pass and the              *)
(* administrator edits the subscriptions.  Prices are in whole units, as   *)
(* their column is; amounts are in cents.  A link is kept whatever the     *)
(* gateway answered; whether it is on is the matter of the Billing module. *)
(***************************************************************************)
EXTENDS PriceList, FiniteSets

CONSTANTS
    PayRequests,  \* each is a page shown to a user and the form sent from it
    Discounts,    \* what the code of a user may be worth
    Gateways,     \* the gateways that may be selected
    MaxDay,       \* bound: days that pass
    MaxEdits      \* bound: changes of a price and a period

ASSUME AmountsAssumption ==
    /\ MaxDay \in Nat
    /\ MaxEdits \in Nat
    /\ Discounts \subseteq [type : {"unit", "percent"}, amount : Nat]
    /\ Gateways \subseteq {"authorize", "braintree", "stripe"}

VARIABLES
    today,
    edits,       \* how often a price and a period were changed
    link,        \* the links of a user: id -> subscription and last day
    payRequest,  \* the progress of each request
    terms,       \* history: the price and the period a link was made for
    backing,     \* history: cents paid for a link and for those it replaced
    fair,        \* history: links paid for as agreed
    replaced     \* history: links that an upgrade replaced

vars == <<priced, edits, today, link, payRequest, terms, backing, fair, replaced>>

PayAt(r) == payRequest[r].at

Underway(r) == PayAt(r) \notin {"unsent", "done"}

NoOld == 0      \* a renewal has no link to replace
Unsold == -1    \* the charge of a request the gateway did not charge

\* quote and due are history.  quote: what the page quoted, as long as nothing was
\* edited and no day passed.  due: nothing was edited since the page was asked for,
\* or since its form was sent, and the credit then taken off is due.
NotAsked ==
    [at |-> "unsent", old |-> NoOld, sub |-> "none", shown |-> FALSE, quote |-> {},
     row |-> NoOffer, ends |-> 0, new |-> 0, amount |-> 0, charged |-> Unsold,
     due |-> TRUE]

\* The progress of a request.
PayProgress ==
    [at : {"unsent", "credit", "page", "create", "discount", "gateway", "done"},
     old : {NoOld} \cup DOMAIN link, sub : {"none"} \cup Sub,
     shown : BOOLEAN, quote : SUBSET Int, row : Offers \cup {NoOffer},
     ends : Nat, new : Nat, amount : Int,
     charged : {Unsold} \cup Nat, due : BOOLEAN]

TablesOK ==
    /\ PriceListOK
    /\ edits \in 0 .. MaxEdits
    /\ today \in 0 .. MaxDay
    /\ DOMAIN link \in SUBSET Nat
    /\ \A l \in DOMAIN link : link[l] \in [subscription : Sub, active_to_date : Nat]
    /\ DOMAIN terms = DOMAIN link
    /\ \A l \in DOMAIN terms : terms[l] \in Offers
    /\ DOMAIN backing = DOMAIN link
    /\ \A l \in DOMAIN backing : backing[l] \in Nat
    /\ fair \in SUBSET DOMAIN link
    /\ replaced \in SUBSET DOMAIN link

TypeOK == TablesOK /\ payRequest \in [PayRequests -> PayProgress]

\* A user who has paid for one of the subscriptions.
InitAmounts ==
    /\ today = 0
    /\ edits = 0
    /\ \E s \in StartSubs :
          /\ link = [l \in {1} |->
                        [subscription |-> s, active_to_date |-> priced[s].period]]
          /\ terms = [l \in {1} |-> priced[s]]
          /\ backing = [l \in {1} |-> 100 * priced[s].price]
    /\ payRequest = [r \in PayRequests |-> NotAsked]
    /\ fair = {1}
    /\ replaced = {}

-----------------------------------------------------------------------------
Turns(r, q) == payRequest' = [payRequest EXCEPT ![r] = q]

Finished == [NotAsked EXCEPT !.at = "done"]

Distance(m, n) == IF m <= n THEN n - m ELSE m - n

\* delta_days is never negative.
RemainingDays(l) == Distance(today, link[l].active_to_date)

OldRow(l) == priced[link[l].subscription]

\* calculate_reminder, with the price and the period of the moment; it dies on
\* a period of 0, so it is used only where there is one.
RemainingAmount(l) ==
    (OldRow(l).price * RemainingDays(l)) \div OldRow(l).period

\* fault: a subscription without a period is taken as one of 0 days.
ReadSubscription_NoPeriod(r, q) ==
    LET read == [q EXCEPT !.row = priced[q.sub], !.ends = today + priced[q.sub].period] IN
    Turns(r, IF q.old # NoOld THEN [read EXCEPT !.at = "credit"]
             ELSE IF q.shown THEN [read EXCEPT !.at = "create"]
             ELSE [read EXCEPT !.at = "page", !.shown = TRUE, !.quote = {read.row.price}])

\* The page and what is sent from it first load the subscription; without a
\* period there is no end to be computed, and the request dies.
ReadSubscription(r, q) ==
    LET read == [q EXCEPT !.row = priced[q.sub], !.ends = today + priced[q.sub].period] IN
    Turns(r, IF priced[q.sub].period = 0 THEN Finished
             ELSE IF q.old # NoOld THEN [read EXCEPT !.at = "credit"]
             ELSE IF q.shown THEN [read EXCEPT !.at = "create"]
             ELSE [read EXCEPT !.at = "page", !.shown = TRUE, !.quote = {read.row.price}])

\* upgrade: for one of the user's links and one of the subscriptions.
Upgrade(r) ==
    /\ PayAt(r) = "unsent"
    /\ \E l \in DOMAIN link, s \in DOMAIN priced :
          ReadSubscription(r, [NotAsked EXCEPT !.old = l, !.sub = s])
    /\ UNCHANGED <<priced, edits, today, link, terms, backing, fair, replaced>>

\* renew: for one of the subscriptions.
Renew(r) ==
    /\ PayAt(r) = "unsent"
    /\ \E s \in DOMAIN priced : ReadSubscription(r, [NotAsked EXCEPT !.sub = s])
    /\ UNCHANGED <<priced, edits, today, link, terms, backing, fair, replaced>>

\* An upgrade then loads the old link with its subscription.  The credit is due
\* if the old link was paid for, is not over, and its subscription is still
\* what was paid for.
ReadCredit(r) ==
    LET q == payRequest[r]
        l == q.old
        final == q.row.price - RemainingAmount(l)
        due == l \in fair /\ OldRow(l) = terms[l] /\ today <= link[l].active_to_date IN
    /\ PayAt(r) = "credit"
    /\ Turns(r, IF OldRow(l).period = 0 THEN Finished
                ELSE IF q.shown
                THEN [q EXCEPT !.at = "create", !.amount = 100 * final,
                             !.due = @ /\ due]
                ELSE [q EXCEPT !.at = "page", !.shown = TRUE, 
                                    !.quote = IF q.due THEN {final} ELSE {}])
    /\ UNCHANGED <<priced, edits, today, link, terms, backing, fair, replaced>>

\* upgrade_save and renew_save begin; or the user leaves the page.
SendPage(r) ==
    /\ PayAt(r) = "page"
    /\ \/ ReadSubscription(r, [payRequest[r] EXCEPT !.due = TRUE])
       \/ Turns(r, Finished)
    /\ UNCHANGED <<priced, edits, today, link, terms, backing, fair, replaced>>

Extend(f, x, y) == [i \in DOMAIN f \cup {x} |-> IF i = x THEN y ELSE f[i]]

\* The insert of the link, which may fail.
CreateLink(r) ==
    LET q == payRequest[r]
        l == Cardinality(DOMAIN link) + 1 IN
    /\ PayAt(r) = "create"
    /\ \/ /\ link' = Extend(link, l, [subscription |-> q.sub, active_to_date |-> q.ends])
          /\ terms' = Extend(terms, l, q.row)
          /\ backing' = Extend(backing, l, 0)
          /\ Turns(r, [q EXCEPT !.at = IF q.old = NoOld THEN "discount" ELSE "gateway",
                                !.new = l, !.row = NoOffer, !.ends = 0])
       \/ /\ Turns(r, Finished)
          /\ UNCHANGED <<link, terms, backing>>
    /\ UNCHANGED <<priced, edits, today, fair, replaced>>

\* In cents: a percentage need not leave whole units.
Discounted(price, d) ==
    LET amount == IF d.type = "unit" THEN 100 * (price - d.amount)
                  ELSE price * (100 - d.amount)
    IN  IF amount < 0 THEN 0 ELSE amount

\* amount_with_discount() || price(): a discount that leaves nothing is none.
DiscountAmount(r) ==
    LET q == payRequest[r]
        price == priced[q.sub].price IN
    /\ PayAt(r) = "discount"
    /\ \/ Turns(r, [q EXCEPT !.at = "gateway", !.amount = 100 * price])
       \/ \E d \in Discounts :
             Turns(r, [q EXCEPT !.at = "gateway", !.due = FALSE,
                         !.amount = IF Discounted(price, d) = 0 THEN 100 * price
                                    ELSE Discounted(price, d)])
    /\ UNCHANGED <<priced, edits, today, link, terms, backing, fair, replaced>>

\* fault: the amount is sent in cents as if it were units.
Sent_InCents(amount, gateway) == IF gateway = "stripe" THEN 100 * amount ELSE amount

\* fault: "%d" without the two zeros.
Sent_Bare(amount, gateway) == IF gateway = "stripe" THEN amount \div 100 ELSE amount

\* What the gateway is sent: "%d00" cuts cents off.
Sent(amount, gateway) ==
    IF gateway = "stripe" THEN 100 * (amount \div 100) ELSE amount

\* The helper loads the subscription once more, and _charge_card takes the
\* amount, or without one the price.  If that is 0 as well, nothing is charged
\* and an invoice says so.  A gateway refuses an amount that is not positive,
\* and may refuse any other; a process that dies leaves the same.
Pay(r) ==
    LET q == payRequest[r]
        amount == IF q.amount = 0 THEN 100 * priced[q.sub].price ELSE q.amount
        carried == IF q.old # NoOld /\ q.old \notin replaced THEN backing[q.old] ELSE 0
        Charged(cents) ==
            Turns(r, IF q.quote = {} THEN Finished
                     ELSE [Finished EXCEPT !.old = q.old, !.new = q.new,
                                           !.quote = q.quote, !.charged = cents]) IN
    /\ PayAt(r) = "gateway"
    /\ \/ \E g \in Gateways :
          LET sent == Sent(amount, g) IN
             /\ sent > 0
             /\ Charged(sent)
             /\ backing' = [backing EXCEPT ![q.new] = sent + carried]
             /\ fair' = IF q.due /\ q.old \notin replaced
                        THEN fair \cup {q.new} ELSE fair
       \/ /\ amount = 0
          /\ Charged(0)
          /\ UNCHANGED <<backing, fair>>
       \/ /\ Turns(r, Finished)
          /\ UNCHANGED <<backing, fair>>
    /\ replaced' = replaced \cup ({q.old} \ {NoOld})
    /\ UNCHANGED <<priced, edits, today, link, terms>>

PayStep(r) ==
    \/ Upgrade(r)    \/ Renew(r)          \/ SendPage(r) \/ ReadCredit(r)
    \/ CreateLink(r) \/ DiscountAmount(r) \/ Pay(r)

\* A day passes.
Tick ==
    /\ today < MaxDay
    /\ today' = today + 1
    /\ payRequest' = [r \in PayRequests |->
          IF Underway(r) THEN [payRequest[r] EXCEPT !.quote = {}] ELSE payRequest[r]]
    /\ UNCHANGED <<priced, edits, link, terms, backing, fair, replaced>>

\* An edit changes a price and a period.
Edit ==
    /\ edits < MaxEdits
    /\ edits' = edits + 1
    /\ Reprice
    /\ priced' # priced
    /\ payRequest' = [r \in PayRequests |->
          IF Underway(r) THEN [payRequest[r] EXCEPT !.quote = {}, !.due = FALSE]
          ELSE payRequest[r]]
    /\ UNCHANGED <<today, link, terms, backing, fair, replaced>>

Init == InitPriceList /\ InitAmounts

Next ==
    \/ Tick
    \/ Edit
    \/ \E r \in PayRequests : PayStep(r)

Spec == Init /\ [][Next]_vars

-----------------------------------------------------------------------------
\* What the rest of a link would be credited with is backed by what its user
\* paid for it and for the links it replaced: a chain of upgrades never earns
\* more than was put in.  It takes that each of them was charged without a
\* discount, before its own link was over, while nobody edited the
\* subscriptions, and that no link was upgraded twice: each of these the code
\* leaves open.
CreditIsBacked ==
    \A l \in fair \ replaced :
        OldRow(l) = terms[l] /\ today <= link[l].active_to_date =>
            100 * RemainingAmount(l) <= backing[l]

AsQuoted(q) ==
    q.charged # Unsold => \A quoted \in q.quote :
        /\ q.charged > 0
        /\ IF q.old = NoOld THEN q.charged <= 100 * quoted
           ELSE /\ quoted >= 0
                /\ q.charged = 100 * (IF quoted = 0 THEN terms[q.new].price ELSE quoted)

\* An upgrade is charged what its page quoted and a renewal no more than that,
\* if no price and no period was edited and no day passed in between.  But a
\* quote of 0 is charged as the full price, a negative one not at all, and
\* Stripe is sent no cents.
ChargedAsQuoted == \A r \in PayRequests : AsQuoted(payRequest[r])

-----------------------------------------------------------------------------
\* The invariant that CreditIsBacked and ChargedAsQuoted follow from.
\*
\* Links are numbered as they are made, none is made for a subscription that is
\* not there, and each lasts no longer from today than it was made for.
LinksInv ==
    /\ IsFiniteSet(DOMAIN link)
    /\ DOMAIN link = 1 .. Cardinality(DOMAIN link)
    /\ \A l \in DOMAIN link :
          /\ link[l].subscription \in DOMAIN priced
          /\ link[l].active_to_date <= today + terms[l].period

\* What was paid for a link as agreed, with what was paid for those it replaced,
\* is its whole price.
PaidInFull == \A l \in fair : backing[l] >= 100 * terms[l].price

Reading(q) == q.at \in {"credit", "page", "create"}

Paying(q) == q.at \in {"discount", "gateway"}

\* A request that has loaded its subscription holds a price and a period, those
\* of the moment if nothing was edited since.
ReadingInv(q) ==
    /\ q.sub \in DOMAIN priced
    /\ q.row \in Offers
    /\ q.ends <= today + q.row.period
    /\ q.due \/ q.quote # {} => q.row = priced[q.sub]
    /\ q.at = "credit" => q.old # NoOld
    /\ q.at = "create" => q.shown

\* The link it has made is not paid for, and was made for the price and the
\* period of the moment if nothing was edited since.
PayingInv(q) ==
    /\ q.sub \in DOMAIN priced
    /\ q.new \in DOMAIN link \ fair
    /\ q.due \/ q.quote # {} => terms[q.new] = priced[q.sub]
    /\ q.at = "discount" => q.old = NoOld

\* What the page quoted is what the page would quote now.
QuoteInv(q) ==
    \A quoted \in q.quote :
        IF q.old = NoOld THEN quoted = priced[q.sub].price
        ELSE /\ OldRow(q.old).period # 0
             /\ quoted = priced[q.sub].price - RemainingAmount(q.old)

\* An upgrade asks for what was quoted, and what it takes off the price of the
\* new link was paid for the old one.
UpgradeInv(q, price) ==
    /\ \A quoted \in q.quote : q.amount = 100 * quoted
    /\ q.due => /\ q.amount % 100 = 0
                /\ q.old \in fair
                /\ q.old \in replaced \/ q.amount + backing[q.old] >= 100 * price

\* A renewal asks for the price, or for less than was quoted.
RenewalInv(q) ==
    /\ q.due => q.amount = 100 * terms[q.new].price
    /\ \A quoted \in q.quote : 0 < q.amount /\ q.amount <= 100 * quoted

RequestInv(q) ==
    /\ Reading(q) => ReadingInv(q)
    /\ Paying(q) => PayingInv(q)
    /\ Reading(q) \/ Paying(q) => QuoteInv(q) /\ q.charged = Unsold
    /\ q.at = "create" /\ q.old # NoOld => UpgradeInv(q, q.row.price)
    /\ q.at = "gateway" /\ q.old # NoOld => UpgradeInv(q, terms[q.new].price)
    /\ q.at = "gateway" /\ q.old = NoOld => RenewalInv(q)
    /\ q.at = "unsent" => q.charged = Unsold
    /\ q.charged # Unsold => q.new \in DOMAIN link
    /\ AsQuoted(q)

AmountsInv ==
    /\ LinksInv
    /\ PaidInFull
    /\ \A r \in PayRequests : RequestInv(payRequest[r])
    /\ \A r, s \in PayRequests :
          r # s /\ Paying(payRequest[r]) /\ Paying(payRequest[s])
              => payRequest[r].new # payRequest[s].new

=============================================================================
