---------------------------- MODULE AmountsProofs ----------------------------
(***************************************************************************)
(* What upgrades and renewals are charged: type correctness, the invariant *)
(* AmountsInv, and from it CreditIsBacked and ChargedAsQuoted, for any     *)
(* number of requests, subscriptions, discounts, days and edits.           *)
(***************************************************************************)
EXTENDS Amounts, FiniteSetTheorems, TLAPS

(***************************************************************************)
(* Arithmetic                                                              *)
(***************************************************************************)

LEMMA DivisionOf ==
    ASSUME NEW x \in Nat, NEW n \in Nat \ {0}
    PROVE  /\ x \div n \in Int
           /\ n * (x \div n) <= x
           /\ x < n * (x \div n) + n
    BY SMT

LEMMA ProductOf ==
    ASSUME NEW m \in Nat, NEW n \in Nat
    PROVE  m * n \in Nat
    BY SMT

LEMMA ProductGrows ==
    ASSUME NEW p \in Nat, NEW d \in Nat, NEW n \in Nat, d <= n
    PROVE  p * d <= p * n
<1>1. p * (n - d) \in Nat
    BY ProductOf
<1>2. p * (n - d) = p * n - p * d
    BY SMT
<1> QED
    BY <1>1, <1>2, ProductOf

LEMMA QuotientIsNatural ==
    ASSUME NEW x \in Nat, NEW n \in Nat \ {0}
    PROVE  x \div n \in Nat
<1> DEFINE k == x \div n
<1>1. k \in Int /\ x < n * k + n
    BY DivisionOf
<1>2. ASSUME k < 0
      PROVE  FALSE
    <2>1. n * (0 - k - 1) \in Nat
        BY <1>1, <1>2, ProductOf
    <2>2. n * (0 - k - 1) = 0 - (n * k + n)
        BY <1>1, SMT
    <2> HIDE DEF k
    <2>3. n * k + n \in Int
        BY <1>1
    <2> QED
        BY <1>1, <2>1, <2>2, <2>3
<1> QED
    BY <1>1, <1>2

\* A part of the price, for part of the period, is no more than the price.
LEMMA PartOfPrice ==
    ASSUME NEW p \in Nat, NEW d \in Nat, NEW n \in Nat \ {0}, d <= n
    PROVE  (p * d) \div n <= p
<1> DEFINE k == (p * d) \div n
<1>1. p * d \in Nat /\ p * n \in Nat /\ p * d <= p * n
    BY ProductOf, ProductGrows
<1>2. k \in Nat /\ n * k <= p * d
    BY <1>1, DivisionOf, QuotientIsNatural
<1> HIDE DEF k
<1>3. ASSUME k > p
      PROVE  FALSE
    <2>1. n * (k - p - 1) \in Nat
        BY <1>2, <1>3, ProductOf
    <2>2. n * (k - p - 1) = n * k - p * n - n
        BY <1>2, SMT
    <2>3. n * k \in Nat
        BY <1>2, ProductOf
    <2> QED
        BY <1>1, <1>2, <2>1, <2>2, <2>3
<1>4. k <= p
    BY <1>2, <1>3
<1> QED
    BY <1>4 DEF k

\* What Stripe is sent is whole units, and no more than was asked for.
LEMMA SentAmount ==
    ASSUME NEW amount \in Int, NEW g
    PROVE  /\ Sent(amount, g) \in Int
           /\ Sent(amount, g) <= amount
           /\ amount % 100 = 0 => Sent(amount, g) = amount
    BY SMT DEF Sent

LEMMA DiscountedAmount ==
    ASSUME NEW price \in Nat, NEW d \in Discounts
    PROVE  Discounted(price, d) \in Nat /\ Discounted(price, d) <= 100 * price
<1>1. d \in [type : {"unit", "percent"}, amount : Nat]
    BY AmountsAssumption
<1>2. d.amount \in Nat
    BY <1>1
<1>3. price * d.amount \in Nat
    BY <1>2, ProductOf
<1>4. price * (100 - d.amount) = 100 * price - price * d.amount
    BY <1>2, SMT
<1> QED
    BY <1>2, <1>3, <1>4 DEF Discounted

(***************************************************************************)
(* Types                                                                   *)
(***************************************************************************)

LEMMA OfferTypes ==
    /\ \A o \in Offers : o.price \in Nat \ {0} /\ o.period \in Nat \ {0}
    /\ \A o \in Offers \cup {NoOffer} :
          /\ o.price \in Nat /\ o.period \in Nat
          /\ o.period # 0 => o \in Offers
    /\ NoOffer \notin Offers
    /\ NoOffer.price = 0 /\ NoOffer.period = 0
<1>1. \A o \in Offers : o.price \in Nat \ {0} /\ o.period \in Nat \ {0}
    BY PriceListAssumption DEF Offers
<1>2. NoOffer.price = 0 /\ NoOffer.period = 0
    BY DEF NoOffer
<1>3. NoOffer \notin Offers
    BY <1>1, <1>2
<1> QED
    BY <1>1, <1>2, <1>3

\* A link's credit is a natural number as long as its subscription has a period.
LEMMA CreditIsNatural ==
    ASSUME TablesOK, LinksInv, NEW l \in DOMAIN link, OldRow(l).period # 0
    PROVE  /\ RemainingAmount(l) \in Nat
           /\ OldRow(l) \in Offers
           /\ RemainingDays(l) \in Nat
<1>1. OldRow(l) \in Offers
    BY OfferTypes DEF TablesOK, PriceListOK, LinksInv, OldRow
<1>2. RemainingDays(l) \in Nat
    BY DEF TablesOK, RemainingDays, Distance
<1>3. OldRow(l).price * RemainingDays(l) \in Nat /\ OldRow(l).period \in Nat \ {0}
    BY <1>1, <1>2, OfferTypes, ProductOf
<1> QED
    BY <1>1, <1>2, <1>3, QuotientIsNatural DEF RemainingAmount

\* The fields of a request.
LEMMA ProgressFields ==
    ASSUME TypeOK, NEW r \in PayRequests
    PROVE  /\ payRequest[r] \in PayProgress
           /\ payRequest[r].at \in {"unsent", "credit", "page", "create", "discount",
                                    "gateway", "done"}
           /\ payRequest[r].old \in {NoOld} \cup DOMAIN link
           /\ payRequest[r].shown \in BOOLEAN /\ payRequest[r].due \in BOOLEAN
           /\ payRequest[r].quote \in SUBSET Int
           /\ payRequest[r].ends \in Nat /\ payRequest[r].new \in Nat
           /\ payRequest[r].amount \in Int
           /\ payRequest[r].charged \in {Unsold} \cup Nat
    BY DEF TypeOK, PayProgress

LEMMA NoOldIsNoLink ==
    ASSUME LinksInv
    PROVE  NoOld \notin DOMAIN link
<1>1. \A n : NoOld \notin 1 .. n
    BY DEF NoOld
<1> QED
    BY <1>1 DEF LinksInv

LEMMA TurnsOne ==
    ASSUME TypeOK, NEW r \in PayRequests, NEW q, Turns(r, q)
    PROVE  /\ payRequest'[r] = q
           /\ \A s \in PayRequests : s # r => payRequest'[s] = payRequest[s]
           /\ DOMAIN payRequest' = PayRequests
           /\ q \in PayProgress' /\ PayProgress \subseteq PayProgress'
                 => payRequest' \in [PayRequests -> PayProgress']
    BY DEF TypeOK, Turns

LEMMA FinishedIsProgress ==
    ASSUME TablesOK
    PROVE  Finished \in PayProgress /\ NotAsked \in PayProgress
<1>1. NotAsked \in PayProgress
    BY DEF NotAsked, PayProgress, NoOld, Unsold
<1>3. Finished \in PayProgress
    BY <1>1 DEF Finished, PayProgress
<1> QED
    BY <1>1, <1>3

LEMMA FinishedInv ==
    RequestInv(Finished)
    BY DEF Finished, NotAsked, RequestInv, Reading, Paying, AsQuoted

(***************************************************************************)
(* What a request leaves alone                                             *)
(***************************************************************************)

tables == <<priced, edits, today, link, terms, backing, fair, replaced>>

\* What the invariant says of a request reads the tables only.
LEMMA SameTables ==
    ASSUME UNCHANGED tables, NEW p, RequestInv(p)
    PROVE  RequestInv(p)'
<1>1. \A l : RemainingAmount(l)' = RemainingAmount(l) /\ OldRow(l)' = OldRow(l)
    BY DEF RemainingAmount, RemainingDays, Distance, OldRow, tables
<1>2. Reading(p) => ReadingInv(p)'
    BY DEF RequestInv, ReadingInv, tables
<1>3. Paying(p) => PayingInv(p)'
    BY DEF RequestInv, PayingInv, tables
<1>4. QuoteInv(p) => QuoteInv(p)'
    BY <1>1 DEF QuoteInv, tables
<1>5. \A price : UpgradeInv(p, price) => UpgradeInv(p, price)'
    BY DEF UpgradeInv, tables
<1>6. RenewalInv(p) => RenewalInv(p)'
    BY DEF RenewalInv, tables
<1>7. AsQuoted(p) => AsQuoted(p)'
    BY DEF AsQuoted, tables
<1>8. /\ Reading(p)' = Reading(p) /\ Paying(p)' = Paying(p)
      /\ terms' = terms /\ DOMAIN link' = DOMAIN link
    BY DEF Reading, Paying, tables
<1> QED
    BY <1>2, <1>3, <1>4, <1>5, <1>6, <1>7, <1>8 DEF RequestInv

\* A step of one request that changes no table keeps the invariant, if what
\* the request has become keeps its part of it.
LEMMA QuietStep ==
    ASSUME TypeOK, AmountsInv, NEW r \in PayRequests, NEW q \in PayProgress,
           Turns(r, q), UNCHANGED tables, RequestInv(q),
           Paying(q) => Paying(payRequest[r]) /\ q.new = payRequest[r].new
    PROVE  TypeOK' /\ AmountsInv'
<1>1. PayProgress' = PayProgress
    BY DEF PayProgress, tables
<1>2. TypeOK'
    BY <1>1, TurnsOne DEF TypeOK, TablesOK, PriceListOK, tables
<1>3. LinksInv' /\ PaidInFull'
    BY DEF AmountsInv, LinksInv, PaidInFull, tables
<1>5. ASSUME NEW s \in PayRequests
      PROVE  RequestInv(payRequest[s])'
    <2>1. PICK p : p = payRequest'[s]
        OBVIOUS
    <2>2. RequestInv(p)
        BY <1>5, <2>1, TurnsOne DEF AmountsInv
    <2>3. RequestInv(p)'
        BY <2>2, SameTables
    <2> QED
        BY <2>1, <2>3
<1>6. ASSUME NEW s \in PayRequests, NEW t \in PayRequests, s # t,
             Paying(payRequest'[s]), Paying(payRequest'[t])
      PROVE  payRequest'[s].new # payRequest'[t].new
    BY <1>6, TurnsOne DEF AmountsInv
<1> QED
    BY <1>2, <1>3, <1>5, <1>6 DEF AmountsInv, Paying

\* The pieces of ReadSubscription.
LEMMA ReadSubscriptionKeeps ==
    ASSUME TypeOK, AmountsInv, NEW r \in PayRequests, NEW q \in PayProgress,
           ReadSubscription(r, q), UNCHANGED tables,
           q.sub \in DOMAIN priced, q.due, q.charged = Unsold,
           QuoteInv(q)
    PROVE  TypeOK' /\ AmountsInv'
<1>1. CASE priced[q.sub].period = 0
    <2>1. Turns(r, Finished)
        BY <1>1 DEF ReadSubscription
    <2>2. ~Paying(Finished)
        BY DEF Paying, Finished, NotAsked
    <2> QED
        BY <2>1, <2>2, QuietStep, FinishedIsProgress, FinishedInv DEF TypeOK
<1>2. CASE priced[q.sub].period # 0
    <2>1. priced[q.sub] \in Offers /\ priced[q.sub].price \in Nat
          /\ priced[q.sub].period \in Nat /\ today \in Nat
        BY <1>2, OfferTypes DEF TypeOK, TablesOK, PriceListOK
    <2> DEFINE read == [q EXCEPT !.row = priced[q.sub], !.ends = today + priced[q.sub].period]
    <2>2. PICK n : n = (IF q.old # NoOld THEN [read EXCEPT !.at = "credit"]
                        ELSE IF q.shown THEN [read EXCEPT !.at = "create"]
                        ELSE [read EXCEPT !.at = "page", !.shown = TRUE,
                                          !.quote = {read.row.price}])
        OBVIOUS
    <2>3. Turns(r, n)
        BY <1>2, <2>2 DEF ReadSubscription
    <2>0. today + priced[q.sub].period \in Nat
        BY <2>1
    <2>4. read \in PayProgress /\ read.row = priced[q.sub]
          /\ read.ends = today + priced[q.sub].period
          /\ read.sub = q.sub /\ read.due = q.due /\ read.quote = q.quote /\ read.old = q.old
          /\ read.shown = q.shown /\ read.charged = q.charged
        BY <2>0, <2>1 DEF PayProgress
    <2> HIDE DEF read
    <2>5. n \in PayProgress
        <3>1. CASE q.old # NoOld
            BY <2>2, <2>4, <3>1 DEF PayProgress
        <3>2. CASE q.old = NoOld /\ q.shown
            BY <2>2, <2>4, <3>2 DEF PayProgress
        <3>3. CASE q.old = NoOld /\ ~q.shown
            <4>1. {read.row.price} \in SUBSET Int
                BY <2>1, <2>4
            <4> QED
                BY <2>2, <2>4, <3>3, <4>1 DEF PayProgress
        <3> QED
            BY <3>1, <3>2, <3>3
    <2>6. /\ n.row = priced[q.sub] /\ n.ends = today + priced[q.sub].period
          /\ n.sub = q.sub /\ n.old = q.old /\ n.charged = Unsold
          /\ n.at \in {"credit", "page", "create"}
          /\ n.at = "credit" => q.old # NoOld
          /\ n.at = "create" => n.shown /\ q.old = NoOld
          /\ n.quote = q.quote \/ (n.quote = {priced[q.sub].price} /\ q.old = NoOld)
        BY <2>2, <2>4 DEF PayProgress
    <2>7. ReadingInv(n)
        BY <2>1, <2>6 DEF ReadingInv
    <2>8. QuoteInv(n)
        BY <2>6 DEF QuoteInv
    <2>9. ~Paying(n) /\ RequestInv(n)
        BY <2>6, <2>7, <2>8 DEF RequestInv, Reading, Paying, AsQuoted
    <2> QED
        BY <2>3, <2>5, <2>9, QuietStep
<1> QED
    BY <1>1, <1>2

(***************************************************************************)
(* The steps that change no table                                          *)
(***************************************************************************)

LEMMA UpgradeStep ==
    ASSUME TypeOK, AmountsInv, NEW r \in PayRequests, Upgrade(r)
    PROVE  TypeOK' /\ AmountsInv'
<1>1. PICK l \in DOMAIN link, s \in DOMAIN priced :
          ReadSubscription(r, [NotAsked EXCEPT !.old = l, !.sub = s])
    BY DEF Upgrade
<1>2. PICK q : q = [NotAsked EXCEPT !.old = l, !.sub = s]
    OBVIOUS
<1>3. q \in PayProgress
    <2>1. s \in Sub
        BY DEF TypeOK, TablesOK, PriceListOK
    <2> QED
        BY <1>2, <2>1, FinishedIsProgress DEF TypeOK, PayProgress
<1>4. q.sub = s /\ q.due /\ q.charged = Unsold /\ QuoteInv(q)
    BY <1>2 DEF NotAsked, QuoteInv
<1>5. UNCHANGED tables
    BY DEF Upgrade, tables
<1> QED
    BY <1>1, <1>2, <1>3, <1>4, <1>5, ReadSubscriptionKeeps

LEMMA RenewStep ==
    ASSUME TypeOK, AmountsInv, NEW r \in PayRequests, Renew(r)
    PROVE  TypeOK' /\ AmountsInv'
<1>1. PICK s \in DOMAIN priced : ReadSubscription(r, [NotAsked EXCEPT !.sub = s])
    BY DEF Renew
<1>2. PICK q : q = [NotAsked EXCEPT !.sub = s]
    OBVIOUS
<1>3. q \in PayProgress
    <2>1. s \in Sub
        BY DEF TypeOK, TablesOK, PriceListOK
    <2> QED
        BY <1>2, <2>1, FinishedIsProgress DEF TypeOK, PayProgress
<1>4. q.sub = s /\ q.due /\ q.charged = Unsold /\ QuoteInv(q)
    BY <1>2 DEF NotAsked, QuoteInv
<1>5. UNCHANGED tables
    BY DEF Renew, tables
<1> QED
    BY <1>1, <1>2, <1>3, <1>4, <1>5, ReadSubscriptionKeeps

LEMMA Leaves ==
    ASSUME TypeOK, AmountsInv, NEW r \in PayRequests, Turns(r, Finished), UNCHANGED tables
    PROVE  TypeOK' /\ AmountsInv'
<1>1. ~Paying(Finished)
    BY DEF Paying, Finished, NotAsked
<1> QED
    BY <1>1, QuietStep, FinishedIsProgress, FinishedInv DEF TypeOK

LEMMA SendPageStep ==
    ASSUME TypeOK, AmountsInv, NEW r \in PayRequests, SendPage(r)
    PROVE  TypeOK' /\ AmountsInv'
<1>1. UNCHANGED tables
    BY DEF SendPage, tables
<1>2. CASE Turns(r, Finished)
    BY <1>1, <1>2, Leaves
<1>3. CASE ReadSubscription(r, [payRequest[r] EXCEPT !.due = TRUE])
    <2>1. PICK p : p = payRequest[r]
        OBVIOUS
    <2>2. p \in PayProgress /\ RequestInv(p) /\ p.at = "page"
        BY <2>1, ProgressFields DEF AmountsInv, SendPage, PayAt
    <2>3. PICK q : q = [p EXCEPT !.due = TRUE]
        OBVIOUS
    <2>4. /\ q \in PayProgress
          /\ q.sub = p.sub /\ q.due /\ q.charged = p.charged /\ q.quote = p.quote
          /\ q.old = p.old
        BY <2>2, <2>3 DEF PayProgress
    <2>5. p.sub \in DOMAIN priced /\ p.charged = Unsold /\ QuoteInv(p)
        BY <2>2 DEF RequestInv, Reading, ReadingInv
    <2>6. QuoteInv(q)
        BY <2>4, <2>5 DEF QuoteInv
    <2> QED
        BY <1>1, <1>3, <2>1, <2>3, <2>4, <2>5, <2>6, ReadSubscriptionKeeps
<1> QED
    BY <1>2, <1>3 DEF SendPage

LEMMA ReadCreditStep ==
    ASSUME TypeOK, AmountsInv, CreditIsBacked, NEW r \in PayRequests, ReadCredit(r)
    PROVE  TypeOK' /\ AmountsInv'
<1>1. UNCHANGED tables
    BY DEF ReadCredit, tables
<1>2. PICK q : q = payRequest[r]
    OBVIOUS
<1>3. q \in PayProgress /\ RequestInv(q) /\ q.at = "credit"
    BY <1>2, ProgressFields DEF AmountsInv, ReadCredit, PayAt
<1>4. /\ q.sub \in DOMAIN priced /\ q.row \in Offers /\ q.charged = Unsold
      /\ q.ends <= today + q.row.period
      /\ q.due \/ q.quote # {} => q.row = priced[q.sub]
      /\ QuoteInv(q) /\ q.old # NoOld
    BY <1>3 DEF RequestInv, Reading, ReadingInv
<1>5. PICK l : l = q.old
    OBVIOUS
<1>6. l \in DOMAIN link /\ l # NoOld
    BY <1>3, <1>4, <1>5 DEF PayProgress
<1>7. CASE OldRow(l).period = 0
    <2>1. Turns(r, Finished)
        BY <1>2, <1>5, <1>7 DEF ReadCredit
    <2> QED
        BY <1>1, <2>1, Leaves
<1>8. CASE OldRow(l).period # 0
    <2>1. PICK final : final = q.row.price - RemainingAmount(l)
        OBVIOUS
    <2>2. q.row.price \in Nat /\ RemainingAmount(l) \in Nat /\ final \in Int
        BY <1>4, <1>6, <1>8, <2>1, OfferTypes, CreditIsNatural DEF TypeOK, AmountsInv
    <2>3. PICK due : due = (l \in fair /\ OldRow(l) = terms[l] /\ today <= link[l].active_to_date)
        OBVIOUS
    <2>4. CASE q.shown
        <3>1. PICK n : n = [q EXCEPT !.at = "create", !.amount = 100 * final,
                                     !.due = q.due /\ due]
            OBVIOUS
        <3>2. Turns(r, n)
            BY <1>2, <1>5, <1>8, <2>1, <2>3, <2>4, <3>1 DEF ReadCredit
        <3>3. /\ n \in PayProgress
              /\ n.at = "create" /\ n.amount = 100 * final
              /\ n.due <=> q.due /\ due
              /\ n.old = l /\ n.sub = q.sub /\ n.row = q.row /\ n.ends = q.ends
              /\ n.quote = q.quote /\ n.charged = q.charged /\ n.shown
            <4>1. PICK d, cents : d = (q.due /\ due) /\ cents = 100 * final
                OBVIOUS
            <4>2. n = [q EXCEPT !.at = "create", !.amount = cents, !.due = d]
                BY <3>1, <4>1
            <4>3. d \in BOOLEAN /\ cents \in Int
                BY <2>2, <4>1
            <4>4. n \in PayProgress
                BY <1>3, <4>2, <4>3 DEF PayProgress
            <4>5. /\ n.at = "create" /\ n.amount = cents /\ n.due = d
                  /\ n.old = q.old /\ n.sub = q.sub /\ n.row = q.row /\ n.ends = q.ends
                  /\ n.quote = q.quote /\ n.charged = q.charged /\ n.shown = q.shown
                BY <1>3, <4>2 DEF PayProgress
            <4>6. n.due <=> q.due /\ due
                BY <4>1, <4>5
            <4> QED
                BY <1>5, <2>4, <4>1, <4>4, <4>5, <4>6
        <3>4. ReadingInv(n)
            BY <1>4, <3>3 DEF ReadingInv
        <3>5. QuoteInv(n)
            BY <1>4, <1>5, <3>3 DEF QuoteInv
        <3>6. UpgradeInv(n, n.row.price)
            <4>1. \A quoted \in n.quote : n.amount = 100 * quoted
                <5>1. ASSUME NEW quoted \in n.quote
                      PROVE  quoted = final
                    BY <1>4, <1>6, <2>1, <3>3, <3>5, <5>1 DEF QuoteInv
                <5> QED
                    BY <3>3, <5>1
            <4>2. n.amount % 100 = 0
                BY <2>2, <3>3
            <4>3. ASSUME n.due, l \notin replaced
                  PROVE  n.amount + backing[l] >= 100 * n.row.price
                <5>1. 100 * RemainingAmount(l) <= backing[l]
                    BY <2>3, <3>3, <4>3 DEF CreditIsBacked
                <5>2. backing[l] \in Nat
                    BY <1>6 DEF TypeOK, TablesOK
                <5> QED
                    BY <2>1, <2>2, <3>3, <5>1, <5>2
            <4>4. n.due => l \in fair
                BY <2>3, <3>3
            <4> QED
                BY <3>3, <4>1, <4>2, <4>3, <4>4 DEF UpgradeInv
        <3>7. RequestInv(n) /\ ~Paying(n)
            BY <1>4, <1>6, <3>3, <3>4, <3>5, <3>6 DEF RequestInv, Reading, Paying, AsQuoted
        <3> QED
            BY <1>1, <3>2, <3>3, <3>7, QuietStep
    <2>5. CASE ~q.shown
        <3>1. PICK n : n = [q EXCEPT !.at = "page", !.shown = TRUE,
                                     !.quote = IF q.due THEN {final} ELSE {}]
            OBVIOUS
        <3>2. Turns(r, n)
            BY <1>2, <1>5, <1>8, <2>1, <2>5, <3>1 DEF ReadCredit
        <3>3. /\ n \in PayProgress
              /\ n.at = "page" /\ n.due = q.due
              /\ n.old = l /\ n.sub = q.sub /\ n.row = q.row /\ n.ends = q.ends
              /\ n.quote = (IF q.due THEN {final} ELSE {}) /\ n.charged = q.charged
            <4>1. (IF q.due THEN {final} ELSE {}) \in SUBSET Int
                BY <2>2
            <4> QED
                BY <1>3, <1>5, <3>1, <4>1 DEF PayProgress
        <3>4. ReadingInv(n)
            BY <1>4, <3>3 DEF ReadingInv
        <3>5. QuoteInv(n)
            BY <1>4, <1>6, <1>8, <2>1, <3>3 DEF QuoteInv
        <3>6. RequestInv(n) /\ ~Paying(n)
            BY <1>4, <3>3, <3>4, <3>5 DEF RequestInv, Reading, Paying, AsQuoted
        <3> QED
            BY <1>1, <3>2, <3>3, <3>6, QuietStep
    <2> QED
        BY <2>4, <2>5
<1> QED
    BY <1>7, <1>8

LEMMA DiscountStep ==
    ASSUME TypeOK, AmountsInv, NEW r \in PayRequests, DiscountAmount(r)
    PROVE  TypeOK' /\ AmountsInv'
<1>1. UNCHANGED tables
    BY DEF DiscountAmount, tables
<1>2. PICK q : q = payRequest[r]
    OBVIOUS
<1>3. q \in PayProgress /\ RequestInv(q) /\ q.at = "discount" /\ Paying(q)
    BY <1>2, ProgressFields DEF AmountsInv, DiscountAmount, PayAt, Paying
<1>4. /\ q.sub \in DOMAIN priced /\ q.charged = Unsold
      /\ q.new \in DOMAIN link \ fair
      /\ q.due \/ q.quote # {} => terms[q.new] = priced[q.sub]
      /\ QuoteInv(q) /\ q.old = NoOld
    BY <1>3 DEF RequestInv, Paying, PayingInv
<1>5. PICK price : price = priced[q.sub].price
    OBVIOUS
<1>6. /\ price \in Nat
      /\ q.quote # {} => price > 0
    <2>1. priced[q.sub] \in Offers \cup {NoOffer} /\ terms[q.new] \in Offers
        BY <1>4 DEF TypeOK, TablesOK, PriceListOK
    <2> QED
        BY <1>4, <1>5, <2>1, OfferTypes
<1>7. ASSUME NEW n \in PayProgress, Turns(r, n),
             n.at = "gateway", n.old = NoOld, n.sub = q.sub, n.new = q.new,
             n.quote = q.quote, n.charged = q.charged,
             n.due => q.due /\ n.amount = 100 * price,
             price > 0 => n.amount > 0,
             n.amount <= 100 * price
      PROVE  TypeOK' /\ AmountsInv'
    <2>1. PayingInv(n)
        BY <1>4, <1>7 DEF PayingInv
    <2>2. QuoteInv(n)
        BY <1>4, <1>7 DEF QuoteInv
    <2>3. RenewalInv(n)
        <3>1. n.due => n.amount = 100 * terms[n.new].price
            BY <1>4, <1>5, <1>7
        <3>2. ASSUME NEW quoted \in n.quote
              PROVE  0 < n.amount /\ n.amount <= 100 * quoted
            BY <1>4, <1>5, <1>6, <1>7, <2>2, <3>2 DEF QuoteInv
        <3> QED
            BY <3>1, <3>2 DEF RenewalInv
    <2>4. RequestInv(n)
        BY <1>4, <1>7, <2>1, <2>2, <2>3 DEF RequestInv, Reading, Paying, AsQuoted
    <2> QED
        BY <1>1, <1>2, <1>3, <1>7, <2>4, QuietStep
<1>8. CASE Turns(r, [q EXCEPT !.at = "gateway", !.amount = 100 * price])
    <2>1. PICK n : n = [q EXCEPT !.at = "gateway", !.amount = 100 * price]
        OBVIOUS
    <2>2. /\ n \in PayProgress /\ n.at = "gateway" /\ n.old = q.old /\ n.sub = q.sub
          /\ n.new = q.new /\ n.quote = q.quote /\ n.charged = q.charged
          /\ n.due = q.due /\ n.amount = 100 * price
        <3>1. 100 * price \in Int
            BY <1>6
        <3> QED
            BY <1>3, <2>1, <3>1 DEF PayProgress
    <2>3. n.amount <= 100 * price /\ (price > 0 => n.amount > 0)
        BY <1>6, <2>2
    <2> QED
        BY <1>4, <1>7, <1>8, <2>1, <2>2, <2>3
<1>9. ASSUME NEW d \in Discounts,
             Turns(r, [q EXCEPT !.at = "gateway", !.due = FALSE,
                         !.amount = IF Discounted(price, d) = 0 THEN 100 * price
                                    ELSE Discounted(price, d)])
      PROVE  TypeOK' /\ AmountsInv'
    <2>1. PICK amount : amount = IF Discounted(price, d) = 0 THEN 100 * price
                                 ELSE Discounted(price, d)
        OBVIOUS
    <2>2. amount \in Int /\ amount <= 100 * price /\ (price > 0 => amount > 0)
        BY <1>6, <2>1, DiscountedAmount
    <2>3. PICK n : n = [q EXCEPT !.at = "gateway", !.due = FALSE, !.amount = amount]
        OBVIOUS
    <2>4. /\ n \in PayProgress /\ n.at = "gateway" /\ n.old = q.old /\ n.sub = q.sub
          /\ n.new = q.new /\ n.quote = q.quote /\ n.charged = q.charged
          /\ ~n.due /\ n.amount = amount
        BY <1>3, <2>2, <2>3 DEF PayProgress
    <2> QED
        BY <1>4, <1>7, <1>9, <2>1, <2>2, <2>3, <2>4
<1> QED
    BY <1>2, <1>5, <1>8, <1>9 DEF DiscountAmount

(***************************************************************************)
(* The insert and the payment                                              *)
(***************************************************************************)

\* What the insert or the payment of one request leaves as it was.
KeptBy(r) ==
    /\ UNCHANGED <<priced, edits, today>>
    /\ \A l \in DOMAIN link : l \in DOMAIN link' /\ link'[l] = link[l] /\ terms'[l] = terms[l]
    /\ fair \subseteq fair' /\ replaced \subseteq replaced'
    /\ \A l \in fair' \ fair : Paying(payRequest[r]) /\ l = payRequest[r].new
    /\ \A l \in fair : backing'[l] = backing[l]

LEMMA QuoteKept ==
    ASSUME NEW r, KeptBy(r), NEW q \in PayProgress, QuoteInv(q)
    PROVE  QuoteInv(q)'
<1>1. CASE q.old = NoOld
    BY <1>1 DEF QuoteInv, KeptBy
<1>2. CASE q.old # NoOld
    <2>1. link'[q.old] = link[q.old]
        BY <1>2 DEF KeptBy, PayProgress
    <2>2. OldRow(q.old)' = OldRow(q.old)
        BY <2>1 DEF KeptBy, OldRow
    <2>3. RemainingAmount(q.old)' = RemainingAmount(q.old)
        BY <2>1, <2>2 DEF KeptBy, RemainingAmount, RemainingDays, Distance
    <2> QED
        BY <1>2, <2>2, <2>3 DEF QuoteInv, KeptBy
<1> QED
    BY <1>1, <1>2

LEMMA UpgradeKept ==
    ASSUME NEW r, KeptBy(r), NEW q \in PayProgress, NEW price, UpgradeInv(q, price)
    PROVE  UpgradeInv(q, price)'
    BY DEF UpgradeInv, KeptBy

\* A request is not disturbed by the insert or the payment of another.
LEMMA Undisturbed ==
    ASSUME TypeOK, NEW r, KeptBy(r), NEW q \in PayProgress, RequestInv(q),
           Paying(q) => q.new \notin fair'
    PROVE  RequestInv(q)'
<1>1. Reading(q) => ReadingInv(q)'
    BY DEF RequestInv, ReadingInv, KeptBy
<1>2. Paying(q) => PayingInv(q)'
    BY DEF RequestInv, PayingInv, KeptBy
<1>3. QuoteInv(q) => QuoteInv(q)'
    BY QuoteKept
<1>4. q.at = "create" /\ q.old # NoOld => UpgradeInv(q, q.row.price)'
    <2>1. PICK price : price = q.row.price
        OBVIOUS
    <2> QED
        BY <2>1, UpgradeKept DEF RequestInv
<1>5. q.at = "gateway" /\ q.old # NoOld => UpgradeInv(q, terms[q.new].price)'
    <2>1. PICK price : price = terms[q.new].price
        OBVIOUS
    <2>2. q.at = "gateway" => terms'[q.new].price = price
        BY <2>1 DEF RequestInv, Paying, PayingInv, KeptBy
    <2>3. q.at = "gateway" /\ q.old # NoOld => UpgradeInv(q, price)'
        BY <2>1, UpgradeKept DEF RequestInv
    <2> QED
        BY <2>2, <2>3 DEF UpgradeInv
<1>6. q.at = "gateway" /\ q.old = NoOld => RenewalInv(q)'
    BY DEF RequestInv, Paying, PayingInv, RenewalInv, KeptBy
<1>7. AsQuoted(q)' /\ (q.charged # Unsold => q.new \in DOMAIN link')
    BY DEF RequestInv, AsQuoted, KeptBy
<1> QED
    BY <1>1, <1>2, <1>3, <1>4, <1>5, <1>6, <1>7 DEF RequestInv, Reading, Paying

\* The step as a whole, from what becomes of the tables and of the request.
LEMMA StepOnTables ==
    ASSUME TypeOK, AmountsInv, NEW r \in PayRequests, NEW n, Turns(r, n), KeptBy(r),
           TablesOK', LinksInv', PaidInFull', n \in PayProgress', RequestInv(n)',
           Paying(n) => \/ Paying(payRequest[r]) /\ n.new = payRequest[r].new
                        \/ n.new \notin DOMAIN link
    PROVE  TypeOK' /\ AmountsInv'
<1>1. PayProgress \subseteq PayProgress'
    BY DEF KeptBy, PayProgress
<1>2. TypeOK'
    BY <1>1, TurnsOne DEF TypeOK
<1>3. ASSUME NEW s \in PayRequests, s # r, Paying(payRequest[s])
      PROVE  payRequest[s].new \in DOMAIN link \ fair'
    BY <1>3 DEF AmountsInv, RequestInv, PayingInv, KeptBy
<1>4. ASSUME NEW s \in PayRequests
      PROVE  RequestInv(payRequest[s])'
    <2>1. CASE s = r
        <3>1. payRequest'[r] = n
            BY TurnsOne
        <3> QED
            BY <2>1, <3>1
    <2>2. CASE s # r
        <3>1. PICK p : p = payRequest[s]
            OBVIOUS
        <3>2. p \in PayProgress /\ RequestInv(p)
            BY <3>1, ProgressFields DEF AmountsInv
        <3>3. RequestInv(p)'
            BY <1>3, <2>2, <3>1, <3>2, Undisturbed
        <3>4. payRequest'[s] = p
            BY <2>2, <3>1, TurnsOne
        <3> QED
            BY <3>3, <3>4
    <2> QED
        BY <2>1, <2>2
<1>5. ASSUME NEW s \in PayRequests, NEW t \in PayRequests, s # t,
             Paying(payRequest'[s]), Paying(payRequest'[t])
      PROVE  payRequest'[s].new # payRequest'[t].new
    <2>1. CASE s # r /\ t # r
        BY <1>5, <2>1, TurnsOne DEF AmountsInv
    <2>2. CASE s = r
        BY <1>3, <1>5, <2>2, TurnsOne DEF AmountsInv
    <2>3. CASE t = r
        BY <1>3, <1>5, <2>3, TurnsOne DEF AmountsInv
    <2> QED
        BY <2>1, <2>2, <2>3
<1> QED
    BY <1>2, <1>4, <1>5 DEF AmountsInv, Paying

\* The id of the next link is a new one.
LEMMA NextLink ==
    ASSUME LinksInv, NEW l, l = Cardinality(DOMAIN link) + 1
    PROVE  /\ l \in Nat \ {0} /\ l \notin DOMAIN link
           /\ IsFiniteSet(DOMAIN link \cup {l})
           /\ DOMAIN link \cup {l} = 1 .. Cardinality(DOMAIN link \cup {l})
<1>1. Cardinality(DOMAIN link) \in Nat
    BY FS_CardinalityType DEF LinksInv
<1>2. l \in Nat \ {0} /\ l \notin DOMAIN link
    <2>1. PICK n \in Nat : n = Cardinality(DOMAIN link)
        BY <1>1
    <2>2. DOMAIN link = 1 .. n /\ l = n + 1
        BY <2>1 DEF LinksInv
    <2>3. n + 1 \in Nat \ {0} /\ n + 1 \notin 1 .. n
        OBVIOUS
    <2> QED
        BY <2>2, <2>3
<1>3. IsFiniteSet(DOMAIN link \cup {l}) /\ Cardinality(DOMAIN link \cup {l}) = l
    BY <1>2, FS_AddElement DEF LinksInv
<1>4. DOMAIN link \cup {l} = 1 .. l
    <2>1. PICK n \in Nat : n = Cardinality(DOMAIN link)
        BY <1>1
    <2>2. DOMAIN link = 1 .. n /\ l = n + 1
        BY <2>1 DEF LinksInv
    <2> QED
        BY <2>2
<1> QED
    BY <1>2, <1>3, <1>4

LEMMA CreateLinkStep ==
    ASSUME TypeOK, AmountsInv, NEW r \in PayRequests, CreateLink(r)
    PROVE  TypeOK' /\ AmountsInv'
<1>1. CASE Turns(r, Finished) /\ UNCHANGED <<link, terms, backing>>
    BY <1>1, Leaves DEF CreateLink, tables
<1>2. ASSUME NEW q, NEW l, q = payRequest[r], l = Cardinality(DOMAIN link) + 1,
             link' = Extend(link, l, [subscription |-> q.sub, active_to_date |-> q.ends]),
             terms' = Extend(terms, l, q.row),
             backing' = Extend(backing, l, 0),
             Turns(r, [q EXCEPT !.at = IF q.old = NoOld THEN "discount" ELSE "gateway",
                                !.new = l, !.row = NoOffer, !.ends = 0])
      PROVE  TypeOK' /\ AmountsInv'
    <2>1. q \in PayProgress /\ RequestInv(q) /\ q.at = "create"
        BY <1>2, ProgressFields DEF AmountsInv, CreateLink, PayAt
    <2>2. /\ q.sub \in DOMAIN priced /\ q.row \in Offers /\ q.charged = Unsold
          /\ q.ends <= today + q.row.period /\ q.ends \in Nat
          /\ q.due \/ q.quote # {} => q.row = priced[q.sub]
          /\ QuoteInv(q)
          /\ q.old # NoOld => UpgradeInv(q, q.row.price)
          /\ q.sub \in Sub
        BY <2>1 DEF RequestInv, Reading, ReadingInv, TypeOK, TablesOK, PriceListOK, PayProgress
    <2>3. /\ l \in Nat \ {0} /\ l \notin DOMAIN link
          /\ IsFiniteSet(DOMAIN link \cup {l})
          /\ DOMAIN link \cup {l} = 1 .. Cardinality(DOMAIN link \cup {l})
        BY <1>2, NextLink DEF AmountsInv
    <2>4. UNCHANGED <<priced, edits, today, fair, replaced>>
        BY DEF CreateLink
    <2>5. /\ DOMAIN link' = DOMAIN link \cup {l}
          /\ DOMAIN terms' = DOMAIN link \cup {l} /\ DOMAIN backing' = DOMAIN link \cup {l}
          /\ link'[l] = [subscription |-> q.sub, active_to_date |-> q.ends]
          /\ terms'[l] = q.row /\ backing'[l] = 0
          /\ \A m \in DOMAIN link :
                link'[m] = link[m] /\ terms'[m] = terms[m] /\ backing'[m] = backing[m]
        BY <1>2, <2>3 DEF Extend, TypeOK, TablesOK
    <2>6. link'[l].subscription = q.sub /\ link'[l].active_to_date = q.ends
        BY <2>5
    <2>7. KeptBy(r)
        BY <2>4, <2>5 DEF KeptBy, TypeOK, TablesOK
    <2>8. TablesOK'
        BY <2>2, <2>3, <2>4, <2>5 DEF TypeOK, TablesOK, PriceListOK
    <2>9. LinksInv'
        <3>1. ASSUME NEW m \in DOMAIN link'
              PROVE  /\ link'[m].subscription \in DOMAIN priced'
                     /\ link'[m].active_to_date <= today' + terms'[m].period
            <4>1. CASE m = l
                BY <2>2, <2>4, <2>5, <2>6, <4>1
            <4>2. CASE m \in DOMAIN link
                BY <2>4, <2>5, <4>2 DEF AmountsInv, LinksInv
            <4> QED
                BY <2>5, <4>1, <4>2
        <3> QED
            BY <2>3, <2>5, <3>1 DEF LinksInv
    <2>10. PaidInFull'
        BY <2>4, <2>5 DEF PaidInFull, AmountsInv, TypeOK, TablesOK
    <2>11. PICK n : n = [q EXCEPT !.at = IF q.old = NoOld THEN "discount" ELSE "gateway",
                                 !.new = l, !.row = NoOffer, !.ends = 0]
        OBVIOUS
    <2>12. /\ n \in PayProgress
           /\ n.at \in {"discount", "gateway"} /\ (n.at = "discount" <=> q.old = NoOld)
           /\ n.new = l /\ n.old = q.old /\ n.sub = q.sub /\ n.amount = q.amount
           /\ n.quote = q.quote /\ n.due = q.due /\ n.charged = Unsold
        BY <2>1, <2>2, <2>3, <2>11 DEF PayProgress
    <2>13. n \in PayProgress'
        BY <2>5, <2>12 DEF PayProgress
    <2>14. PayingInv(n)'
        <3>1. l \notin fair
            BY <2>3 DEF TypeOK, TablesOK
        <3> QED
            BY <2>2, <2>4, <2>5, <2>12, <3>1 DEF PayingInv
    <2>15. QuoteInv(n)'
        <3>1. QuoteInv(n)
            BY <2>2, <2>12 DEF QuoteInv
        <3> QED
            BY <2>7, <2>12, <3>1, QuoteKept
    <2>16. n.old # NoOld => UpgradeInv(n, terms[n.new].price)'
        <3>1. PICK price : price = q.row.price
            OBVIOUS
        <3>2. n.old # NoOld => UpgradeInv(n, price)
            BY <2>2, <2>12, <3>1 DEF UpgradeInv
        <3>3. n.old # NoOld => UpgradeInv(n, price)'
            BY <2>7, <2>12, <3>2, UpgradeKept
        <3>4. terms'[n.new].price = price
            BY <2>5, <2>12, <3>1
        <3> QED
            BY <3>3, <3>4 DEF UpgradeInv
    <2>17. RequestInv(n)' /\ n.new \notin DOMAIN link
        BY <2>3, <2>12, <2>14, <2>15, <2>16 DEF RequestInv, Reading, Paying, AsQuoted
    <2> QED
        BY <1>2, <2>7, <2>8, <2>9, <2>10, <2>11, <2>13, <2>17, StepOnTables
<1>3. PICK q, l : q = payRequest[r] /\ l = Cardinality(DOMAIN link) + 1
    OBVIOUS
<1> QED
    BY <1>1, <1>2, <1>3 DEF CreateLink

\* What a payment as agreed adds to the link: the whole of its price.
LEMMA ChargeIsWhole ==
    ASSUME TypeOK, AmountsInv, NEW q \in PayProgress, RequestInv(q), q.at = "gateway",
           q.due, q.old \notin replaced, NEW g,
           NEW amount, amount = IF q.amount = 0 THEN 100 * priced[q.sub].price ELSE q.amount,
           NEW carried,
           carried = IF q.old # NoOld /\ q.old \notin replaced THEN backing[q.old] ELSE 0,
           Sent(amount, g) > 0
    PROVE  Sent(amount, g) + carried >= 100 * terms[q.new].price
<1>1. q.new \in DOMAIN link /\ terms[q.new] = priced[q.sub]
    BY DEF RequestInv, Paying, PayingInv
<1>2. PICK price : price = terms[q.new].price
    OBVIOUS
<1>3. price \in Nat \ {0} /\ q.amount \in Int
    BY <1>1, <1>2, OfferTypes DEF TypeOK, TablesOK, PayProgress
<1>4. (100 * price) % 100 = 0
    BY <1>3
<1>5. CASE q.old = NoOld
    <2>1. q.amount = 100 * price
        BY <1>2, <1>5 DEF RequestInv, RenewalInv
    <2>2. amount = 100 * price /\ carried = 0
        BY <1>3, <1>5, <2>1
    <2> QED
        BY <1>2, <1>3, <1>4, <2>2, SentAmount
<1>6. CASE q.old # NoOld
    <2>1. q.amount % 100 = 0 /\ q.old \in fair /\ q.amount + backing[q.old] >= 100 * price
        BY <1>2, <1>6 DEF RequestInv, UpgradeInv
    <2>2. carried = backing[q.old] /\ carried \in Nat
        BY <1>6, <2>1 DEF TypeOK, TablesOK
    <2>3. CASE q.amount = 0
        <3>1. amount = 100 * price
            BY <1>1, <1>2, <2>3
        <3>2. Sent(amount, g) = 100 * price
            BY <1>3, <1>4, <3>1, SentAmount
        <3> QED
            BY <1>2, <1>3, <2>2, <3>2
    <2>4. CASE q.amount # 0
        <3>1. Sent(amount, g) = q.amount
            BY <1>3, <2>1, <2>4, SentAmount
        <3> QED
            BY <1>2, <1>3, <2>1, <2>2, <3>1
    <2> QED
        BY <2>3, <2>4
<1> QED
    BY <1>5, <1>6

\* A quote is kept by what is charged.
LEMMA ChargeIsQuoted ==
    ASSUME TypeOK, AmountsInv, NEW q \in PayProgress, RequestInv(q), q.at = "gateway",
           NEW g, NEW amount,
           amount = IF q.amount = 0 THEN 100 * priced[q.sub].price ELSE q.amount,
           Sent(amount, g) > 0, NEW quoted \in q.quote
    PROVE  IF q.old = NoOld THEN Sent(amount, g) <= 100 * quoted
           ELSE /\ quoted >= 0
                /\ Sent(amount, g) = 100 * (IF quoted = 0 THEN terms[q.new].price ELSE quoted)
<1>1. /\ q.new \in DOMAIN link /\ terms[q.new] = priced[q.sub]
      /\ quoted \in Int /\ q.amount \in Int
    BY DEF RequestInv, Paying, PayingInv, PayProgress
<1>2. PICK price : price = terms[q.new].price
    OBVIOUS
<1>3. price \in Nat \ {0}
    BY <1>1, <1>2, OfferTypes DEF TypeOK, TablesOK
<1>4. (100 * price) % 100 = 0 /\ (100 * quoted) % 100 = 0
    BY <1>1, <1>3
<1>5. CASE q.old = NoOld
    <2>1. 0 < q.amount /\ q.amount <= 100 * quoted
        BY <1>5 DEF RequestInv, RenewalInv
    <2>2. amount = q.amount
        BY <1>1, <2>1
    <2>3. Sent(amount, g) \in Int /\ Sent(amount, g) <= amount
        BY <1>1, <2>2, SentAmount
    <2> QED
        BY <1>1, <1>5, <2>1, <2>2, <2>3
<1>6. CASE q.old # NoOld
    <2>1. q.amount = 100 * quoted
        BY <1>6 DEF RequestInv, UpgradeInv
    <2>2. CASE quoted = 0
        <3>1. amount = 100 * price
            BY <1>1, <1>2, <2>1, <2>2
        <3>2. Sent(amount, g) = 100 * price
            BY <1>3, <1>4, <3>1, SentAmount
        <3> QED
            BY <1>2, <1>6, <2>2, <3>2
    <2>3. CASE quoted # 0
        <3>1. amount = 100 * quoted
            BY <1>1, <2>1, <2>3
        <3>2. Sent(amount, g) = 100 * quoted
            BY <1>1, <1>4, <3>1, SentAmount
        <3> QED
            BY <1>1, <1>6, <2>3, <3>2
    <2> QED
        BY <2>2, <2>3
<1> QED
    BY <1>5, <1>6

LEMMA PayDone ==
    ASSUME TypeOK, AmountsInv, NEW r \in PayRequests, Pay(r),
           NEW n, Turns(r, n), n \in PayProgress, n.at = "done", AsQuoted(n),
           n.charged # Unsold => n.new \in DOMAIN link,
           KeptBy(r), PaidInFull',
           DOMAIN backing' = DOMAIN link, \A l \in DOMAIN link : backing'[l] \in Nat,
           fair' \subseteq DOMAIN link
    PROVE  TypeOK' /\ AmountsInv'
<1>1. UNCHANGED <<priced, edits, today, link, terms>>
      /\ replaced' = replaced \cup ({payRequest[r].old} \ {NoOld})
    BY DEF Pay
<1>2. TablesOK'
    <2>1. replaced' \subseteq DOMAIN link
        BY <1>1, ProgressFields DEF TypeOK, TablesOK
    <2> QED
        BY <1>1, <2>1 DEF TypeOK, TablesOK, PriceListOK
<1>3. LinksInv'
    BY <1>1 DEF AmountsInv, LinksInv
<1>4. n \in PayProgress'
    BY <1>1 DEF PayProgress
<1>5. RequestInv(n)' /\ ~Paying(n)
    BY <1>1 DEF RequestInv, Reading, Paying, AsQuoted
<1> QED
    BY <1>2, <1>3, <1>4, <1>5, StepOnTables

LEMMA PayStepKeeps ==
    ASSUME TypeOK, AmountsInv, NEW r \in PayRequests, Pay(r)
    PROVE  TypeOK' /\ AmountsInv'
<1>1. PICK q : q = payRequest[r]
    OBVIOUS
<1>2. q \in PayProgress /\ RequestInv(q) /\ q.at = "gateway"
    BY <1>1, ProgressFields DEF AmountsInv, Pay, PayAt
<1>3. q.new \in DOMAIN link \ fair /\ Paying(q)
    BY <1>2 DEF RequestInv, Paying, PayingInv
<1>4. UNCHANGED <<priced, edits, today, link, terms>> /\ replaced \subseteq replaced'
    BY DEF Pay
<1>5. Finished \in PayProgress /\ Finished.at = "done" /\ Finished.charged = Unsold
    BY FinishedIsProgress DEF TypeOK, Finished, NotAsked
<1>6. PICK amount : amount = IF q.amount = 0 THEN 100 * priced[q.sub].price ELSE q.amount
    OBVIOUS
<1>7. PICK carried :
          carried = IF q.old # NoOld /\ q.old \notin replaced THEN backing[q.old] ELSE 0
    OBVIOUS
<1>8. carried \in Nat /\ amount \in Int
    <2>1. priced[q.sub].price \in Nat
        BY <1>2, OfferTypes DEF RequestInv, Paying, PayingInv, TypeOK, TablesOK, PriceListOK
    <2> QED
        BY <1>2, <1>6, <1>7, <2>1 DEF TypeOK, TablesOK, PayProgress
\* Nothing is charged and no quote is left, or the request ends.
<1>9. ASSUME Turns(r, Finished), UNCHANGED <<backing, fair>>
      PROVE  TypeOK' /\ AmountsInv'
    <2>1. KeptBy(r)
        BY <1>4, <1>9 DEF KeptBy
    <2>2. /\ PaidInFull' /\ fair' \subseteq DOMAIN link
          /\ DOMAIN backing' = DOMAIN link /\ \A l \in DOMAIN link : backing'[l] \in Nat
        BY <1>4, <1>9 DEF AmountsInv, PaidInFull, TypeOK, TablesOK
    <2>3. AsQuoted(Finished)
        BY <1>5 DEF AsQuoted
    <2> QED
        BY <1>5, <1>9, <2>1, <2>2, <2>3, PayDone
<1>10. ASSUME amount = 0
       PROVE  q.quote = {}
    <2>1. ASSUME q.quote # {}
          PROVE  FALSE
        <3>1. terms[q.new] = priced[q.sub] /\ terms[q.new] \in Offers
            BY <1>2, <1>3, <2>1 DEF RequestInv, PayingInv, TypeOK, TablesOK
        <3>2. priced[q.sub].price \in Nat \ {0}
            BY <3>1, OfferTypes
        <3> QED
            BY <1>6, <1>10, <3>2
    <2> QED
        BY <2>1
<1>11. ASSUME NEW g \in Gateways, Sent(amount, g) > 0,
              Turns(r, IF q.quote = {} THEN Finished
                       ELSE [Finished EXCEPT !.old = q.old, !.new = q.new,
                                   !.quote = q.quote, !.charged = Sent(amount, g)]),
              backing' = [backing EXCEPT ![q.new] = Sent(amount, g) + carried],
              fair' = IF q.due /\ q.old \notin replaced THEN fair \cup {q.new} ELSE fair
       PROVE  TypeOK' /\ AmountsInv'
    <2>1. PICK sent \in Nat : sent = Sent(amount, g) /\ sent > 0
        BY <1>8, <1>11, SentAmount
    <2>2. /\ DOMAIN backing' = DOMAIN link /\ \A l \in DOMAIN link : backing'[l] \in Nat
          /\ fair' \subseteq DOMAIN link
        <3>1. /\ DOMAIN backing = DOMAIN link /\ \A l \in DOMAIN link : backing[l] \in Nat
              /\ fair \subseteq DOMAIN link
            BY DEF TypeOK, TablesOK
        <3>2. sent + carried \in Nat
            BY <1>8, <2>1
        <3> QED
            BY <1>3, <1>11, <2>1, <3>1, <3>2
    <2>3. /\ \A l \in fair : backing'[l] = backing[l]
          /\ backing'[q.new] = sent + carried
        BY <1>3, <1>11, <2>1 DEF TypeOK, TablesOK
    <2>4. KeptBy(r)
        BY <1>1, <1>3, <1>4, <1>11, <2>3 DEF KeptBy
    <2>5. PaidInFull'
        <3>1. ASSUME NEW l \in fair
              PROVE  backing'[l] >= 100 * terms'[l].price
            BY <1>4, <2>3 DEF AmountsInv, PaidInFull
        <3>2. ASSUME q.due, q.old \notin replaced
              PROVE  backing'[q.new] >= 100 * terms'[q.new].price
            BY <1>2, <1>4, <1>6, <1>7, <1>11, <2>1, <2>3, <3>2, ChargeIsWhole
        <3> QED
            BY <1>11, <3>1, <3>2 DEF PaidInFull
    <2>6. CASE q.quote = {}
        <3>1. Turns(r, Finished) /\ AsQuoted(Finished)
            BY <1>5, <1>11, <2>6 DEF AsQuoted
        <3> QED
            BY <1>5, <2>2, <2>4, <2>5, <3>1, PayDone
    <2>7. CASE q.quote # {}
        <3>1. PICK n : n = [Finished EXCEPT !.old = q.old, !.new = q.new,
                                   !.quote = q.quote, !.charged = sent]
            OBVIOUS
        <3>2. /\ n \in PayProgress /\ n.at = "done" /\ n.new = q.new /\ n.old = q.old
              /\ n.quote = q.quote /\ n.charged = sent
            BY <1>2, <1>5, <3>1 DEF PayProgress
        <3>3. AsQuoted(n)
            <4>1. ASSUME NEW quoted \in n.quote
                  PROVE  IF n.old = NoOld THEN n.charged <= 100 * quoted
                         ELSE /\ quoted >= 0
                              /\ n.charged = 100 * (IF quoted = 0 THEN terms[n.new].price
                                                    ELSE quoted)
                BY <1>2, <1>6, <1>11, <2>1, <3>2, <4>1, ChargeIsQuoted
            <4> QED
                BY <2>1, <3>2, <4>1 DEF AsQuoted
        <3>4. Turns(r, n)
            BY <1>11, <2>1, <2>7, <3>1
        <3> QED
            BY <1>3, <2>2, <2>4, <2>5, <3>2, <3>3, <3>4, PayDone
    <2> QED
        BY <2>6, <2>7
<1>12. CASE amount = 0 /\ UNCHANGED <<backing, fair>>
              /\ Turns(r, IF q.quote = {} THEN Finished
                          ELSE [Finished EXCEPT !.old = q.old, !.new = q.new,
                                      !.quote = q.quote, !.charged = 0])
    <2>1. Turns(r, Finished)
        BY <1>10, <1>12
    <2> QED
        BY <1>9, <1>12, <2>1
<1>13. CASE Turns(r, Finished) /\ UNCHANGED <<backing, fair>>
    BY <1>9, <1>13
<1>14. \/ \E g \in Gateways :
             /\ Sent(amount, g) > 0
             /\ Turns(r, IF q.quote = {} THEN Finished
                         ELSE [Finished EXCEPT !.old = q.old, !.new = q.new,
                                     !.quote = q.quote, !.charged = Sent(amount, g)])
             /\ backing' = [backing EXCEPT ![q.new] = Sent(amount, g) + carried]
             /\ fair' = IF q.due /\ q.old \notin replaced THEN fair \cup {q.new} ELSE fair
       \/ /\ amount = 0 /\ UNCHANGED <<backing, fair>>
          /\ Turns(r, IF q.quote = {} THEN Finished
                      ELSE [Finished EXCEPT !.old = q.old, !.new = q.new,
                                  !.quote = q.quote, !.charged = 0])
       \/ Turns(r, Finished) /\ UNCHANGED <<backing, fair>>
    <2> DEFINE Q == payRequest[r]
               Amount == IF Q.amount = 0 THEN 100 * priced[Q.sub].price ELSE Q.amount
               Carried == IF Q.old # NoOld /\ Q.old \notin replaced
                          THEN backing[Q.old] ELSE 0
               Charge(cents) ==
                   Turns(r, IF Q.quote = {} THEN Finished
                            ELSE [Finished EXCEPT !.old = Q.old, !.new = Q.new,
                                        !.quote = Q.quote, !.charged = cents])
    <2>1. \/ \E g \in Gateways :
                /\ Sent(Amount, g) > 0 /\ Charge(Sent(Amount, g))
                /\ backing' = [backing EXCEPT ![Q.new] = Sent(Amount, g) + Carried]
                /\ fair' = IF Q.due /\ Q.old \notin replaced THEN fair \cup {Q.new} ELSE fair
          \/ Amount = 0 /\ Charge(0) /\ UNCHANGED <<backing, fair>>
          \/ Turns(r, Finished) /\ UNCHANGED <<backing, fair>>
        BY DEF Pay
    <2>2. q = Q /\ amount = Amount /\ carried = Carried
        BY <1>1, <1>6, <1>7
    <2>3. \A cents : Charge(cents) =>
              Turns(r, IF q.quote = {} THEN Finished
                       ELSE [Finished EXCEPT !.old = q.old, !.new = q.new,
                                   !.quote = q.quote, !.charged = cents])
        BY <1>1
    <2> HIDE DEF Q, Amount, Carried, Charge
    <2> QED
        BY <2>1, <2>2, <2>3
<1> QED
    BY <1>11, <1>12, <1>13, <1>14

(***************************************************************************)
(* Days and edits                                                          *)
(***************************************************************************)

LEMMA TickStep ==
    ASSUME TypeOK, AmountsInv, Tick
    PROVE  TypeOK' /\ AmountsInv'
<1>1. /\ UNCHANGED <<priced, edits, link, terms, backing, fair, replaced>>
      /\ today < MaxDay /\ today' = today + 1
    BY DEF Tick
<1>2. today \in Nat /\ TablesOK'
    BY <1>1, AmountsAssumption DEF TypeOK, TablesOK, PriceListOK
<1>3. PayProgress' = PayProgress
    BY <1>1 DEF PayProgress
<1>4. ASSUME NEW r \in PayRequests
      PROVE  /\ payRequest'[r] \in PayProgress
             /\ payRequest'[r].at = payRequest[r].at
             /\ payRequest'[r].new = payRequest[r].new
             /\ RequestInv(payRequest[r])'
    <2>1. PICK q : q = payRequest[r]
        OBVIOUS
    <2>2. q \in PayProgress /\ RequestInv(q)
        BY <2>1, ProgressFields DEF AmountsInv
    <2>3. PICK n : n = payRequest'[r]
        OBVIOUS
    <2>4. CASE Underway(r)
        <3>1. /\ n \in PayProgress /\ n.quote = {} /\ n.due = q.due
              /\ n.at = q.at /\ n.sub = q.sub /\ n.row = q.row /\ n.ends = q.ends
              /\ n.old = q.old /\ n.new = q.new /\ n.shown = q.shown
              /\ n.amount = q.amount /\ n.charged = q.charged
            <4>1. n = [q EXCEPT !.quote = {}]
                BY <2>1, <2>3, <2>4 DEF Tick
            <4> QED
                BY <2>2, <4>1 DEF PayProgress
        <3>2. Reading(q) => ReadingInv(n)'
            <4>1. Reading(q) => q.row.period \in Nat /\ q.ends \in Nat
                BY <2>2, OfferTypes DEF RequestInv, ReadingInv, PayProgress
            <4> QED
                BY <1>1, <1>2, <2>2, <3>1, <4>1 DEF RequestInv, ReadingInv
        <3>3. Paying(q) => PayingInv(n)'
            BY <1>1, <2>2, <3>1 DEF RequestInv, PayingInv
        <3>4. QuoteInv(n)' /\ AsQuoted(n)'
            BY <3>1 DEF QuoteInv, AsQuoted
        <3>5. \A price : UpgradeInv(q, price) => UpgradeInv(n, price)'
            BY <1>1, <3>1 DEF UpgradeInv
        <3>6. RenewalInv(q) => RenewalInv(n)'
            BY <1>1, <3>1 DEF RenewalInv
        <3>7. RequestInv(n)'
            <4>1. n.at = "create" /\ n.old # NoOld => UpgradeInv(n, n.row.price)'
                BY <2>2, <3>1, <3>5 DEF RequestInv
            <4>2. n.at = "gateway" /\ n.old # NoOld => UpgradeInv(n, terms[n.new].price)'
                <5>1. PICK price : price = terms[q.new].price
                    OBVIOUS
                <5>2. terms'[n.new].price = price
                    BY <1>1, <3>1, <5>1
                <5>3. n.at = "gateway" /\ n.old # NoOld => UpgradeInv(n, price)'
                    BY <2>2, <3>1, <3>5, <5>1 DEF RequestInv
                <5> QED
                    BY <5>2, <5>3 DEF UpgradeInv
            <4>3. n.charged # Unsold => n.new \in DOMAIN link'
                BY <1>1, <2>2, <3>1 DEF RequestInv
            <4> QED
                BY <2>2, <3>1, <3>2, <3>3, <3>4, <3>6, <4>1, <4>2, <4>3
                   DEF RequestInv, Reading, Paying
        <3> QED
            BY <2>1, <2>3, <3>1, <3>7
    <2>5. CASE ~Underway(r)
        <3>1. n = q
            BY <2>1, <2>3, <2>5 DEF Tick
        <3>2. q.at \in {"unsent", "done"}
            BY <2>1, <2>5 DEF Underway, PayAt
        <3>3. RequestInv(n)'
            BY <1>1, <2>2, <3>1, <3>2 DEF RequestInv, Reading, Paying, AsQuoted
        <3> QED
            BY <2>1, <2>2, <2>3, <3>1, <3>3
    <2> QED
        BY <2>4, <2>5
<1>5. TypeOK'
    <2>1. payRequest' \in [PayRequests -> PayProgress']
        BY <1>3, <1>4 DEF Tick
    <2> QED
        BY <1>2, <2>1 DEF TypeOK
<1>6. LinksInv'
    <2>1. ASSUME NEW l \in DOMAIN link
          PROVE  link[l].active_to_date <= today + 1 + terms[l].period
        <3>1. terms[l] \in Offers /\ link[l].active_to_date \in Nat
            BY DEF TypeOK, TablesOK
        <3>2. terms[l].period \in Nat
            BY <3>1, OfferTypes
        <3> QED
            BY <1>2, <3>1, <3>2 DEF AmountsInv, LinksInv
    <2> QED
        BY <1>1, <2>1 DEF AmountsInv, LinksInv
<1>7. PaidInFull'
    BY <1>1 DEF AmountsInv, PaidInFull
<1> QED
    BY <1>4, <1>5, <1>6, <1>7 DEF AmountsInv, Paying

LEMMA RepriceKeeps ==
    ASSUME PriceListOK, Reprice
    PROVE  PriceListOK' /\ DOMAIN priced \subseteq DOMAIN priced'
<1>1. PICK s \in Sub : Withdraw(s) \/ \E o \in Offers : Offer(s, o)
    BY DEF Reprice
<1>2. CASE Withdraw(s)
    BY <1>2 DEF PriceListOK, Withdraw
<1>3. ASSUME NEW o \in Offers, Offer(s, o)
      PROVE  PriceListOK' /\ DOMAIN priced \subseteq DOMAIN priced'
    BY <1>3 DEF PriceListOK, Offer
<1> QED
    BY <1>1, <1>2, <1>3

LEMMA EditStep ==
    ASSUME TypeOK, AmountsInv, Edit
    PROVE  TypeOK' /\ AmountsInv'
<1>1. UNCHANGED <<today, link, terms, backing, fair, replaced>>
    BY DEF Edit
<1>2. PriceListOK' /\ DOMAIN priced \subseteq DOMAIN priced'
    BY RepriceKeeps DEF Edit, TypeOK, TablesOK
<1>3. TablesOK'
    <2>1. edits' \in 0 .. MaxEdits
        <3>1. edits \in 0 .. MaxEdits /\ edits < MaxEdits /\ edits' = edits + 1
            BY DEF Edit, TypeOK, TablesOK
        <3> QED
            BY <3>1, AmountsAssumption
    <2> QED
        BY <1>1, <1>2, <2>1 DEF TypeOK, TablesOK
<1>4. PayProgress' = PayProgress
    BY <1>1 DEF PayProgress
<1>5. ASSUME NEW r \in PayRequests
      PROVE  /\ payRequest'[r] \in PayProgress
             /\ payRequest'[r].at = payRequest[r].at
             /\ payRequest'[r].new = payRequest[r].new
             /\ RequestInv(payRequest[r])'
    <2>1. PICK q : q = payRequest[r]
        OBVIOUS
    <2>2. q \in PayProgress /\ RequestInv(q)
        BY <2>1, ProgressFields DEF AmountsInv
    <2>3. PICK n : n = payRequest'[r]
        OBVIOUS
    <2>4. CASE Underway(r)
        <3>1. /\ n \in PayProgress /\ n.quote = {} /\ ~n.due
              /\ n.at = q.at /\ n.sub = q.sub /\ n.row = q.row /\ n.ends = q.ends
              /\ n.old = q.old /\ n.new = q.new /\ n.shown = q.shown
              /\ n.amount = q.amount /\ n.charged = q.charged
            <4>1. n = [q EXCEPT !.quote = {}, !.due = FALSE]
                BY <2>1, <2>3, <2>4 DEF Edit
            <4> QED
                BY <2>2, <4>1 DEF PayProgress
        <3>2. Reading(q) => ReadingInv(n)'
            BY <1>1, <1>2, <2>2, <3>1 DEF RequestInv, ReadingInv
        <3>3. Paying(q) => PayingInv(n)'
            BY <1>1, <1>2, <2>2, <3>1 DEF RequestInv, PayingInv
        <3>4. QuoteInv(n)' /\ AsQuoted(n)' /\ RenewalInv(n)' /\ \A price : UpgradeInv(n, price)'
            BY <3>1 DEF QuoteInv, AsQuoted, RenewalInv, UpgradeInv
        <3>5. UpgradeInv(n, n.row.price)' /\ UpgradeInv(n, terms[n.new].price)'
            BY <3>1 DEF UpgradeInv
        <3>6. RequestInv(n)'
            BY <1>1, <2>2, <3>1, <3>2, <3>3, <3>4, <3>5 DEF RequestInv, Reading, Paying
        <3> QED
            BY <2>1, <2>3, <3>1, <3>6
    <2>5. CASE ~Underway(r)
        <3>1. n = q
            BY <2>1, <2>3, <2>5 DEF Edit
        <3>2. q.at \in {"unsent", "done"}
            BY <2>1, <2>5 DEF Underway, PayAt
        <3>3. RequestInv(n)'
            BY <1>1, <2>2, <3>1, <3>2 DEF RequestInv, Reading, Paying, AsQuoted
        <3> QED
            BY <2>1, <2>2, <2>3, <3>1, <3>3
    <2> QED
        BY <2>4, <2>5
<1>6. TypeOK'
    <2>1. payRequest' \in [PayRequests -> PayProgress']
        BY <1>4, <1>5 DEF Edit
    <2> QED
        BY <1>3, <2>1 DEF TypeOK
<1>7. LinksInv' /\ PaidInFull'
    BY <1>1, <1>2 DEF AmountsInv, LinksInv, PaidInFull
<1> QED
    BY <1>5, <1>6, <1>7 DEF AmountsInv, Paying

(***************************************************************************)
(* The invariant and what follows from it                                  *)
(***************************************************************************)

LEMMA AmountsStart ==
    ASSUME Init
    PROVE  TypeOK /\ AmountsInv
<1>1. PICK s \in StartSubs :
          /\ link = [l \in {1} |-> [subscription |-> s, active_to_date |-> priced[s].period]]
          /\ terms = [l \in {1} |-> priced[s]]
          /\ backing = [l \in {1} |-> 100 * priced[s].price]
    BY DEF Init, InitAmounts
<1>2. /\ priced \in [StartSubs -> Offers] /\ today = 0 /\ edits = 0
      /\ payRequest = [r \in PayRequests |-> NotAsked] /\ fair = {1} /\ replaced = {}
    BY DEF Init, InitAmounts, InitPriceList
<1>3. /\ priced[s] \in Offers /\ priced[s].price \in Nat /\ priced[s].period \in Nat
      /\ s \in Sub
    BY <1>2, OfferTypes, PriceListAssumption
<1>4. TablesOK
    <2>1. PriceListOK
        BY <1>2, PriceListAssumption DEF PriceListOK
    <2> QED
        BY <1>1, <1>2, <1>3, <2>1, AmountsAssumption DEF TablesOK
<1>5. TypeOK
    BY <1>2, <1>4, FinishedIsProgress DEF TypeOK
<1>6. LinksInv
    <2>1. DOMAIN link = {1} /\ IsFiniteSet({1}) /\ Cardinality({1}) = 1
        BY <1>1, FS_Singleton
    <2>2. {1} = 1 .. 1
        OBVIOUS
    <2> QED
        BY <1>1, <1>2, <1>3, <2>1, <2>2 DEF LinksInv
<1>7. PaidInFull
    BY <1>1, <1>2, <1>3 DEF PaidInFull
<1>8. RequestInv(NotAsked) /\ ~Paying(NotAsked)
    BY DEF NotAsked, RequestInv, Reading, Paying, AsQuoted
<1> QED
    BY <1>2, <1>5, <1>6, <1>7, <1>8 DEF AmountsInv

\* Nobody's credit is more than the price of the link, which was paid for.
LEMMA InvGivesCredit ==
    ASSUME TypeOK, AmountsInv
    PROVE  CreditIsBacked
<1> SUFFICES ASSUME NEW l \in fair \ replaced, OldRow(l) = terms[l],
                    today <= link[l].active_to_date
             PROVE  100 * RemainingAmount(l) <= backing[l]
    BY DEF CreditIsBacked
<1>1. /\ l \in DOMAIN link /\ terms[l] \in Offers /\ backing[l] \in Nat
      /\ link[l].active_to_date \in Nat /\ today \in Nat
    BY AmountsAssumption DEF TypeOK, TablesOK
<1>2. PICK p \in Nat, n \in Nat \ {0} : p = terms[l].price /\ n = terms[l].period
    BY <1>1, OfferTypes
<1>3. PICK d : d = RemainingDays(l)
    OBVIOUS
<1>4. d \in Nat /\ d <= n
    <2>1. link[l].active_to_date <= today + n
        BY <1>1, <1>2 DEF AmountsInv, LinksInv
    <2> QED
        BY <1>1, <1>2, <1>3, <2>1 DEF RemainingDays, Distance
<1>5. RemainingAmount(l) = (p * d) \div n
    BY <1>2, <1>3 DEF RemainingAmount
<1>6. RemainingAmount(l) <= p /\ RemainingAmount(l) \in Nat
    <2>1. (p * d) \div n <= p
        BY <1>4, PartOfPrice
    <2>2. p * d \in Nat
        BY <1>4, ProductOf
    <2>3. (p * d) \div n \in Nat
        BY <2>2, QuotientIsNatural
    <2> QED
        BY <1>5, <2>1, <2>3
<1>7. backing[l] >= 100 * p
    BY <1>2 DEF AmountsInv, PaidInFull
<1> QED
    BY <1>1, <1>2, <1>6, <1>7

LEMMA AmountsNext ==
    ASSUME TypeOK, AmountsInv, [Next]_vars
    PROVE  TypeOK' /\ AmountsInv'
<1>1. CASE UNCHANGED vars
    <2>1. TypeOK'
        BY <1>1 DEF vars, TypeOK, TablesOK, PriceListOK, PayProgress
    <2>2. LinksInv' /\ PaidInFull'
        BY <1>1 DEF vars, AmountsInv, LinksInv, PaidInFull
    <2>3. ASSUME NEW p, RequestInv(p)
          PROVE  RequestInv(p)'
        <3>1. UNCHANGED tables
            BY <1>1 DEF vars, tables
        <3> QED
            BY <2>3, <3>1, SameTables
    <2>4. ASSUME NEW r \in PayRequests
          PROVE  RequestInv(payRequest[r])'
        <3>1. PICK p : p = payRequest[r]
            OBVIOUS
        <3>2. RequestInv(p)'
            BY <2>3, <3>1 DEF AmountsInv
        <3>3. payRequest'[r] = p
            BY <1>1, <3>1 DEF vars
        <3> QED
            BY <3>2, <3>3
    <2> QED
        BY <1>1, <2>1, <2>2, <2>4 DEF vars, AmountsInv, Paying
<1>2. CASE Tick
    BY <1>2, TickStep
<1>3. CASE Edit
    BY <1>3, EditStep
<1>4. ASSUME NEW r \in PayRequests, PayStep(r)
      PROVE  TypeOK' /\ AmountsInv'
    BY <1>4, InvGivesCredit, UpgradeStep, RenewStep, SendPageStep, ReadCreditStep,
       CreateLinkStep, DiscountStep, PayStepKeeps DEF PayStep
<1> QED
    BY <1>1, <1>2, <1>3, <1>4 DEF Next

\* The invariant of the amounts holds, whatever is edited and however many
\* pages are open.
THEOREM AmountsInvHolds == Spec => [](TypeOK /\ AmountsInv)
<1>1. Init => TypeOK /\ AmountsInv
    BY AmountsStart
<1>2. TypeOK /\ AmountsInv /\ [Next]_vars => (TypeOK /\ AmountsInv)'
    BY AmountsNext
<1> QED
    BY <1>1, <1>2, PTL DEF Spec

\* Every variable keeps its type.
THEOREM AmountsTypeCorrect == Spec => []TypeOK
    BY AmountsInvHolds, PTL

\* What calculate_reminder credits for a link that was paid for as agreed was
\* paid: a chain of upgrades, however long, never earns more than was put in.
THEOREM CreditsArePaid == Spec => []CreditIsBacked
<1>1. TypeOK /\ AmountsInv => CreditIsBacked
    BY InvGivesCredit
<1> QED
    BY <1>1, AmountsInvHolds, PTL

\* What upgrade_save and renew_save charge is what upgrade and renew quoted.
THEOREM QuotesAreKept == Spec => []ChargedAsQuoted
<1>1. AmountsInv => ChargedAsQuoted
    BY DEF AmountsInv, RequestInv, ChargedAsQuoted
<1> QED
    BY <1>1, AmountsInvHolds, PTL

=============================================================================
