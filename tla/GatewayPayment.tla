--------------------------- MODULE GatewayPayment ---------------------------
(***************************************************************************)
(* The payment form (complete_registration, and payment of the API) and    *)
(* the add_user_and_pay of the three gateway helpers: find the token, find *)
(* or create the gateway's customer, charge the card, save the invoice,    *)
(* switch the link on, delete the token.  Each database statement and each *)
(* call of the gateway is a step.                                          *)
(***************************************************************************)
EXTENDS SignupTables

CONSTANT Payers   \* payment forms that are submitted

VARIABLES
    payment,   \* the process handling each of them
    refused,   \* history: users whose card or payment a gateway refused
    cutShort   \* history: transactions whose process died

payVars == <<payment, refused, cutShort>>

PayPC == {"idle", "amount", "customer", "vault", "row", "free", "freeOn",
          "sale", "invoice", "activate", "answered", "done"}

NoSale == 0

PayState == [pc : PayPC, user : DOMAIN user \cup {NoUser}, gateway : Gateway \cup {None},
             amount : Nat, transaction : Nat]

IdlePayment == [pc |-> "idle", user |-> NoUser, gateway |-> None,
                amount |-> 0, transaction |-> NoSale]

InitPayments ==
    /\ payment = [p \in Payers |-> IdlePayment]
    /\ refused = {} /\ cutShort = {}

Go(p, pc) == payment' = [payment EXCEPT ![p].pc = pc]

EndPayment(p) ==
    payment' = [payment EXCEPT ![p] = [IdlePayment EXCEPT !.pc = "done"]]

\* The gateways that refuse a second customer with the same merchant id.
KnowsMerchantId == {"braintree", "authorize"}

\* Where the charge begins: a free subscription is not sold but noted.
Till(p) == IF payment[p].amount = 0 THEN "free" ELSE "sale"

PaySubmit_TokenFirst(p, u) ==   \* fault: the token goes before the payment
    /\ payment[p].pc = "idle"
    /\ u \in token
    /\ payment' = [payment EXCEPT ![p] = [IdlePayment EXCEPT !.pc = "amount", !.user = u]]
    /\ token' = token \ {u}
    /\ UNCHANGED <<user, link, redeemedBy, customer, invoice, vault, charge, refused, cutShort>>

\* The form names a token that is there; otherwise it was "already submitted".
PaySubmit(p, u) ==
    /\ payment[p].pc = "idle"
    /\ u \in token
    /\ payment' = [payment EXCEPT ![p] = [IdlePayment EXCEPT !.pc = "amount", !.user = u]]
    /\ UNCHANGED <<tables, vault, charge, refused, cutShort>>

\* The amount is decided and the default gateway read: any, as the
\* administrator may select another between any two payments.
PayDecide(p) ==
    /\ payment[p].pc = "amount"
    /\ \E a \in AmountsAsked(payment[p].user), g \in Gateway :
          payment' = [payment EXCEPT ![p].pc = "customer", ![p].amount = a,
                                     ![p].gateway = g]
    /\ UNCHANGED <<tables, vault, charge, refused, cutShort>>

PayFindCustomer(p) ==
    /\ payment[p].pc = "customer"
    /\ Go(p, IF payment[p].user \in customer[payment[p].gateway]
             THEN Till(p) ELSE "vault")
    /\ UNCHANGED <<tables, vault, charge, refused, cutShort>>

\* The gateway takes the customer and the card, or refuses.
PayAddCustomer(p) ==
    LET g == payment[p].gateway  u == payment[p].user IN
    /\ payment[p].pc = "vault"
    /\ \/ /\ ~(g \in KnowsMerchantId /\ u \in vault[g])
          /\ vault' = [vault EXCEPT ![g] = @ \cup {u}]
          /\ Go(p, "row")
          /\ UNCHANGED refused
       \/ /\ Go(p, "answered")
          /\ refused' = refused \cup {u}
          /\ UNCHANGED vault
    /\ UNCHANGED <<tables, charge, cutShort>>

\* The customer's row is saved, or the failure is logged and ignored.
PaySaveCustomer(p) ==
    /\ payment[p].pc = "row"
    /\ \/ customer' = [customer EXCEPT ![payment[p].gateway] = @ \cup {payment[p].user}]
       \/ UNCHANGED customer
    /\ Go(p, Till(p))
    /\ UNCHANGED <<user, link, token, redeemedBy, invoice, vault, charge, refused, cutShort>>

\* A free subscription: an invoice of 0; when it cannot be saved the helper
\* returns, and the link stays off.
PayFree(p) ==
    /\ payment[p].pc = "free"
    /\ \/ SaveInvoice(FreeInvoice, payment[p].user, 0) /\ Go(p, "freeOn")
       \/ UNCHANGED invoice /\ Go(p, "answered")
    /\ UNCHANGED <<user, link, token, redeemedBy, customer, vault, charge, refused, cutShort>>

SwitchOn(u) == link' = [link EXCEPT ![u].active = TRUE]

\* Braintree's helper does not return here, and goes on to a sale of 0.
PayFreeActivate(p) ==
    /\ payment[p].pc = "freeOn"
    /\ SwitchOn(payment[p].user)
    /\ Go(p, IF payment[p].gateway = "braintree" THEN "sale" ELSE "answered")
    /\ UNCHANGED <<user, token, redeemedBy, customer, invoice, vault, charge, refused, cutShort>>

\* What a gateway is asked to take: Stripe's helper drops the cents ("%d00").
Sent(g, cents) == IF g = "stripe" THEN Cents(cents \div 100) ELSE cents

PaySale_IgnoreRefusal(p) ==   \* fault: a refused sale is taken for paid
    /\ payment[p].pc = "sale"
    /\ Go(p, "activate")
    /\ UNCHANGED <<tables, vault, charge, refused, cutShort>>

PaySale(p) ==
    LET g == payment[p].gateway  u == payment[p].user IN
    /\ payment[p].pc = "sale"
    /\ \/ /\ charge' = Append(charge, [user |-> u, gateway |-> g,
                                       amount |-> Sent(g, payment[p].amount)])
          /\ payment' = [payment EXCEPT ![p].pc = "invoice",
                                        ![p].transaction = Len(charge) + 1]
          /\ UNCHANGED refused
       \/ /\ Go(p, "answered")
          /\ refused' = refused \cup {u}
          /\ UNCHANGED charge
    /\ UNCHANGED <<tables, vault, cutShort>>

InvoicedAmount_Price(p) == Cents(FullPrice(payment[p].user))   \* fault: always the price

\* Stripe's helper writes the price of the subscription, whatever was charged.
InvoicedAmount(p) ==
    IF payment[p].gateway = "stripe" THEN Cents(FullPrice(payment[p].user))
    ELSE payment[p].amount

PaySaveInvoice_OrReturn(p) ==   \* fault: gives up when it cannot be saved
    /\ payment[p].pc = "invoice"
    /\ Go(p, "answered")
    /\ UNCHANGED <<tables, vault, charge, refused, cutShort>>

\* The invoice is saved, or the failure is logged and ignored.
PaySaveInvoice(p) ==
    /\ payment[p].pc = "invoice"
    /\ \/ SaveInvoice(payment[p].transaction, payment[p].user, InvoicedAmount(p))
       \/ UNCHANGED invoice
    /\ Go(p, "activate")
    /\ UNCHANGED <<user, link, token, redeemedBy, customer, vault, charge, refused, cutShort>>

PayActivate(p) ==
    /\ payment[p].pc = "activate"
    /\ SwitchOn(payment[p].user)
    /\ Go(p, "answered")
    /\ UNCHANGED <<user, token, redeemedBy, customer, invoice, vault, charge, refused, cutShort>>

\* Whatever was answered, the token goes.
PayDeleteToken(p) ==
    /\ payment[p].pc = "answered"
    /\ token' = token \ {payment[p].user}
    /\ EndPayment(p)
    /\ UNCHANGED <<user, link, redeemedBy, customer, invoice, vault, charge, refused, cutShort>>

PayDie(p) ==
    /\ payment[p].pc \notin {"idle", "done"}
    /\ Die
    /\ EndPayment(p)
    /\ cutShort' = cutShort \cup ({payment[p].transaction} \ {NoSale})
    /\ UNCHANGED <<tables, vault, charge, refused>>

PayStep(p) ==
    \/ \E u \in DOMAIN user : PaySubmit(p, u)
    \/ PayDecide(p)
    \/ PayFindCustomer(p)
    \/ PayAddCustomer(p)
    \/ PaySaveCustomer(p)
    \/ PayFree(p)
    \/ PayFreeActivate(p)
    \/ PaySale(p)
    \/ PaySaveInvoice(p)
    \/ PayActivate(p)
    \/ PayDeleteToken(p)

PaymentsOK ==
    /\ payment \in [Payers -> PayState]
    /\ refused \subseteq DOMAIN link
    /\ cutShort \subseteq DOMAIN charge

=============================================================================
