------------------------------- MODULE Signup -------------------------------
(***************************************************************************)
(* Registrations and first payments over the same tables.                  *)
(***************************************************************************)
EXTENDS Registration, GatewayPayment

vars == <<user, link, token, redeemedBy, customer, vault, invoice, charge,
          deaths, form, contested, abandoned, payment, refused, cutShort>>

Init == InitTables /\ InitForms /\ InitPayments

Next ==
    \/ \E f \in Forms : FormStep(f) /\ UNCHANGED <<vault, charge, deaths, payVars>>
    \/ \E f \in Forms : FormDie(f) /\ UNCHANGED <<vault, charge, payVars>>
    \/ \E p \in Payers : PayStep(p) /\ UNCHANGED <<deaths, formVars>>
    \/ \E p \in Payers : PayDie(p) /\ UNCHANGED formVars

Spec == Init /\ [][Next]_vars

TypeOK == TablesOK /\ FormsOK /\ PaymentsOK

\* A link is switched on only by a payment: its user was charged, or holds the
\* invoice of a free subscription (_charge_card, whatever order the statements
\* of two payment forms for one token come in).
ActiveIsPaid ==
    \A u \in DOMAIN link : link[u].active =>
        \/ \E t \in DOMAIN charge : charge[t].user = u
        \/ FreeInvoice \in DOMAIN invoice /\ invoice[FreeInvoice].user = u

\* Who was charged gets the link: it is on, or the payment is still being
\* settled, or the process that charged died before it could switch it on.
PaidIsOn ==
    \A t \in DOMAIN charge :
        \/ link[charge[t].user].active
        \/ t \in cutShort
        \/ \E p \in Payers : payment[p].transaction = t

\* An invoice is of a transaction that took place, for the user who paid.  It
\* shows what was taken to the nearest unit, as its column has no cents; that
\* of Stripe shows the price, whatever was taken.
InvoiceIsCharge ==
    \A t \in DOMAIN invoice \ {FreeInvoice} :
        /\ t \in DOMAIN charge
        /\ invoice[t].user = charge[t].user
        /\ IF charge[t].gateway = "stripe"
           THEN invoice[t].charge = FullPrice(charge[t].user)
           ELSE Cents(invoice[t].charge) - charge[t].amount \in -50..50

\* What user u may be asked: the full price, or the price with a code u still
\* holds, two forms carried at once, or that reads like another.
Askable(u) ==
    {Cents(FullPrice(u))} \cup
    {Amount[k][link[u].subscription] :
        k \in {c \in Code : \/ redeemedBy[c] = u
                            \/ c \in contested
                            \/ CodesReading(CodeText[c]) # {c}}}

\* A charge below the full price belongs to a user who still holds a code for
\* that amount, so that a code gives a discount to one user only: unless two
\* forms carried the code at once, between its validation and its redemption,
\* or two codes read the same.
DiscountIsHeld ==
    \A t \in DOMAIN charge :
        \E a \in Askable(charge[t].user) : charge[t].amount = Sent(charge[t].gateway, a)

\* Nobody who has something to pay is left half registered: such a user can
\* still pay (has the token), was served, was refused by a gateway, or the
\* process registering them is at it or died.  A free subscriber may be left
\* with neither token nor link: all free invoices have one id, and when theirs
\* cannot be saved the helper returns before it switches the link on.
NobodyIsStranded ==
    \A u \in DOMAIN user :
        \/ u \in token
        \/ u \in DOMAIN link /\ (link[u].active \/ FullPrice(u) = 0)
        \/ u \in refused
        \/ \E f \in Forms : form[f].user = u
        \/ u \in abandoned

(***************************************************************************)
(* The invariant behind the safety properties                              *)
(***************************************************************************)

\* A form in progress has what it was submitted with; it has a user once that
\* is created, and the user a link once that is.
FormInv(f) ==
    LET s == form[f] IN
    /\ s.pc \notin {"idle", "done"} => s.email \in Email /\ s.subscription \in Sub
    /\ s.pc \in {"idle", "create", "done"} <=> s.user = NoUser
    /\ s.pc = "link" => s.user \notin DOMAIN link
    /\ s.pc \in {"code", "token"} => s.user \in DOMAIN link
    /\ s.pc = "code" => s.text # None

\* No two forms work on one user, and the code a form carries, if it is the
\* only one that reads so, is free until the form redeems it; two forms that
\* carry it contest it.
FormsInv ==
    /\ \A f \in Forms : FormInv(f)
    /\ \A f, g \in Forms : f # g =>
          /\ form[f].user = form[g].user => form[f].user = NoUser
          /\ form[f].text = form[g].text /\ form[f].text # None =>
                CodesReading(form[f].text) \subseteq contested
    /\ \A f \in Forms, k \in Code :
          /\ form[f].pc \in {"create", "link", "code"} /\ form[f].text # None
          /\ CodesReading(form[f].text) = {k}
          => redeemedBy[k] = NoUser \/ k \in contested

\* A payment is for a link that is there; it remembers its own charge until
\* the link is on.  It is free only if the subscription is, and when it is
\* answered the link is on, a gateway refused it, or it was free.
PaymentInv(p) ==
    LET s == payment[p] IN
    /\ s.pc \notin {"idle", "done"} => s.user \in DOMAIN link
    /\ s.pc \notin {"idle", "amount", "done"} =>
          /\ s.gateway \in Gateway /\ s.amount \in Askable(s.user)
          /\ s.amount = 0 => FullPrice(s.user) = 0
    /\ s.pc \in {"invoice", "activate"} => s.transaction # NoSale
    /\ s.transaction # NoSale =>
          /\ s.pc \in {"invoice", "activate", "answered"}
          /\ s.transaction \in DOMAIN charge
          /\ charge[s.transaction] =
                [user |-> s.user, gateway |-> s.gateway,
                 amount |-> Sent(s.gateway, s.amount)]
          /\ s.pc = "answered" => link[s.user].active
    /\ s.pc = "freeOn" =>
          FreeInvoice \in DOMAIN invoice /\ invoice[FreeInvoice].user = s.user
    /\ s.pc = "free" => s.amount = 0
    /\ s.pc = "answered" =>
          link[s.user].active \/ s.user \in refused \/ FullPrice(s.user) = 0

SignupInv ==
    /\ FormsInv
    /\ \A p \in Payers : PaymentInv(p)
    /\ \A t \in DOMAIN charge : charge[t].user \in DOMAIN link

\* "Details have already been submitted": a token pays once.
ChargedOnce ==
    \A s, t \in DOMAIN charge : charge[s].user = charge[t].user => s = t

=============================================================================
