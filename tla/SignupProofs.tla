---------------------------- MODULE SignupProofs ----------------------------
(***************************************************************************)
(* The safety properties of Signup hold for any number of forms, payments, *)
(* addresses, subscriptions and codes: type correctness, what the steps    *)
(* never take back, the invariant SignupInv, and what follows from it.     *)
(***************************************************************************)
EXTENDS Signup, TLAPS

USE DEF NoUser, NoSale, FreeInvoice

(***************************************************************************)
(* Types                                                                   *)
(***************************************************************************)

\* The types that name users grow with the user table.
LEMMA TypesGrow ==
    ASSUME DOMAIN user \subseteq DOMAIN user'
    PROVE  /\ FormState \subseteq FormState' /\ PayState \subseteq PayState'
           /\ Charge \subseteq Charge' /\ Invoice \subseteq Invoice'
    BY DEF FormState, PayState, Charge, Invoice

LEMMA UserIds ==
    ASSUME TypeOK
    PROVE  /\ DOMAIN user = 1..Len(user) /\ Len(user) \in Nat
           /\ NoUser \notin DOMAIN user /\ NoUser \notin DOMAIN link
           /\ DOMAIN link \subseteq DOMAIN user
           /\ DOMAIN charge = 1..Len(charge) /\ Len(charge) \in Nat
           /\ NoSale \notin DOMAIN charge
    BY DEF TypeOK, TablesOK

LEMMA FormMoves ==
    ASSUME TypeOK, NEW f \in Forms, NEW pc \in FormPC, Goto(f, pc), UNCHANGED user
    PROVE  /\ form' \in [Forms -> FormState']
           /\ form'[f] = [form[f] EXCEPT !.pc = pc]
           /\ \A g \in Forms : g # f => form'[g] = form[g]
    BY DEF TypeOK, FormsOK, FormState, Goto

LEMMA FormEnds ==
    ASSUME TypeOK, NEW f \in Forms, EndForm(f), UNCHANGED user
    PROVE  /\ form' \in [Forms -> FormState']
           /\ form'[f].pc = "done" /\ form'[f].user = NoUser /\ form'[f].text = None
           /\ \A g \in Forms : g # f => form'[g] = form[g]
    BY DEF TypeOK, FormsOK, FormState, FormPC, EndForm, IdleForm

LEMMA PaymentMoves ==
    ASSUME TypeOK, NEW p \in Payers, NEW pc \in PayPC, Go(p, pc), UNCHANGED user
    PROVE  /\ payment' \in [Payers -> PayState']
           /\ payment'[p] = [payment[p] EXCEPT !.pc = pc]
           /\ \A q \in Payers : q # p => payment'[q] = payment[q]
    BY DEF TypeOK, PaymentsOK, PayState, Go

LEMMA PaymentEnds ==
    ASSUME TypeOK, NEW p \in Payers, EndPayment(p), UNCHANGED user
    PROVE  /\ payment' \in [Payers -> PayState']
           /\ payment'[p].pc = "done" /\ payment'[p].transaction = NoSale
           /\ \A q \in Payers : q # p => payment'[q] = payment[q]
    BY DEF TypeOK, PaymentsOK, PayState, PayPC, EndPayment, IdlePayment

LEMMA SameTypes ==
    ASSUME UNCHANGED user
    PROVE  FormState' = FormState /\ PayState' = PayState /\ Charge' = Charge /\ Invoice' = Invoice
    BY DEF FormState, PayState, Charge, Invoice

(***************************************************************************)
(* Type correctness of the registration form's steps                       *)
(***************************************************************************)

LEMMA FormSubmitType ==
    ASSUME TypeOK, NEW f \in Forms, NEW e \in Email, NEW s \in Sub, NEW t \in Text \cup {None},
           FormSubmit(f, e, s, t), UNCHANGED <<vault, charge, deaths, payVars>>
    PROVE  TypeOK'
<1> DEFINE new == [pc |-> "create", email |-> e, subscription |-> s, text |-> t, user |-> NoUser]
<1>1. new \in FormState
    BY DEF FormState, FormPC
<1>2. form' = [form EXCEPT ![f] = new] /\ contested' \subseteq Code
      /\ UNCHANGED <<tables, abandoned>>
    BY DEF FormSubmit, TypeOK, FormsOK, CodesReading
<1> HIDE DEF new
<1>3. TablesOK' /\ PaymentsOK'
    BY <1>2, SameTypes DEF TypeOK, TablesOK, PaymentsOK, tables, payVars
<1>4. FormsOK'
    BY <1>1, <1>2, SameTypes DEF TypeOK, FormsOK, tables
<1> QED
    BY <1>3, <1>4 DEF TypeOK

LEMMA FormCreateUserType ==
    ASSUME TypeOK, SignupInv, NEW f \in Forms, FormCreateUser(f),
           UNCHANGED <<vault, charge, deaths, payVars>>
    PROVE  TypeOK'
<1>1. CASE EndForm(f) /\ UNCHANGED user
    <2>1. form' \in [Forms -> FormState']
        BY <1>1, FormEnds
    <2> QED
        BY <1>1, <2>1, SameTypes
           DEF FormCreateUser, TypeOK, TablesOK, FormsOK, PaymentsOK, payVars
<1>2. CASE /\ user' = Append(user, form[f].email)
           /\ form' = [form EXCEPT ![f].pc = "link", ![f].user = Len(user) + 1]
    <2>1. form[f].email \in Email
        BY DEF SignupInv, FormsInv, FormInv, FormCreateUser
    <2>2. user' \in Seq(Email) /\ DOMAIN user' = 1..(Len(user) + 1)
        BY <1>2, <2>1 DEF TypeOK, TablesOK
    <2>3. /\ DOMAIN user \subseteq DOMAIN user'
          /\ FormState \subseteq FormState' /\ PayState \subseteq PayState'
          /\ Charge \subseteq Charge' /\ Invoice \subseteq Invoice'
        BY <2>2, UserIds, TypesGrow
    <2>4. TablesOK'
        <3>1. charge \in Seq(Charge')
            BY <2>3 DEF TypeOK, TablesOK
        <3> QED
            BY <2>2, <2>3, <3>1 DEF FormCreateUser, TypeOK, TablesOK
    <2>5. PaymentsOK'
        BY <2>3 DEF FormCreateUser, TypeOK, PaymentsOK, payVars
    <2>6. [form[f] EXCEPT !.pc = "link", !.user = Len(user) + 1] \in FormState'
        <3>1. form[f] \in FormState' /\ Len(user) + 1 \in DOMAIN user'
            BY <2>2, <2>3, UserIds DEF TypeOK, FormsOK
        <3> QED
            BY <3>1 DEF FormState, FormPC
    <2>7. FormsOK'
        BY <1>2, <2>3, <2>6 DEF FormCreateUser, TypeOK, FormsOK
    <2> QED
        BY <2>4, <2>5, <2>7 DEF TypeOK
<1> QED
    BY <1>1, <1>2 DEF FormCreateUser

LEMMA FormCreateLinkType ==
    ASSUME TypeOK, SignupInv, NEW f \in Forms, FormCreateLink(f),
           UNCHANGED <<vault, charge, deaths, payVars>>
    PROVE  TypeOK'
<1>1. form[f].user \in DOMAIN user /\ form[f].subscription \in Sub
    BY DEF SignupInv, FormsInv, FormInv, FormCreateLink, TypeOK, FormsOK, FormState
<1>2. form' \in [Forms -> FormState']
    BY FormMoves DEF FormCreateLink, FormPC
<1>3. [subscription |-> form[f].subscription, active |-> FALSE] \in Link
    BY <1>1 DEF Link
<1>4. /\ DOMAIN link' = DOMAIN link \cup {form[f].user}
      /\ link' \in [DOMAIN link' -> Link]
    BY <1>3 DEF FormCreateLink, TypeOK, TablesOK
<1>5. DOMAIN link \subseteq DOMAIN link'
    BY <1>4
<1>6. TablesOK'
    BY <1>1, <1>4, <1>5, SameTypes DEF FormCreateLink, TypeOK, TablesOK
<1>7. PaymentsOK'
    BY <1>5, SameTypes DEF FormCreateLink, TypeOK, PaymentsOK, payVars
<1>8. FormsOK'
    BY <1>2 DEF FormCreateLink, TypeOK, FormsOK
<1> QED
    BY <1>6, <1>7, <1>8 DEF TypeOK

LEMMA FormLastType ==
    ASSUME TypeOK, SignupInv, NEW f \in Forms,
           \/ FormRedeem(f) /\ UNCHANGED deaths
           \/ FormSendToken(f) /\ UNCHANGED deaths
           \/ FormDie(f),
           UNCHANGED <<vault, charge, payVars>>
    PROVE  TypeOK'
<1>1. UNCHANGED <<user, link, customer, invoice, contested>>
    BY DEF FormRedeem, FormSendToken, FormDie, tables
<1>2. form' \in [Forms -> FormState']
    BY <1>1, FormMoves, FormEnds DEF FormRedeem, FormSendToken, FormDie, FormPC
<1>3. PaymentsOK'
    BY <1>1, SameTypes DEF TypeOK, PaymentsOK, payVars
<1>4. form[f].user \in DOMAIN user \cup {NoUser}
    BY DEF TypeOK, FormsOK, FormState
<1>5. CASE FormRedeem(f) /\ UNCHANGED deaths
    <2>1. redeemedBy' \in [Code -> DOMAIN user \cup {NoUser}]
        BY <1>4, <1>5 DEF FormRedeem, TypeOK, TablesOK
    <2>2. deaths' = deaths /\ token' = token /\ abandoned' = abandoned
        BY <1>5 DEF FormRedeem
    <2>3. TablesOK'
        BY <1>1, <2>1, <2>2, SameTypes DEF TypeOK, TablesOK
    <2> QED
        BY <1>1, <1>2, <1>3, <2>2, <2>3 DEF TypeOK, FormsOK
<1>6. CASE FormSendToken(f) /\ UNCHANGED deaths
    <2>1. token' \subseteq DOMAIN link
        BY <1>6 DEF FormSendToken, SignupInv, FormsInv, FormInv, TypeOK, TablesOK
    <2>2. TablesOK'
        BY <1>1, <1>6, <2>1, SameTypes DEF FormSendToken, TypeOK, TablesOK
    <2> QED
        BY <1>1, <1>2, <1>3, <1>6, <2>2 DEF FormSendToken, TypeOK, FormsOK
<1>7. CASE FormDie(f)
    <2>1. deaths' \in 0..MaxDeaths
        BY <1>7, SignupBounds DEF FormDie, Die, TypeOK, TablesOK
    <2>2. TablesOK'
        BY <1>1, <1>7, <2>1, SameTypes DEF FormDie, tables, TypeOK, TablesOK
    <2>3. abandoned' \subseteq DOMAIN user'
        BY <1>1, <1>4, <1>7 DEF FormDie, TypeOK, FormsOK
    <2> QED
        BY <1>1, <1>2, <1>3, <2>2, <2>3 DEF TypeOK, FormsOK
<1> QED
    BY <1>5, <1>6, <1>7

(***************************************************************************)
(* Type correctness of the payment form's steps                            *)
(***************************************************************************)

LEMMA AmountsType ==
    ASSUME TypeOK, NEW u \in DOMAIN link
    PROVE  FullPrice(u) \in Nat /\ AmountsAsked(u) \subseteq Nat
<1>1. link[u].subscription \in Sub
    BY DEF TypeOK, TablesOK, Link
<1>2. FullPrice(u) \in Nat
    BY <1>1, PriceAssumption DEF FullPrice
<1>3. \A k \in Code : Amount[k][link[u].subscription] \in Nat
    BY <1>1, PriceAssumption
<1>4. Cents(FullPrice(u)) \in Nat
    BY <1>2 DEF Cents
<1> QED
    BY <1>2, <1>3, <1>4 DEF AmountsAsked

\* What becomes of cents on their way to a gateway and to an invoice.
LEMMA CentsType ==
    ASSUME NEW c \in Nat
    PROVE  /\ Cents(c) \in Nat /\ Rounded(c) \in Nat /\ Rounded(Cents(c)) = c
           /\ Cents(Rounded(c)) - c \in -50..50
           /\ \A g : Sent(g, c) \in Nat
<1>1. Cents(c) \in Nat /\ c \div 100 \in Nat /\ Rounded(c) \in Nat
    BY DEF Cents, Rounded
<1>2. Rounded(Cents(c)) = c
    BY DEF Cents, Rounded
<1>3. Cents(Rounded(c)) - c \in -50..50
    BY DEF Cents, Rounded
<1>4. \A g : Sent(g, c) \in Nat
    BY <1>1 DEF Cents, Sent
<1> QED
    BY <1>1, <1>2, <1>3, <1>4

\* What a payment in progress is for.
LEMMA PayerType ==
    ASSUME TypeOK, SignupInv, NEW p \in Payers
    PROVE  /\ payment[p] \in PayState
           /\ payment[p].amount \in Nat /\ payment[p].transaction \in Nat
           /\ payment[p].pc \notin {"idle", "done"} =>
                 payment[p].user \in DOMAIN link /\ payment[p].user \in DOMAIN user
           /\ payment[p].pc \notin {"idle", "amount", "done"} => payment[p].gateway \in Gateway
<1>1. payment[p] \in PayState
    BY DEF TypeOK, PaymentsOK
<1>2. PaymentInv(p)
    BY DEF SignupInv
<1> QED
    BY <1>1, <1>2, UserIds DEF PaymentInv, PayState

LEMMA SwitchOnType ==
    ASSUME TypeOK, NEW u \in DOMAIN link, SwitchOn(u)
    PROVE  /\ link' \in [DOMAIN link' -> Link] /\ DOMAIN link' = DOMAIN link
           /\ link'[u].active
           /\ \A v \in DOMAIN link : /\ link'[v].subscription = link[v].subscription
                                     /\ link[v].active => link'[v].active
                                     /\ v # u => link'[v] = link[v]
    BY DEF SwitchOn, TypeOK, TablesOK, Link

LEMMA SaveInvoiceType ==
    ASSUME TypeOK, NEW id, NEW u \in DOMAIN user, NEW cents \in Nat, SaveInvoice(id, u, cents)
    PROVE  /\ DOMAIN invoice' = DOMAIN invoice \cup {id} /\ id \notin DOMAIN invoice
           /\ invoice'[id] = [user |-> u, charge |-> Rounded(cents)]
           /\ \A i \in DOMAIN invoice : invoice'[i] = invoice[i]
           /\ invoice' \in [DOMAIN invoice' -> Invoice]
<1> DEFINE row == [user |-> u, charge |-> Rounded(cents)]
<1>1. row \in Invoice
    BY CentsType DEF Invoice
<1>2. /\ id \notin DOMAIN invoice
      /\ invoice' = [i \in DOMAIN invoice \cup {id} |-> IF i = id THEN row ELSE invoice[i]]
    BY DEF SaveInvoice
<1> HIDE DEF row
<1>3. /\ DOMAIN invoice' = DOMAIN invoice \cup {id} /\ invoice'[id] = row
      /\ \A i \in DOMAIN invoice : invoice'[i] = invoice[i]
      /\ invoice' \in [DOMAIN invoice' -> Invoice]
    BY <1>1, <1>2 DEF TypeOK, TablesOK
<1> QED
    BY <1>2, <1>3 DEF row

\* The steps that change nothing but the payment's own state.
LEMMA PayThinksType ==
    ASSUME TypeOK, SignupInv, NEW p \in Payers,
           (\E u \in DOMAIN user : PaySubmit(p, u)) \/ PayDecide(p) \/ PayFindCustomer(p),
           UNCHANGED <<deaths, formVars>>
    PROVE  TypeOK'
<1>1. UNCHANGED <<tables, vault, charge, refused, cutShort>>
    BY DEF PaySubmit, PayDecide, PayFindCustomer
<1>2. payment' \in [Payers -> PayState]
    <2>1. ASSUME NEW u \in DOMAIN user, PaySubmit(p, u) PROVE payment' \in [Payers -> PayState]
        <3>1. [IdlePayment EXCEPT !.pc = "amount", !.user = u] \in PayState
            BY DEF IdlePayment, PayState, PayPC
        <3> QED
            BY <2>1, <3>1 DEF PaySubmit, TypeOK, PaymentsOK
    <2>2. CASE PayDecide(p)
        <3>1. PICK a \in AmountsAsked(payment[p].user), g \in Gateway :
                payment' = [payment EXCEPT ![p].pc = "customer", ![p].amount = a, ![p].gateway = g]
            BY <2>2 DEF PayDecide
        <3>2. a \in Nat
            BY <2>2, PayerType, AmountsType DEF PayDecide
        <3>3. [payment[p] EXCEPT !.pc = "customer", !.amount = a, !.gateway = g] \in PayState
            BY <3>2, PayerType DEF PayState, PayPC
        <3> QED
            BY <3>1, <3>3 DEF TypeOK, PaymentsOK
    <2>3. CASE PayFindCustomer(p)
        <3>1. PICK pc \in PayPC : Go(p, pc)
            BY <2>3 DEF PayFindCustomer, Till, PayPC
        <3> QED
            BY <1>1, <3>1, PaymentMoves, SameTypes DEF tables
    <2> QED
        BY <2>1, <2>2, <2>3
<1>3. TablesOK' /\ FormsOK'
    BY <1>1, SameTypes DEF TypeOK, TablesOK, FormsOK, tables, formVars
<1> QED
    BY <1>1, <1>2, <1>3, SameTypes DEF TypeOK, PaymentsOK, tables

LEMMA PayCustomerType ==
    ASSUME TypeOK, SignupInv, NEW p \in Payers, PayAddCustomer(p) \/ PaySaveCustomer(p),
           UNCHANGED <<deaths, formVars>>
    PROVE  TypeOK'
<1>1. UNCHANGED <<user, link, token, redeemedBy, invoice, charge, cutShort>>
    BY DEF PayAddCustomer, PaySaveCustomer, tables
<1>2. payment[p].user \in DOMAIN link /\ payment[p].gateway \in Gateway
    BY PayerType DEF PayAddCustomer, PaySaveCustomer
<1>3. payment' \in [Payers -> PayState]
    <2>1. PICK pc \in PayPC : Go(p, pc)
        BY DEF PayAddCustomer, PaySaveCustomer, Till, PayPC
    <2> QED
        BY <1>1, <2>1, PaymentMoves, SameTypes
<1>4. /\ customer' \in [Gateway -> SUBSET DOMAIN link]
      /\ vault' \in [Gateway -> SUBSET DOMAIN link]
      /\ refused' \subseteq DOMAIN link
    <2>1. CASE PayAddCustomer(p)
        BY <1>2, <2>1 DEF PayAddCustomer, tables, TypeOK, TablesOK, PaymentsOK
    <2>2. CASE PaySaveCustomer(p)
        BY <1>2, <2>2 DEF PaySaveCustomer, TypeOK, TablesOK, PaymentsOK
    <2> QED
        BY <2>1, <2>2
<1>5. TablesOK' /\ FormsOK'
    BY <1>1, <1>4, SameTypes DEF TypeOK, TablesOK, FormsOK, formVars
<1> QED
    BY <1>1, <1>3, <1>4, <1>5, SameTypes DEF TypeOK, PaymentsOK

LEMMA PayFreeType ==
    ASSUME TypeOK, SignupInv, NEW p \in Payers, PayFree(p) \/ PayFreeActivate(p),
           UNCHANGED <<deaths, formVars>>
    PROVE  TypeOK'
<1>1. UNCHANGED <<user, token, redeemedBy, customer, vault, charge, cutShort>>
    BY DEF PayFree, PayFreeActivate
<1>2. payment[p].user \in DOMAIN link /\ payment[p].user \in DOMAIN user
    BY PayerType DEF PayFree, PayFreeActivate
<1>3. payment' \in [Payers -> PayState]
    <2>1. PICK pc \in PayPC : Go(p, pc)
        BY DEF PayFree, PayFreeActivate, PayPC
    <2> QED
        BY <1>1, <2>1, PaymentMoves, SameTypes
<1>4. /\ link' \in [DOMAIN link' -> Link] /\ DOMAIN link' = DOMAIN link
      /\ invoice' \in [DOMAIN invoice' -> Invoice]
      /\ DOMAIN invoice' \subseteq {FreeInvoice} \cup DOMAIN charge
      /\ refused' \subseteq DOMAIN link
    <2>1. CASE PayFree(p)
        <3>1. CASE SaveInvoice(FreeInvoice, payment[p].user, 0)
            <4>1. /\ invoice' \in [DOMAIN invoice' -> Invoice]
                  /\ DOMAIN invoice' = DOMAIN invoice \cup {FreeInvoice}
                BY <1>2, <3>1, SaveInvoiceType
            <4> QED
                BY <2>1, <4>1 DEF PayFree, TypeOK, TablesOK, PaymentsOK
        <3>2. CASE UNCHANGED invoice
            BY <2>1, <3>2 DEF PayFree, TypeOK, TablesOK, PaymentsOK
        <3> QED
            BY <2>1, <3>1, <3>2 DEF PayFree
    <2>2. CASE PayFreeActivate(p)
        BY <1>2, <2>2, SwitchOnType DEF PayFreeActivate, TypeOK, TablesOK, PaymentsOK
    <2> QED
        BY <2>1, <2>2
<1>5. TablesOK' /\ FormsOK'
    BY <1>1, <1>4, SameTypes DEF TypeOK, TablesOK, FormsOK, formVars
<1> QED
    BY <1>1, <1>3, <1>4, <1>5, SameTypes DEF TypeOK, PaymentsOK

\* A sale that goes through appends one charge, which the payment remembers.
LEMMA SaleShape ==
    ASSUME TypeOK, SignupInv, NEW p \in Payers, PaySale(p)
    PROVE  LET t == Len(charge) + 1
               new == [user |-> payment[p].user, gateway |-> payment[p].gateway,
                       amount |-> Sent(payment[p].gateway, payment[p].amount)]
           IN  /\ new \in Charge /\ t \notin DOMAIN charge /\ t # NoSale
               /\ \/ /\ charge' = Append(charge, new)
                     /\ DOMAIN charge' = DOMAIN charge \cup {t}
                     /\ charge'[t] = new
                     /\ \A i \in DOMAIN charge : charge'[i] = charge[i]
                     /\ payment'[p] = [payment[p] EXCEPT !.pc = "invoice", !.transaction = t]
                     /\ UNCHANGED refused
                  \/ /\ UNCHANGED charge
                     /\ payment'[p] = [payment[p] EXCEPT !.pc = "answered"]
                     /\ refused' = refused \cup {payment[p].user}
               /\ \A q \in Payers : q # p => payment'[q] = payment[q]
               /\ payment' \in [Payers -> PayState]
               /\ payment[p].user \in DOMAIN link
               /\ charge' \in Seq(Charge)
<1> DEFINE t == Len(charge) + 1
           new == [user |-> payment[p].user, gateway |-> payment[p].gateway,
                   amount |-> Sent(payment[p].gateway, payment[p].amount)]
<1>1. /\ payment[p].user \in DOMAIN link /\ payment[p].user \in DOMAIN user
      /\ payment[p].gateway \in Gateway /\ payment[p].amount \in Nat
      /\ payment[p] \in PayState
    BY PayerType DEF PaySale
<1>2. new \in Charge /\ t \in Nat /\ t \notin DOMAIN charge /\ t # NoSale
    <2>1. PICK a \in Nat : a = Sent(payment[p].gateway, payment[p].amount)
        BY <1>1, CentsType
    <2>2. new \in Charge
        BY <1>1, <2>1 DEF Charge
    <2> HIDE DEF new
    <2> QED
        BY <2>2, UserIds
<1>3. CASE /\ charge' = Append(charge, new)
           /\ payment' = [payment EXCEPT ![p].pc = "invoice", ![p].transaction = t]
           /\ UNCHANGED refused
    <2>1. charge \in Seq(Charge)
        BY DEF TypeOK, TablesOK
    <2> HIDE DEF new
    <2>2. /\ DOMAIN charge' = DOMAIN charge \cup {t} /\ charge'[t] = new
          /\ \A i \in DOMAIN charge : charge'[i] = charge[i]
          /\ charge' \in Seq(Charge)
        BY <1>2, <1>3, <2>1
    <2>3. [payment[p] EXCEPT !.pc = "invoice", !.transaction = t] \in PayState
        BY <1>1, <1>2 DEF PayState, PayPC
    <2>4. /\ payment'[p] = [payment[p] EXCEPT !.pc = "invoice", !.transaction = t]
          /\ \A q \in Payers : q # p => payment'[q] = payment[q]
          /\ payment' \in [Payers -> PayState]
        BY <1>3, <2>3 DEF TypeOK, PaymentsOK
    <2> QED
        BY <1>1, <1>2, <1>3, <2>2, <2>4 DEF new
<1>4. CASE Go(p, "answered") /\ refused' = refused \cup {payment[p].user} /\ UNCHANGED charge
    <2>1. UNCHANGED user
        BY DEF PaySale, tables
    <2>2. /\ payment'[p] = [payment[p] EXCEPT !.pc = "answered"]
          /\ \A q \in Payers : q # p => payment'[q] = payment[q]
          /\ payment' \in [Payers -> PayState]
        BY <1>4, <2>1, PaymentMoves, SameTypes DEF PayPC
    <2>3. charge' \in Seq(Charge)
        BY <1>4 DEF TypeOK, TablesOK
    <2> HIDE DEF new, t
    <2> QED
        BY <1>1, <1>2, <1>4, <2>2, <2>3 DEF new, t
<1> QED
    BY <1>3, <1>4 DEF PaySale

LEMMA PaySaleType ==
    ASSUME TypeOK, SignupInv, NEW p \in Payers, PaySale(p), UNCHANGED <<deaths, formVars>>
    PROVE  TypeOK'
<1>1. UNCHANGED <<tables, vault, cutShort>>
    BY DEF PaySale
<1>2. /\ charge' \in Seq(Charge) /\ DOMAIN charge \subseteq DOMAIN charge'
      /\ payment' \in [Payers -> PayState]
    BY SaleShape
<1>3. refused' \subseteq DOMAIN link
    BY SaleShape DEF TypeOK, PaymentsOK
<1>4. TablesOK' /\ FormsOK'
    BY <1>1, <1>2, SameTypes DEF TypeOK, TablesOK, FormsOK, tables, formVars
<1> QED
    BY <1>1, <1>2, <1>3, <1>4, SameTypes DEF TypeOK, PaymentsOK, tables

\* The invoice of a sale is new or is not saved.
LEMMA InvoiceShape ==
    ASSUME TypeOK, SignupInv, NEW p \in Payers, PaySaveInvoice(p)
    PROVE  LET t == payment[p].transaction
               row == [user |-> payment[p].user, charge |-> Rounded(InvoicedAmount(p))]
           IN  /\ t \in DOMAIN charge /\ row \in Invoice
               /\ \/ /\ DOMAIN invoice' = DOMAIN invoice \cup {t}
                     /\ invoice'[t] = row
                  \/ UNCHANGED invoice
               /\ \A i \in DOMAIN invoice : i \in DOMAIN invoice' /\ invoice'[i] = invoice[i]
               /\ invoice' \in [DOMAIN invoice' -> Invoice]
               /\ DOMAIN invoice' \subseteq {FreeInvoice} \cup DOMAIN charge
<1>1. payment[p].pc = "invoice"
    BY DEF PaySaveInvoice
<1>2. payment[p].transaction \in DOMAIN charge
    BY <1>1 DEF SignupInv, PaymentInv
<1>3. InvoicedAmount(p) \in Nat /\ payment[p].user \in DOMAIN user
    BY <1>1, PayerType, AmountsType, CentsType DEF InvoicedAmount
<1> DEFINE row == [user |-> payment[p].user, charge |-> Rounded(InvoicedAmount(p))]
<1>4. row \in Invoice
    BY <1>3, CentsType DEF Invoice
<1>5. SaveInvoice(payment[p].transaction, payment[p].user, InvoicedAmount(p)) \/ UNCHANGED invoice
    BY DEF PaySaveInvoice
<1>6. DOMAIN invoice \subseteq {FreeInvoice} \cup DOMAIN charge
      /\ invoice \in [DOMAIN invoice -> Invoice]
    BY DEF TypeOK, TablesOK
<1>7. \/ /\ DOMAIN invoice' = DOMAIN invoice \cup {payment[p].transaction}
         /\ invoice'[payment[p].transaction] = row
         /\ \A i \in DOMAIN invoice : invoice'[i] = invoice[i]
         /\ invoice' \in [DOMAIN invoice' -> Invoice]
      \/ UNCHANGED invoice
    BY <1>3, <1>5, SaveInvoiceType
<1> HIDE DEF row
<1>8. /\ \A i \in DOMAIN invoice : i \in DOMAIN invoice' /\ invoice'[i] = invoice[i]
      /\ invoice' \in [DOMAIN invoice' -> Invoice]
      /\ DOMAIN invoice' \subseteq {FreeInvoice} \cup DOMAIN charge
    BY <1>2, <1>6, <1>7
<1> QED
    BY <1>2, <1>4, <1>7, <1>8 DEF row

LEMMA PaySettleType ==
    ASSUME TypeOK, SignupInv, NEW p \in Payers, PaySaveInvoice(p) \/ PayActivate(p),
           UNCHANGED <<deaths, formVars>>
    PROVE  TypeOK'
<1>1. UNCHANGED <<user, token, redeemedBy, customer, vault, charge, refused, cutShort>>
    BY DEF PaySaveInvoice, PayActivate
<1>2. payment' \in [Payers -> PayState]
    <2>1. PICK pc \in PayPC : Go(p, pc)
        BY DEF PaySaveInvoice, PayActivate, PayPC
    <2> QED
        BY <1>1, <2>1, PaymentMoves, SameTypes
<1>3. /\ link' \in [DOMAIN link' -> Link] /\ DOMAIN link' = DOMAIN link
      /\ invoice' \in [DOMAIN invoice' -> Invoice]
      /\ DOMAIN invoice' \subseteq {FreeInvoice} \cup DOMAIN charge
    <2>1. CASE PaySaveInvoice(p)
        BY <2>1, InvoiceShape DEF PaySaveInvoice, TypeOK, TablesOK
    <2>2. CASE PayActivate(p)
        BY <2>2, PayerType, SwitchOnType DEF PayActivate, TypeOK, TablesOK
    <2> QED
        BY <2>1, <2>2
<1>4. TablesOK' /\ FormsOK'
    BY <1>1, <1>3, SameTypes DEF TypeOK, TablesOK, FormsOK, formVars
<1> QED
    BY <1>1, <1>2, <1>3, <1>4, SameTypes DEF TypeOK, PaymentsOK

LEMMA PayEndType ==
    ASSUME TypeOK, SignupInv, NEW p \in Payers,
           (PayDeleteToken(p) /\ UNCHANGED deaths) \/ PayDie(p), UNCHANGED formVars
    PROVE  TypeOK'
<1>1. UNCHANGED <<user, link, redeemedBy, customer, invoice, vault, charge, refused>>
    BY DEF PayDeleteToken, PayDie, tables
<1>2. payment' \in [Payers -> PayState]
    BY <1>1, PaymentEnds, SameTypes DEF PayDeleteToken, PayDie
<1>3. token' \subseteq DOMAIN link /\ deaths' \in 0..MaxDeaths
    BY SignupBounds DEF PayDeleteToken, PayDie, Die, tables, TypeOK, TablesOK
<1>4. cutShort' \subseteq DOMAIN charge
    <2>1. payment[p].transaction = NoSale \/ payment[p].transaction \in DOMAIN charge
        BY DEF SignupInv, PaymentInv
    <2> QED
        BY <2>1 DEF PayDeleteToken, PayDie, TypeOK, PaymentsOK
<1>5. TablesOK' /\ FormsOK'
    BY <1>1, <1>3, SameTypes DEF TypeOK, TablesOK, FormsOK, formVars
<1> QED
    BY <1>1, <1>2, <1>4, <1>5, SameTypes DEF TypeOK, PaymentsOK

LEMMA StutterType ==
    ASSUME TypeOK, UNCHANGED vars
    PROVE  TypeOK'
    BY SameTypes DEF TypeOK, TablesOK, FormsOK, PaymentsOK, vars

LEMMA TypeStep == TypeOK /\ SignupInv /\ [Next]_vars => TypeOK'
    BY StutterType, FormSubmitType, FormCreateUserType, FormCreateLinkType, FormLastType,
       PayThinksType, PayCustomerType, PayFreeType, PaySaleType, PaySettleType, PayEndType
       DEF Next, FormStep, PayStep

(***************************************************************************)
(* What no step takes back                                                 *)
(***************************************************************************)

\* A user, a link, a charge and an invoice stay, a link stays on, and a code
\* is given to another user only if two forms contested it or two codes read
\* the same.
Kept ==
    /\ DOMAIN user \subseteq DOMAIN user'
    /\ \A u \in DOMAIN link :
          /\ u \in DOMAIN link'
          /\ link'[u].subscription = link[u].subscription
          /\ link[u].active => link'[u].active
    /\ \A t \in DOMAIN charge : t \in DOMAIN charge' /\ charge'[t] = charge[t]
    /\ \A i \in DOMAIN invoice : i \in DOMAIN invoice' /\ invoice'[i] = invoice[i]
    /\ refused \subseteq refused' /\ contested \subseteq contested'
    /\ abandoned \subseteq abandoned' /\ cutShort \subseteq cutShort'
    /\ \A k \in Code :
          \/ redeemedBy'[k] = redeemedBy[k]
          \/ redeemedBy[k] = NoUser
          \/ k \in contested
          \/ CodesReading(CodeText[k]) # {k}

LEMMA SameKept ==
    ASSUME UNCHANGED tables, UNCHANGED charge, refused \subseteq refused',
           contested \subseteq contested', abandoned \subseteq abandoned',
           cutShort \subseteq cutShort'
    PROVE  Kept
    BY DEF Kept, tables

LEMMA FormKept ==
    ASSUME TypeOK, SignupInv, NEW f \in Forms, FormStep(f) \/ FormDie(f),
           UNCHANGED <<charge, payVars>>
    PROVE  Kept
<1>1. CASE (\E e \in Email, s \in Sub, t \in Text \cup {None} : FormSubmit(f, e, s, t)) \/ FormDie(f)
    BY <1>1, SameKept DEF FormSubmit, FormDie, payVars
<1>2. CASE FormCreateUser(f)
    <2>1. DOMAIN user \subseteq DOMAIN user'
        BY <1>2 DEF FormCreateUser, TypeOK, TablesOK
    <2> QED
        BY <1>2, <2>1 DEF FormCreateUser, Kept, payVars
<1>3. CASE FormCreateLink(f)
    <2>1. form[f].user \notin DOMAIN link
        BY <1>3 DEF FormCreateLink, SignupInv, FormsInv, FormInv
    <2>2. \A u \in DOMAIN link : u \in DOMAIN link' /\ link'[u] = link[u]
        BY <1>3, <2>1 DEF FormCreateLink
    <2> QED
        BY <1>3, <2>2 DEF FormCreateLink, Kept, payVars
<1>4. CASE FormRedeem(f)
    <2>1. PICK k \in CodesReading(form[f].text) :
            redeemedBy' = [redeemedBy EXCEPT ![k] = form[f].user]
        BY <1>4 DEF FormRedeem
    <2>2. k \in Code /\ CodeText[k] = form[f].text /\ form[f].pc = "code" /\ form[f].text # None
        BY <1>4, <2>1 DEF CodesReading, FormRedeem, SignupInv, FormsInv, FormInv
    <2>3. CodesReading(CodeText[k]) = {k} => redeemedBy[k] = NoUser \/ k \in contested
        BY <2>2 DEF SignupInv, FormsInv
    <2>4. \A j \in Code : j # k => redeemedBy'[j] = redeemedBy[j]
        BY <2>1, <2>2 DEF TypeOK, TablesOK
    <2> QED
        BY <1>4, <2>2, <2>3, <2>4 DEF FormRedeem, Kept, payVars
<1>5. CASE FormSendToken(f)
    BY <1>5 DEF FormSendToken, Kept, payVars
<1> QED
    BY <1>1, <1>2, <1>3, <1>4, <1>5 DEF FormStep

LEMMA PayKept ==
    ASSUME TypeOK, SignupInv, NEW p \in Payers, PayStep(p) \/ PayDie(p), UNCHANGED formVars
    PROVE  Kept
<1>1. UNCHANGED <<contested, abandoned>>
    BY DEF formVars
<1>2. CASE \/ \E u \in DOMAIN user : PaySubmit(p, u)
           \/ PayDecide(p) \/ PayFindCustomer(p) \/ PayAddCustomer(p) \/ PayDie(p)
    BY <1>1, <1>2, SameKept DEF PaySubmit, PayDecide, PayFindCustomer, PayAddCustomer, PayDie
<1>3. CASE PaySaveCustomer(p) \/ PayDeleteToken(p)
    BY <1>1, <1>3 DEF PaySaveCustomer, PayDeleteToken, Kept
<1>4. CASE PayFree(p)
    <2>1. \A i \in DOMAIN invoice : i \in DOMAIN invoice' /\ invoice'[i] = invoice[i]
        BY <1>4 DEF PayFree, SaveInvoice
    <2> QED
        BY <1>1, <1>4, <2>1 DEF PayFree, Kept
<1>5. CASE PayFreeActivate(p) \/ PayActivate(p)
    <2>1. SwitchOn(payment[p].user) /\ payment[p].user \in DOMAIN link
        BY <1>5, PayerType DEF PayFreeActivate, PayActivate
    <2> QED
        BY <1>1, <1>5, <2>1, SwitchOnType DEF PayFreeActivate, PayActivate, Kept
<1>6. CASE PaySale(p)
    <2>1. \A t \in DOMAIN charge : t \in DOMAIN charge' /\ charge'[t] = charge[t]
        BY <1>6, SaleShape
    <2>2. refused \subseteq refused'
        BY <1>6 DEF PaySale
    <2> QED
        BY <1>1, <1>6, <2>1, <2>2 DEF PaySale, Kept, tables
<1>7. CASE PaySaveInvoice(p)
    BY <1>1, <1>7, InvoiceShape DEF PaySaveInvoice, Kept
<1> QED
    BY <1>2, <1>3, <1>4, <1>5, <1>6, <1>7 DEF PayStep

LEMMA NextKept ==
    ASSUME TypeOK, SignupInv, [Next]_vars
    PROVE  Kept
<1>1. CASE UNCHANGED vars
    BY <1>1 DEF vars, Kept
<1> QED
    BY <1>1, FormKept, PayKept DEF Next

LEMMA PriceKept ==
    ASSUME Kept, NEW u \in DOMAIN link
    PROVE  FullPrice(u)' = FullPrice(u)
    BY DEF Kept, FullPrice

\* What a user could be asked stays the price or a discount that is held.
LEMMA DiscountKept ==
    ASSUME TypeOK, Kept, NEW u \in DOMAIN link, NEW a, a \in Askable(u)
    PROVE  (a \in Askable(u))'
<1>1. link'[u].subscription = link[u].subscription /\ u # NoUser
    BY UserIds DEF Kept
<1>2. FullPrice(u)' = FullPrice(u)
    BY PriceKept
<1>3. CASE a = Cents(FullPrice(u))
    BY <1>2, <1>3 DEF Askable, Cents
<1>4. CASE a # Cents(FullPrice(u))
    <2>1. PICK k \in Code : /\ Amount[k][link[u].subscription] = a
                            /\ \/ redeemedBy[k] = u
                               \/ k \in contested
                               \/ CodesReading(CodeText[k]) # {k}
        BY <1>4 DEF Askable
    <2>2. \/ redeemedBy'[k] = u
          \/ k \in contested'
          \/ CodesReading(CodeText[k]) # {k}
        BY <1>1, <2>1 DEF Kept
    <2>3. CodesReading(CodeText[k])' = CodesReading(CodeText[k])
        BY DEF CodesReading
    <2>4. Amount[k][link'[u].subscription] = a
        BY <1>1, <2>1
    <2> QED
        BY <2>2, <2>3, <2>4 DEF Askable
<1> QED
    BY <1>3, <1>4

LEMMA DiscountAsked ==
    ASSUME NEW u, NEW a \in AmountsAsked(u)
    PROVE  a \in Askable(u)
    BY DEF AmountsAsked, Askable

(***************************************************************************)
(* The forms' part of the invariant                                        *)
(***************************************************************************)

\* The two parts of FormsInv that relate forms to one another.
FormsApart ==
    \A f, g \in Forms : f # g =>
        /\ form[f].user = form[g].user => form[f].user = NoUser
        /\ form[f].text = form[g].text /\ form[f].text # None =>
              CodesReading(form[f].text) \subseteq contested

CodeFree(f) ==
    \A k \in Code :
        /\ form[f].pc \in {"create", "link", "code"} /\ form[f].text # None
        /\ CodesReading(form[f].text) = {k}
        => redeemedBy[k] = NoUser \/ k \in contested

LEMMA FormsParts == FormsInv <=> FormsApart /\ \A f \in Forms : FormInv(f) /\ CodeFree(f)
    BY DEF FormsInv, FormsApart, CodeFree

\* A form that moves on with what it has, or is left alone.
LEMMA FormsApartKept ==
    ASSUME FormsInv, contested \subseteq contested',
           \A f \in Forms : /\ form'[f].user \in {form[f].user, NoUser}
                            /\ form'[f].text \in {form[f].text, None}
    PROVE  FormsApart'
<1> SUFFICES ASSUME NEW f \in Forms, NEW g \in Forms, f # g
             PROVE  /\ form'[f].user = form'[g].user => form'[f].user = NoUser
                    /\ form'[f].text = form'[g].text /\ form'[f].text # None =>
                          CodesReading(form'[f].text) \subseteq contested'
    BY DEF FormsApart, CodesReading
<1> QED
    BY DEF FormsInv, CodesReading

\* Another form that stays where it is.
LEMMA OtherForm ==
    ASSUME TypeOK, FormsInv, Kept, NEW f \in Forms, form'[f] = form[f],
           form[f].pc = "link" => form[f].user \notin DOMAIN link' \ DOMAIN link,
           \A k \in Code :
              redeemedBy'[k] # redeemedBy[k] /\ form[f].text # None
                /\ CodesReading(form[f].text) = {k} => k \in contested
    PROVE  FormInv(f)' /\ CodeFree(f)'
<1>1. FormInv(f) /\ CodeFree(f)
    BY FormsParts
<1>2. FormInv(f)'
    BY <1>1 DEF FormInv, Kept
<1>3. CodeFree(f)'
    <2>1. \A t : CodesReading(t)' = CodesReading(t)
        BY DEF CodesReading
    <2> QED
        BY <1>1, <2>1 DEF CodeFree, Kept
<1> QED
    BY <1>2, <1>3

LEMMA FormSubmitInv ==
    ASSUME TypeOK, FormsInv, Kept, NEW f \in Forms,
           NEW e \in Email, NEW s \in Sub, NEW t \in Text \cup {None}, FormSubmit(f, e, s, t)
    PROVE  FormsInv'
<1>1. /\ form'[f] = [pc |-> "create", email |-> e, subscription |-> s, text |-> t, user |-> NoUser]
      /\ \A g \in Forms : g # f => form'[g] = form[g]
      /\ UNCHANGED <<link, redeemedBy>> /\ DiscountCodeNotUsed(t)
      /\ \A g \in Forms : g # f /\ form[g].text = t => CodesReading(t) \subseteq contested'
    BY DEF FormSubmit, TypeOK, FormsOK, tables
<1>2. FormsApart'
    <2>1. \A r : CodesReading(r)' = CodesReading(r)
        BY DEF CodesReading
    <2> QED
        BY <1>1, <2>1, FormsParts DEF FormsApart, Kept
<1>3. FormInv(f)'
    BY <1>1 DEF FormInv
<1>4. CodeFree(f)'
    <2>1. \A k : t # None /\ CodesReading(t) = {k} => redeemedBy[k] = NoUser
        BY <1>1 DEF DiscountCodeNotUsed
    <2>2. CodesReading(t)' = CodesReading(t)
        BY DEF CodesReading
    <2> QED
        BY <1>1, <2>1, <2>2 DEF CodeFree
<1>5. \A g \in Forms : g # f => FormInv(g)' /\ CodeFree(g)'
    BY <1>1, OtherForm
<1>6. FormsInv' <=> FormsApart' /\ \A g \in Forms : FormInv(g)' /\ CodeFree(g)'
    BY DEF FormsInv, FormsApart, CodeFree
<1> QED
    BY <1>2, <1>3, <1>4, <1>5, <1>6

\* A form that is done has nothing left to keep.
LEMMA FormEndInv ==
    ASSUME TypeOK, FormsInv, Kept, NEW f \in Forms, EndForm(f),
           UNCHANGED <<user, link, redeemedBy, contested>>
    PROVE  FormsInv'
<1>1. /\ form'[f].pc = "done" /\ form'[f].user = NoUser /\ form'[f].text = None
      /\ \A g \in Forms : g # f => form'[g] = form[g]
    BY FormEnds
<1>2. FormsApart'
    BY <1>1, FormsApartKept
<1>3. FormInv(f)' /\ CodeFree(f)'
    BY <1>1 DEF FormInv, CodeFree
<1>4. \A g \in Forms : g # f => FormInv(g)' /\ CodeFree(g)'
    BY <1>1, OtherForm
<1>5. FormsInv' <=> FormsApart' /\ \A g \in Forms : FormInv(g)' /\ CodeFree(g)'
    BY DEF FormsInv, FormsApart, CodeFree
<1> QED
    BY <1>2, <1>3, <1>4, <1>5

LEMMA FormCreateUserInv ==
    ASSUME TypeOK, FormsInv, Kept, NEW f \in Forms, FormCreateUser(f)
    PROVE  FormsInv'
<1>1. UNCHANGED <<link, redeemedBy, contested>> /\ form[f].pc = "create"
    BY DEF FormCreateUser
<1>2. CASE EndForm(f) /\ UNCHANGED user
    BY <1>1, <1>2, FormEndInv
<1>3. CASE form' = [form EXCEPT ![f].pc = "link", ![f].user = Len(user) + 1]
    <2>1. /\ form'[f] = [form[f] EXCEPT !.pc = "link", !.user = Len(user) + 1]
          /\ \A g \in Forms : g # f => form'[g] = form[g]
        BY <1>3 DEF TypeOK, FormsOK
    <2>2. /\ form'[f].pc = "link" /\ form'[f].user = Len(user) + 1
          /\ form'[f].text = form[f].text /\ form'[f].email = form[f].email
          /\ form'[f].subscription = form[f].subscription
        BY <2>1 DEF TypeOK, FormsOK, FormState
    <2>3. \A g \in Forms : form[g].user # Len(user) + 1
        BY UserIds DEF TypeOK, FormsOK, FormState
    <2>4. Len(user) + 1 \notin DOMAIN link /\ Len(user) + 1 # NoUser
        BY UserIds
    <2>5. FormInv(f) /\ CodeFree(f) /\ FormsApart
        BY FormsParts
    <2>6. \A r : CodesReading(r)' = CodesReading(r)
        BY DEF CodesReading
    <2>7. FormInv(f)'
        BY <1>1, <2>2, <2>4, <2>5 DEF FormInv
    <2>8. CodeFree(f)'
        BY <1>1, <2>2, <2>5, <2>6 DEF CodeFree
    <2>9. FormsApart'
        <3>1. ASSUME NEW g \in Forms, NEW h \in Forms, g # h, form'[g].user = form'[h].user
              PROVE  form'[g].user = NoUser
            <4>1. \A i \in Forms : i # f =>
                    form'[i].user = form[i].user /\ form'[i].user # form'[f].user
                BY <2>1, <2>2, <2>3
            <4>2. g # f /\ h # f
                BY <3>1, <4>1
            <4> QED
                BY <2>5, <3>1, <4>1, <4>2 DEF FormsApart
        <3>2. \A g \in Forms : form'[g].text = form[g].text
            BY <2>1, <2>2
        <3>3. ASSUME NEW g \in Forms, NEW h \in Forms, g # h,
                     form'[g].text = form'[h].text, form'[g].text # None
              PROVE  CodesReading(form'[g].text) \subseteq contested'
            BY <1>1, <2>5, <3>2, <3>3 DEF FormsApart
        <3> QED
            BY <2>6, <3>1, <3>3 DEF FormsApart, CodesReading
    <2>10. \A g \in Forms : g # f => FormInv(g)' /\ CodeFree(g)'
        BY <1>1, <2>1, OtherForm
    <2>11. FormsInv' <=> FormsApart' /\ \A g \in Forms : FormInv(g)' /\ CodeFree(g)'
        BY DEF FormsInv, FormsApart, CodeFree
    <2> QED
        BY <2>7, <2>8, <2>9, <2>10, <2>11
<1> QED
    BY <1>2, <1>3 DEF FormCreateUser

LEMMA FormCreateLinkInv ==
    ASSUME TypeOK, FormsInv, Kept, NEW f \in Forms, FormCreateLink(f)
    PROVE  FormsInv'
<1> DEFINE pc == IF form[f].text = None THEN "token" ELSE "code"
<1>1. /\ form[f].pc = "link" /\ DOMAIN link' = DOMAIN link \cup {form[f].user}
      /\ UNCHANGED <<user, redeemedBy, contested>> /\ Goto(f, pc) /\ pc \in FormPC
    BY DEF FormCreateLink, FormPC
<1>2. /\ form'[f] = [form[f] EXCEPT !.pc = pc]
      /\ \A g \in Forms : g # f => form'[g] = form[g]
    BY <1>1, FormMoves
<1>3. /\ form'[f].pc = pc /\ form'[f].user = form[f].user
      /\ form'[f].text = form[f].text /\ form'[f].email = form[f].email
      /\ form'[f].subscription = form[f].subscription
    BY <1>2 DEF TypeOK, FormsOK, FormState
<1>4. FormInv(f) /\ CodeFree(f) /\ FormsApart
    BY FormsParts
<1>5. FormInv(f)'
    BY <1>1, <1>3, <1>4 DEF FormInv
<1>6. CodeFree(f)'
    <2>1. \A r : CodesReading(r)' = CodesReading(r)
        BY DEF CodesReading
    <2> QED
        BY <1>1, <1>3, <1>4, <2>1 DEF CodeFree
<1>7. FormsApart'
    BY <1>1, <1>2, <1>3, FormsApartKept
<1>8. \A g \in Forms : g # f => FormInv(g)' /\ CodeFree(g)'
    <2>1. form[f].user # NoUser
        BY <1>1, <1>4 DEF FormInv
    <2> QED
        BY <1>1, <1>2, <1>4, <2>1, OtherForm DEF FormsApart
<1>9. FormsInv' <=> FormsApart' /\ \A g \in Forms : FormInv(g)' /\ CodeFree(g)'
    BY DEF FormsInv, FormsApart, CodeFree
<1> QED
    BY <1>5, <1>6, <1>7, <1>8, <1>9

LEMMA FormRedeemInv ==
    ASSUME TypeOK, FormsInv, Kept, NEW f \in Forms, FormRedeem(f)
    PROVE  FormsInv'
<1>1. /\ form[f].pc = "code" /\ UNCHANGED <<user, link, contested>>
      /\ Goto(f, "token") /\ "token" \in FormPC
    BY DEF FormRedeem, FormPC
<1>2. PICK k \in CodesReading(form[f].text) :
        redeemedBy' = [redeemedBy EXCEPT ![k] = form[f].user]
    BY DEF FormRedeem
<1>3. k \in Code /\ CodeText[k] = form[f].text
    BY DEF CodesReading
<1>4. /\ form'[f] = [form[f] EXCEPT !.pc = "token"]
      /\ \A g \in Forms : g # f => form'[g] = form[g]
    BY <1>1, FormMoves
<1>5. /\ form'[f].pc = "token" /\ form'[f].user = form[f].user
      /\ form'[f].text = form[f].text /\ form'[f].email = form[f].email
      /\ form'[f].subscription = form[f].subscription
    BY <1>4 DEF TypeOK, FormsOK, FormState
<1>6. FormInv(f) /\ FormsApart
    BY FormsParts
<1>7. FormInv(f)' /\ CodeFree(f)'
    BY <1>1, <1>5, <1>6 DEF FormInv, CodeFree
<1>8. FormsApart'
    BY <1>1, <1>4, <1>5, FormsApartKept
<1>9. ASSUME NEW g \in Forms, g # f PROVE FormInv(g)' /\ CodeFree(g)'
    <2>1. ASSUME NEW j \in Code, redeemedBy'[j] # redeemedBy[j], form[g].text # None,
                 CodesReading(form[g].text) = {j}
          PROVE  j \in contested
        <3>1. j = k
            BY <1>2, <1>3, <2>1 DEF TypeOK, TablesOK
        <3>2. CodeText[k] = form[g].text
            BY <2>1, <3>1 DEF CodesReading
        <3> QED
            BY <1>3, <1>6, <1>9, <2>1, <3>1, <3>2 DEF FormsApart
    <2> QED
        BY <1>1, <1>4, <1>9, <2>1, OtherForm
<1>10. FormsInv' <=> FormsApart' /\ \A g \in Forms : FormInv(g)' /\ CodeFree(g)'
    BY DEF FormsInv, FormsApart, CodeFree
<1> QED
    BY <1>7, <1>8, <1>9, <1>10

LEMMA FormsStep ==
    ASSUME TypeOK, SignupInv, [Next]_vars
    PROVE  FormsInv'
<1>1. FormsInv /\ Kept
    BY NextKept DEF SignupInv
<1>2. ASSUME NEW f \in Forms, FormStep(f) \/ FormDie(f) PROVE FormsInv'
    <2>1. CASE FormSendToken(f) \/ FormDie(f)
        BY <1>1, <2>1, FormEndInv DEF FormSendToken, FormDie, tables
    <2> QED
        BY <1>1, <1>2, <2>1, FormSubmitInv, FormCreateUserInv, FormCreateLinkInv, FormRedeemInv
           DEF FormStep
<1>3. CASE UNCHANGED formVars /\ UNCHANGED redeemedBy /\ DOMAIN link' = DOMAIN link
    BY <1>1, <1>3 DEF FormsInv, FormInv, CodesReading, formVars
<1>4. ASSUME NEW p \in Payers, PayStep(p) \/ PayDie(p)
      PROVE  UNCHANGED redeemedBy /\ DOMAIN link' = DOMAIN link
    BY <1>4 DEF PayStep, PaySubmit, PayDecide, PayFindCustomer, PayAddCustomer, PaySaveCustomer,
       PayFree, PayFreeActivate, PaySale, PaySaveInvoice, PayActivate, PayDeleteToken, PayDie,
       tables, SwitchOn
<1>5. CASE UNCHANGED vars
    BY <1>3, <1>5 DEF vars, formVars
<1> QED
    BY <1>2, <1>3, <1>4, <1>5 DEF Next

(***************************************************************************)
(* The payments' part of the invariant                                     *)
(***************************************************************************)

\* A payment that stays where it is, while others go on.
LEMMA OtherPayment ==
    ASSUME TypeOK, Kept, NEW p \in Payers, PaymentInv(p), payment'[p] = payment[p]
    PROVE  PaymentInv(p)'
<1> DEFINE s == payment[p]
<1>1. s.pc \notin {"idle", "done"} => s.user \in DOMAIN link /\ s.user \in DOMAIN link'
    BY DEF PaymentInv, Kept
<1>2. s.pc \notin {"idle", "amount", "done"} =>
          s.gateway \in Gateway /\ (s.amount \in Askable(s.user))'
    <2>1. s.pc \notin {"idle", "amount", "done"} =>
            s.user \in DOMAIN link /\ s.gateway \in Gateway /\ s.amount \in Askable(s.user)
        BY DEF PaymentInv
    <2>2. ASSUME NEW u \in DOMAIN link, NEW a, a \in Askable(u) PROVE (a \in Askable(u))'
        BY <2>2, DiscountKept
    <2>3. PICK u, a : u = s.user /\ a = s.amount
        OBVIOUS
    <2>4. (s.amount \in Askable(s.user))' <=> (a \in Askable(u))'
        BY <2>3 DEF Askable, FullPrice, CodesReading
    <2> QED
        BY <2>1, <2>2, <2>3, <2>4
<1>3. s.transaction # NoSale =>
          s.transaction \in DOMAIN charge' /\ charge'[s.transaction] = charge[s.transaction]
    BY DEF PaymentInv, Kept
<1>4. s.pc = "freeOn" =>
          FreeInvoice \in DOMAIN invoice' /\ invoice'[FreeInvoice] = invoice[FreeInvoice]
    BY DEF PaymentInv, Kept
<1>5. s.pc \notin {"idle", "done"} => FullPrice(s.user)' = FullPrice(s.user)
    BY <1>1, PriceKept DEF FullPrice
<1> QED
    BY <1>1, <1>2, <1>3, <1>4, <1>5 DEF PaymentInv, Kept

\* What a payment decided stays decided while it goes on.
LEMMA DecisionKept ==
    ASSUME TypeOK, Kept, NEW p \in Payers, PaymentInv(p),
           payment[p].pc \notin {"idle", "amount", "done"},
           payment'[p].user = payment[p].user, payment'[p].gateway = payment[p].gateway,
           payment'[p].amount = payment[p].amount
    PROVE  /\ payment'[p].user \in DOMAIN link'
           /\ payment'[p].gateway \in Gateway
           /\ (payment[p].amount \in Askable(payment[p].user))'
           /\ FullPrice(payment[p].user)' = FullPrice(payment[p].user)
           /\ payment[p].amount = 0 => FullPrice(payment[p].user) = 0
<1>1. /\ payment[p].user \in DOMAIN link /\ payment[p].gateway \in Gateway
      /\ payment[p].amount \in Askable(payment[p].user)
    BY DEF PaymentInv
<1>2. PICK u, a : u = payment[p].user /\ a = payment[p].amount
    OBVIOUS
<1>3. u \in DOMAIN link /\ a \in Askable(u)
    BY <1>1, <1>2
<1>4. (a \in Askable(u))'
    BY <1>3, DiscountKept
<1>5. (payment[p].amount \in Askable(payment[p].user))' <=> (a \in Askable(u))'
    BY <1>2 DEF Askable, FullPrice, CodesReading
<1>6. FullPrice(payment[p].user)' = FullPrice(payment[p].user)
    BY <1>2, <1>3, PriceKept DEF FullPrice
<1>7. payment[p].amount = 0 => FullPrice(payment[p].user) = 0
    BY DEF PaymentInv
<1> QED
    BY <1>1, <1>4, <1>5, <1>6, <1>7 DEF Kept

\* A payment between its decision and its sale.
LEMMA BeforeSaleInv ==
    ASSUME TypeOK, Kept, NEW p \in Payers, PaymentInv(p),
           payment[p].pc \in {"customer", "vault", "row", "free", "freeOn"},
           NEW pc \in PayPC, payment'[p] = [payment[p] EXCEPT !.pc = pc],
           pc \notin {"idle", "amount", "done", "invoice", "activate"},
           pc = "freeOn" => /\ FreeInvoice \in DOMAIN invoice'
                            /\ invoice'[FreeInvoice].user = payment[p].user,
           pc = "free" => payment[p].amount = 0,
           pc = "answered" => \/ link'[payment[p].user].active
                              \/ payment[p].user \in refused'
                              \/ FullPrice(payment[p].user) = 0
    PROVE  PaymentInv(p)'
<1>1. /\ payment'[p].pc = pc /\ payment'[p].user = payment[p].user
      /\ payment'[p].gateway = payment[p].gateway /\ payment'[p].amount = payment[p].amount
      /\ payment'[p].transaction = payment[p].transaction
    BY DEF TypeOK, PaymentsOK, PayState
<1>2. payment[p].transaction = NoSale
    BY DEF PaymentInv
<1>3. /\ payment'[p].user \in DOMAIN link' /\ payment'[p].gateway \in Gateway
      /\ (payment[p].amount \in Askable(payment[p].user))'
      /\ FullPrice(payment[p].user)' = FullPrice(payment[p].user)
      /\ payment[p].amount = 0 => FullPrice(payment[p].user) = 0
    BY <1>1, DecisionKept
<1> QED
    BY <1>1, <1>2, <1>3 DEF PaymentInv

LEMMA PaySubmitInv ==
    ASSUME TypeOK, Kept, NEW p \in Payers, NEW u \in DOMAIN user, PaySubmit(p, u)
    PROVE  PaymentInv(p)' /\ \A q \in Payers : q # p => payment'[q] = payment[q]
<1>1. payment'[p] = [IdlePayment EXCEPT !.pc = "amount", !.user = u]
      /\ \A q \in Payers : q # p => payment'[q] = payment[q]
    BY DEF PaySubmit, TypeOK, PaymentsOK
<1>2. u \in DOMAIN link'
    BY DEF PaySubmit, TypeOK, TablesOK, tables
<1>3. payment'[p].pc = "amount" /\ payment'[p].user = u /\ payment'[p].transaction = NoSale
    BY <1>1 DEF IdlePayment
<1> QED
    BY <1>1, <1>2, <1>3 DEF PaymentInv

LEMMA PayDecideInv ==
    ASSUME TypeOK, SignupInv, Kept, NEW p \in Payers, PayDecide(p)
    PROVE  PaymentInv(p)' /\ \A q \in Payers : q # p => payment'[q] = payment[q]
<1>1. PICK a \in AmountsAsked(payment[p].user), g \in Gateway :
        payment' = [payment EXCEPT ![p].pc = "customer", ![p].amount = a, ![p].gateway = g]
    BY DEF PayDecide
<1>2. PICK u : u = payment[p].user
    OBVIOUS
<1>3. /\ payment'[p].pc = "customer" /\ payment'[p].user = u
      /\ payment'[p].gateway = g /\ payment'[p].amount = a
      /\ payment'[p].transaction = payment[p].transaction
      /\ \A q \in Payers : q # p => payment'[q] = payment[q]
    BY <1>1, <1>2 DEF TypeOK, PaymentsOK, PayState
<1>4. payment[p].pc = "amount" /\ PaymentInv(p) /\ UNCHANGED tables
    BY DEF PayDecide, SignupInv
<1>5. u \in DOMAIN link /\ u \in DOMAIN link' /\ payment[p].transaction = NoSale
    BY <1>2, <1>4 DEF PaymentInv, Kept
<1>6. (a \in Askable(u))'
    <2>1. a \in AmountsAsked(u)
        BY <1>1, <1>2
    <2>2. a \in Askable(u)
        BY <2>1, DiscountAsked
    <2> QED
        BY <1>5, <2>2, DiscountKept
<1>7. (payment[p].amount \in Askable(payment[p].user))' <=> (a \in Askable(u))'
    BY <1>3 DEF Askable, FullPrice, CodesReading
<1>8. a = 0 => FullPrice(u)' = 0
    <2>1. FullPrice(u)' = FullPrice(u) /\ FullPrice(u) \in Nat
        BY <1>5, PriceKept, AmountsType
    <2>2. a = 0 => Cents(FullPrice(u)) = 0
        BY <1>1, <1>2 DEF AmountsAsked
    <2> QED
        BY <2>1, <2>2 DEF Cents
<1>9. FullPrice(payment[p].user)' = FullPrice(u)'
    BY <1>3 DEF FullPrice
<1> QED
    BY <1>1, <1>3, <1>5, <1>6, <1>7, <1>8, <1>9 DEF PaymentInv

LEMMA PayBeforeSaleInv ==
    ASSUME TypeOK, SignupInv, Kept, NEW p \in Payers,
           \/ PayFindCustomer(p) \/ PayAddCustomer(p) \/ PaySaveCustomer(p)
           \/ PayFree(p) \/ PayFreeActivate(p)
    PROVE  PaymentInv(p)' /\ \A q \in Payers : q # p => payment'[q] = payment[q]
<1>1. PaymentInv(p) /\ payment[p] \in PayState
    BY DEF SignupInv, TypeOK, PaymentsOK
<1>2. UNCHANGED user /\ payment[p].pc \in {"customer", "vault", "row", "free", "freeOn"}
    BY DEF PayFindCustomer, PayAddCustomer, PaySaveCustomer, PayFree, PayFreeActivate, tables
<1>3. PICK pc \in PayPC :
        /\ Go(p, pc)
        /\ pc \notin {"idle", "amount", "done", "invoice", "activate"}
        /\ pc = "freeOn" => /\ FreeInvoice \in DOMAIN invoice'
                            /\ invoice'[FreeInvoice].user = payment[p].user
        /\ pc = "free" => payment[p].amount = 0
        /\ pc = "answered" => \/ link'[payment[p].user].active
                              \/ payment[p].user \in refused'
                              \/ FullPrice(payment[p].user) = 0
    <2>1. CASE PayFindCustomer(p) \/ PaySaveCustomer(p)
        BY <2>1 DEF PayFindCustomer, PaySaveCustomer, Till, PayPC
    <2>2. CASE PayAddCustomer(p)
        BY <2>2 DEF PayAddCustomer, PayPC
    <2>3. CASE PayFree(p)
        <3>1. FullPrice(payment[p].user) = 0
            BY <1>1, <2>3 DEF PayFree, PaymentInv
        <3>2. CASE SaveInvoice(FreeInvoice, payment[p].user, 0) /\ Go(p, "freeOn")
            BY <3>2 DEF SaveInvoice, PayPC
        <3>3. CASE Go(p, "answered")
            BY <3>1, <3>3 DEF PayPC
        <3> QED
            BY <2>3, <3>2, <3>3 DEF PayFree
    <2>4. CASE PayFreeActivate(p)
        <3>1. link'[payment[p].user].active
            BY <2>4, PayerType, SwitchOnType DEF PayFreeActivate
        <3> QED
            BY <2>4, <3>1 DEF PayFreeActivate, PayPC
    <2> QED
        BY <2>1, <2>2, <2>3, <2>4
<1>4. /\ payment'[p] = [payment[p] EXCEPT !.pc = pc]
      /\ \A q \in Payers : q # p => payment'[q] = payment[q]
    BY <1>2, <1>3, PaymentMoves
<1> QED
    BY <1>1, <1>2, <1>3, <1>4, BeforeSaleInv

LEMMA PaySaleInv ==
    ASSUME TypeOK, SignupInv, Kept, NEW p \in Payers, PaySale(p)
    PROVE  /\ PaymentInv(p)' /\ \A q \in Payers : q # p => payment'[q] = payment[q]
           /\ \A t \in DOMAIN charge' \ DOMAIN charge :
                 charge'[t].user = payment[p].user /\ payment'[p].transaction = t
<1> DEFINE t == Len(charge) + 1
           new == [user |-> payment[p].user, gateway |-> payment[p].gateway,
                   amount |-> Sent(payment[p].gateway, payment[p].amount)]
<1>1. PaymentInv(p) /\ payment[p].pc = "sale" /\ payment[p] \in PayState
    BY DEF SignupInv, PaySale, TypeOK, PaymentsOK
<1>2. payment[p].transaction = NoSale
    BY <1>1 DEF PaymentInv
<1>3. /\ t # NoSale
      /\ \/ /\ DOMAIN charge' = DOMAIN charge \cup {t} /\ charge'[t] = new
            /\ payment'[p] = [payment[p] EXCEPT !.pc = "invoice", !.transaction = t]
         \/ /\ UNCHANGED charge
            /\ payment'[p] = [payment[p] EXCEPT !.pc = "answered"]
            /\ refused' = refused \cup {payment[p].user}
      /\ \A q \in Payers : q # p => payment'[q] = payment[q]
    BY SaleShape
<1> HIDE DEF t
<1>4. /\ payment'[p].user = payment[p].user /\ payment'[p].gateway = payment[p].gateway
      /\ payment'[p].amount = payment[p].amount
      /\ \/ /\ payment'[p].pc = "invoice" /\ payment'[p].transaction = t
            /\ DOMAIN charge' = DOMAIN charge \cup {t} /\ charge'[t] = new
         \/ /\ payment'[p].pc = "answered" /\ payment'[p].transaction = NoSale
            /\ payment[p].user \in refused' /\ UNCHANGED charge
    BY <1>1, <1>2, <1>3 DEF PayState
<1>5. /\ payment'[p].user \in DOMAIN link' /\ payment'[p].gateway \in Gateway
      /\ (payment[p].amount \in Askable(payment[p].user))'
      /\ FullPrice(payment[p].user)' = FullPrice(payment[p].user)
      /\ payment[p].amount = 0 => FullPrice(payment[p].user) = 0
    BY <1>1, <1>4, DecisionKept
<1>6. PaymentInv(p)'
    BY <1>3, <1>4, <1>5 DEF PaymentInv
<1>7. \A i \in DOMAIN charge' \ DOMAIN charge :
          charge'[i].user = payment[p].user /\ payment'[p].transaction = i
    BY <1>4
<1> QED
    BY <1>3, <1>6, <1>7

LEMMA PaySettleInv ==
    ASSUME TypeOK, SignupInv, Kept, NEW p \in Payers, PaySaveInvoice(p) \/ PayActivate(p)
    PROVE  PaymentInv(p)' /\ \A q \in Payers : q # p => payment'[q] = payment[q]
<1>1. PaymentInv(p) /\ payment[p] \in PayState /\ payment[p].pc \in {"invoice", "activate"}
    BY DEF SignupInv, TypeOK, PaymentsOK, PaySaveInvoice, PayActivate
<1>2. PICK pc \in {"activate", "answered"} :
        /\ Go(p, pc)
        /\ pc = "answered" => link'[payment[p].user].active
        /\ UNCHANGED <<user, charge>>
    <2>1. CASE PaySaveInvoice(p)
        BY <2>1 DEF PaySaveInvoice
    <2>2. CASE PayActivate(p)
        <3>1. link'[payment[p].user].active
            BY <2>2, PayerType, SwitchOnType DEF PayActivate
        <3> QED
            BY <2>2, <3>1 DEF PayActivate
    <2> QED
        BY <2>1, <2>2
<1>3. /\ payment'[p] = [payment[p] EXCEPT !.pc = pc]
      /\ \A q \in Payers : q # p => payment'[q] = payment[q]
    BY <1>2, PaymentMoves DEF PayPC
<1>4. /\ payment'[p].pc = pc /\ payment'[p].user = payment[p].user
      /\ payment'[p].gateway = payment[p].gateway /\ payment'[p].amount = payment[p].amount
      /\ payment'[p].transaction = payment[p].transaction
    BY <1>1, <1>3 DEF PayState
<1>5. /\ payment'[p].user \in DOMAIN link' /\ payment'[p].gateway \in Gateway
      /\ (payment[p].amount \in Askable(payment[p].user))'
      /\ FullPrice(payment[p].user)' = FullPrice(payment[p].user)
      /\ payment[p].amount = 0 => FullPrice(payment[p].user) = 0
    BY <1>1, <1>4, DecisionKept
<1>6. PaymentInv(p)'
    BY <1>1, <1>2, <1>4, <1>5 DEF PaymentInv
<1> QED
    BY <1>3, <1>6

LEMMA PayEndInv ==
    ASSUME TypeOK, NEW p \in Payers, PayDeleteToken(p) \/ PayDie(p)
    PROVE  PaymentInv(p)' /\ \A q \in Payers : q # p => payment'[q] = payment[q]
<1>1. UNCHANGED user /\ EndPayment(p)
    BY DEF PayDeleteToken, PayDie, tables
<1>2. /\ payment'[p].pc = "done" /\ payment'[p].transaction = NoSale
      /\ \A q \in Payers : q # p => payment'[q] = payment[q]
    BY <1>1, PaymentEnds
<1> QED
    BY <1>2 DEF PaymentInv

LEMMA PayStepInv ==
    ASSUME TypeOK, SignupInv, Kept, NEW p \in Payers, PayStep(p) \/ PayDie(p)
    PROVE  PaymentInv(p)' /\ \A q \in Payers : q # p => payment'[q] = payment[q]
    BY PaySubmitInv, PayDecideInv, PayBeforeSaleInv, PaySaleInv, PaySettleInv, PayEndInv
       DEF PayStep

LEMMA PaymentsStep ==
    ASSUME TypeOK, SignupInv, [Next]_vars
    PROVE  /\ \A p \in Payers : PaymentInv(p)'
           /\ \A t \in DOMAIN charge' : charge'[t].user \in DOMAIN link'
<1>1. Kept /\ \A p \in Payers : PaymentInv(p)
    BY NextKept DEF SignupInv
<1>2. ASSUME NEW p \in Payers, PayStep(p) \/ PayDie(p)
      PROVE  PaymentInv(p)' /\ \A q \in Payers : q # p => payment'[q] = payment[q]
    BY <1>1, <1>2, PayStepInv
<1>3. ASSUME NEW p \in Payers, payment'[p] = payment[p] PROVE PaymentInv(p)'
    BY <1>1, <1>3, OtherPayment
<1>4. (\A p \in Payers : payment'[p] = payment[p]) \/ \E p \in Payers : PayStep(p) \/ PayDie(p)
    BY DEF Next, payVars, vars
<1>5. \A p \in Payers : PaymentInv(p)'
    BY <1>2, <1>3, <1>4
<1>6. ASSUME NEW t \in DOMAIN charge' PROVE charge'[t].user \in DOMAIN link'
    <2>1. CASE t \in DOMAIN charge
        BY <1>1, <2>1 DEF SignupInv, Kept
    <2>2. CASE t \notin DOMAIN charge
        <3>1. PICK p \in Payers : PaySale(p)
            BY <1>6, <2>2 DEF Next, PayStep, vars, PaySubmit, PayDecide, PayFindCustomer,
               PayAddCustomer, PaySaveCustomer, PayFree, PayFreeActivate, PaySaveInvoice,
               PayActivate, PayDeleteToken, PayDie
        <3>2. charge'[t].user = payment[p].user
            BY <1>1, <1>6, <2>2, <3>1, PaySaleInv
        <3>3. payment[p].user \in DOMAIN link
            BY <3>1, PayerType DEF PaySale
        <3> QED
            BY <1>1, <3>2, <3>3 DEF Kept
    <2> QED
        BY <2>1, <2>2
<1> QED
    BY <1>5, <1>6

(***************************************************************************)
(* The invariant                                                           *)
(***************************************************************************)

LEMMA InitSignup == Init => TypeOK /\ SignupInv
<1> SUFFICES ASSUME Init PROVE TypeOK /\ SignupInv
    OBVIOUS
<1>1. TablesOK
    BY SignupBounds DEF Init, InitTables, TablesOK, Link
<1>2. FormsOK
    BY DEF Init, InitForms, FormsOK, FormState, FormPC, IdleForm
<1>3. PaymentsOK
    BY DEF Init, InitPayments, PaymentsOK, PayState, PayPC, IdlePayment
<1>4. FormsInv
    <2>1. \A f \in Forms : form[f].pc = "idle" /\ form[f].user = NoUser /\ form[f].text = None
        BY DEF Init, InitForms, IdleForm
    <2> QED
        BY <2>1 DEF FormsInv, FormInv
<1>5. ASSUME NEW p \in Payers PROVE PaymentInv(p)
    <2>1. payment[p].pc = "idle" /\ payment[p].transaction = NoSale
        BY DEF Init, InitPayments, IdlePayment
    <2> QED
        BY <2>1 DEF PaymentInv
<1>6. DOMAIN charge = {}
    BY DEF Init, InitTables
<1> QED
    BY <1>1, <1>2, <1>3, <1>4, <1>5, <1>6 DEF TypeOK, SignupInv

LEMMA SignupStep == TypeOK /\ SignupInv /\ [Next]_vars => TypeOK' /\ SignupInv'
    BY TypeStep, FormsStep, PaymentsStep DEF SignupInv

\* What every reachable state of registrations and payments satisfies.
THEOREM SignupInvHolds == Spec => [](TypeOK /\ SignupInv)
    BY InitSignup, SignupStep, PTL DEF Spec

\* Signup is type correct.
THEOREM SignupTypeCorrect == Spec => []TypeOK
    BY SignupInvHolds, PTL

(***************************************************************************)
(* What follows                                                            *)
(***************************************************************************)

\* Only a payment switches a link on.
LEMMA OnlyPaymentSwitchesOn ==
    ASSUME TypeOK, SignupInv, [Next]_vars, NEW u \in DOMAIN link', link'[u].active,
           ~(u \in DOMAIN link /\ link[u].active)
    PROVE  \E p \in Payers : (PayActivate(p) \/ PayFreeActivate(p)) /\ payment[p].user = u
<1>1. link' # link
    OBVIOUS
<1>2. ASSUME NEW f \in Forms, FormStep(f) \/ FormDie(f) PROVE FALSE
    <2>1. FormCreateLink(f)
        BY <1>1, <1>2 DEF FormStep, FormSubmit, FormCreateUser, FormRedeem, FormSendToken,
           FormDie, tables
    <2>2. u \in DOMAIN link => link'[u] = link[u] \/ ~link'[u].active
        BY <2>1 DEF FormCreateLink
    <2>3. u \notin DOMAIN link => ~link'[u].active
        BY <2>1 DEF FormCreateLink
    <2> QED
        BY <2>2, <2>3
<1>3. ASSUME NEW p \in Payers, PayStep(p) \/ PayDie(p)
      PROVE  (PayActivate(p) \/ PayFreeActivate(p)) /\ payment[p].user = u
    <2>1. PayActivate(p) \/ PayFreeActivate(p)
        BY <1>1, <1>3 DEF PayStep, PaySubmit, PayDecide, PayFindCustomer, PayAddCustomer,
           PaySaveCustomer, PayFree, PaySale, PaySaveInvoice, PayDeleteToken, PayDie, tables
    <2>2. payment[p].user \in DOMAIN link /\ SwitchOn(payment[p].user)
        BY <2>1, PayerType DEF PayActivate, PayFreeActivate
    <2> QED
        BY <2>1, <2>2, SwitchOnType
<1> QED
    BY <1>1, <1>2, <1>3 DEF Next, vars

\* A link is on only if its user was charged or has the free invoice
\* (ActiveIsPaid, for every value of the constants).
THEOREM SwitchedOnIsPaid == Spec => []ActiveIsPaid
<1>1. Init => ActiveIsPaid
    BY DEF Init, InitTables, ActiveIsPaid
<1>2. TypeOK /\ SignupInv /\ ActiveIsPaid /\ [Next]_vars => ActiveIsPaid'
    <2> SUFFICES ASSUME TypeOK, SignupInv, ActiveIsPaid, [Next]_vars,
                        NEW u \in DOMAIN link', link'[u].active
                 PROVE  \/ \E t \in DOMAIN charge' : charge'[t].user = u
                        \/ FreeInvoice \in DOMAIN invoice' /\ invoice'[FreeInvoice].user = u
        BY DEF ActiveIsPaid
    <2>1. Kept
        BY NextKept
    <2>2. \/ \E t \in DOMAIN charge : charge[t].user = u
          \/ FreeInvoice \in DOMAIN invoice /\ invoice[FreeInvoice].user = u
        <3>1. CASE u \in DOMAIN link /\ link[u].active
            BY <3>1 DEF ActiveIsPaid
        <3>2. CASE ~(u \in DOMAIN link /\ link[u].active)
            <4>1. PICK p \in Payers : (PayActivate(p) \/ PayFreeActivate(p)) /\ payment[p].user = u
                BY <3>2, OnlyPaymentSwitchesOn
            <4>2. PaymentInv(p)
                BY DEF SignupInv
            <4>3. payment[p].transaction # NoSale => charge[payment[p].transaction].user = u
                BY <4>1, <4>2 DEF PaymentInv
            <4> QED
                BY <4>1, <4>2, <4>3 DEF PaymentInv, PayActivate, PayFreeActivate
        <3> QED
            BY <3>1, <3>2
    <2> QED
        BY <2>1, <2>2 DEF Kept
<1> QED
    BY <1>1, <1>2, SignupInvHolds, PTL DEF Spec

\* Only a sale charges.
LEMMA OnlySaleCharges ==
    ASSUME TypeOK, SignupInv, [Next]_vars, NEW t \in DOMAIN charge', t \notin DOMAIN charge
    PROVE  \E p \in Payers : PaySale(p)
<1>1. charge' # charge
    OBVIOUS
<1> QED
    BY <1>1 DEF Next, PayStep, vars, PaySubmit, PayDecide, PayFindCustomer, PayAddCustomer,
       PaySaveCustomer, PayFree, PayFreeActivate, PaySaveInvoice, PayActivate, PayDeleteToken,
       PayDie

\* Who was charged gets the link, dead processes aside (PaidIsOn, for every
\* value of the constants).
THEOREM ChargedIsOn == Spec => []PaidIsOn
<1>1. Init => PaidIsOn
    BY DEF Init, InitTables, PaidIsOn
<1>2. TypeOK /\ SignupInv /\ PaidIsOn /\ [Next]_vars => PaidIsOn'
    <2> SUFFICES ASSUME TypeOK, SignupInv, PaidIsOn, [Next]_vars, NEW t \in DOMAIN charge'
                 PROVE  \/ link'[charge'[t].user].active
                        \/ t \in cutShort'
                        \/ \E p \in Payers : payment'[p].transaction = t
        BY DEF PaidIsOn
    <2>1. Kept
        BY NextKept
    <2>2. CASE t \notin DOMAIN charge
        BY <2>1, <2>2, OnlySaleCharges, PaySaleInv
    <2>3. CASE t \in DOMAIN charge
        <3>1. /\ charge'[t] = charge[t] /\ t # NoSale /\ charge[t].user \in DOMAIN link
              /\ link[charge[t].user].active => link'[charge[t].user].active
              /\ t \in cutShort => t \in cutShort'
            BY <2>1, <2>3, UserIds DEF Kept, SignupInv
        <3>2. ASSUME NEW p \in Payers, payment[p].transaction = t, payment'[p].transaction # t
              PROVE  link[charge[t].user].active \/ t \in cutShort'
            <4>1. /\ payment[p].pc \in {"invoice", "activate", "answered"}
                  /\ charge[t].user = payment[p].user
                  /\ payment[p].pc = "answered" => link[payment[p].user].active
                <5>1. PaymentInv(p)
                    BY DEF SignupInv
                <5>2. /\ payment[p].pc \in {"invoice", "activate", "answered"}
                      /\ payment[p].pc = "answered" => link[payment[p].user].active
                      /\ charge[t] = [user |-> payment[p].user, gateway |-> payment[p].gateway,
                                      amount |-> Sent(payment[p].gateway, payment[p].amount)]
                    BY <3>1, <3>2, <5>1 DEF PaymentInv
                <5> QED
                    BY <5>2
            <4>2. ASSUME NEW q \in Payers, q # p, PayStep(q) \/ PayDie(q) PROVE FALSE
                <5>1. payment'[p] = payment[p]
                    BY <2>1, <4>2, PayStepInv
                <5> QED
                    BY <3>2, <5>1
            <4>3. PayStep(p) \/ PayDie(p)
                BY <3>2, <4>2 DEF Next, vars, payVars
            <4>4. CASE PaySaveInvoice(p) \/ PayActivate(p)
                <5>1. \E pc \in PayPC : payment'[p] = [payment[p] EXCEPT !.pc = pc]
                    BY <4>4, PaymentMoves DEF PaySaveInvoice, PayActivate, PayPC
                <5> QED
                    BY <3>2, <5>1 DEF TypeOK, PaymentsOK, PayState
            <4>5. CASE PayDie(p)
                BY <3>1, <3>2, <4>5 DEF PayDie
            <4>6. CASE PayDeleteToken(p)
                BY <4>1, <4>6 DEF PayDeleteToken
            <4>7. \/ PaySaveInvoice(p) \/ PayActivate(p) \/ PayDie(p) \/ PayDeleteToken(p)
                BY <4>1, <4>3 DEF PayStep, PaySubmit, PayDecide, PayFindCustomer,
                   PayAddCustomer, PaySaveCustomer, PayFree, PayFreeActivate, PaySale
            <4> QED
                BY <4>4, <4>5, <4>6, <4>7
        <3> QED
            BY <2>3, <3>1, <3>2 DEF PaidIsOn
    <2> QED
        BY <2>2, <2>3
<1> QED
    BY <1>1, <1>2, SignupInvHolds, PTL DEF Spec

\* An invoice is of a charge of its user, and shows what was taken to the
\* nearest unit, or the price if it is Stripe's (InvoiceIsCharge, for every
\* value of the constants).
THEOREM InvoicesAreCharges == Spec => []InvoiceIsCharge
<1>1. Init => InvoiceIsCharge
    BY DEF Init, InitTables, InvoiceIsCharge
<1>2. TypeOK /\ SignupInv /\ InvoiceIsCharge /\ [Next]_vars => InvoiceIsCharge'
    <2> SUFFICES ASSUME TypeOK, SignupInv, InvoiceIsCharge, [Next]_vars,
                        NEW t \in DOMAIN invoice', t # FreeInvoice
                 PROVE  /\ t \in DOMAIN charge'
                        /\ invoice'[t].user = charge'[t].user
                        /\ IF charge'[t].gateway = "stripe"
                           THEN invoice'[t].charge = FullPrice(charge[t].user)'
                           ELSE Cents(invoice'[t].charge) - charge'[t].amount \in -50..50
        BY DEF InvoiceIsCharge, Cents
    <2>1. Kept
        BY NextKept
    <2>2. t \in DOMAIN charge => /\ t \in DOMAIN charge' /\ charge'[t] = charge[t]
                                 /\ FullPrice(charge[t].user)' = FullPrice(charge[t].user)
        <3>1. ASSUME t \in DOMAIN charge PROVE FullPrice(charge[t].user)' = FullPrice(charge[t].user)
            <4>1. PICK u : u = charge[t].user
                OBVIOUS
            <4>2. charge'[t].user = u /\ u \in DOMAIN link
                BY <2>1, <3>1, <4>1 DEF Kept, SignupInv
            <4>3. FullPrice(u)' = FullPrice(u)
                BY <2>1, <4>2, PriceKept
            <4> QED
                BY <4>1, <4>2, <4>3 DEF FullPrice
        <3> QED
            BY <2>1, <3>1 DEF Kept
    <2>3. CASE t \in DOMAIN invoice
        <3>1. /\ t \in DOMAIN charge
              /\ invoice[t].user = charge[t].user
              /\ IF charge[t].gateway = "stripe"
                 THEN invoice[t].charge = FullPrice(charge[t].user)
                 ELSE Cents(invoice[t].charge) - charge[t].amount \in -50..50
            BY <2>3 DEF InvoiceIsCharge
        <3>2. invoice'[t] = invoice[t]
            BY <2>1, <2>3 DEF Kept
        <3> QED
            BY <2>2, <3>1, <3>2
    <2>4. CASE t \notin DOMAIN invoice
        <3>1. PICK p \in Payers : PaySaveInvoice(p) \/ PayFree(p)
            <4>1. invoice' # invoice
                BY <2>4
            <4> QED
                BY <4>1 DEF Next, vars, FormStep, FormSubmit, FormCreateUser, FormCreateLink,
                   FormRedeem, FormSendToken, FormDie, PayStep, PaySubmit, PayDecide,
                   PayFindCustomer, PayAddCustomer, PaySaveCustomer, PayFreeActivate, PaySale,
                   PayActivate, PayDeleteToken, PayDie, tables
        <3>2. PaySaveInvoice(p)
            BY <2>4, <3>1 DEF PayFree, SaveInvoice
        <3>3. PICK u, g, a : u = payment[p].user /\ g = payment[p].gateway /\ a = payment[p].amount
            OBVIOUS
        <3>4. /\ t = payment[p].transaction
              /\ invoice'[t] = [user |-> u, charge |-> Rounded(InvoicedAmount(p))]
            <4>1. PICK i, row : /\ i = payment[p].transaction
                                /\ row = [user |-> payment[p].user,
                                          charge |-> Rounded(InvoicedAmount(p))]
                OBVIOUS
            <4>2. \/ DOMAIN invoice' = DOMAIN invoice \cup {i} /\ invoice'[i] = row
                  \/ UNCHANGED invoice
                BY <3>2, <4>1, InvoiceShape
            <4>3. t = i /\ invoice'[i] = row
                BY <2>4, <4>2
            <4> QED
                BY <3>3, <4>1, <4>3
        <3>5. PaymentInv(p)
            BY DEF SignupInv
        <3>6. t \in DOMAIN charge /\ charge[t] = [user |-> u, gateway |-> g, amount |-> Sent(g, a)]
            BY <3>2, <3>3, <3>4, <3>5 DEF PaymentInv, PaySaveInvoice
        <3>7. InvoicedAmount(p) = IF g = "stripe" THEN Cents(FullPrice(u)) ELSE a
            BY <3>3 DEF InvoicedAmount
        <3>8. u \in DOMAIN link /\ a \in Nat
            BY <3>2, <3>3, PayerType DEF PaySaveInvoice
        <3>9. CASE g = "stripe"
            <4>1. invoice'[t].charge = FullPrice(u)
                BY <3>4, <3>7, <3>8, <3>9, AmountsType, CentsType
            <4> QED
                BY <2>2, <3>4, <3>6, <3>9, <4>1
        <3>10. CASE g # "stripe"
            <4>1. invoice'[t].charge = Rounded(a) /\ charge[t].amount = a
                BY <3>4, <3>6, <3>7, <3>10 DEF Sent
            <4>2. Cents(Rounded(a)) - a \in -50..50
                BY <3>8, CentsType
            <4> QED
                BY <2>2, <3>4, <3>6, <3>10, <4>1, <4>2
        <3> QED
            BY <3>9, <3>10
    <2> QED
        BY <2>3, <2>4
<1> QED
    BY <1>1, <1>2, SignupInvHolds, PTL DEF Spec

\* A charge below the price is the price with a code its user holds, contested
\* codes and codes that read the same aside (DiscountIsHeld, for every value of
\* the constants).
THEOREM DiscountsAreHeld == Spec => []DiscountIsHeld
<1>1. Init => DiscountIsHeld
    BY DEF Init, InitTables, DiscountIsHeld
<1>2. TypeOK /\ SignupInv /\ DiscountIsHeld /\ [Next]_vars => DiscountIsHeld'
    <2> SUFFICES ASSUME TypeOK, SignupInv, DiscountIsHeld, [Next]_vars, NEW t \in DOMAIN charge'
                 PROVE  (\E a \in Askable(charge[t].user) :
                            charge[t].amount = Sent(charge[t].gateway, a))'
        BY DEF DiscountIsHeld, Sent
    <2>1. Kept
        BY NextKept
    <2>2. PICK u, g, a :
            /\ u \in DOMAIN link /\ a \in Askable(u)
            /\ charge'[t].user = u /\ charge'[t].gateway = g
            /\ charge'[t].amount = Sent(g, a)
        <3>1. CASE t \in DOMAIN charge
            <4>1. charge'[t] = charge[t] /\ charge[t].user \in DOMAIN link
                BY <2>1, <3>1 DEF Kept, SignupInv
            <4>2. PICK a \in Askable(charge[t].user) :
                    charge[t].amount = Sent(charge[t].gateway, a)
                BY <3>1 DEF DiscountIsHeld
            <4> QED
                BY <4>1, <4>2
        <3>2. CASE t \notin DOMAIN charge
            <4>1. PICK p \in Payers : PaySale(p)
                BY <3>2, OnlySaleCharges
            <4>2. charge'[t] = [user |-> payment[p].user, gateway |-> payment[p].gateway,
                                amount |-> Sent(payment[p].gateway, payment[p].amount)]
                BY <3>2, <4>1, SaleShape
            <4>3. PaymentInv(p)
                BY DEF SignupInv
            <4>4. /\ payment[p].user \in DOMAIN link
                  /\ payment[p].amount \in Askable(payment[p].user)
                BY <4>1, <4>3 DEF PaymentInv, PaySale
            <4> QED
                BY <4>2, <4>4
        <3> QED
            BY <3>1, <3>2
    <2>3. (a \in Askable(u))'
        BY <2>1, <2>2, DiscountKept
    <2>4. (a \in Askable(charge[t].user))'
        BY <2>2, <2>3 DEF Askable, FullPrice, CodesReading
    <2> QED
        BY <2>2, <2>4
<1> QED
    BY <1>1, <1>2, SignupInvHolds, PTL DEF Spec

\* Nobody who has something to pay is left half registered (NobodyIsStranded,
\* for every value of the constants).
THEOREM EveryoneIsServed == Spec => []NobodyIsStranded
<1>1. Init => NobodyIsStranded
    BY DEF Init, InitTables, NobodyIsStranded
<1>2. TypeOK /\ SignupInv /\ NobodyIsStranded /\ [Next]_vars => NobodyIsStranded'
    <2> SUFFICES ASSUME TypeOK, SignupInv, NobodyIsStranded, [Next]_vars, NEW u \in DOMAIN user'
                 PROVE  \/ u \in token'
                        \/ u \in DOMAIN link' /\ (link'[u].active \/ FullPrice(u)' = 0)
                        \/ u \in refused'
                        \/ \E f \in Forms : form'[f].user = u
                        \/ u \in abandoned'
        BY DEF NobodyIsStranded
    <2>1. Kept
        BY NextKept
    <2>2. CASE u \notin DOMAIN user
        <3>1. PICK f \in Forms : FormCreateUser(f)
            <4>1. user' # user
                BY <2>2
            <4> QED
                BY <4>1 DEF Next, vars, FormStep, FormSubmit, FormCreateLink, FormRedeem,
                   FormSendToken, FormDie, PayStep, PaySubmit, PayDecide, PayFindCustomer,
                   PayAddCustomer, PaySaveCustomer, PayFree, PayFreeActivate, PaySale,
                   PaySaveInvoice, PayActivate, PayDeleteToken, PayDie, tables
        <3>2. /\ user' = Append(user, form[f].email)
              /\ form' = [form EXCEPT ![f].pc = "link", ![f].user = Len(user) + 1]
            BY <2>2, <3>1 DEF FormCreateUser
        <3>3. u = Len(user) + 1
            BY <2>2, <3>2, UserIds DEF TypeOK, TablesOK
        <3>4. form'[f].user = Len(user) + 1
            BY <3>2 DEF TypeOK, FormsOK, FormState
        <3> QED
            BY <3>3, <3>4
    <2>3. CASE u \in token /\ u \notin token'
        <3>1. PICK p \in Payers : PayDeleteToken(p)
            <4>1. \A f \in Forms : FormStep(f) \/ FormDie(f) => u \in token'
                BY <2>3 DEF FormStep, FormSubmit, FormCreateUser, FormCreateLink, FormRedeem,
                   FormSendToken, FormDie, tables
            <4>2. token' # token
                BY <2>3
            <4> QED
                BY <2>3, <4>1, <4>2 DEF Next, vars, PayStep, PaySubmit, PayDecide,
                   PayFindCustomer, PayAddCustomer, PaySaveCustomer, PayFree, PayFreeActivate,
                   PaySale, PaySaveInvoice, PayActivate, PayDie, tables
        <3>2. PaymentInv(p) /\ payment[p].user = u /\ payment[p].pc = "answered"
            BY <2>3, <3>1 DEF SignupInv, PayDeleteToken
        <3> QED
            BY <2>1, <3>2, PriceKept DEF PaymentInv, Kept
    <2>4. CASE \/ u \in DOMAIN link /\ (link[u].active \/ FullPrice(u) = 0)
               \/ u \in refused \/ u \in abandoned
        BY <2>1, <2>4, PriceKept DEF Kept
    <2>5. ASSUME NEW f \in Forms, form[f].user = u, u \in DOMAIN user, form'[f].user # u
          PROVE  u \in token' \/ u \in abandoned'
        <3>1. u # NoUser /\ FormInv(f)
            BY <2>5, UserIds DEF SignupInv, FormsInv
        <3>2. form[f].pc \in {"link", "code", "token"}
            BY <2>5, <3>1 DEF FormInv, TypeOK, FormsOK, FormState, FormPC
        <3>3. FormStep(f) \/ FormDie(f)
            <4>1. ASSUME NEW g \in Forms, g # f, FormStep(g) \/ FormDie(g)
                  PROVE  form'[f] = form[f]
                BY <4>1 DEF FormStep, FormSubmit, FormCreateUser, FormCreateLink, FormRedeem,
                   FormSendToken, FormDie, Goto, EndForm, TypeOK, FormsOK
            <4> QED
                BY <2>5, <4>1 DEF Next, vars, formVars
        <3>4. CASE FormSendToken(f)
            BY <2>5, <3>4 DEF FormSendToken
        <3>5. CASE FormDie(f)
            BY <2>5, <3>1, <3>5 DEF FormDie
        <3>6. CASE FormCreateLink(f) \/ FormRedeem(f)
            <4>1. PICK pc \in FormPC : Goto(f, pc) /\ UNCHANGED user
                BY <3>6 DEF FormCreateLink, FormRedeem, FormPC
            <4>2. form'[f] = [form[f] EXCEPT !.pc = pc]
                BY <4>1, FormMoves
            <4> QED
                BY <2>5, <4>2 DEF TypeOK, FormsOK, FormState
        <3> QED
            BY <3>2, <3>3, <3>4, <3>5, <3>6 DEF FormStep, FormSubmit, FormCreateUser
    <2> QED
        BY <2>2, <2>3, <2>4, <2>5 DEF NobodyIsStranded
<1> QED
    BY <1>1, <1>2, SignupInvHolds, PTL DEF Spec

=============================================================================
