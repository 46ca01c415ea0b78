---------------------------- MODULE SignupTables ----------------------------
(***************************************************************************)
(* The tables a visitor goes through to become a paying customer: users,   *)
(* their first link, registration tokens, discount codes, the customers    *)
(* known to each payment gateway, and invoices.  A registration creates    *)
(* one user, one link and one token, so the three share the user's id.     *)
(***************************************************************************)
EXTENDS Integers, Sequences, FiniteSets

CONSTANTS
    Email,      \* addresses visitors register with
    Sub,        \* subscription catalogue
    Price,      \* Price[s], in whole units
    Code,       \* rows of the code table
    CodeText,   \* CodeText[k]: what a visitor types to use k
    Amount,     \* Amount[k][s]: price of s with the discount of k's campaign,
                \* in cents; 0 when nothing is left or it is not for s
    MaxDeaths   \* bound: processes that die in the middle of a request

ASSUME PriceAssumption ==
    /\ Price \in [Sub -> Nat]
    /\ Amount \in [Code -> [Sub -> Nat]]

ASSUME SignupBounds == MaxDeaths \in Nat

Gateway == {"braintree", "stripe", "authorize"}
NoUser == 0
None == "none"
Text == {CodeText[k] : k \in Code}

VARIABLES
    user,       \* the e-mail address of each user
    link,       \* the link of each user that has one already
    token,      \* users whose registration token is still there
    redeemedBy, \* the user each code was redeemed by
    customer,   \* users that have a row in each gateway's customer table
    vault,      \* users each gateway itself knows as customers
    invoice,    \* invoices by the gateway's transaction id
    charge,     \* history: what the gateways took, in cents, by transaction id
    deaths      \* history: how many processes died

tables == <<user, link, token, redeemedBy, customer, invoice>>

\* The id that every invoice of a free subscription gets.
FreeInvoice == 0

Link == [subscription : Sub, active : BOOLEAN]
Charge == [user : DOMAIN user, gateway : Gateway, amount : Nat]
Invoice == [user : DOMAIN user, charge : Nat]

(***************************************************************************)
(* Queries                                                                 *)
(***************************************************************************)

EmailTaken(e) == \E u \in DOMAIN user : user[u] = e

\* The rows a search by text may return first.
CodesReading(t) == {k \in Code : CodeText[k] = t}

DiscountCodeNotUsed_Unchecked(t) == TRUE   \* fault: any code that exists

\* The first code with that text was not redeemed (no code is always fine).
DiscountCodeNotUsed(t) ==
    t = None \/ \E k \in CodesReading(t) : redeemedBy[k] = NoUser

FullPrice(u) == Price[link[u].subscription]

Cents(units) == 100 * units

\* What amount_with_discount may answer, in cents: the price with a code the
\* user has redeemed, while its campaign runs; a percentage leaves fractions.
\* A caller reads 0 as no answer, and asks for the full price.
AmountsAsked(u) ==
    {Cents(FullPrice(u))} \cup
    ({Amount[k][link[u].subscription] : k \in {c \in Code : redeemedBy[c] = u}} \ {0})

(***************************************************************************)
(* Invoices                                                                *)
(***************************************************************************)

\* The column invoice.charge holds whole units: MySQL rounds what it is given.
\* PostgreSQL refuses a fraction, which is one of the ways a save fails.
Rounded(cents) == (cents + 50) \div 100

\* An insert with an id already present violates the table's unique key.
SaveInvoice(id, u, cents) ==
    /\ id \notin DOMAIN invoice
    /\ invoice' = [i \in DOMAIN invoice \cup {id} |->
                     IF i = id THEN [user |-> u, charge |-> Rounded(cents)]
                     ELSE invoice[i]]

InitTables ==
    /\ user = <<>> /\ link = <<>> /\ token = {}
    /\ redeemedBy = [k \in Code |-> NoUser]
    /\ customer = [g \in Gateway |-> {}]
    /\ vault = [g \in Gateway |-> {}]
    /\ invoice = [i \in {} |-> {}]
    /\ charge = <<>>
    /\ deaths = 0

TablesOK ==
    /\ user \in Seq(Email)
    /\ link \in [DOMAIN link -> Link] /\ DOMAIN link \subseteq DOMAIN user
    /\ token \subseteq DOMAIN link
    /\ redeemedBy \in [Code -> DOMAIN user \cup {NoUser}]
    /\ customer \in [Gateway -> SUBSET DOMAIN link]
    /\ vault \in [Gateway -> SUBSET DOMAIN link]
    /\ charge \in Seq(Charge)
    /\ invoice \in [DOMAIN invoice -> Invoice]
    /\ DOMAIN invoice \subseteq {FreeInvoice} \cup DOMAIN charge
    /\ deaths \in 0..MaxDeaths

\* A process killed, or ended by an exception nobody catches.
Die == deaths < MaxDeaths /\ deaths' = deaths + 1

=============================================================================
