----------------------------- MODULE LinkTable -----------------------------
(***************************************************************************)
(* The link_user_subscription table: one row per period that a user is, or *)
(* was, or will be subscribed to something.  The cron run and the web      *)
(* requests share it without transactions or locks; this module holds the  *)
(* rows, the queries both sides make, and the two facts about the outside  *)
(* world the properties need (which links a card was really charged for,   *)
(* and which operation created each link).                                 *)
(***************************************************************************)
EXTENDS Integers, Sequences

CONSTANTS
    User,         \* users of the installation
    Sub,          \* subscription catalogue
    Period,       \* Period[s]: length of a paid period, in clock ticks
    TrialPeriod,  \* TrialPeriod[s]: length of the trial, 0 when there is none
    AutoRenew,    \* AutoRenew[s]: the has_auto_renew flag
    Day,          \* clock ticks in a day
    Owner,        \* Owner[i]: the user of the i-th link existing at the start
    MaxTime,      \* bound: the clock stops here
    MaxLinks,     \* bound: links ever created
    MaxDeaths     \* bound: processes that die in the middle of their work

ASSUME CatalogueAssumption ==
    /\ Period \in [Sub -> Nat \ {0}]
    /\ TrialPeriod \in [Sub -> Nat]
    /\ AutoRenew \in [Sub -> BOOLEAN]

ASSUME ClockAssumption == Day \in Nat \ {0} /\ MaxTime \in Nat \ {0}

ASSUME StartAssumption ==
    /\ MaxLinks \in Nat /\ MaxDeaths \in Nat
    /\ Owner \in Seq(User)
    /\ Len(Owner) <= MaxLinks

VARIABLES
    now,      \* the wall clock all processes read
    link,     \* the rows: a function whose domain is the ids present
    nextId,   \* the AUTO_INCREMENT counter
    charged,  \* history: ids of the links a card was charged for
    origin,   \* history: which operation created an id, and for which link
    deaths,      \* history: how many processes died
    interrupted  \* history: links whose creating process died unfinished

tableVars == <<link, nextId, charged, origin>>
deathVars == <<deaths, interrupted>>

LinkId == 1..MaxLinks
NoLink == 0
Start == 1

NotifyMessage ==
    {"notify_expiring_subscription", "notify_expiring_trial_period",
     "notify_auto_renew", "notify_downgrading"}

\* The messages that match /expired/, with which a link is switched off.
ExpiredMessage ==
    {"expired", "expired_subscription", "expired_trial",
     "expired_auto_renew", "expired_downgraded"}

Message == {"none"} \cup NotifyMessage \cup ExpiredMessage

Row == [user : User, sub : Sub, from : Nat, to : Nat,
        active : BOOLEAN, cancelled : BOOLEAN, process_message : Message]

Origin == [via : {"register", "renewal", "upgrade", "renew", "downgrade"},
           of : LinkId \cup {NoLink}]

LinksOf(u) == {l \in DOMAIN link : link[l].user = u}

\* What was created to follow link l when its period ended.
Renewals(l) == {i \in DOMAIN origin : origin[i] = [via |-> "renewal", of |-> l]}

(***************************************************************************)
(* Queries                                                                 *)
(***************************************************************************)

\* Links whose end date is at or before t, whatever their flags say.
DueBy(t) == {l \in DOMAIN link : link[l].to <= t}

Downgrades_AnyStart(u, t) ==   \* fault: the start date is not compared
    {l \in LinksOf(u) : ~link[l].active /\ ~link[l].cancelled}

\* What the cron takes for a downgrade waiting to start: any inactive,
\* not cancelled link of the user that starts at or after t.
Downgrades(u, t) ==
    {l \in LinksOf(u) : /\ link[l].from >= t
                        /\ ~link[l].active
                        /\ ~link[l].cancelled}

(***************************************************************************)
(* Updates                                                                 *)
(***************************************************************************)

NewRow(u, s, from, to) ==
    [user |-> u, sub |-> s, from |-> from, to |-> to,
     active |-> FALSE, cancelled |-> FALSE, process_message |-> "none"]

CanInsert == nextId <= MaxLinks

\* create() of a row that starts inactive; its id is nextId.
Insert(row, via, of) ==
    /\ CanInsert
    /\ link' = [i \in DOMAIN link \cup {nextId} |->
                    IF i = nextId THEN row ELSE link[i]]
    /\ origin' = [i \in DOMAIN origin \cup {nextId} |->
                    IF i = nextId THEN [via |-> via, of |-> of] ELSE origin[i]]
    /\ nextId' = nextId + 1

Delete_Forgotten(l) == UNCHANGED link   \* fault: the row is left there

Delete(l) == link' = [i \in DOMAIN link \ {l} |-> link[i]]

SetActive(l, flag) == link' = [link EXCEPT ![l].active = flag]

(***************************************************************************)
(* The gateway, as its callers see it: the card is charged or refused, and *)
(* on success the gateway helper itself switches the link on.              *)
(***************************************************************************)

Charge(l) == charged' = charged \cup {l}

(***************************************************************************)
(* A process that is killed, or that dies of an exception nobody catches   *)
(* (a query or a gateway call that fails), leaves the link it was creating *)
(* as it is.  Deaths happen before the clock's bound, so that a later run  *)
(* of the cron always follows one.                                         *)
(***************************************************************************)

Die(unfinished) ==
    /\ deaths < MaxDeaths
    /\ now < MaxTime
    /\ deaths' = deaths + 1
    /\ interrupted' = interrupted \cup (unfinished \ {NoLink})

(***************************************************************************)
(* Initial rows: one link per entry of Owner as registration leaves it,    *)
(* paid and active, or still waiting for the payment form.                 *)
(***************************************************************************)

\* A trial is offered, beside the paid period, for the subscriptions that have one.
SignupDays(s, kind) ==
    IF kind = "trial" /\ TrialPeriod[s] > 0 THEN TrialPeriod[s] ELSE Period[s]

InitTable ==
    \E sub \in [1..Len(Owner) -> Sub],
       kind \in [1..Len(Owner) -> {"trial", "subscription"}],
       paid \in SUBSET (1..Len(Owner)) :
        /\ link = [i \in 1..Len(Owner) |->
                     [NewRow(Owner[i], sub[i], Start, Start + SignupDays(sub[i], kind[i]))
                        EXCEPT !.active = (i \in paid)]]
        /\ charged = paid
        /\ origin = [i \in 1..Len(Owner) |-> [via |-> "register", of |-> NoLink]]
        /\ nextId = Len(Owner) + 1
        /\ deaths = 0 /\ interrupted = {}

TableOK ==
    /\ link \in [DOMAIN link -> Row]
    /\ nextId \in 1..(MaxLinks + 1)
    /\ DOMAIN origin = 1..(nextId - 1)
    /\ \A i \in DOMAIN origin : origin[i] \in Origin
    /\ DOMAIN link \subseteq DOMAIN origin
    /\ charged \subseteq DOMAIN origin
    /\ deaths \in Nat
    /\ interrupted \subseteq DOMAIN origin

=============================================================================
