---------------------------- MODULE BillingTypes ----------------------------
(***************************************************************************)
(* Every step of Billing keeps the variables within their types, given the *)
(* invariant of BillingInvariant, for any number of users, subscriptions,  *)
(* cron runs, server processes, links and deaths.                          *)
(***************************************************************************)
EXTENDS Billing, TLAPS

USE DEF Start, NoLink

(***************************************************************************)
(* Type correctness                                                        *)
(***************************************************************************)

Inv == TypeOK /\ BillingInv

\* The rows that are created are rows.
LEMMA NewRowType ==
    ASSUME NEW u \in User, NEW s \in Sub, NEW from \in Nat, NEW to \in Nat
    PROVE  /\ NewRow(u, s, from, to) \in Row
           /\ \A b \in BOOLEAN : [NewRow(u, s, from, to) EXCEPT !.active = b] \in Row
    BY DEF NewRow, Row, Message

LEMMA SignupDaysType ==
    ASSUME NEW s \in Sub, NEW kind
    PROVE  SignupDays(s, kind) \in Nat
    BY CatalogueAssumption DEF SignupDays

LEMMA InitType == Init => TypeOK
<1> SUFFICES ASSUME Init PROVE TypeOK
    OBVIOUS
<1>1. Len(Owner) \in Nat /\ \A i \in 1..Len(Owner) : Owner[i] \in User
    BY StartAssumption
<1>2. PICK sub \in [1..Len(Owner) -> Sub],
           kind \in [1..Len(Owner) -> {"trial", "subscription"}],
           paid \in SUBSET (1..Len(Owner)) :
        /\ link = [i \in 1..Len(Owner) |->
                     [NewRow(Owner[i], sub[i], Start, Start + SignupDays(sub[i], kind[i]))
                        EXCEPT !.active = (i \in paid)]]
        /\ charged = paid
        /\ origin = [i \in 1..Len(Owner) |-> [via |-> "register", of |-> NoLink]]
        /\ nextId = Len(Owner) + 1
        /\ deaths = 0 /\ interrupted = {}
    BY DEF Init, InitTable
<1>3. ASSUME NEW i \in 1..Len(Owner) PROVE link[i] \in Row
    <2>1. Owner[i] \in User /\ sub[i] \in Sub /\ (i \in paid) \in BOOLEAN
        BY <1>1
    <2>2. Start + SignupDays(sub[i], kind[i]) \in Nat
        BY <2>1, SignupDaysType
    <2>3. link[i] = [user |-> Owner[i], sub |-> sub[i],
                     from |-> Start, to |-> Start + SignupDays(sub[i], kind[i]),
                     active |-> (i \in paid), cancelled |-> FALSE,
                     process_message |-> "none"]
        BY <1>2 DEF NewRow
    <2> QED
        BY <2>1, <2>2, <2>3 DEF Row, Message
<1>4. TableOK
    <2>1. link \in [DOMAIN link -> Row] /\ DOMAIN link = 1..Len(Owner)
        BY <1>2, <1>3
    <2>2. /\ DOMAIN origin = 1..(nextId - 1) /\ DOMAIN link \subseteq DOMAIN origin
          /\ nextId \in 1..(MaxLinks + 1)
        BY <1>1, <1>2, <2>1, StartAssumption
    <2>3. \A i \in DOMAIN origin : origin[i] \in Origin
        BY <1>2 DEF Origin
    <2> QED
        BY <1>1, <1>2, <2>1, <2>2, <2>3 DEF TableOK
<1>5. CronOK
    BY DEF Init, InitCron, CronOK, IdleCron, CronState, CronPC, NoElements
<1>6. WorkersOK
    BY DEF Init, InitWorkers, WorkersOK, IdleWorker, WorkerState, WorkerPC
<1> QED
    BY <1>4, <1>5, <1>6, ClockAssumption DEF Init, TypeOK

\* Every id in the table, or ever in it, is below the bound.
LEMMA LinkIds ==
    ASSUME TableOK
    PROVE  DOMAIN link \subseteq LinkId /\ DOMAIN origin \subseteq LinkId
    BY StartAssumption DEF TableOK, LinkId

\* What inserting a row does to the table's type.
LEMMA InsertType ==
    ASSUME TableOK, NEW row \in Row, NEW via, NEW of \in LinkId \cup {NoLink},
           [via |-> via, of |-> of] \in Origin,
           Insert(row, via, of),
           UNCHANGED <<charged, deathVars>>
    PROVE  TableOK' /\ nextId \in LinkId
<1>1. nextId \in LinkId /\ nextId' \in 1..(MaxLinks + 1)
    BY StartAssumption DEF Insert, CanInsert, TableOK, LinkId
<1>2. DOMAIN origin' = 1..(nextId' - 1)
    BY <1>1 DEF Insert, TableOK
<1>3. \A i \in DOMAIN origin' : origin'[i] \in Origin
    BY DEF Insert, TableOK
<1>4. link' \in [DOMAIN link' -> Row]
    BY DEF Insert, TableOK
<1> QED
    BY <1>1, <1>2, <1>3, <1>4 DEF TableOK, Insert, deathVars

LEMMA DeleteType ==
    ASSUME TableOK, NEW l, Delete(l), UNCHANGED <<nextId, charged, origin, deathVars>>
    PROVE  TableOK'
    BY DEF TableOK, Delete, deathVars

LEMMA SetActiveType ==
    ASSUME TableOK, NEW l, NEW flag \in BOOLEAN, SetActive(l, flag),
           UNCHANGED <<nextId, charged, origin, deathVars>>
    PROVE  TableOK'
<1>1. DOMAIN link' = DOMAIN link
    BY DEF TableOK, SetActive
<1>2. ASSUME NEW i \in DOMAIN link
      PROVE  link'[i] \in Row
    <2>1. link[i] \in Row
        BY DEF TableOK
    <2> QED
        BY <2>1 DEF TableOK, SetActive, Row
<1>3. link' = [i \in DOMAIN link' |-> link'[i]]
    BY DEF TableOK, SetActive
<1>4. link' \in [DOMAIN link' -> Row]
    BY <1>1, <1>2, <1>3
<1> QED
    BY <1>1, <1>4 DEF TableOK, deathVars

(***************************************************************************)
(* Type correctness of the cron's steps                                    *)
(***************************************************************************)

\* A step of one run keeps CronOK if the run's new state and list are typed.
LEMMA CronTypeUpdate ==
    ASSUME CronOK, NEW c \in Crons, NEW s \in CronState, NEW h,
           h \in [DOMAIN h -> Element], DOMAIN h \subseteq LinkId,
           cron' = [cron EXCEPT ![c] = s],
           handled' = [handled EXCEPT ![c] = h],
           lastRun' \in Nat, overlapped' \in BOOLEAN
    PROVE  CronOK'
    BY DEF CronOK

\* The element being worked on is one of the list.
LEMMA ElementType ==
    ASSUME CronOK, NEW c \in Crons, NEW l \in DOMAIN handled[c]
    PROVE  /\ handled[c][l] \in Element
           /\ Copy(c, l) \in Row
           /\ Planned(c, l) \in Message
           /\ PrevStage(c, l) \in Message
           /\ l \in LinkId
<1>1. handled[c][l] \in Element /\ l \in LinkId
    BY DEF CronOK
<1> QED
    BY <1>1 DEF Element, Copy, Planned, PrevStage, Row

LEMMA TakeType ==
    ASSUME CronOK, NEW c \in Crons, NEW l \in DOMAIN handled[c],
           NEW m \in Message, NEW pc \in CronPC, NEW new \in LinkId \cup {NoLink},
           NEW found \in LinkId \cup {NoLink},
           Take(c, l, m, pc, new, found), UNCHANGED <<lastRun, overlapped>>
    PROVE  CronOK'
<1> DEFINE s == [cron[c] EXCEPT !.pc = pc, !.cur = l, !.new = new, !.found = found]
           h == [handled[c] EXCEPT ![l].process_message = m]
<1>1. s \in CronState
    <2>1. cron[c] \in CronState /\ l \in LinkId
        BY ElementType DEF CronOK
    <2> QED
        BY <2>1 DEF CronState
<1>2. h \in [DOMAIN h -> Element] /\ DOMAIN h \subseteq LinkId
    <2>1. handled[c] \in [DOMAIN handled[c] -> Element]
        BY DEF CronOK
    <2>2. [handled[c][l] EXCEPT !.process_message = m] \in Element
        BY ElementType DEF Element
    <2> QED
        BY <2>1, <2>2 DEF CronOK
<1>3. cron' = [cron EXCEPT ![c] = s] /\ handled' = [handled EXCEPT ![c] = h]
    BY DEF Take, CronOK
<1> QED
    BY <1>1, <1>2, <1>3, CronTypeUpdate DEF CronOK

\* Moving to another point of the program is a typed step.
LEMMA CronMoveType ==
    ASSUME CronOK, NEW c \in Crons, NEW pc \in CronPC,
           cron' = [cron EXCEPT ![c].pc = pc],
           UNCHANGED <<handled, lastRun, overlapped>>
    PROVE  CronOK'
    BY DEF CronOK, CronState

LEMMA CronStartType ==
    ASSUME TypeOK, NEW c \in Crons, CronStart(c)
    PROVE  CronOK'
<1> DEFINE h == [l \in Handled(now) |->
                   [subscription |-> CopyOf(link[l]), process_message |-> "none"]]
           s == [pc |-> "classify", at |-> now, todo |-> Handled(now),
                 cur |-> NoLink, new |-> NoLink, found |-> NoLink]
<1>1. Handled(now) \subseteq DOMAIN link /\ Handled(now) \subseteq LinkId
    BY LinkIds DEF Handled, DueBy, TypeOK
<1>2. now \in Nat
    BY ClockAssumption DEF TypeOK
<1>3. s \in CronState
    BY <1>1, <1>2 DEF CronState, CronPC
<1>4. ASSUME NEW l \in Handled(now) PROVE h[l] \in Element
    BY <1>1 DEF TypeOK, TableOK, CopyOf, Element, Row, Message
<1>5. h \in [DOMAIN h -> Element] /\ DOMAIN h \subseteq LinkId
    BY <1>1, <1>4
<1>6. lastRun' \in Nat /\ overlapped' \in BOOLEAN
    BY <1>2 DEF CronStart, TypeOK, CronOK
<1>7. cron' = [cron EXCEPT ![c] = s] /\ handled' = [handled EXCEPT ![c] = h]
    BY DEF CronStart
<1> HIDE DEF h, s
<1> QED
    BY <1>3, <1>5, <1>6, <1>7, CronTypeUpdate DEF TypeOK

LEMMA ClassificationType ==
    ASSUME NEW row \in Row, NEW t \in Nat
    PROVE  /\ Classification(row, t) \in NotifyMessage \cup {"expired"}
           /\ Classification(row, t) = "expired" <=> row.to <= t
    BY DEF Classification, Row, NotifyMessage

LEMMA CronClassifyType ==
    ASSUME TypeOK, BillingInv, NEW c \in Crons, NEW l \in cron[c].todo, CronClassify(c, l)
    PROVE  CronOK'
<1> DEFINE s == [cron[c] EXCEPT !.todo = @ \ {l}]
           m == Classification(handled[c][l].subscription, cron[c].at)
           h == [handled[c] EXCEPT ![l].process_message = m]
<1>1. l \in DOMAIN handled[c]
    BY DEF BillingInv, OwnsNew
<1>2. cron[c] \in CronState /\ s \in CronState
    BY DEF TypeOK, CronOK, CronState
<1>3. m \in Message
    BY <1>1, <1>2, ElementType, ClassificationType
       DEF TypeOK, Copy, CronState, Message, ExpiredMessage
<1> HIDE DEF m
<1>4. h \in [DOMAIN h -> Element] /\ DOMAIN h \subseteq LinkId
    BY <1>1, <1>3 DEF TypeOK, CronOK, Element
<1>5. cron' = [cron EXCEPT ![c] = s] /\ handled' = [handled EXCEPT ![c] = h]
    BY DEF CronClassify, TypeOK, CronOK, m
<1> QED
    BY <1>2, <1>4, <1>5, CronTypeUpdate DEF TypeOK, CronOK, CronClassify

LEMMA CronBeginActionsType ==
    ASSUME TypeOK, NEW c \in Crons, CronBeginActions(c)
    PROVE  CronOK'
<1> DEFINE s == [cron[c] EXCEPT !.pc = "act", !.todo = DOMAIN handled[c]]
<1>1. s \in CronState /\ handled[c] \in [DOMAIN handled[c] -> Element]
    BY DEF TypeOK, CronOK, CronState, CronPC
<1>2. cron' = [cron EXCEPT ![c] = s] /\ handled' = [handled EXCEPT ![c] = handled[c]]
    BY DEF CronBeginActions, TypeOK, CronOK
<1> QED
    BY <1>1, <1>2, CronTypeUpdate DEF CronBeginActions, TypeOK, CronOK

LEMMA NextElementType ==
    ASSUME CronOK, NEW c \in Crons, NextElement(c), UNCHANGED <<lastRun, overlapped>>,
           cron[c].todo \subseteq DOMAIN handled[c]
    PROVE  CronOK'
<1> DEFINE todo == cron[c].todo \ {cron[c].cur}
           s == [cron[c] EXCEPT !.pc = "act", !.todo = todo, !.cur = NoLink, !.new = NoLink]
           h == [l \in todo |-> handled[c][l]]
<1>1. s \in CronState
    <2>1. cron[c] \in CronState
        BY DEF CronOK
    <2> QED
        BY <2>1 DEF CronState, CronPC
<1>2. h \in [DOMAIN h -> Element] /\ DOMAIN h \subseteq LinkId
    BY DEF CronOK
<1>3. cron' = [cron EXCEPT ![c] = s] /\ handled' = [handled EXCEPT ![c] = h]
    BY DEF NextElement, CronOK
<1> QED
    BY <1>1, <1>2, <1>3, CronTypeUpdate DEF CronOK

LEMMA EndRunType ==
    ASSUME CronOK, NEW c \in Crons, EndRun(c), UNCHANGED <<lastRun, overlapped>>
    PROVE  CronOK'
<1>1. IdleCron \in CronState
    BY DEF IdleCron, CronState, CronPC
<1>2. NoElements \in [DOMAIN NoElements -> Element] /\ DOMAIN NoElements \subseteq LinkId
    BY DEF NoElements
<1> QED
    BY <1>1, <1>2, CronTypeUpdate DEF EndRun, CronOK

\* The mark leaves a row a row.
LEMMA MarkedType ==
    ASSUME NEW row \in Row, NEW copy \in Row, NEW m \in Message
    PROVE  Marked(row, copy, m) \in Row
    BY DEF Marked, Row

LEMMA CronRenewType ==
    ASSUME TypeOK, BillingInv, NEW c \in Crons, NEW l \in cron[c].todo, CronRenew(c, l)
    PROVE  TableOK' /\ CronOK'
<1> DEFINE old == Copy(c, l)
           at == cron[c].at
           row == NewRow(old.user, old.sub, at, at + Period[old.sub])
           m == RenewStage[PrevStage(c, l)]
<1>1. l \in DOMAIN handled[c] /\ l \in LinkId
    BY ElementType DEF BillingInv, OwnsNew, TypeOK
<1>2. old \in Row /\ at \in Nat
    BY <1>1, ElementType DEF TypeOK, CronOK, CronState
<1>3. row \in Row
    BY <1>2, NewRowType, CatalogueAssumption DEF Row
<1>4. m \in Message
    BY DEF CronRenew, RenewStage, Message, ExpiredMessage
<1>5. UNCHANGED <<charged, deathVars, lastRun, overlapped>>
    BY DEF CronRenew
<1>6. "pay" \in CronPC /\ "mark" \in CronPC
    BY DEF CronPC
<1>7. \/ Insert(row, "renewal", l) /\ Take(c, l, m, "pay", nextId, NoLink)
      \/ Take(c, l, m, "mark", NoLink, NoLink) /\ UNCHANGED <<link, nextId, origin>>
    BY DEF CronRenew
<1> HIDE DEF row, m
<1>8. CASE Insert(row, "renewal", l) /\ Take(c, l, m, "pay", nextId, NoLink)
    <2>1. [via |-> "renewal", of |-> l] \in Origin
        BY <1>1 DEF Origin
    <2>2. TableOK' /\ nextId \in LinkId
        BY <1>1, <1>3, <1>5, <1>8, <2>1, InsertType DEF TypeOK
    <2> QED
        BY <1>1, <1>4, <1>5, <1>6, <1>8, <2>2, TakeType DEF TypeOK
<1>9. CASE Take(c, l, m, "mark", NoLink, NoLink) /\ UNCHANGED <<link, nextId, origin>>
    <2>1. TableOK'
        BY <1>5, <1>9 DEF TypeOK, TableOK, deathVars
    <2> QED
        BY <1>1, <1>4, <1>5, <1>6, <1>9, <2>1, TakeType DEF TypeOK
<1> QED
    BY <1>7, <1>8, <1>9

\* A run that only takes up an element.
LEMMA CronTakesType ==
    ASSUME TypeOK, BillingInv, NEW c \in Crons, NEW l \in cron[c].todo,
           CronNotify(c, l) \/ CronClose(c, l) \/ CronDowngrade(c, l)
    PROVE  TableOK' /\ CronOK'
<1>1. l \in DOMAIN handled[c]
    BY DEF BillingInv, OwnsNew
<1>2. /\ {"mark", "switch"} \subseteq CronPC
      /\ {"expired", "expired_subscription", "expired_downgraded"} \subseteq Message
    BY DEF CronPC, Message, ExpiredMessage
<1>3. CronOK'
    <2>1. ASSUME NEW m \in Message, NEW pc \in {"mark", "switch"},
                 NEW d \in LinkId \cup {NoLink}, Take(c, l, m, pc, NoLink, d),
                 UNCHANGED <<lastRun, overlapped>>
          PROVE  CronOK'
        BY <1>1, <1>2, <2>1, TakeType DEF TypeOK
    <2>2. CASE CronNotify(c, l) \/ CronClose(c, l)
        BY <1>1, <1>2, <2>1, <2>2, ElementType DEF CronNotify, CronClose, TypeOK
    <2>3. CASE CronDowngrade(c, l)
        <3>1. Downgrades(Copy(c, l).user, cron[c].at) \subseteq LinkId
            BY LinkIds DEF Downgrades, LinksOf, TypeOK
        <3> QED
            BY <1>2, <2>1, <2>3, <3>1 DEF CronDowngrade
    <2> QED
        BY <2>2, <2>3
<1>4. TableOK'
    BY DEF CronNotify, CronClose, CronDowngrade, tableVars, TypeOK, TableOK, deathVars
<1> QED
    BY <1>3, <1>4

LEMMA CronSwitchOnType ==
    ASSUME TypeOK, NEW c \in Crons, CronSwitchOn(c)
    PROVE  TableOK' /\ CronOK'
<1> DEFINE s == [cron[c] EXCEPT !.pc = "mark", !.found = NoLink]
<1>1. s \in CronState /\ handled[c] \in [DOMAIN handled[c] -> Element]
    BY DEF TypeOK, CronOK, CronState, CronPC
<1>2. cron' = [cron EXCEPT ![c] = s] /\ handled' = [handled EXCEPT ![c] = handled[c]]
    BY DEF CronSwitchOn, TypeOK, CronOK
<1>3. CronOK'
    BY <1>1, <1>2, CronTypeUpdate DEF CronSwitchOn, TypeOK, CronOK
<1>4. TableOK'
    BY SetActiveType DEF CronSwitchOn, TypeOK
<1> QED
    BY <1>3, <1>4

\* A run that is paying for a renewal or acting on the answer.
LEMMA CronPaysType ==
    ASSUME TypeOK, BillingInv, NEW c \in Crons,
           CronPay(c) \/ CronSettle(c) \/ CronActivate(c) \/ CronDiscard(c)
    PROVE  TableOK' /\ CronOK'
<1>1. {"paid", "declined", "settled", "mark"} \subseteq CronPC
    BY DEF CronPC
<1>2. CronOK'
    <2>1. ASSUME NEW pc \in CronPC, cron' = [cron EXCEPT ![c].pc = pc],
                 UNCHANGED <<handled, lastRun, overlapped>>
          PROVE  CronOK'
        BY <2>1, CronMoveType DEF TypeOK
    <2> QED
        BY <1>1, <2>1 DEF CronPay, CronSettle, CronActivate, CronDiscard
<1>3. CASE CronPay(c)
    <2>1. cron[c].new \in DOMAIN origin
        BY <1>3 DEF CronPay, BillingInv, OwnsNew, PayingPC, TypeOK, TableOK
    <2>2. charged' \subseteq DOMAIN origin
        BY <1>3, <2>1 DEF CronPay, Charge, TypeOK, TableOK
    <2> QED
        BY <1>2, <1>3, <2>2 DEF CronPay, TypeOK, TableOK, deathVars
<1>4. CASE CronSettle(c) \/ CronActivate(c)
    BY <1>2, <1>4, SetActiveType DEF CronSettle, CronActivate, TypeOK
<1>5. CASE CronDiscard(c)
    BY <1>2, <1>5, DeleteType DEF CronDiscard, TypeOK
<1> QED
    BY <1>3, <1>4, <1>5

LEMMA CronMarkType ==
    ASSUME TypeOK, BillingInv, NEW c \in Crons, CronMark(c)
    PROVE  TableOK' /\ CronOK'
<1> DEFINE l == cron[c].cur
<1>1. l \in DOMAIN handled[c] /\ cron[c].todo \subseteq DOMAIN handled[c]
    BY DEF CronMark, BillingInv, OwnsNew
<1>2. CronOK'
    BY <1>1, NextElementType DEF CronMark, TypeOK
<1>3. Marked(link[l], Copy(c, l), Planned(c, l)) \in Row
    BY <1>1, ElementType, MarkedType DEF CronMark, TypeOK, TableOK
<1>4. link' \in [DOMAIN link' -> Row] /\ DOMAIN link' = DOMAIN link
    BY <1>3 DEF CronMark, TypeOK, TableOK
<1> QED
    BY <1>2, <1>4 DEF CronMark, TypeOK, TableOK, deathVars

\* A run that ends, killed or not.
LEMMA CronEndsType ==
    ASSUME TypeOK, BillingInv, NEW c \in Crons,
           CronFinish(c) \/ CronRowGone(c) \/ CronDie(c)
    PROVE  TableOK' /\ CronOK'
<1>1. CronOK'
    BY EndRunType DEF CronFinish, CronRowGone, CronDie, TypeOK
<1>2. CASE CronFinish(c) \/ CronRowGone(c)
    BY <1>1, <1>2 DEF CronFinish, CronRowGone, TypeOK, TableOK, tableVars, deathVars
<1>3. CASE CronDie(c)
    <2>1. {cron[c].new} \ {NoLink} \subseteq DOMAIN origin
        BY DEF BillingInv, OwnsNew
    <2> QED
        BY <1>1, <1>3, <2>1 DEF CronDie, Die, TypeOK, TableOK, tableVars
<1> QED
    BY <1>2, <1>3

LEMMA CronStepType ==
    ASSUME TypeOK, BillingInv, NEW c \in Crons, CronStep(c) \/ CronDie(c)
    PROVE  TableOK' /\ CronOK'
<1>1. ASSUME UNCHANGED <<tableVars, deathVars>>
      PROVE  TableOK'
    BY <1>1 DEF TypeOK, TableOK, tableVars, deathVars
<1>2. CASE CronStart(c)
    BY <1>1, <1>2, CronStartType DEF CronStart
<1>3. CASE CronBeginActions(c)
    BY <1>1, <1>3, CronBeginActionsType DEF CronBeginActions
<1>4. ASSUME NEW l \in cron[c].todo, CronClassify(c, l)
      PROVE  TableOK' /\ CronOK'
    BY <1>1, <1>4, CronClassifyType DEF CronClassify
<1> QED
    BY <1>2, <1>3, <1>4, CronRenewType, CronTakesType, CronSwitchOnType,
       CronPaysType, CronMarkType, CronEndsType DEF CronStep

(***************************************************************************)
(* Type correctness of the requests                                        *)
(***************************************************************************)

LEMMA WorkerUpdate ==
    ASSUME WorkersOK, NEW w \in Workers, NEW s \in WorkerState,
           worker' = [worker EXCEPT ![w] = s], replaced' \subseteq LinkId
    PROVE  WorkersOK'
    BY DEF WorkersOK

\* A link for a user, a subscription and a start date is inserted typed.
LEMMA InsertNewRowType ==
    ASSUME TableOK, NEW u \in User, NEW s \in Sub, NEW from \in Nat,
           NEW via, NEW of \in LinkId \cup {NoLink},
           via \in {"register", "renewal", "upgrade", "renew", "downgrade"},
           Insert(NewRow(u, s, from, from + Period[s]), via, of),
           UNCHANGED <<charged, deathVars>>
    PROVE  TableOK' /\ nextId \in LinkId
<1> DEFINE row == NewRow(u, s, from, from + Period[s])
<1>1. row \in Row
    BY NewRowType, CatalogueAssumption
<1>2. [via |-> via, of |-> of] \in Origin
    BY DEF Origin
<1> HIDE DEF row
<1>3. Insert(row, via, of)
    BY DEF row
<1> QED
    BY <1>1, <1>2, <1>3, InsertType

LEMMA UserRows ==
    ASSUME TableOK, NEW l \in DOMAIN link
    PROVE  link[l].user \in User /\ link[l].to \in Nat /\ l \in LinkId
    BY LinkIds DEF TableOK, Row

LEMMA CancelType ==
    ASSUME TypeOK, NEW l \in DOMAIN link, CancelSubscription(l)
    PROVE  TableOK' /\ WorkersOK'
<1>1. link' \in [DOMAIN link' -> Row] /\ DOMAIN link' = DOMAIN link
    BY DEF CancelSubscription, TypeOK, TableOK, Row
<1> QED
    BY <1>1 DEF CancelSubscription, TypeOK, TableOK, WorkersOK, deathVars, workerVars

LEMMA DowngradeType ==
    ASSUME TypeOK, NEW u \in User, NEW l \in DOMAIN link, NEW s \in Sub,
           DowngradeSave(u, l, s)
    PROVE  TableOK' /\ WorkersOK'
<1>1. link[l].to + Day \in Nat /\ l \in LinkId
    BY UserRows, ClockAssumption DEF TypeOK
<1>2. TableOK'
    BY <1>1, InsertNewRowType DEF DowngradeSave, TypeOK
<1> QED
    BY <1>2 DEF DowngradeSave, TypeOK, WorkersOK, workerVars

LEMMA BeginPaymentType ==
    ASSUME WorkersOK, NEW w \in Workers, NEW old \in LinkId \cup {NoLink},
           NEW flag \in BOOLEAN, nextId \in LinkId, BeginPayment(w, old, flag),
           UNCHANGED replaced
    PROVE  WorkersOK'
<1>1. [pc |-> "pay", old |-> old, oldActive |-> flag, new |-> nextId, error |-> FALSE]
        \in WorkerState
    BY DEF WorkerState, WorkerPC
<1> QED
    BY <1>1, WorkerUpdate DEF BeginPayment, WorkersOK

\* The requests that pay, up to the payment.
LEMMA PaidRequestType ==
    ASSUME TypeOK, NEW w \in Workers,
           \/ \E l \in DOMAIN link : UpgradeSave(w, l)
           \/ UpgradeCreate(w)
           \/ \E u \in User, s \in Sub : RenewSave(w, u, s)
    PROVE  TableOK' /\ WorkersOK'
<1>1. now \in Nat
    BY ClockAssumption DEF TypeOK
<1>2. ASSUME NEW l \in DOMAIN link, UpgradeSave(w, l)
      PROVE  TableOK' /\ WorkersOK'
    <2>1. l \in LinkId /\ link[l].active \in BOOLEAN
        BY UserRows DEF TypeOK, TableOK, Row
    <2>2. [IdleWorker EXCEPT !.pc = "create", !.old = l, !.oldActive = link[l].active]
             \in WorkerState
        BY <2>1 DEF IdleWorker, WorkerState, WorkerPC
    <2>3. WorkersOK'
        BY <1>2, <2>2, WorkerUpdate DEF UpgradeSave, TypeOK, WorkersOK
    <2> QED
        BY <1>2, <2>3 DEF UpgradeSave, TypeOK, TableOK, tableVars, deathVars
<1>4. CASE UpgradeCreate(w)
    <2> DEFINE old == worker[w].old
               flag == worker[w].oldActive
    <2>1. old \in LinkId \cup {NoLink} /\ flag \in BOOLEAN
        BY DEF TypeOK, WorkersOK, WorkerState
    <2>2. UNCHANGED <<charged, deathVars, replaced>>
        BY <1>4 DEF UpgradeCreate
    <2>3. ASSUME NEW u \in User, NEW s \in UpgradeTo,
                 Insert(NewRow(u, s, now, now + Period[s]), "upgrade", old),
                 BeginPayment(w, old, flag)
          PROVE  TableOK' /\ WorkersOK'
        <3>1. s \in Sub
            BY RequestsAssumption
        <3>2. TableOK' /\ nextId \in LinkId
            BY <1>1, <2>1, <2>2, <2>3, <3>1, InsertNewRowType DEF TypeOK
        <3> QED
            BY <2>1, <2>2, <2>3, <3>2, BeginPaymentType DEF TypeOK
    <2>4. CASE /\ worker' = [worker EXCEPT ![w] = IdleWorker]
               /\ UNCHANGED <<link, nextId, origin>>
        <3>1. IdleWorker \in WorkerState
            BY DEF IdleWorker, WorkerState, WorkerPC
        <3>2. WorkersOK'
            BY <2>2, <2>4, <3>1, WorkerUpdate DEF TypeOK, WorkersOK
        <3> QED
            BY <2>2, <2>4, <3>2 DEF TypeOK, TableOK, deathVars
    <2> QED
        BY <1>4, <2>3, <2>4 DEF UpgradeCreate
<1>3. ASSUME NEW u \in User, NEW s \in Sub, RenewSave(w, u, s)
      PROVE  TableOK' /\ WorkersOK'
    <2>1. TableOK' /\ nextId \in LinkId
        BY <1>1, <1>3, InsertNewRowType DEF RenewSave, TypeOK
    <2> QED
        BY <1>3, <2>1, BeginPaymentType DEF RenewSave, TypeOK
<1> QED
    BY <1>2, <1>3, <1>4

LEMMA WorkerMoveType ==
    ASSUME WorkersOK, NEW w \in Workers, NEW pc \in WorkerPC, NEW e \in BOOLEAN,
           \/ worker' = [worker EXCEPT ![w].pc = pc]
           \/ worker' = [worker EXCEPT ![w].pc = pc, ![w].error = e]
           \/ worker' = [worker EXCEPT ![w] = IdleWorker],
           replaced' \subseteq LinkId
    PROVE  WorkersOK'
<1>1. IdleWorker \in WorkerState
    BY DEF IdleWorker, WorkerState, WorkerPC
<1>2. /\ [worker[w] EXCEPT !.pc = pc] \in WorkerState
      /\ [worker[w] EXCEPT !.pc = pc, !.error = e] \in WorkerState
    BY DEF WorkersOK, WorkerState
<1> QED
    BY <1>1, <1>2 DEF WorkersOK

LEMMA WorkerStepType ==
    ASSUME TypeOK, BillingInv, NEW w \in Workers, WorkerStep(w) \/ WorkerDie(w)
    PROVE  TableOK' /\ WorkersOK'
<1>1. {"paid", "answered", "activate", "idle"} \subseteq WorkerPC
    BY DEF WorkerPC
<1>2. replaced \subseteq LinkId
    BY DEF TypeOK, WorkersOK
<1>3. /\ worker[w].pc \notin {"idle", "create"} => worker[w].new \in DOMAIN origin
      /\ worker[w].pc = "create" => worker[w].new = NoLink
    BY DEF BillingInv, PaysForOwn, TypeOK, TableOK
<1>4. CASE WorkerPay(w)
    <2>1. charged' \subseteq DOMAIN origin
        BY <1>3, <1>4 DEF WorkerPay, Charge, TypeOK, TableOK
    <2>2. WorkersOK'
        BY <1>1, <1>2, <1>4, WorkerMoveType DEF WorkerPay, TypeOK
    <2> QED
        BY <1>4, <2>1, <2>2 DEF WorkerPay, TypeOK, TableOK, deathVars
<1>5. CASE WorkerSettle(w) \/ WorkerActivate(w)
    <2>1. WorkersOK'
        BY <1>1, <1>2, <1>5, WorkerMoveType DEF WorkerSettle, WorkerActivate, TypeOK
    <2> QED
        BY <1>5, <2>1, SetActiveType DEF WorkerSettle, WorkerActivate, TypeOK
<1>6. CASE WorkerConclude(w)
    <2>1. WorkerKeep(w) /\ UNCHANGED <<nextId, charged, origin, deathVars>>
        BY <1>6 DEF WorkerConclude, HasErrors
    <2>2. worker[w].old \in LinkId \cup {NoLink}
        BY DEF TypeOK, WorkersOK, WorkerState
    <2>3. replaced' \subseteq LinkId
        BY <1>2, <2>1, <2>2 DEF WorkerKeep
    <2>4. WorkersOK'
        BY <1>1, <2>1, <2>3, WorkerMoveType DEF WorkerKeep, TypeOK
    <2>5. CASE UNCHANGED link
        BY <2>1, <2>4, <2>5 DEF TypeOK, TableOK, deathVars
    <2>6. CASE SetActive(worker[w].old, FALSE)
        BY <2>1, <2>4, <2>6, SetActiveType DEF TypeOK
    <2> QED
        BY <2>1, <2>5, <2>6 DEF WorkerKeep
<1>7. CASE WorkerDie(w)
    <2>1. WorkersOK'
        BY <1>1, <1>2, <1>7, WorkerMoveType DEF WorkerDie, TypeOK
    <2> QED
        BY <1>3, <1>7, <2>1 DEF WorkerDie, Die, TypeOK, TableOK, tableVars
<1> QED
    BY <1>4, <1>5, <1>6, <1>7, PaidRequestType DEF WorkerStep

LEMMA TypeStep == Inv /\ [Next]_vars => TypeOK'
<1> SUFFICES ASSUME Inv, [Next]_vars PROVE TypeOK'
    OBVIOUS
<1>1. TypeOK /\ BillingInv
    BY DEF Inv
<1>2. CASE Tick
    BY <1>1, <1>2, ClockAssumption
       DEF Tick, TypeOK, TableOK, CronOK, WorkersOK, tableVars, deathVars, cronVars, workerVars
<1>3. ASSUME NEW c \in Crons, CronStep(c) \/ CronDie(c), UNCHANGED <<now, workerVars>>
      PROVE  TypeOK'
    BY <1>1, <1>3, CronStepType DEF TypeOK, WorkersOK, workerVars
<1>4. ASSUME UNCHANGED <<now, cronVars>>, TableOK', WorkersOK'
      PROVE  TypeOK'
    BY <1>1, <1>4 DEF TypeOK, CronOK, cronVars
<1>5. ASSUME NEW w \in Workers, WorkerStep(w) \/ WorkerDie(w), UNCHANGED <<now, cronVars>>
      PROVE  TypeOK'
    BY <1>1, <1>4, <1>5, WorkerStepType
<1>6. CASE Request /\ UNCHANGED <<now, cronVars>>
    BY <1>1, <1>4, <1>6, CancelType, DowngradeType, PaidRequestType DEF Request
<1>7. CASE UNCHANGED vars
    BY <1>1, <1>7 DEF vars, TypeOK, TableOK, CronOK, WorkersOK
<1> QED
    BY <1>2, <1>3, <1>5, <1>6, <1>7 DEF Next, CronAct, WorkerAct

=============================================================================
