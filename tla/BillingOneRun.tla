--------------------------- MODULE BillingOneRun ---------------------------
(***************************************************************************)
(* The safety of renewals: the marks that one cron run leaves in the table *)
(* tell the next what has been paid for.  OneRunInv is inductive together  *)
(* with the invariant of BillingInvariant, for any number of cron runs of  *)
(* which no two are in progress at once, and of requests beside them.      *)
(***************************************************************************)
EXTENDS BillingInvariant

USE DEF Start, NoLink

(***************************************************************************)
(* What a step does to the rows                                            *)
(***************************************************************************)

\* Rows keep their dates and messages; a new one is open and inactive.
RowsKeep ==
    \A l \in DOMAIN link' :
        \/ /\ l \in DOMAIN link
           /\ link'[l].from = link[l].from
           /\ link'[l].to = link[l].to
           /\ link'[l].process_message = link[l].process_message
        \/ /\ l = nextId
           /\ link'[l].from < link'[l].to
           /\ link'[l].process_message = "none"
           /\ ~link'[l].active

LEMMA SameRowsKeep ==
    ASSUME UNCHANGED link
    PROVE  RowsKeep
    BY DEF RowsKeep

LEMMA SetActiveRowsKeep ==
    ASSUME TableOK, NEW l, NEW flag, SetActive(l, flag)
    PROVE  RowsKeep
    BY DEF SetActive, RowsKeep, TableOK, Row

LEMMA DeleteRowsKeep ==
    ASSUME NEW l, Delete(l)
    PROVE  RowsKeep
    BY DEF Delete, RowsKeep

LEMMA InsertRowsKeep ==
    ASSUME TableOK, NEW u, NEW s \in Sub, NEW from \in Nat, NEW via, NEW of,
           Insert(NewRow(u, s, from, from + Period[s]), via, of), UNCHANGED charged
    PROVE  /\ RowsKeep
           /\ link'[nextId].from = from
<1> DEFINE row == NewRow(u, s, from, from + Period[s])
<1>1. /\ DOMAIN link' = DOMAIN link \cup {nextId}
      /\ link'[nextId] = row
      /\ \A l \in DOMAIN link : link'[l] = link[l]
    BY InsertGrows
<1>2. row.from = from /\ row.from < row.to /\ row.process_message = "none" /\ ~row.active
    BY CatalogueAssumption DEF NewRow
<1> HIDE DEF row
<1> QED
    BY <1>1, <1>2 DEF RowsKeep

\* A request or a worker's step adds at most one row, which is no renewal.
LEMMA RequestRows ==
    ASSUME TypeOK, BillingInv,
           Request \/ \E w \in Workers : WorkerStep(w) \/ WorkerDie(w)
    PROVE  /\ RowsKeep
           /\ \A l \in DOMAIN link' \ DOMAIN link : origin'[l].via # "renewal"
<1>1. TableOK /\ now \in Nat
    BY NowType DEF TypeOK
<1>2. ASSUME NEW l \in DOMAIN link, CancelSubscription(l)
      PROVE  RowsKeep /\ DOMAIN link' = DOMAIN link
    BY <1>1, <1>2 DEF CancelSubscription, RowsKeep, TableOK, Row
<1>3. ASSUME NEW u, NEW s \in Sub, NEW from \in Nat, NEW of,
             NEW via \in {"upgrade", "renew", "downgrade"}, UNCHANGED charged,
             Insert(NewRow(u, s, from, from + Period[s]), via, of)
      PROVE  /\ RowsKeep
             /\ \A l \in DOMAIN link' \ DOMAIN link : origin'[l].via # "renewal"
    <2>1. /\ DOMAIN link' = DOMAIN link \cup {nextId}
          /\ origin'[nextId] = [via |-> via, of |-> of]
        BY <1>1, <1>3, InsertGrows
    <2>2. RowsKeep
        BY <1>1, <1>3, InsertRowsKeep
    <2> QED
        BY <2>1, <2>2
<1>4. ASSUME NEW u \in User, NEW l \in DOMAIN link, NEW s \in Sub, DowngradeSave(u, l, s)
      PROVE  \E from \in Nat :
                /\ Insert(NewRow(u, s, from, from + Period[s]), "downgrade", l)
                /\ UNCHANGED charged
    <2>1. link[l].to + Day \in Nat
        BY <1>1, UserRows, ClockAssumption
    <2> QED
        BY <1>4, <2>1 DEF DowngradeSave
<1>5. CASE \E w \in Workers : WorkerStep(w) \/ WorkerDie(w)
    <2>1. ASSUME UNCHANGED link \/ \E l, flag : SetActive(l, flag)
          PROVE  RowsKeep /\ DOMAIN link' = DOMAIN link
        <3>1. DOMAIN link' = DOMAIN link
            BY <2>1 DEF SetActive
        <3> QED
            BY <1>1, <2>1, <3>1, SameRowsKeep, SetActiveRowsKeep
    <2>2. PICK w \in Workers : WorkerStep(w) \/ WorkerDie(w)
        BY <1>5
    <2>3. CASE ~UpgradeCreate(w)
        <3>1. UNCHANGED link \/ \E l, flag : SetActive(l, flag)
            BY <2>2, <2>3 DEF WorkerStep, WorkerPay, WorkerSettle, WorkerConclude, WorkerKeep,
                              HasErrors, WorkerActivate, WorkerDie, tableVars
        <3> QED
            BY <2>1, <3>1
    <2>4. CASE UpgradeCreate(w)
        <3>1. CASE UNCHANGED link
            BY <2>1, <3>1
        <3>2. CASE ~UNCHANGED link
            <4>1. PICK u \in User, s \in UpgradeTo :
                     Insert(NewRow(u, s, now, now + Period[s]), "upgrade", worker[w].old)
                BY <2>4, <3>2 DEF UpgradeCreate
            <4>2. s \in Sub /\ UNCHANGED charged
                BY <2>4, RequestsAssumption DEF UpgradeCreate
            <4> QED
                BY <1>1, <1>3, <4>1, <4>2
        <3> QED
            BY <3>1, <3>2
    <2> QED
        BY <2>3, <2>4
<1>6. ASSUME NEW w \in Workers, NEW l \in DOMAIN link, UpgradeSave(w, l)
      PROVE  UNCHANGED link
    BY <1>6 DEF UpgradeSave, tableVars
<1>7. ASSUME NEW w \in Workers, NEW u \in User, NEW s \in Sub, RenewSave(w, u, s)
      PROVE  /\ Insert(NewRow(u, s, now, now + Period[s]), "renew", NoLink)
             /\ UNCHANGED charged
    BY <1>7 DEF RenewSave
<1>8. CASE Request
    <2>1. CASE \E l \in DOMAIN link : CancelSubscription(l)
        BY <1>2, <2>1
    <2>2. CASE \E u \in User, l \in DOMAIN link, s \in Sub : DowngradeSave(u, l, s)
        <3>1. PICK u \in User, l \in DOMAIN link, s \in Sub : DowngradeSave(u, l, s)
            BY <2>2
        <3> QED
            BY <1>3, <1>4, <3>1
    <2>3. CASE \E w \in Workers, l \in DOMAIN link : UpgradeSave(w, l)
        BY <1>6, <2>3, SameRowsKeep
    <2>4. CASE \E w \in Workers, u \in User, s \in Sub : RenewSave(w, u, s)
        <3>1. PICK w \in Workers, u \in User, s \in Sub : RenewSave(w, u, s)
            BY <2>4
        <3>2. /\ Insert(NewRow(u, s, now, now + Period[s]), "renew", NoLink)
              /\ UNCHANGED charged
            BY <1>7, <3>1
        <3> QED
            BY <1>1, <1>3, <3>2
    <2> QED
        BY <1>8, <2>1, <2>2, <2>3, <2>4 DEF Request
<1> QED
    BY <1>5, <1>8

\* So does a step of a run, unless it is the mark; a new row is a renewal that
\* starts when the run did.
LEMMA CronRows ==
    ASSUME TypeOK, BillingInv, NEW c \in Crons, CronStep(c) \/ CronDie(c), ~CronMark(c)
    PROVE  /\ RowsKeep
           /\ nextId \in DOMAIN link' =>
                 /\ link'[nextId].from = cron[c].at
                 /\ \E l \in cron[c].todo : CronRenew(c, l)
<1>1. TableOK /\ cron[c].at \in Nat /\ nextId \notin DOMAIN link
    BY AtType, NextIdIsNew DEF TypeOK
<1>2. ASSUME UNCHANGED link \/ (\E l, flag : SetActive(l, flag)) \/ (\E l : Delete(l))
      PROVE  RowsKeep /\ nextId \notin DOMAIN link'
    <2>1. nextId \notin DOMAIN link'
        BY <1>1, <1>2 DEF SetActive, Delete
    <2> QED
        BY <1>1, <1>2, <2>1, SameRowsKeep, SetActiveRowsKeep, DeleteRowsKeep
<1>3. ASSUME NEW l \in cron[c].todo, CronRenew(c, l)
      PROVE  RowsKeep /\ (nextId \in DOMAIN link' => link'[nextId].from = cron[c].at)
    <2>1. Copy(c, l).sub \in Sub
        BY ElementType DEF BillingInv, OwnsNew, TypeOK, Row
    <2>2. \/ UNCHANGED link
          \/ /\ Insert(NewRow(Copy(c, l).user, Copy(c, l).sub, cron[c].at,
                              cron[c].at + Period[Copy(c, l).sub]), "renewal", l)
             /\ UNCHANGED charged
        BY <1>3 DEF CronRenew
    <2> QED
        BY <1>1, <1>2, <2>1, <2>2, InsertRowsKeep
<1>4. \/ UNCHANGED link \/ (\E l, flag : SetActive(l, flag)) \/ (\E l : Delete(l))
      \/ \E l \in cron[c].todo : CronRenew(c, l)
    BY DEF CronStep, CronDie, CronStart, CronBeginActions, CronFinish, CronRowGone,
           CronClassify, CronNotify, CronClose, CronDowngrade, CronSwitchOn, CronPay,
           CronSettle, CronActivate, CronDiscard, SetActive, Delete, tableVars
<1> QED
    BY <1>2, <1>3, <1>4

(***************************************************************************)
(* Stages follow the dates                                                 *)
(***************************************************************************)

\* The rows of the table after a step that keeps them.
LEMMA RowsKeepDates ==
    ASSUME TypeOK, DatesInv, RowsKeep, Grows, lastRun' \in Nat, lastRun <= lastRun',
           interrupted' = interrupted \/ now < MaxTime,
           nextId \notin interrupted',
           nextId \in DOMAIN link' =>
              (origin'[nextId].via = "renewal" => link'[nextId].from <= lastRun')
    PROVE  \A l \in DOMAIN link' : RowDates(l)' /\ RenewalDates(l)'
<1>1. TableOK /\ now \in Nat /\ lastRun \in Nat /\ lastRun <= now /\ MaxTime \in Nat
    BY NowType, ClockAssumption DEF TypeOK, CronOK, DatesInv
<1>2. ASSUME NEW l \in DOMAIN link', l \in DOMAIN link
      PROVE  RowDates(l)' /\ RenewalDates(l)'
    <2>1. /\ link'[l].from = link[l].from
          /\ link'[l].to = link[l].to
          /\ link'[l].process_message = link[l].process_message
        BY <1>1, <1>2, NextIdIsNew DEF RowsKeep
    <2>2. origin'[l] = origin[l]
        BY <1>1, <1>2 DEF Grows, TableOK
    <2>3. RowDates(l) /\ RenewalDates(l)
        BY <1>2 DEF DatesInv
    <2>4. link[l].from \in Nat /\ link[l].to \in Nat
        BY <1>1, <1>2 DEF TableOK, Row
    <2>5. RowDates(l)'
        BY <1>1, <2>1, <2>3, <2>4 DEF RowDates
    <2>6. RenewalDates(l)'
        BY <1>1, <2>1, <2>2, <2>3, <2>4 DEF RenewalDates
    <2> QED
        BY <2>5, <2>6
<1>3. ASSUME NEW l \in DOMAIN link', l \notin DOMAIN link
      PROVE  RowDates(l)' /\ RenewalDates(l)'
    <2>1. l = nextId /\ link'[l].from < link'[l].to /\ link'[l].process_message = "none"
        BY <1>3 DEF RowsKeep
    <2> QED
        BY <1>3, <2>1 DEF RowDates, RenewalDates, ExpiredMessage
<1> QED
    BY <1>2, <1>3

\* A run that does not move.
LEMMA OtherListDates ==
    ASSUME TypeOK, BillingInv, DatesInv, NEW c \in Crons,
           cron'[c] = cron[c], handled'[c] = handled[c], Grows,
           lastRun' \in Nat, lastRun <= lastRun'
    PROVE  ListFollowsDates(c)' /\ PaysForElement(c)'
<1>1. ListFollowsDates(c) /\ PaysForElement(c) /\ OwnsNew(c)
    BY DEF DatesInv, BillingInv
<1>2. cron[c].at <= lastRun'
    BY <1>1, AtType DEF ListFollowsDates, TypeOK, CronOK
<1>3. ListFollowsDates(c)'
    BY <1>1, <1>2 DEF ListFollowsDates, Decided, Copy, Planned, PrevStage
<1>4. PaysForElement(c)'
    BY <1>1 DEF PaysForElement, OwnsNew, Grows, Planned, PrevStage, Copy
<1> QED
    BY <1>3, <1>4

\* A run that takes up an element, seen field by field.
LEMMA TakeShape ==
    ASSUME CronOK, NEW c \in Crons, NEW l \in DOMAIN handled[c],
           NEW m, NEW pc, NEW new, NEW found, Take(c, l, m, pc, new, found)
    PROVE  /\ cron'[c].pc = pc /\ cron'[c].cur = l /\ cron'[c].new = new
           /\ cron'[c].at = cron[c].at /\ cron'[c].todo = cron[c].todo
           /\ DOMAIN handled'[c] = DOMAIN handled[c]
           /\ \A i \in DOMAIN handled[c] :
                 /\ handled'[c][i].subscription = handled[c][i].subscription
                 /\ handled'[c][i].process_message =
                       IF i = l THEN m ELSE handled[c][i].process_message
           /\ \A d \in Crons : d # c => cron'[d] = cron[d] /\ handled'[d] = handled[d]
<1>1. handled[c] \in [DOMAIN handled[c] -> Element] /\ cron[c] \in CronState
    BY DEF CronOK
<1>2. /\ handled'[c] = [handled[c] EXCEPT ![l].process_message = m]
      /\ cron'[c] = [cron[c] EXCEPT !.pc = pc, !.cur = l, !.new = new, !.found = found]
      /\ \A d \in Crons : d # c => cron'[d] = cron[d] /\ handled'[d] = handled[d]
    BY DEF Take, CronOK
<1>3. /\ cron'[c].pc = pc /\ cron'[c].cur = l /\ cron'[c].new = new
      /\ cron'[c].at = cron[c].at /\ cron'[c].todo = cron[c].todo
    BY <1>1, <1>2 DEF CronState
<1>4. DOMAIN handled'[c] = DOMAIN handled[c]
    BY <1>2
<1>5. ASSUME NEW i \in DOMAIN handled[c]
      PROVE  /\ handled'[c][i].subscription = handled[c][i].subscription
             /\ handled'[c][i].process_message = IF i = l THEN m
                                                 ELSE handled[c][i].process_message
    BY <1>1, <1>2 DEF Element
<1> QED
    BY <1>2, <1>3, <1>4, <1>5

\* The other steps of a run, field by field.
LEMMA StartShape ==
    ASSUME TypeOK, NEW c \in Crons, CronStart(c)
    PROVE  /\ cron'[c] = [pc |-> "classify", at |-> now, todo |-> Handled(now),
                          cur |-> NoLink, new |-> NoLink, found |-> NoLink]
           /\ DOMAIN handled'[c] = Handled(now) /\ Handled(now) \subseteq DOMAIN link
           /\ \A l \in Handled(now) :
                 /\ handled'[c][l].process_message = "none"
                 /\ handled'[c][l].subscription.to = link[l].to
                 /\ handled'[c][l].subscription.active = link[l].active
                 /\ handled'[c][l].subscription.process_message = link[l].process_message
           /\ \A d \in Crons : d # c => cron'[d] = cron[d] /\ handled'[d] = handled[d]
           /\ lastRun' = now /\ UNCHANGED <<link, nextId, charged, origin, interrupted>>
<1> DEFINE list == [l \in Handled(now) |->
                      [subscription |-> CopyOf(link[l]), process_message |-> "none"]]
<1>1. /\ cron'[c] = [pc |-> "classify", at |-> now, todo |-> Handled(now),
                     cur |-> NoLink, new |-> NoLink, found |-> NoLink]
      /\ handled'[c] = list
      /\ \A d \in Crons : d # c => cron'[d] = cron[d] /\ handled'[d] = handled[d]
      /\ lastRun' = now /\ UNCHANGED <<link, nextId, charged, origin, interrupted>>
    BY DEF CronStart, TypeOK, CronOK, tableVars, deathVars
<1>2. Handled(now) \subseteq DOMAIN link
    BY DEF Handled, DueBy
<1>3. ASSUME NEW l \in Handled(now)
      PROVE  /\ list[l].process_message = "none"
             /\ list[l].subscription.to = link[l].to
             /\ list[l].subscription.active = link[l].active
             /\ list[l].subscription.process_message = link[l].process_message
    BY <1>2 DEF CopyOf, TypeOK, TableOK, Row
<1>4. DOMAIN list = Handled(now)
    OBVIOUS
<1> HIDE DEF list
<1> QED
    BY <1>1, <1>2, <1>3, <1>4

LEMMA ClassifyShape ==
    ASSUME TypeOK, BillingInv, NEW c \in Crons, NEW l \in cron[c].todo, CronClassify(c, l)
    PROVE  /\ cron[c].pc = "classify" /\ cron'[c].pc = "classify"
           /\ cron'[c].at = cron[c].at /\ cron'[c].new = cron[c].new
           /\ cron'[c].cur = cron[c].cur
           /\ cron'[c].todo = cron[c].todo \ {l}
           /\ l \in DOMAIN handled[c] /\ DOMAIN handled'[c] = DOMAIN handled[c]
           /\ \A i \in DOMAIN handled[c] :
                 /\ handled'[c][i].subscription = handled[c][i].subscription
                 /\ i # l => handled'[c][i].process_message = handled[c][i].process_message
           /\ handled'[c][l].process_message \in ExpiredMessage <=> Copy(c, l).to <= cron[c].at
           /\ handled'[c][l].process_message # "none"
           /\ handled'[c][l].process_message \in Message
           /\ \A d \in Crons : d # c => cron'[d] = cron[d] /\ handled'[d] = handled[d]
           /\ UNCHANGED <<link, nextId, charged, origin, interrupted, lastRun, overlapped>>
<1> DEFINE m == Classification(handled[c][l].subscription, cron[c].at)
<1>1. l \in DOMAIN handled[c]
    BY DEF BillingInv, OwnsNew
<1>2. handled[c] \in [DOMAIN handled[c] -> Element] /\ cron[c] \in CronState
    BY DEF TypeOK, CronOK
<1>3. /\ handled'[c] = [handled[c] EXCEPT ![l].process_message = m]
      /\ cron'[c] = [cron[c] EXCEPT !.todo = cron[c].todo \ {l}]
      /\ \A d \in Crons : d # c => cron'[d] = cron[d] /\ handled'[d] = handled[d]
      /\ UNCHANGED <<link, nextId, charged, origin, interrupted, lastRun, overlapped>>
      /\ cron[c].pc = "classify"
    BY DEF CronClassify, TypeOK, CronOK, tableVars, deathVars
<1>4. /\ m \in ExpiredMessage <=> Copy(c, l).to <= cron[c].at
      /\ m # "none" /\ m \in Message
    <2>1. handled[c][l].subscription \in Row
        BY <1>1, <1>2 DEF Element
    <2>2. m \in NotifyMessage \cup {"expired"}
          /\ (m = "expired" <=> handled[c][l].subscription.to <= cron[c].at)
        BY <2>1, AtType, ClassificationType
    <2> QED
        BY <2>2 DEF NotifyMessage, ExpiredMessage, Copy, Message
<1> HIDE DEF m
<1>5. /\ cron'[c].pc = "classify" /\ cron'[c].at = cron[c].at /\ cron'[c].new = cron[c].new
      /\ cron'[c].cur = cron[c].cur /\ cron'[c].todo = cron[c].todo \ {l}
    BY <1>2, <1>3 DEF CronState
<1>6. ASSUME NEW i \in DOMAIN handled[c]
      PROVE  /\ handled'[c][i].subscription = handled[c][i].subscription
             /\ handled'[c][i].process_message = IF i = l THEN m
                                                 ELSE handled[c][i].process_message
    BY <1>2, <1>3 DEF Element
<1>7. DOMAIN handled'[c] = DOMAIN handled[c]
    BY <1>3
<1> QED
    BY <1>1, <1>3, <1>4, <1>5, <1>6, <1>7

LEMMA MoveShape ==
    ASSUME CronOK, NEW c \in Crons, NEW pc, cron' = [cron EXCEPT ![c].pc = pc]
    PROVE  /\ cron'[c].pc = pc /\ cron'[c].new = cron[c].new /\ cron'[c].at = cron[c].at
           /\ cron'[c].todo = cron[c].todo /\ cron'[c].cur = cron[c].cur
           /\ \A d \in Crons : d # c => cron'[d] = cron[d]
    BY DEF CronOK, CronState

LEMMA SwitchShape ==
    ASSUME CronOK, NEW c \in Crons, CronSwitchOn(c)
    PROVE  /\ cron[c].pc = "switch" /\ cron'[c].pc = "mark"
           /\ cron'[c].new = cron[c].new /\ cron'[c].at = cron[c].at
           /\ cron'[c].todo = cron[c].todo /\ cron'[c].cur = cron[c].cur
           /\ \A d \in Crons : d # c => cron'[d] = cron[d]
           /\ UNCHANGED <<handled, origin, charged, interrupted, lastRun, overlapped>>
<1>1. /\ cron'[c] = [cron[c] EXCEPT !.pc = "mark", !.found = NoLink]
      /\ \A d \in Crons : d # c => cron'[d] = cron[d]
      /\ cron[c].pc = "switch"
      /\ UNCHANGED <<handled, origin, charged, interrupted, lastRun, overlapped>>
    BY DEF CronSwitchOn, CronOK, deathVars
<1>2. cron[c] \in CronState
    BY DEF CronOK
<1> QED
    BY <1>1, <1>2 DEF CronState

LEMMA BeginShape ==
    ASSUME CronOK, NEW c \in Crons, CronBeginActions(c)
    PROVE  /\ cron[c].pc = "classify" /\ cron[c].todo = {}
           /\ cron'[c].pc = "act" /\ cron'[c].new = cron[c].new /\ cron'[c].at = cron[c].at
           /\ cron'[c].cur = cron[c].cur /\ cron'[c].todo = DOMAIN handled[c]
           /\ \A d \in Crons : d # c => cron'[d] = cron[d]
           /\ UNCHANGED <<handled, link, nextId, charged, origin, interrupted, lastRun, overlapped>>
    BY DEF CronOK, CronState, CronBeginActions, tableVars, deathVars

LEMMA NextShape ==
    ASSUME CronOK, NEW c \in Crons, NextElement(c), cron[c].todo \subseteq DOMAIN handled[c]
    PROVE  /\ cron'[c].pc = "act" /\ cron'[c].new = NoLink /\ cron'[c].at = cron[c].at
           /\ cron'[c].cur = NoLink /\ cron'[c].todo = cron[c].todo \ {cron[c].cur}
           /\ DOMAIN handled'[c] = cron[c].todo \ {cron[c].cur}
           /\ \A i \in DOMAIN handled'[c] : handled'[c][i] = handled[c][i]
           /\ \A d \in Crons : d # c => cron'[d] = cron[d] /\ handled'[d] = handled[d]
<1> DEFINE todo == cron[c].todo \ {cron[c].cur}
<1>1. /\ cron'[c] = [cron[c] EXCEPT !.pc = "act", !.todo = todo,
                                    !.cur = NoLink, !.new = NoLink]
      /\ handled'[c] = [l \in todo |-> handled[c][l]]
      /\ \A d \in Crons : d # c => cron'[d] = cron[d] /\ handled'[d] = handled[d]
    BY DEF NextElement, CronOK
<1>2. cron[c] \in CronState
    BY DEF CronOK
<1> QED
    BY <1>1, <1>2 DEF CronState

LEMMA EndShape ==
    ASSUME CronOK, NEW c \in Crons, EndRun(c)
    PROVE  /\ cron'[c] = IdleCron /\ cron'[c].new = NoLink /\ cron'[c].at = 0
           /\ cron'[c].pc = "idle" /\ DOMAIN handled'[c] = {}
           /\ \A d \in Crons : d # c => cron'[d] = cron[d] /\ handled'[d] = handled[d]
    BY DEF EndRun, IdleCron, NoElements, CronOK

\* Taking up an element keeps to the dates if its message stays expired or not.
LEMMA TakeDates ==
    ASSUME TypeOK, BillingInv, DatesInv, NEW c \in Crons, NEW l \in cron[c].todo,
           NEW m, NEW pc, NEW new, NEW found, Take(c, l, m, pc, new, found),
           cron[c].pc = "act",
           m \in ExpiredMessage <=> Planned(c, l) \in ExpiredMessage,
           m # "none", UNCHANGED lastRun
    PROVE  ListFollowsDates(c)'
<1>1. ListFollowsDates(c) /\ l \in DOMAIN handled[c] /\ CronOK
    BY DEF DatesInv, BillingInv, OwnsNew, TypeOK
<1>2. /\ cron'[c].at = cron[c].at
      /\ DOMAIN handled'[c] = DOMAIN handled[c]
      /\ \A i \in DOMAIN handled[c] :
            /\ handled'[c][i].subscription = handled[c][i].subscription
            /\ handled'[c][i].process_message =
                  IF i = l THEN m ELSE handled[c][i].process_message
    BY <1>1, TakeShape
<1>3. ASSUME NEW i \in DOMAIN handled[c]
      PROVE  /\ handled'[c][i].process_message \in ExpiredMessage
                   <=> Copy(c, i).to <= cron[c].at
             /\ handled'[c][i].process_message # "none"
    BY <1>1, <1>2 DEF ListFollowsDates, Decided, Planned
<1> QED
    BY <1>1, <1>2, <1>3 DEF ListFollowsDates, Copy, Planned, PrevStage

\* What a step of run c leaves of its own part of the invariant.
OwnDates(c) ==
    /\ ListFollowsDates(c)'
    /\ PaysForElement(c)'
    /\ lastRun' \in Nat /\ lastRun <= lastRun' /\ lastRun' <= now

LEMMA CronStartDates ==
    ASSUME TypeOK, BillingInv, DatesInv, NEW c \in Crons, CronStart(c)
    PROVE  OwnDates(c)
<1>1. /\ cron'[c] = [pc |-> "classify", at |-> now, todo |-> Handled(now),
                     cur |-> NoLink, new |-> NoLink, found |-> NoLink]
      /\ DOMAIN handled'[c] = Handled(now) /\ Handled(now) \subseteq DOMAIN link
      /\ \A l \in Handled(now) :
            /\ handled'[c][l].subscription.to = link[l].to
            /\ handled'[c][l].subscription.process_message = link[l].process_message
      /\ lastRun' = now
    BY StartShape
<1>2. now \in Nat /\ lastRun \in Nat /\ lastRun <= now
    BY NowType DEF DatesInv, TypeOK, CronOK
<1>3. ASSUME NEW l \in Handled(now), link[l].process_message \in ExpiredMessage
      PROVE  link[l].to <= now
    <2>1. link[l].to <= lastRun /\ link[l].to \in Nat
        BY <1>1, <1>3, UserRows DEF DatesInv, RowDates, TypeOK
    <2> QED
        BY <1>2, <2>1
<1>4. ListFollowsDates(c)'
    BY <1>1, <1>2, <1>3 DEF ListFollowsDates, Decided, PrevStage, Copy
<1>5. PaysForElement(c)'
    BY <1>1 DEF PaysForElement
<1> QED
    BY <1>1, <1>2, <1>4, <1>5 DEF OwnDates

\* A run that stays within its dates and list.
LEMMA SameOwnDates ==
    ASSUME TypeOK, DatesInv, NEW c \in Crons, UNCHANGED lastRun,
           ListFollowsDates(c)', PaysForElement(c)'
    PROVE  OwnDates(c)
<1>1. lastRun \in Nat /\ lastRun <= now
    BY DEF TypeOK, CronOK, DatesInv
<1> QED
    BY <1>1 DEF OwnDates

LEMMA CronClassifyDates ==
    ASSUME TypeOK, BillingInv, DatesInv, NEW c \in Crons, NEW l \in cron[c].todo,
           CronClassify(c, l)
    PROVE  OwnDates(c)
<1>1. ListFollowsDates(c) /\ OwnsNew(c)
    BY DEF DatesInv, BillingInv
<1>2. /\ cron[c].pc = "classify" /\ cron'[c].pc = "classify"
      /\ cron'[c].at = cron[c].at /\ cron'[c].new = cron[c].new
      /\ cron'[c].todo = cron[c].todo \ {l}
      /\ DOMAIN handled'[c] = DOMAIN handled[c]
      /\ \A i \in DOMAIN handled[c] :
            /\ handled'[c][i].subscription = handled[c][i].subscription
            /\ i # l => handled'[c][i].process_message = handled[c][i].process_message
      /\ handled'[c][l].process_message \in ExpiredMessage <=> Copy(c, l).to <= cron[c].at
      /\ handled'[c][l].process_message # "none"
      /\ UNCHANGED lastRun
    BY ClassifyShape
<1>3. PaysForElement(c)'
    BY <1>1, <1>2 DEF PaysForElement, OwnsNew
<1>4. ListFollowsDates(c)'
    BY <1>1, <1>2 DEF ListFollowsDates, Decided, PrevStage, Copy, Planned
<1> QED
    BY <1>2, <1>3, <1>4, SameOwnDates

LEMMA CronBeginActionsDates ==
    ASSUME TypeOK, BillingInv, DatesInv, NEW c \in Crons, CronBeginActions(c)
    PROVE  OwnDates(c)
<1>1. ListFollowsDates(c) /\ OwnsNew(c)
    BY DEF DatesInv, BillingInv
<1>2. /\ cron[c].pc = "classify" /\ cron[c].todo = {}
      /\ cron'[c].pc = "act" /\ cron'[c].new = cron[c].new /\ cron'[c].at = cron[c].at
      /\ UNCHANGED <<handled, lastRun>>
    BY BeginShape DEF TypeOK
<1>3. PaysForElement(c)'
    BY <1>1, <1>2 DEF PaysForElement, OwnsNew
<1>4. ListFollowsDates(c)'
    BY <1>1, <1>2 DEF ListFollowsDates, Decided, PrevStage, Copy, Planned
<1> QED
    BY <1>2, <1>3, <1>4, SameOwnDates

LEMMA CronTakesDates ==
    ASSUME TypeOK, BillingInv, DatesInv, NEW c \in Crons, NEW l \in cron[c].todo,
           CronNotify(c, l) \/ CronClose(c, l) \/ CronDowngrade(c, l)
    PROVE  OwnDates(c)
<1>1. l \in DOMAIN handled[c] /\ CronOK
    BY DEF BillingInv, OwnsNew, TypeOK
<1>2. PICK m, pc, found : /\ Take(c, l, m, pc, NoLink, found)
                          /\ m \in ExpiredMessage <=> Planned(c, l) \in ExpiredMessage
                          /\ m # "none"
    <2>1. CASE CronNotify(c, l)
        BY <2>1 DEF CronNotify, NotifyMessage
    <2>2. CASE CronClose(c, l) \/ CronDowngrade(c, l)
        <3>1. Planned(c, l) \in ExpiredMessage
            BY <2>2 DEF CronClose, CronDowngrade, ExpiredMessage
        <3>2. \E m, pc, found : Take(c, l, m, pc, NoLink, found) /\ m \in ExpiredMessage
            BY <2>2 DEF CronClose, CronDowngrade, ExpiredMessage
        <3> QED
            BY <3>1, <3>2 DEF ExpiredMessage
    <2> QED
        BY <2>1, <2>2
<1>3. cron[c].pc = "act" /\ UNCHANGED lastRun
    BY DEF CronNotify, CronClose, CronDowngrade, ActsOn
<1>4. ListFollowsDates(c)'
    BY <1>2, <1>3, TakeDates
<1>5. PaysForElement(c)'
    BY <1>1, <1>2, TakeShape DEF PaysForElement
<1> QED
    BY <1>3, <1>4, <1>5, SameOwnDates

LEMMA CronRenewDates ==
    ASSUME TypeOK, BillingInv, DatesInv, NEW c \in Crons, NEW l \in cron[c].todo,
           CronRenew(c, l)
    PROVE  OwnDates(c)
<1>1. /\ l \in DOMAIN handled[c] /\ CronOK /\ TableOK
      /\ cron[c].pc = "act" /\ PrevStage(c, l) \in DOMAIN RenewStage
      /\ Planned(c, l) \in ExpiredMessage /\ UNCHANGED <<lastRun, charged>>
    BY DEF BillingInv, OwnsNew, TypeOK, CronRenew, ActsOn, ExpiredMessage
<1>2. PICK m, pc, new, row :
        /\ Take(c, l, m, pc, new, NoLink)
        /\ m \in ExpiredMessage
        /\ \/ Insert(row, "renewal", l) /\ new = nextId
           \/ new = NoLink
    BY <1>1 DEF CronRenew, RenewStage, ExpiredMessage
<1>3. ListFollowsDates(c)'
    BY <1>1, <1>2, TakeDates DEF ExpiredMessage
<1>4. /\ cron'[c].cur = l /\ cron'[c].new = new
      /\ handled'[c][l].subscription = handled[c][l].subscription
      /\ handled'[c][l].process_message = m
    BY <1>1, <1>2, TakeShape
<1>5. new # NoLink => origin'[new].of = l
    <2>1. CASE Insert(row, "renewal", l) /\ new = nextId
        <3>1. origin'[nextId] = [via |-> "renewal", of |-> l]
            BY <1>1, <2>1, InsertGrows
        <3> QED
            BY <2>1, <3>1
    <2> QED
        BY <1>2, <2>1
<1>6. PaysForElement(c)'
    BY <1>1, <1>2, <1>4, <1>5 DEF PaysForElement, PrevStage, Planned, Copy
<1> QED
    BY <1>1, <1>3, <1>6, SameOwnDates

LEMMA CronSwitchOnDates ==
    ASSUME TypeOK, BillingInv, DatesInv, NEW c \in Crons, CronSwitchOn(c)
    PROVE  OwnDates(c)
<1>1. ListFollowsDates(c) /\ PaysForElement(c) /\ OwnsNew(c)
    BY DEF DatesInv, BillingInv
<1>2. /\ cron[c].pc = "switch" /\ cron'[c].pc = "mark"
      /\ cron'[c].new = cron[c].new /\ cron'[c].at = cron[c].at
      /\ cron'[c].todo = cron[c].todo /\ cron'[c].cur = cron[c].cur
      /\ UNCHANGED <<handled, origin, lastRun>>
    BY SwitchShape DEF TypeOK
<1>3. ListFollowsDates(c)'
    BY <1>1, <1>2 DEF ListFollowsDates, Decided, PrevStage, Copy, Planned
<1>4. PaysForElement(c)'
    BY <1>1, <1>2 DEF PaysForElement, PrevStage, Copy, Planned
<1> QED
    BY <1>2, <1>3, <1>4, SameOwnDates

LEMMA CronPaysDates ==
    ASSUME TypeOK, BillingInv, DatesInv, NEW c \in Crons,
           CronPay(c) \/ CronSettle(c) \/ CronActivate(c) \/ CronDiscard(c)
    PROVE  OwnDates(c)
<1>1. ListFollowsDates(c) /\ PaysForElement(c) /\ OwnsNew(c)
    BY DEF DatesInv, BillingInv
<1>2. PICK pc : pc # "classify" /\ cron' = [cron EXCEPT ![c].pc = pc]
    BY DEF CronPay, CronSettle, CronActivate, CronDiscard
<1>3. UNCHANGED <<handled, origin, lastRun>> /\ cron[c].pc # "classify"
    BY DEF CronPay, CronSettle, CronActivate, CronDiscard
<1>4. cron'[c].pc = pc /\ cron'[c].new = cron[c].new /\ cron'[c].at = cron[c].at
      /\ cron'[c].todo = cron[c].todo /\ cron'[c].cur = cron[c].cur
    BY <1>2, MoveShape DEF TypeOK
<1>5. ListFollowsDates(c)'
    BY <1>1, <1>2, <1>3, <1>4 DEF ListFollowsDates, Decided, PrevStage, Copy, Planned
<1>6. PaysForElement(c)'
    BY <1>1, <1>3, <1>4 DEF PaysForElement, PrevStage, Copy, Planned
<1> QED
    BY <1>3, <1>5, <1>6, SameOwnDates

LEMMA CronMarkDates ==
    ASSUME TypeOK, BillingInv, DatesInv, NEW c \in Crons, CronMark(c)
    PROVE  OwnDates(c)
<1>1. ListFollowsDates(c) /\ cron[c].todo \subseteq DOMAIN handled[c] /\ cron[c].pc = "mark"
    BY DEF DatesInv, BillingInv, OwnsNew, CronMark
<1>2. /\ cron'[c].pc = "act" /\ cron'[c].new = NoLink /\ cron'[c].at = cron[c].at
      /\ DOMAIN handled'[c] \subseteq DOMAIN handled[c]
      /\ \A i \in DOMAIN handled'[c] : handled'[c][i] = handled[c][i]
      /\ UNCHANGED lastRun
    BY <1>1, NextShape DEF CronMark, TypeOK
<1>3. PaysForElement(c)'
    BY <1>2 DEF PaysForElement
<1>4. ListFollowsDates(c)'
    BY <1>1, <1>2 DEF ListFollowsDates, Decided, PrevStage, Copy, Planned
<1> QED
    BY <1>2, <1>3, <1>4, SameOwnDates

LEMMA CronEndsDates ==
    ASSUME TypeOK, BillingInv, DatesInv, NEW c \in Crons,
           CronFinish(c) \/ CronRowGone(c) \/ CronDie(c)
    PROVE  OwnDates(c)
<1>1. /\ cron'[c].new = NoLink /\ cron'[c].at = 0 /\ DOMAIN handled'[c] = {}
      /\ UNCHANGED lastRun /\ lastRun \in Nat
    BY EndShape DEF CronFinish, CronRowGone, CronDie, TypeOK, CronOK
<1>2. PaysForElement(c)' /\ ListFollowsDates(c)'
    BY <1>1 DEF PaysForElement, ListFollowsDates
<1> QED
    BY <1>1, <1>2, SameOwnDates

LEMMA CronOwnDates ==
    ASSUME TypeOK, BillingInv, DatesInv, NEW c \in Crons, CronStep(c) \/ CronDie(c)
    PROVE  OwnDates(c)
    BY CronStartDates, CronClassifyDates, CronBeginActionsDates, CronTakesDates,
       CronRenewDates, CronSwitchOnDates, CronPaysDates, CronMarkDates, CronEndsDates
       DEF CronStep

\* The mark: what it writes, and to which row.
LEMMA MarkShape ==
    ASSUME TypeOK, BillingInv, NEW c \in Crons, CronMark(c)
    PROVE  /\ cron[c].pc = "mark" /\ cron[c].cur \in DOMAIN link
           /\ cron[c].cur \in DOMAIN handled[c]
           /\ Planned(c, cron[c].cur) \in Message
           /\ DOMAIN link' = DOMAIN link
           /\ \A l \in DOMAIN link :
                 /\ link'[l].user = link[l].user
                 /\ link'[l].from = link[l].from
                 /\ link'[l].to = link[l].to
                 /\ link'[l].cancelled = link[l].cancelled
                 /\ l # cron[c].cur => link'[l] = link[l]
           /\ LET l == cron[c].cur IN
                 /\ link'[l].process_message = IF Planned(c, l) = PrevStage(c, l)
                                               THEN link[l].process_message
                                               ELSE Planned(c, l)
                 /\ link'[l].active = IF Planned(c, l) \in ExpiredMessage /\ Copy(c, l).active
                                      THEN FALSE ELSE link[l].active
           /\ UNCHANGED <<nextId, charged, origin, interrupted, lastRun, overlapped>>
<1> DEFINE k == cron[c].cur
           row == Marked(link[k], Copy(c, k), Planned(c, k))
<1>1. /\ cron[c].pc = "mark" /\ k \in DOMAIN link
      /\ link' = [link EXCEPT ![k] = row]
      /\ UNCHANGED <<nextId, charged, origin, interrupted, lastRun, overlapped>>
    BY DEF CronMark, deathVars
<1>2. k \in DOMAIN handled[c]
    BY <1>1 DEF BillingInv, OwnsNew
<1>3. Planned(c, k) \in Message
    BY <1>2, ElementType DEF TypeOK
<1>4. link[k] \in Row
    BY <1>1 DEF TypeOK, TableOK
<1>5. /\ row.user = link[k].user /\ row.from = link[k].from /\ row.to = link[k].to
      /\ row.cancelled = link[k].cancelled
      /\ row.process_message = IF Planned(c, k) = PrevStage(c, k)
                               THEN link[k].process_message ELSE Planned(c, k)
      /\ row.active = IF Planned(c, k) \in ExpiredMessage /\ Copy(c, k).active
                      THEN FALSE ELSE link[k].active
    BY <1>4 DEF Marked, Row, PrevStage
<1> HIDE DEF row
<1>6. DOMAIN link' = DOMAIN link /\ \A l \in DOMAIN link : link'[l] = IF l = k THEN row ELSE link[l]
    BY <1>1
<1> QED
    BY <1>1, <1>2, <1>3, <1>5, <1>6

LEMMA MarkKeepsDates ==
    ASSUME TypeOK, BillingInv, DatesInv, NEW c \in Crons, CronMark(c)
    PROVE  \A l \in DOMAIN link' : RowDates(l)' /\ RenewalDates(l)'
<1> DEFINE k == cron[c].cur
<1>1. /\ DOMAIN link' = DOMAIN link
      /\ \A l \in DOMAIN link :
            /\ link'[l].from = link[l].from
            /\ link'[l].to = link[l].to
            /\ l # k => link'[l] = link[l]
      /\ link'[k].process_message = IF Planned(c, k) = PrevStage(c, k)
                                    THEN link[k].process_message ELSE Planned(c, k)
      /\ k \in DOMAIN link /\ k \in DOMAIN handled[c] /\ cron[c].pc = "mark"
      /\ UNCHANGED <<origin, interrupted, lastRun>>
    BY MarkShape
<1>2. \A l \in DOMAIN link : RowDates(l) /\ RenewalDates(l)
    BY DEF DatesInv
<1>3. Planned(c, k) \in ExpiredMessage => link[k].to <= lastRun
    <2>1. /\ Planned(c, k) \in ExpiredMessage => link[k].to <= cron[c].at
          /\ cron[c].at <= lastRun
        BY <1>1 DEF BillingInv, ListIsCurrent, DatesInv, ListFollowsDates, Planned
    <2>2. link[k].to \in Nat /\ cron[c].at \in Nat /\ lastRun \in Nat
        BY <1>1, AtType, UserRows DEF TypeOK, CronOK
    <2> QED
        BY <2>1, <2>2
<1> HIDE DEF k
<1>4. ASSUME NEW l \in DOMAIN link PROVE RowDates(l)' /\ RenewalDates(l)'
    <2>1. RenewalDates(l)'
        BY <1>1, <1>2 DEF RenewalDates
    <2>2. RowDates(l)'
        BY <1>1, <1>2, <1>3 DEF RowDates
    <2> QED
        BY <2>1, <2>2
<1> QED
    BY <1>1, <1>4

\* Deaths leave the table alone.
LEMMA Interrupted ==
    ASSUME TypeOK, BillingInv, Next
    PROVE  /\ interrupted \subseteq interrupted'
           /\ interrupted' = interrupted \/ (now < MaxTime /\ UNCHANGED <<link, nextId, origin>>)
           /\ nextId \notin interrupted'
<1>1. \/ UNCHANGED interrupted
      \/ \E c \in Crons : CronDie(c)
      \/ \E w \in Workers : WorkerDie(w)
    <2>1. ASSUME NEW c \in Crons, CronStep(c) PROVE UNCHANGED interrupted
        BY <2>1 DEF CronStep, CronStart, CronBeginActions, CronFinish, CronRowGone,
           CronClassify, CronNotify, CronClose, CronDowngrade, CronSwitchOn, CronRenew, CronPay,
           CronSettle, CronActivate, CronDiscard, CronMark, deathVars
    <2>2. ASSUME NEW w \in Workers, WorkerStep(w) PROVE UNCHANGED interrupted
        BY <2>2 DEF WorkerStep, UpgradeCreate, WorkerPay, WorkerSettle, WorkerConclude,
                    WorkerActivate, deathVars
    <2>3. ASSUME Request PROVE UNCHANGED interrupted
        BY <2>3 DEF Request, CancelSubscription, DowngradeSave, UpgradeSave, RenewSave, deathVars
    <2>4. ASSUME Tick PROVE UNCHANGED interrupted
        BY <2>4 DEF Tick, deathVars
    <2> QED
        BY <2>1, <2>2, <2>3, <2>4 DEF Next, CronAct, WorkerAct
<1>2. nextId \notin interrupted
    BY NextIdIsNew DEF TypeOK, TableOK
<1>3. CASE \E c \in Crons : CronDie(c)
    <2>1. PICK c \in Crons : CronDie(c)
        BY <1>3
    <2>2. cron[c].new # nextId
        BY NextIdIsNew DEF BillingInv, OwnsNew, TypeOK
    <2> QED
        BY <1>2, <2>1, <2>2 DEF CronDie, Die, tableVars
<1>4. CASE \E w \in Workers : WorkerDie(w)
    <2>1. PICK w \in Workers : WorkerDie(w)
        BY <1>4
    <2>2. worker[w].new # nextId
        <3>1. worker[w].new = NoLink \/ worker[w].new \in DOMAIN link
            BY <2>1 DEF BillingInv, PaysForOwn, WorkerDie
        <3> QED
            BY <3>1, NextIdIsNew DEF TypeOK
    <2> QED
        BY <1>2, <2>1, <2>2 DEF WorkerDie, Die, tableVars
<1> QED
    BY <1>1, <1>2, <1>3, <1>4

LEMMA RequestKeepsDates ==
    ASSUME TypeOK, BillingInv, DatesInv, Next, UNCHANGED <<now, cronVars>>,
           Request \/ \E w \in Workers : WorkerStep(w) \/ WorkerDie(w)
    PROVE  DatesInv'
<1>1. /\ Grows /\ RowsKeep
      /\ nextId \in DOMAIN link' => origin'[nextId].via # "renewal"
    BY RequestEffects, RequestRows, NextIdIsNew DEF RequestEffect, TypeOK
<1>2. lastRun \in Nat /\ lastRun <= now /\ lastRun' = lastRun
    BY DEF TypeOK, CronOK, DatesInv, cronVars
<1>3. \A l \in DOMAIN link' : RowDates(l)' /\ RenewalDates(l)'
    BY <1>1, <1>2, Interrupted, RowsKeepDates
<1>4. \A c \in Crons : ListFollowsDates(c)' /\ PaysForElement(c)'
    BY <1>1, <1>2, OtherListDates DEF cronVars
<1> QED
    BY <1>2, <1>3, <1>4 DEF DatesInv

LEMMA CronKeepsDates ==
    ASSUME TypeOK, BillingInv, DatesInv, Next, NEW c \in Crons, CronStep(c) \/ CronDie(c),
           UNCHANGED <<now, workerVars>>
    PROVE  DatesInv'
<1>1. CronEffect(c) /\ Grows
    BY CronStepInv DEF CronEffect
<1>2. /\ lastRun' \in Nat /\ lastRun <= lastRun' /\ lastRun' <= now
      /\ ListFollowsDates(c)' /\ PaysForElement(c)'
    BY CronOwnDates DEF OwnDates
<1>3. \A l \in DOMAIN link' : RowDates(l)' /\ RenewalDates(l)'
    <2>1. CASE CronMark(c)
        BY <2>1, MarkKeepsDates
    <2>2. CASE ~CronMark(c)
        <3>1. RowsKeep /\ (nextId \in DOMAIN link' => link'[nextId].from = cron[c].at)
            BY <2>2, CronRows
        <3>2. cron[c].at <= lastRun'
            BY <1>2, AtType DEF DatesInv, ListFollowsDates, TypeOK, CronOK
        <3> QED
            BY <1>1, <1>2, <3>1, <3>2, Interrupted, RowsKeepDates
    <2> QED
        BY <2>1, <2>2
<1>4. ASSUME NEW d \in Crons, d # c PROVE ListFollowsDates(d)' /\ PaysForElement(d)'
    BY <1>1, <1>2, <1>4, OtherListDates DEF CronEffect
<1> QED
    BY <1>2, <1>3, <1>4 DEF DatesInv

LEMMA TimeKeepsDates ==
    ASSUME TypeOK, BillingInv, DatesInv, UNCHANGED <<tableVars, deathVars, cronVars>>,
           now' \in Nat, now <= now'
    PROVE  DatesInv'
<1>1. lastRun' = lastRun /\ lastRun \in Nat /\ lastRun <= now'
    BY NowType DEF TypeOK, CronOK, DatesInv, cronVars
<1>2. \A l \in DOMAIN link' : RowDates(l)' /\ RenewalDates(l)'
    BY <1>1 DEF DatesInv, RowDates, RenewalDates, tableVars, deathVars
<1>3. Grows
    BY SameTableGrows DEF tableVars
<1>4. \A c \in Crons : ListFollowsDates(c)' /\ PaysForElement(c)'
    BY <1>1, <1>3, OtherListDates DEF cronVars
<1> QED
    BY <1>1, <1>2, <1>4 DEF DatesInv

LEMMA DatesStep == TypeOK /\ BillingInv /\ DatesInv /\ [Next]_vars => DatesInv'
<1> SUFFICES ASSUME TypeOK, BillingInv, DatesInv, [Next]_vars PROVE DatesInv'
    OBVIOUS
<1>1. CASE Tick
    BY <1>1, NowType, TimeKeepsDates DEF Tick
<1>2. CASE UNCHANGED vars
    BY <1>2, NowType, TimeKeepsDates DEF vars, tableVars, deathVars, cronVars
<1>3. ASSUME Next, NEW c \in Crons, CronStep(c) \/ CronDie(c), UNCHANGED <<now, workerVars>>
      PROVE  DatesInv'
    BY <1>3, CronKeepsDates
<1>4. ASSUME Next, UNCHANGED <<now, cronVars>>,
             Request \/ \E w \in Workers : WorkerStep(w) \/ WorkerDie(w)
      PROVE  DatesInv'
    BY <1>4, RequestKeepsDates
<1> QED
    BY <1>1, <1>2, <1>3, <1>4 DEF Next, CronAct, WorkerAct

LEMMA InitDates == Init => DatesInv
<1> SUFFICES ASSUME Init PROVE DatesInv
    OBVIOUS
<1>1. PICK sub \in [1..Len(Owner) -> Sub],
           kind \in [1..Len(Owner) -> {"trial", "subscription"}],
           paid \in SUBSET (1..Len(Owner)) :
        /\ link = [i \in 1..Len(Owner) |->
                     [NewRow(Owner[i], sub[i], Start, Start + SignupDays(sub[i], kind[i]))
                        EXCEPT !.active = (i \in paid)]]
        /\ origin = [i \in 1..Len(Owner) |-> [via |-> "register", of |-> NoLink]]
    BY DEF Init, InitTable
<1>2. ASSUME NEW l \in DOMAIN link PROVE RowDates(l) /\ RenewalDates(l)
    <2>1. SignupDays(sub[l], kind[l]) \in Nat \ {0}
        BY <1>1, CatalogueAssumption DEF SignupDays
    <2>2. /\ link[l].from = 1 /\ link[l].to = 1 + SignupDays(sub[l], kind[l])
          /\ link[l].process_message = "none"
        BY <1>1 DEF NewRow
    <2>3. origin[l].via = "register"
        BY <1>1
    <2> QED
        BY <2>1, <2>2, <2>3 DEF RowDates, RenewalDates, ExpiredMessage
<1>3. ASSUME NEW c \in Crons PROVE ListFollowsDates(c) /\ PaysForElement(c)
    <2>1. cron[c] = IdleCron /\ handled[c] = NoElements /\ lastRun = 0
        BY DEF Init, InitCron
    <2> QED
        BY <2>1 DEF ListFollowsDates, PaysForElement, IdleCron, NoElements
<1> QED
    BY <1>2, <1>3 DEF DatesInv, Init, InitCron

(***************************************************************************)
(* One run at a time                                                       *)
(***************************************************************************)

\* A run alone in the table: every other process is idle, with an empty list.
LEMMA Alone ==
    ASSUME BillingInv, OneRun, NEW c \in Crons, NEW d \in Crons, d # c,
           Running(c) \/ ~\E e \in Crons : Running(e)
    PROVE  ~Running(d) /\ DOMAIN handled[d] = {} /\ cron[d].new = NoLink
<1>1. ~Running(d)
    BY DEF OneRun
<1> QED
    BY <1>1 DEF OneRun, ListIsTable, BillingInv, OwnsNew, Running

\* What a process does not touch of a list that is empty.
LEMMA IdleListIsTable ==
    ASSUME NEW c \in Crons, ~Running(c), DOMAIN handled[c] = {}, cron[c].new = NoLink,
           cron'[c] = cron[c], handled'[c] = handled[c], NoLink \notin DOMAIN link'
    PROVE  ListIsTable(c)'
    BY DEF ListIsTable, Running

\* A run that keeps its copies, and whose payment adds or deletes only its own.
LEMMA ListKept ==
    ASSUME TypeOK, BillingInv, OneRun, RowsKeep, Grows, NEW c \in Crons,
           Running(c), cron'[c].pc # "idle", UNCHANGED lastRun,
           cron'[c].at = cron[c].at,
           cron'[c].new \in {cron[c].new, NoLink, nextId},
           DOMAIN handled'[c] = DOMAIN handled[c],
           \A i \in DOMAIN handled[c] :
              handled'[c][i].subscription = handled[c][i].subscription,
           DOMAIN link \ DOMAIN link' \subseteq {cron[c].new}
    PROVE  ListIsTable(c)'
<1>1. ListIsTable(c) /\ DOMAIN handled[c] \subseteq DOMAIN origin
    BY DEF OneRun, BillingInv, OwnsNew
<1>2. /\ nextId \notin DOMAIN origin /\ nextId \notin DOMAIN link
      /\ NoLink \notin DOMAIN origin /\ NoLink \notin DOMAIN link
      /\ nextId # NoLink
    BY NextIdIsNew DEF TypeOK
<1>3. NoLink \notin DOMAIN link'
    BY <1>2 DEF RowsKeep
<1>4. ASSUME NEW l \in DOMAIN handled[c]
      PROVE  /\ l \in DOMAIN link'
             /\ link'[l].process_message = handled'[c][l].subscription.process_message
    <2>1. l \in DOMAIN link /\ link[l].process_message = PrevStage(c, l) /\ l # cron[c].new
        BY <1>1 DEF ListIsTable
    <2>2. l \in DOMAIN link'
        BY <2>1
    <2> QED
        BY <1>1, <1>2, <2>1, <2>2 DEF RowsKeep, PrevStage, Copy
<1>5. cron'[c].new \notin DOMAIN handled[c]
    BY <1>1, <1>2 DEF ListIsTable
<1>6. cron'[c].new \in DOMAIN link' => link'[cron'[c].new].process_message = "none"
    <2>1. CASE cron'[c].new = nextId
        BY <1>2, <2>1 DEF RowsKeep
    <2>2. CASE cron'[c].new = cron[c].new /\ cron[c].new # nextId
        BY <1>1, <2>2 DEF RowsKeep, ListIsTable
    <2> QED
        BY <1>3, <2>1, <2>2
<1> QED
    BY <1>1, <1>4, <1>5, <1>6 DEF ListIsTable, Running, PrevStage, Copy

\* The rows that a renewal has closed stay closed.
LEMMA ClosesKept ==
    ASSUME TypeOK, BillingInv, OneRun, RowsKeep, Grows,
           NEW i \in charged, RenewalCloses(i),
           \A c \in Crons : cron[c].new = i => cron'[c].new = i,
           \A l \in DOMAIN link \ DOMAIN link' : link[l].process_message = "none"
    PROVE  RenewalCloses(i)'
<1>1. i \in DOMAIN origin /\ origin'[i] = origin[i]
    BY DEF TypeOK, TableOK, Grows
<1>2. ASSUME NEW l \in DOMAIN link, link[l].process_message \in ExpiredMessage
      PROVE  l \in DOMAIN link' /\ link'[l].process_message \in ExpiredMessage
    <2>1. l \in DOMAIN link' /\ l # nextId
        BY <1>2, NextIdIsNew DEF ExpiredMessage, TypeOK
    <2> QED
        BY <1>2, <2>1 DEF RowsKeep
<1> QED
    BY <1>1, <1>2 DEF RenewalCloses

\* So does the start date of a renewal that was left.
LEMMA BeforeKept ==
    ASSUME TypeOK, BillingInv, OneRun, RowsKeep, Grows,
           NEW i \in DOMAIN link', i \in interrupted,
           \A c \in Crons : cron'[c].pc # "idle" => Running(c) /\ cron'[c].at = cron[c].at
    PROVE  StartedBefore(i)'
<1>1. i \in DOMAIN origin /\ i # nextId
    BY NextIdIsNew DEF TypeOK, TableOK
<1>2. /\ i \in DOMAIN link /\ link'[i].from = link[i].from /\ origin'[i] = origin[i]
    BY <1>1 DEF RowsKeep, Grows
<1> QED
    BY <1>2 DEF OneRun, StartedBefore, Running

LEMMA RequestInterrupted ==
    ASSUME TypeOK, BillingInv,
           Request \/ \E w \in Workers : WorkerStep(w) \/ WorkerDie(w)
    PROVE  \A i \in interrupted' \ interrupted :
              i \in DOMAIN origin /\ origin[i].via # "renewal"
<1>1. ASSUME NEW w \in Workers, WorkerDie(w)
      PROVE  /\ interrupted' \subseteq interrupted \cup ({worker[w].new} \ {NoLink})
             /\ worker[w].new # NoLink =>
                   worker[w].new \in DOMAIN origin /\ origin[worker[w].new].via # "renewal"
    <2>1. interrupted' \subseteq interrupted \cup ({worker[w].new} \ {NoLink})
        BY <1>1 DEF WorkerDie, Die
    <2>2. /\ worker[w].pc # "idle" /\ DOMAIN link \subseteq DOMAIN origin
          /\ PaysForOwn(w)
        BY <1>1 DEF WorkerDie, BillingInv, TypeOK, TableOK
    <2> QED
        BY <2>1, <2>2 DEF PaysForOwn
<1>2. ASSUME NEW w \in Workers, WorkerStep(w) PROVE UNCHANGED interrupted
    BY <1>2 DEF WorkerStep, UpgradeCreate, WorkerPay, WorkerSettle, WorkerConclude,
                WorkerActivate, deathVars
<1>3. ASSUME Request PROVE UNCHANGED interrupted
    BY <1>3 DEF Request, CancelSubscription, DowngradeSave, UpgradeSave, RenewSave, deathVars
<1> QED
    BY <1>1, <1>2, <1>3

LEMMA RequestKeepsOneRun ==
    ASSUME TypeOK, BillingInv, OneRun, Next, UNCHANGED <<now, cronVars>>,
           Request \/ \E w \in Workers : WorkerStep(w) \/ WorkerDie(w)
    PROVE  OneRun'
<1>1. /\ RowsKeep /\ Grows /\ DOMAIN link \subseteq DOMAIN link'
      /\ charged' \ charged \subseteq {i \in DOMAIN origin : origin[i].via # "renewal"}
    BY RequestRows, RequestEffects DEF RequestEffect
<1>2. UNCHANGED <<cron, handled, lastRun>>
    BY DEF cronVars
<1>3. \A c, d \in Crons : Running(c)' /\ Running(d)' => c = d
    BY <1>2 DEF OneRun, Running
<1>4. ASSUME NEW c \in Crons PROVE ListIsTable(c)'
    <2>1. CASE Running(c)
        BY <1>1, <1>2, <2>1, ListKept DEF Running
    <2>2. CASE ~Running(c)
        <3>1. DOMAIN handled[c] = {} /\ cron[c].new = NoLink
            BY <2>2 DEF OneRun, ListIsTable, BillingInv, OwnsNew, Running
        <3>2. NoLink \notin DOMAIN link'
            BY <1>1, NextIdIsNew DEF RowsKeep, TypeOK
        <3> QED
            BY <1>2, <2>2, <3>1, <3>2, IdleListIsTable
    <2> QED
        BY <2>1, <2>2
<1>5. ASSUME NEW i \in charged' \ interrupted' PROVE RenewalCloses(i)'
    <2>1. i \notin interrupted
        BY <1>5, Interrupted
    <2>2. CASE i \in charged
        BY <1>1, <1>2, <2>1, <2>2, ClosesKept DEF OneRun
    <2>3. CASE i \notin charged
        BY <1>1, <2>3 DEF RenewalCloses, Grows
    <2> QED
        BY <2>2, <2>3
<1>6. ASSUME NEW i \in DOMAIN link' \cap interrupted' PROVE StartedBefore(i)'
    <2>1. CASE i \in interrupted
        BY <1>1, <1>2, <2>1, BeforeKept DEF Running
    <2>2. CASE i \notin interrupted
        <3>1. i \in DOMAIN origin /\ origin[i].via # "renewal"
            BY <2>2, RequestInterrupted
        <3> QED
            BY <1>1, <3>1 DEF StartedBefore, Grows
    <2> QED
        BY <2>1, <2>2
<1> QED
    BY <1>3, <1>4, <1>5, <1>6 DEF OneRun

\* The steps of a run between its start, its marks and its end.
Works(c) ==
    \/ \E l \in cron[c].todo : \/ CronClassify(c, l) \/ CronNotify(c, l) \/ CronClose(c, l)
                               \/ CronDowngrade(c, l) \/ CronRenew(c, l)
    \/ CronBeginActions(c) \/ CronSwitchOn(c)
    \/ CronPay(c) \/ CronSettle(c) \/ CronActivate(c) \/ CronDiscard(c)

\* Such a step keeps the copies, and the link being paid for until it is marked.
LEMMA WorksShape ==
    ASSUME TypeOK, BillingInv, NEW c \in Crons, Works(c)
    PROVE  /\ Running(c) /\ cron'[c].pc # "idle" /\ cron'[c].at = cron[c].at
           /\ UNCHANGED <<lastRun, interrupted, overlapped>>
           /\ DOMAIN handled'[c] = DOMAIN handled[c]
           /\ \A i \in DOMAIN handled[c] :
                 handled'[c][i].subscription = handled[c][i].subscription
           /\ cron[c].new # NoLink => cron'[c].new = cron[c].new
<1>1. CronOK /\ OwnsNew(c)
    BY DEF TypeOK, BillingInv
<1>2. ASSUME NEW l \in cron[c].todo, CronClassify(c, l)
      PROVE  /\ Running(c) /\ cron'[c].pc # "idle" /\ cron'[c].at = cron[c].at
             /\ UNCHANGED <<lastRun, interrupted, overlapped>>
             /\ DOMAIN handled'[c] = DOMAIN handled[c]
             /\ \A i \in DOMAIN handled[c] :
                   handled'[c][i].subscription = handled[c][i].subscription
             /\ cron'[c].new = cron[c].new
    BY <1>2, ClassifyShape DEF Running
<1>3. ASSUME NEW l \in cron[c].todo,
             \/ CronNotify(c, l) \/ CronClose(c, l) \/ CronDowngrade(c, l) \/ CronRenew(c, l)
      PROVE  /\ cron[c].pc = "act" /\ cron'[c].pc # "idle" /\ cron'[c].at = cron[c].at
             /\ UNCHANGED <<lastRun, interrupted, overlapped>>
             /\ DOMAIN handled'[c] = DOMAIN handled[c]
             /\ \A i \in DOMAIN handled[c] :
                   handled'[c][i].subscription = handled[c][i].subscription
    <2>1. PICK m, pc, new, found : Take(c, l, m, pc, new, found) /\ pc # "idle"
        <3>1. CASE CronNotify(c, l)
            BY <3>1 DEF CronNotify
        <3>2. CASE CronClose(c, l)
            BY <3>2 DEF CronClose
        <3>3. CASE CronDowngrade(c, l)
            BY <3>3 DEF CronDowngrade
        <3>4. CASE CronRenew(c, l)
            BY <3>4 DEF CronRenew
        <3> QED
            BY <1>3, <3>1, <3>2, <3>3, <3>4
    <2>2. l \in DOMAIN handled[c]
        BY <1>1 DEF OwnsNew
    <2>3. cron[c].pc = "act" /\ UNCHANGED <<lastRun, interrupted, overlapped>>
        BY <1>3 DEF CronNotify, CronClose, CronDowngrade, CronRenew, ActsOn, deathVars
    <2> QED
        BY <1>1, <2>1, <2>2, <2>3, TakeShape
<1>4. CASE CronBeginActions(c)
    BY <1>1, <1>4, BeginShape DEF Running
<1>5. CASE CronPay(c) \/ CronSettle(c) \/ CronActivate(c) \/ CronDiscard(c)
    <2>1. PICK pc : pc # "idle" /\ cron' = [cron EXCEPT ![c].pc = pc]
        BY <1>5 DEF CronPay, CronSettle, CronActivate, CronDiscard
    <2>2. UNCHANGED <<handled, lastRun, interrupted, overlapped>> /\ Running(c)
        BY <1>5 DEF CronPay, CronSettle, CronActivate, CronDiscard, Running, deathVars
    <2>3. cron'[c].pc = pc /\ cron'[c].new = cron[c].new /\ cron'[c].at = cron[c].at
        BY <1>1, <2>1, MoveShape
    <2> QED
        BY <2>1, <2>2, <2>3
<1>6. CASE CronSwitchOn(c)
    BY <1>1, <1>6, SwitchShape DEF Running
<1> QED
    BY <1>1, <1>2, <1>3, <1>4, <1>5, <1>6 DEF Works, Running, OwnsNew

LEMMA WorksOrNot ==
    ASSUME NEW c \in Crons, CronStep(c) \/ CronDie(c)
    PROVE  \/ Works(c)
           \/ CronStart(c)
           \/ CronMark(c)
           \/ CronFinish(c) \/ CronRowGone(c) \/ CronDie(c)
    BY DEF CronStep, Works

\* The part of OneRun about lists and about which run is in progress, when a
\* process c keeps its own.
LEMMA ListsKept ==
    ASSUME TypeOK, BillingInv, OneRun, NEW c \in Crons, CronEffect(c),
           Running(c) \/ ~\E e \in Crons : Running(e),
           NoLink \notin DOMAIN link',
           ListIsTable(c)'
    PROVE  /\ \A d, e \in Crons : Running(d)' /\ Running(e)' => d = e
           /\ \A d \in Crons : ListIsTable(d)'
<1>1. ASSUME NEW d \in Crons, d # c
      PROVE  ~Running(d)' /\ ListIsTable(d)'
    <2>1. ~Running(d) /\ DOMAIN handled[d] = {} /\ cron[d].new = NoLink
        BY <1>1, Alone
    <2>2. cron'[d] = cron[d] /\ handled'[d] = handled[d]
        BY <1>1 DEF CronEffect
    <2> QED
        BY <2>1, <2>2, IdleListIsTable DEF Running
<1> QED
    BY <1>1

LEMMA WorksKeepsOneRun ==
    ASSUME TypeOK, BillingInv, DatesInv, OneRun, Next, NEW c \in Crons, Works(c),
           UNCHANGED <<now, workerVars>>
    PROVE  OneRun'
<1>1. CronStep(c) /\ ~CronMark(c)
    <2>1. CronStep(c)
        BY DEF CronStep, Works
    <2>2. cron[c].pc # "mark" \/ ~Works(c)
        BY DEF Works, CronClassify, CronNotify, CronClose, CronDowngrade, CronRenew, ActsOn,
               CronBeginActions, CronSwitchOn, CronPay, CronSettle, CronActivate, CronDiscard
    <2> QED
        BY <2>1, <2>2 DEF CronMark
<1>2. RowsKeep /\ CronEffect(c) /\ Grows
    BY <1>1, CronRows, CronStepInv DEF CronEffect
<1>3. /\ Running(c) /\ cron'[c].pc # "idle" /\ cron'[c].at = cron[c].at
      /\ UNCHANGED <<lastRun, interrupted>>
      /\ DOMAIN handled'[c] = DOMAIN handled[c]
      /\ \A i \in DOMAIN handled[c] :
            handled'[c][i].subscription = handled[c][i].subscription
      /\ cron[c].new # NoLink => cron'[c].new = cron[c].new
    BY WorksShape
<1>4. NoLink \notin DOMAIN link' /\ NoLink \notin DOMAIN origin /\ nextId \notin DOMAIN origin
    BY <1>2, NextIdIsNew DEF RowsKeep, TypeOK
<1>5. ListIsTable(c)'
    BY <1>2, <1>3, ListKept DEF CronEffect
<1>6. ASSUME NEW i \in charged' \ interrupted' PROVE RenewalCloses(i)'
    <2>1. \A l \in DOMAIN link \ DOMAIN link' : link[l].process_message = "none"
        BY <1>2 DEF CronEffect, OneRun, ListIsTable
    <2>2. CASE i \in charged
        <3>1. RenewalCloses(i) /\ i # NoLink
            BY <1>3, <1>4, <1>6, <2>2 DEF OneRun, TypeOK, TableOK
        <3>2. \A d \in Crons : cron[d].new = i => cron'[d].new = i
            BY <1>2, <1>3, <3>1 DEF CronEffect
        <3> QED
            BY <1>2, <2>1, <2>2, <3>1, <3>2, ClosesKept
    <2>3. CASE i \notin charged
        <3>1. i = cron[c].new /\ i # NoLink
            BY <1>2, <1>4, <2>3 DEF CronEffect
        <3> QED
            BY <1>3, <3>1 DEF RenewalCloses
    <2> QED
        BY <2>2, <2>3
<1>7. ASSUME NEW i \in DOMAIN link' \cap interrupted' PROVE StartedBefore(i)'
    BY <1>2, <1>3, BeforeKept DEF CronEffect, Running
<1> QED
    BY <1>2, <1>3, <1>4, <1>5, <1>6, <1>7, ListsKept DEF OneRun

LEMMA StartKeepsOneRun ==
    ASSUME TypeOK, BillingInv, DatesInv, OneRun, NEW c \in Crons, CronStart(c), ~overlapped',
           UNCHANGED <<now, workerVars>>
    PROVE  OneRun'
<1>1. /\ cron'[c] = [pc |-> "classify", at |-> now, todo |-> Handled(now),
                     cur |-> NoLink, new |-> NoLink, found |-> NoLink]
      /\ DOMAIN handled'[c] = Handled(now) /\ Handled(now) \subseteq DOMAIN link
      /\ \A l \in Handled(now) :
            handled'[c][l].subscription.process_message = link[l].process_message
      /\ \A d \in Crons : d # c => cron'[d] = cron[d] /\ handled'[d] = handled[d]
      /\ lastRun' = now /\ UNCHANGED <<link, nextId, charged, origin, interrupted>>
    BY StartShape
<1>2. /\ ~\E e \in Crons : Running(e)
      /\ lastRun < now \/ now = MaxTime
    BY DEF CronStart
<1>3. NoLink \notin DOMAIN link /\ CronEffect(c)
    BY NextIdIsNew, CronStartInv DEF TypeOK
<1>4. ListIsTable(c)'
    BY <1>1, <1>3 DEF ListIsTable, Running, PrevStage, Copy
<1>5. \A d \in Crons : cron[d].new = NoLink
    BY <1>2 DEF BillingInv, OwnsNew, Running
<1>6. ASSUME NEW i \in charged' \ interrupted' PROVE RenewalCloses(i)'
    BY <1>1, <1>3, <1>5, <1>6, NextIdIsNew DEF OneRun, RenewalCloses, TypeOK, TableOK
<1>7. ASSUME NEW i \in DOMAIN link' \cap interrupted' PROVE StartedBefore(i)'
    <2>1. origin[i].via = "renewal" => link[i].from < now
        <3>1. RenewalDates(i) /\ link[i].from \in Nat /\ now \in Nat /\ lastRun \in Nat
            BY <1>1, <1>7, NowType DEF DatesInv, TypeOK, TableOK, Row, CronOK
        <3> QED
            BY <1>1, <1>2, <1>7, <3>1, ClockAssumption DEF RenewalDates
    <2>2. \A d \in Crons : Running(d)' => cron'[d].at = now
        BY <1>1, <1>2 DEF Running
    <2> QED
        BY <1>1, <2>1, <2>2 DEF StartedBefore
<1> QED
    BY <1>1, <1>2, <1>3, <1>4, <1>6, <1>7, ListsKept DEF OneRun

\* The mark of a run alone never takes an expired message away.
LEMMA MarkKeepsExpired ==
    ASSUME TypeOK, BillingInv, DatesInv, OneRun, NEW c \in Crons, CronMark(c),
           NEW l \in DOMAIN link, link[l].process_message \in ExpiredMessage
    PROVE  link'[l].process_message \in ExpiredMessage
<1> DEFINE k == cron[c].cur
<1>1. /\ cron[c].pc = "mark" /\ k \in DOMAIN link /\ k \in DOMAIN handled[c]
      /\ l # k => link'[l] = link[l]
      /\ link'[k].process_message = IF Planned(c, k) = PrevStage(c, k)
                                    THEN link[k].process_message ELSE Planned(c, k)
    BY MarkShape
<1> HIDE DEF k
<1>2. CASE l = k
    <2>1. PrevStage(c, k) \in ExpiredMessage
        BY <1>1, <1>2 DEF OneRun, ListIsTable
    <2>2. Planned(c, k) \in ExpiredMessage
        BY <1>1, <2>1 DEF DatesInv, ListFollowsDates, Decided
    <2> QED
        BY <1>1, <1>2, <2>2
<1> QED
    BY <1>1, <1>2

LEMMA MarkKeepsOneRun ==
    ASSUME TypeOK, BillingInv, DatesInv, OneRun, NEW c \in Crons, CronMark(c),
           UNCHANGED <<now, workerVars>>
    PROVE  OneRun'
<1> DEFINE k == cron[c].cur
<1>1. /\ cron[c].pc = "mark" /\ k \in DOMAIN link /\ k \in DOMAIN handled[c]
      /\ DOMAIN link' = DOMAIN link
      /\ \A l \in DOMAIN link : link'[l].from = link[l].from /\ (l # k => link'[l] = link[l])
      /\ link'[k].process_message = IF Planned(c, k) = PrevStage(c, k)
                                    THEN link[k].process_message ELSE Planned(c, k)
      /\ UNCHANGED <<nextId, charged, origin, interrupted, lastRun>>
    BY MarkShape
<1>2. /\ ListIsTable(c) /\ OwnsNew(c) /\ ListFollowsDates(c) /\ PaysForElement(c)
    BY DEF OneRun, BillingInv, DatesInv
<1>3. /\ cron'[c].pc = "act" /\ cron'[c].new = NoLink /\ cron'[c].at = cron[c].at
      /\ DOMAIN handled'[c] = cron[c].todo \ {k}
      /\ \A i \in DOMAIN handled'[c] : handled'[c][i] = handled[c][i]
      /\ \A d \in Crons : d # c => cron'[d] = cron[d] /\ handled'[d] = handled[d]
    BY <1>2, NextShape DEF CronMark, TypeOK, OwnsNew
<1>4. NoLink \notin DOMAIN link /\ NoLink \notin DOMAIN origin /\ CronEffect(c)
    BY NextIdIsNew, CronMarkInv DEF TypeOK
<1>5. Running(c) /\ cron[c].todo \subseteq DOMAIN handled[c]
    BY <1>1, <1>2 DEF Running, OwnsNew
<1> HIDE DEF k
<1>6. ListIsTable(c)'
    <2>1. Running(c)' /\ cron'[c].at = lastRun'
        BY <1>1, <1>2, <1>3, <1>5 DEF ListIsTable, Running
    <2>2. \A l \in DOMAIN handled'[c] :
             l \in DOMAIN link' /\ link'[l].process_message = PrevStage(c, l)'
        BY <1>1, <1>2, <1>3, <1>5 DEF ListIsTable, PrevStage, Copy
    <2>3. NoLink \notin DOMAIN handled'[c]
        BY <1>2, <1>3, <1>4, <1>5 DEF OwnsNew
    <2> QED
        BY <1>1, <1>3, <1>4, <2>1, <2>2, <2>3 DEF ListIsTable
<1>7. ASSUME NEW l \in DOMAIN link, link[l].process_message \in ExpiredMessage
      PROVE  link'[l].process_message \in ExpiredMessage
    BY <1>7, MarkKeepsExpired
<1>8. ASSUME NEW i \in charged' \ interrupted' PROVE RenewalCloses(i)'
    <2>1. RenewalCloses(i) /\ i # NoLink
        BY <1>1, <1>4, <1>8 DEF OneRun, TypeOK, TableOK
    <2>2. CASE i = cron[c].new
        <3>1. /\ origin[i].of = k /\ PrevStage(c, k) \in DOMAIN RenewStage
              /\ Planned(c, k) \in ExpiredMessage
            BY <1>2, <2>1, <2>2 DEF PaysForElement, k
        <3>2. Planned(c, k) # PrevStage(c, k)
            BY <3>1 DEF RenewStage, ExpiredMessage
        <3>3. link'[k].process_message \in ExpiredMessage
            BY <1>1, <3>1, <3>2
        <3> QED
            BY <1>1, <3>1, <3>3 DEF RenewalCloses
    <2>3. CASE i # cron[c].new
        BY <1>1, <1>3, <1>7, <2>1, <2>3 DEF RenewalCloses
    <2> QED
        BY <2>2, <2>3
<1>9. ASSUME NEW i \in DOMAIN link' \cap interrupted' PROVE StartedBefore(i)'
    BY <1>1, <1>3, <1>5, <1>9 DEF OneRun, StartedBefore, Running
<1> QED
    BY <1>1, <1>4, <1>5, <1>6, <1>8, <1>9, ListsKept DEF OneRun

LEMMA EndKeepsOneRun ==
    ASSUME TypeOK, BillingInv, DatesInv, OneRun, NEW c \in Crons,
           CronFinish(c) \/ CronRowGone(c) \/ CronDie(c),
           UNCHANGED <<now, workerVars>>
    PROVE  OneRun'
<1>1. EndRun(c) /\ Running(c) /\ UNCHANGED <<link, charged, origin, lastRun>>
    BY DEF CronFinish, CronRowGone, CronDie, Running, tableVars
<1>2. /\ cron'[c].new = NoLink /\ cron'[c].pc = "idle" /\ DOMAIN handled'[c] = {}
      /\ \A d \in Crons : d # c => cron'[d] = cron[d] /\ handled'[d] = handled[d]
    BY <1>1, EndShape DEF TypeOK
<1>3. NoLink \notin DOMAIN link /\ NoLink \notin DOMAIN origin /\ CronEffect(c)
    BY NextIdIsNew, CronEndsInv DEF TypeOK
<1>4. ListIsTable(c)'
    BY <1>1, <1>2, <1>3 DEF ListIsTable, Running
<1>5. interrupted' = interrupted \/ interrupted' = interrupted \cup ({cron[c].new} \ {NoLink})
    BY DEF CronFinish, CronRowGone, CronDie, Die, deathVars
<1>6. \A d \in Crons : ~Running(d)'
    BY <1>1, <1>2, Alone DEF Running
<1>7. cron[c].new # NoLink => cron[c].new \in interrupted'
    <2>1. CASE CronFinish(c)
        BY <2>1 DEF CronFinish, BillingInv, OwnsNew
    <2>2. CASE CronRowGone(c)
        <3>1. cron[c].pc # "mark" \/ cron[c].cur \in DOMAIN link
            BY DEF BillingInv, OwnsNew, OneRun, ListIsTable
        <3>2. cron[c].pc = "switch" => cron[c].new = NoLink
            BY DEF BillingInv, OwnsNew
        <3> QED
            BY <2>2, <3>1, <3>2 DEF CronRowGone
    <2>3. CASE CronDie(c)
        BY <2>3 DEF CronDie, Die
    <2> QED
        BY <2>1, <2>2, <2>3
<1>8. ASSUME NEW i \in charged' \ interrupted' PROVE RenewalCloses(i)'
    <2>1. RenewalCloses(i) /\ i # NoLink /\ i # cron[c].new
        BY <1>1, <1>3, <1>5, <1>7, <1>8 DEF OneRun, TypeOK, TableOK
    <2>2. \A d \in Crons : cron[d].new # i
        BY <1>1, <2>1, Alone
    <2> QED
        BY <1>1, <2>1, <2>2 DEF RenewalCloses
<1>9. ASSUME NEW i \in DOMAIN link' \cap interrupted' PROVE StartedBefore(i)'
    BY <1>6 DEF StartedBefore
<1> QED
    BY <1>1, <1>3, <1>4, <1>8, <1>9, ListsKept DEF OneRun

LEMMA OverlapStays == overlapped /\ [Next]_vars => overlapped'
<1> SUFFICES ASSUME overlapped, [Next]_vars PROVE overlapped'
    OBVIOUS
<1>1. ASSUME NEW c \in Crons, CronStep(c) \/ CronDie(c) PROVE overlapped'
    BY <1>1 DEF CronStep, CronDie, CronStart, CronBeginActions, CronFinish, CronRowGone,
       CronClassify, CronNotify, CronClose, CronDowngrade, CronSwitchOn, CronRenew, CronPay,
       CronSettle, CronActivate, CronDiscard, CronMark
<1>2. CASE UNCHANGED cronVars
    BY <1>2 DEF cronVars
<1> QED
    BY <1>1, <1>2 DEF Next, Tick, CronAct, WorkerAct, vars, cronVars

LEMMA OneRunStep == TypeOK /\ BillingInv /\ OneRunInv /\ [Next]_vars => OneRunInv'
<1> SUFFICES ASSUME TypeOK, BillingInv, OneRunInv, [Next]_vars PROVE OneRunInv'
    OBVIOUS
<1>1. DatesInv /\ DatesInv'
    BY DatesStep DEF OneRunInv
<1>2. overlapped => overlapped'
    BY OverlapStays
<1>3. SUFFICES ASSUME ~overlapped', OneRun PROVE OneRun'
    BY <1>1, <1>2 DEF OneRunInv
<1>4. ASSUME UNCHANGED <<tableVars, deathVars, cronVars>> PROVE OneRun'
    <2>1. UNCHANGED <<link, charged, origin, interrupted, cron, handled, lastRun>>
        BY <1>4 DEF tableVars, deathVars, cronVars
    <2>2. \A c \in Crons : ListIsTable(c)'
        BY <1>3, <2>1 DEF OneRun, ListIsTable, Running, PrevStage, Copy
    <2>3. \A i \in charged' \ interrupted' : RenewalCloses(i)'
        BY <1>3, <2>1 DEF OneRun, RenewalCloses
    <2>4. \A i \in DOMAIN link' \cap interrupted' : StartedBefore(i)'
        BY <1>3, <2>1 DEF OneRun, StartedBefore, Running
    <2> QED
        BY <1>3, <2>1, <2>2, <2>3, <2>4 DEF OneRun, Running
<1>5. ASSUME Next, NEW c \in Crons, CronStep(c) \/ CronDie(c), UNCHANGED <<now, workerVars>>
      PROVE  OneRun'
    BY <1>1, <1>3, <1>5, WorksOrNot, WorksKeepsOneRun, StartKeepsOneRun, MarkKeepsOneRun,
       EndKeepsOneRun
<1>6. ASSUME Next, UNCHANGED <<now, cronVars>>,
             Request \/ \E w \in Workers : WorkerStep(w) \/ WorkerDie(w)
      PROVE  OneRun'
    BY <1>3, <1>6, RequestKeepsOneRun
<1>7. CASE Tick \/ UNCHANGED vars
    BY <1>4, <1>7 DEF Tick, vars, tableVars, deathVars, cronVars
<1> QED
    BY <1>5, <1>6, <1>7 DEF Next, CronAct, WorkerAct

LEMMA InitOneRun == Init => OneRunInv
<1> SUFFICES ASSUME Init PROVE OneRunInv
    OBVIOUS
<1>1. /\ interrupted = {} /\ charged \subseteq DOMAIN origin
      /\ \A i \in DOMAIN origin : origin[i].via = "register"
    BY DEF Init, InitTable
<1>2. ASSUME NEW c \in Crons
      PROVE  cron[c] = IdleCron /\ handled[c] = NoElements
    BY DEF Init, InitCron
<1>3. NoLink \notin DOMAIN link
    BY InitInv, NextIdIsNew DEF Inv, TypeOK
<1>4. \A c \in Crons : ~Running(c) /\ ListIsTable(c)
    BY <1>2, <1>3 DEF Running, ListIsTable, IdleCron, NoElements
<1>5. \A i \in charged : RenewalCloses(i)
    BY <1>1 DEF RenewalCloses
<1> QED
    BY <1>1, <1>4, <1>5, InitDates DEF OneRunInv, OneRun

\* What a run knows of the table, for every value of the constants: dates
\* always, and the messages while no two runs are in progress (OneRunInv).
THEOREM OneRunHolds == Spec => []OneRunInv
<1>1. Init => TypeOK /\ BillingInv /\ OneRunInv
    BY InitInv, InitOneRun DEF Inv
<1>2. TypeOK /\ BillingInv /\ OneRunInv /\ [Next]_vars => TypeOK' /\ BillingInv' /\ OneRunInv'
    BY InvStep, OneRunStep DEF Inv
<1> QED
    BY <1>1, <1>2, PTL DEF Spec

(***************************************************************************)
(* Nobody pays twice                                                       *)
(***************************************************************************)

\* A card is charged for a renewal by a run, for the link it works on.
LEMMA NewCharge ==
    ASSUME TypeOK, BillingInv, [Next]_vars,
           NEW i \in charged' \ charged, origin[i].via = "renewal"
    PROVE  \E c \in Crons : CronPay(c) /\ i = cron[c].new /\ UNCHANGED <<now, workerVars>>
<1>1. ASSUME NEW c \in Crons, CronStep(c) \/ CronDie(c), UNCHANGED <<now, workerVars>>
      PROVE  CronPay(c) /\ i = cron[c].new
    <2>1. i = cron[c].new
        BY <1>1, CronStepInv DEF CronEffect
    <2>2. CronPay(c) \/ UNCHANGED charged
        BY <1>1 DEF CronStep, CronDie, CronStart, CronBeginActions, CronFinish, CronRowGone,
           CronClassify, CronNotify, CronClose, CronDowngrade, CronSwitchOn, CronRenew,
           CronSettle, CronActivate, CronDiscard, CronMark, tableVars
    <2> QED
        BY <2>1, <2>2
<1>2. ~(Request \/ \E w \in Workers : WorkerStep(w) \/ WorkerDie(w))
    BY RequestEffects DEF RequestEffect
<1>3. ~UNCHANGED charged
    OBVIOUS
<1> QED
    BY <1>1, <1>2, <1>3 DEF Next, Tick, CronAct, WorkerAct, vars, tableVars

\* Whoever pays alone for a renewal pays for the first of its period, and for a
\* period that was announced and has ended.
LEMMA PaysOnce ==
    ASSUME TypeOK, BillingInv, DatesInv, OneRun, NEW c \in Crons, CronPay(c)
    PROVE  LET i == cron[c].new
               l == cron[c].cur
           IN  /\ i \in DOMAIN link /\ link[i].process_message = "none"
               /\ origin[i].via = "renewal" /\ origin[i].of = l
               /\ l \in DOMAIN link /\ link[l].to <= now
               /\ link[l].process_message \in DOMAIN RenewStage
               /\ \A j \in charged \ interrupted :
                     ~(origin[j].via = "renewal" /\ origin[j].of = l)
<1> DEFINE i == cron[c].new
           l == cron[c].cur
<1>1. OwnsNew(c) /\ PaysForElement(c) /\ ListIsTable(c) /\ cron[c].pc = "pay"
    BY DEF BillingInv, DatesInv, OneRun, CronPay
<1>2. i \in DOMAIN link /\ l \in DOMAIN handled[c] /\ i # NoLink
    BY <1>1, NextIdIsNew DEF OwnsNew, PayingPC, TypeOK
<1>3. /\ origin[i].via = "renewal" /\ origin[i].of = l /\ link[i].process_message = "none"
      /\ PrevStage(c, l) \in DOMAIN RenewStage
      /\ Planned(c, l) \in ExpiredMessage
      /\ l \in DOMAIN link /\ link[l].process_message = PrevStage(c, l)
    BY <1>1, <1>2 DEF OwnsNew, PaysForElement, ListIsTable
<1>4. link[l].to <= now
    <2>1. link[l].to <= cron[c].at /\ cron[c].at <= now
        BY <1>2, <1>3 DEF BillingInv, ListIsCurrent, Planned
    <2> QED
        BY <1>3, <2>1, AtType, NowType, UserRows DEF TypeOK
<1>5. ASSUME NEW j \in charged \ interrupted, origin[j].via = "renewal", origin[j].of = l
      PROVE  FALSE
    <2>1. link[l].process_message \notin ExpiredMessage
        BY <1>3 DEF RenewStage, ExpiredMessage
    <2>2. PICK d \in Crons : cron[d].new = j
        BY <1>5, <2>1 DEF OneRun, RenewalCloses
    <2>3. j # NoLink /\ j # i
        BY <1>1, NextIdIsNew DEF OwnsNew, TypeOK, TableOK
    <2>4. d # c /\ Running(d) /\ Running(c)
        BY <1>1, <2>2, <2>3 DEF BillingInv, OwnsNew, Running
    <2> QED
        BY <2>4 DEF OneRun
<1> QED
    BY <1>2, <1>3, <1>4, <1>5

\* RenewedOnce, with the ids of the renewed links left out.
Once ==
    \A i, j \in charged \ interrupted :
        /\ origin[i].via = "renewal" /\ origin[j].via = "renewal"
        /\ origin[i].of = origin[j].of
        => i = j \/ overlapped

LEMMA OnceStep == TypeOK /\ BillingInv /\ OneRunInv /\ Once /\ [Next]_vars => Once'
<1> SUFFICES ASSUME TypeOK, BillingInv, OneRunInv, Once, [Next]_vars, ~overlapped'
             PROVE  Once'
    BY DEF Once
<1>1. OneRun /\ DatesInv /\ ~overlapped
    BY OverlapStays DEF OneRunInv
<1>2. Grows /\ interrupted \subseteq interrupted' /\ charged' \subseteq DOMAIN origin
    <2>1. CASE UNCHANGED <<link, charged, origin, interrupted>>
        BY <2>1, SameTableGrows DEF TypeOK, TableOK
    <2>2. ASSUME Next, NEW c \in Crons, CronStep(c) \/ CronDie(c), UNCHANGED <<now, workerVars>>
          PROVE  Grows /\ interrupted \subseteq interrupted' /\ charged' \subseteq DOMAIN origin
        BY <2>2, CronStepInv, Interrupted DEF CronEffect, TypeOK, TableOK
    <2>3. ASSUME Next, Request \/ \E w \in Workers : WorkerStep(w) \/ WorkerDie(w)
          PROVE  Grows /\ interrupted \subseteq interrupted' /\ charged' \subseteq DOMAIN origin
        BY <2>3, RequestEffects, Interrupted DEF RequestEffect, TypeOK, TableOK
    <2> QED
        BY <2>1, <2>2, <2>3 DEF Next, Tick, CronAct, WorkerAct, vars, tableVars, deathVars
<1>3. \A i \in charged' : origin'[i] = origin[i]
    BY <1>2 DEF Grows
<1>4. ASSUME NEW i \in charged' \ charged, origin[i].via = "renewal",
             NEW j \in charged \ interrupted, origin[j].via = "renewal"
      PROVE  origin[j].of # origin[i].of
    BY <1>1, <1>4, NewCharge, PaysOnce
<1>5. ASSUME NEW i \in charged' \ charged, origin[i].via = "renewal",
             NEW j \in charged' \ charged, origin[j].via = "renewal"
      PROVE  i = j
    <2>1. PICK c \in Crons : CronPay(c) /\ i = cron[c].new /\ UNCHANGED <<now, workerVars>>
        BY <1>5, NewCharge
    <2>2. CronEffect(c)
        BY <2>1, CronStepInv DEF CronStep
    <2> QED
        BY <2>1, <2>2 DEF CronEffect
<1>6. ASSUME NEW i \in charged' \ interrupted', NEW j \in charged' \ interrupted',
             origin[i].via = "renewal", origin[j].via = "renewal", origin[i].of = origin[j].of
      PROVE  i = j
    BY <1>1, <1>2, <1>4, <1>5, <1>6 DEF Once
<1> QED
    BY <1>3, <1>6 DEF Once

\* Nobody pays twice to renew the same period, for every value of the constants.
THEOREM NobodyPaysTwice == Spec => []RenewedOnce
<1>1. Init => Once
    BY DEF Init, InitTable, Once
<1>2. TypeOK /\ BillingInv /\ OneRunInv /\ Once /\ [Next]_vars => Once'
    BY OnceStep
<1>3. Once => RenewedOnce
    BY DEF Once, RenewedOnce, Renewals
<1> QED
    BY <1>1, <1>2, <1>3, InvHolds, OneRunHolds, PTL DEF Spec

(***************************************************************************)
(* Renewals follow the notice, and expired is final                        *)
(***************************************************************************)

\* A card is charged for a renewal only after the renewed period ended and
\* while its notice stands (RenewalFollowsNotice, for all constants).
THEOREM RenewalAfterNotice == Spec => RenewalFollowsNotice
<1> DEFINE A == \A i \in charged' \ charged :
                   origin[i].via = "renewal" /\ ~overlapped =>
                      LET l == origin[i].of IN
                      /\ l \in DOMAIN link
                      /\ link[l].to <= now
                      /\ link[l].process_message \in DOMAIN RenewStage
<1>1. TypeOK /\ BillingInv /\ OneRunInv /\ [Next]_vars => A
    BY NewCharge, PaysOnce DEF OneRunInv
<1>2. TypeOK /\ BillingInv /\ OneRunInv /\ [Next]_vars => [A]_vars
    BY <1>1
<1> HIDE DEF A
<1>3. Spec => [][A]_vars
    BY <1>2, InvHolds, OneRunHolds, PTL DEF Spec
<1> QED
    BY <1>3 DEF A, RenewalFollowsNotice

LEMMA ExpiredKept ==
    ASSUME TypeOK, BillingInv, OneRunInv, [Next]_vars, ~overlapped', NEW l \in DOMAIN link,
           link[l].process_message \in ExpiredMessage, l \in DOMAIN link'
    PROVE  link'[l].process_message \in ExpiredMessage
<1>1. OneRun /\ DatesInv
    BY OverlapStays DEF OneRunInv
<1>2. ASSUME RowsKeep PROVE link'[l].process_message \in ExpiredMessage
    <2>1. l # nextId
        BY NextIdIsNew DEF TypeOK
    <2> QED
        BY <1>2, <2>1 DEF RowsKeep
<1>3. ASSUME NEW c \in Crons, CronStep(c) \/ CronDie(c)
      PROVE  link'[l].process_message \in ExpiredMessage
    BY <1>1, <1>2, <1>3, CronRows, MarkKeepsExpired
<1>4. ASSUME Request \/ \E w \in Workers : WorkerStep(w) \/ WorkerDie(w)
      PROVE  link'[l].process_message \in ExpiredMessage
    BY <1>2, <1>4, RequestRows
<1>5. CASE UNCHANGED link
    BY <1>2, <1>5, SameRowsKeep
<1> QED
    BY <1>3, <1>4, <1>5 DEF Next, Tick, CronAct, WorkerAct, vars, tableVars

\* A link marked expired stays expired (ExpiredIsFinal, for all constants).
THEOREM ExpiredStays == Spec => ExpiredIsFinal
<1> DEFINE A == \A l \in DOMAIN link :
                   /\ ~overlapped'
                   /\ link[l].process_message \in ExpiredMessage
                   /\ l \in DOMAIN link'
                   => link'[l].process_message \in ExpiredMessage
<1>1. TypeOK /\ BillingInv /\ OneRunInv /\ [Next]_vars => [A]_vars
    BY ExpiredKept
<1> HIDE DEF A
<1>2. Spec => [][A]_vars
    BY <1>1, InvHolds, OneRunHolds, PTL DEF Spec
<1> QED
    BY <1>2 DEF A, ExpiredIsFinal

(***************************************************************************)
(* A renewal that is on was paid for                                       *)
(***************************************************************************)

\* Who switches a link on that was off.
LEMMA SwitchedOn ==
    ASSUME TypeOK, BillingInv, [Next]_vars, NEW i \in DOMAIN link', link'[i].active,
           ~(i \in DOMAIN link /\ link[i].active)
    PROVE  \/ \E w \in Workers : i = worker[w].new /\ worker[w].pc \notin {"idle", "create"}
           \/ \E c \in Crons : /\ CronSettle(c) \/ CronActivate(c)
                               /\ i = cron[c].new
           \/ \E c \in Crons : CronSwitchOn(c) /\ i = cron[c].found
<1>1. TableOK /\ nextId \notin DOMAIN link
    BY NextIdIsNew DEF TypeOK
<1>2. ASSUME NEW l, NEW flag, SetActive(l, flag) PROVE i = l /\ i \in DOMAIN link
    BY <1>1, <1>2 DEF SetActive, TableOK, Row
<1>3. ASSUME NEW l, Delete(l) PROVE FALSE
    BY <1>3 DEF Delete
<1>4. ~UNCHANGED link
    OBVIOUS
<1>5. ASSUME NEW c \in Crons, CronStep(c) \/ CronDie(c)
      PROVE  \/ \E d \in Crons : /\ CronSettle(d) \/ CronActivate(d)
                                 /\ i = cron[d].new
             \/ \E d \in Crons : CronSwitchOn(d) /\ i = cron[d].found
    <2>1. CASE CronSettle(c) \/ CronActivate(c)
        <3>1. i = cron[c].new
            BY <1>2, <2>1 DEF CronSettle, CronActivate
        <3> QED
            BY <2>1, <3>1
    <2>2. CASE CronSwitchOn(c)
        <3>1. i = cron[c].found
            BY <1>2, <2>2 DEF CronSwitchOn
        <3> QED
            BY <2>2, <3>1
    <2>3. ASSUME NEW l \in cron[c].todo, CronRenew(c, l) PROVE FALSE
        <3>1. i \in DOMAIN link' /\ RowsKeep /\ ~CronMark(c)
            BY <1>5, <2>3, CronRows DEF CronRenew, ActsOn, CronMark
        <3>2. i # nextId
            BY <1>1, <3>1 DEF RowsKeep
        <3>3. ASSUME NEW row, NEW via, NEW of, Insert(row, via, of), UNCHANGED charged
              PROVE  i \in DOMAIN link /\ link'[i] = link[i]
            BY <1>1, <3>2, <3>3, InsertGrows
        <3> QED
            BY <1>4, <2>3, <3>3 DEF CronRenew
    <2>4. ~CronMark(c)
        <3>1. ASSUME CronMark(c)
              PROVE  /\ DOMAIN link' = DOMAIN link
                     /\ i # cron[c].cur => link'[i] = link[i]
                     /\ link'[cron[c].cur].active => link[cron[c].cur].active
            BY <3>1, MarkShape
        <3> QED
            BY <3>1
    <2>5. ~CronDiscard(c)
        BY <1>3 DEF CronDiscard
    <2>6. \/ CronSettle(c) \/ CronActivate(c) \/ CronMark(c) \/ CronDiscard(c)
          \/ CronSwitchOn(c) \/ \E l \in cron[c].todo : CronRenew(c, l)
        BY <1>4, <1>5 DEF CronStep, CronDie, CronStart, CronBeginActions, CronFinish,
           CronRowGone, CronClassify, CronNotify, CronClose, CronDowngrade, CronPay, tableVars
    <2> QED
        BY <2>1, <2>2, <2>3, <2>4, <2>5, <2>6
<1>6. ASSUME NEW w \in Workers, WorkerStep(w) \/ WorkerDie(w)
      PROVE  i = worker[w].new /\ worker[w].pc \notin {"idle", "create"}
    <2>1. CASE WorkerSettle(w) \/ WorkerActivate(w)
        BY <1>2, <2>1 DEF WorkerSettle, WorkerActivate
    <2>2. CASE WorkerConclude(w)
        <3>1. UNCHANGED link \/ SetActive(worker[w].old, FALSE)
            BY <2>2 DEF WorkerConclude, WorkerKeep, HasErrors
        <3>2. ~SetActive(worker[w].old, FALSE)
            <4>1. SUFFICES ASSUME SetActive(worker[w].old, FALSE) PROVE FALSE
                OBVIOUS
            <4>2. i = worker[w].old /\ i \in DOMAIN link
                BY <1>2, <4>1
            <4>3. ~link'[i].active
                BY <1>1, <4>1, <4>2 DEF SetActive, TableOK, Row
            <4> QED
                BY <4>3
        <3> QED
            BY <1>4, <3>1, <3>2
    <2>3. ~UpgradeCreate(w)
        <3>1. SUFFICES ASSUME UpgradeCreate(w) PROVE FALSE
            OBVIOUS
        <3>2. RowsKeep
            BY <1>6, RequestRows
        <3>3. i # nextId
            BY <1>1, <3>2 DEF RowsKeep
        <3>4. PICK row, via, of : Insert(row, via, of) /\ UNCHANGED charged
            BY <1>4, <3>1 DEF UpgradeCreate
        <3> QED
            BY <1>1, <3>3, <3>4, InsertGrows
    <2> QED
        BY <1>4, <1>6, <2>1, <2>2, <2>3 DEF WorkerStep, WorkerPay, WorkerDie, tableVars
<1>7. ~Request
    <2>1. ASSUME NEW row, NEW via, NEW of, Insert(row, via, of), UNCHANGED charged, Request
          PROVE  FALSE
        <3>1. RowsKeep
            BY <2>1, RequestRows
        <3>2. i # nextId
            BY <1>1, <3>1 DEF RowsKeep
        <3> QED
            BY <1>1, <2>1, <3>2, InsertGrows
    <2>2. ASSUME NEW l \in DOMAIN link, CancelSubscription(l) PROVE FALSE
        BY <1>1, <2>2 DEF CancelSubscription, TableOK, Row
    <2>3. ASSUME NEW w \in Workers, NEW l \in DOMAIN link, UpgradeSave(w, l) PROVE FALSE
        BY <1>4, <2>3 DEF UpgradeSave, tableVars
    <2> QED
        BY <2>1, <2>2, <2>3 DEF Request, DowngradeSave, RenewSave
<1> QED
    BY <1>4, <1>5, <1>6, <1>7 DEF Next, Tick, CronAct, WorkerAct, vars, tableVars

\* What a run has found to be a downgrade waiting to start is no unpaid renewal.
LEMMA DowngradeIsNoRenewal ==
    ASSUME TypeOK, BillingInv, OneRun, RefusedLeavesNoLink, NEW c \in Crons,
           cron[c].pc = "switch", NEW d \in DOMAIN link, d = cron[c].found,
           origin[d].via = "renewal"
    PROVE  d \in charged
<1>1. d \in DOMAIN link /\ link[d].from >= cron[c].at /\ d # NoLink /\ Running(c)
    BY NextIdIsNew DEF BillingInv, FoundWaits, TypeOK, Running
<1>2. d \notin interrupted
    <2>1. link[d].from \in Nat /\ cron[c].at \in Nat
        BY <1>1, AtType DEF TypeOK, TableOK, Row
    <2>2. d \in interrupted => link[d].from < cron[c].at
        BY <1>1 DEF OneRun, StartedBefore
    <2> QED
        BY <1>1, <2>1, <2>2
<1>3. ASSUME NEW e \in Crons, cron[e].new = d PROVE FALSE
    <2>1. Running(e) /\ cron[c].new = NoLink
        BY <1>1, <1>3 DEF BillingInv, OwnsNew, Running
    <2>2. e = c
        BY <1>1, <2>1 DEF OneRun
    <2> QED
        BY <1>1, <1>3, <2>1, <2>2
<1> QED
    BY <1>1, <1>2, <1>3 DEF RefusedLeavesNoLink

LEMMA PaidStep ==
    TypeOK /\ BillingInv /\ OneRunInv /\ RefusedLeavesNoLink /\ RenewalsArePaid /\ [Next]_vars
        => RenewalsArePaid'
<1> SUFFICES ASSUME TypeOK, BillingInv, OneRunInv, RefusedLeavesNoLink, RenewalsArePaid,
                    [Next]_vars, ~overlapped',
                    NEW i \in DOMAIN link', origin'[i].via = "renewal", link'[i].active
             PROVE  i \in charged'
    BY DEF RenewalsArePaid
<1>1. OneRun /\ ~overlapped
    BY OverlapStays DEF OneRunInv
<1>2. Grows
    <2>1. CASE UNCHANGED <<link, charged, origin>>
        BY <2>1, SameTableGrows
    <2> QED
        BY <2>1, CronStepInv, RequestEffects
           DEF CronEffect, RequestEffect, Next, Tick, CronAct, WorkerAct, vars, tableVars
<1>3. i \in DOMAIN link => i \in DOMAIN origin /\ origin'[i] = origin[i]
    BY <1>2 DEF Grows, TypeOK, TableOK
<1>4. CASE i \in DOMAIN link /\ link[i].active
    BY <1>1, <1>2, <1>3, <1>4 DEF RenewalsArePaid, Grows
<1>5. ASSUME NEW c \in Crons, CronSettle(c) \/ CronActivate(c), i = cron[c].new
      PROVE  i \in charged'
    BY <1>2, <1>5 DEF CronSettle, CronActivate, BillingInv, OwnsNew, Grows
<1>6. ASSUME NEW c \in Crons, CronSwitchOn(c), i = cron[c].found
      PROVE  i \in charged'
    <2>1. cron[c].pc = "switch" /\ i \in DOMAIN link
        BY <1>6 DEF CronSwitchOn
    <2> QED
        BY <1>1, <1>2, <1>3, <1>6, <2>1, DowngradeIsNoRenewal DEF Grows
<1>7. ASSUME NEW w \in Workers, i = worker[w].new, worker[w].pc \notin {"idle", "create"}
      PROVE  FALSE
    BY <1>3, <1>7 DEF BillingInv, PaysForOwn
<1> QED
    BY <1>4, <1>5, <1>6, <1>7, SwitchedOn

\* A renewal is on only if the card was charged for it (RenewalsArePaid, for
\* every value of the constants).
THEOREM RenewalIsPaid == Spec => []RenewalsArePaid
<1>1. Init => RenewalsArePaid
    <2> SUFFICES ASSUME Init PROVE RenewalsArePaid
        OBVIOUS
    <2>1. DOMAIN link = DOMAIN origin /\ \A i \in DOMAIN origin : origin[i].via = "register"
        BY DEF Init, InitTable
    <2> QED
        BY <2>1 DEF RenewalsArePaid
<1>2. TypeOK /\ BillingInv /\ OneRunInv /\ RefusedLeavesNoLink /\ RenewalsArePaid /\ [Next]_vars
        => RenewalsArePaid'
    BY PaidStep
<1> QED
    BY <1>1, <1>2, InvHolds, OneRunHolds, RefusedIsDeleted, PTL DEF Spec

=============================================================================
