-------------------------- MODULE BillingInvariant --------------------------
(***************************************************************************)
(* BillingInv is an invariant of Billing, however many cron runs overlap   *)
(* and whichever process dies: each process keeps to the link it created,  *)
(* and the copies a run works on have the end dates of the rows.  Two      *)
(* properties follow from it: what was paid for is served, and a refused   *)
(* renewal leaves no row behind.                                           *)
(***************************************************************************)
EXTENDS BillingTypes

USE DEF Start, NoLink

(***************************************************************************)
(* What every step leaves alone                                            *)
(***************************************************************************)

\* Ids keep their origin, rows keep their dates, charges stay.
Grows ==
    /\ \A i \in DOMAIN origin : i \in DOMAIN origin' /\ origin'[i] = origin[i]
    /\ \A l \in DOMAIN link' :
          \/ l = nextId
          \/ l \in DOMAIN link /\ link'[l].to = link[l].to /\ link'[l].from = link[l].from
    /\ charged \subseteq charged'

LEMMA NextIdIsNew ==
    ASSUME TableOK
    PROVE  /\ nextId \notin DOMAIN origin /\ nextId \notin DOMAIN link
           /\ nextId \notin charged /\ nextId # NoLink
           /\ NoLink \notin DOMAIN origin /\ NoLink \notin DOMAIN link
    BY StartAssumption DEF TableOK

LEMMA InsertGrows ==
    ASSUME TableOK, NEW row, NEW via, NEW of, Insert(row, via, of), UNCHANGED charged
    PROVE  /\ Grows
           /\ DOMAIN link' = DOMAIN link \cup {nextId}
           /\ DOMAIN origin' = DOMAIN origin \cup {nextId}
           /\ link'[nextId] = row
           /\ origin'[nextId] = [via |-> via, of |-> of]
           /\ \A l \in DOMAIN link : link'[l] = link[l]
    BY NextIdIsNew DEF Insert, Grows

LEMMA SetActiveGrows ==
    ASSUME TableOK, NEW l, NEW flag, SetActive(l, flag), UNCHANGED <<charged, origin>>
    PROVE  /\ Grows
           /\ DOMAIN link' = DOMAIN link
           /\ \A i \in DOMAIN link : i # l => link'[i] = link[i]
           /\ l \in DOMAIN link => link'[l].active = flag
    BY DEF SetActive, Grows, TableOK, Row

LEMMA DeleteGrows ==
    ASSUME TableOK, NEW l, Delete(l), UNCHANGED <<charged, origin>>
    PROVE  /\ Grows
           /\ DOMAIN link' = DOMAIN link \ {l}
           /\ \A i \in DOMAIN link' : link'[i] = link[i]
    BY DEF Delete, Grows

LEMMA SameTableGrows ==
    ASSUME UNCHANGED <<link, charged, origin>>
    PROVE  Grows
    BY DEF Grows

(***************************************************************************)
(* A process that does not move keeps its part of the invariant            *)
(***************************************************************************)

\* Another process may add a link, and delete or charge one that is not ours.
LEMMA OtherOwnsNew ==
    ASSUME TypeOK, BillingInv, NEW c \in Crons,
           cron'[c] = cron[c], handled'[c] = handled[c], Grows,
           DOMAIN link \ DOMAIN link' \subseteq DOMAIN link \ {cron[c].new},
           charged' \ charged \subseteq DOMAIN origin \ {cron[c].new},
           \A d \in Crons : d # c =>
              cron'[d].new \in {cron[d].new, NoLink, nextId}
    PROVE  OwnsNew(c)'
<1> DEFINE p == cron[c]
<1>1. OwnsNew(c)
    BY DEF BillingInv
<1>2. DOMAIN origin \subseteq DOMAIN origin'
    BY DEF Grows
<1>3. p.pc \in PayingPC => p.new \in DOMAIN link'
    BY <1>1 DEF OwnsNew
<1>4. p.pc \in {"pay", "declined"} => p.new \notin charged'
    BY <1>1 DEF OwnsNew
<1>5. p.pc = "mark" => p.new \in charged' \/ p.new \notin DOMAIN link'
    <2>1. p.new # nextId
        BY <1>1, NextIdIsNew DEF OwnsNew, TypeOK
    <2> QED
        BY <1>1, <2>1 DEF OwnsNew, Grows
<1>6. p.new # NoLink =>
        /\ p.new \in DOMAIN origin' /\ origin'[p.new].via = "renewal"
        /\ \A d \in Crons : d # c => cron'[d].new # p.new
    BY <1>1, NextIdIsNew DEF OwnsNew, Grows, TypeOK
<1>7. /\ p.todo \subseteq DOMAIN handled[c]
      /\ DOMAIN handled[c] \subseteq DOMAIN origin'
      /\ p.pc \in {"idle", "classify", "act", "switch"} => p.new = NoLink
      /\ p.pc \in PayingPC \cup {"switch", "mark"} => p.cur \in p.todo
      /\ p.pc \in {"paid", "settled"} => p.new \in charged'
    BY <1>1, <1>2 DEF OwnsNew, Grows
<1> QED
    BY <1>3, <1>4, <1>5, <1>6, <1>7 DEF OwnsNew, PayingPC

LEMMA NowType ==
    ASSUME TypeOK
    PROVE  now \in Nat
    BY ClockAssumption DEF TypeOK

LEMMA AtType ==
    ASSUME TypeOK, NEW c \in Crons
    PROVE  cron[c] \in CronState /\ cron[c].at \in Nat
    BY DEF TypeOK, CronOK, CronState

LEMMA OtherListIsCurrent ==
    ASSUME TypeOK, BillingInv, NEW c \in Crons,
           cron'[c] = cron[c], handled'[c] = handled[c], Grows,
           now' \in Nat, now <= now'
    PROVE  ListIsCurrent(c)'
<1>1. OwnsNew(c) /\ ListIsCurrent(c)
    BY DEF BillingInv
<1>2. cron[c].at \in Nat /\ now \in Nat
    BY AtType, NowType
<1>3. cron[c].at <= now'
    BY <1>1, <1>2 DEF ListIsCurrent
<1>4. ASSUME NEW l \in DOMAIN handled[c], l \in DOMAIN link'
      PROVE  link'[l].to = handled[c][l].subscription.to
    <2>1. l # nextId
        BY <1>1, NextIdIsNew DEF OwnsNew, TypeOK
    <2> QED
        BY <1>1, <1>4, <2>1 DEF ListIsCurrent, Grows
<1> QED
    BY <1>1, <1>3, <1>4 DEF ListIsCurrent

\* Nor does the downgrade that a run has found move to another date.
LEMMA FoundStays ==
    ASSUME TypeOK, BillingInv, NEW c \in Crons, Grows,
           cron'[c].pc = "switch" => cron'[c] = cron[c]
    PROVE  FoundWaits(c)'
<1>1. FoundWaits(c)
    BY DEF BillingInv
<1>2. nextId \notin DOMAIN origin
    BY NextIdIsNew DEF TypeOK
<1> QED
    BY <1>1, <1>2 DEF FoundWaits, Grows

LEMMA OtherPaysForOwn ==
    ASSUME TypeOK, BillingInv, NEW w \in Workers, worker'[w] = worker[w], Grows,
           \A i \in DOMAIN link \ DOMAIN link' : origin[i].via = "renewal"
    PROVE  PaysForOwn(w)'
<1>1. PaysForOwn(w)
    BY DEF BillingInv
<1>2. DOMAIN link \subseteq DOMAIN origin
    BY DEF TypeOK, TableOK
<1> QED
    BY <1>1, <1>2 DEF PaysForOwn, Grows

(***************************************************************************)
(* Requests                                                                *)
(***************************************************************************)

\* What any step of a request or of a worker does to the rest of the system.
RequestEffect ==
    /\ Grows
    /\ DOMAIN link \subseteq DOMAIN link'
    /\ charged' \ charged \subseteq {i \in DOMAIN origin : origin[i].via # "renewal"}

LEMMA CancelEffect ==
    ASSUME TypeOK, BillingInv, NEW l \in DOMAIN link, CancelSubscription(l)
    PROVE  /\ RequestEffect
           /\ \A w \in Workers : PaysForOwn(w)'
<1>1. RequestEffect
    BY DEF CancelSubscription, RequestEffect, Grows, TypeOK, TableOK, Row
<1>2. ASSUME NEW w \in Workers PROVE PaysForOwn(w)'
    BY <1>1, OtherPaysForOwn DEF CancelSubscription, workerVars, RequestEffect
<1> QED
    BY <1>1, <1>2

LEMMA DowngradeEffect ==
    ASSUME TypeOK, BillingInv, NEW u \in User, NEW l \in DOMAIN link, NEW s \in Sub,
           DowngradeSave(u, l, s)
    PROVE  /\ RequestEffect
           /\ \A w \in Workers : PaysForOwn(w)'
<1>1. RequestEffect
    BY InsertGrows DEF DowngradeSave, RequestEffect, TypeOK
<1>2. ASSUME NEW w \in Workers PROVE PaysForOwn(w)'
    BY <1>1, OtherPaysForOwn DEF DowngradeSave, workerVars, RequestEffect
<1> QED
    BY <1>1, <1>2

LEMMA BeginPaymentEffect ==
    ASSUME TypeOK, BillingInv, NEW w \in Workers, NEW row, NEW via, NEW of, NEW flag, NEW old,
           via # "renewal", Insert(row, via, of), UNCHANGED charged,
           BeginPayment(w, old, flag)
    PROVE  /\ RequestEffect
           /\ \A v \in Workers : PaysForOwn(v)'
<1>1. RequestEffect /\ nextId \in DOMAIN link' /\ origin'[nextId].via = via
    <2>1. /\ Grows
          /\ DOMAIN link' = DOMAIN link \cup {nextId}
          /\ origin'[nextId] = [via |-> via, of |-> of]
        BY InsertGrows DEF TypeOK
    <2> QED
        BY <2>1 DEF RequestEffect
<1>2. ASSUME NEW v \in Workers, v # w PROVE PaysForOwn(v)'
    BY <1>1, <1>2, OtherPaysForOwn DEF BeginPayment, RequestEffect, TypeOK, WorkersOK
<1>3. PaysForOwn(w)'
    BY <1>1 DEF BeginPayment, PaysForOwn, TypeOK, WorkersOK
<1> QED
    BY <1>1, <1>2, <1>3

LEMMA PaidRequestEffect ==
    ASSUME TypeOK, BillingInv, NEW w \in Workers,
           \/ \E l \in DOMAIN link : UpgradeSave(w, l)
           \/ UpgradeCreate(w)
           \/ \E u \in User, s \in Sub : RenewSave(w, u, s)
    PROVE  /\ RequestEffect
           /\ \A v \in Workers : PaysForOwn(v)'
<1>0. ASSUME UNCHANGED <<link, charged, origin>>,
             NEW r, worker' = [worker EXCEPT ![w] = r],
             r.pc \in {"idle", "create"}, r.new = NoLink
      PROVE  RequestEffect /\ \A v \in Workers : PaysForOwn(v)'
    <2>1. RequestEffect
        BY <1>0, SameTableGrows DEF RequestEffect
    <2>2. ASSUME NEW v \in Workers, v # w PROVE PaysForOwn(v)'
        BY <1>0, <2>1, <2>2, OtherPaysForOwn DEF RequestEffect, TypeOK, WorkersOK
    <2>3. PaysForOwn(w)'
        BY <1>0 DEF PaysForOwn, TypeOK, WorkersOK
    <2> QED
        BY <2>1, <2>2, <2>3
<1>1. ASSUME NEW l \in DOMAIN link, UpgradeSave(w, l)
      PROVE  RequestEffect /\ \A v \in Workers : PaysForOwn(v)'
    <2> DEFINE r == [IdleWorker EXCEPT !.pc = "create", !.old = l, !.oldActive = link[l].active]
    <2>1. r.pc = "create" /\ r.new = NoLink
        BY DEF IdleWorker
    <2>2. worker' = [worker EXCEPT ![w] = r] /\ UNCHANGED <<link, charged, origin>>
        BY <1>1 DEF UpgradeSave, tableVars
    <2> HIDE DEF r
    <2> QED
        BY <1>0, <2>1, <2>2
<1>3. CASE UpgradeCreate(w)
    <2>1. ASSUME NEW u \in User, NEW s \in UpgradeTo, UNCHANGED charged,
                 Insert(NewRow(u, s, now, now + Period[s]), "upgrade", worker[w].old),
                 BeginPayment(w, worker[w].old, worker[w].oldActive)
          PROVE  RequestEffect /\ \A v \in Workers : PaysForOwn(v)'
        <3> DEFINE row == NewRow(u, s, now, now + Period[s])
        <3>1. Insert(row, "upgrade", worker[w].old)
            BY <2>1
        <3> HIDE DEF row
        <3> QED
            BY <2>1, <3>1, BeginPaymentEffect
    <2>2. IdleWorker.pc = "idle" /\ IdleWorker.new = NoLink
        BY DEF IdleWorker
    <2>3. ASSUME worker' = [worker EXCEPT ![w] = IdleWorker],
                 UNCHANGED <<link, origin, charged>>
          PROVE  RequestEffect /\ \A v \in Workers : PaysForOwn(v)'
        BY <1>0, <2>2, <2>3
    <2> QED
        BY <1>3, <2>1, <2>3 DEF UpgradeCreate
<1>2. ASSUME NEW u \in User, NEW s \in Sub, RenewSave(w, u, s)
      PROVE  RequestEffect /\ \A v \in Workers : PaysForOwn(v)'
    <2> DEFINE row == NewRow(u, s, now, now + Period[s])
    <2>1. Insert(row, "renew", NoLink) /\ BeginPayment(w, NoLink, FALSE) /\ UNCHANGED charged
        BY <1>2 DEF RenewSave
    <2> HIDE DEF row
    <2> QED
        BY <2>1, BeginPaymentEffect
<1> QED
    BY <1>1, <1>2, <1>3

\* What a server process does once the link to be paid for is there, or killed.
WorkerGoesOn(w) ==
    \/ WorkerPay(w)
    \/ WorkerSettle(w)
    \/ WorkerConclude(w)
    \/ WorkerActivate(w)
    \/ WorkerDie(w)

LEMMA WorkerStepEffect ==
    ASSUME TypeOK, BillingInv, NEW w \in Workers, WorkerGoesOn(w)
    PROVE  /\ RequestEffect
           /\ \A v \in Workers : PaysForOwn(v)'
<1>1. RequestEffect /\ UNCHANGED origin
    <2>1. CASE WorkerPay(w)
        <3>1. worker[w].new \in DOMAIN origin /\ origin[worker[w].new].via # "renewal"
            BY <2>1 DEF WorkerPay, BillingInv, PaysForOwn, TypeOK, TableOK
        <3> QED
            BY <2>1, <3>1 DEF WorkerPay, Charge, RequestEffect, Grows
    <2>2. CASE WorkerSettle(w) \/ WorkerActivate(w)
        BY <2>2, SetActiveGrows DEF WorkerSettle, WorkerActivate, RequestEffect, TypeOK
    <2>3. CASE WorkerConclude(w)
        <3>1. /\ UNCHANGED <<charged, origin>>
              /\ UNCHANGED link \/ SetActive(worker[w].old, FALSE)
            BY <2>3 DEF WorkerConclude, HasErrors, WorkerKeep
        <3> QED
            BY <3>1, SetActiveGrows, SameTableGrows DEF RequestEffect, TypeOK
    <2>4. CASE WorkerDie(w)
        BY <2>4, SameTableGrows DEF WorkerDie, tableVars, RequestEffect
    <2> QED
        BY <2>1, <2>2, <2>3, <2>4 DEF WorkerGoesOn
<1>2. ASSUME NEW v \in Workers, v # w PROVE PaysForOwn(v)'
    <2>1. worker'[v] = worker[v]
        BY <1>2 DEF WorkerGoesOn, WorkerPay, WorkerSettle, WorkerConclude, WorkerKeep,
                    WorkerActivate, WorkerDie, HasErrors, TypeOK, WorkersOK
    <2> QED
        BY <1>1, <2>1, OtherPaysForOwn DEF RequestEffect
<1>3. PaysForOwn(w)'
    <2>1. \/ worker'[w].pc = "idle"
          \/ /\ worker[w].pc \notin {"idle", "create"} /\ worker'[w].pc # "create"
             /\ worker'[w].new = worker[w].new
        <3>1. worker \in [Workers -> [pc : WorkerPC, old : LinkId \cup {NoLink},
                    oldActive : BOOLEAN, new : LinkId \cup {NoLink}, error : BOOLEAN]]
            BY DEF TypeOK, WorkersOK, WorkerState
        <3>2. CASE WorkerPay(w) \/ WorkerSettle(w)
            BY <3>1, <3>2 DEF WorkerPay, WorkerSettle
        <3>3. CASE WorkerConclude(w)
            <4>1. \/ worker' = [worker EXCEPT ![w] = IdleWorker]
                  \/ worker' = [worker EXCEPT ![w].pc = "activate"]
                BY <3>3 DEF WorkerConclude, WorkerKeep, HasErrors
            <4>2. worker[w].pc = "answered"
                BY <3>3 DEF WorkerConclude
            <4> QED
                BY <3>1, <4>1, <4>2 DEF IdleWorker
        <3>4. CASE WorkerActivate(w) \/ WorkerDie(w)
            <4>1. worker' = [worker EXCEPT ![w] = IdleWorker]
                BY <3>4 DEF WorkerActivate, WorkerDie
            <4>2. worker'[w] = IdleWorker
                BY <3>1, <4>1
            <4> QED
                BY <4>2 DEF IdleWorker
        <3> QED
            BY <3>2, <3>3, <3>4 DEF WorkerGoesOn
    <2> QED
        BY <1>1, <2>1 DEF BillingInv, PaysForOwn, RequestEffect
<1> QED
    BY <1>1, <1>2, <1>3

\* The cron processes keep theirs through a step of a request.
LEMMA RequestInv ==
    ASSUME TypeOK, BillingInv, RequestEffect, UNCHANGED <<now, cronVars>>,
           \A w \in Workers : PaysForOwn(w)'
    PROVE  BillingInv'
<1>1. ASSUME NEW c \in Crons PROVE OwnsNew(c)' /\ ListIsCurrent(c)' /\ FoundWaits(c)'
    <2>1. cron'[c] = cron[c] /\ handled'[c] = handled[c] /\ now' \in Nat /\ now <= now'
        BY NowType DEF cronVars
    <2>2. charged' \ charged \subseteq DOMAIN origin \ {cron[c].new}
        <3>1. cron[c].new # NoLink => origin[cron[c].new].via = "renewal"
            BY DEF BillingInv, OwnsNew
        <3>2. NoLink \notin DOMAIN origin
            BY NextIdIsNew DEF TypeOK
        <3> QED
            BY <3>1, <3>2 DEF RequestEffect
    <2>3. DOMAIN link \ DOMAIN link' = {}
        BY DEF RequestEffect
    <2>4. \A d \in Crons : cron'[d].new = cron[d].new
        BY DEF cronVars
    <2> QED
        BY <2>1, <2>2, <2>3, <2>4, OtherOwnsNew, OtherListIsCurrent, FoundStays
           DEF RequestEffect
<1> QED
    BY <1>1 DEF BillingInv

(***************************************************************************)
(* Cron runs                                                               *)
(***************************************************************************)

\* What a step of run c does to the rest of the system: it may add one link,
\* and delete or charge the one it is paying for.
CronEffect(c) ==
    /\ Grows
    /\ DOMAIN link \ DOMAIN link' \subseteq {cron[c].new}
    /\ charged' \ charged \subseteq DOMAIN origin \cap {cron[c].new}
    /\ cron'[c].new \in {cron[c].new, NoLink, nextId}
    /\ \A d \in Crons : d # c => cron'[d] = cron[d] /\ handled'[d] = handled[d]

LEMMA CronInv ==
    ASSUME TypeOK, BillingInv, NEW c \in Crons, CronEffect(c),
           UNCHANGED <<now, workerVars>>, OwnsNew(c)', ListIsCurrent(c)', FoundWaits(c)'
    PROVE  BillingInv'
<1>1. NoLink \notin DOMAIN origin /\ NoLink \notin DOMAIN link
    BY NextIdIsNew DEF TypeOK
<1>2. cron[c].new # NoLink => origin[cron[c].new].via = "renewal"
    BY DEF BillingInv, OwnsNew
<1>3. ASSUME NEW d \in Crons, d # c
      PROVE  OwnsNew(d)' /\ ListIsCurrent(d)' /\ FoundWaits(d)'
    <2>1. cron[c].new # NoLink => cron[d].new # cron[c].new
        BY <1>3 DEF BillingInv, OwnsNew
    <2>2. DOMAIN link \ DOMAIN link' \subseteq DOMAIN link \ {cron[d].new}
        BY <1>1, <2>1 DEF CronEffect
    <2>3. charged' \ charged \subseteq DOMAIN origin \ {cron[d].new}
        BY <1>1, <2>1 DEF CronEffect
    <2>4. \A e \in Crons : e # d => cron'[e].new \in {cron[e].new, NoLink, nextId}
        BY DEF CronEffect
    <2> QED
        BY <1>3, <2>2, <2>3, <2>4, NowType, OtherOwnsNew, OtherListIsCurrent, FoundStays
           DEF CronEffect
<1>4. ASSUME NEW w \in Workers PROVE PaysForOwn(w)'
    BY <1>1, <1>2, OtherPaysForOwn DEF CronEffect, workerVars
<1> QED
    BY <1>3, <1>4 DEF BillingInv

\* Taking up an element keeps the list current, if it was found expired before
\* it is given an expired message.
LEMMA TakeCurrent ==
    ASSUME TypeOK, BillingInv, NEW c \in Crons, NEW l \in cron[c].todo,
           NEW m, NEW pc, NEW new, NEW found, Take(c, l, m, pc, new, found),
           m \in ExpiredMessage => Planned(c, l) \in ExpiredMessage,
           Grows, UNCHANGED now
    PROVE  /\ ListIsCurrent(c)'
           /\ DOMAIN handled'[c] = DOMAIN handled[c]
           /\ cron'[c] = [cron[c] EXCEPT !.pc = pc, !.cur = l, !.new = new, !.found = found]
           /\ \A d \in Crons : d # c => cron'[d] = cron[d] /\ handled'[d] = handled[d]
<1>1. OwnsNew(c) /\ ListIsCurrent(c) /\ l \in DOMAIN handled[c]
    BY DEF BillingInv, OwnsNew
<1>2. handled[c] \in [DOMAIN handled[c] -> Element] /\ cron[c] \in CronState
    BY DEF TypeOK, CronOK
<1>3. /\ handled'[c] = [handled[c] EXCEPT ![l].process_message = m]
      /\ cron'[c] = [cron[c] EXCEPT !.pc = pc, !.cur = l, !.new = new, !.found = found]
      /\ \A d \in Crons : d # c => cron'[d] = cron[d] /\ handled'[d] = handled[d]
    BY DEF Take, TypeOK, CronOK
<1>4. cron'[c].at = cron[c].at
    BY <1>2, <1>3 DEF CronState
<1>5. DOMAIN handled'[c] = DOMAIN handled[c]
    BY <1>3
<1>6. ASSUME NEW i \in DOMAIN handled[c]
      PROVE  /\ handled'[c][i].subscription = handled[c][i].subscription
             /\ handled'[c][i].process_message = IF i = l THEN m
                                                 ELSE handled[c][i].process_message
    BY <1>2, <1>3 DEF Element
<1>7. ASSUME NEW i \in DOMAIN handled[c], i \in DOMAIN link'
      PROVE  link'[i].to = handled'[c][i].subscription.to
    <2>1. i # nextId
        BY <1>1, NextIdIsNew DEF OwnsNew, TypeOK
    <2> QED
        BY <1>1, <1>6, <1>7, <2>1 DEF ListIsCurrent, Grows
<1>8. ASSUME NEW i \in DOMAIN handled[c], handled'[c][i].process_message \in ExpiredMessage
      PROVE  handled'[c][i].subscription.to <= cron[c].at
    BY <1>1, <1>6, <1>8 DEF ListIsCurrent, Planned
<1> QED
    BY <1>1, <1>3, <1>4, <1>5, <1>7, <1>8 DEF ListIsCurrent

LEMMA CronStartInv ==
    ASSUME TypeOK, BillingInv, NEW c \in Crons, CronStart(c)
    PROVE  CronEffect(c) /\ OwnsNew(c)' /\ (UNCHANGED now => ListIsCurrent(c)')
<1> DEFINE list == [l \in Handled(now) |->
                      [subscription |-> CopyOf(link[l]), process_message |-> "none"]]
<1>1. /\ cron'[c] = [pc |-> "classify", at |-> now, todo |-> Handled(now),
                     cur |-> NoLink, new |-> NoLink, found |-> NoLink]
      /\ handled'[c] = list
      /\ \A d \in Crons : d # c => cron'[d] = cron[d] /\ handled'[d] = handled[d]
      /\ UNCHANGED <<link, charged, origin>>
    BY DEF CronStart, TypeOK, CronOK, tableVars
<1>2. Handled(now) \subseteq DOMAIN link /\ DOMAIN link \subseteq DOMAIN origin
    BY DEF Handled, DueBy, TypeOK, TableOK
<1>3. CronEffect(c)
    BY <1>1, SameTableGrows DEF CronEffect
<1>4. OwnsNew(c)'
    BY <1>1, <1>2 DEF OwnsNew, PayingPC
<1>5. ASSUME NEW l \in Handled(now)
      PROVE  list[l].subscription.to = link[l].to /\ list[l].process_message = "none"
    BY <1>2 DEF CopyOf, TypeOK, TableOK, Row
<1>6. UNCHANGED now => ListIsCurrent(c)'
    BY <1>1, <1>5, NowType DEF ListIsCurrent, ExpiredMessage
<1> QED
    BY <1>3, <1>4, <1>6

LEMMA CronClassifyInv ==
    ASSUME TypeOK, BillingInv, NEW c \in Crons, NEW l \in cron[c].todo,
           CronClassify(c, l), UNCHANGED now
    PROVE  CronEffect(c) /\ OwnsNew(c)' /\ ListIsCurrent(c)'
<1> DEFINE m == Classification(handled[c][l].subscription, cron[c].at)
<1>1. OwnsNew(c) /\ ListIsCurrent(c) /\ l \in DOMAIN handled[c]
    BY DEF BillingInv, OwnsNew
<1>2. handled[c] \in [DOMAIN handled[c] -> Element] /\ cron[c] \in CronState
    BY DEF TypeOK, CronOK
<1>3. /\ handled'[c] = [handled[c] EXCEPT ![l].process_message = m]
      /\ cron'[c] = [cron[c] EXCEPT !.todo = cron[c].todo \ {l}]
      /\ \A d \in Crons : d # c => cron'[d] = cron[d] /\ handled'[d] = handled[d]
      /\ UNCHANGED <<link, charged, origin>>
    BY DEF CronClassify, TypeOK, CronOK, tableVars
<1>4. m \in ExpiredMessage => handled[c][l].subscription.to <= cron[c].at
    <2>1. handled[c][l].subscription \in Row
        BY <1>1, <1>2 DEF Element
    <2>2. m \in NotifyMessage \cup {"expired"}
          /\ (m = "expired" <=> handled[c][l].subscription.to <= cron[c].at)
        BY <2>1, AtType, ClassificationType
    <2> QED
        BY <2>2 DEF NotifyMessage, ExpiredMessage
<1> HIDE DEF m
<1>5. /\ cron'[c].pc = "classify" /\ cron'[c].new = NoLink /\ cron'[c].at = cron[c].at
      /\ cron'[c].todo \subseteq cron[c].todo
    BY <1>1, <1>2, <1>3 DEF CronState, CronClassify, OwnsNew
<1>6. ASSUME NEW i \in DOMAIN handled[c]
      PROVE  /\ handled'[c][i].subscription = handled[c][i].subscription
             /\ handled'[c][i].process_message = IF i = l THEN m
                                                 ELSE handled[c][i].process_message
    BY <1>2, <1>3 DEF Element
<1>7. DOMAIN handled'[c] = DOMAIN handled[c]
    BY <1>3
<1>8. CronEffect(c)
    BY <1>3, <1>5, SameTableGrows DEF CronEffect
<1>9. OwnsNew(c)'
    BY <1>1, <1>3, <1>5, <1>7 DEF OwnsNew, PayingPC
<1>10. ListIsCurrent(c)'
    BY <1>1, <1>3, <1>4, <1>5, <1>6, <1>7 DEF ListIsCurrent
<1> QED
    BY <1>8, <1>9, <1>10

\* A step that changes where a run is, and nothing of its list.
LEMMA MoveCurrent ==
    ASSUME TypeOK, BillingInv, NEW c \in Crons, handled'[c] = handled[c],
           cron'[c].at = cron[c].at, Grows, UNCHANGED now
    PROVE  ListIsCurrent(c)'
<1>1. OwnsNew(c) /\ ListIsCurrent(c)
    BY DEF BillingInv
<1>2. ASSUME NEW l \in DOMAIN handled[c] PROVE l # nextId
    BY <1>1, NextIdIsNew DEF OwnsNew, TypeOK
<1> QED
    BY <1>1, <1>2 DEF ListIsCurrent, Grows

LEMMA CronBeginActionsInv ==
    ASSUME TypeOK, BillingInv, NEW c \in Crons, CronBeginActions(c), UNCHANGED now
    PROVE  CronEffect(c) /\ OwnsNew(c)' /\ ListIsCurrent(c)'
<1>1. OwnsNew(c) /\ cron[c] \in CronState
    BY AtType DEF BillingInv
<1>2. /\ cron'[c] = [cron[c] EXCEPT !.pc = "act", !.todo = DOMAIN handled[c]]
      /\ handled'[c] = handled[c]
      /\ \A d \in Crons : d # c => cron'[d] = cron[d] /\ handled'[d] = handled[d]
      /\ UNCHANGED <<link, charged, origin>>
    BY DEF CronBeginActions, TypeOK, CronOK, tableVars
<1>3. /\ cron'[c].pc = "act" /\ cron'[c].new = NoLink /\ cron'[c].at = cron[c].at
      /\ cron'[c].todo = DOMAIN handled[c]
    <2>1. cron[c].new = NoLink
        BY <1>1 DEF CronBeginActions, OwnsNew
    <2> QED
        BY <1>1, <1>2, <2>1 DEF CronState
<1>4. CronEffect(c)
    BY <1>2, <1>3, SameTableGrows DEF CronEffect
<1>5. OwnsNew(c)'
    BY <1>1, <1>2, <1>3 DEF OwnsNew, PayingPC
<1> QED
    BY <1>2, <1>3, <1>4, <1>5, MoveCurrent DEF CronEffect

LEMMA CronTakesInv ==
    ASSUME TypeOK, BillingInv, NEW c \in Crons, NEW l \in cron[c].todo,
           CronNotify(c, l) \/ CronClose(c, l) \/ CronDowngrade(c, l), UNCHANGED now
    PROVE  CronEffect(c) /\ OwnsNew(c)' /\ ListIsCurrent(c)'
<1>1. OwnsNew(c) /\ cron[c] \in CronState /\ cron[c].pc = "act"
    BY AtType DEF BillingInv, CronNotify, CronClose, CronDowngrade, ActsOn
<1>2. /\ Grows
      /\ DOMAIN link' = DOMAIN link
      /\ UNCHANGED <<charged, origin>>
    BY SameTableGrows DEF CronNotify, CronClose, CronDowngrade, tableVars
<1>3. PICK m, pc, found :
           /\ Take(c, l, m, pc, NoLink, found)
           /\ pc \in {"mark", "switch"}
           /\ m \in ExpiredMessage => Planned(c, l) \in ExpiredMessage
    <2>1. CASE CronNotify(c, l)
        <3>1. Take(c, l, Planned(c, l), "mark", NoLink, NoLink)
            BY <2>1 DEF CronNotify
        <3> QED
            BY <3>1
    <2>2. CASE CronClose(c, l) \/ CronDowngrade(c, l)
        <3>1. Planned(c, l) \in ExpiredMessage
            BY <2>2 DEF CronClose, CronDowngrade, ExpiredMessage
        <3>2. \E m, x : \/ Take(c, l, m, "mark", NoLink, x)
                       \/ Take(c, l, m, "switch", NoLink, x)
            BY <2>2 DEF CronClose, CronDowngrade
        <3> QED
            BY <3>1, <3>2
    <2> QED
        BY <2>1, <2>2
<1>4. /\ ListIsCurrent(c)'
      /\ DOMAIN handled'[c] = DOMAIN handled[c]
      /\ cron'[c] = [cron[c] EXCEPT !.pc = pc, !.cur = l, !.new = NoLink, !.found = found]
      /\ \A d \in Crons : d # c => cron'[d] = cron[d] /\ handled'[d] = handled[d]
    BY <1>2, <1>3, TakeCurrent
<1>5. /\ cron'[c].pc = pc /\ cron'[c].cur = l /\ cron'[c].new = NoLink
      /\ cron'[c].todo = cron[c].todo
    BY <1>1, <1>4 DEF CronState
<1>6. NoLink \notin DOMAIN link
    BY NextIdIsNew DEF TypeOK
<1>7. OwnsNew(c)'
    <2>1. pc \notin PayingPC /\ pc \notin {"pay", "declined"} /\ pc \notin {"paid", "settled"}
        BY <1>3 DEF PayingPC
    <2>2. NoLink \notin DOMAIN link'
        BY <1>2, <1>6
    <2> QED
        BY <1>1, <1>2, <1>4, <1>5, <2>1, <2>2 DEF OwnsNew
<1>8. CronEffect(c)
    BY <1>2, <1>4, <1>5 DEF CronEffect
<1> QED
    BY <1>4, <1>7, <1>8

LEMMA CronRenewInv ==
    ASSUME TypeOK, BillingInv, NEW c \in Crons, NEW l \in cron[c].todo,
           CronRenew(c, l), UNCHANGED now
    PROVE  CronEffect(c) /\ OwnsNew(c)' /\ ListIsCurrent(c)'
<1>1. /\ OwnsNew(c) /\ cron[c] \in CronState
      /\ Planned(c, l) \in ExpiredMessage
    BY AtType DEF BillingInv, CronRenew, ActsOn, ExpiredMessage
<1>2. PICK m, pc, new, row :
        /\ Take(c, l, m, pc, new, NoLink)
        /\ UNCHANGED charged
        /\ \/ Insert(row, "renewal", l) /\ pc = "pay" /\ new = nextId
           \/ UNCHANGED <<link, origin>> /\ pc = "mark" /\ new = NoLink
    BY DEF CronRenew
<1>3. /\ Grows /\ DOMAIN link \subseteq DOMAIN link'
      /\ \/ /\ pc = "pay" /\ new = nextId /\ nextId \in DOMAIN link'
            /\ nextId \in DOMAIN origin' /\ origin'[nextId].via = "renewal"
         \/ pc = "mark" /\ new = NoLink /\ NoLink \notin DOMAIN link'
    <2>1. CASE Insert(row, "renewal", l) /\ pc = "pay" /\ new = nextId
        <3>1. /\ Grows
              /\ DOMAIN link' = DOMAIN link \cup {nextId}
              /\ DOMAIN origin' = DOMAIN origin \cup {nextId}
              /\ origin'[nextId] = [via |-> "renewal", of |-> l]
            BY <1>2, <2>1, InsertGrows DEF TypeOK
        <3> QED
            BY <2>1, <3>1
    <2>2. CASE UNCHANGED <<link, origin>> /\ pc = "mark" /\ new = NoLink
        BY <1>2, <2>2, SameTableGrows, NextIdIsNew DEF TypeOK
    <2> QED
        BY <1>2, <2>1, <2>2
<1>4. /\ ListIsCurrent(c)'
      /\ DOMAIN handled'[c] = DOMAIN handled[c]
      /\ cron'[c] = [cron[c] EXCEPT !.pc = pc, !.cur = l, !.new = new, !.found = NoLink]
      /\ \A d \in Crons : d # c => cron'[d] = cron[d] /\ handled'[d] = handled[d]
    BY <1>1, <1>2, <1>3, TakeCurrent
<1>5. /\ cron'[c].pc = pc /\ cron'[c].cur = l /\ cron'[c].new = new
      /\ cron'[c].todo = cron[c].todo
    BY <1>1, <1>4 DEF CronState
<1>6. \A d \in Crons : d # c => cron'[d].new # nextId
    BY <1>4, NextIdIsNew DEF BillingInv, OwnsNew, TypeOK
<1>7. nextId \notin charged' /\ DOMAIN origin \subseteq DOMAIN origin'
    BY <1>2, <1>3, NextIdIsNew DEF TypeOK, Grows
<1>8. OwnsNew(c)'
    BY <1>1, <1>3, <1>4, <1>5, <1>6, <1>7 DEF OwnsNew, PayingPC
<1>9. CronEffect(c)
    BY <1>2, <1>3, <1>4, <1>5 DEF CronEffect
<1> QED
    BY <1>4, <1>8, <1>9

LEMMA CronSwitchOnInv ==
    ASSUME TypeOK, BillingInv, NEW c \in Crons, CronSwitchOn(c), UNCHANGED now
    PROVE  CronEffect(c) /\ OwnsNew(c)' /\ ListIsCurrent(c)'
<1>1. OwnsNew(c) /\ cron[c] \in CronState /\ cron[c].pc = "switch"
    BY AtType DEF BillingInv, CronSwitchOn
<1>2. /\ Grows
      /\ DOMAIN link' = DOMAIN link
      /\ UNCHANGED <<charged, origin>>
    BY SetActiveGrows DEF CronSwitchOn, TypeOK
<1>3. /\ cron'[c] = [cron[c] EXCEPT !.pc = "mark", !.found = NoLink]
      /\ \A d \in Crons : d # c => cron'[d] = cron[d]
      /\ UNCHANGED handled
    BY DEF CronSwitchOn, TypeOK, CronOK
<1>4. /\ cron'[c].pc = "mark" /\ cron'[c].new = NoLink /\ cron'[c].at = cron[c].at
      /\ cron'[c].todo = cron[c].todo /\ cron'[c].cur = cron[c].cur
    BY <1>1, <1>3 DEF CronState, OwnsNew
<1>5. NoLink \notin DOMAIN link
    BY NextIdIsNew DEF TypeOK
<1>6. OwnsNew(c)'
    BY <1>1, <1>2, <1>3, <1>4, <1>5 DEF OwnsNew, PayingPC
<1>7. CronEffect(c)
    BY <1>2, <1>3, <1>4 DEF CronEffect
<1> QED
    BY <1>2, <1>3, <1>4, <1>6, <1>7, MoveCurrent

\* A step that moves run c within the payment or on to the mark.
LEMMA CronMoveInv ==
    ASSUME TypeOK, BillingInv, NEW c \in Crons, NEW pc,
           cron[c].pc \in PayingPC, pc \in PayingPC \cup {"mark"},
           cron' = [cron EXCEPT ![c].pc = pc], UNCHANGED <<handled, origin, now>>,
           Grows,
           DOMAIN link \ DOMAIN link' \subseteq {cron[c].new},
           charged' \ charged \subseteq {cron[c].new},
           pc \in PayingPC => DOMAIN link \subseteq DOMAIN link',
           pc \in {"pay", "declined"} => cron[c].new \notin charged',
           pc \in {"paid", "settled"} => cron[c].new \in charged',
           pc = "mark" => cron[c].new \in charged' \/ cron[c].new \notin DOMAIN link'
    PROVE  CronEffect(c) /\ OwnsNew(c)' /\ ListIsCurrent(c)'
<1>1. OwnsNew(c) /\ cron[c] \in CronState /\ DOMAIN link \subseteq DOMAIN origin
    BY AtType DEF BillingInv, TypeOK, TableOK
<1>2. /\ cron'[c] = [cron[c] EXCEPT !.pc = pc]
      /\ \A d \in Crons : d # c => cron'[d] = cron[d]
    BY DEF TypeOK, CronOK
<1>3. /\ cron'[c].pc = pc /\ cron'[c].new = cron[c].new /\ cron'[c].at = cron[c].at
      /\ cron'[c].todo = cron[c].todo /\ cron'[c].cur = cron[c].cur
    BY <1>1, <1>2 DEF CronState
<1>4. cron[c].new \in DOMAIN link /\ cron[c].cur \in cron[c].todo
    BY <1>1 DEF OwnsNew
<1>5. OwnsNew(c)'
    BY <1>1, <1>2, <1>3, <1>4 DEF OwnsNew, PayingPC
<1>6. CronEffect(c)
    BY <1>1, <1>2, <1>3, <1>4 DEF CronEffect
<1> QED
    BY <1>3, <1>5, <1>6, MoveCurrent

LEMMA CronPaysInv ==
    ASSUME TypeOK, BillingInv, NEW c \in Crons, UNCHANGED now,
           CronPay(c) \/ CronSettle(c) \/ CronActivate(c) \/ CronDiscard(c)
    PROVE  CronEffect(c) /\ OwnsNew(c)' /\ ListIsCurrent(c)'
<1>1. OwnsNew(c)
    BY DEF BillingInv
<1>2. CASE CronPay(c)
    <2>1. Grows
        BY <1>2 DEF CronPay, Charge, Grows
    <2>2. /\ UNCHANGED <<link, origin, handled>> /\ cron[c].pc = "pay"
          /\ \/ Charge(cron[c].new) /\ cron' = [cron EXCEPT ![c].pc = "paid"]
             \/ cron' = [cron EXCEPT ![c].pc = "declined"] /\ UNCHANGED charged
        BY <1>2 DEF CronPay
    <2>3. CASE Charge(cron[c].new) /\ cron' = [cron EXCEPT ![c].pc = "paid"]
        BY <2>1, <2>2, <2>3, CronMoveInv DEF PayingPC, Charge
    <2>4. CASE cron' = [cron EXCEPT ![c].pc = "declined"] /\ UNCHANGED charged
        <3>1. cron[c].new \notin charged
            BY <1>1, <2>2 DEF OwnsNew
        <3> QED
            BY <2>1, <2>2, <2>4, <3>1, CronMoveInv DEF PayingPC
    <2> QED
        BY <2>2, <2>3, <2>4
<1>3. CASE CronSettle(c) \/ CronActivate(c)
    <2>1. /\ SetActive(cron[c].new, TRUE) /\ UNCHANGED <<charged, origin, handled>>
          /\ cron[c].pc \in {"paid", "settled"}
          /\ \E pc \in {"settled", "mark"} : cron' = [cron EXCEPT ![c].pc = pc]
        BY <1>3 DEF CronSettle, CronActivate
    <2>2. Grows /\ DOMAIN link' = DOMAIN link
        BY <2>1, SetActiveGrows DEF TypeOK
    <2>3. cron[c].new \in charged'
        BY <1>1, <2>1 DEF OwnsNew
    <2>4. PICK pc \in {"settled", "mark"} : cron' = [cron EXCEPT ![c].pc = pc]
        BY <2>1
    <2>5. /\ cron[c].pc \in PayingPC /\ pc \in PayingPC \cup {"mark"}
          /\ pc \notin {"pay", "declined"}
          /\ DOMAIN link \ DOMAIN link' = {} /\ charged' \ charged = {}
        BY <2>1, <2>2 DEF PayingPC
    <2> QED
        BY <2>1, <2>2, <2>3, <2>4, <2>5, CronMoveInv
<1>4. CASE CronDiscard(c)
    <2>1. /\ Delete(cron[c].new) /\ UNCHANGED <<charged, origin, handled>>
          /\ cron[c].pc = "declined" /\ cron' = [cron EXCEPT ![c].pc = "mark"]
        BY <1>4 DEF CronDiscard
    <2>2. Grows /\ DOMAIN link' = DOMAIN link \ {cron[c].new}
        BY <2>1, DeleteGrows DEF TypeOK
    <2>3. /\ cron[c].pc \in PayingPC /\ "mark" \in PayingPC \cup {"mark"}
          /\ "mark" \notin PayingPC /\ cron[c].new \notin DOMAIN link'
          /\ DOMAIN link \ DOMAIN link' \subseteq {cron[c].new}
          /\ charged' \ charged = {}
        BY <2>1, <2>2 DEF PayingPC
    <2>4. cron' = [cron EXCEPT ![c].pc = "mark"] /\ UNCHANGED <<handled, origin, now>>
        BY <2>1
    <2>5. "mark" \notin {"pay", "declined"} /\ "mark" \notin {"paid", "settled"}
        OBVIOUS
    <2> QED
        BY <2>2, <2>3, <2>4, <2>5, CronMoveInv
<1> QED
    BY <1>2, <1>3, <1>4

LEMMA CronMarkInv ==
    ASSUME TypeOK, BillingInv, NEW c \in Crons, CronMark(c), UNCHANGED now
    PROVE  CronEffect(c) /\ OwnsNew(c)' /\ ListIsCurrent(c)'
<1> DEFINE todo == cron[c].todo \ {cron[c].cur}
<1>1. /\ OwnsNew(c) /\ ListIsCurrent(c) /\ cron[c] \in CronState
    BY AtType DEF BillingInv
<1>2. /\ cron'[c] = [cron[c] EXCEPT !.pc = "act", !.todo = todo,
                                    !.cur = NoLink, !.new = NoLink]
      /\ handled'[c] = [l \in todo |-> handled[c][l]]
      /\ \A d \in Crons : d # c => cron'[d] = cron[d] /\ handled'[d] = handled[d]
      /\ UNCHANGED <<charged, origin>>
    BY DEF CronMark, NextElement, TypeOK, CronOK
<1>3. /\ cron'[c].pc = "act" /\ cron'[c].new = NoLink /\ cron'[c].at = cron[c].at
      /\ cron'[c].todo = todo
    BY <1>1, <1>2 DEF CronState
<1>4. /\ DOMAIN link' = DOMAIN link
      /\ \A l \in DOMAIN link : link'[l].to = link[l].to /\ link'[l].from = link[l].from
    <2>1. \A l \in DOMAIN link : link[l] \in Row
        BY DEF TypeOK, TableOK
    <2> QED
        BY <2>1 DEF CronMark, Marked, Row
<1>5. Grows
    BY <1>2, <1>4 DEF Grows
<1>6. todo \subseteq DOMAIN handled[c]
    BY <1>1 DEF OwnsNew
<1>7. CronEffect(c)
    BY <1>2, <1>3, <1>4, <1>5 DEF CronEffect
<1>8. OwnsNew(c)'
    BY <1>1, <1>2, <1>3, <1>6 DEF OwnsNew, PayingPC
<1>9. ListIsCurrent(c)'
    BY <1>1, <1>2, <1>3, <1>4, <1>6 DEF ListIsCurrent
<1> QED
    BY <1>7, <1>8, <1>9

LEMMA CronEndsInv ==
    ASSUME TypeOK, BillingInv, NEW c \in Crons, UNCHANGED now,
           CronFinish(c) \/ CronRowGone(c) \/ CronDie(c)
    PROVE  CronEffect(c) /\ OwnsNew(c)' /\ ListIsCurrent(c)'
<1>1. /\ cron'[c] = IdleCron /\ handled'[c] = NoElements
      /\ \A d \in Crons : d # c => cron'[d] = cron[d] /\ handled'[d] = handled[d]
      /\ UNCHANGED <<link, charged, origin>>
    BY DEF CronFinish, CronRowGone, CronDie, EndRun, tableVars, TypeOK, CronOK
<1>2. CronEffect(c)
    BY <1>1, SameTableGrows DEF CronEffect, IdleCron
<1>3. OwnsNew(c)'
    BY <1>1 DEF OwnsNew, IdleCron, NoElements, PayingPC
<1>4. ListIsCurrent(c)'
    BY <1>1, NowType DEF ListIsCurrent, IdleCron, NoElements
<1> QED
    BY <1>2, <1>3, <1>4

\* A run that is about to switch a downgrade on has just found it.
LEMMA CronFoundInv ==
    ASSUME TypeOK, NEW c \in Crons, CronStep(c) \/ CronDie(c), BillingInv, Grows
    PROVE  FoundWaits(c)'
<1>1. cron[c] \in CronState
    BY AtType
<1>2. ASSUME NEW l \in cron[c].todo, CronDowngrade(c, l)
      PROVE  FoundWaits(c)'
    <2>1. CASE Take(c, l, "expired_downgraded", "mark", NoLink, NoLink)
        <3>1. cron'[c].pc = "mark"
            BY <1>1, <2>1 DEF Take, TypeOK, CronOK, CronState
        <3> QED
            BY <3>1 DEF FoundWaits
    <2>2. ASSUME NEW d \in Downgrades(Copy(c, l).user, cron[c].at),
                 Take(c, l, "expired_downgraded", "switch", NoLink, d)
          PROVE  FoundWaits(c)'
        <3>1. cron'[c].found = d /\ cron'[c].at = cron[c].at
            BY <1>1, <2>2 DEF Take, TypeOK, CronOK, CronState
        <3>2. d \in DOMAIN link /\ link[d].from >= cron[c].at
            BY <2>2 DEF Downgrades, LinksOf
        <3>3. UNCHANGED <<link, origin>> /\ d \in DOMAIN origin
            BY <1>2, <3>2 DEF CronDowngrade, tableVars, TypeOK, TableOK
        <3> QED
            BY <3>1, <3>2, <3>3 DEF FoundWaits
    <2> QED
        BY <1>2, <2>1, <2>2 DEF CronDowngrade
<1>3. CASE ~ \E l \in cron[c].todo : CronDowngrade(c, l)
    <2> SUFFICES cron'[c].pc # "switch"
        BY DEF FoundWaits
    <2>1. cron \in [Crons -> CronState]
        BY DEF TypeOK, CronOK
    <2>2. ASSUME NEW l, NEW m, NEW pc, NEW new, pc # "switch",
                 Take(c, l, m, pc, new, NoLink)
          PROVE  cron'[c].pc # "switch"
        <3>1. cron'[c] = [cron[c] EXCEPT !.pc = pc, !.cur = l, !.new = new, !.found = NoLink]
            BY <2>1, <2>2 DEF Take
        <3> QED
            BY <1>1, <2>2, <3>1 DEF CronState
    <2>3. ASSUME NEW l, CronNotify(c, l) \/ CronClose(c, l) \/ CronRenew(c, l)
          PROVE  cron'[c].pc # "switch"
        <3>1. \E m, new : \/ Take(c, l, m, "mark", new, NoLink)
                         \/ Take(c, l, m, "pay", new, NoLink)
            BY <2>3 DEF CronNotify, CronClose, CronRenew
        <3> QED
            BY <2>2, <3>1
    <2>4. ASSUME NEW l, CronClassify(c, l)
          PROVE  cron'[c].pc # "switch"
        <3>1. cron'[c] = [cron[c] EXCEPT !.todo = cron[c].todo \ {l}]
            BY <2>1, <2>4 DEF CronClassify
        <3> QED
            BY <1>1, <2>4, <3>1 DEF CronClassify, CronState
    <2>5. CASE CronStart(c)
        BY <2>1, <2>5 DEF CronStart
    <2>6. CASE CronBeginActions(c) \/ CronMark(c)
        <3>1. \/ cron'[c] = [cron[c] EXCEPT !.pc = "act", !.todo = DOMAIN handled[c]]
              \/ cron'[c] = [cron[c] EXCEPT !.pc = "act", !.todo = @ \ {cron[c].cur},
                                            !.cur = NoLink, !.new = NoLink]
            BY <2>1, <2>6 DEF CronBeginActions, CronMark, NextElement
        <3> QED
            BY <1>1, <3>1 DEF CronState
    <2>7. CASE CronSwitchOn(c) \/ CronPay(c) \/ CronSettle(c) \/ CronActivate(c) \/ CronDiscard(c)
        <3>1. \E pc \in {"mark", "paid", "declined", "settled"} :
                 \/ cron'[c] = [cron[c] EXCEPT !.pc = pc]
                 \/ cron'[c] = [cron[c] EXCEPT !.pc = pc, !.found = NoLink]
            BY <2>1, <2>7 DEF CronSwitchOn, CronPay, CronSettle, CronActivate, CronDiscard
        <3> QED
            BY <1>1, <3>1 DEF CronState
    <2>8. CASE CronRowGone(c) \/ CronFinish(c) \/ CronDie(c)
        <3>1. cron'[c] = IdleCron
            BY <2>1, <2>8 DEF CronRowGone, CronFinish, CronDie, EndRun
        <3> QED
            BY <3>1 DEF IdleCron
    <2> QED
        BY <1>3, <2>3, <2>4, <2>5, <2>6, <2>7, <2>8 DEF CronStep
<1> QED
    BY <1>2, <1>3

LEMMA CronStepInv ==
    ASSUME TypeOK, BillingInv, NEW c \in Crons, CronStep(c) \/ CronDie(c),
           UNCHANGED <<now, workerVars>>
    PROVE  CronEffect(c) /\ BillingInv'
<1>1. CronEffect(c) /\ OwnsNew(c)' /\ ListIsCurrent(c)'
    BY CronStartInv, CronClassifyInv, CronBeginActionsInv, CronTakesInv, CronRenewInv,
       CronSwitchOnInv, CronPaysInv, CronMarkInv, CronEndsInv DEF CronStep
<1>2. FoundWaits(c)'
    BY <1>1, CronFoundInv DEF CronEffect
<1> QED
    BY <1>1, <1>2, CronInv

(***************************************************************************)
(* The inductive invariant                                                 *)
(***************************************************************************)

LEMMA InitInv == Init => Inv
<1> SUFFICES ASSUME Init PROVE Inv
    OBVIOUS
<1>1. ASSUME NEW c \in Crons PROVE OwnsNew(c) /\ ListIsCurrent(c) /\ FoundWaits(c)
    <2>1. cron[c] = IdleCron /\ handled[c] = NoElements /\ now = 1
        BY DEF Init, InitCron
    <2> QED
        BY <2>1 DEF OwnsNew, ListIsCurrent, FoundWaits, IdleCron, NoElements, PayingPC
<1>2. ASSUME NEW w \in Workers PROVE PaysForOwn(w)
    BY DEF Init, InitWorkers, IdleWorker, PaysForOwn
<1> QED
    BY <1>1, <1>2, InitType DEF Inv, BillingInv

\* A step of a user or of a server process, seen from the rest of the system.
LEMMA RequestEffects ==
    ASSUME TypeOK, BillingInv,
           \/ Request
           \/ \E w \in Workers : WorkerStep(w) \/ WorkerDie(w)
    PROVE  /\ RequestEffect
           /\ \A v \in Workers : PaysForOwn(v)'
    BY CancelEffect, DowngradeEffect, PaidRequestEffect, WorkerStepEffect
       DEF Request, WorkerStep, WorkerGoesOn

LEMMA InvStep == Inv /\ [Next]_vars => Inv'
<1> SUFFICES ASSUME Inv, [Next]_vars PROVE BillingInv'
    BY TypeStep DEF Inv
<1>1. TypeOK /\ BillingInv
    BY DEF Inv
<1>2. ASSUME UNCHANGED <<tableVars, cronVars, workerVars>>, now' \in Nat, now <= now'
      PROVE  BillingInv'
    <2>1. Grows
        BY <1>2, SameTableGrows DEF tableVars
    <2>2. ASSUME NEW c \in Crons PROVE OwnsNew(c)' /\ ListIsCurrent(c)' /\ FoundWaits(c)'
        BY <1>1, <1>2, <2>1, OtherOwnsNew, OtherListIsCurrent, FoundStays
           DEF tableVars, cronVars
    <2>3. ASSUME NEW w \in Workers PROVE PaysForOwn(w)'
        BY <1>1, <1>2, <2>1, OtherPaysForOwn DEF tableVars, workerVars
    <2> QED
        BY <2>2, <2>3 DEF BillingInv
<1>3. CASE Tick
    BY <1>1, <1>2, <1>3, NowType DEF Tick
<1>4. ASSUME NEW c \in Crons, CronStep(c) \/ CronDie(c), UNCHANGED <<now, workerVars>>
      PROVE  BillingInv'
    BY <1>1, <1>4, CronStepInv
<1>5. ASSUME UNCHANGED <<now, cronVars>>,
             Request \/ \E w \in Workers : WorkerStep(w) \/ WorkerDie(w)
      PROVE  BillingInv'
    BY <1>1, <1>5, RequestEffects, RequestInv
<1>6. CASE UNCHANGED vars
    BY <1>1, <1>2, <1>6, NowType DEF vars, tableVars, cronVars, workerVars
<1> QED
    BY <1>3, <1>4, <1>5, <1>6 DEF Next, CronAct, WorkerAct

\* All variables stay within their types, and each process keeps to its own
\* renewal and to a list with the right end dates: the invariant of Billing.
THEOREM InvHolds == Spec => [](TypeOK /\ BillingInv)
<1>1. Init => Inv
    BY InitInv
<1>2. Inv /\ [Next]_vars => Inv'
    BY InvStep
<1> QED
    BY <1>1, <1>2, PTL DEF Spec, Inv

\* Type correctness, for every value of the constants.
THEOREM TypeCorrect == Spec => []TypeOK
    BY InvHolds, PTL

(***************************************************************************)
(* What was paid for is served                                             *)
(***************************************************************************)

\* ServedWhilePaid, of one link.
Served(i) ==
    /\ i \in DOMAIN link
    /\ \/ link[i].active
       \/ link[i].to <= now
       \/ i \in replaced
       \/ InPayment(i)
       \/ i \in interrupted

\* A step that takes nothing away from link i keeps it served.
LEMMA ServedKept ==
    ASSUME TypeOK, NEW i \in DOMAIN link, Served(i), i \in DOMAIN link', Grows,
           now' \in Nat, now <= now', replaced \subseteq replaced',
           interrupted \subseteq interrupted',
           link[i].active => link'[i].active \/ link'[i].to <= now' \/ i \in replaced',
           InPayment(i) => InPayment(i)' \/ link'[i].active \/ i \in interrupted'
    PROVE  Served(i)'
<1>1. i # nextId
    BY NextIdIsNew DEF TypeOK
<1>2. link'[i].to = link[i].to /\ link[i].to \in Nat /\ now \in Nat
    BY <1>1, NowType, UserRows DEF Grows, TypeOK
<1> QED
    BY <1>2 DEF Served

\* A payment goes on unless the process paying moves.
LEMMA PaymentGoesOn ==
    ASSUME NEW i, InPayment(i),
           \A c \in Crons : cron[c].pc = "paid" => cron'[c] = cron[c],
           \A w \in Workers : worker[w].pc = "paid" => worker'[w] = worker[w]
    PROVE  InPayment(i)'
    BY DEF InPayment

LEMMA RequestKeepsServed ==
    ASSUME TypeOK, BillingInv, Request, UNCHANGED <<now, cronVars>>,
           NEW i \in charged, Served(i)
    PROVE  i \in charged' => Served(i)'
<1>1. Grows /\ DOMAIN link \subseteq DOMAIN link'
    BY RequestEffects DEF RequestEffect
<1>2. UNCHANGED <<replaced, interrupted>>
    BY DEF Request, CancelSubscription, DowngradeSave, UpgradeSave, RenewSave,
           workerVars, deathVars
<1>3. i \in DOMAIN link
    BY DEF Served
<1>4. link'[i].active = link[i].active
    <2>1. ASSUME NEW row, NEW via, NEW of, Insert(row, via, of), UNCHANGED charged
          PROVE  link'[i] = link[i]
        BY <1>3, <2>1, InsertGrows DEF TypeOK
    <2>2. ASSUME NEW l \in DOMAIN link, CancelSubscription(l)
          PROVE  link'[i].active = link[i].active
        BY <1>3, <2>2 DEF CancelSubscription, TypeOK, TableOK, Row
    <2> QED
        BY <2>1, <2>2 DEF Request, DowngradeSave, UpgradeSave, RenewSave, tableVars
<1>5. \A w \in Workers : worker[w].pc = "paid" => worker'[w] = worker[w]
    BY DEF Request, CancelSubscription, DowngradeSave, UpgradeSave, RenewSave,
           BeginPayment, workerVars, TypeOK, WorkersOK
<1>6. InPayment(i) => InPayment(i)'
    BY <1>5, PaymentGoesOn DEF cronVars
<1> QED
    BY <1>1, <1>2, <1>3, <1>4, <1>6, NowType, ServedKept

LEMMA WorkerKeepsServed ==
    ASSUME TypeOK, BillingInv, NEW w \in Workers, WorkerStep(w) \/ WorkerDie(w),
           UNCHANGED <<now, cronVars>>,
           \A i \in charged : Served(i)
    PROVE  \A i \in charged' : Served(i)'
<1>1. Grows /\ DOMAIN link \subseteq DOMAIN link'
    BY RequestEffects DEF RequestEffect
<1>2. ASSUME NEW v \in Workers, v # w PROVE worker'[v] = worker[v]
    BY <1>2 DEF WorkerStep, UpgradeCreate, BeginPayment, WorkerPay, WorkerSettle,
                WorkerConclude, WorkerKeep, WorkerActivate, WorkerDie, HasErrors, TypeOK,
                WorkersOK
<1>3. worker[w] \in WorkerState
    BY DEF TypeOK, WorkersOK
<1>4. CASE WorkerPay(w)
    <2>1. UNCHANGED <<link, replaced, interrupted>> /\ worker[w].pc = "pay"
        BY <1>4 DEF WorkerPay, deathVars
    <2>2. ASSUME NEW i \in charged PROVE Served(i)'
        <3>1. InPayment(i) => InPayment(i)'
            BY <1>2, <2>1, PaymentGoesOn DEF cronVars
        <3> QED
            BY <1>1, <2>1, <3>1, NowType, ServedKept DEF Served
    <2>3. ASSUME NEW i \in charged', i \notin charged PROVE Served(i)'
        <3>1. i = worker[w].new /\ worker' = [worker EXCEPT ![w].pc = "paid"]
            BY <1>4, <2>3 DEF WorkerPay, Charge
        <3>2. worker'[w].pc = "paid" /\ worker'[w].new = i
            BY <1>3, <3>1 DEF WorkerState, TypeOK, WorkersOK
        <3>3. i \in DOMAIN link'
            BY <1>1, <2>1, <3>1 DEF BillingInv, PaysForOwn
        <3> QED
            BY <3>2, <3>3 DEF Served, InPayment
    <2> QED
        BY <2>2, <2>3
<1>5. ASSUME NEW i \in charged, WorkerSettle(w) \/ WorkerActivate(w)
      PROVE  Served(i)'
    <2>1. /\ UNCHANGED <<replaced, interrupted>>
          /\ SetActive(worker[w].new, TRUE) /\ UNCHANGED <<charged, origin>>
          /\ worker[w].pc \in {"paid", "activate"}
        BY <1>5 DEF WorkerSettle, WorkerActivate, deathVars
    <2>2. i \in DOMAIN link /\ worker[w].new \in DOMAIN link
        BY <2>1 DEF Served, BillingInv, PaysForOwn
    <2>3. /\ link[i].active => link'[i].active
          /\ link'[worker[w].new].active
        BY <2>1, <2>2, SetActiveGrows DEF TypeOK
    <2>4. InPayment(i) => InPayment(i)' \/ link'[i].active
        BY <1>2, <2>3 DEF InPayment, cronVars
    <2> QED
        BY <1>1, <2>1, <2>2, <2>3, <2>4, NowType, ServedKept
<1>6. ASSUME NEW i \in charged, WorkerConclude(w)
      PROVE  Served(i)'
    <2>1. WorkerKeep(w) /\ UNCHANGED <<charged, origin, interrupted>>
          /\ worker[w].pc = "answered"
        BY <1>6 DEF WorkerConclude, HasErrors, deathVars
    <2>2. i \in DOMAIN link /\ replaced \subseteq replaced'
        BY <2>1 DEF Served, WorkerKeep
    <2>3. link[i].active => link'[i].active \/ i \in replaced'
        <3>1. CASE UNCHANGED link
            BY <3>1
        <3>2. CASE SetActive(worker[w].old, FALSE) /\ replaced' = replaced \cup {worker[w].old}
            BY <2>1, <2>2, <3>2, SetActiveGrows DEF TypeOK
        <3> QED
            BY <2>1, <3>1, <3>2 DEF WorkerKeep
    <2>4. InPayment(i) => InPayment(i)'
        BY <1>2, <2>1, PaymentGoesOn DEF cronVars
    <2> QED
        BY <1>1, <2>1, <2>2, <2>3, <2>4, NowType, ServedKept
<1>7. ASSUME NEW i \in charged, WorkerDie(w)
      PROVE  Served(i)'
    <2>1. /\ UNCHANGED <<link, replaced>>
          /\ interrupted' = interrupted \cup ({worker[w].new} \ {NoLink})
        BY <1>7 DEF WorkerDie, Die, tableVars
    <2>2. worker[w].pc = "paid" => worker[w].new # NoLink
        BY NextIdIsNew DEF BillingInv, PaysForOwn, TypeOK
    <2>3. InPayment(i) => InPayment(i)' \/ i \in interrupted'
        BY <1>2, <2>1, <2>2 DEF InPayment, cronVars
    <2> QED
        BY <1>1, <2>1, <2>3, NowType, ServedKept DEF Served
<1>8. ASSUME NEW i \in charged, UpgradeCreate(w)
      PROVE  Served(i)'
    <2>1. UNCHANGED <<charged, replaced, interrupted>> /\ worker[w].pc = "create"
        BY <1>8 DEF UpgradeCreate, deathVars
    <2>2. i \in DOMAIN link
        BY <1>8 DEF Served
    <2>3. ASSUME NEW row, NEW via, NEW of, Insert(row, via, of)
          PROVE  link'[i] = link[i]
        BY <2>1, <2>2, <2>3, InsertGrows DEF TypeOK
    <2>4. link'[i] = link[i]
        BY <1>8, <2>3 DEF UpgradeCreate
    <2>5. InPayment(i) => InPayment(i)'
        BY <1>2, <2>1, PaymentGoesOn DEF cronVars
    <2> QED
        BY <1>1, <2>1, <2>2, <2>4, <2>5, NowType, ServedKept
<1> QED
    BY <1>4, <1>5, <1>6, <1>7, <1>8
       DEF WorkerStep, UpgradeCreate, WorkerSettle, WorkerActivate, WorkerConclude,
           WorkerDie, tableVars

\* What the cron's steps need of the invariant: a paid link is never the one a
\* run deletes, and a mark switches off only at or after the end date.
LEMMA CronKeepsServed ==
    ASSUME TypeOK, BillingInv, NEW c \in Crons, CronStep(c) \/ CronDie(c),
           UNCHANGED <<now, workerVars>>,
           \A i \in charged : Served(i)
    PROVE  \A i \in charged' : Served(i)'
<1>1. CronEffect(c) /\ OwnsNew(c) /\ ListIsCurrent(c) /\ cron[c] \in CronState
    BY CronStepInv, AtType DEF BillingInv
<1>2. /\ Grows
      /\ \A d \in Crons : d # c => cron'[d] = cron[d]
      /\ UNCHANGED replaced
    BY <1>1 DEF CronEffect, workerVars
<1>3. cron[c].pc # "paid" => \A i : InPayment(i) => InPayment(i)'
    BY <1>2, PaymentGoesOn DEF workerVars
<1>4. CASE CronPay(c)
    <2>1. UNCHANGED <<link, interrupted>> /\ cron[c].pc = "pay"
        BY <1>4 DEF CronPay, deathVars
    <2>2. ASSUME NEW i \in charged PROVE Served(i)'
        <3>1. InPayment(i) => InPayment(i)'
            BY <1>3, <2>1
        <3>2. Served(i) /\ i \in DOMAIN link
            BY DEF Served
        <3> QED
            BY <1>2, <2>1, <3>1, <3>2, NowType, ServedKept
    <2>3. ASSUME NEW i \in charged', i \notin charged PROVE Served(i)'
        <3>1. i = cron[c].new /\ cron' = [cron EXCEPT ![c].pc = "paid"]
            BY <1>4, <2>3 DEF CronPay, Charge
        <3>2. cron'[c].pc = "paid" /\ cron'[c].new = i
            BY <1>1, <3>1 DEF CronState, TypeOK, CronOK
        <3>3. i \in DOMAIN link'
            BY <1>1, <2>1, <3>1 DEF OwnsNew, PayingPC
        <3> QED
            BY <3>2, <3>3 DEF Served, InPayment
    <2> QED
        BY <2>2, <2>3
<1>5. ASSUME NEW i \in charged, CronSettle(c) \/ CronActivate(c)
      PROVE  Served(i)'
    <2>1. /\ UNCHANGED interrupted
          /\ SetActive(cron[c].new, TRUE) /\ UNCHANGED <<charged, origin>>
          /\ cron[c].pc \in PayingPC
        BY <1>5 DEF CronSettle, CronActivate, deathVars, PayingPC
    <2>2. i \in DOMAIN link /\ cron[c].new \in DOMAIN link
        BY <1>1, <2>1 DEF Served, OwnsNew
    <2>3. /\ DOMAIN link' = DOMAIN link
          /\ link[i].active => link'[i].active
          /\ link'[cron[c].new].active
        BY <2>1, <2>2, SetActiveGrows DEF TypeOK
    <2>4. InPayment(i) => InPayment(i)' \/ link'[i].active
        BY <1>2, <2>3 DEF InPayment, workerVars
    <2> QED
        BY <1>2, <2>1, <2>2, <2>3, <2>4, NowType, ServedKept
<1>6. ASSUME NEW i \in charged, CronDiscard(c)
      PROVE  Served(i)'
    <2>1. /\ UNCHANGED interrupted
          /\ Delete(cron[c].new) /\ UNCHANGED <<charged, origin>>
          /\ cron[c].pc = "declined"
        BY <1>6 DEF CronDiscard, deathVars
    <2>2. i \in DOMAIN link /\ i # cron[c].new
        BY <1>1, <2>1 DEF Served, OwnsNew
    <2>3. i \in DOMAIN link' /\ link'[i] = link[i]
        BY <2>1, <2>2 DEF Delete
    <2>4. InPayment(i) => InPayment(i)'
        BY <1>3, <2>1
    <2> QED
        BY <1>2, <2>1, <2>2, <2>3, <2>4, NowType, ServedKept
<1>7. ASSUME NEW i \in charged, CronMark(c)
      PROVE  Served(i)'
    <2> DEFINE l == cron[c].cur
               m == Planned(c, l)
    <2>1. /\ UNCHANGED interrupted /\ cron[c].pc = "mark" /\ i \in DOMAIN link
          /\ l \in DOMAIN link /\ l \in DOMAIN handled[c]
          /\ link' = [link EXCEPT ![l] = Marked(link[l], Copy(c, l), m)]
        BY <1>1, <1>7 DEF CronMark, deathVars, OwnsNew, Served
    <2>2. link[i] \in Row /\ link[l] \in Row
        BY <2>1 DEF TypeOK, TableOK
    <2>3. m \in ExpiredMessage => link[l].to <= now
        <3>1. m \in ExpiredMessage => link[l].to <= cron[c].at
            BY <1>1, <2>1 DEF ListIsCurrent, Planned
        <3>2. cron[c].at <= now /\ cron[c].at \in Nat /\ now \in Nat /\ link[l].to \in Nat
            BY <1>1, <2>2, AtType, NowType DEF ListIsCurrent, Row
        <3> QED
            BY <3>1, <3>2
    <2> HIDE DEF m, l
    <2>4. i \in DOMAIN link' /\ link'[i].to = link[i].to
          /\ (link'[i].active = link[i].active \/ (i = l /\ m \in ExpiredMessage))
        BY <2>1, <2>2 DEF Marked, Row
    <2>5. link[i].active => link'[i].active \/ link'[i].to <= now'
        BY <2>3, <2>4
    <2>6. InPayment(i) => InPayment(i)'
        BY <1>3, <2>1
    <2> QED
        BY <1>2, <2>1, <2>4, <2>5, <2>6, NowType, ServedKept
<1>8. ASSUME NEW i \in charged, CronDie(c)
      PROVE  Served(i)'
    <2>1. /\ UNCHANGED link
          /\ interrupted' = interrupted \cup ({cron[c].new} \ {NoLink})
        BY <1>8 DEF CronDie, Die, tableVars
    <2>2. cron[c].pc = "paid" => cron[c].new # NoLink
        BY <1>1, NextIdIsNew DEF OwnsNew, PayingPC, TypeOK
    <2>3. InPayment(i) => InPayment(i)' \/ i \in interrupted'
        BY <1>2, <2>1, <2>2 DEF InPayment, workerVars
    <2> QED
        BY <1>2, <2>1, <2>3, NowType, ServedKept DEF Served
<1>9. ASSUME NEW i \in charged, UNCHANGED interrupted, cron[c].pc # "paid",
             i \in DOMAIN link => i \in DOMAIN link' /\ (link[i].active => link'[i].active)
      PROVE  Served(i)'
    <2>1. i \in DOMAIN link
        BY DEF Served
    <2> QED
        BY <1>2, <1>3, <1>9, <2>1, NowType, ServedKept
<1>10. ASSUME NEW i \in charged,
              \/ CronStart(c) \/ CronBeginActions(c) \/ CronFinish(c) \/ CronRowGone(c)
              \/ \E l \in cron[c].todo :
                    \/ CronClassify(c, l) \/ CronNotify(c, l) \/ CronClose(c, l)
                    \/ CronDowngrade(c, l)
       PROVE  Served(i)'
    BY <1>9, <1>10 DEF CronStart, CronBeginActions, CronFinish, CronRowGone, CronClassify,
                       CronNotify, CronClose, CronDowngrade, ActsOn, Running, tableVars,
                       deathVars
<1>11. ASSUME NEW i \in charged, CronSwitchOn(c)
       PROVE  Served(i)'
    <2>1. /\ UNCHANGED <<charged, origin, interrupted>> /\ cron[c].pc = "switch"
          /\ SetActive(cron[c].found, TRUE)
        BY <1>11 DEF CronSwitchOn, deathVars
    <2>2. i \in DOMAIN link => i \in DOMAIN link' /\ (link[i].active => link'[i].active)
        BY <2>1, SetActiveGrows DEF TypeOK
    <2> QED
        BY <1>9, <2>1, <2>2
<1>12. ASSUME NEW i \in charged, NEW l \in cron[c].todo, CronRenew(c, l)
       PROVE  Served(i)'
    <2>1. PICK row : /\ Insert(row, "renewal", l) \/ UNCHANGED <<link, origin>>
                     /\ UNCHANGED <<charged, interrupted>> /\ cron[c].pc = "act"
        BY <1>12 DEF CronRenew, ActsOn, deathVars
    <2>2. i \in DOMAIN link => i \in DOMAIN link' /\ link'[i] = link[i]
        BY <2>1, InsertGrows DEF TypeOK
    <2> QED
        BY <1>9, <2>1, <2>2
<1>13. CronPay(c) \/ UNCHANGED charged
    BY DEF CronStep, CronDie, CronStart, CronBeginActions, CronFinish, CronRowGone,
           CronClassify, CronNotify, CronClose, CronDowngrade, CronSwitchOn, CronRenew,
           CronSettle, CronActivate, CronDiscard, CronMark, tableVars
<1> QED
    BY <1>4, <1>5, <1>6, <1>7, <1>8, <1>10, <1>11, <1>12, <1>13 DEF CronStep

\* What was paid for can be used until its end date, whichever runs overlap and
\* whichever process dies (ServedWhilePaid, for all values of the constants).
THEOREM PaidIsServed == Spec => []ServedWhilePaid
<1> DEFINE J == TypeOK /\ BillingInv /\ ServedWhilePaid
<1>1. Init => J
    <2> SUFFICES ASSUME Init PROVE J
        OBVIOUS
    <2>1. TypeOK /\ BillingInv
        BY InitInv DEF Inv
    <2>2. PICK sub \in [1..Len(Owner) -> Sub],
               kind \in [1..Len(Owner) -> {"trial", "subscription"}],
               paid \in SUBSET (1..Len(Owner)) :
            /\ link = [i \in 1..Len(Owner) |->
                         [NewRow(Owner[i], sub[i], Start, Start + SignupDays(sub[i], kind[i]))
                            EXCEPT !.active = (i \in paid)]]
            /\ charged = paid
            /\ origin = [i \in 1..Len(Owner) |-> [via |-> "register", of |-> NoLink]]
            /\ nextId = Len(Owner) + 1
            /\ deaths = 0 /\ interrupted = {}
        BY DEF Init, InitTable
    <2>3. \A i \in paid : i \in DOMAIN link /\ link[i].active
        BY <2>2 DEF NewRow
    <2> QED
        BY <2>1, <2>2, <2>3 DEF ServedWhilePaid
<1>2. J /\ [Next]_vars => J'
    <2> SUFFICES ASSUME J, [Next]_vars PROVE ServedWhilePaid'
        BY InvStep DEF Inv
    <2>1. \A i \in charged : Served(i)
        BY DEF ServedWhilePaid, Served
    <2>2. SUFFICES \A i \in charged' : Served(i)'
        BY DEF ServedWhilePaid, Served
    <2>3. ASSUME UNCHANGED <<tableVars, deathVars, cronVars, workerVars>>,
                 now' \in Nat, now <= now', NEW i \in charged
          PROVE  Served(i)'
        <3>1. InPayment(i) => InPayment(i)'
            BY <2>3, PaymentGoesOn DEF cronVars, workerVars
        <3>2. Grows /\ UNCHANGED <<link, replaced, interrupted>>
            BY <2>3, SameTableGrows DEF tableVars, deathVars, workerVars
        <3> QED
            BY <2>1, <2>3, <3>1, <3>2, ServedKept DEF Served
    <2>4. CASE Tick
        BY <2>3, <2>4, NowType DEF Tick, tableVars
    <2>5. CASE UNCHANGED vars
        BY <2>3, <2>5, NowType DEF vars, tableVars, deathVars, cronVars, workerVars
    <2>6. ASSUME NEW c \in Crons, CronStep(c) \/ CronDie(c), UNCHANGED <<now, workerVars>>
          PROVE  \A i \in charged' : Served(i)'
        BY <2>1, <2>6, CronKeepsServed
    <2>7. ASSUME NEW w \in Workers, WorkerStep(w) \/ WorkerDie(w), UNCHANGED <<now, cronVars>>
          PROVE  \A i \in charged' : Served(i)'
        BY <2>1, <2>7, WorkerKeepsServed
    <2>8. CASE Request /\ UNCHANGED <<now, cronVars>>
        <3>1. UNCHANGED charged
            BY <2>8 DEF Request, CancelSubscription, DowngradeSave, UpgradeSave, RenewSave,
                        tableVars
        <3> QED
            BY <2>1, <2>8, <3>1, RequestKeepsServed
    <2> QED
        BY <2>4, <2>5, <2>6, <2>7, <2>8 DEF Next, CronAct, WorkerAct
<1> QED
    BY <1>1, <1>2, PTL DEF Spec

(***************************************************************************)
(* A refused renewal leaves no link                                        *)
(***************************************************************************)

\* RefusedLeavesNoLink, of one link.
Accounted(i) ==
    origin[i].via = "renewal" =>
        i \in charged \/ i \in interrupted \/ \E c \in Crons : cron[c].new = i

LEMMA RequestKeepsAccounted ==
    ASSUME TypeOK, BillingInv, UNCHANGED <<now, cronVars>>,
           Request \/ \E w \in Workers : WorkerStep(w) \/ WorkerDie(w),
           \A i \in DOMAIN link : Accounted(i)
    PROVE  \A i \in DOMAIN link' : Accounted(i)'
<1>1. Grows /\ interrupted \subseteq interrupted'
    BY RequestEffects
       DEF RequestEffect, Request, CancelSubscription, DowngradeSave, UpgradeSave, RenewSave,
           WorkerStep, UpgradeCreate, WorkerPay, WorkerSettle, WorkerConclude,
           WorkerActivate, WorkerDie, Die, deathVars
<1>2. ASSUME NEW i \in DOMAIN link PROVE Accounted(i)'
    BY <1>1, <1>2 DEF Accounted, Grows, cronVars, TypeOK, TableOK
<1>3. ASSUME NEW i \in DOMAIN link', i \notin DOMAIN link PROVE origin'[i].via # "renewal"
    <2>1. ASSUME NEW row, NEW via, NEW of, via # "renewal", Insert(row, via, of)
          PROVE  origin'[i].via # "renewal"
        BY <1>3, <2>1 DEF Insert
    <2>2. \/ DOMAIN link' = DOMAIN link
          \/ \E row, of : \E via \in {"upgrade", "renew", "downgrade"} : Insert(row, via, of)
        BY DEF Request, CancelSubscription, DowngradeSave, UpgradeSave, RenewSave,
               WorkerStep, UpgradeCreate, WorkerPay, WorkerSettle, WorkerConclude,
               WorkerKeep, HasErrors, WorkerActivate, WorkerDie, SetActive, tableVars
    <2> QED
        BY <1>3, <2>1, <2>2
<1> QED
    BY <1>2, <1>3 DEF Accounted

LEMMA CronKeepsAccounted ==
    ASSUME TypeOK, BillingInv, NEW c \in Crons, CronStep(c) \/ CronDie(c),
           UNCHANGED <<now, workerVars>>,
           \A i \in DOMAIN link : Accounted(i)
    PROVE  \A i \in DOMAIN link' : Accounted(i)'
<1>1. CronEffect(c) /\ OwnsNew(c) /\ cron[c] \in CronState
    BY CronStepInv, AtType DEF BillingInv
<1>2. /\ Grows
      /\ \A d \in Crons : d # c => cron'[d] = cron[d]
      /\ DOMAIN link \subseteq DOMAIN origin
    BY <1>1 DEF CronEffect, TypeOK, TableOK
<1>3. interrupted \subseteq interrupted'
    BY DEF CronStep, CronDie, CronStart, CronBeginActions, CronFinish, CronRowGone,
           CronClassify, CronNotify, CronClose, CronDowngrade, CronSwitchOn, CronRenew,
           CronPay, CronSettle, CronActivate, CronDiscard, CronMark, Die, deathVars
<1>4. ASSUME NEW i \in DOMAIN link', i = cron[c].new, i # cron'[c].new
      PROVE  i \in charged' \/ i \in interrupted'
    <2>1. i # NoLink /\ cron[c].pc \in PayingPC \cup {"mark"}
        <3>1. i # NoLink
            BY <1>2, <1>4, NextIdIsNew DEF Grows, TypeOK
        <3> QED
            BY <1>1, <1>4, <3>1 DEF OwnsNew, CronState, CronPC, PayingPC
    <2>2. CASE CronDie(c)
        BY <1>4, <2>1, <2>2 DEF CronDie, Die
    <2>3. CASE CronPay(c) \/ CronSettle(c) \/ CronActivate(c) \/ CronDiscard(c)
        <3>1. cron \in [Crons -> CronState]
            BY DEF TypeOK, CronOK
        <3>2. PICK pc \in CronPC : cron' = [cron EXCEPT ![c].pc = pc]
            BY <2>3 DEF CronPay, CronSettle, CronActivate, CronDiscard, CronPC
        <3>3. cron'[c].new = cron[c].new
            BY <3>1, <3>2 DEF CronState
        <3> QED
            BY <1>4, <3>3
    <2>4. CASE CronMark(c) \/ CronRowGone(c)
        <3>1. /\ cron[c].pc = "mark" /\ UNCHANGED charged
              /\ DOMAIN link' = DOMAIN link
            BY <2>1, <2>4 DEF CronMark, CronRowGone, tableVars, PayingPC
        <3> QED
            BY <1>1, <1>4, <3>1 DEF OwnsNew
    <2> QED
        BY <2>1, <2>2, <2>3, <2>4
           DEF CronStep, CronStart, CronBeginActions, CronClassify, CronNotify, CronClose,
               CronDowngrade, CronSwitchOn, CronRenew, CronFinish, ActsOn, Running, PayingPC
<1>5. ASSUME NEW i \in DOMAIN link', i \in DOMAIN link PROVE Accounted(i)'
    <2>1. origin'[i] = origin[i]
        BY <1>2, <1>5 DEF Grows
    <2> QED
        BY <1>2, <1>3, <1>4, <1>5, <2>1 DEF Accounted, Grows
<1>6. ASSUME NEW i \in DOMAIN link', i \notin DOMAIN link PROVE Accounted(i)'
    <2>1. \E l \in cron[c].todo : CronRenew(c, l)
        <3>1. DOMAIN link' # DOMAIN link /\ ~(DOMAIN link' \subseteq DOMAIN link)
            BY <1>6
        <3> QED
            BY <3>1 DEF CronStep, CronDie, CronStart, CronBeginActions, CronFinish,
               CronRowGone, CronClassify, CronNotify, CronClose, CronDowngrade,
               CronSwitchOn, CronPay, CronSettle, CronActivate, CronDiscard, CronMark, SetActive, Delete, tableVars
    <2>2. i = nextId
        BY <1>2, <1>6 DEF Grows
    <2>3. PICK l, m : Take(c, l, m, "pay", nextId, NoLink)
        BY <1>6, <2>1 DEF CronRenew
    <2>4. cron'[c].new = nextId
        BY <1>1, <2>3 DEF Take, CronState, TypeOK, CronOK
    <2> QED
        BY <2>2, <2>4 DEF Accounted
<1> QED
    BY <1>5, <1>6

\* A link the cron created and did not charge for is being worked on, or was
\* left by a run that died (RefusedLeavesNoLink, for all constants).
THEOREM RefusedIsDeleted == Spec => []RefusedLeavesNoLink
<1> DEFINE J == TypeOK /\ BillingInv /\ RefusedLeavesNoLink
<1>1. Init => J
    <2> SUFFICES ASSUME Init PROVE J
        OBVIOUS
    <2>1. TypeOK /\ BillingInv
        BY InitInv DEF Inv
    <2>2. \A i \in DOMAIN link : origin[i].via # "renewal"
        <3>1. DOMAIN link = DOMAIN origin /\ \A i \in DOMAIN origin : origin[i].via = "register"
            BY DEF Init, InitTable
        <3> QED
            BY <3>1
    <2> QED
        BY <2>1, <2>2 DEF RefusedLeavesNoLink
<1>2. J /\ [Next]_vars => J'
    <2> SUFFICES ASSUME J, [Next]_vars PROVE RefusedLeavesNoLink'
        BY InvStep DEF Inv
    <2>1. \A i \in DOMAIN link : Accounted(i)
        BY DEF RefusedLeavesNoLink, Accounted
    <2>2. SUFFICES \A i \in DOMAIN link' : Accounted(i)'
        BY DEF RefusedLeavesNoLink, Accounted
    <2>3. CASE Tick \/ UNCHANGED vars
        <3>1. UNCHANGED <<link, origin, charged, interrupted, cron>>
            BY <2>3 DEF Tick, vars, tableVars, deathVars, cronVars
        <3> QED
            BY <2>1, <3>1 DEF Accounted
    <2>4. ASSUME NEW c \in Crons, CronStep(c) \/ CronDie(c), UNCHANGED <<now, workerVars>>
          PROVE  \A i \in DOMAIN link' : Accounted(i)'
        BY <2>1, <2>4, CronKeepsAccounted
    <2>5. CASE /\ UNCHANGED <<now, cronVars>>
               /\ Request \/ \E w \in Workers : WorkerStep(w) \/ WorkerDie(w)
        BY <2>1, <2>5, RequestKeepsAccounted
    <2> QED
        BY <2>3, <2>4, <2>5 DEF Next, CronAct, WorkerAct
<1> QED
    BY <1>1, <1>2, PTL DEF Spec

=============================================================================
