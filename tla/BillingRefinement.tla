------------------------- MODULE BillingRefinement -------------------------
(***************************************************************************)
(* While requests pay for nothing and no two cron runs are in progress,    *)
(* every step of Billing is a step of the life of a period that LinkStages *)
(* specifies, or none, for every value of the other constants.             *)
(***************************************************************************)
EXTENDS BillingStages, BillingOneRun

USE DEF Start, NoLink

(***************************************************************************)
(* What has ended is off                                                   *)
(***************************************************************************)

\* Only a run switches links on: the one it has just paid for, or one that
\* starts when the run did, or later.
LEMMA OpenSwitchedOn ==
    ASSUME TypeOK, BillingInv, DatesInv, OneRun, [Next]_vars, Workers = {},
           NEW i \in DOMAIN link', link'[i].active, ~(i \in DOMAIN link /\ link[i].active)
    PROVE  /\ i \in DOMAIN link /\ link[i].process_message \notin ExpiredMessage
           /\ \A c \in Crons : \A l \in DOMAIN handled[c] :
                 i = l => ~(Copy(c, l).to <= cron[c].at)
<1>1. CASE \E c \in Crons : (CronSettle(c) \/ CronActivate(c)) /\ i = cron[c].new
    <2>1. PICK c \in Crons : (CronSettle(c) \/ CronActivate(c)) /\ i = cron[c].new
        BY <1>1
    <2>2. Running(c) /\ i \in DOMAIN link
        BY <2>1 DEF CronSettle, CronActivate, Running, BillingInv, OwnsNew, PayingPC
    <2>3. link[i].process_message = "none" /\ i \notin DOMAIN handled[c]
        BY <2>1, <2>2 DEF OneRun, ListIsTable
    <2>4. \A d \in Crons : d # c => DOMAIN handled[d] = {}
        BY <2>2, Alone
    <2> QED
        BY <2>2, <2>3, <2>4 DEF ExpiredMessage
<1>2. CASE \E c \in Crons : CronSwitchOn(c) /\ i = cron[c].found
    <2>1. PICK c \in Crons : CronSwitchOn(c) /\ i = cron[c].found
        BY <1>2
    <2>2. i \in DOMAIN link /\ link[i].from >= cron[c].at /\ Running(c)
        BY <2>1 DEF BillingInv, FoundWaits, CronSwitchOn, Running
    <2>3. link[i].from \in Nat /\ link[i].to \in Nat /\ cron[c].at \in Nat /\ lastRun \in Nat
        BY <2>2, AtType DEF TypeOK, TableOK, Row, CronOK
    <2>4. RowDates(i) /\ cron[c].at = lastRun
        BY <2>2 DEF DatesInv, OneRun, ListIsTable
    <2>5. link[i].process_message \notin ExpiredMessage /\ ~(link[i].to <= cron[c].at)
        BY <2>2, <2>3, <2>4 DEF RowDates
    <2>6. i \in DOMAIN handled[c] => Copy(c, i).to = link[i].to
        BY <2>2 DEF BillingInv, ListIsCurrent, Copy
    <2>7. \A d \in Crons : d # c => DOMAIN handled[d] = {}
        BY <2>2, Alone
    <2> QED
        BY <2>2, <2>5, <2>6, <2>7
<1> QED
    BY <1>1, <1>2, SwitchedOn

\* ClosedIsOff, with its conditions left out.
Off ==
    /\ \A l \in DOMAIN link :
          link[l].process_message \in ExpiredMessage => ~link[l].active
    /\ \A c \in Crons : \A l \in DOMAIN handled[c] :
          link[l].active /\ Copy(c, l).to <= cron[c].at => Copy(c, l).active

LEMMA MarkKeepsOff ==
    ASSUME TypeOK, BillingInv, DatesInv, OneRun, Off, NEW c \in Crons, CronMark(c),
           NEW l \in DOMAIN link', link'[l].process_message \in ExpiredMessage
    PROVE  ~link'[l].active
<1> DEFINE k == cron[c].cur
<1>1. /\ cron[c].pc = "mark" /\ k \in DOMAIN link /\ k \in DOMAIN handled[c]
      /\ DOMAIN link' = DOMAIN link
      /\ l # k => link'[l] = link[l]
      /\ link'[k].process_message = IF Planned(c, k) = PrevStage(c, k)
                                    THEN link[k].process_message ELSE Planned(c, k)
      /\ link'[k].active = IF Planned(c, k) \in ExpiredMessage /\ Copy(c, k).active
                           THEN FALSE ELSE link[k].active
    BY MarkShape
<1>2. /\ link[k].process_message = PrevStage(c, k)
      /\ Planned(c, k) \in ExpiredMessage => Copy(c, k).to <= cron[c].at
    BY <1>1 DEF OneRun, ListIsTable, DatesInv, ListFollowsDates, Decided
<1> HIDE DEF k
<1>3. CASE l = k
    <2>1. Planned(c, k) \in ExpiredMessage
        BY <1>1, <1>2, <1>3
    <2> QED
        BY <1>1, <1>2, <1>3, <2>1 DEF Off
<1> QED
    BY <1>1, <1>3 DEF Off

\* A step keeps each list, shortens it, empties it, or makes it anew.
LEMMA ListsMove ==
    ASSUME TypeOK, BillingInv, OneRun, [Next]_vars, NEW c \in Crons
    PROVE  \/ /\ cron'[c].at = cron[c].at
              /\ DOMAIN handled'[c] \subseteq DOMAIN handled[c]
              /\ \A i \in DOMAIN handled'[c] :
                    handled'[c][i].subscription = handled[c][i].subscription
           \/ DOMAIN handled'[c] = {}
           \/ CronStart(c)
<1>1. ASSUME NEW d \in Crons, CronStep(d) \/ CronDie(d), UNCHANGED <<now, workerVars>>, d # c
      PROVE  cron'[c] = cron[c] /\ handled'[c] = handled[c]
    BY <1>1, CronStepInv DEF CronEffect
<1>2. CASE Works(c)
    BY <1>2, WorksShape
<1>3. CASE CronMark(c)
    <2>1. cron[c].todo \subseteq DOMAIN handled[c]
        BY DEF BillingInv, OwnsNew
    <2> QED
        BY <1>3, <2>1, NextShape DEF CronMark, TypeOK
<1>4. CASE CronFinish(c) \/ CronRowGone(c) \/ CronDie(c)
    BY <1>4, EndShape DEF CronFinish, CronRowGone, CronDie, TypeOK
<1>5. CASE UNCHANGED cronVars
    BY <1>5 DEF cronVars
<1> QED
    BY <1>1, <1>2, <1>3, <1>4, <1>5, WorksOrNot DEF Next, Tick, CronAct, WorkerAct, vars, cronVars

LEMMA OffStep ==
    ASSUME TypeOK, BillingInv, OneRunInv, Off, [Next]_vars, Workers = {}, ~overlapped'
    PROVE  Off'
<1>1. OneRun /\ DatesInv /\ OneRun'
    BY OverlapStays, OneRunStep DEF OneRunInv
<1>2. ASSUME NEW l \in DOMAIN link', link'[l].process_message \in ExpiredMessage, link'[l].active,
             RowsKeep
      PROVE  FALSE
    <2>1. l \in DOMAIN link /\ link[l].process_message \in ExpiredMessage
        BY <1>2 DEF RowsKeep, ExpiredMessage
    <2>2. ~link[l].active
        BY <2>1 DEF Off
    <2> QED
        BY <1>1, <1>2, <2>1, <2>2, OpenSwitchedOn
<1>3. \A l \in DOMAIN link' : link'[l].process_message \in ExpiredMessage => ~link'[l].active
    <2>1. RowsKeep \/ \E c \in Crons : CronMark(c)
        BY CronRows, RequestRows, SameRowsKeep
           DEF Next, Tick, CronAct, WorkerAct, vars, tableVars
    <2> QED
        BY <1>1, <1>2, <2>1, MarkKeepsOff
<1>4. ASSUME NEW c \in Crons, NEW l \in DOMAIN handled'[c],
             link'[l].active, Copy(c, l)'.to <= cron'[c].at
      PROVE  Copy(c, l)'.active
    <2>1. CASE CronStart(c)
        <3>1. /\ l \in Handled(now) /\ UNCHANGED link
              /\ handled'[c][l].subscription.active = link[l].active
            BY <1>4, <2>1, StartShape
        <3> QED
            BY <1>4, <3>1 DEF Copy
    <2>2. CASE /\ cron'[c].at = cron[c].at
               /\ l \in DOMAIN handled[c]
               /\ handled'[c][l].subscription = handled[c][l].subscription
        <3>1. Copy(c, l)' = Copy(c, l) /\ l \in DOMAIN link
            BY <1>1, <2>2 DEF Copy, OneRun, ListIsTable
        <3>2. CASE link[l].active
            BY <1>4, <2>2, <3>1, <3>2 DEF Off
        <3>3. CASE ~link[l].active
            <4>1. l \in DOMAIN link'
                BY <1>1, <1>4 DEF OneRun, ListIsTable
            <4> QED
                BY <1>1, <1>4, <2>2, <3>1, <3>3, <4>1, OpenSwitchedOn
        <3> QED
            BY <3>2, <3>3
    <2> QED
        BY <1>1, <1>4, <2>1, <2>2, ListsMove
<1> QED
    BY <1>3, <1>4 DEF Off

\* While requests pay for nothing and no two runs are in progress, what is
\* marked expired is off (ClosedIsOff, for every value of the constants).
THEOREM ClosedStaysOff == Spec => []ClosedIsOff
<1>1. Init => ClosedIsOff
    <2> SUFFICES ASSUME Init PROVE Off
        BY DEF ClosedIsOff, Off
    <2>1. \A l \in DOMAIN link : link[l].process_message = "none"
        BY DEF Init, InitTable, NewRow
    <2>2. \A c \in Crons : handled[c] = NoElements
        BY DEF Init, InitCron
    <2> QED
        BY <2>1, <2>2 DEF Off, ExpiredMessage, NoElements
<1>2. TypeOK /\ BillingInv /\ OneRunInv /\ ClosedIsOff /\ [Next]_vars => ClosedIsOff'
    BY OffStep, OverlapStays DEF ClosedIsOff, Off
<1> QED
    BY <1>1, <1>2, InvHolds, OneRunHolds, PTL DEF Spec

(***************************************************************************)
(* The steps of LinkStages, seen in the table                              *)
(***************************************************************************)

On == {l \in DOMAIN link : link[l].active}

\* How a step of a period is recognised: the stages that move, the renewals
\* that are created.
LEMMA StageMoves ==
    ASSUME NEW l \in LinkId, NEW s,
           \A k \in LinkId : StageOf(k)' = IF k = l THEN s ELSE StageOf(k)
    PROVE  Stages!To(l, s)
    BY DEF Stages!To

LEMMA StagesStay ==
    ASSUME \A k \in LinkId : StageOf(k)' = StageOf(k)
    PROVE  UNCHANGED [k \in LinkId |-> StageOf(k)]
    OBVIOUS

LEMMA RenewalsStay ==
    ASSUME UNCHANGED origin
    PROVE  UNCHANGED [k \in LinkId |-> RenewalOf(k)]
    BY DEF RenewalOf

\* The stage of a row that is there.
LEMMA RowStage ==
    ASSUME TypeOK, NEW l \in DOMAIN link
    PROVE  /\ l \in LinkId /\ l \in DOMAIN origin
           /\ StageOf(l) = IF link[l].process_message \in ExpiredMessage THEN "closed"
                           ELSE IF link[l].process_message \in NotifyMessage THEN "announced"
                           ELSE "open"
    BY LinkIds DEF TypeOK, TableOK, StageOf

\* Nothing that LinkStages knows of changes.
LEMMA NoStep ==
    ASSUME DOMAIN link' = DOMAIN link, UNCHANGED <<charged, origin, interrupted>>,
           \A l \in DOMAIN link : /\ link'[l].process_message = link[l].process_message
                                  /\ link'[l].active = link[l].active
    PROVE  UNCHANGED Stages!vars
<1>1. \A l \in LinkId : StageOf(l)' = StageOf(l)
    BY DEF StageOf
<1>2. UNCHANGED {l \in DOMAIN link : link[l].active}
    OBVIOUS
<1> QED
    BY <1>1, <1>2, StagesStay, RenewalsStay DEF Stages!vars

\* An insertion creates a period; one that renews another finds it announced.
LEMMA InsertCreates ==
    ASSUME TypeOK, NEW row, NEW via, NEW of, Insert(row, via, of),
           row.process_message = "none", ~row.active,
           via = "renewal" => /\ of \in DOMAIN link
                              /\ link[of].process_message \in NotifyMessage,
           UNCHANGED <<charged, interrupted>>
    PROVE  Stages!Create(nextId)
<1>1. /\ nextId \in LinkId /\ nextId \notin DOMAIN origin /\ nextId \notin DOMAIN link
      /\ DOMAIN link' = DOMAIN link \cup {nextId}
      /\ DOMAIN origin' = DOMAIN origin \cup {nextId}
      /\ link'[nextId] = row
      /\ origin'[nextId] = [via |-> via, of |-> of]
      /\ \A l \in DOMAIN link : link'[l] = link[l]
      /\ \A i \in DOMAIN origin : origin'[i] = origin[i]
    <2>1. nextId \in LinkId
        BY StartAssumption DEF Insert, CanInsert, TypeOK, TableOK, LinkId
    <2> QED
        BY <2>1, InsertGrows, NextIdIsNew DEF TypeOK, Grows
<1>2. \A k \in LinkId : StageOf(k)' = IF k = nextId THEN "open" ELSE StageOf(k)
    BY <1>1 DEF StageOf, ExpiredMessage, NotifyMessage
<1>3. [k \in LinkId |-> StageOf(k)][nextId] = "absent"
    BY <1>1 DEF StageOf
<1>4. PICK p \in {NoLink} \cup {q \in LinkId : StageOf(q) = "announced"} :
        \A k \in LinkId : RenewalOf(k)' = IF k = nextId THEN p ELSE RenewalOf(k)
    <2> DEFINE p == IF via = "renewal" THEN of ELSE NoLink
    <2>1. p \in {NoLink} \cup {q \in LinkId : StageOf(q) = "announced"}
        <3>1. CASE via = "renewal"
            <4>1. of \in LinkId /\ StageOf(of) = "announced"
                BY <3>1, RowStage DEF NotifyMessage, ExpiredMessage
            <4> QED
                BY <3>1, <4>1
        <3> QED
            BY <3>1
    <2>2. \A k \in LinkId : RenewalOf(k)' = IF k = nextId THEN p ELSE RenewalOf(k)
        BY <1>1 DEF RenewalOf
    <2> HIDE DEF p
    <2> QED
        BY <2>1, <2>2
<1>5. UNCHANGED {l \in DOMAIN link : link[l].active}
    BY <1>1
<1>6. [k \in LinkId |-> RenewalOf(k)'] = [[k \in LinkId |-> RenewalOf(k)] EXCEPT ![nextId] = p]
    BY <1>1, <1>4
<1>7. Stages!To(nextId, "open")
    BY <1>1, <1>2, StageMoves
<1> QED
    BY <1>1, <1>3, <1>4, <1>5, <1>6, <1>7 DEF Stages!Create

(***************************************************************************)
(* Each step is one of LinkStages, or none                                 *)
(***************************************************************************)

StagesStep == Stages!Next \/ UNCHANGED Stages!vars

\* What is known of the table while no two runs are in progress.
StagesInv ==
    /\ TypeOK /\ BillingInv /\ DatesInv /\ OneRun /\ Off
    /\ RefusedLeavesNoLink /\ RenewalsArePaid /\ ~overlapped

\* The renewal paid for renews what is still announced, and is the first one
\* paid for, dead runs aside.
LEMMA PayStep ==
    ASSUME StagesInv, NEW c \in Crons, CronPay(c), UNCHANGED interrupted
    PROVE  StagesStep
<1> DEFINE i == cron[c].new
           l == cron[c].cur
<1>1. /\ i \in DOMAIN link /\ link[i].process_message = "none"
      /\ origin[i].via = "renewal" /\ origin[i].of = l
      /\ l \in DOMAIN link /\ link[l].process_message \in DOMAIN RenewStage
      /\ \A j \in charged \ interrupted : ~(origin[j].via = "renewal" /\ origin[j].of = l)
    BY PaysOnce DEF StagesInv
<1>2. /\ i \in LinkId /\ StageOf(i) = "open" /\ RenewalOf(i) = l
      /\ l \in LinkId /\ StageOf(l) = "announced"
    BY <1>1, RowStage DEF StagesInv, RenewStage, NotifyMessage, ExpiredMessage, RenewalOf
<1>3. UNCHANGED <<link, origin>> /\ (charged' = charged \cup {i} \/ UNCHANGED charged)
    BY DEF CronPay, Charge
<1> HIDE DEF i, l
<1>4. /\ UNCHANGED [k \in LinkId |-> StageOf(k)]
      /\ UNCHANGED [k \in LinkId |-> RenewalOf(k)]
      /\ UNCHANGED {k \in DOMAIN link : link[k].active}
    BY <1>3 DEF StageOf, RenewalOf
<1>5. CASE UNCHANGED charged
    BY <1>4, <1>5 DEF StagesStep, Stages!vars
<1>6. CASE charged' = charged \cup {i}
    <2>1. l # NoLink
        BY <1>1, NextIdIsNew DEF StagesInv, TypeOK
    <2>2. \A j \in LinkId : RenewalOf(j) = l /\ j \in charged => j \in interrupted
        BY <1>1, <2>1 DEF RenewalOf
    <2>3. Stages!Rivals(i) \cap charged \subseteq interrupted
        BY <1>2, <2>2 DEF Stages!Rivals
    <2>4. Stages!Pay(i)
        BY <1>2, <1>4, <1>6, <2>1, <2>3 DEF Stages!Pay
    <2> QED
        BY <1>2, <2>4 DEF StagesStep, Stages!Next
<1> QED
    BY <1>3, <1>5, <1>6

\* Switching on a link that is not closed, and is paid for if it renews one.
LEMMA SwitchStep ==
    ASSUME StagesInv, NEW i \in DOMAIN link, SetActive(i, TRUE),
           link[i].process_message \notin ExpiredMessage,
           origin[i].via = "renewal" => i \in charged,
           UNCHANGED <<charged, origin, interrupted>>
    PROVE  StagesStep
<1>1. TableOK /\ i \in LinkId /\ StageOf(i) \in {"open", "announced"} /\ i # NoLink
    BY RowStage, NextIdIsNew DEF StagesInv, TypeOK
<1>2. RenewalOf(i) # NoLink => i \in charged
    BY DEF RenewalOf
<1>3. /\ DOMAIN link' = DOMAIN link
      /\ \A k \in DOMAIN link : k # i => link'[k] = link[k]
      /\ link'[i].active /\ link'[i].process_message = link[i].process_message
    BY <1>1 DEF SetActive, TableOK, Row
<1>4. UNCHANGED [k \in LinkId |-> StageOf(k)] /\ UNCHANGED [k \in LinkId |-> RenewalOf(k)]
    BY <1>3, RenewalsStay DEF StageOf
<1>5. On' = On \cup {i}
    BY <1>3 DEF On
<1>6. Stages!SwitchOn(i)
    BY <1>1, <1>2, <1>4, <1>5 DEF Stages!SwitchOn, On
<1> QED
    BY <1>1, <1>6 DEF StagesStep, Stages!Next

LEMMA SwitchesStep ==
    ASSUME StagesInv, NEW c \in Crons, CronSettle(c) \/ CronActivate(c),
           UNCHANGED interrupted
    PROVE  StagesStep
<1> DEFINE i == cron[c].new
<1>1. /\ i \in DOMAIN link /\ i \in charged
      /\ SetActive(i, TRUE) /\ UNCHANGED <<charged, origin>>
    BY DEF StagesInv, BillingInv, OwnsNew, PayingPC, CronSettle, CronActivate
<1>2. link[i].process_message \notin ExpiredMessage
    BY <1>1 DEF StagesInv, OneRun, ListIsTable, ExpiredMessage
<1> HIDE DEF i
<1> QED
    BY <1>1, <1>2, SwitchStep

\* A downgrade that starts has not ended, and is no unpaid renewal.
LEMMA DowngradeStep ==
    ASSUME StagesInv, NEW c \in Crons, CronSwitchOn(c), UNCHANGED interrupted
    PROVE  StagesStep
<1> DEFINE d == cron[c].found
<1>1. /\ cron[c].pc = "switch" /\ Running(c) /\ UNCHANGED <<charged, origin>>
      /\ d \in DOMAIN link /\ SetActive(d, TRUE)
    BY DEF CronSwitchOn, Running
<1>2. link[d].from >= cron[c].at
    BY <1>1 DEF StagesInv, BillingInv, FoundWaits
<1>3. link[d].from \in Nat /\ link[d].to \in Nat /\ cron[c].at \in Nat /\ lastRun \in Nat
    BY <1>1, AtType DEF StagesInv, TypeOK, TableOK, Row, CronOK
<1>4. RowDates(d) /\ cron[c].at = lastRun
    BY <1>1 DEF StagesInv, DatesInv, OneRun, ListIsTable
<1>5. link[d].process_message \notin ExpiredMessage
    BY <1>1, <1>2, <1>3, <1>4 DEF RowDates
<1>6. origin[d].via = "renewal" => d \in charged
    BY <1>1, DowngradeIsNoRenewal DEF StagesInv
<1> HIDE DEF d
<1> QED
    BY <1>1, <1>5, <1>6, SwitchStep

\* A renewal refused is taken away: it was never charged for, nor on.
LEMMA DiscardStep ==
    ASSUME StagesInv, NEW c \in Crons, CronDiscard(c), UNCHANGED interrupted,
           NEW i, i = cron[c].new
    PROVE  StagesStep
<1>1. /\ i \in DOMAIN link /\ i \notin charged /\ origin[i].via = "renewal" /\ i # NoLink
      /\ Delete(i) /\ UNCHANGED <<charged, origin>>
    BY NextIdIsNew DEF StagesInv, TypeOK, BillingInv, OwnsNew, PayingPC, CronDiscard
<1>2. ~link[i].active
    <2>1. overlapped \/ ~link[i].active
        BY <1>1 DEF StagesInv, RenewalsArePaid
    <2> QED
        BY <2>1 DEF StagesInv
<1>3. /\ DOMAIN link' = DOMAIN link \ {i}
      /\ \A k \in DOMAIN link' : link'[k] = link[k]
    BY <1>1 DEF Delete
<1>4. i \in LinkId /\ i \in DOMAIN origin /\ StageOf(i) \in {"open", "announced", "closed"}
    BY <1>1, RowStage DEF StagesInv
<1>5. \A k \in LinkId : StageOf(k)' = IF k = i THEN "deleted" ELSE StageOf(k)
    BY <1>1, <1>3, <1>4 DEF StageOf
<1>6. UNCHANGED [k \in LinkId |-> RenewalOf(k)] /\ UNCHANGED {k \in DOMAIN link : link[k].active}
    BY <1>1, <1>2, <1>3, RenewalsStay
<1>7. Stages!To(i, "deleted")
    BY <1>4, <1>5, StageMoves
<1>8. Stages!Remove(i)
    BY <1>1, <1>2, <1>4, <1>6, <1>7 DEF Stages!Remove, Stages!Present
<1> QED
    BY <1>4, <1>8 DEF StagesStep, Stages!Next

\* The mark announces a period, closes it, or leaves it at its stage.
LEMMA MarkStep ==
    ASSUME StagesInv, NEW c \in Crons, CronMark(c), UNCHANGED interrupted,
           NEW k, k = cron[c].cur, NEW m, m = link'[k].process_message
    PROVE  StagesStep
<1>1. /\ cron[c].pc = "mark" /\ k \in DOMAIN link /\ k \in DOMAIN handled[c]
      /\ Planned(c, k) \in Message
      /\ DOMAIN link' = DOMAIN link
      /\ \A l \in DOMAIN link : l # k => link'[l] = link[l]
      /\ m = IF Planned(c, k) = PrevStage(c, k) THEN link[k].process_message ELSE Planned(c, k)
      /\ link'[k].active = IF Planned(c, k) \in ExpiredMessage /\ Copy(c, k).active
                           THEN FALSE ELSE link[k].active
      /\ UNCHANGED <<charged, origin, interrupted>>
    BY MarkShape DEF StagesInv
<1>2. /\ link[k].process_message = PrevStage(c, k)
      /\ Planned(c, k) # "none"
      /\ PrevStage(c, k) \in ExpiredMessage => Planned(c, k) \in ExpiredMessage
    BY <1>1 DEF StagesInv, OneRun, ListIsTable, DatesInv, ListFollowsDates, Decided
<1>3. m = Planned(c, k) /\ m \in NotifyMessage \cup ExpiredMessage
    BY <1>1, <1>2 DEF Message
<1>4. m \in ExpiredMessage => ~link'[k].active
    BY <1>1, MarkKeepsOff DEF StagesInv
<1>5. link[k].process_message \in ExpiredMessage => ~link[k].active
    BY <1>1 DEF StagesInv, Off
<1>6. m \notin ExpiredMessage => link'[k].active = link[k].active
    BY <1>1, <1>3
<1>7. /\ k \in LinkId
      /\ StageOf(k) = IF link[k].process_message \in ExpiredMessage THEN "closed"
                      ELSE IF link[k].process_message \in NotifyMessage THEN "announced"
                      ELSE "open"
    BY <1>1, RowStage DEF StagesInv
<1>8. \A l \in LinkId : StageOf(l)' =
          IF l = k THEN IF m \in ExpiredMessage THEN "closed" ELSE "announced"
          ELSE StageOf(l)
    <2>1. k \in DOMAIN origin
        BY <1>1, RowStage DEF StagesInv
    <2>2. StageOf(k)' = IF m \in ExpiredMessage THEN "closed" ELSE "announced"
        BY <1>1, <1>3, <2>1 DEF StageOf
    <2>3. \A l \in LinkId : l # k => StageOf(l)' = StageOf(l)
        BY <1>1 DEF StageOf
    <2> QED
        BY <2>2, <2>3
<1>9. UNCHANGED [l \in LinkId |-> RenewalOf(l)]
    BY <1>1, RenewalsStay
<1>10. CASE m \in ExpiredMessage /\ link[k].process_message \in ExpiredMessage
    <2>1. UNCHANGED [l \in LinkId |-> StageOf(l)]
        BY <1>7, <1>8, <1>10, StagesStay
    <2>2. On' = On
        BY <1>1, <1>4, <1>5, <1>10 DEF On
    <2> QED
        BY <1>1, <1>9, <2>1, <2>2 DEF StagesStep, Stages!vars, On
<1>11. CASE m \in ExpiredMessage /\ link[k].process_message \notin ExpiredMessage
    <2>1. Stages!To(k, "closed")
        BY <1>7, <1>8, <1>11, StageMoves
    <2>2. On' = On \ {k}
        BY <1>1, <1>4, <1>11 DEF On
    <2>3. Stages!Close(k)
        BY <1>1, <1>7, <1>9, <1>11, <2>1, <2>2 DEF Stages!Close, On
    <2> QED
        BY <1>7, <2>3 DEF StagesStep, Stages!Next
<1>12. CASE m \notin ExpiredMessage
    <2>1. link[k].process_message \notin ExpiredMessage
        BY <1>2, <1>3, <1>12
    <2>2. On' = On
        BY <1>1, <1>6, <1>12 DEF On
    <2>3. CASE link[k].process_message \in NotifyMessage
        <3>1. UNCHANGED [l \in LinkId |-> StageOf(l)]
            BY <1>7, <1>8, <1>12, <2>1, <2>3, StagesStay
        <3> QED
            BY <1>1, <1>9, <2>2, <3>1 DEF StagesStep, Stages!vars, On
    <2>4. CASE link[k].process_message \notin NotifyMessage
        <3>1. Stages!To(k, "announced")
            BY <1>7, <1>8, <1>12, StageMoves
        <3>2. Stages!Announce(k)
            BY <1>1, <1>7, <1>9, <2>1, <2>2, <2>4, <3>1 DEF Stages!Announce, On
        <3> QED
            BY <1>7, <3>2 DEF StagesStep, Stages!Next
    <2> QED
        BY <2>3, <2>4
<1> QED
    BY <1>10, <1>11, <1>12

\* A run that dies over a renewal cuts it short.
LEMMA DieStep ==
    ASSUME StagesInv, NEW c \in Crons, CronDie(c), NEW i, i = cron[c].new
    PROVE  StagesStep
<1>1. /\ UNCHANGED <<link, charged, origin>>
      /\ interrupted' = interrupted \cup ({i} \ {NoLink})
    BY DEF CronDie, Die, tableVars
<1>2. UNCHANGED [k \in LinkId |-> StageOf(k)] /\ UNCHANGED [k \in LinkId |-> RenewalOf(k)]
    BY <1>1, RenewalsStay DEF StageOf
<1>3. CASE i = NoLink
    BY <1>1, <1>2, <1>3 DEF StagesStep, Stages!vars
<1>4. CASE i # NoLink
    <2>1. i \in LinkId
        BY <1>4, LinkIds DEF StagesInv, TypeOK, BillingInv, OwnsNew
    <2>2. Stages!Interrupt(i)
        BY <1>1, <1>2, <1>4 DEF Stages!Interrupt
    <2> QED
        BY <2>1, <2>2 DEF StagesStep, Stages!Next
<1> QED
    BY <1>3, <1>4

\* What a new row looks like to LinkStages.
LEMMA NewRowIsOpen ==
    ASSUME NEW u, NEW s, NEW from, NEW to
    PROVE  NewRow(u, s, from, to).process_message = "none" /\ ~NewRow(u, s, from, to).active
    BY DEF NewRow

\* A renewal is created for a link whose announcement stands.
LEMMA RenewStep ==
    ASSUME StagesInv, NEW c \in Crons, NEW l \in cron[c].todo, CronRenew(c, l),
           UNCHANGED interrupted
    PROVE  StagesStep
<1>1. l \in DOMAIN link /\ link[l].process_message \in NotifyMessage
    BY DEF StagesInv, BillingInv, OwnsNew, OneRun, ListIsTable, CronRenew, RenewStage, NotifyMessage
<1>2. UNCHANGED charged
    BY DEF CronRenew
<1> DEFINE row == NewRow(Copy(c, l).user, Copy(c, l).sub, cron[c].at,
                         cron[c].at + Period[Copy(c, l).sub])
<1>3. CASE Insert(row, "renewal", l)
    <2>1. row.process_message = "none" /\ ~row.active
        BY NewRowIsOpen
    <2> HIDE DEF row
    <2>2. Stages!Create(nextId)
        BY <1>1, <1>2, <1>3, <2>1, InsertCreates DEF StagesInv
    <2>3. nextId \in LinkId
        BY <1>3, StartAssumption DEF Insert, CanInsert, StagesInv, TypeOK, TableOK, LinkId
    <2> QED
        BY <2>2, <2>3 DEF StagesStep, Stages!Next
<1>4. CASE UNCHANGED <<link, nextId, origin>>
    BY <1>2, <1>4, NoStep DEF StagesStep
<1> QED
    BY <1>3, <1>4 DEF CronRenew

LEMMA CronIsStep ==
    ASSUME StagesInv, NEW c \in Crons, CronStep(c) \/ CronDie(c)
    PROVE  StagesStep
<1>1. ~CronDie(c) => UNCHANGED interrupted
    BY DEF CronStep, CronStart, CronClassify, CronNotify, CronClose, CronDowngrade, CronRenew,
           CronBeginActions, CronPay, CronSettle, CronActivate, CronDiscard, CronMark,
           CronSwitchOn, CronRowGone, CronFinish, deathVars
<1>2. CASE \/ CronStart(c) \/ CronBeginActions(c) \/ CronRowGone(c) \/ CronFinish(c)
           \/ \E l \in cron[c].todo : \/ CronClassify(c, l) \/ CronNotify(c, l)
                                      \/ CronClose(c, l) \/ CronDowngrade(c, l)
    <2>1. UNCHANGED <<link, charged, origin, interrupted>>
        BY <1>2 DEF CronStart, CronClassify, CronNotify, CronClose, CronDowngrade,
                    CronBeginActions, CronRowGone, CronFinish, tableVars, deathVars
    <2> QED
        BY <2>1, NoStep DEF StagesStep
<1>3. CASE CronDie(c)
    BY <1>3, DieStep
<1>4. CASE ~CronDie(c)
    BY <1>1, <1>2, <1>4, PayStep, SwitchesStep, DowngradeStep, DiscardStep, MarkStep, RenewStep
       DEF CronStep
<1> QED
    BY <1>3, <1>4

\* A request for a cancellation or a downgrade.
LEMMA RequestIsStep ==
    ASSUME StagesInv, Workers = {}, Request
    PROVE  StagesStep
<1>1. ASSUME NEW l \in DOMAIN link, CancelSubscription(l)
      PROVE  StagesStep
    <2>1. /\ DOMAIN link' = DOMAIN link /\ UNCHANGED <<charged, origin, interrupted>>
          /\ \A k \in DOMAIN link : /\ link'[k].process_message = link[k].process_message
                                    /\ link'[k].active = link[k].active
        BY <1>1 DEF CancelSubscription, StagesInv, TypeOK, TableOK, Row, deathVars
    <2> QED
        BY <2>1, NoStep DEF StagesStep
<1>2. ASSUME NEW u \in User, NEW l \in DOMAIN link, NEW s \in Sub, DowngradeSave(u, l, s)
      PROVE  StagesStep
    <2>1. PICK row : /\ row.process_message = "none" /\ ~row.active
                     /\ Insert(row, "downgrade", l)
        BY <1>2, NewRowIsOpen DEF DowngradeSave
    <2>2. UNCHANGED <<charged, interrupted>>
        BY <1>2 DEF DowngradeSave, deathVars
    <2>3. Stages!Create(nextId)
        BY <2>1, <2>2, InsertCreates DEF StagesInv
    <2>4. nextId \in LinkId
        BY <2>1, StartAssumption DEF Insert, CanInsert, StagesInv, TypeOK, TableOK, LinkId
    <2> QED
        BY <2>3, <2>4 DEF StagesStep, Stages!Next
<1> QED
    BY <1>1, <1>2 DEF Request

LEMMA NextIsStep ==
    ASSUME StagesInv, Workers = {}, [Next]_vars
    PROVE  StagesStep
<1>1. CASE UNCHANGED <<link, charged, origin, interrupted>>
    BY <1>1, NoStep DEF StagesStep
<1> QED
    BY <1>1, CronIsStep, RequestIsStep
       DEF Next, Tick, CronAct, WorkerAct, vars, tableVars, deathVars

LEMMA InitIsInit == Init => Stages!Init
<1> SUFFICES ASSUME Init PROVE Stages!Init
    OBVIOUS
<1>1. /\ DOMAIN link = 1..Len(Owner) /\ DOMAIN origin = 1..Len(Owner)
      /\ charged \subseteq 1..Len(Owner)
      /\ \A l \in DOMAIN link : /\ link[l].process_message = "none"
                                /\ link[l].active <=> l \in charged
      /\ \A i \in DOMAIN origin : origin[i].via = "register"
      /\ interrupted = {}
    <2>1. PICK sub \in [1..Len(Owner) -> Sub],
               kind \in [1..Len(Owner) -> {"trial", "subscription"}],
               paid \in SUBSET (1..Len(Owner)) :
            /\ link = [i \in 1..Len(Owner) |->
                         [NewRow(Owner[i], sub[i], Start, Start + SignupDays(sub[i], kind[i]))
                            EXCEPT !.active = (i \in paid)]]
            /\ charged = paid
            /\ origin = [i \in 1..Len(Owner) |-> [via |-> "register", of |-> NoLink]]
            /\ nextId = Len(Owner) + 1
            /\ deaths = 0 /\ interrupted = {}
        BY DEF Init, InitTable
    <2>2. ASSUME NEW u, NEW s, NEW from, NEW to, NEW b \in BOOLEAN
          PROVE  LET row == [NewRow(u, s, from, to) EXCEPT !.active = b] IN
                 row.process_message = "none" /\ (row.active <=> b)
        <3>1. CASE b = TRUE
            BY <3>1 DEF NewRow
        <3>2. CASE b = FALSE
            BY <3>2 DEF NewRow
        <3> QED
            BY <3>1, <3>2
    <2>3. ASSUME NEW l \in 1..Len(Owner)
          PROVE  link[l].process_message = "none" /\ (link[l].active <=> l \in paid)
        <3> DEFINE b == l \in paid
        <3>1. b \in BOOLEAN /\ link[l] =
                [NewRow(Owner[l], sub[l], Start, Start + SignupDays(sub[l], kind[l]))
                    EXCEPT !.active = b]
            BY <2>1
        <3> HIDE DEF b
        <3>2. link[l].process_message = "none" /\ (link[l].active <=> b)
            BY <2>2, <3>1
        <3> QED
            BY <3>2 DEF b
    <2> QED
        BY <2>1, <2>3
<1>2. 1..Len(Owner) \subseteq LinkId
    BY StartAssumption DEF LinkId
<1>3. \A k \in LinkId : /\ StageOf(k) = IF k \in 1..Len(Owner) THEN "open" ELSE "absent"
                        /\ RenewalOf(k) = NoLink
    BY <1>1 DEF StageOf, RenewalOf, ExpiredMessage, NotifyMessage
<1>4. {l \in DOMAIN link : link[l].active} = charged
    BY <1>1
<1>5. charged \subseteq {l \in LinkId : StageOf(l) = "open"}
    BY <1>1, <1>2, <1>3
<1> QED
    BY <1>1, <1>3, <1>4, <1>5 DEF Stages!Init

(***************************************************************************)
(* The refinement                                                          *)
(***************************************************************************)

\* While requests pay for nothing, any behaviour in which no two runs are ever
\* in progress together keeps what LinkStages promises.
THEOREM StagesWithoutOverlap ==
    ASSUME Workers = {}
    PROVE  Spec /\ []~overlapped => ImplementsStages
<1>1. TypeOK /\ BillingInv /\ OneRunInv /\ ClosedIsOff /\ RefusedLeavesNoLink
        /\ RenewalsArePaid /\ ~overlapped /\ [Next]_vars => [Stages!Next]_(Stages!vars)
    <2> SUFFICES ASSUME TypeOK, BillingInv, OneRunInv, ClosedIsOff, RefusedLeavesNoLink,
                        RenewalsArePaid, ~overlapped, [Next]_vars
                 PROVE  StagesStep
        BY DEF StagesStep
    <2>1. StagesInv
        BY DEF StagesInv, OneRunInv, ClosedIsOff, Off
    <2> QED
        BY <2>1, NextIsStep
<1> QED
    BY <1>1, InitIsInit, InvHolds, OneRunHolds, ClosedStaysOff, RefusedIsDeleted,
       RenewalIsPaid, PTL DEF Spec, ImplementsStages, Stages!Spec

\* With one cron process no two runs are ever in progress, so that Billing
\* implements LinkStages (ImplementsStages, for every value of the other
\* constants).
THEOREM StagesOfOneCron ==
    ASSUME Workers = {}, \A c, d \in Crons : c = d
    PROVE  Spec => ImplementsStages
<1>1. Init => ~overlapped
    BY DEF Init, InitCron
<1>2. ~overlapped /\ [Next]_vars => ~overlapped'
    <2> SUFFICES ASSUME ~overlapped, [Next]_vars PROVE ~overlapped'
        OBVIOUS
    <2>1. ASSUME NEW c \in Crons, CronStep(c) \/ CronDie(c) PROVE ~overlapped'
        <3>1. CASE CronStart(c)
            BY <3>1 DEF CronStart
        <3>2. CASE UNCHANGED overlapped
            BY <3>2
        <3>3. CronStart(c) \/ UNCHANGED overlapped
            BY <2>1 DEF CronStep, CronClassify, CronNotify, CronClose, CronDowngrade, CronRenew,
                CronBeginActions, CronSwitchOn, CronPay, CronSettle, CronActivate, CronDiscard,
                CronMark, CronRowGone, CronFinish, CronDie
        <3> QED
            BY <3>1, <3>2, <3>3
    <2> QED
        BY <2>1 DEF Next, Tick, CronAct, WorkerAct, vars, cronVars
<1> QED
    BY <1>1, <1>2, StagesWithoutOverlap, PTL DEF Spec

=============================================================================
