------------------------- MODULE CronSubscriptions -------------------------
(***************************************************************************)
(* The cron run of Helpers::Cron::Subscriptions: list the links about to   *)
(* end or ended, classify each, act on each (renew, start a downgrade,     *)
(* close), and mark each row.  The list is a copy of the rows made when    *)
(* the run starts; every later decision about a listed link reads the      *)
(* copy.  A DBIx::Class update writes only the columns that differ from    *)
(* the copy.  Several runs may overlap, and a run may die at any step.     *)
(***************************************************************************)
EXTENDS LinkTable

CONSTANT Crons   \* cron processes that may be running at the same time

VARIABLES
    cron,        \* progress of each cron process
    handled,     \* handled_subscriptions: the list each process works on
    lastRun,     \* when the latest run was started
    overlapped   \* history: two runs have been in progress at once

cronVars == <<cron, handled, lastRun, overlapped>>

AlertBefore == Day

CronPC == {"idle", "classify", "act", "switch", "pay", "paid", "declined", "settled",
           "mark"}

\* An element of the list: the row as loaded, and the message decided for it.
Element == [subscription : Row, process_message : Message]

\* at is the run's datetime, todo the elements the current loop has not passed,
\* cur the element it is on, new the link created to renew that one and found
\* the downgrade to be switched on in its place.
CronState == [pc : CronPC, at : Nat, todo : SUBSET LinkId, cur : LinkId \cup {NoLink},
              new : LinkId \cup {NoLink}, found : LinkId \cup {NoLink}]

IdleCron == [pc |-> "idle", at |-> 0, todo |-> {}, cur |-> NoLink, new |-> NoLink,
             found |-> NoLink]
NoElements == [l \in {} |-> NoLink]

Running(c) == cron[c].pc # "idle"

InitCron ==
    /\ cron = [c \in Crons |-> IdleCron]
    /\ handled = [c \in Crons |-> NoElements]
    /\ lastRun = 0
    /\ overlapped = FALSE

(***************************************************************************)
(* The list                                                                *)
(***************************************************************************)

Handled_NotYet(t) ==   \* fault: announced links are not listed again
    {l \in DueBy(t + AlertBefore) : link[l].process_message = "none"}

\* The search of handled subscriptions: every link that ends within
\* AlertBefore, already processed or not.
Handled(t) == DueBy(t + AlertBefore)

\* The copy of a row; its cancelled flag is never read, and is left out.
CopyOf(row) == [row EXCEPT !.cancelled = FALSE]

\* Bound: runs start in different ticks.  crontab starts them hours apart, and a
\* tick is as fine as Day makes it.  At the last tick they go on starting, so that
\* what the clock's bound leaves undone is not counted against them.
CronStart(c) ==
    /\ ~Running(c)
    /\ lastRun < now \/ now = MaxTime
    /\ handled' = [handled EXCEPT ![c] = [l \in Handled(now) |->
                     [subscription |-> CopyOf(link[l]), process_message |-> "none"]]]
    /\ cron' = [cron EXCEPT ![c] = [pc |-> "classify", at |-> now,
                  todo |-> Handled(now), cur |-> NoLink, new |-> NoLink,
                  found |-> NoLink]]
    /\ lastRun' = now
    /\ overlapped' = (overlapped \/ \E d \in Crons : Running(d))
    /\ UNCHANGED <<tableVars, deathVars>>

(***************************************************************************)
(* The classification of one element                                       *)
(***************************************************************************)

InTrial(row, t) == TrialPeriod[row.sub] > 0 /\ t < row.from + TrialPeriod[row.sub]

Classification_OnceAnnounced(row, t) ==   \* fault: announced counts as ended
    IF row.to <= t \/ row.process_message \in NotifyMessage THEN "expired"
    ELSE "notify_auto_renew"

Classification_DowngradeFirst(row, t) ==   \* fault: end date tested last
    IF Downgrades(row.user, t) # {} THEN "notify_downgrading"
    ELSE IF row.to <= t THEN "expired"
    ELSE "notify_auto_renew"

Classification(row, t) ==
    CASE row.to <= t -> "expired"
      [] row.to > t /\ InTrial(row, t) -> "notify_expiring_trial_period"
      [] row.to > t /\ ~InTrial(row, t) ->
            IF Downgrades(row.user, t) # {} THEN "notify_downgrading"
            ELSE IF AutoRenew[row.sub] THEN "notify_auto_renew"
            ELSE "notify_expiring_subscription"

CronClassify(c, l) ==
    /\ cron[c].pc = "classify"
    /\ l \in cron[c].todo
    /\ handled' = [handled EXCEPT ![c][l].process_message =
                     Classification(handled[c][l].subscription, cron[c].at)]
    /\ cron' = [cron EXCEPT ![c].todo = @ \ {l}]
    /\ UNCHANGED <<tableVars, lastRun, overlapped, deathVars>>

CronBeginActions(c) ==
    /\ cron[c].pc = "classify"
    /\ cron[c].todo = {}
    /\ cron' = [cron EXCEPT ![c].pc = "act", ![c].todo = DOMAIN handled[c]]
    /\ UNCHANGED handled
    /\ UNCHANGED <<tableVars, lastRun, overlapped, deathVars>>

(***************************************************************************)
(* The action on one element                                               *)
(***************************************************************************)

\* Element l is the one being worked on, and its message becomes m.
Take(c, l, m, pc, new, found) ==
    /\ cron' = [cron EXCEPT ![c].pc = pc, ![c].cur = l, ![c].new = new,
                            ![c].found = found]
    /\ handled' = [handled EXCEPT ![c][l].process_message = m]

Copy(c, l) == handled[c][l].subscription
Planned(c, l) == handled[c][l].process_message
PrevStage(c, l) == Copy(c, l).process_message

ActsOn(c, l) == cron[c].pc = "act" /\ l \in cron[c].todo

\* About to expire: nothing to do before the mark.
CronNotify(c, l) ==
    /\ ActsOn(c, l)
    /\ Planned(c, l) \in NotifyMessage
    /\ Take(c, l, Planned(c, l), "mark", NoLink, NoLink)
    /\ UNCHANGED <<tableVars, lastRun, overlapped, deathVars>>

\* Expired, and the earlier stage asks for nothing more than switching off:
\* announced as closing, never announced, or already processed.
CronClose(c, l) ==
    /\ ActsOn(c, l)
    /\ Planned(c, l) = "expired"
    /\ PrevStage(c, l) \in {"none", "notify_expiring_subscription"} \cup ExpiredMessage
    /\ Take(c, l, IF PrevStage(c, l) = "notify_expiring_subscription"
                  THEN "expired_subscription" ELSE "expired", "mark", NoLink, NoLink)
    /\ UNCHANGED <<tableVars, lastRun, overlapped, deathVars>>

\* Expired, a downgrade was announced: look for it, and go on to the mark if
\* there is none any more.
CronDowngrade(c, l) ==
    /\ ActsOn(c, l)
    /\ Planned(c, l) = "expired"
    /\ PrevStage(c, l) = "notify_downgrading"
    /\ LET waiting == Downgrades(Copy(c, l).user, cron[c].at)
       IN  \/ waiting = {} /\ Take(c, l, "expired_downgraded", "mark", NoLink, NoLink)
           \/ \E d \in waiting : Take(c, l, "expired_downgraded", "switch", NoLink, d)
    /\ UNCHANGED <<tableVars, lastRun, overlapped, deathVars>>

\* The downgrade that was found is switched on, whatever its row says by now.
CronSwitchOn(c) ==
    /\ cron[c].pc = "switch"
    /\ cron[c].found \in DOMAIN link
    /\ SetActive(cron[c].found, TRUE)
    /\ cron' = [cron EXCEPT ![c].pc = "mark", ![c].found = NoLink]
    /\ UNCHANGED <<nextId, charged, origin, handled, lastRun, overlapped, deathVars>>

RenewStage_Misspelt ==   \* fault: a message no later stage knows
    [notify_expiring_trial_period |-> "expired_trial",
     notify_auto_renew |-> "expired_renewal"]

RenewStage == [notify_expiring_trial_period |-> "expired_trial",
               notify_auto_renew |-> "expired_auto_renew"]

\* Expired, a renewal was announced: create the next period and go on to pay
\* for it, or fail to create it and go on to the mark.
CronRenew(c, l) ==
    /\ ActsOn(c, l)
    /\ Planned(c, l) = "expired"
    /\ PrevStage(c, l) \in DOMAIN RenewStage
    /\ LET old == Copy(c, l)
           row == NewRow(old.user, old.sub, cron[c].at, cron[c].at + Period[old.sub])
       IN  \/ /\ Insert(row, "renewal", l)
              /\ Take(c, l, RenewStage[PrevStage(c, l)], "pay", nextId, NoLink)
           \/ /\ Take(c, l, RenewStage[PrevStage(c, l)], "mark", NoLink, NoLink)
              /\ UNCHANGED <<link, nextId, origin>>
    /\ UNCHANGED <<charged, lastRun, overlapped, deathVars>>

CronPay(c) ==
    /\ cron[c].pc = "pay"
    /\ \/ Charge(cron[c].new) /\ cron' = [cron EXCEPT ![c].pc = "paid"]
       \/ cron' = [cron EXCEPT ![c].pc = "declined"] /\ UNCHANGED charged
    /\ UNCHANGED <<link, nextId, origin, handled, lastRun, overlapped, deathVars>>

\* The gateway helper switches the paid link on, then pay() returns 1.
CronSettle(c) ==
    /\ cron[c].pc = "paid"
    /\ SetActive(cron[c].new, TRUE)
    /\ cron' = [cron EXCEPT ![c].pc = "settled"]
    /\ UNCHANGED <<nextId, charged, origin, handled, lastRun, overlapped, deathVars>>

\* The caller of pay() switches it on again through its own copy of the row.
CronActivate(c) ==
    /\ cron[c].pc = "settled"
    /\ SetActive(cron[c].new, TRUE)
    /\ cron' = [cron EXCEPT ![c].pc = "mark"]
    /\ UNCHANGED <<nextId, charged, origin, handled, lastRun, overlapped, deathVars>>

\* Payment refused: the new row goes away.
CronDiscard(c) ==
    /\ cron[c].pc = "declined"
    /\ Delete(cron[c].new)
    /\ cron' = [cron EXCEPT ![c].pc = "mark"]
    /\ UNCHANGED <<nextId, charged, origin, handled, lastRun, overlapped, deathVars>>

(***************************************************************************)
(* The mark: an update through the copy, which writes the columns that     *)
(* differ from the copy and leaves the others as they are in the table.    *)
(***************************************************************************)

Marked_Once(row, copy, m) ==   \* fault: a message is written over none only
    [row EXCEPT
        !.process_message = IF copy.process_message = "none" THEN m ELSE @,
        !.active = IF m \in ExpiredMessage /\ copy.active THEN FALSE ELSE @]

Marked_AnyMessage(row, copy, m) ==   \* fault: a notice switches off too
    [row EXCEPT
        !.process_message = IF m = copy.process_message THEN @ ELSE m,
        !.active = IF copy.active THEN FALSE ELSE @]

Marked_StillOn(row, copy, m) ==   \* fault: nothing is switched off
    [row EXCEPT !.process_message = IF m = copy.process_message THEN @ ELSE m]

Marked(row, copy, m) ==
    [row EXCEPT
        !.process_message = IF m = copy.process_message THEN @ ELSE m,
        !.active = IF m \in ExpiredMessage /\ copy.active THEN FALSE ELSE @]

\* On to the next element; the one that is done is not looked at again.
NextElement(c) ==
    LET todo == cron[c].todo \ {cron[c].cur} IN
    /\ cron' = [cron EXCEPT ![c].pc = "act", ![c].todo = todo,
                            ![c].cur = NoLink, ![c].new = NoLink]
    /\ handled' = [handled EXCEPT ![c] = [l \in todo |-> handled[c][l]]]

EndRun(c) ==
    /\ cron' = [cron EXCEPT ![c] = IdleCron]
    /\ handled' = [handled EXCEPT ![c] = NoElements]

CronMark(c) ==
    LET l == cron[c].cur IN
    /\ cron[c].pc = "mark"
    /\ l \in DOMAIN link
    /\ link' = [link EXCEPT ![l] =
                  Marked(link[l], Copy(c, l), Planned(c, l))]
    /\ NextElement(c)
    /\ UNCHANGED <<nextId, charged, origin, lastRun, overlapped, deathVars>>

\* The whole list is done; the alerts that follow change no row.
CronFinish(c) ==
    /\ cron[c].pc = "act"
    /\ cron[c].todo = {}
    /\ EndRun(c)
    /\ UNCHANGED <<tableVars, lastRun, overlapped, deathVars>>

\* The update of a row that another run has deleted throws: the run ends.
CronRowGone(c) ==
    /\ \/ cron[c].pc = "mark" /\ cron[c].cur \notin DOMAIN link
       \/ cron[c].pc = "switch" /\ cron[c].found \notin DOMAIN link
    /\ EndRun(c)
    /\ UNCHANGED <<tableVars, lastRun, overlapped, deathVars>>

CronDie(c) ==
    /\ Running(c)
    /\ Die({cron[c].new})
    /\ EndRun(c)
    /\ UNCHANGED <<tableVars, lastRun, overlapped>>

CronStep(c) ==
    \/ CronStart(c)
    \/ \E l \in cron[c].todo :
          \/ CronClassify(c, l)
          \/ CronNotify(c, l)
          \/ CronClose(c, l)
          \/ CronDowngrade(c, l)
          \/ CronRenew(c, l)
    \/ CronBeginActions(c)
    \/ CronSwitchOn(c)
    \/ CronPay(c)
    \/ CronSettle(c)
    \/ CronActivate(c)
    \/ CronDiscard(c)
    \/ CronMark(c)
    \/ CronRowGone(c)
    \/ CronFinish(c)

CronOK ==
    /\ cron \in [Crons -> CronState]
    /\ handled = [c \in Crons |-> handled[c]]
    /\ \A c \in Crons : /\ handled[c] \in [DOMAIN handled[c] -> Element]
                       /\ DOMAIN handled[c] \subseteq LinkId
    /\ lastRun \in Nat
    /\ overlapped \in BOOLEAN

=============================================================================
