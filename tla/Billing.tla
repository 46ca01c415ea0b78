------------------------------ MODULE Billing ------------------------------
(***************************************************************************)
(* The cron runs and the web requests over one link table, and time.       *)
(***************************************************************************)
EXTENDS CronSubscriptions, SubscriptionActions

vars == <<now, link, nextId, charged, origin, deaths, interrupted,
          cron, handled, lastRun, overlapped, worker, replaced>>

Init ==
    /\ now = Start
    /\ InitTable
    /\ InitCron
    /\ InitWorkers

Tick ==
    /\ now < MaxTime
    /\ now' = now + 1
    /\ UNCHANGED <<tableVars, deathVars, cronVars, workerVars>>

CronAct(c) == CronStep(c) /\ UNCHANGED <<now, workerVars>>
WorkerAct(w) == WorkerStep(w) /\ UNCHANGED <<now, cronVars>>

Next ==
    \/ Tick
    \/ \E c \in Crons : CronAct(c)
    \/ \E c \in Crons : CronDie(c) /\ UNCHANGED <<now, workerVars>>
    \/ \E w \in Workers : WorkerAct(w)
    \/ \E w \in Workers : WorkerDie(w) /\ UNCHANGED <<now, cronVars>>
    \/ Request /\ UNCHANGED <<now, cronVars>>

Spec == Init /\ [][Next]_vars

\* Time passes; crontab keeps starting the run and a run that is not killed
\* goes on; a request being served goes on.  Users promise nothing.
Fairness ==
    /\ WF_vars(Tick)
    /\ \A c \in Crons : WF_vars(CronAct(c))
    /\ \A w \in Workers : WF_vars(WorkerAct(w))

FairSpec == Spec /\ Fairness

TypeOK == TableOK /\ CronOK /\ WorkersOK /\ now \in Start..MaxTime

(***************************************************************************)
(* Safety                                                                  *)
(***************************************************************************)

\* Nobody pays twice to renew the same period: two links charged for as the
\* renewal of one link mean that a process died between creating the first and
\* marking the renewed link, or that two runs were in progress together
\* (_do_planned_actions, the mark being a separate update after the payment).
RenewedOnce ==
    \A l \in DOMAIN origin : \A i, j \in Renewals(l) \cap charged :
        i = j \/ overlapped \/ i \in interrupted \/ j \in interrupted

\* A link the cron created to renew another is switched on only when the card
\* was charged for it; in particular a renewal still being paid for, or left
\* behind by a run that died, is never taken for a downgrade waiting to start.
RenewalsArePaid ==
    \A i \in DOMAIN link :
        origin[i].via = "renewal" /\ link[i].active => i \in charged \/ overlapped

\* The process now paying for link i or switching it on.
InPayment(i) ==
    \/ \E c \in Crons : cron[c].new = i /\ cron[c].pc = "paid"
    \/ \E w \in Workers : worker[w].new = i /\ worker[w].pc = "paid"

\* What was paid for can be used until its end date: its row exists and is
\* active, unless an upgrade replaced it, the payment is being settled, or the
\* process died before it could switch the link on.
ServedWhilePaid ==
    \A i \in charged :
        /\ i \in DOMAIN link
        /\ \/ link[i].active
           \/ link[i].to <= now
           \/ i \in replaced
           \/ InPayment(i)
           \/ i \in interrupted

\* A renewal that was refused leaves nothing behind: a link created by the
\* cron and not charged for is the one being worked on, or a dead run left it.
RefusedLeavesNoLink ==
    \A i \in DOMAIN link :
        origin[i].via = "renewal" =>
            \/ i \in charged
            \/ i \in interrupted
            \/ \E c \in Crons : cron[c].new = i

(***************************************************************************)
(* The invariant behind the safety properties                              *)
(***************************************************************************)

PayingPC == {"pay", "paid", "declined", "settled"}

\* A run works on elements of its own list, which are links that were created,
\* and while it pays for a link that link is its own: it is there, no other run
\* has it, and it is charged for exactly when the run knows so.
OwnsNew(c) ==
    LET p == cron[c] IN
    /\ p.todo \subseteq DOMAIN handled[c]
    /\ DOMAIN handled[c] \subseteq DOMAIN origin
    /\ p.pc \in {"idle", "classify", "act", "switch"} => p.new = NoLink
    /\ p.pc \in PayingPC \cup {"switch", "mark"} => p.cur \in p.todo
    /\ p.pc \in PayingPC => p.new \in DOMAIN link
    /\ p.pc \in {"pay", "declined"} => p.new \notin charged
    /\ p.pc \in {"paid", "settled"} => p.new \in charged
    /\ p.pc = "mark" => p.new \in charged \/ p.new \notin DOMAIN link
    /\ p.new # NoLink =>
          /\ p.new \in DOMAIN origin /\ origin[p.new].via = "renewal"
          /\ \A d \in Crons : d # c => cron[d].new # p.new

\* End dates never change, so the copy of a listed link has the right one; and
\* an element is classified as expired only when that date has come.
ListIsCurrent(c) ==
    /\ cron[c].at <= now
    /\ \A l \in DOMAIN handled[c] : LET e == handled[c][l] IN
          /\ l \in DOMAIN link => link[l].to = e.subscription.to
          /\ e.process_message \in ExpiredMessage =>
                e.subscription.to <= cron[c].at

\* The downgrade that a run has found and is about to switch on starts no
\* earlier than the run; that never changes.
FoundWaits(c) ==
    LET d == cron[c].found IN
    cron[c].pc = "switch" =>
        /\ d \in DOMAIN origin
        /\ d \in DOMAIN link => link[d].from >= cron[c].at

\* The link a request pays for is there, and is no run's renewal.
PaysForOwn(w) ==
    /\ worker[w].pc = "create" => worker[w].new = NoLink
    /\ worker[w].pc \notin {"idle", "create"} =>
          /\ worker[w].new \in DOMAIN link
          /\ origin[worker[w].new].via # "renewal"

BillingInv ==
    /\ \A c \in Crons : OwnsNew(c) /\ ListIsCurrent(c) /\ FoundWaits(c)
    /\ \A w \in Workers : PaysForOwn(w)

(***************************************************************************)
(* What holds besides, and more of it while no two runs are in progress    *)
(***************************************************************************)

\* Element l of the run's list has been classified.
Decided(c, l) == cron[c].pc # "classify" \/ l \notin cron[c].todo

\* A period ends after it starts, and is marked expired only once it has ended.
RowDates(l) ==
    /\ link[l].from < link[l].to
    /\ link[l].process_message \in ExpiredMessage => link[l].to <= lastRun

\* A renewal starts when the run that created it did.
RenewalDates(i) ==
    origin[i].via = "renewal" =>
        /\ link[i].from <= lastRun
        /\ i \in interrupted => link[i].from < MaxTime

\* What the list says was marked expired has ended, and what a run has decided
\* to mark expired is exactly what has ended.
ListFollowsDates(c) ==
    /\ cron[c].at <= lastRun
    /\ \A l \in DOMAIN handled[c] :
          /\ PrevStage(c, l) \in ExpiredMessage => Copy(c, l).to <= cron[c].at
          /\ Decided(c, l) =>
                /\ Planned(c, l) \in ExpiredMessage <=> Copy(c, l).to <= cron[c].at
                /\ Planned(c, l) # "none"

\* The link a run pays for renews the element it is on, which was announced
\* for renewal and has ended.
PaysForElement(c) ==
    LET p == cron[c] IN
    p.new # NoLink =>
        /\ origin[p.new].of = p.cur
        /\ PrevStage(c, p.cur) \in DOMAIN RenewStage
        /\ Planned(c, p.cur) \in ExpiredMessage

DatesInv ==
    /\ lastRun <= now
    /\ \A l \in DOMAIN link : RowDates(l) /\ RenewalDates(l)
    /\ \A c \in Crons : ListFollowsDates(c) /\ PaysForElement(c)

\* The list of a run alone still has the messages of the table; the link it
\* pays for is not on that list, and nobody has announced it.
ListIsTable(c) ==
    /\ IF Running(c) THEN cron[c].at = lastRun ELSE DOMAIN handled[c] = {}
    /\ \A l \in DOMAIN handled[c] :
          l \in DOMAIN link /\ link[l].process_message = PrevStage(c, l)
    /\ cron[c].new \notin DOMAIN handled[c]
    /\ cron[c].new \in DOMAIN link =>
          link[cron[c].new].process_message = "none"

\* A renewal that was paid for is still being worked on, or what it renews is
\* marked expired.
RenewalCloses(i) ==
    origin[i].via = "renewal" =>
        \/ \E c \in Crons : cron[c].new = i
        \/ /\ origin[i].of \in DOMAIN link
           /\ link[origin[i].of].process_message \in ExpiredMessage

\* A renewal left by a run that died started before the run in progress.
StartedBefore(i) ==
    origin[i].via = "renewal" =>
        \A c \in Crons : Running(c) => link[i].from < cron[c].at

OneRun ==
    /\ \A c, d \in Crons : Running(c) /\ Running(d) => c = d
    /\ \A c \in Crons : ListIsTable(c)
    /\ \A i \in charged \ interrupted : RenewalCloses(i)
    /\ \A i \in DOMAIN link \cap interrupted : StartedBefore(i)

\* While no two runs are in progress, the marks in the table tell each run what
\* the earlier ones have paid for: what the safety of renewals rests on
\* (_classify_subscriptions, _do_planned_actions).
OneRunInv == DatesInv /\ (overlapped \/ OneRun)

(***************************************************************************)
(* Action properties                                                       *)
(***************************************************************************)

\* A card is charged for a renewal only after the renewed link's end date, and
\* while the table still carries the notice of an earlier run: no link is
\* renewed that was never announced, or that was already marked expired.
RenewalFollowsNotice ==
    [][\A i \in charged' \ charged :
          origin[i].via = "renewal" /\ ~overlapped =>
             LET l == origin[i].of IN
             /\ l \in DOMAIN link
             /\ link[l].to <= now
             /\ link[l].process_message \in DOMAIN RenewStage]_vars

\* A link marked expired stays expired: no later run announces it again.
ExpiredIsFinal ==
    [][\A l \in DOMAIN link :
          /\ ~overlapped'
          /\ link[l].process_message \in ExpiredMessage
          /\ l \in DOMAIN link'
          => link'[l].process_message \in ExpiredMessage]_vars

(***************************************************************************)
(* Liveness                                                                *)
(***************************************************************************)

\* A link past its end date is switched off sooner or later (or deleted).
EndedIsClosed ==
    \A l \in LinkId :
        (l \in DOMAIN link /\ link[l].to <= now)
            ~> ~(l \in DOMAIN link /\ link[l].active)

\* Every announcement is followed up: an announced link that ends before the
\* clock's bound is marked expired.
NoticeIsFollowed ==
    \A l \in LinkId :
        (/\ l \in DOMAIN link
         /\ link[l].to <= MaxTime
         /\ link[l].process_message \in NotifyMessage)
            ~> (l \in DOMAIN link => link[l].process_message \in ExpiredMessage)

(***************************************************************************)
(* What the repository says of itself, and the code does not do            *)
(***************************************************************************)

\* "only pick up the subscriptions that are not already processed": a run does
\* not work on a link that an earlier run has marked expired.
ProcessedNotPickedUp ==
    [][\A c \in Crons : ~Running(c) /\ cron'[c].pc # "idle" =>
          \A l \in DOMAIN handled'[c] :
             link[l].process_message \notin ExpiredMessage]_vars

\* "Payment completed successfully for link subscription": a link created by
\* an upgrade or a renewal request, and kept, has been paid for.
KeptIsPaid ==
    \A i \in DOMAIN link :
        origin[i].via \in {"upgrade", "renew"} /\ link[i].active => i \in charged

\* "Payment will de done when the current subscription ends": a downgrade that
\* was switched on has been paid for.
DowngradeIsPaid ==
    \A i \in DOMAIN link :
        origin[i].via = "downgrade" /\ link[i].active => i \in charged

\* The links that are on, were cancelled, and have not come to their end date.
CancelledInTime ==
    {l \in DOMAIN link : link[l].active /\ link[l].cancelled /\ now < link[l].to}

\* "The current subscription for this user was cancelled": the card is never
\* charged afterwards to renew a link that was cancelled before its end date came.
CancelledNotRenewed ==
    \A l \in LinkId : [](l \in CancelledInTime => [](Renewals(l) \cap charged = {}))

=============================================================================
