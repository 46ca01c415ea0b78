--------------------------- MODULE BillingStages ---------------------------
(***************************************************************************)
(* Billing implements LinkStages while the cron runs one at a time and no  *)
(* request pays: the stage of a link is read off its row, the rest off the *)
(* history.                                                                *)
(***************************************************************************)
EXTENDS Billing

\* A row's message tells its stage; an id that was used and has no row was
\* deleted.
StageOf(l) ==
    IF l \notin DOMAIN origin THEN "absent"
    ELSE IF l \notin DOMAIN link THEN "deleted"
    ELSE IF link[l].process_message \in ExpiredMessage THEN "closed"
    ELSE IF link[l].process_message \in NotifyMessage THEN "announced"
    ELSE "open"

RenewalOf(l) ==
    IF l \in DOMAIN origin /\ origin[l].via = "renewal" THEN origin[l].of ELSE NoLink

Stages == INSTANCE LinkStages WITH
    Links    <- LinkId,
    None     <- NoLink,
    stage    <- [l \in LinkId |-> StageOf(l)],
    renewal  <- [l \in LinkId |-> RenewalOf(l)],
    paid     <- charged,
    on       <- {l \in DOMAIN link : link[l].active},
    cutShort <- interrupted

\* While requests pay for nothing and no two runs are in progress, a period
\* marked expired is off, and so will one be that the run in progress is about
\* to mark: nothing that has ended is switched on again.
ClosedIsOff ==
    Workers = {} /\ ~overlapped =>
        /\ \A l \in DOMAIN link :
              link[l].process_message \in ExpiredMessage => ~link[l].active
        /\ \A c \in Crons : \A l \in DOMAIN handled[c] :
              link[l].active /\ Copy(c, l).to <= cron[c].at => Copy(c, l).active

\* The steps of a cron run, its deaths and the requests that change one row
\* add up to the life of a period: every database statement or payment is one
\* step of LinkStages or none (_classify_subscriptions, _do_planned_actions
\* and _add_link_subscription together).
ImplementsStages == Stages!Spec

=============================================================================
