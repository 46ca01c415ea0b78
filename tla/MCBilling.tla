----------------------------- MODULE MCBilling -----------------------------
(***************************************************************************)
(* Values for the constants of Billing.  Two ticks make a day, so that the *)
(* one-day notice window holds several cron runs.                          *)
(***************************************************************************)
EXTENDS BillingStages

CONSTANT u1   \* a user

OneOwner == <<u1>>

\* The catalogue: renewed automatically, renewed after a trial, or closing.
ThreeSubs == {"auto", "trial", "once"}
ThreePeriods == [auto |-> 2, trial |-> 3, once |-> 4]
ThreeTrials == [auto |-> 0, trial |-> 2, once |-> 0]
ThreeRenewals == [auto |-> TRUE, trial |-> FALSE, once |-> FALSE]

\* Only the first of them, for the runs with more processes.
OneSub == {"auto"}
OnePeriod == [auto |-> 2]
NoTrial == [auto |-> 0]
Renewing == [auto |-> TRUE]
NoSub == {}

=============================================================================
