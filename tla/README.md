# A verification of Chargemonk

Chargemonk is a subscription-billing application: a Catalyst web application
(several Starman worker processes) and a cron script, both working through
DBIx::Class on one database, without transactions or row locks. This directory
holds TLA+ modules that model its core, the TLC runs that check them, and
proofs that TLAPS checks. `PROJECT.json` lists the runs, the source lines each
definition stands for, the hazards and the theorems.

Paths below are relative to `src/lib/Chargemonk/`.

## 1. Inventory

| Component | State | Operations | What makes it correct |
|---|---|---|---|
| Link table (`Schema/Result/LinkUserSubscription.pm`) | one row per user and period: dates, `active`, `cancelled`, `process_message` | created by registration, requests and cron; updated by requests, cron and gateways; deleted after a refused payment | what is paid is usable; what is not paid leaves nothing behind |
| Subscription cron (`Helpers/Cron/Subscriptions.pm`) | the list of handled links, copied when the run starts | build list, classify, act (notify, close, renew, start a downgrade), mark, send alerts | one renewal per period, announced before, never for a link already expired; every ended link is closed |
| Subscription requests (`Controller/Common/SubscriptionActions.pm`) | rows held by one request | cancel, upgrade, downgrade, renew | a link kept was paid; the upgraded link goes off, the new one on |
| Gateway helpers (`Helpers/Gateways/*.pm`) | customers, invoices, failed transactions | `pay`, `add_user_and_pay`, `delete_user` | a charge leads to an invoice and to an active link |
| Registration (`Controller/Register*.pm`, `Controller/API/Subscriptions.pm`, `Helpers/Visitor/Registration.pm`) | users, links, registration tokens | register, confirm the e-mail, pay | one payment per token; one user per address |
| Discount campaigns (`Controller/Admin/Subscriptions/Tabs.pm`, `Schema/Result/{Campaign,Code}.pm`) | campaigns, codes with user and redeem date | create campaign, generate codes, redeem | a code is redeemed once; a discount never raises a price |
| Period users, IP ranges (`Controller/User/Manage_*.pm`, `Controller/Admin/Manage_*.pm`) | rows under a link | add, edit | active period users never exceed the limit of the link |
| Accounts (`Controller/Visitor.pm`, `Helpers/Admin/UserDetails.pm`) | users, password tokens | log in, forgot password, set password, delete user | a token sets a password once |
| Themes (`Controller/Admin/Themes.pm`) | themes, one of them active | add, delete, activate | one theme is active |
| Catalogue (`Controller/Admin/Subscriptions*`) | subscriptions, groups, features, upgrade and downgrade lists | add, edit, import features, order | an edit is complete or absent, and asks for what the form shows |
| Amounts (`calculate_reminder`, `amount_with_discount`, `Helpers/Common/DateTime.pm`) | none of their own: prices, periods and end dates of the moment | computed for a page, and again for the form sent from it | a charge is what was quoted; credit is backed by payments |
| Statistics, pages, settings, profiles, mail, logging, views | none, or one row written whole | read, or one write | not modelled |

How they interact. The subscription requests and the cron share the link table
and nothing else; registration and the payment form share it with them too, and
between themselves users, tokens, codes, customers and invoices. A gateway call is made from the middle of a handler; on success
the gateway helper itself switches the link on (through a row object of its
own), and its caller does so again. The cron's stages talk to one another over
days: `process_message`, left in the row by one run, tells a later run what to
do with it when its end date has come. The administrator's edits change the
prices and periods that pages, forms and gateway helpers each read anew. Themes,
password tokens and period users have tables of their own.

What is hard. Runs and requests interleave at every database call; a run that
takes long overlaps the next; a process may die between a charge and the update
that records it; a DBIx::Class update writes only the columns that differ from
the copy in memory, and the cron's copies are as old as the run; a run works
through its whole list twice (classify, then act) while the table moves on.
The administrator's handlers are chains of single statements, each of which may
fail, be overtaken by another request, or leave its work half done.
`PROJECT.json` lists each such hazard at its line with the properties that would
catch it.

## 2. Modules

| Module | Models |
|---|---|
| `LinkTable` | the rows, the queries both sides make, the updates, the charge |
| `CronSubscriptions` | a cron run, step by step; any number may be in progress (`Crons`) |
| `SubscriptionActions` | the four requests; any number of workers (`Workers`) |
| `Billing` | both over one table and one clock: `Spec`, `FairSpec`, all properties, the inductive invariant |
| `MCBilling` | values of the constants for TLC |
| `SignupTables` | the tables between a visitor and a paying customer, and the queries on them |
| `Registration` | the registration form, statement by statement (`Forms`) |
| `GatewayPayment` | the payment form and `add_user_and_pay` of the three gateway helpers (`Payers`) |
| `Signup`, `MCSignup` | both over the same tables: `Spec`, the properties; values for TLC |
| `LinkStages` | abstract: the life of a period, announced, ended, renewed or closed |
| `BillingStages` | `Billing` as an implementation of `LinkStages` |
| `PriceList` | abstract: what payments see of the administrator's edits |
| `Amounts`, `MCAmounts` | what upgrades and renewals are quoted and charged, over `PriceList` |
| `Catalogue` | saving and editing subscriptions, statement by statement (`EditRequests`) |
| `Themes` | adding, deleting and activating themes: files and rows (`ThemeRequests`) |
| `PasswordTokens` | mailed tokens and the form that sets a password (`TokenRequests`) |
| `PeriodUsers` | the period users of a link and their limit (`UsersRequests`) |
| `Administration`, `MCAdministration` | the last four together, `Catalogue` as an implementation of `PriceList`; values for TLC |
| `BillingTypes` | proof: each action keeps the types |
| `BillingInvariant` | proof: `Spec => [](TypeOK /\ BillingInv)`, `ServedWhilePaid`, `RefusedLeavesNoLink` |
| `BillingOneRun` | proof: `OneRunInv`, and from it the safety of renewals |
| `BillingRefinement` | proof: `ClosedIsOff` and `ImplementsStages` |
| `SignupProofs` | proof: the safety properties of `Signup` |
| `AmountsProofs` | proof: `CreditIsBacked`, `ChargedAsQuoted` |
| `CatalogueProofs` | proof: each step of an edit keeps `CatalogueOK` and `CatalogueInv`, and what it does to prices |
| `AdministrationProofs` | proof: the safety properties of `Administration`, and `ImplementsPriceList` |

### State

`link` is the table, a function from the ids present to rows; `nextId` its
auto-increment counter. `cron[c]` is the progress of a run: `at` is the
`datetime` attribute, `todo` the elements the current loop has not passed, `cur`
the element it is on, `new` the link it created and `found` the downgrade it is
about to switch on. `handled[c]` is `handled_subscriptions`: for each listed link the row as it was loaded and the
message decided for it. `worker[w]` is a request in progress. `charged`,
`origin`, `replaced`, `overlapped`, `deaths` and `interrupted` are history
variables: no guard reads them, except `deaths` for its bound.

### Actions of the cron and their code

| Action | Code (`Helpers/Cron/Subscriptions.pm`) |
|---|---|
| `CronStart` | `run`, `_build_handled_subscriptions` |
| `CronClassify`, `CronBeginActions` | `_classify_subscriptions`, one element at a time |
| `CronNotify`, `CronClose`, `CronDowngrade`, `CronRenew` | the branches of `_do_planned_actions`; `CronRenew` is the insert in `_add_link_subscription`, which may fail |
| `CronPay`, `CronSettle` | `pay()`: the sale, then the helper's `update({active => 1})` |
| `CronSwitchOn` | the update of the downgrade that the search of `CronDowngrade` found, whatever its row says by now |
| `CronActivate`, `CronDiscard` | after `pay()`: update, or delete |
| `CronMark` | the update at the end of the loop, through the copy (`Marked`) |
| `CronRowGone` | that update, or the one of a downgrade, throws because the row was deleted; nothing catches it |
| `CronFinish` | end of the list; the mails that follow change no row |
| `CronDie` | the process is killed, or dies of an exception nobody catches, at any step |

Each database call or payment is a step of its own, so runs and requests
interleave between any two of them. The order in which the database returns the
list is not specified, and neither is which of several downgrades comes first:
both are nondeterministic. Runs start in different ticks: crontab starts them hours
apart, and a tick is as short as `Day` makes it. At the last tick they go on
starting, so that nothing is left undone only because the clock stopped.

### Actions of the requests

`CancelSubscription` and `DowngradeSave` do one write, so they are one step.
`UpgradeSave` reads the link to be upgraded and `UpgradeCreate` creates the new one,
or cannot and the request ends; `RenewSave` creates its link in one step. Then
`WorkerPay`, `WorkerSettle`, `WorkerConclude` (the test of `has_errors`, and the
first update after it) and `WorkerActivate` follow. The handlers check nothing of
what the pages offer, and a page may be out of date or sent twice: the user, the link
and the subscription a request names are any. `UpgradeTo` and `DowngradeTo` bound
which subscriptions are asked for in an instance. `HasErrors` is false: `has_errors` applies its `grep` to the
1 or 0 that `? :` yields (see the finding of the run `kept`).

### Registration and first payment

A registration creates one user, one link and one token, so the three share an
id, and a user has one link here. An element of `Forms` or `Payers` is one
submission of a form with the process that handles it; a visitor who tries
again is another submission. Each database statement, and each call of the
gateway, is a step.

| Action | Code |
|---|---|
| `FormSubmit` | the validation rules of `Controller/Register/Wizard.pm` |
| `FormCreateUser`, `FormCreateLink`, `FormRedeem` | `step_1_confirmation`; the unique address may refuse the user |
| `FormSendToken` | `send_register_user_email` |
| `PaySubmit`, `PayDecide` | `complete_registration` of `Controller/Register.pm`: token, amount, gateway |
| `PayFindCustomer`, `PayAddCustomer`, `PaySaveCustomer` | `add_user_and_pay`, `_add_customer_with_card` |
| `PayFree`, `PayFreeActivate` | `_charge_card` without an amount |
| `PaySale`, `PaySaveInvoice`, `PayActivate` | `_charge_card` with one |
| `PayDeleteToken` | the end of `complete_registration`, whatever the outcome |
| `FormDie`, `PayDie` | the process dies at any step |

The three helpers differ in three places, which the model keeps: Stripe takes a
second customer with the same description, where the others refuse a second one
with the same id; Braintree's goes on to a sale of 0 after a free subscription;
Stripe's writes the price of the subscription into the invoice instead of the
amount charged. All invoices of free subscriptions have the id 0, which is
unique, so only the first is saved, and the helper returns before it switches
any later one on: `PayFree` has that branch. The Individual and Corporate forms
do what Wizard does, without a code. API `payment` is the payment form again.
API `register` always fails: it sets a column `type`, which `User` lacks.

### The life of a period

`LinkStages` says in a page what the steps of the cron, the requests that change
one row, and their deaths amount to: a period is absent, open, announced, closed
or deleted; it is paid for as a renewal while the announcement of the one before
it stands, and only one is, unless a process died over it; it is on only if it
was paid for (when it is a renewal), off once it is closed, and what was paid for
is never removed. `BillingStages` reads the stage off `process_message`, the
payments off `charged`, the deaths off `interrupted`. Every step of `Billing` is
then one step of it or none: in particular the mark, one update through an old
copy, is exactly `Announce` or `Close`. It holds while one run is in progress at
a time and no request pays (`Workers = {}`): two runs do pay two renewals of one
link, and a request whose payment was refused is switched on all the same.

### Amounts

Prices are whole units, like their column; amounts are cents.

| Action | Code (`Controller/Common/SubscriptionActions.pm`) |
|---|---|
| `Upgrade`, `Renew` | `upgrade` and `renew` load the subscription that was chosen |
| `ReadCredit` | `calculate_reminder` of the old link, for the page and again for the form |
| `SendPage` | `upgrade_save`, `renew_save` begin with the same loads; or the user leaves |
| `CreateLink` | the insert, which may fail |
| `DiscountAmount` | `amount_with_discount() or price()`, for a renewal |
| `Pay` | `pay()` of the helper: the amount, or without one the price; what is sent to the gateway (`Sent`: Stripe's `"%d00"`) |
| `Tick`, `Edit` | a day passes; the administrator takes a price and a period off, or sets them |

The history variables say what was agreed: `terms` is the price and period a link
was made for, `backing` the cents that were paid for it and, through upgrades,
for the ones it replaced, `quote` what the page showed.

`Edit` is `PriceList`: every save first sets price and period of one subscription
to NULL and later to those of a form. `ImplementsPriceList` shows that the whole
save in `Catalogue`, with its lists, order, failures and crossing edits, does
nothing else to them: so `Amounts` need not carry the catalogue with it.

### Administration

| Action | Code |
|---|---|
| `AddTheme`, `ProbeFolder`, `MakeFolder`, `SaveFiles`, `CleanUp`, `ClearForNew`, `CreateTheme` | `add_theme` of `Controller/Admin/Themes.pm`: one test of `-r`, `mkdir`, the files, `remove_tree` in the catch block, the two statements |
| `DeleteTheme`, `RemoveFolder`, `CheckFolder`, `DeleteRow` | `delete_theme` |
| `ActivateTheme`, `FindTheme`, `UpdateTheme` | `activate`: every theme off, find, update |
| `AskForMail`, `FindRow`, `SaveToken`, `MailToken` | `send_set_user_psw_email` of `Helpers/Admin/UserDetails.pm`, whoever calls it |
| `SubmitPassword`, `SetPassword`, `RemoveToken` | `set_user_password` of `Controller/Visitor.pm` |
| `AddPeriodUser`, `CountUsers`, `CreateUser` | `add_period_user`, `can_be_activated` of both `Manage_users.pm` |
| `EditPeriodUser`, `UpdateUser` | `edit_period_user` |
| `SaveSubscription`, `UpdateSubscription`, `EditPage`, `ResendPage` | `save`, `update`, and the edit page whose form is sent back |
| `BlankRow`, `FillRow` | the two updates of the row: `_initial_hash`, then the columns of the form |
| `LoadList`, `DeleteEntry`, `ImportFeatures`, `CreateEntry` | features, upgrades and downgrades: deleted and created again |
| `ReadGroup`, `SetPosition` | the order in the group |
| `ThemeDie`, `TokenDie`, `EditFails` | the process dies, or a statement of the edit fails |

The four areas share no table and no file. `Next` lets a behaviour take the steps
of the area it begins in: that loses nothing, and keeps the product of four state
spaces from being explored.

### What is abstracted

Time is a counter of ticks, `Day` ticks to a day; `timestamp()` strings compare
like the times they print. In `Billing` prices are positive and payments are
charged or refused; `Signup` has amounts, invoices and free
subscriptions, but no clock. Its prices are whole units, like their column, and its
amounts are cents, since a percentage of a price has them. The column of an
invoice's charge is whole again (`AsInteger`): MySQL rounds what it is given
(`mysql_init.sql`), PostgreSQL refuses a fraction (`pg_init.sql`), which is then an
invoice that is not saved. That Perl computes a percentage in floating point is left
out. An invoice or a customer's row may fail to be saved
for any reason. The default gateway is any at each payment, since the
administrator may select another at any time. Rows of failed transactions are
written and never read by these handlers, and are left out.
The process date and status, which nothing reads, the alerts and the log are
left out. Exceptions in the logger or in the gateway libraries are deaths of
the process. A user's links are those with the user in the row.

In `Amounts` a user may renew or upgrade from any page to any subscription, and a
link stays whatever the gateway answered (whether it is on is the matter of
`Billing`). In `Catalogue` there is one group; the order a form brings for it may be complete,
partial, repeated or empty; an edit keeps the name and the
group of its subscription, and trials, access types and the campaigns attached to
it are left out. In `Themes` all themes have one name, since different names
share no folder, and a folder is its version. In `PasswordTokens` a token is named
by the request that mails it, as tokens are random. In `PeriodUsers` a row is its
link and its status.

## 3. Runs

| Run | Instance | Shows |
|---|---|---|
| `cron` | one run at a time, three kinds of subscription (renewed, with a trial, closing), two ticks a day, 6 ticks, 3 links, 1 death; cancels and downgrades at any time | a period is renewed at most once, only if charged, only after its end and after an announcement, never after it was marked expired; what is paid is served; refused renewals leave nothing; what was closed is off; every step is one of `LinkStages` or none; the two invariants of the proofs (`BillingInv`, `OneRunInv`) |
| `overlap` | two runs at once, 4 days, 3 links, 1 death; cancels | each run keeps to its own link (`BillingInv`), paid links are served |
| `requests` | one worker, one run, 3 days, 3 links | upgrades and renewals between any two steps of the cron |
| `live` | one run, a downgrade allowed, 4 days, 2 links, 1 death, fairness | ended links are switched off, announcements are followed up |
| `processed`, `kept`, `downgrade` | one worker, one run, 5 days, 2 links | three statements of the repository that the code does not keep (section 6) |
| `cancelled` | one run, 4 days, 2 links, fairness | a fourth: a link cancelled before its end date is renewed all the same |
| `signup` | two registration forms, two payment forms, two addresses, a priced and a free subscription, a code, 1 death | what is charged is on and invoiced, what is on is paid, a code gives one user a discount, nobody is stranded |
| `twice` | one form, two payment forms | one token pays twice (section 6) |
| `admin` | 3 requests on 2 themes and those they add, 4 on the tokens of a user, 4 on the period users of a link with a limit of 1 or 2, 2 forms on one subscription and a new one; 1 death among the themes' requests and 1 among the tokens', any number of failed edits | what a request leaves is what was asked for, unless it crossed another or died half way; an edit is seen by payments as `PriceList` says |
| `amounts` | 2 pages with their forms, 2 subscriptions with prices of 2 or 3 and periods of 2 days, a code of 2 units or 50 percent, Braintree and Stripe, 3 days, 1 change of a price | charges are what was quoted; a chain of upgrades earns no more than was paid |

Bounds: `MaxTime` stops the clock, `MaxLinks` bounds inserts, `MaxDeaths` bounds
deaths. The clock's bound lets a link be announced, end, be renewed, and its
renewal be announced and end in its turn; two days in `cron` have two ticks so
that two runs fall in one notice window. Two links more than at the start
are enough for a renewal and a second one, or for an upgrade between them. A
death is allowed only before the clock's bound, so that a run can follow it;
runs may start at every tick, and again and again at the last one. Without
requests that pay (`Workers = {}`) the interleavings of cancel and
downgrade with the cron still all occur, since they need no worker; in `cron`
downgrades ask for the renewing subscription, the only one for which what follows the
downgrade differs. That the row of a downgrade is gone when it is switched on takes
three links and two runs in progress, and does not occur within these bounds. Several
users do not interact: each query of the cron is restricted to one user, and
only the order of the list relates them, which one user with several links shows.

`overlapped` appears in some properties because two runs in progress do renew
one link twice: the mark is the only record, and it is written last. It
becomes true when a second run starts beside a first one, and stays true.
`RenewedOnce` names the two ways the code can renew twice: that, and a death
between the creation of a renewal and the mark.

`signup` needs two of everything: two forms compete for an address or a code,
and two payment forms are either two users or one user twice. Both forms done, the
system stops, so deadlock is not checked there. Addresses, forms and payments
are symmetric; the properties of that run are invariants.

`admin` has the requests its hazards need: three on themes are two that compete
for a folder, or switch, and one that deletes or activates what they leave; four
on tokens are two mails and two forms; four on period users are two additions
that were counted together, and two edits, or one more addition. Two edits are two
at once, an edit that imports from one not finished, or a form sent back twice;
counts are 1 day or 1 month, so that sending back multiplies the period, and only
the list of features is not empty, since the three lists are handled alike (the
page sends the others, empty, all the same). Two themes at the start are the first one, which cannot be
deleted, and another. All these runs end when every form was sent, so deadlock
is not checked.

`amounts` starts with a link that was paid for; two requests are an upgrade and
an upgrade of what it made, two upgrades of one link, or a renewal that is then
upgraded. Three days are one more than a period, so that a link is over and the
absolute difference of days counts again. One change is enough to put a NULL, or
another price, between the page and the form or between two of the reads of one
request. Prices of 2 and 3 with periods of 2 make `int` cut a half off; a code of 2
units leaves nothing of a price of 2. `Authorize` sends what Braintree sends.

Fairness (`live`): time passes, crontab starts the run again and again, a run
goes on unless it dies, a worker finishes the request it is serving. Users
promise nothing, and a death is never required to happen or not. The deaths
are finitely many, which is needed: a run that dies of the same exception every
time closes nothing.

## 4. Properties

* `RenewedOnce`: two links charged as the renewal of one link need a death or an overlap.
* `RenewalsArePaid`: an active renewal link was charged; a leftover of a refused or
  interrupted renewal is never switched on as if it were a downgrade.
* `ServedWhilePaid`: a charged link exists and is active until its end date,
  unless replaced by an upgrade, still being settled, or its process died.
* `RefusedLeavesNoLink`: an uncharged renewal link is being worked on or was left by a dead run.
* `RenewalFollowsNotice` (action): a card is charged for a renewal only after the end
  date and while the row still carries the earlier run's announcement.
* `ExpiredIsFinal` (action): a link marked expired is not announced again.
* `OneRunInv`: while no two runs are in progress, what a run knows is what the table
  says, and a renewal that was paid for is being worked on or has closed the old link.
* `ClosedIsOff`: a link that was marked expired is off (no overlap, no request that pays).
* `EndedIsClosed`, `NoticeIsFollowed` (liveness).
* `ImplementsStages` (refinement): `Billing` implements `LinkStages`.

Of `Signup`:

* `ActiveIsPaid`: the user of an active link was charged or holds the free invoice.
* `PaidIsOn`: a charge leads to an active link, unless its process died first; a
  failed invoice does not prevent it.
* `InvoiceIsCharge`: an invoice goes with a charge of that user, and shows it to the
  nearest whole unit; Stripe's shows the price instead.
* `DiscountIsHeld`: a reduced charge belongs to a user who still holds the code,
  unless two forms carried that code at once or two codes have the same text.
* `NobodyIsStranded`: a user with something to pay has the token, or the link on, or
  was refused by a gateway, or the process that registers them is running or died. A
  user of a free subscription may be stranded: if the invoice cannot be saved, as
  none but the first can, the link stays off and the token is deleted.

Of `Amounts`:

* `CreditIsBacked`: what the rest of a link would be credited with was paid, for it
  and for the links it replaced. It takes that each was charged without a
  discount, before its link was over and while no price changed, and that none
  was upgraded twice: the code prevents none of these.
* `ChargedAsQuoted`: an upgrade is charged what its page quoted, a renewal no more,
  if nothing changed in between. It names what the code does otherwise: a quote
  of 0 is charged as the full price, a negative one is refused by the gateway,
  Stripe is sent no cents.

Of `Administration`:

* `OneThemeActive`, `SomeThemeActive`: one theme is active, but for two switches
  that cross; there is none only while a switch is under way or after one was
  abandoned (its process died, or its theme was deleted meanwhile), or after the
  active theme was deleted.
* `ThemeHasFolder`: every theme has a folder, and its own, unless two requests were
  at work on that folder at once or the work on it died or failed half way.
* `TokenSetsOnce`, `NewestTokenWorks`: a token sets one password, and the one mailed
  last works: but for forms sent twice at once, a death before the row is deleted, and
  a mail asked for while a form is being handled, whose token that form deletes.
* `CountedWithinLimit`: users whose addition was counted, and did not cross
  another, stay within the limit, whatever edits come between; an edit activates
  without a count.
* `EditIsComplete`, `OrderAsAsked`: a subscription is what its last completed edit
  asked for, and each one that its order names has the last place at which it is
  named, if the database returns the edited subscription last.
* `LengthAsAsked`: the links made for a subscription that was asked for in days last
  those days. Of other units it says nothing: the code takes the count as days, so
  that a month makes links of one day; and the edit page shows days beside the unit,
  so that sending it back stores 30 and makes links of 30.
* `ImplementsPriceList` (refinement): `Catalogue` implements `PriceList`.

Every property has at least one fault in `PROJECT.json` (`mutants`): an operator
marked `fault:` in a comment, which in place of the real one makes TLC find the
property violated in that run's instance. The specifications never use these.

## 5. Proofs

Every invariant and action property of the passing runs, and both refinements, are
theorems: they hold for every value of the constants that the assumptions allow.

| Module | Theorems | The inductive invariant |
|---|---|---|
| `BillingInvariant` | `TypeCorrect`, `InvHolds`, `PaidIsServed`, `RefusedIsDeleted` | `TypeOK /\ BillingInv` |
| `BillingOneRun` | `OneRunHolds`, `NobodyPaysTwice`, `RenewalIsPaid`, `RenewalAfterNotice`, `ExpiredStays` | with `OneRunInv` |
| `BillingRefinement` | `ClosedStaysOff`, `StagesWithoutOverlap`, `StagesOfOneCron` | with `ClosedIsOff` |
| `SignupProofs` | `SignupInvHolds`, `SignupTypeCorrect`, `SwitchedOnIsPaid`, `ChargedIsOn`, `InvoicesAreCharges`, `DiscountsAreHeld`, `EveryoneIsServed` | `TypeOK /\ SignupInv` |
| `AmountsProofs` | `AmountsInvHolds`, `AmountsTypeCorrect`, `CreditsArePaid`, `QuotesAreKept` | `TypeOK /\ AmountsInv` |
| `AdministrationProofs` | `AreasInvHolds`, `OneThemeAtATime`, `ThemeOrLapse`, `FoldersAreKept`, `TokensAreSpent`, `TheLastMailWorks`, `LimitIsKept` | `ThemesInv`, `TokensInv`, `UsersInv`, with the types |
| `AdministrationProofs` over `CatalogueProofs` | `CatalogueInvHolds`, `AdministrationTypes`, `EditsAreComplete`, `LengthsAreKept`, `OrderIsKept`, `PriceListIsImplemented` | `CatalogueOK /\ CatalogueInv` |

### Assumptions

They are on the data only: periods, prices and counts are natural numbers, not 0
where the forms refuse 0; codes, discounts and gateways are what their columns
allow; bounds are natural numbers, and what requests may ask for are subscriptions (`CatalogueAssumption`, `ClockAssumption`,
`StartAssumption`, `RequestsAssumption`, `PriceAssumption`, `SignupBounds`,
`AmountsAssumption`, `PriceListAssumption`, `ThemesAssumption`, `TokensAssumption`,
`PeriodUsersAssumption`, `CatalogueFormsAssumption`, which also has finitely many
subscriptions at the start). Nothing is assumed of the number of users, runs,
workers, links, forms, requests, themes, subscriptions or deaths, nor that runs do
not overlap. Two theorems have a hypothesis of their own, the refinement of
`LinkStages`: `Workers = {}`, and one cron process or behaviours without overlap.
The code breaks `LinkStages` without them, as section 2 says.

### Billing

`ServedWhilePaid` is not inductive. A run deletes a link after a refused payment:
that link must not be one that was charged. A run switches off the link it
marks: it must have ended. So the invariant `BillingInv` says, of each run
(`OwnsNew`), that the link it is paying for exists, is a renewal, is in no
other run's hands, and is charged exactly when the run's own state says so; of
each listed element (`ListIsCurrent`), that the copy has the row's end date
(dates never change) and that an element is classified as expired only when
that date is past; of a downgrade it has found (`FoundWaits`), that it starts no
earlier than the run, hence that switching it on is no return of an ended link; and of each request
past its insert (`PaysForOwn`), that its link is there and
is not a renewal, hence nobody deletes it. `BillingTypes` shows for each action
that the types are kept, `BillingInvariant` the same of `BillingInv`, one step of
the proof per action.

The safety of renewals rests on the mark a run leaves for the next. `OneRunInv`
has a part that always holds (`DatesInv`): announcements and marks agree with the
dates, a run pays only for an element that is announced and has ended; and one
that holds while no two runs are in progress (`OneRun`): the copy still has the
message of the row, the link being paid for is not listed, a renewal that was
charged is still in hands or what it renews is marked expired, and what a dead
run left behind starts before the run in progress, so that no run takes it for a
downgrade. `RenewedOnce`, `RenewalsArePaid`, `RenewalFollowsNotice` and
`ExpiredIsFinal` follow. The theorems say what holds after an overlap too,
since the properties name it.

`ImplementsStages` takes all of these and `ClosedIsOff`: initial states map to
initial states, and the proof maps each step of the cron, the requests and the
deaths to one of `LinkStages`, or none.

### Signup and Amounts

`SignupInv` says what a form or a payment in progress has in hand: a user of its
own, a link once it is past the insert, a code that is free unless contested, its
own charge until the link is on. What the steps never take back (users, links,
charges, invoices, redeemed codes) is a lemma, and with it each property is kept
step by step.

`AmountsInv` follows a request from page to charge: what it has read is what the
table has, if nothing was edited since; the quote is what the page would quote
now; what an upgrade takes off the price was paid for the old link. The
arithmetic (integer division by the period, cents, `int`) is a section of lemmas:
the credit for the days that are left is no more than the price of the period.

### Administration

For themes: while switches do not cross, no theme is on during one, and two are
never in progress; without an active theme somebody is about to set one, or a
switch was given up; and at a folder nobody shared, one request is at work, which
fills it before there is a row, or removes it for its only row. For tokens: a
token is of one user, a row has the token saved last, and a token in one
submission is spent by it. For period users: an addition counted alone has its
place kept until it is inserted, whatever is edited meanwhile.

For the catalogue, none of the three properties is inductive: they speak of
subscriptions that nobody edits, and an edit goes through some dozen states first.
`CatalogueInv` has three parts. `ShapeInv`: a row has a price and a period of its
form, or neither, whatever edits cross, because the update writes the columns that
differ from the copy and the copy is whole. `ProgressInv`: an edit that nobody
crossed is the only editor of its subscription, and has done exactly the part of
its form that its stage says (the row, the lists already handled, the entries
already deleted or created), while the page of an edit that was not sent shows
what was asked for. `OrderInv`: an edit that is alone in the group has read each
row once, with its position, and if its own row comes last each entry it has
handled has its place. Every step is shown to keep these: an edit that
begins takes `onItsOwn` and `alone` from those it crosses (`StartStep`), one that
goes on keeps what the others rely on (`ProgressFrame`, `OrderFrame`), and the
last one turns what was done into what the properties say.

`ImplementsPriceList` then needs `ShapeInv` alone: the first update takes off both
price and period or, when the copy had neither, none; the second sets both; a
position is not a price.

### Only model-checked

`EndedIsClosed` and `NoticeIsFollowed`: liveness under fairness is out of the
prover's reach, so it is shown for the instance of the run `live`. The five
properties of section 6 are violated, which TLC shows. Nothing else.

## 6. What the repository says and the code does not do

* `processed`: the cron's notes say it picks up only links not yet processed; its
  search has no such condition.
* `kept`: `upgrade_save` and `renew_save` report a completed payment and keep the
  link although the payment was refused, since `has_errors` is always false.
* `downgrade`: the user is told that a downgrade is paid when the current
  subscription ends; the cron switches it on and charges nobody.
* `cancelled`: a link that is cancelled before its end date is renewed and charged by a
  later run like any other.
* `twice`: a second submission of the payment form should be told that the details
  were already submitted; until the first one has finished it pays again.

## 7. Plan

The safety properties and the refinements are proved. What is left, in this order:

1. `ImplementsStages` with workers: a weaker abstract life of a period in which a
   renewal may be kept unpaid by a request (section 6, `kept`), so that the
   refinement covers requests that pay.
2. What `LinkStages` and `PriceList` promise by themselves, proved of the abstract
   modules: that a period has one paid renewal, that a price is never without a period.
3. An abstract life of a registration (expected, registered, paid or refused, on),
   and `Signup` as an implementation of it.

## 8. Not modelled

* Cron alerts: mails are sent after the last row was changed, and their failures
  are swallowed.
* Pages, statistics and dashboards: they read.
* Settings of gateways and of the registration, profiles, groups, features, users
  and IP ranges: one row or one file each, written whole by one statement.
* Campaigns: creating one and drawing its codes are inserts that nothing waits for;
  codes are drawn at random and not compared with those that exist, so two may
  have one text, which `DiscountIsHeld` names.
* Rows of failed transactions, which nothing reads back into these handlers, and
  `delete_user` of the gateway helpers, which nothing calls.
* A downgrade whose start the cron reaches a day late is not found and never
  switched on; the model has this case, and no property is about it.
* Catalyst configuration, routing, views, logging; scripts run by hand on an idle
  system; test helpers.
* The old copy of the code under `src/blib`, and the JavaScript, style sheets and
  examples under `root/static`, there and in `src/root`: libraries and page
  decoration. The program is the Perl under `src/lib`, which is what the models map.
