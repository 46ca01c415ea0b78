------------------------ MODULE SubscriptionActions ------------------------
(***************************************************************************)
(* The web requests of Controller::Common::SubscriptionActions: cancel,    *)
(* upgrade, downgrade and renew.  Requests are served by worker processes  *)
(* that run beside each other and beside the cron.  Cancel and downgrade   *)
(* change one row; upgrade and renew create a link, charge for it, and     *)
(* then switch links on and off in separate updates.                       *)
(***************************************************************************)
EXTENDS LinkTable

CONSTANTS
    Workers,      \* server processes handling requests
    UpgradeTo,    \* bound: the subscriptions that upgrade requests ask for
    DowngradeTo   \* bound: those that downgrade requests ask for

ASSUME RequestsAssumption == UpgradeTo \subseteq Sub /\ DowngradeTo \subseteq Sub

VARIABLES
    worker,   \* state of each server process
    replaced  \* history: links an upgrade has switched off

workerVars == <<worker, replaced>>

WorkerPC == {"idle", "create", "pay", "paid", "answered", "activate"}

\* old is the link being upgraded (NoLink when renewing), oldActive its
\* active flag in the worker's copy; error: the gateway pushed an alert.
WorkerState == [pc : WorkerPC, old : LinkId \cup {NoLink}, oldActive : BOOLEAN,
                new : LinkId \cup {NoLink}, error : BOOLEAN]

IdleWorker == [pc |-> "idle", old |-> NoLink, oldActive |-> FALSE,
               new |-> NoLink, error |-> FALSE]

InitWorkers ==
    /\ worker = [w \in Workers |-> IdleWorker]
    /\ replaced = {}

(***************************************************************************)
(* The handlers check nothing of what the pages offer (the current link of *)
(* the user, the subscriptions listed for it, no renewal while one is      *)
(* active): a page that is out of date, open twice or submitted twice may  *)
(* name any user, link and subscription.                                   *)
(***************************************************************************)

(***************************************************************************)
(* Requests that change one row                                            *)
(***************************************************************************)

CancelSubscription(l) ==
    /\ ~link[l].cancelled
    /\ link' = [link EXCEPT ![l].cancelled = TRUE]
    /\ UNCHANGED <<nextId, charged, origin, deathVars, workerVars>>

\* The new link starts a day after the old one ends; nothing is charged.
DowngradeSave(u, l, s) ==
    /\ s \in DowngradeTo
    /\ LET from == link[l].to + Day
       IN  Insert(NewRow(u, s, from, from + Period[s]), "downgrade", l)
    /\ UNCHANGED <<charged, deathVars, workerVars>>

(***************************************************************************)
(* Requests that pay                                                       *)
(***************************************************************************)

BeginPayment(w, old, oldActive) ==
    worker' = [worker EXCEPT ![w] = [pc |-> "pay", old |-> old,
                 oldActive |-> oldActive, new |-> nextId, error |-> FALSE]]

\* The link to be upgraded is read into memory, while there is room for another.
UpgradeSave(w, l) ==
    /\ worker[w].pc = "idle"
    /\ CanInsert
    /\ worker' = [worker EXCEPT ![w] =
          [IdleWorker EXCEPT !.pc = "create", !.old = l, !.oldActive = link[l].active]]
    /\ UNCHANGED <<tableVars, deathVars, replaced>>

\* The new link is created, for the user and the subscription that the request
\* names, or cannot be and the request ends.
UpgradeCreate(w) ==
    /\ worker[w].pc = "create"
    /\ \/ \E u \in User, s \in UpgradeTo :
             /\ Insert(NewRow(u, s, now, now + Period[s]), "upgrade", worker[w].old)
             /\ BeginPayment(w, worker[w].old, worker[w].oldActive)
       \/ worker' = [worker EXCEPT ![w] = IdleWorker] /\ UNCHANGED <<link, nextId, origin>>
    /\ UNCHANGED <<charged, deathVars, replaced>>

\* A link that cannot be created ends this request too, with nothing changed.
RenewSave(w, u, s) ==
    /\ worker[w].pc = "idle"
    /\ Insert(NewRow(u, s, now, now + Period[s]), "renew", NoLink)
    /\ BeginPayment(w, NoLink, FALSE)
    /\ UNCHANGED <<charged, deathVars, replaced>>

WorkerPay(w) ==
    /\ worker[w].pc = "pay"
    /\ \/ Charge(worker[w].new) /\ worker' = [worker EXCEPT ![w].pc = "paid"]
       \/ /\ worker' = [worker EXCEPT ![w].pc = "answered", ![w].error = TRUE]
          /\ UNCHANGED charged
    /\ UNCHANGED <<link, nextId, origin, deathVars, replaced>>

\* The gateway helper switches the paid link on.
WorkerSettle(w) ==
    /\ worker[w].pc = "paid"
    /\ SetActive(worker[w].new, TRUE)
    /\ worker' = [worker EXCEPT ![w].pc = "answered"]
    /\ UNCHANGED <<nextId, charged, origin, deathVars, replaced>>

HasErrors_Inverted(pushed) == ~pushed   \* fault: an answer without errors counts

\* has_errors greps over the number 1 or 0 that the ?: yields, never over the
\* alerts: it finds no error, whatever was pushed.
HasErrors(pushed) == FALSE

\* After pay(): keep the new link, or delete it when there were errors.
WorkerDiscard(w) ==
    /\ Delete(worker[w].new)
    /\ worker' = [worker EXCEPT ![w] = IdleWorker]
    /\ UNCHANGED replaced

\* Keeping it starts with the upgraded link, switched off if the copy says it
\* is on; if its row is gone the update throws and the request ends there.
WorkerKeep(w) ==
    LET old == worker[w].old
        close == old # NoLink /\ worker[w].oldActive
    IN  /\ worker' = IF close /\ old \notin DOMAIN link
                     THEN [worker EXCEPT ![w] = IdleWorker]
                     ELSE [worker EXCEPT ![w].pc = "activate"]
        /\ IF close /\ old \in DOMAIN link
           THEN SetActive(old, FALSE) /\ replaced' = replaced \cup {old}
           ELSE UNCHANGED <<link, replaced>>

WorkerConclude(w) ==
    /\ worker[w].pc = "answered"
    /\ IF HasErrors(worker[w].error) THEN WorkerDiscard(w) ELSE WorkerKeep(w)
    /\ UNCHANGED <<nextId, charged, origin, deathVars>>

WorkerActivate(w) ==
    /\ worker[w].pc = "activate"
    /\ SetActive(worker[w].new, TRUE)
    /\ worker' = [worker EXCEPT ![w] = IdleWorker]
    /\ UNCHANGED <<nextId, charged, origin, deathVars, replaced>>

WorkerDie(w) ==
    /\ worker[w].pc # "idle"
    /\ Die({worker[w].new})
    /\ worker' = [worker EXCEPT ![w] = IdleWorker]
    /\ UNCHANGED <<tableVars, replaced>>

WorkerStep(w) ==
    \/ UpgradeCreate(w)
    \/ WorkerPay(w)
    \/ WorkerSettle(w)
    \/ WorkerConclude(w)
    \/ WorkerActivate(w)

Request ==
    \/ \E l \in DOMAIN link : CancelSubscription(l)
    \/ \E u \in User, l \in DOMAIN link, s \in Sub : DowngradeSave(u, l, s)
    \/ \E w \in Workers :
          \/ \E l \in DOMAIN link : UpgradeSave(w, l)
          \/ \E u \in User, s \in Sub : RenewSave(w, u, s)

WorkersOK ==
    /\ worker \in [Workers -> WorkerState]
    /\ replaced \subseteq LinkId

=============================================================================
