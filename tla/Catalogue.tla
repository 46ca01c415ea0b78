----------------------------- MODULE Catalogue -----------------------------
(***************************************************************************)
(* The subscriptions of one group, as the administrator saves and edits    *)
(* them (Controller/Admin/Subscriptions.pm): first a row without price and *)
(* period, then the row of the form, then the lists of features, upgrades  *)
(* and downgrades, each deleted and created again row by row, then the     *)
(* order in the group.  A statement that fails is caught and ends it there.*)
(***************************************************************************)
EXTENDS Naturals, Sequences, FiniteSets, Functions

CONSTANTS
    Sub,           \* names of subscriptions
    StartSubs,     \* those that exist at the start
    Feature,
    EditRequests,  \* each is one submitted form and its process
    FormPrice,     \* what forms may carry: prices,
    FormCount,     \* counts of a unit of time,
    FormUnit,      \* units,
    FormLists      \* and the lists that are not left empty

\* %date_units
UnitDays == [Day |-> 1, Week |-> 7, Month |-> 30, Year |-> 365]

\* The forms refuse an empty price or period, and 0 (CheckAccessType).
ASSUME CatalogueFormsAssumption ==
    /\ StartSubs \subseteq Sub /\ IsFiniteSet(StartSubs)
    /\ FormPrice \subseteq Nat \ {0} /\ FormPrice # {}
    /\ FormCount \subseteq Nat \ {0} /\ FormCount # {}
    /\ FormUnit \subseteq DOMAIN UnitDays

VARIABLES
    subscription,  \* the table: name -> row, 0 for a NULL
    listed,        \* the three list tables: list -> name -> entries
    editRequest,   \* the progress of each request
    asked,         \* history: what each subscription was last asked to be
    halfDone,      \* history: those whose last edit failed or was crossed
    askedOrder,    \* history: the order last asked for
    misordered     \* history: that edit failed, was crossed, or did not read
                   \* the subscription it edits as the last one of the group

catalogueVars == <<subscription, listed, editRequest, asked, halfDone, askedOrder,
                   misordered>>

ConvertToDays(count, unit) == count * UnitDays[unit]

List == {"features", "upgrades", "downgrades"}

\* The order in which _update_subscription_data handles them.
ListAfter == [none |-> "features", features |-> "upgrades", upgrades |-> "downgrades"]

Blank == [price |-> 0, period |-> 0, period_count |-> 0, period_unit |-> "NULL",
          position_in_group |-> 0]

Existing == DOMAIN subscription

Orders(group) ==
    {o \in [1 .. Cardinality(group) -> group] : Range(o) = group}

\* The orders that forms ask for.  Nothing makes them name every subscription of
\* the group, or each once; a name that no row has counts as the edited one.
\* Bound: no longer than the group.
Selections(group) == UNION {[1 .. n -> group] : n \in 1 .. Cardinality(group)}

\* The places among the first n at which an order names a subscription last.
LastPlaces(order, n) == {k \in 1 .. n : \A m \in k + 1 .. n : order[m] # order[k]}

EditAt(r) == editRequest[r].at

Editors(s) ==
    {r \in EditRequests : /\ EditAt(r) \notin {"unsent", "page", "done"}
                          /\ editRequest[r].sub = s}

Editing(s) == Editors(s) # {}

\* The entries a list of s may have.
EntriesOf(k, s) == IF k = "features" THEN Feature ELSE Existing \ {s}

Stages == {"blank", "fill", "load", "delete", "import", "create", "group", "order"}

Unit == DOMAIN UnitDays \cup {"NULL"}

Row == [price : Nat, period : Nat, period_count : Nat, period_unit : Unit,
        position_in_group : Nat]

ListsOfForm == [List -> SUBSET (Feature \cup Sub)]

Form == [price : Nat, period : Nat, period_unit : Unit, lists : ListsOfForm,
         import : SUBSET Sub]

Want == [price : Nat, period : Nat, period_unit : Unit, lists : ListsOfForm]

NoForm == [at |-> "unsent"]
Closed == [at |-> "done"]
Page == [at : {"page"}, sub : Sub, form : Form, want : Want, onItsOwn : BOOLEAN]

Edit == [at : Stages, sub : Sub, form : Form, order : Seq(Sub), copy : Row,
         list : List \cup {"none"}, todo : SUBSET (Feature \cup Sub),
         rows : Seq([name : Sub, position : Nat]), place : Nat, want : Want,
         onItsOwn : BOOLEAN, alone : BOOLEAN]

ListedOK ==
    /\ DOMAIN listed = List
    /\ \A k \in List : listed[k] \in [Sub -> SUBSET (Feature \cup Sub)]
    /\ \A k \in List, s \in Sub : listed[k][s] \subseteq EntriesOf(k, s)

CatalogueOK ==
    /\ Existing \in SUBSET Sub
    /\ \A s \in Existing : subscription[s] \in Row
    /\ \A s \in Existing : subscription[s].price = 0 <=> subscription[s].period = 0
    /\ ListedOK
    /\ editRequest \in [EditRequests -> {NoForm, Closed} \cup Page \cup Edit]
    /\ asked \in [Existing -> Want]
    /\ halfDone \in SUBSET Sub
    /\ askedOrder \in Seq(Sub)
    /\ misordered \in BOOLEAN

\* Saved one after the other, from forms that count days and leave the lists empty.
InitCatalogue ==
    \E o \in Orders(StartSubs), p \in [StartSubs -> FormPrice], n \in [StartSubs -> FormCount] :
        /\ askedOrder = o
        /\ subscription = [s \in StartSubs |->
              [price |-> p[s], period |-> n[s], period_count |-> n[s],
               period_unit |-> "Day",
               position_in_group |-> CHOOSE i \in DOMAIN o : o[i] = s]]
        /\ listed = [k \in List |-> [s \in Sub |-> {}]]
        /\ editRequest = [r \in EditRequests |-> NoForm]
        /\ asked = [s \in StartSubs |->
              [price |-> p[s], period |-> n[s], period_unit |-> "Day",
               lists |-> [k \in List |-> {}]]]
        /\ halfDone = {}
        /\ misordered = FALSE

-----------------------------------------------------------------------------
\* What a person may type into the form of s.
TypedForms(s) ==
    [price : FormPrice, period : FormCount, period_unit : FormUnit,
     lists : {f \in [List -> SUBSET (Feature \cup Existing)] :
                \A k \in List :
                    f[k] \subseteq IF k \in FormLists THEN EntriesOf(k, s) ELSE {}},
     import : {{}} \cup {{i} : i \in Existing \ {s}}]

\* The form as the edit page fills it: the field "period" shows period_count.
PageForm(s) ==
    [price |-> subscription[s].price, period |-> subscription[s].period_count,
     period_unit |-> subscription[s].period_unit,
     lists |-> [k \in List |-> listed[k][s]], import |-> {}]

\* A form for s is sent.  It is on its own unless another edit of s, and alone
\* unless another edit of the group, is under way at any time before it ends.
Start(r, s, stage, form, want, onItsOwn) ==
    LET others == UNION {Editors(t) : t \in Sub} IN
    editRequest' =
        [q \in EditRequests |->
            IF q = r
            THEN [at |-> stage, sub |-> s, form |-> form, order |-> <<>>,
                  copy |-> IF s \in Existing THEN subscription[s] ELSE Blank,
                  list |-> "none", todo |-> {}, rows |-> <<>>, place |-> 1,
                  want |-> want,
                  onItsOwn |-> onItsOwn /\ ~Editing(s), alone |-> others = {}]
            ELSE IF q \in others
            THEN [editRequest[q] EXCEPT !.alone = FALSE,
                                        !.onItsOwn = @ /\ editRequest[q].sub # s]
            ELSE editRequest[q]]

Wanted(form) ==
    [price |-> form.price, period |-> form.period, period_unit |-> form.period_unit,
     lists |-> form.lists]

\* save: the row of a new subscription, without price and period.
SaveSubscription(r) ==
    /\ EditAt(r) = "unsent"
    /\ \E s \in Sub \ Existing : \E form \in TypedForms(s) :
          /\ Start(r, s, "fill", form, Wanted(form), TRUE)
          /\ subscription' = [t \in Existing \cup {s} |->
                                IF t = s THEN Blank ELSE subscription[t]]
          /\ asked' = [t \in Existing \cup {s} |->
                         IF t = s THEN Wanted(form) ELSE asked[t]]
    /\ UNCHANGED <<listed, halfDone, askedOrder, misordered>>

\* update, with a form that was filled in anew.
UpdateSubscription(r) ==
    /\ EditAt(r) = "unsent"
    /\ \E s \in Existing : \E form \in TypedForms(s) :
          Start(r, s, "blank", form, Wanted(form), TRUE)
    /\ UNCHANGED <<subscription, listed, asked, halfDone, askedOrder, misordered>>

EditPage(r) ==
    /\ EditAt(r) = "unsent"
    /\ \E s \in Existing :
          editRequest' = [editRequest EXCEPT ![r] =
              [at |-> "page", sub |-> s, form |-> PageForm(s), want |-> asked[s],
               onItsOwn |-> ~Editing(s) /\ s \notin halfDone]]
    /\ UNCHANGED <<subscription, listed, asked, halfDone, askedOrder, misordered>>

\* update, with the form as the page showed it.  It asks for what was asked
\* before the page was shown.  Without a price and a period it is refused.
ResendPage(r) ==
    LET q == editRequest[r] IN
    /\ EditAt(r) = "page"
    /\ q.form.price # 0
    /\ q.form.period # 0
    /\ Start(r, q.sub, "blank", q.form, q.want, q.onItsOwn)
    /\ UNCHANGED <<subscription, listed, asked, halfDone, askedOrder, misordered>>

\* An update writes the columns that differ from the copy in memory.
Written(row, copy, new) ==
    [column \in DOMAIN row |->
        IF new[column] = copy[column] THEN row[column] ELSE new[column]]

\* fault: the period stays while the price is taken off.
BlankRow_PriceOnly(r) ==
    LET q == editRequest[r]
        blank == [Blank EXCEPT !.period = q.copy.period] IN
    /\ EditAt(r) = "blank"
    /\ subscription' = [subscription EXCEPT ![q.sub] = Written(@, q.copy, blank)]
    /\ editRequest' = [editRequest EXCEPT ![r] = [q EXCEPT !.at = "fill", !.copy = blank]]
    /\ UNCHANGED <<listed, asked, halfDone, askedOrder, misordered>>

BlankRow(r) ==
    LET q == editRequest[r] IN
    /\ EditAt(r) = "blank"
    /\ subscription' = [subscription EXCEPT ![q.sub] = Written(@, q.copy, Blank)]
    /\ editRequest' = [editRequest EXCEPT ![r] = [q EXCEPT !.at = "fill", !.copy = Blank]]
    /\ UNCHANGED <<listed, asked, halfDone, askedOrder, misordered>>

\* fault: the period is not among the columns taken from the form.
Filled_NoPeriod(form) ==
    [Blank EXCEPT !.price = form.price, !.period_unit = form.period_unit,
                  !.period_count = ConvertToDays(form.period, form.period_unit)]

Filled(form) ==
    [Blank EXCEPT !.price = form.price, !.period = form.period,
                  !.period_unit = form.period_unit,
                  !.period_count = ConvertToDays(form.period, form.period_unit)]

\* The lists that come after this one are handled in turn, then the order.
ToNextList(q) ==
    IF q.list = "downgrades" THEN [q EXCEPT !.at = "group"]
    ELSE [q EXCEPT !.at = "load", !.list = ListAfter[q.list]]

FillRow(r) ==
    LET q == editRequest[r] IN
    /\ EditAt(r) = "fill"
    /\ subscription' = [subscription EXCEPT ![q.sub] = Written(@, q.copy, Filled(q.form))]
    /\ editRequest' = [editRequest EXCEPT ![r] = ToNextList(q)]
    /\ UNCHANGED <<listed, asked, halfDone, askedOrder, misordered>>

ToCreate(q, imported) ==
    LET entries == q.form.lists[q.list] \cup imported IN
    IF entries = {} THEN ToNextList(q)
    ELSE [q EXCEPT !.at = "create", !.todo = entries]

AfterDeletes(q) ==
    IF q.list = "features" /\ q.form.import # {} THEN [q EXCEPT !.at = "import"]
    ELSE ToCreate(q, {})

\* fault: only the entries that are selected again are deleted.
LoadList_Selected(r) ==
    LET q == editRequest[r]
        rows == listed[q.list][q.sub] \cap q.form.lists[q.list] IN
    /\ EditAt(r) = "load"
    /\ editRequest' = [editRequest EXCEPT ![r] =
          IF rows = {} THEN AfterDeletes(q) ELSE [q EXCEPT !.at = "delete", !.todo = rows]]
    /\ UNCHANGED <<subscription, listed, asked, halfDone, askedOrder, misordered>>

LoadList(r) ==
    LET q == editRequest[r]
        rows == listed[q.list][q.sub] IN
    /\ EditAt(r) = "load"
    /\ editRequest' = [editRequest EXCEPT ![r] =
          IF rows = {} THEN AfterDeletes(q) ELSE [q EXCEPT !.at = "delete", !.todo = rows]]
    /\ UNCHANGED <<subscription, listed, asked, halfDone, askedOrder, misordered>>

DeleteEntry(r) ==
    LET q == editRequest[r] IN
    /\ EditAt(r) = "delete"
    /\ \E x \in q.todo :
          /\ listed' = [listed EXCEPT ![q.list][q.sub] = @ \ {x}]
          /\ editRequest' = [editRequest EXCEPT ![r] =
                IF q.todo = {x} THEN AfterDeletes(q) ELSE [q EXCEPT !.todo = @ \ {x}]]
    /\ UNCHANGED <<subscription, asked, halfDone, askedOrder, misordered>>

\* The features that another subscription has at this moment.
ImportFeatures(r) ==
    LET q == editRequest[r] IN
    /\ EditAt(r) = "import"
    /\ \E i \in q.form.import :
          editRequest' = [editRequest EXCEPT ![r] =
              [ToCreate(q, listed["features"][i]) EXCEPT
                  !.want.lists["features"] = @ \cup asked[i].lists["features"],
                  !.onItsOwn = @ /\ ~Editing(i) /\ i \notin halfDone]]
    /\ UNCHANGED <<subscription, listed, asked, halfDone, askedOrder, misordered>>

\* update_or_create
CreateEntry(r) ==
    LET q == editRequest[r] IN
    /\ EditAt(r) = "create"
    /\ \E x \in q.todo :
          /\ listed' = [listed EXCEPT ![q.list][q.sub] = @ \cup {x}]
          /\ editRequest' = [editRequest EXCEPT ![r] =
                IF q.todo = {x} THEN ToNextList(q) ELSE [q EXCEPT !.todo = @ \ {x}]]
    /\ UNCHANGED <<subscription, asked, halfDone, askedOrder, misordered>>

\* The edit of q is over, with this order asked for.
EditEnds(q, order, ordered) ==
    /\ asked' = [asked EXCEPT ![q.sub] = q.want]
    /\ halfDone' = IF q.onItsOwn THEN halfDone \ {q.sub} ELSE halfDone \cup {q.sub}
    /\ askedOrder' = order
    /\ misordered' = ~ordered

\* A form without selected_group_order: nothing gets a position, and the 0 that
\* _initial_hash has put into the row stays.
LeaveOrder(r) ==
    /\ EditAt(r) = "group"
    /\ editRequest' = [editRequest EXCEPT ![r] = Closed]
    /\ EditEnds(editRequest[r], <<>>, TRUE)
    /\ UNCHANGED <<subscription, listed>>

\* The form's order, which is first looked at here, and the rows of the group, in
\* whatever order the database returns them.
ReadGroup(r) ==
    LET q == editRequest[r] IN
    /\ EditAt(r) = "group"
    /\ \E order \in Selections(Existing), rows \in Orders(Existing) :
          editRequest' = [editRequest EXCEPT ![r] =
              [q EXCEPT !.at = "order", !.order = order,
                        !.rows = [i \in DOMAIN rows |->
                                    [name |-> rows[i],
                                     position |-> subscription[rows[i]].position_in_group]]]]
    /\ UNCHANGED <<subscription, listed, asked, halfDone, askedOrder, misordered>>

\* fault: the last row that matches.
Match_Last(rows, entry, s) ==
    CHOOSE i \in DOMAIN rows :
        /\ rows[i].name \in {entry, s}
        /\ \A j \in DOMAIN rows : rows[j].name \in {entry, s} => j <= i

\* The first row that has the name of the entry or of the subscription edited.
Match(rows, entry, s) ==
    CHOOSE i \in DOMAIN rows :
        /\ rows[i].name \in {entry, s}
        /\ \A j \in DOMAIN rows : rows[j].name \in {entry, s} => i <= j

\* The edit is over once the last entry of the order has its position.
SetPosition(r) ==
    LET q == editRequest[r]
        i == Match(q.rows, q.order[q.place], q.sub)
        row == q.rows[i]
        over == q.place = Len(q.order) IN
    /\ EditAt(r) = "order"
    /\ subscription' = [subscription EXCEPT ![row.name].position_in_group =
                            IF row.position = q.place THEN @ ELSE q.place]
    /\ editRequest' = [editRequest EXCEPT ![r] =
          IF over THEN Closed
          ELSE [q EXCEPT !.place = @ + 1, !.rows[i].position = q.place]]
    /\ IF over
       THEN EditEnds(q, q.order, q.alone /\ q.rows[Len(q.rows)].name = q.sub)
       ELSE UNCHANGED <<asked, halfDone, askedOrder, misordered>>
    /\ UNCHANGED listed

\* A statement fails, or the process dies: the edit stays as it is.
EditFails(r) ==
    /\ EditAt(r) \notin {"unsent", "page", "done"}
    /\ editRequest' = [editRequest EXCEPT ![r] = Closed]
    /\ halfDone' = halfDone \cup {editRequest[r].sub}
    /\ misordered' = TRUE
    /\ UNCHANGED <<subscription, listed, asked, askedOrder>>

CatalogueStep(r) ==
    \/ SaveSubscription(r) \/ UpdateSubscription(r) \/ EditPage(r) \/ ResendPage(r)
    \/ BlankRow(r)   \/ FillRow(r)
    \/ LoadList(r)   \/ DeleteEntry(r) \/ ImportFeatures(r) \/ CreateEntry(r)
    \/ LeaveOrder(r) \/ ReadGroup(r)  \/ SetPosition(r) \/ EditFails(r)

-----------------------------------------------------------------------------
Settled(s) == ~Editing(s) /\ s \notin halfDone

\* A subscription is what its last form asked for, with the features it
\* imported and nothing left of earlier lists, and period_count is what its
\* period comes to: unless that edit failed on the way, crossed another edit of
\* it, or imported from an edit that was not over.
EditIsComplete ==
    \A s \in Existing :
        Settled(s) =>
            /\ subscription[s].price = asked[s].price
            /\ subscription[s].period_unit = asked[s].period_unit
            /\ subscription[s].period_count
                  = ConvertToDays(subscription[s].period, subscription[s].period_unit)
            /\ \A k \in List : listed[k][s] = asked[s].lists[k]

\* The days that a link to s lasts: the cron and the requests add the number in
\* the column period as days, whatever its unit, and never read period_count.
LinkDays(s) == subscription[s].period

\* The links to a subscription that was asked for in days last the days asked
\* for, however often its form is sent back from the edit page.  Of another unit
\* nothing of the kind is true: a month makes links of 1 day, and then of 30,
\* once the page has put the days of period_count into the field of the period.
LengthAsAsked ==
    \A s \in Existing :
        Settled(s) /\ asked[s].period_unit = "Day" =>
            LinkDays(s) = ConvertToDays(asked[s].period, asked[s].period_unit)

\* Every subscription that the order last asked for names, be it of the whole
\* group or of a part, has the last place at which it names it, if that edit read
\* its own subscription last; read earlier, it takes the positions of the others.
OrderAsAsked ==
    \/ misordered
    \/ \E s \in Existing : Editing(s)
    \/ \A i \in LastPlaces(askedOrder, Len(askedOrder)) :
          subscription[askedOrder[i]].position_in_group = i

\* The prices and the periods that the payments see.
Priced ==
    [s \in Existing |-> [price |-> subscription[s].price, period |-> subscription[s].period]]

-----------------------------------------------------------------------------
\* The invariants that the properties follow from.
\*
\* A row has a price and a period of its form, or neither, whatever edits cross.
Whole(row) ==
    \/ /\ row.price = 0 /\ row.period = 0 /\ row.period_count = 0
       /\ row.period_unit = "NULL"
    \/ /\ row.price \in FormPrice /\ row.period # 0 /\ row.period_count # 0
       /\ row.period_unit # "NULL"

FormInv(form, s) ==
    /\ \A k \in List : form.lists[k] \subseteq EntriesOf(k, s)
    /\ form.import \subseteq Existing \ {s}

PageInv(q) ==
    /\ q.sub \in Existing
    /\ FormInv(q.form, q.sub)
    /\ q.form.import = {}
    /\ q.form.price # 0 => q.form.price \in FormPrice /\ q.form.period_unit # "NULL"

EditInv(q) ==
    /\ q.sub \in Existing
    /\ FormInv(q.form, q.sub)
    /\ q.form.price \in FormPrice /\ q.form.period # 0 /\ q.form.period_unit # "NULL"
    /\ Whole(q.copy) /\ (q.at # "blank" => q.copy = Blank)
    /\ q.list = "none" <=> q.at \in {"blank", "fill"}
    /\ q.at = "import" => q.list = "features"
    /\ q.at \in {"group", "order"} => q.list = "downgrades"
    /\ q.at \in {"delete", "create"} => q.todo \subseteq EntriesOf(q.list, q.sub)
    /\ q.at # "order" => q.place = 1
    /\ q.at = "order" =>
          /\ q.place \in 1 .. Len(q.order)
          /\ \A i \in DOMAIN q.order : q.order[i] \in Existing
          /\ \A i \in DOMAIN q.rows : q.rows[i].name \in Existing
          /\ \E i \in DOMAIN q.rows : q.rows[i].name = q.sub

ShapeInv ==
    /\ IsFiniteSet(Existing)
    /\ \A s \in Existing : Whole(subscription[s])
    /\ \A r \in EditRequests :
          /\ EditAt(r) = "page" => PageInv(editRequest[r])
          /\ EditAt(r) \in Stages => EditInv(editRequest[r])

\* The lists an edit has finished with.
Handled(q) ==
    IF q.at \in {"group", "order"} THEN List
    ELSE CASE q.list = "upgrades" -> {"features"}
           [] q.list = "downgrades" -> {"features", "upgrades"}
           [] OTHER -> {}

\* What an edit that nobody crossed has done so far of what was asked for.
Progress(q) ==
    LET row == subscription[q.sub] IN
    /\ q.form.price = q.want.price /\ q.form.period_unit = q.want.period_unit
    /\ q.want.period_unit = "Day" => q.form.period = q.want.period
    /\ \A k \in List :
          \/ q.form.lists[k] = q.want.lists[k]
          \/ k = "features" /\ (q.at = "create" \/ k \in Handled(q))
    /\ q.at \notin {"blank", "fill"} =>
          /\ row.price = q.form.price /\ row.period = q.form.period
          /\ row.period_unit = q.form.period_unit
          /\ row.period_count = ConvertToDays(q.form.period, q.form.period_unit)
    /\ \A k \in Handled(q) : listed[k][q.sub] = q.want.lists[k]
    /\ q.at = "delete" => listed[q.list][q.sub] = q.todo
    /\ q.at = "import" => listed[q.list][q.sub] = {}
    /\ q.at = "create" => listed[q.list][q.sub] \cup q.todo = q.want.lists[q.list]

Shown(q) ==
    /\ q.form.price = q.want.price /\ q.form.period_unit = q.want.period_unit
    /\ q.want.period_unit = "Day" => q.form.period = q.want.period
    /\ q.form.lists = q.want.lists

ProgressInv ==
    /\ EditIsComplete
    /\ LengthAsAsked
    /\ \A r \in EditRequests :
          editRequest[r].at \in Stages \cup {"page"} /\ editRequest[r].onItsOwn =>
              IF EditAt(r) = "page" THEN Shown(editRequest[r])
              ELSE Editors(editRequest[r].sub) = {r} /\ Progress(editRequest[r])

\* An edit that no other of the group crossed has read each subscription once, and
\* if its own comes last, each has got the last of its places so far.
Placing(q) ==
    q.at = "order" =>
        /\ \A i, j \in DOMAIN q.rows : q.rows[i].name = q.rows[j].name => i = j
        /\ Existing = {q.rows[i].name : i \in DOMAIN q.rows}
        /\ \A i \in DOMAIN q.rows :
              q.rows[i].position = subscription[q.rows[i].name].position_in_group
        /\ q.rows[Len(q.rows)].name = q.sub =>
              \A k \in LastPlaces(q.order, q.place - 1) :
                  subscription[q.order[k]].position_in_group = k

OrderInv ==
    /\ OrderAsAsked
    /\ \A i \in DOMAIN askedOrder : askedOrder[i] \in Existing
    /\ \A r \in EditRequests : EditAt(r) \in Stages /\ editRequest[r].alone =>
          /\ \A s \in EditRequests : EditAt(s) \in Stages => s = r
          /\ Placing(editRequest[r])

CatalogueInv == ShapeInv /\ ProgressInv /\ OrderInv

=============================================================================
