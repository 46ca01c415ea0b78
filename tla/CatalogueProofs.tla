-------------------------- MODULE CatalogueProofs ---------------------------
(***************************************************************************)
(* The catalogue of subscriptions, for any number of edits: its types, and *)
(* the invariants of which follow that an edit nobody crossed leaves the   *)
(* subscription, its lists and the order of the group as they were asked   *)
(* for.                                                                    *)
(***************************************************************************)
EXTENDS Catalogue, FiniteSetTheorems, FunctionTheorems, SequenceTheorems, WellFoundedInduction, TLAPS

(***************************************************************************)
(* Units, rows and forms                                                   *)
(***************************************************************************)

LEMMA UnitFacts ==
    /\ "NULL" \notin DOMAIN UnitDays
    /\ "Day" \in DOMAIN UnitDays /\ UnitDays["Day"] = 1
    /\ \A u \in DOMAIN UnitDays : UnitDays[u] \in Nat \ {0}
    BY DEF UnitDays

LEMMA DaysType ==
    ASSUME NEW n \in Nat, NEW u \in DOMAIN UnitDays
    PROVE  /\ ConvertToDays(n, u) \in Nat
           /\ n # 0 => ConvertToDays(n, u) # 0
<1> DEFINE d == UnitDays[u]
<1>1. d \in Nat /\ d # 0
    BY UnitFacts
<1> HIDE DEF d
<1>2. n * d \in Nat /\ (n # 0 => n * d # 0)
    BY <1>1
<1> QED
    BY <1>2 DEF ConvertToDays, d

LEMMA DaysOfDays == ASSUME NEW n \in Nat PROVE ConvertToDays(n, "Day") = n
    BY UnitFacts DEF ConvertToDays

LEMMA BlankFacts ==
    /\ Blank \in Row /\ Whole(Blank)
    /\ Blank.price = 0 /\ Blank.period = 0 /\ Blank.period_count = 0
    /\ Blank.period_unit = "NULL" /\ Blank.position_in_group = 0
    BY DEF Blank, Row, Unit, Whole

\* The fields of a row that an update has written.
LEMMA WrittenFields ==
    ASSUME NEW row \in Row, NEW copy \in Row, NEW new \in Row
    PROVE  LET w == Written(row, copy, new) IN
           /\ w \in Row
           /\ w.price = IF new.price = copy.price THEN row.price ELSE new.price
           /\ w.period = IF new.period = copy.period THEN row.period ELSE new.period
           /\ w.period_count =
                 IF new.period_count = copy.period_count THEN row.period_count
                 ELSE new.period_count
           /\ w.period_unit =
                 IF new.period_unit = copy.period_unit THEN row.period_unit
                 ELSE new.period_unit
           /\ w.position_in_group =
                 IF new.position_in_group = copy.position_in_group
                 THEN row.position_in_group ELSE new.position_in_group
<1> DEFINE w == Written(row, copy, new)
<1>1. DOMAIN row = {"price", "period", "period_count", "period_unit", "position_in_group"}
    BY DEF Row
<1>2. \A c \in DOMAIN row : w[c] = IF new[c] = copy[c] THEN row[c] ELSE new[c]
    BY DEF Written
<1>3. DOMAIN w = DOMAIN row
    BY DEF Written
<1>4. w = [c \in DOMAIN row |-> w[c]]
    BY <1>3 DEF Written
<1>5. w \in Row
    BY <1>1, <1>2, <1>4 DEF Row
<1> QED
    BY <1>1, <1>2, <1>5

\* What a person types is a form, and one that the checks accept.
LEMMA TypedFormFacts ==
    ASSUME CatalogueOK, NEW s \in Sub, NEW form \in TypedForms(s)
    PROVE  /\ form \in Form /\ Wanted(form) \in Want
           /\ form.price \in FormPrice /\ form.period # 0 /\ form.period_unit # "NULL"
           /\ \A k \in List : form.lists[k] \subseteq EntriesOf(k, s)
           /\ form.import \subseteq Existing \ {s}
<1>1. Existing \subseteq Sub
    BY DEF CatalogueOK
<1>2. /\ form.price \in FormPrice /\ form.period \in FormCount /\ form.period_unit \in FormUnit
      /\ form.lists \in [List -> SUBSET (Feature \cup Existing)]
      /\ \A k \in List : form.lists[k] \subseteq IF k \in FormLists THEN EntriesOf(k, s) ELSE {}
      /\ form.import \in {{}} \cup {{i} : i \in Existing \ {s}}
      /\ form = [price |-> form.price, period |-> form.period, period_unit |-> form.period_unit,
                 lists |-> form.lists, import |-> form.import]
    BY DEF TypedForms
<1>3. /\ form.price \in Nat /\ form.period \in Nat /\ form.period # 0
      /\ form.period_unit \in Unit /\ form.period_unit # "NULL"
    BY <1>2, CatalogueFormsAssumption, UnitFacts DEF Unit
<1>4. form.lists \in ListsOfForm
    BY <1>1, <1>2 DEF ListsOfForm
<1>5. form.import \subseteq Existing \ {s} /\ form.import \in SUBSET Sub
    BY <1>1, <1>2
<1>6. form \in Form
    BY <1>2, <1>3, <1>4, <1>5 DEF Form
<1>7. Wanted(form) \in Want
    BY <1>3, <1>4 DEF Wanted, Want
<1> QED
    BY <1>2, <1>3, <1>5, <1>6, <1>7

(***************************************************************************)
(* Orders                                                                  *)
(***************************************************************************)

\* An order of a finite set names each member once.
LEMMA OrderFacts ==
    ASSUME NEW G, IsFiniteSet(G), NEW o \in Orders(G)
    PROVE  /\ o \in Seq(G) /\ Len(o) = Cardinality(G) /\ Len(o) \in Nat
           /\ DOMAIN o = 1 .. Len(o)
           /\ Range(o) = G
           /\ \A i, j \in DOMAIN o : o[i] = o[j] => i = j
<1> DEFINE n == Cardinality(G)
<1>1. n \in Nat
    BY FS_CardinalityType
<1>2. o \in [1 .. n -> G] /\ Range(o) = G
    BY DEF Orders
<1> HIDE DEF n
<1>3. DOMAIN o = 1 .. n /\ o \in Seq(G) /\ Len(o) = n
    BY <1>1, <1>2
<1>4. IsFiniteSet(1 .. n) /\ Cardinality(1 .. n) = n
    BY <1>1, FS_Interval
<1>5. \A x \in G : \E i \in 1 .. n : o[i] = x
    BY <1>2, <1>3 DEF Range
<1>6. o \in Surjection(1 .. n, G)
    BY <1>2, <1>5, Fun_IsSurj
<1>7. Cardinality(1 .. n) = Cardinality(G)
    BY <1>4 DEF n
<1>8. o \in Injection(1 .. n, G)
    BY <1>4, <1>6, <1>7, FS_SurjSameCardinalityImpliesInj
<1>9. \A i, j \in 1 .. n : o[i] = o[j] => i = j
    BY <1>8, Fun_InjectionProperties
<1> QED
    BY <1>1, <1>2, <1>3, <1>9 DEF n

\* What a form asks for is a sequence, and not an empty one.
LEMMA SelectionFacts ==
    ASSUME NEW G, IsFiniteSet(G), NEW o \in Selections(G)
    PROVE  /\ o \in Seq(G) /\ Len(o) \in Nat /\ DOMAIN o = 1 .. Len(o)
           /\ 1 \in 1 .. Len(o)
<1>1. Cardinality(G) \in Nat
    BY FS_CardinalityType
<1>2. PICK n \in 1 .. Cardinality(G) : o \in [1 .. n -> G]
    BY DEF Selections
<1>3. n \in Nat /\ 1 \in 1 .. n
    BY <1>1, <1>2
<1>4. o \in Seq(G) /\ DOMAIN o = 1 .. n
    BY <1>2, <1>3, SeqDef
<1>5. Len(o) = n
    BY <1>3, <1>4
<1> QED
    BY <1>3, <1>4, <1>5

\* The place that Match finds: the first one with either name.
LEMMA MatchFacts ==
    ASSUME NEW rows \in Seq([name : Sub, position : Nat]), NEW entry, NEW s,
           \E j \in DOMAIN rows : rows[j].name = s,
           NEW i, i = Match(rows, entry, s)
    PROVE  /\ i \in DOMAIN rows
           /\ rows[i].name \in {entry, s}
           /\ \A j \in DOMAIN rows : rows[j].name \in {entry, s} => i <= j
<1> DEFINE P == {j \in DOMAIN rows : rows[j].name \in {entry, s}}
<1>1. DOMAIN rows = 1 .. Len(rows) /\ Len(rows) \in Nat
    OBVIOUS
<1>2. P \subseteq Nat /\ P # {}
    BY <1>1
<1>3. \E m \in P : \A k \in P : m <= k
    <2> DEFINE R == {p \in Nat \X Nat : p[1] < p[2]}
    <2>1. IsWellFoundedOn(R, Nat)
        BY NatLessThanWellFounded DEF OpToRel
    <2> HIDE DEF P
    <2>2. PICK m \in P : \A k \in P : <<k, m>> \notin R
        <3> HIDE DEF R
        <3> QED
            BY <1>2, <2>1, WFMin
    <2>3. \A k \in P : ~(k < m)
        BY <1>2, <2>2
    <2> QED
        BY <1>2, <2>3
<1>4. \E m \in DOMAIN rows :
         /\ rows[m].name \in {entry, s}
         /\ \A j \in DOMAIN rows : rows[j].name \in {entry, s} => m <= j
    BY <1>3
<1> HIDE DEF P
<1> QED
    BY <1>4 DEF Match

(***************************************************************************)
(* Requests                                                                *)
(***************************************************************************)

\* What a request is at each of its stages.
LEMMA RequestKinds ==
    ASSUME CatalogueOK, NEW r \in EditRequests
    PROVE  /\ EditAt(r) \in Stages => editRequest[r] \in Edit /\ editRequest[r].sub \in Sub
           /\ EditAt(r) = "page" => editRequest[r] \in Page /\ editRequest[r].sub \in Sub
           /\ EditAt(r) \in Stages \cup {"unsent", "page", "done"}
           /\ EditAt(r) \in Stages <=> EditAt(r) \notin {"unsent", "page", "done"}
           /\ editRequest[r] \in {NoForm, Closed} \cup Page \cup Edit
<1>1. editRequest[r] \in {NoForm, Closed} \cup Page \cup Edit
    BY DEF CatalogueOK
<1>2. CASE editRequest[r] \in {NoForm, Closed}
    BY <1>1, <1>2 DEF EditAt, NoForm, Closed, Stages
<1>3. CASE editRequest[r] \in Page
    BY <1>1, <1>3 DEF EditAt, Page, Stages
<1>4. CASE editRequest[r] \in Edit
    BY <1>1, <1>4 DEF EditAt, Edit, Stages
<1> QED
    BY <1>1, <1>2, <1>3, <1>4

\* The editors of a subscription are the requests at work on it.
LEMMA EditorFacts ==
    ASSUME CatalogueOK
    PROVE  /\ \A s, r : r \in Editors(s) <=>
                 r \in EditRequests /\ EditAt(r) \in Stages /\ editRequest[r].sub = s
           /\ \A r : r \in UNION {Editors(t) : t \in Sub} <=>
                 r \in EditRequests /\ EditAt(r) \in Stages
<1>1. \A s, r : r \in Editors(s) <=>
         r \in EditRequests /\ EditAt(r) \in Stages /\ editRequest[r].sub = s
    BY RequestKinds DEF Editors
<1>2. \A r : r \in UNION {Editors(t) : t \in Sub} <=> \E t \in Sub : r \in Editors(t)
    OBVIOUS
<1> QED
    BY <1>1, <1>2, RequestKinds

\* The same of the next state, of a step that keeps the types.
LEMMA EditorFactsNext ==
    ASSUME CatalogueOK'
    PROVE  \A s, r : r \in Editors(s)' <=>
              r \in EditRequests /\ EditAt(r)' \in Stages /\ editRequest'[r].sub = s
<1>1. ASSUME NEW r \in EditRequests
      PROVE  EditAt(r)' \in Stages <=> EditAt(r)' \notin {"unsent", "page", "done"}
    <2>1. editRequest'[r] \in {NoForm, Closed} \cup Page \cup Edit
        BY DEF CatalogueOK
    <2>2. editRequest'[r].at \in Stages \cup {"unsent", "page", "done"}
        BY <2>1 DEF NoForm, Closed, Page, Edit
    <2> QED
        BY <2>2 DEF EditAt, Stages
<1> QED
    BY <1>1 DEF Editors, EditAt

\* A request goes on to its next stage.
Continues(r, p) == editRequest' = [editRequest EXCEPT ![r] = p]

LEMMA ContinuesFacts ==
    ASSUME CatalogueOK, NEW r \in EditRequests, NEW p, Continues(r, p)
    PROVE  /\ editRequest'[r] = p /\ EditAt(r)' = p.at
           /\ \A s \in EditRequests : s # r =>
                 editRequest'[s] = editRequest[s] /\ EditAt(s)' = EditAt(s)
           /\ p \in {NoForm, Closed} \cup Page \cup Edit =>
                 editRequest' \in [EditRequests -> {NoForm, Closed} \cup Page \cup Edit]
    BY DEF CatalogueOK, Continues, EditAt

\* Forms and requests stay sound while subscriptions are added.
LEMMA FormsGrow ==
    ASSUME Existing \subseteq Existing', NEW form, NEW s, FormInv(form, s)
    PROVE  FormInv(form, s)'
    BY DEF FormInv, EntriesOf

LEMMA PagesGrow ==
    ASSUME Existing \subseteq Existing', NEW q, PageInv(q)
    PROVE  PageInv(q)'
    BY FormsGrow DEF PageInv

LEMMA EditsGrow ==
    ASSUME Existing \subseteq Existing', NEW q, EditInv(q)
    PROVE  EditInv(q)'
<1>1. FormInv(q.form, q.sub)'
    BY FormsGrow DEF EditInv
<1>2. EntriesOf(q.list, q.sub) \subseteq EntriesOf(q.list, q.sub)'
    BY DEF EntriesOf
<1> QED
    BY <1>1, <1>2 DEF EditInv

(***************************************************************************)
(* What a step of an edit under way leaves alone                           *)
(***************************************************************************)

LEMMA ShapeFrame ==
    ASSUME CatalogueOK, ShapeInv, NEW r \in EditRequests, NEW p, Continues(r, p),
           Existing' = Existing,
           \A s \in Existing : Whole(subscription'[s]),
           p.at = "page" => PageInv(p), p.at \in Stages => EditInv(p)
    PROVE  ShapeInv'
<1>1. \A s \in Existing' : Whole(subscription[s])'
    BY DEF Whole
<1>2. ASSUME NEW s \in EditRequests
      PROVE  /\ (EditAt(s) = "page" => PageInv(editRequest[s]))'
             /\ (EditAt(s) \in Stages => EditInv(editRequest[s]))'
    <2>1. PICK q : q = editRequest'[s]
        OBVIOUS
    <2>2. q.at = "page" => PageInv(q)
        BY <2>1, ContinuesFacts DEF ShapeInv, EditAt
    <2>3. q.at \in Stages => EditInv(q)
        BY <2>1, ContinuesFacts DEF ShapeInv, EditAt
    <2>4. q.at = "page" => PageInv(q)'
        BY <2>2, PagesGrow
    <2>5. q.at \in Stages => EditInv(q)'
        BY <2>3, EditsGrow
    <2>6. PageInv(q)' <=> PageInv(editRequest[s])'
        BY <2>1 DEF PageInv, FormInv, EntriesOf
    <2>7. EditInv(q)' <=> EditInv(editRequest[s])'
        BY <2>1 DEF EditInv, FormInv, EntriesOf, Whole
    <2> QED
        BY <2>1, <2>4, <2>5, <2>6, <2>7 DEF EditAt
<1>3. IsFiniteSet(Existing)'
    BY DEF ShapeInv
<1> QED
    BY <1>1, <1>2, <1>3 DEF ShapeInv

\* A subscription keeps what was noted of it, what was asked for, its price, its
\* period, and its lists; only its position may change.
KeepsAll(t) ==
    /\ asked'[t] = asked[t]
    /\ subscription'[t].price = subscription[t].price
    /\ subscription'[t].period = subscription[t].period
    /\ subscription'[t].period_count = subscription[t].period_count
    /\ subscription'[t].period_unit = subscription[t].period_unit
    /\ \A k \in List : listed'[k][t] = listed[k][t]
    /\ t \in halfDone' <=> t \in halfDone

AsAsked(s) ==
    /\ subscription[s].price = asked[s].price
    /\ subscription[s].period_unit = asked[s].period_unit
    /\ subscription[s].period_count
          = ConvertToDays(subscription[s].period, subscription[s].period_unit)
    /\ \A k \in List : listed[k][s] = asked[s].lists[k]
    /\ asked[s].period_unit = "Day" =>
          LinkDays(s) = ConvertToDays(asked[s].period, asked[s].period_unit)

LEMMA AllAsAsked ==
    EditIsComplete /\ LengthAsAsked <=> \A s \in Existing : Settled(s) => AsAsked(s)
    BY DEF EditIsComplete, LengthAsAsked, AsAsked

LEMMA AllAsAskedNext ==
    ASSUME \A s \in Existing' : Settled(s)' => AsAsked(s)'
    PROVE  EditIsComplete' /\ LengthAsAsked'
    BY DEF EditIsComplete, LengthAsAsked, AsAsked, Settled, Editing

LEMMA AsAskedKept ==
    ASSUME NEW s, AsAsked(s), KeepsAll(s)
    PROVE  AsAsked(s)'
    BY DEF AsAsked, KeepsAll, LinkDays, ConvertToDays

LEMMA HandledInList ==
    ASSUME NEW q
    PROVE  Handled(q) \subseteq List
    BY DEF Handled, List

LEMMA ProgressKept ==
    ASSUME NEW q, Progress(q), KeepsAll(q.sub),
           q.at \in {"delete", "import", "create"} => q.list \in List
    PROVE  Progress(q)'
<1>1. \A k \in Handled(q) : listed'[k][q.sub] = listed[k][q.sub]
    BY HandledInList DEF KeepsAll
<1>2. Handled(q)' = Handled(q)
    BY DEF Handled
<1>3. q.at \in {"delete", "import", "create"} =>
         listed'[q.list][q.sub] = listed[q.list][q.sub]
    BY DEF KeepsAll
<1> QED
    BY <1>1, <1>2, <1>3 DEF Progress, KeepsAll, ConvertToDays

\* A request that stays as it is edits what it did.
LEMMA EditorsOfOthers ==
    ASSUME CatalogueOK, CatalogueOK', NEW r, NEW s, NEW x, x # r,
           \A y \in EditRequests : y # r =>
              editRequest'[y] = editRequest[y] /\ EditAt(y)' = EditAt(y)
    PROVE  x \in Editors(s)' <=> x \in Editors(s)
<1>1. x \in Editors(s) <=>
         x \in EditRequests /\ EditAt(x) \in Stages /\ editRequest[x].sub = s
    BY EditorFacts
<1>2. x \in Editors(s)' <=>
         x \in EditRequests /\ EditAt(x)' \in Stages /\ editRequest'[x].sub = s
    BY EditorFactsNext
<1> QED
    BY <1>1, <1>2

LEMMA ProgressFrame ==
    ASSUME CatalogueOK, CatalogueOK', ShapeInv, ProgressInv,
           NEW r \in EditRequests, NEW q, q = editRequest[r], q.at \in Stages,
           NEW p, Continues(r, p), p.at \in Stages \cup {"done"},
           p.at \in Stages => p.sub = q.sub,
           Existing' = Existing,
           \A t \in Existing \ {q.sub} : KeepsAll(t),
           p.at = "done" => (Settled(q.sub)' => AsAsked(q.sub)'),
           p.at \in Stages /\ p.onItsOwn => q.onItsOwn /\ Progress(p)'
    PROVE  ProgressInv'
<1>1. /\ editRequest'[r] = p /\ EditAt(r)' = p.at
      /\ \A s \in EditRequests : s # r =>
            editRequest'[s] = editRequest[s] /\ EditAt(s)' = EditAt(s)
    BY ContinuesFacts
<1>2. \A s : s # q.sub => Editors(s)' = Editors(s)
    <2>1. ASSUME NEW s, s # q.sub
          PROVE  Editors(s)' = Editors(s)
        <3>1. r \notin Editors(s)
            BY <2>1, EditorFacts
        <3>2. r \notin Editors(s)'
            BY <1>1, <2>1, EditorFactsNext
        <3>3. \A x : x # r => (x \in Editors(s)' <=> x \in Editors(s))
            BY <1>1, EditorsOfOthers
        <3> QED
            BY <3>1, <3>2, <3>3
    <2> QED
        BY <2>1
<1>3. p.at \in Stages => Editors(q.sub)' = Editors(q.sub) /\ r \in Editors(q.sub)
    <2>1. r \in Editors(q.sub)
        BY EditorFacts DEF EditAt
    <2>2. p.at \in Stages => r \in Editors(q.sub)'
        BY <1>1, EditorFactsNext
    <2>3. \A x : x # r => (x \in Editors(q.sub)' <=> x \in Editors(q.sub))
        BY <1>1, EditorsOfOthers
    <2> QED
        BY <2>1, <2>2, <2>3
<1>4. EditIsComplete' /\ LengthAsAsked'
    <2>1. ASSUME NEW s \in Existing, Settled(s)'
          PROVE  AsAsked(s)'
        <3>1. CASE s # q.sub
            <4>1. Settled(s)
                BY <1>2, <2>1, <3>1 DEF Settled, Editing, KeepsAll
            <4>2. AsAsked(s)
                BY <4>1, AllAsAsked DEF ProgressInv
            <4> QED
                BY <3>1, <4>2, AsAskedKept
        <3>2. CASE s = q.sub
            <4>1. p.at = "done"
                BY <1>3, <2>1, <3>2 DEF Settled, Editing
            <4> QED
                BY <2>1, <3>2, <4>1 DEF Settled, Editing, AsAsked
        <3> QED
            BY <3>1, <3>2
    <2> QED
        BY <2>1, AllAsAskedNext
<1>5. ASSUME NEW s \in EditRequests,
             editRequest'[s].at \in Stages \cup {"page"}, editRequest'[s].onItsOwn
      PROVE  IF EditAt(s)' = "page" THEN Shown(editRequest[s])'
             ELSE Editors(editRequest[s].sub)' = {s} /\ Progress(editRequest[s])'
    <2>1. CASE s = r
        <3>1. p.at \in Stages /\ p.onItsOwn /\ EditAt(s)' # "page"
            BY <1>1, <1>5, <2>1 DEF Stages
        <3>2. q.onItsOwn /\ Progress(p)'
            BY <3>1
        <3>3. Editors(q.sub) = {r}
            BY <3>2 DEF ProgressInv, EditAt, Stages
        <3>4. Editors(editRequest[s].sub)' = {s}
            BY <1>1, <1>3, <2>1, <3>1, <3>3 DEF Editors
        <3>5. Progress(editRequest[s])'
            BY <1>1, <2>1, <3>2 DEF Progress, Handled
        <3> QED
            BY <3>1, <3>4, <3>5
    <2>2. CASE s # r
        <3>1. PICK w : w = editRequest[s] /\ editRequest'[s] = w
            BY <1>1, <2>2
        <3>2. w.at \in Stages \cup {"page"} /\ w.onItsOwn
            BY <1>5, <3>1
        <3>3. CASE w.at = "page"
            <4>1. Shown(w)
                BY <3>1, <3>2, <3>3 DEF ProgressInv, EditAt
            <4>2. Shown(editRequest[s])'
                BY <3>1, <4>1 DEF Shown
            <4> QED
                BY <1>1, <2>2, <3>1, <3>3, <4>2 DEF EditAt
        <3>4. CASE w.at # "page"
            <4>1. Editors(w.sub) = {s} /\ Progress(w)
                BY <3>1, <3>2, <3>4 DEF ProgressInv, EditAt
            <4>2. w.at \in Stages /\ EditInv(w)
                BY <3>1, <3>2, <3>4 DEF ShapeInv, EditAt
            <4>3. w.sub # q.sub
                BY <2>2, <4>1, EditorFacts DEF EditAt
            <4>4. Editors(editRequest[s].sub)' = {s}
                <5>1. Editors(w.sub)' = {s}
                    BY <1>2, <4>1, <4>3
                <5> QED
                    BY <3>1, <5>1 DEF Editors
            <4>5. w.at \in {"delete", "import", "create"} => w.list \in List
                <5>1. w \in Edit
                    BY <3>1, <4>2, RequestKinds DEF EditAt
                <5> QED
                    BY <4>2, <5>1 DEF EditInv, Edit
            <4>6. Progress(w)'
                BY <4>1, <4>2, <4>3, <4>5, ProgressKept DEF EditInv
            <4>7. Progress(editRequest[s])'
                BY <3>1, <4>6 DEF Progress, Handled
            <4> QED
                BY <1>1, <2>2, <3>1, <3>4, <4>4, <4>7 DEF EditAt
        <3> QED
            BY <3>3, <3>4
    <2> QED
        BY <2>1, <2>2
<1> QED
    BY <1>4, <1>5 DEF ProgressInv

LEMMA OrderFrame ==
    ASSUME CatalogueOK, CatalogueOK', ShapeInv, OrderInv,
           NEW r \in EditRequests, NEW q, q = editRequest[r], q.at \in Stages,
           NEW p, Continues(r, p), p.at \in Stages \cup {"done"},
           Existing' = Existing,
           p.at \in Stages =>
              /\ p.sub = q.sub /\ (p.alone => q.alone)
              /\ askedOrder' = askedOrder /\ misordered' = misordered
              /\ p.alone => Placing(p)',
           p.at = "done" =>
              OrderAsAsked' /\ \A i \in DOMAIN askedOrder' : askedOrder'[i] \in Existing
    PROVE  OrderInv'
<1>1. /\ editRequest'[r] = p /\ EditAt(r)' = p.at
      /\ \A s \in EditRequests : s # r =>
            editRequest'[s] = editRequest[s] /\ EditAt(s)' = EditAt(s)
    BY ContinuesFacts
<1>2. EditAt(r) \in Stages /\ q.sub \in Existing
    BY DEF EditAt, ShapeInv, EditInv
<1>3. CASE p.at \in Stages
    <2>1. OrderAsAsked'
        <3>1. r \in Editors(q.sub)'
            BY <1>1, <1>3, EditorFactsNext
        <3> QED
            BY <1>2, <3>1 DEF OrderAsAsked, Editing
    <2>2. \A i \in DOMAIN askedOrder' : askedOrder'[i] \in Existing'
        BY <1>3 DEF OrderInv
    <2>3. ASSUME NEW s \in EditRequests, EditAt(s)' \in Stages, editRequest'[s].alone
          PROVE  /\ \A x \in EditRequests : EditAt(x)' \in Stages => x = s
                 /\ Placing(editRequest[s])'
        <3>1. s = r /\ q.alone
            BY <1>1, <1>2, <1>3, <2>3 DEF OrderInv
        <3>2. \A x \in EditRequests : EditAt(x)' \in Stages => x = s
            BY <1>1, <1>2, <3>1 DEF OrderInv
        <3>3. Placing(p)'
            BY <1>1, <1>3, <2>3, <3>1
        <3>4. Placing(editRequest[s])'
            BY <1>1, <3>1, <3>3 DEF Placing
        <3> QED
            BY <3>2, <3>4
    <2> QED
        BY <2>1, <2>2, <2>3 DEF OrderInv
<1>4. CASE p.at = "done"
    <2>1. p.at \notin Stages
        BY <1>4 DEF Stages
    <2>2. ASSUME NEW s \in EditRequests, EditAt(s)' \in Stages, editRequest'[s].alone
          PROVE  FALSE
        <3>1. s # r
            BY <1>1, <2>1, <2>2
        <3> QED
            BY <1>1, <1>2, <2>2, <3>1 DEF OrderInv
    <2> QED
        BY <1>4, <2>2 DEF OrderInv
<1> QED
    BY <1>3, <1>4

\* The order has not begun.
LEMMA PlacingBefore ==
    ASSUME NEW p, p.at # "order"
    PROVE  Placing(p)'
    BY DEF Placing

(***************************************************************************)
(* The steps of an edit under way                                          *)
(***************************************************************************)

LEMMA WholeFacts ==
    ASSUME NEW row, Whole(row)
    PROVE  row.price = 0 <=> row.period = 0
    BY CatalogueFormsAssumption DEF Whole

\* Taking the price off leaves a whole row, whatever the copy was; filling it in
\* from a form does too.
LEMMA BlankWhole ==
    ASSUME NEW row \in Row, Whole(row), NEW copy \in Row, Whole(copy)
    PROVE  Written(row, copy, Blank) \in Row /\ Whole(Written(row, copy, Blank))
<1> DEFINE w == Written(row, copy, Blank)
<1>1. /\ w \in Row
      /\ w.price = IF 0 = copy.price THEN row.price ELSE 0
      /\ w.period = IF 0 = copy.period THEN row.period ELSE 0
      /\ w.period_count = IF 0 = copy.period_count THEN row.period_count ELSE 0
      /\ w.period_unit = IF "NULL" = copy.period_unit THEN row.period_unit ELSE "NULL"
    BY BlankFacts, WrittenFields
<1> HIDE DEF w
<1>2. Whole(w)
    BY <1>1, CatalogueFormsAssumption DEF Whole
<1> QED
    BY <1>1, <1>2 DEF w

LEMMA FilledFacts ==
    ASSUME NEW form \in Form,
           form.price \in FormPrice, form.period # 0, form.period_unit # "NULL"
    PROVE  /\ Filled(form) \in Row
           /\ Filled(form).price = form.price /\ form.price # 0
           /\ Filled(form).period = form.period
           /\ Filled(form).period_count = ConvertToDays(form.period, form.period_unit)
           /\ ConvertToDays(form.period, form.period_unit) \in Nat \ {0}
           /\ Filled(form).period_unit = form.period_unit
           /\ Filled(form).position_in_group = 0
<1>1. form.period \in Nat /\ form.price \in Nat /\ form.period_unit \in DOMAIN UnitDays
    BY DEF Form, Unit
<1>2. ConvertToDays(form.period, form.period_unit) \in Nat \ {0}
    BY <1>1, DaysType
<1> DEFINE days == ConvertToDays(form.period, form.period_unit)
<1> HIDE DEF days
<1>3. [Blank EXCEPT !.price = form.price, !.period = form.period,
                    !.period_unit = form.period_unit, !.period_count = days] \in Row
    BY <1>1, <1>2 DEF days, Blank, Row, Unit
<1> QED
    BY <1>1, <1>2, <1>3, CatalogueFormsAssumption DEF Filled, days, Blank

LEMMA FillWhole ==
    ASSUME NEW row \in Row, NEW form \in Form,
           form.price \in FormPrice, form.period # 0, form.period_unit # "NULL"
    PROVE  LET w == Written(row, Blank, Filled(form)) IN
           /\ w \in Row /\ Whole(w)
           /\ w.price = form.price /\ w.period = form.period
           /\ w.period_unit = form.period_unit
           /\ w.period_count = ConvertToDays(form.period, form.period_unit)
           /\ w.position_in_group = row.position_in_group
<1> DEFINE w == Written(row, Blank, Filled(form))
<1>1. /\ w \in Row
      /\ w.price = form.price /\ w.period = form.period
      /\ w.period_unit = form.period_unit
      /\ w.period_count = ConvertToDays(form.period, form.period_unit)
      /\ w.position_in_group = row.position_in_group
    BY BlankFacts, FilledFacts, WrittenFields
<1> HIDE DEF w
<1>2. Whole(w)
    BY <1>1, FilledFacts DEF Whole
<1> QED
    BY <1>1, <1>2 DEF w

LEMMA TypesFrame ==
    ASSUME CatalogueOK, NEW r \in EditRequests, NEW p, Continues(r, p), p \in {Closed} \cup Page \cup Edit,
           Existing' = Existing,
           \A s \in Existing : subscription'[s] \in Row /\ Whole(subscription'[s]),
           listed' = listed \/ ListedOK',
           asked' \in [Existing -> Want], halfDone' \in SUBSET Sub,
           askedOrder' \in Seq(Sub), misordered' \in BOOLEAN
    PROVE  CatalogueOK'
<1>1. editRequest' \in [EditRequests -> {NoForm, Closed} \cup Page \cup Edit]
    BY ContinuesFacts
<1>2. \A s \in Existing' : subscription'[s].price = 0 <=> subscription'[s].period = 0
    BY WholeFacts
<1>3. \A k \in List, s \in Sub : EntriesOf(k, s)' = EntriesOf(k, s)
    BY DEF EntriesOf
<1> QED
    BY <1>1, <1>2, <1>3 DEF CatalogueOK, ListedOK

LEMMA BlankStep ==
    ASSUME CatalogueOK, CatalogueInv, NEW r \in EditRequests, BlankRow(r)
    PROVE  CatalogueOK' /\ CatalogueInv'
<1>1. PICK q : q = editRequest[r]
    OBVIOUS
<1>2. /\ q.at = "blank" /\ q.at \in Stages /\ EditAt(r) \in Stages
      /\ UNCHANGED <<listed, asked, halfDone, askedOrder, misordered>>
    BY <1>1 DEF BlankRow, EditAt, Stages
<1>3. q \in Edit /\ EditInv(q) /\ q.copy \in Row /\ q.sub \in Existing /\ q.sub \in Sub
    BY <1>1, <1>2, RequestKinds DEF CatalogueInv, ShapeInv, EditInv, Edit
<1>4. PICK p : p = [q EXCEPT !.at = "fill", !.copy = Blank]
    OBVIOUS
<1>5. /\ p \in Edit
      /\ p.at = "fill" /\ p.copy = Blank /\ p.sub = q.sub /\ p.form = q.form
      /\ p.list = q.list /\ p.todo = q.todo /\ p.place = q.place /\ p.order = q.order
      /\ p.want = q.want /\ p.alone = q.alone /\ p.onItsOwn = q.onItsOwn
    <2>1. p \in Edit
        BY <1>3, <1>4, BlankFacts DEF Edit, Stages
    <2> QED
        BY <1>3, <1>4, <2>1 DEF Edit
<1>6. Continues(r, p)
    BY <1>1, <1>4 DEF BlankRow, Continues
<1>7. PICK w : w = Written(subscription[q.sub], q.copy, Blank)
    OBVIOUS
<1>8. w \in Row /\ Whole(w)
    BY <1>3, <1>7, BlankWhole DEF CatalogueOK, CatalogueInv, ShapeInv, EditInv
<1>9. subscription' = [subscription EXCEPT ![q.sub] = w]
    BY <1>1, <1>7 DEF BlankRow
<1>10. Existing' = Existing /\ subscription'[q.sub] = w
       /\ \A s \in Existing : s # q.sub => subscription'[s] = subscription[s]
    BY <1>3, <1>9 DEF Existing
<1>11. CatalogueOK'
    <2>1. \A s \in Existing : subscription'[s] \in Row /\ Whole(subscription'[s])
        BY <1>8, <1>10 DEF CatalogueOK, CatalogueInv, ShapeInv
    <2> QED
        BY <1>2, <1>5, <1>6, <1>10, <2>1, TypesFrame DEF CatalogueOK
<1>12. EditInv(p)
    BY <1>2, <1>3, <1>5, BlankFacts DEF EditInv
<1>13. ShapeInv'
    <2>1. \A s \in Existing : Whole(subscription'[s])
        BY <1>8, <1>10 DEF CatalogueInv, ShapeInv
    <2> QED
        BY <1>5, <1>6, <1>10, <1>12, <2>1, ShapeFrame DEF CatalogueInv, Stages
<1>14. ProgressInv'
    <2>1. \A t \in Existing \ {q.sub} : KeepsAll(t)
        BY <1>2, <1>10 DEF KeepsAll
    <2>2. q.onItsOwn => Progress(p)'
        <3>1. q.onItsOwn => Progress(q)
            BY <1>1, <1>2 DEF CatalogueInv, ProgressInv, EditAt
        <3>2. Handled(p) = {} /\ Handled(q) = {}
            BY <1>2, <1>3, <1>5 DEF Handled, EditInv
        <3> QED
            BY <1>2, <1>5, <3>1, <3>2 DEF Progress, Handled
    <2> QED
        BY <1>1, <1>2, <1>5, <1>6, <1>10, <1>11, <2>1, <2>2, ProgressFrame
        DEF CatalogueInv, Stages
<1>15. OrderInv'
    <2>1. q.alone => Placing(q)
        BY <1>1, <1>2 DEF CatalogueInv, OrderInv
    <2>2. q.alone => Placing(p)'
        BY <1>5, <1>10, <2>1, PlacingBefore
    <2> QED
        BY <1>1, <1>2, <1>5, <1>6, <1>10, <1>11, <2>2, OrderFrame DEF CatalogueInv, Stages
<1> QED
    BY <1>11, <1>13, <1>14, <1>15 DEF CatalogueInv

\* What an edit keeps from one list to the next.
SameEdit(p, q) ==
    /\ p.sub = q.sub /\ p.form = q.form /\ p.copy = q.copy
    /\ p.order = q.order /\ p.place = q.place /\ p.rows = q.rows
    /\ p.want = q.want /\ p.onItsOwn = q.onItsOwn /\ p.alone = q.alone

LEMMA NextListFacts ==
    ASSUME NEW q \in Edit, EditInv(q), q.at \in {"fill", "load", "delete", "import", "create"},
           NEW p, p = ToNextList(q)
    PROVE  /\ p \in Edit /\ EditInv(p) /\ SameEdit(p, q)
           /\ p.at \in {"load", "group"}
           /\ q.list = "none" => Handled(p) = {} /\ Handled(q) = {}
           /\ q.list # "none" => Handled(p) = Handled(q) \cup {q.list} /\ q.list \in List
           /\ q.list \notin Handled(q)
<1>1. q.list \in {"none", "features", "upgrades", "downgrades"}
    BY DEF Edit, List
<1>2. q.copy = Blank /\ q.place = 1 /\ (q.list = "none" <=> q.at = "fill")
    BY DEF EditInv
<1>3. CASE q.list = "downgrades"
    <2>1. p = [q EXCEPT !.at = "group"]
        BY <1>3 DEF ToNextList
    <2>2. p \in Edit
        BY <2>1 DEF Edit, Stages
    <2>3. p.at = "group" /\ p.list = q.list /\ SameEdit(p, q)
        BY <2>1 DEF Edit, SameEdit
    <2>4. EditInv(p)
        BY <1>2, <1>3, <2>3 DEF EditInv, SameEdit
    <2>5. Handled(p) = List /\ Handled(q) = {"features", "upgrades"}
        BY <1>3, <2>3 DEF Handled, List
    <2> QED
        BY <1>3, <2>2, <2>3, <2>4, <2>5 DEF List
<1>4. CASE q.list # "downgrades"
    <2>1. PICK k : k = ListAfter[q.list]
        OBVIOUS
    <2>2. /\ k \in List /\ k # "none"
          /\ q.list = "none" => k = "features"
          /\ q.list = "features" => k = "upgrades"
          /\ q.list = "upgrades" => k = "downgrades"
        BY <1>1, <1>4, <2>1 DEF ListAfter, List
    <2>3. p = [q EXCEPT !.at = "load", !.list = k]
        BY <1>4, <2>1 DEF ToNextList
    <2>4. p \in Edit
        BY <2>2, <2>3 DEF Edit, Stages
    <2>5. p.at = "load" /\ p.list = k /\ SameEdit(p, q)
        BY <2>3 DEF Edit, SameEdit
    <2>6. EditInv(p)
        BY <1>2, <2>2, <2>5 DEF EditInv, SameEdit
    <2>7. /\ q.list = "none" => Handled(p) = {} /\ Handled(q) = {}
          /\ q.list = "features" => Handled(p) = {"features"} /\ Handled(q) = {}
          /\ q.list = "upgrades" => Handled(p) = {"features", "upgrades"} /\ Handled(q) = {"features"}
        BY <2>2, <2>5 DEF Handled
    <2> QED
        BY <1>1, <1>4, <2>4, <2>5, <2>6, <2>7 DEF List
<1> QED
    BY <1>3, <1>4

LEMMA CreateFacts ==
    ASSUME NEW q \in Edit, EditInv(q), q.at \in {"load", "delete", "import"},
           NEW imported \in SUBSET (Feature \cup Sub), imported \subseteq EntriesOf(q.list, q.sub),
           NEW p, p = ToCreate(q, imported)
    PROVE  /\ p \in Edit /\ EditInv(p) /\ SameEdit(p, q) /\ p.at \in {"load", "group", "create"}
           /\ \/ q.form.lists[q.list] \cup imported = {} /\ p = ToNextList(q)
              \/ /\ p.at = "create" /\ p.list = q.list
                 /\ p.todo = q.form.lists[q.list] \cup imported
                 /\ Handled(p) = Handled(q)
<1>1. PICK entries : entries = q.form.lists[q.list] \cup imported
    OBVIOUS
<1>2. q.list \in List /\ q.copy = Blank /\ q.place = 1
    BY DEF EditInv, Edit
<1>3. entries \subseteq EntriesOf(q.list, q.sub)
    BY <1>1, <1>2 DEF EditInv, FormInv
<1>4. entries \in SUBSET (Feature \cup Sub)
    BY <1>1, <1>2 DEF Edit, Form, ListsOfForm
<1>5. CASE entries = {}
    BY <1>1, <1>5, NextListFacts DEF ToCreate
<1>6. CASE entries # {}
    <2>1. p = [q EXCEPT !.at = "create", !.todo = entries]
        BY <1>1, <1>6 DEF ToCreate
    <2>2. p \in Edit
        BY <1>4, <2>1 DEF Edit, Stages
    <2>3. p.at = "create" /\ p.list = q.list /\ p.todo = entries /\ SameEdit(p, q)
        BY <2>1 DEF Edit, SameEdit
    <2>4. EditInv(p)
        BY <1>2, <1>3, <2>3 DEF EditInv, SameEdit, List
    <2>5. Handled(p) = Handled(q)
        BY <2>3 DEF Handled
    <2> QED
        BY <1>1, <2>2, <2>3, <2>4, <2>5
<1> QED
    BY <1>5, <1>6

LEMMA DeletedFacts ==
    ASSUME NEW q \in Edit, EditInv(q), q.at \in {"load", "delete"},
           NEW p, p = AfterDeletes(q)
    PROVE  /\ p \in Edit /\ EditInv(p) /\ SameEdit(p, q)
           /\ p.at \in {"load", "group", "create", "import"}
           /\ \/ p = ToCreate(q, {})
              \/ p.at = "import" /\ p.list = q.list /\ q.list = "features"
<1>1. CASE q.list = "features" /\ q.form.import # {}
    <2>1. p = [q EXCEPT !.at = "import"]
        BY <1>1 DEF AfterDeletes
    <2>2. p \in Edit
        BY <2>1 DEF Edit, Stages
    <2>3. p.at = "import" /\ p.list = q.list /\ SameEdit(p, q)
        BY <2>1 DEF Edit, SameEdit
    <2>4. EditInv(p)
        BY <1>1, <2>3 DEF EditInv, SameEdit
    <2> QED
        BY <1>1, <2>2, <2>3, <2>4
<1>2. CASE ~(q.list = "features" /\ q.form.import # {})
    <2>1. p = ToCreate(q, {})
        BY <1>2 DEF AfterDeletes
    <2> QED
        BY <2>1, CreateFacts
<1> QED
    BY <1>1, <1>2

\* The row has the columns of the form.
RowFilled(q) ==
    LET row == subscription[q.sub] IN
    /\ row.price = q.form.price /\ row.period = q.form.period
    /\ row.period_unit = q.form.period_unit
    /\ row.period_count = ConvertToDays(q.form.period, q.form.period_unit)

\* What was asked for, as far as the form has it.
FormAsWanted(q) ==
    /\ q.form.price = q.want.price /\ q.form.period_unit = q.want.period_unit
    /\ q.want.period_unit = "Day" => q.form.period = q.want.period

\* The progress of an edit past the row, put together from its parts.
LEMMA ProgressParts ==
    ASSUME NEW q, NEW p, SameEdit(p, q), FormAsWanted(q), RowFilled(q)',
           p.at \notin {"blank", "fill"},
           \A k \in List : \/ q.form.lists[k] = q.want.lists[k]
                           \/ k = "features" /\ (p.at = "create" \/ k \in Handled(p)),
           \A k \in Handled(p) : listed'[k][q.sub] = q.want.lists[k],
           p.at = "delete" => listed'[p.list][q.sub] = p.todo,
           p.at = "import" => listed'[p.list][q.sub] = {},
           p.at = "create" => listed'[p.list][q.sub] \cup p.todo = q.want.lists[p.list]
    PROVE  Progress(p)'
<1>1. Handled(p)' = Handled(p)
    BY DEF Handled
<1>2. p.sub = q.sub /\ p.form = q.form /\ p.want = q.want
    BY DEF SameEdit
<1> QED
    BY <1>1, <1>2 DEF Progress, FormAsWanted, RowFilled, ConvertToDays

LEMMA NextListProgress ==
    ASSUME NEW q \in Edit, EditInv(q), q.at \in {"fill", "load", "delete", "import", "create"},
           NEW p, p = ToNextList(q), Progress(q), RowFilled(q)',
           \A k \in Handled(q) : listed'[k][q.sub] = listed[k][q.sub],
           q.list \in List => listed'[q.list][q.sub] = q.want.lists[q.list]
    PROVE  Progress(p)'
<1>1. /\ SameEdit(p, q) /\ p.at \in {"load", "group"}
      /\ q.list = "none" => Handled(p) = {} /\ Handled(q) = {}
      /\ q.list # "none" => Handled(p) = Handled(q) \cup {q.list} /\ q.list \in List
    BY NextListFacts
<1>2. FormAsWanted(q)
    BY DEF Progress, FormAsWanted
<1>3. \A k \in Handled(p) : listed'[k][q.sub] = q.want.lists[k]
    BY <1>1 DEF Progress
<1>4. q.at = "create" => "features" \in Handled(p)
    <2>1. q.at = "create" => q.list \in {"features", "upgrades", "downgrades"}
        BY <1>1 DEF EditInv, Edit, List
    <2>2. q.list \in {"upgrades", "downgrades"} => "features" \in Handled(q)
        BY DEF Handled, List
    <2> QED
        BY <1>1, <2>1, <2>2
<1>5. \A k \in List : \/ q.form.lists[k] = q.want.lists[k]
                      \/ k = "features" /\ (p.at = "create" \/ k \in Handled(p))
    BY <1>1, <1>4 DEF Progress
<1> QED
    BY <1>1, <1>2, <1>3, <1>5, ProgressParts

\* The list that is at hand has yet to be created: the form has what was asked for.
LEMMA ListYetToCome ==
    ASSUME NEW q \in Edit, EditInv(q), q.at \in {"load", "delete", "import"}, Progress(q)
    PROVE  /\ q.list \in List /\ q.form.lists[q.list] = q.want.lists[q.list]
           /\ \A k \in List : \/ q.form.lists[k] = q.want.lists[k]
                              \/ k = "features" /\ k \in Handled(q)
<1>1. q.list \in List
    BY DEF EditInv, Edit, List
<1>2. q.list \notin Handled(q)
    BY NextListFacts
<1> QED
    BY <1>1, <1>2 DEF Progress

LEMMA DeletedProgress ==
    ASSUME NEW q \in Edit, EditInv(q), q.at \in {"load", "delete"},
           NEW p, p = AfterDeletes(q), Progress(q), RowFilled(q)',
           \A k \in Handled(q) : listed'[k][q.sub] = listed[k][q.sub],
           listed'[q.list][q.sub] = {}
    PROVE  Progress(p)'
<1>1. /\ q.list \in List /\ q.form.lists[q.list] = q.want.lists[q.list]
      /\ \A k \in List : \/ q.form.lists[k] = q.want.lists[k]
                         \/ k = "features" /\ k \in Handled(q)
    BY ListYetToCome
<1>2. /\ SameEdit(p, q) /\ p.at \in {"load", "group", "create", "import"}
      /\ \/ p = ToCreate(q, {})
         \/ p.at = "import" /\ p.list = q.list /\ q.list = "features"
    BY DeletedFacts
<1>3. FormAsWanted(q)
    BY DEF Progress, FormAsWanted
<1>4. \A k \in Handled(q) : listed'[k][q.sub] = q.want.lists[k]
    BY DEF Progress
<1>5. CASE p = ToCreate(q, {}) /\ p = ToNextList(q) /\ q.form.lists[q.list] = {}
    BY <1>1, <1>5, NextListProgress
<1>6. CASE /\ p.at = "create" /\ p.list = q.list
           /\ p.todo = q.form.lists[q.list] /\ Handled(p) = Handled(q)
    BY <1>1, <1>2, <1>3, <1>4, <1>6, ProgressParts
<1>7. CASE p.at = "import" /\ p.list = q.list /\ q.list = "features"
    <2>1. Handled(p) = {}
        BY <1>7 DEF Handled
    <2> QED
        BY <1>1, <1>2, <1>3, <1>4, <1>7, <2>1, ProgressParts
<1>8. p = ToCreate(q, {}) => 
         \/ p = ToNextList(q) /\ q.form.lists[q.list] = {}
         \/ /\ p.at = "create" /\ p.list = q.list
            /\ p.todo = q.form.lists[q.list] /\ Handled(p) = Handled(q)
    <2>1. PICK none : none = {}
        OBVIOUS
    <2>2. none \in SUBSET (Feature \cup Sub) /\ none \subseteq EntriesOf(q.list, q.sub)
        BY <2>1
    <2>3. ASSUME p = ToCreate(q, none)
          PROVE  \/ q.form.lists[q.list] \cup none = {} /\ p = ToNextList(q)
                 \/ /\ p.at = "create" /\ p.list = q.list
                    /\ p.todo = q.form.lists[q.list] \cup none /\ Handled(p) = Handled(q)
        <3>1. q.at \in {"load", "delete", "import"}
            OBVIOUS
        <3> QED
            BY <2>2, <2>3, <3>1, CreateFacts
    <2>4. q.form.lists[q.list] \cup none = q.form.lists[q.list]
        BY <1>1, <2>1 DEF Edit, Form, ListsOfForm
    <2> QED
        BY <2>1, <2>3, <2>4
<1> QED
    BY <1>2, <1>5, <1>6, <1>7, <1>8

\* A step after which the edit is still under way.
LEMMA WorkStep ==
    ASSUME CatalogueOK, CatalogueInv,
           NEW r \in EditRequests, NEW q, q = editRequest[r], q.at \in Stages,
           NEW p \in Edit, Continues(r, p), EditInv(p), p.sub = q.sub,
           Existing' = Existing,
           \A s \in Existing : subscription'[s] \in Row /\ Whole(subscription'[s]),
           listed' = listed \/ ListedOK',
           UNCHANGED <<asked, halfDone, askedOrder, misordered>>,
           \A t \in Existing \ {q.sub} : KeepsAll(t),
           p.onItsOwn => q.onItsOwn /\ Progress(p)',
           p.alone => q.alone /\ Placing(p)'
    PROVE  CatalogueOK' /\ CatalogueInv'
<1>1. p.at \in Stages /\ p.at # "page" /\ p.at # "done"
    BY DEF Edit, Stages
<1>2. CatalogueOK'
    BY TypesFrame DEF CatalogueOK
<1>3. ShapeInv'
    BY <1>1, ShapeFrame DEF CatalogueInv
<1>4. ProgressInv'
    BY <1>1, <1>2, ProgressFrame DEF CatalogueInv
<1>5. OrderInv'
    BY <1>1, <1>2, OrderFrame DEF CatalogueInv
<1> QED
    BY <1>2, <1>3, <1>4, <1>5 DEF CatalogueInv

\* What the invariant says of an edit under way.
LEMMA UnderWay ==
    ASSUME CatalogueOK, CatalogueInv, NEW r \in EditRequests, NEW q, q = editRequest[r],
           q.at \in Stages
    PROVE  /\ q \in Edit /\ EditInv(q) /\ q.sub \in Existing /\ q.sub \in Sub
           /\ q.onItsOwn => Progress(q)
           /\ q.alone => Placing(q)
           /\ q.list = "none" \/ q.list \in List
<1>1. q \in Edit /\ q.sub \in Sub
    BY RequestKinds DEF EditAt
<1>2. EditInv(q)
    BY DEF CatalogueInv, ShapeInv, EditAt
<1>3. q.onItsOwn => Progress(q)
    BY DEF CatalogueInv, ProgressInv, EditAt, Stages
<1>4. q.alone => Placing(q)
    BY DEF CatalogueInv, OrderInv, EditAt
<1> QED
    BY <1>1, <1>2, <1>3, <1>4 DEF EditInv, Edit

LEMMA FillStep ==
    ASSUME CatalogueOK, CatalogueInv, NEW r \in EditRequests, FillRow(r)
    PROVE  CatalogueOK' /\ CatalogueInv'
<1>1. PICK q : q = editRequest[r]
    OBVIOUS
<1>2. /\ q.at = "fill" /\ q.at \in Stages
      /\ UNCHANGED <<listed, asked, halfDone, askedOrder, misordered>>
    BY <1>1 DEF FillRow, EditAt, Stages
<1>3. /\ q \in Edit /\ EditInv(q) /\ q.sub \in Existing /\ q.sub \in Sub
      /\ q.onItsOwn => Progress(q)
      /\ q.alone => Placing(q)
    BY <1>1, <1>2, UnderWay
<1>4. q.copy = Blank /\ q.list = "none"
    BY <1>2, <1>3 DEF EditInv
<1>5. PICK p : p = ToNextList(q)
    OBVIOUS
<1>6. /\ p \in Edit /\ EditInv(p) /\ SameEdit(p, q) /\ p.at \in {"load", "group"}
      /\ Handled(p) = {} /\ Handled(q) = {}
    BY <1>2, <1>3, <1>4, <1>5, NextListFacts
<1>7. Continues(r, p)
    BY <1>1, <1>5 DEF FillRow, Continues
<1>8. PICK w : w = Written(subscription[q.sub], Blank, Filled(q.form))
    OBVIOUS
<1>9. /\ w \in Row /\ Whole(w)
      /\ w.price = q.form.price /\ w.period = q.form.period
      /\ w.period_unit = q.form.period_unit
      /\ w.period_count = ConvertToDays(q.form.period, q.form.period_unit)
    <2>1. q.form \in Form /\ subscription[q.sub] \in Row
        BY <1>3 DEF Edit, CatalogueOK
    <2>2. q.form.price \in FormPrice /\ q.form.period # 0 /\ q.form.period_unit # "NULL"
        BY <1>3 DEF EditInv
    <2> QED
        BY <1>8, <2>1, <2>2, FillWhole
<1>10. subscription' = [subscription EXCEPT ![q.sub] = w]
    BY <1>1, <1>4, <1>8 DEF FillRow
<1>11. Existing' = Existing /\ subscription'[q.sub] = w
       /\ \A s \in Existing : s # q.sub => subscription'[s] = subscription[s]
    BY <1>3, <1>10 DEF Existing
<1>12. \A s \in Existing : subscription'[s] \in Row /\ Whole(subscription'[s])
    BY <1>9, <1>11 DEF CatalogueOK, CatalogueInv, ShapeInv
<1>13. \A t \in Existing \ {q.sub} : KeepsAll(t)
    BY <1>2, <1>11 DEF KeepsAll
<1>14. q.onItsOwn => Progress(p)'
    <2>1. RowFilled(q)'
        BY <1>9, <1>11 DEF RowFilled, ConvertToDays
    <2>2. q.list \notin List
        BY <1>4 DEF List
    <2> QED
        BY <1>2, <1>3, <1>5, <1>6, <2>1, <2>2, NextListProgress
<1>15. q.alone => Placing(p)'
    <2>1. p.order = q.order /\ p.at # "order"
        BY <1>6 DEF SameEdit
    <2> QED
        BY <1>3, <1>11, <2>1, PlacingBefore
<1>16. p.sub = q.sub /\ p.onItsOwn = q.onItsOwn /\ p.alone = q.alone
    BY <1>6 DEF SameEdit
<1> QED
    BY <1>1, <1>2, <1>6, <1>7, <1>11, <1>12, <1>13, <1>14, <1>15, <1>16, WorkStep

LEMMA LoadStep ==
    ASSUME CatalogueOK, CatalogueInv, NEW r \in EditRequests, LoadList(r)
    PROVE  CatalogueOK' /\ CatalogueInv'
<1>1. PICK q : q = editRequest[r]
    OBVIOUS
<1>2. /\ q.at = "load" /\ q.at \in Stages
      /\ UNCHANGED <<subscription, listed, asked, halfDone, askedOrder, misordered>>
    BY <1>1 DEF LoadList, EditAt, Stages
<1>3. /\ q \in Edit /\ EditInv(q) /\ q.sub \in Existing /\ q.sub \in Sub
      /\ q.onItsOwn => Progress(q)
      /\ q.alone => Placing(q)
    BY <1>1, <1>2, UnderWay
<1>4. q.list \in List /\ q.copy = Blank /\ q.place = 1
    BY <1>2, <1>3 DEF EditInv, Edit
<1>5. PICK rows : rows = listed[q.list][q.sub]
    OBVIOUS
<1>6. rows \in SUBSET (Feature \cup Sub) /\ rows \subseteq EntriesOf(q.list, q.sub)
    BY <1>3, <1>4, <1>5 DEF CatalogueOK, ListedOK
<1>7. PICK p : p = IF rows = {} THEN AfterDeletes(q)
                   ELSE [q EXCEPT !.at = "delete", !.todo = rows]
    OBVIOUS
<1>8. Continues(r, p)
    BY <1>1, <1>5, <1>7 DEF LoadList, Continues
<1>9. q.onItsOwn => RowFilled(q) /\ RowFilled(q)'
    BY <1>2, <1>3 DEF Progress, RowFilled, ConvertToDays
<1>10. /\ p \in Edit /\ EditInv(p) /\ SameEdit(p, q)
       /\ p.at \in {"load", "group", "create", "import", "delete"}
       /\ q.onItsOwn => Progress(p)'
    <2>1. CASE rows = {}
        <3>1. p = AfterDeletes(q)
            BY <1>7, <2>1
        <3>2. listed'[q.list][q.sub] = {}
            BY <1>2, <1>5, <2>1
        <3>3. q.onItsOwn => Progress(p)'
            BY <1>2, <1>3, <1>9, <3>1, <3>2, DeletedProgress
        <3> QED
            BY <1>2, <1>3, <3>1, <3>3, DeletedFacts
    <2>2. CASE rows # {}
        <3>1. p = [q EXCEPT !.at = "delete", !.todo = rows]
            BY <1>7, <2>2
        <3>2. p \in Edit
            BY <1>3, <1>6, <3>1 DEF Edit, Stages
        <3>3. p.at = "delete" /\ p.todo = rows /\ p.list = q.list /\ SameEdit(p, q)
            BY <1>3, <3>1 DEF Edit, SameEdit
        <3>4. EditInv(p)
            BY <1>2, <1>3, <1>4, <1>6, <3>3 DEF EditInv, SameEdit, List
        <3>5. Handled(p) = Handled(q)
            BY <1>2, <3>3 DEF Handled
        <3>6. q.onItsOwn => Progress(p)'
            <4> SUFFICES ASSUME q.onItsOwn
                         PROVE  Progress(p)'
                OBVIOUS
            <4>1. FormAsWanted(q) /\ RowFilled(q)'
                BY <1>3, <1>9 DEF Progress, FormAsWanted
            <4>2. \A k \in List : \/ q.form.lists[k] = q.want.lists[k]
                                  \/ k = "features" /\ k \in Handled(p)
                BY <1>2, <1>3, <3>5 DEF Progress
            <4>3. \A k \in Handled(p) : listed'[k][q.sub] = q.want.lists[k]
                BY <1>2, <1>3, <3>5 DEF Progress
            <4>4. listed'[p.list][q.sub] = p.todo
                BY <1>2, <1>5, <3>3
            <4> QED
                BY <1>2, <3>3, <4>1, <4>2, <4>3, <4>4, ProgressParts
        <3> QED
            BY <3>2, <3>3, <3>4, <3>6
    <2> QED
        BY <2>1, <2>2
<1>11. p.sub = q.sub /\ p.onItsOwn = q.onItsOwn /\ p.alone = q.alone /\ p.order = q.order
    BY <1>10 DEF SameEdit
<1>12. Existing' = Existing /\ subscription' = subscription
    BY <1>2 DEF Existing
<1>13. q.alone => Placing(p)'
    BY <1>3, <1>10, <1>11, <1>12, PlacingBefore
<1>14. \A s \in Existing : subscription'[s] \in Row /\ Whole(subscription'[s])
    BY <1>12 DEF CatalogueOK, CatalogueInv, ShapeInv
<1>15. \A t \in Existing \ {q.sub} : KeepsAll(t)
    BY <1>2 DEF KeepsAll
<1> QED
    BY <1>1, <1>2, <1>8, <1>10, <1>11, <1>12, <1>13, <1>14, <1>15, WorkStep

\* One list of one subscription is changed.
Lists(k, s, entries) == listed' = [listed EXCEPT ![k][s] = entries]

LEMMA ListChange ==
    ASSUME CatalogueOK, NEW k \in List, NEW s \in Sub,
           NEW entries \in SUBSET (Feature \cup Sub), entries \subseteq EntriesOf(k, s),
           Lists(k, s, entries), Existing' = Existing
    PROVE  /\ ListedOK'
           /\ listed'[k][s] = entries
           /\ \A m \in List, t \in Sub : m # k \/ t # s => listed'[m][t] = listed[m][t]
<1>1. /\ DOMAIN listed = List
      /\ \A m \in List : listed[m] \in [Sub -> SUBSET (Feature \cup Sub)]
      /\ \A m \in List, t \in Sub : listed[m][t] \subseteq EntriesOf(m, t)
    BY DEF CatalogueOK, ListedOK
<1>2. DOMAIN listed' = List
    BY <1>1 DEF Lists
<1>3. listed'[k] = [listed[k] EXCEPT ![s] = entries]
    BY <1>1 DEF Lists
<1>4. \A m \in List : m # k => listed'[m] = listed[m]
    BY <1>1 DEF Lists
<1>5. listed'[k] \in [Sub -> SUBSET (Feature \cup Sub)] /\ listed'[k][s] = entries
      /\ \A t \in Sub : t # s => listed'[k][t] = listed[k][t]
    BY <1>1, <1>3
<1>6. \A m \in List, t \in Sub : EntriesOf(m, t)' = EntriesOf(m, t)
    BY DEF EntriesOf
<1>7. ListedOK'
    BY <1>1, <1>2, <1>4, <1>5, <1>6 DEF ListedOK
<1> QED
    BY <1>4, <1>5, <1>7

LEMMA DeleteStep ==
    ASSUME CatalogueOK, CatalogueInv, NEW r \in EditRequests, DeleteEntry(r)
    PROVE  CatalogueOK' /\ CatalogueInv'
<1>1. PICK q : q = editRequest[r]
    OBVIOUS
<1>2. /\ q.at = "delete" /\ q.at \in Stages
      /\ UNCHANGED <<subscription, asked, halfDone, askedOrder, misordered>>
    BY <1>1 DEF DeleteEntry, EditAt, Stages
<1>3. /\ q \in Edit /\ EditInv(q) /\ q.sub \in Existing /\ q.sub \in Sub
      /\ q.onItsOwn => Progress(q)
      /\ q.alone => Placing(q)
    BY <1>1, <1>2, UnderWay
<1>4. /\ q.list \in List /\ q.copy = Blank /\ q.place = 1
      /\ q.todo \in SUBSET (Feature \cup Sub) /\ q.todo \subseteq EntriesOf(q.list, q.sub)
    BY <1>2, <1>3 DEF EditInv, Edit
<1>5. PICK x \in q.todo :
         /\ listed' = [listed EXCEPT ![q.list][q.sub] = @ \ {x}]
         /\ editRequest' = [editRequest EXCEPT ![r] =
               IF q.todo = {x} THEN AfterDeletes(q) ELSE [q EXCEPT !.todo = @ \ {x}]]
    BY <1>1 DEF DeleteEntry
<1>6. PICK p : p = IF q.todo = {x} THEN AfterDeletes(q) ELSE [q EXCEPT !.todo = @ \ {x}]
    OBVIOUS
<1>7. Continues(r, p)
    BY <1>5, <1>6 DEF Continues
<1>8. Existing' = Existing /\ subscription' = subscription
    BY <1>2 DEF Existing
<1>9. PICK entries : entries = listed[q.list][q.sub] \ {x}
    OBVIOUS
<1>10. entries \in SUBSET (Feature \cup Sub) /\ entries \subseteq EntriesOf(q.list, q.sub)
    BY <1>3, <1>4, <1>9 DEF CatalogueOK, ListedOK
<1>11. /\ ListedOK' /\ listed'[q.list][q.sub] = entries
       /\ \A m \in List, t \in Sub : m # q.list \/ t # q.sub => listed'[m][t] = listed[m][t]
    <2>1. listed' = [listed EXCEPT ![q.list][q.sub] = entries]
        BY <1>5, <1>9
    <2>2. Lists(q.list, q.sub, entries)
        BY <2>1 DEF Lists
    <2> QED
        BY <1>3, <1>4, <1>8, <1>10, <2>2, ListChange
<1>12. /\ \A k \in Handled(q) : listed'[k][q.sub] = listed[k][q.sub]
       /\ q.list \notin Handled(q)
    <2>1. q.list \notin Handled(q)
        BY <1>2, <1>3, NextListFacts
    <2> QED
        BY <1>3, <1>11, <2>1, HandledInList
<1>13. q.onItsOwn => RowFilled(q)' /\ FormAsWanted(q) /\ listed[q.list][q.sub] = q.todo
    BY <1>2, <1>3 DEF Progress, RowFilled, FormAsWanted, ConvertToDays
<1>14. /\ p \in Edit /\ EditInv(p) /\ SameEdit(p, q)
       /\ p.at \in {"load", "group", "create", "import", "delete"}
       /\ q.onItsOwn => Progress(p)'
    <2>1. CASE q.todo = {x}
        <3>1. p = AfterDeletes(q)
            BY <1>6, <2>1
        <3>2. q.onItsOwn => listed'[q.list][q.sub] = {}
            BY <1>9, <1>11, <1>13, <2>1
        <3>3. q.onItsOwn => Progress(p)'
            BY <1>2, <1>3, <1>12, <1>13, <3>1, <3>2, DeletedProgress
        <3> QED
            BY <1>2, <1>3, <3>1, <3>3, DeletedFacts
    <2>2. CASE q.todo # {x}
        <3>1. p = [q EXCEPT !.todo = @ \ {x}]
            BY <1>6, <2>2
        <3>2. p \in Edit
            BY <1>3, <3>1 DEF Edit
        <3>3. p.at = q.at /\ p.todo = q.todo \ {x} /\ p.list = q.list /\ SameEdit(p, q)
            BY <1>3, <3>1 DEF Edit, SameEdit
        <3>4. EditInv(p)
            BY <1>2, <1>3, <1>4, <3>3 DEF EditInv, SameEdit, List
        <3>5. Handled(p) = Handled(q)
            BY <3>3 DEF Handled
        <3>6. q.onItsOwn => Progress(p)'
            <4> SUFFICES ASSUME q.onItsOwn
                         PROVE  Progress(p)'
                OBVIOUS
            <4>1. \A k \in List : \/ q.form.lists[k] = q.want.lists[k]
                                  \/ k = "features" /\ k \in Handled(p)
                BY <1>2, <1>3, <3>5 DEF Progress
            <4>2. \A k \in Handled(p) : listed'[k][q.sub] = q.want.lists[k]
                BY <1>3, <1>12, <3>5 DEF Progress
            <4>3. listed'[p.list][q.sub] = p.todo
                BY <1>9, <1>11, <1>13, <3>3
            <4> QED
                BY <1>2, <1>13, <3>3, <4>1, <4>2, <4>3, ProgressParts
        <3> QED
            BY <1>2, <3>2, <3>3, <3>4, <3>6
    <2> QED
        BY <2>1, <2>2
<1>15. p.sub = q.sub /\ p.onItsOwn = q.onItsOwn /\ p.alone = q.alone /\ p.order = q.order
    BY <1>14 DEF SameEdit
<1>16. q.alone => Placing(p)'
    BY <1>3, <1>8, <1>14, <1>15, PlacingBefore
<1>17. \A s \in Existing : subscription'[s] \in Row /\ Whole(subscription'[s])
    BY <1>8 DEF CatalogueOK, CatalogueInv, ShapeInv
<1>18. \A t \in Existing \ {q.sub} : KeepsAll(t)
    BY <1>2, <1>11 DEF KeepsAll, CatalogueOK
<1> QED
    BY <1>1, <1>2, <1>7, <1>8, <1>11, <1>14, <1>15, <1>16, <1>17, <1>18, WorkStep

LEMMA CreateStep ==
    ASSUME CatalogueOK, CatalogueInv, NEW r \in EditRequests, CreateEntry(r)
    PROVE  CatalogueOK' /\ CatalogueInv'
<1>1. PICK q : q = editRequest[r]
    OBVIOUS
<1>2. /\ q.at = "create" /\ q.at \in Stages
      /\ UNCHANGED <<subscription, asked, halfDone, askedOrder, misordered>>
    BY <1>1 DEF CreateEntry, EditAt, Stages
<1>3. /\ q \in Edit /\ EditInv(q) /\ q.sub \in Existing /\ q.sub \in Sub
      /\ q.onItsOwn => Progress(q)
      /\ q.alone => Placing(q)
    BY <1>1, <1>2, UnderWay
<1>4. /\ q.list \in List /\ q.copy = Blank /\ q.place = 1
      /\ q.todo \in SUBSET (Feature \cup Sub) /\ q.todo \subseteq EntriesOf(q.list, q.sub)
    BY <1>2, <1>3 DEF EditInv, Edit
<1>5. PICK x \in q.todo :
         /\ listed' = [listed EXCEPT ![q.list][q.sub] = @ \cup {x}]
         /\ editRequest' = [editRequest EXCEPT ![r] =
               IF q.todo = {x} THEN ToNextList(q) ELSE [q EXCEPT !.todo = @ \ {x}]]
    BY <1>1 DEF CreateEntry
<1>6. PICK p : p = IF q.todo = {x} THEN ToNextList(q) ELSE [q EXCEPT !.todo = @ \ {x}]
    OBVIOUS
<1>7. Continues(r, p)
    BY <1>5, <1>6 DEF Continues
<1>8. Existing' = Existing /\ subscription' = subscription
    BY <1>2 DEF Existing
<1>9. PICK entries : entries = listed[q.list][q.sub] \cup {x}
    OBVIOUS
<1>10. entries \in SUBSET (Feature \cup Sub) /\ entries \subseteq EntriesOf(q.list, q.sub)
    BY <1>3, <1>4, <1>9 DEF CatalogueOK, ListedOK
<1>11. /\ ListedOK' /\ listed'[q.list][q.sub] = entries
       /\ \A m \in List, t \in Sub : m # q.list \/ t # q.sub => listed'[m][t] = listed[m][t]
    <2>1. listed' = [listed EXCEPT ![q.list][q.sub] = entries]
        BY <1>5, <1>9
    <2>2. Lists(q.list, q.sub, entries)
        BY <2>1 DEF Lists
    <2> QED
        BY <1>3, <1>4, <1>8, <1>10, <2>2, ListChange
<1>12. /\ \A k \in Handled(q) : listed'[k][q.sub] = listed[k][q.sub]
       /\ q.list \notin Handled(q)
    <2>1. q.list \notin Handled(q)
        BY <1>2, <1>3, NextListFacts
    <2> QED
        BY <1>3, <1>11, <2>1, HandledInList
<1>13. q.onItsOwn => /\ RowFilled(q)' /\ FormAsWanted(q)
                     /\ listed[q.list][q.sub] \cup q.todo = q.want.lists[q.list]
    BY <1>2, <1>3 DEF Progress, RowFilled, FormAsWanted, ConvertToDays
<1>14. /\ p \in Edit /\ EditInv(p) /\ SameEdit(p, q)
       /\ p.at \in {"load", "group", "create"}
       /\ q.onItsOwn => Progress(p)'
    <2>1. CASE q.todo = {x}
        <3>1. p = ToNextList(q)
            BY <1>6, <2>1
        <3>2. q.onItsOwn => listed'[q.list][q.sub] = q.want.lists[q.list]
            BY <1>9, <1>11, <1>13, <2>1
        <3>3. q.onItsOwn => Progress(p)'
            BY <1>2, <1>3, <1>12, <1>13, <3>1, <3>2, NextListProgress
        <3> QED
            BY <1>2, <1>3, <3>1, <3>3, NextListFacts
    <2>2. CASE q.todo # {x}
        <3>1. p = [q EXCEPT !.todo = @ \ {x}]
            BY <1>6, <2>2
        <3>2. p \in Edit
            BY <1>3, <3>1 DEF Edit
        <3>3. p.at = q.at /\ p.todo = q.todo \ {x} /\ p.list = q.list /\ SameEdit(p, q)
            BY <1>3, <3>1 DEF Edit, SameEdit
        <3>4. EditInv(p)
            BY <1>2, <1>3, <1>4, <3>3 DEF EditInv, SameEdit, List
        <3>5. Handled(p) = Handled(q)
            BY <3>3 DEF Handled
        <3>6. q.onItsOwn => Progress(p)'
            <4> SUFFICES ASSUME q.onItsOwn
                         PROVE  Progress(p)'
                OBVIOUS
            <4>1. \A k \in List : \/ q.form.lists[k] = q.want.lists[k]
                                  \/ k = "features" /\ (p.at = "create" \/ k \in Handled(p))
                BY <1>2, <1>3, <3>3, <3>5 DEF Progress
            <4>2. \A k \in Handled(p) : listed'[k][q.sub] = q.want.lists[k]
                BY <1>3, <1>12, <3>5 DEF Progress
            <4>3. listed'[p.list][q.sub] \cup p.todo = q.want.lists[p.list]
                BY <1>9, <1>11, <1>13, <3>3
            <4> QED
                BY <1>2, <1>13, <3>3, <4>1, <4>2, <4>3, ProgressParts
        <3> QED
            BY <1>2, <3>2, <3>3, <3>4, <3>6
    <2> QED
        BY <2>1, <2>2
<1>15. p.sub = q.sub /\ p.onItsOwn = q.onItsOwn /\ p.alone = q.alone /\ p.order = q.order
    BY <1>14 DEF SameEdit
<1>16. q.alone => Placing(p)'
    BY <1>3, <1>8, <1>14, <1>15, PlacingBefore
<1>17. \A s \in Existing : subscription'[s] \in Row /\ Whole(subscription'[s])
    BY <1>8 DEF CatalogueOK, CatalogueInv, ShapeInv
<1>18. \A t \in Existing \ {q.sub} : KeepsAll(t)
    BY <1>2, <1>11 DEF KeepsAll, CatalogueOK
<1> QED
    BY <1>1, <1>2, <1>7, <1>8, <1>11, <1>14, <1>15, <1>16, <1>17, <1>18, WorkStep

LEMMA ImportStep ==
    ASSUME CatalogueOK, CatalogueInv, NEW r \in EditRequests, ImportFeatures(r)
    PROVE  CatalogueOK' /\ CatalogueInv'
<1>1. PICK q : q = editRequest[r]
    OBVIOUS
<1>2. /\ q.at = "import" /\ q.at \in Stages
      /\ UNCHANGED <<subscription, listed, asked, halfDone, askedOrder, misordered>>
    BY <1>1 DEF ImportFeatures, EditAt, Stages
<1>3. /\ q \in Edit /\ EditInv(q) /\ q.sub \in Existing /\ q.sub \in Sub
      /\ q.onItsOwn => Progress(q)
      /\ q.alone => Placing(q)
    BY <1>1, <1>2, UnderWay
<1>4. /\ q.list = "features" /\ q.list \in List /\ q.copy = Blank /\ q.place = 1
      /\ q.form.import \subseteq Existing
    BY <1>2, <1>3 DEF EditInv, FormInv, List
<1>5. PICK i \in q.form.import :
         editRequest' = [editRequest EXCEPT ![r] =
              [ToCreate(q, listed["features"][i]) EXCEPT
                  !.want.lists["features"] = @ \cup asked[i].lists["features"],
                  !.onItsOwn = @ /\ ~Editing(i) /\ i \notin halfDone]]
    BY <1>1 DEF ImportFeatures
<1>6. PICK imported : imported = listed["features"][i]
    OBVIOUS
<1>7. /\ i \in Existing /\ i \in Sub /\ asked[i] \in Want
      /\ imported \in SUBSET (Feature \cup Sub) /\ imported \subseteq EntriesOf(q.list, q.sub)
    BY <1>4, <1>5, <1>6 DEF CatalogueOK, ListedOK, EntriesOf
<1>8. PICK c : c = ToCreate(q, imported)
    OBVIOUS
<1>9. /\ c \in Edit /\ EditInv(c) /\ SameEdit(c, q) /\ c.at \in {"load", "group", "create"}
      /\ \/ q.form.lists[q.list] \cup imported = {} /\ c = ToNextList(q)
         \/ /\ c.at = "create" /\ c.list = q.list
            /\ c.todo = q.form.lists[q.list] \cup imported
            /\ Handled(c) = Handled(q)
    BY <1>2, <1>3, <1>7, <1>8, CreateFacts
<1>10. PICK lists : lists = [q.want.lists EXCEPT !["features"] = @ \cup asked[i].lists["features"]]
    OBVIOUS
<1>11. /\ lists \in ListsOfForm
       /\ lists["features"] = q.want.lists["features"] \cup asked[i].lists["features"]
       /\ \A k \in List : k # "features" => lists[k] = q.want.lists[k]
    <2>1. q.want.lists \in [List -> SUBSET (Feature \cup Sub)]
          /\ asked[i].lists \in [List -> SUBSET (Feature \cup Sub)]
        BY <1>3, <1>7 DEF Edit, Want, ListsOfForm
    <2> QED
        BY <1>4, <1>10, <2>1 DEF ListsOfForm
<1>12. PICK want : want = [q.want EXCEPT !.lists = lists]
    OBVIOUS
<1>13. /\ want \in Want /\ want.lists = lists
       /\ want.price = q.want.price /\ want.period = q.want.period
       /\ want.period_unit = q.want.period_unit
    BY <1>3, <1>11, <1>12 DEF Edit, Want
<1>14. PICK own \in BOOLEAN : own = (q.onItsOwn /\ ~Editing(i) /\ i \notin halfDone)
    OBVIOUS
<1>15. PICK p : p = [c EXCEPT !.want = want, !.onItsOwn = own]
    OBVIOUS
<1>16. Continues(r, p)
    <2>1. c.want = q.want /\ c.onItsOwn = q.onItsOwn
        BY <1>9 DEF SameEdit
    <2>2. p = [ToCreate(q, listed["features"][i]) EXCEPT
                  !.want.lists["features"] = @ \cup asked[i].lists["features"],
                  !.onItsOwn = @ /\ ~Editing(i) /\ i \notin halfDone]
        BY <1>6, <1>8, <1>10, <1>12, <1>14, <1>15, <2>1
    <2> QED
        BY <1>5, <2>2 DEF Continues
<1>17. /\ p \in Edit
       /\ p.at = c.at /\ p.sub = c.sub /\ p.form = c.form /\ p.order = c.order /\ p.copy = c.copy
       /\ p.list = c.list /\ p.todo = c.todo /\ p.rows = c.rows /\ p.place = c.place
       /\ p.alone = c.alone /\ p.want = want /\ p.onItsOwn = own
    <2>1. p \in Edit
        BY <1>9, <1>13, <1>15 DEF Edit
    <2> QED
        BY <1>9, <1>15, <2>1 DEF Edit
<1>18. EditInv(p)
    BY <1>9, <1>17 DEF EditInv
<1>19. Existing' = Existing /\ subscription' = subscription
    BY <1>2 DEF Existing
<1>20. own => q.onItsOwn /\ Progress(p)'
    <2> SUFFICES ASSUME own
                 PROVE  q.onItsOwn /\ Progress(p)'
        OBVIOUS
    <2>1. q.onItsOwn /\ Settled(i) /\ Progress(q)
        BY <1>3, <1>14 DEF Settled
    <2>2. imported = asked[i].lists["features"]
        BY <1>4, <1>6, <1>7, <2>1, AllAsAsked DEF CatalogueInv, ProgressInv, AsAsked
    <2>3. /\ q.list \in List /\ q.form.lists["features"] = q.want.lists["features"]
          /\ Handled(q) = {}
          /\ \A k \in List : k # "features" => q.form.lists[k] = q.want.lists[k]
        <3>1. Handled(q) = {}
            BY <1>2, <1>4 DEF Handled
        <3> QED
            BY <1>2, <1>3, <1>4, <2>1, <3>1, ListYetToCome
    <2>4. lists["features"] = q.form.lists["features"] \cup imported
        BY <1>11, <2>2, <2>3
    <2>5. PICK w : w = [q EXCEPT !.want = want, !.onItsOwn = own]
        OBVIOUS
    <2>6. /\ SameEdit(p, w) /\ w.sub = q.sub /\ w.form = q.form /\ w.want = want
        BY <1>3, <1>9, <1>17, <2>5 DEF SameEdit, Edit
    <2>7. FormAsWanted(w) /\ RowFilled(w)'
        BY <1>2, <1>13, <2>1, <2>6 DEF Progress, FormAsWanted, RowFilled, ConvertToDays
    <2>8. listed'["features"][q.sub] = {}
        BY <1>2, <1>4, <2>1 DEF Progress
    <2>9. CASE q.form.lists[q.list] \cup imported = {} /\ c = ToNextList(q)
        <3>1. Handled(p) = {"features"} /\ c.at \in {"load", "group"}
            <4>1. Handled(c) = {"features"} /\ c.at \in {"load", "group"}
                BY <1>2, <1>3, <1>4, <2>3, <2>9, NextListFacts
            <4> QED
                BY <1>17, <4>1 DEF Handled
        <3>2. want.lists["features"] = {}
            BY <1>4, <1>13, <2>4, <2>9
        <3>3. \A k \in List : \/ w.form.lists[k] = w.want.lists[k]
                              \/ k = "features" /\ k \in Handled(p)
            BY <1>11, <1>13, <2>3, <2>6, <3>1
        <3>4. \A k \in Handled(p) : listed'[k][w.sub] = w.want.lists[k]
            BY <2>6, <2>8, <3>1, <3>2
        <3> QED
            BY <1>2, <1>17, <2>1, <2>6, <2>7, <3>1, <3>3, <3>4, ProgressParts
    <2>10. CASE /\ c.at = "create" /\ c.list = q.list
                /\ c.todo = q.form.lists[q.list] \cup imported
                /\ Handled(c) = Handled(q)
        <3>1. Handled(p) = {}
            BY <1>17, <2>3, <2>10 DEF Handled
        <3>2. listed'[p.list][q.sub] \cup p.todo = want.lists[p.list]
            BY <1>4, <1>13, <1>17, <2>4, <2>8, <2>10
        <3> QED
            BY <1>2, <1>11, <1>13, <1>17, <2>1, <2>3, <2>6, <2>7, <2>10, <3>1, <3>2, ProgressParts
    <2> QED
        BY <1>9, <2>1, <2>9, <2>10
<1>21. p.sub = q.sub /\ p.onItsOwn = own /\ p.alone = q.alone /\ p.order = q.order
    BY <1>9, <1>17 DEF SameEdit
<1>22. q.alone => Placing(p)'
    BY <1>3, <1>9, <1>17, <1>19, <1>21, PlacingBefore
<1>23. \A s \in Existing : subscription'[s] \in Row /\ Whole(subscription'[s])
    BY <1>19 DEF CatalogueOK, CatalogueInv, ShapeInv
<1>24. \A t \in Existing \ {q.sub} : KeepsAll(t)
    BY <1>2 DEF KeepsAll
<1> QED
    BY <1>1, <1>2, <1>16, <1>17, <1>18, <1>19, <1>20, <1>21, <1>22, <1>23, <1>24, WorkStep

LEMMA GroupStep ==
    ASSUME CatalogueOK, CatalogueInv, NEW r \in EditRequests, ReadGroup(r)
    PROVE  CatalogueOK' /\ CatalogueInv'
<1>1. PICK q : q = editRequest[r]
    OBVIOUS
<1>2. /\ q.at = "group" /\ q.at \in Stages
      /\ UNCHANGED <<subscription, listed, asked, halfDone, askedOrder, misordered>>
    BY <1>1 DEF ReadGroup, EditAt, Stages
<1>3. /\ q \in Edit /\ EditInv(q) /\ q.sub \in Existing /\ q.sub \in Sub
      /\ q.onItsOwn => Progress(q)
      /\ q.alone => Placing(q)
    BY <1>1, <1>2, UnderWay
<1>4. q.list = "downgrades" /\ q.copy = Blank /\ q.place = 1
    BY <1>2, <1>3 DEF EditInv
<1>5. PICK order \in Selections(Existing), o \in Orders(Existing) :
         editRequest' = [editRequest EXCEPT ![r] =
              [q EXCEPT !.at = "order", !.order = order,
                        !.rows = [i \in DOMAIN o |->
                                    [name |-> o[i],
                                     position |-> subscription[o[i]].position_in_group]]]]
    BY <1>1 DEF ReadGroup
<1>6. PICK rows : rows = [i \in DOMAIN o |->
                             [name |-> o[i],
                              position |-> subscription[o[i]].position_in_group]]
    OBVIOUS
<1>7. PICK p : p = [q EXCEPT !.at = "order", !.order = order, !.rows = rows]
    OBVIOUS
<1>8. Continues(r, p)
    BY <1>5, <1>6, <1>7 DEF Continues
<1>9. /\ o \in Seq(Existing) /\ Len(o) \in Nat /\ DOMAIN o = 1 .. Len(o)
      /\ Range(o) = Existing
      /\ \A i, j \in DOMAIN o : o[i] = o[j] => i = j
      /\ order \in Seq(Existing) /\ 1 \in 1 .. Len(order)
    BY <1>5, OrderFacts, SelectionFacts DEF CatalogueInv, ShapeInv
<1>10. /\ rows \in Seq([name : Sub, position : Nat])
       /\ DOMAIN rows = DOMAIN o
       /\ \A i \in DOMAIN o :
             /\ rows[i].name = o[i] /\ o[i] \in Existing
             /\ rows[i].position = subscription[o[i]].position_in_group
    <2>1. \A i \in DOMAIN o : o[i] \in Existing
        BY <1>9
    <2>2. \A i \in DOMAIN o : o[i] \in Sub /\ subscription[o[i]].position_in_group \in Nat
        BY <2>1 DEF CatalogueOK, Row
    <2>3. rows \in [1 .. Len(o) -> [name : Sub, position : Nat]]
        BY <1>6, <1>9, <2>2
    <2>4. PICK n \in Nat : n = Len(o)
        BY <1>9
    <2>5. rows \in Seq([name : Sub, position : Nat])
        <3>1. rows \in [1 .. n -> [name : Sub, position : Nat]]
            BY <2>3, <2>4
        <3>2. \A S : \A m \in Nat : \A f \in [1 .. m -> S] : f \in Seq(S)
            BY SeqDef
        <3> QED
            BY <2>4, <3>1, <3>2
    <2>6. \A i \in DOMAIN o :
             rows[i] = [name |-> o[i], position |-> subscription[o[i]].position_in_group]
        BY <1>6
    <2> QED
        BY <1>6, <2>1, <2>5, <2>6
<1>11. Existing = {rows[i].name : i \in DOMAIN rows} /\ \E i \in DOMAIN rows : rows[i].name = q.sub
    <2>1. {rows[i].name : i \in DOMAIN rows} = {o[i] : i \in DOMAIN o}
        BY <1>10
    <2>2. Existing = {o[i] : i \in DOMAIN o}
        BY <1>9 DEF Range
    <2> QED
        BY <1>3, <2>1, <2>2
<1>12. /\ p \in Edit /\ p.at = "order" /\ p.rows = rows
       /\ p.sub = q.sub /\ p.form = q.form /\ p.copy = q.copy /\ p.list = q.list
       /\ p.order = order /\ p.place = q.place
       /\ p.want = q.want /\ p.onItsOwn = q.onItsOwn /\ p.alone = q.alone
    <2>0. order \in Seq(Sub)
        BY <1>9, SeqMonotonic DEF CatalogueOK
    <2>1. p \in Edit
        BY <1>3, <1>7, <1>10, <2>0 DEF Edit, Stages
    <2> QED
        BY <1>3, <1>7, <2>1 DEF Edit
<1>13. EditInv(p)
    <2>1. \A i \in DOMAIN order : order[i] \in Existing
        BY <1>9
    <2> QED
        <3>1. /\ p.place \in 1 .. Len(p.order)
              /\ \A i \in DOMAIN p.order : p.order[i] \in Existing
            BY <1>4, <1>9, <1>12, <2>1
        <3>2. /\ \A i \in DOMAIN p.rows : p.rows[i].name \in Existing
              /\ \E i \in DOMAIN p.rows : p.rows[i].name = p.sub
            BY <1>10, <1>11, <1>12
        <3> QED
            BY <1>2, <1>3, <1>4, <1>12, <3>1, <3>2 DEF EditInv
<1>14. Existing' = Existing /\ subscription' = subscription
    BY <1>2 DEF Existing
<1>15. q.onItsOwn => Progress(p)'
    <2>1. Handled(p) = List /\ Handled(q) = List
        BY <1>2, <1>12 DEF Handled
    <2> QED
        BY <1>2, <1>3, <1>12, <2>1 DEF Progress, Handled, ConvertToDays
<1>16. q.alone => Placing(p)'
    <2> SUFFICES ASSUME q.alone
                 PROVE  Placing(p)'
        OBVIOUS
    <2>2. \A i, j \in DOMAIN p.rows : p.rows[i].name = p.rows[j].name => i = j
        BY <1>9, <1>10, <1>12
    <2>3. Existing = {p.rows[i].name : i \in DOMAIN p.rows}
        BY <1>11, <1>12
    <2>4. \A i \in DOMAIN p.rows :
             p.rows[i].position = subscription[p.rows[i].name].position_in_group
        BY <1>10, <1>12
    <2>5. 1 .. p.place - 1 = {}
        BY <1>4, <1>12
    <2> QED
        BY <1>14, <2>2, <2>3, <2>4, <2>5 DEF Placing, LastPlaces
<1>17. \A s \in Existing : subscription'[s] \in Row /\ Whole(subscription'[s])
    BY <1>14 DEF CatalogueOK, CatalogueInv, ShapeInv
<1>18. \A t \in Existing \ {q.sub} : KeepsAll(t)
    BY <1>2 DEF KeepsAll
<1> QED
    BY <1>1, <1>2, <1>8, <1>12, <1>13, <1>14, <1>15, <1>16, <1>17, <1>18, WorkStep

\* What a step of the order does to the rows of the table and of its copy.
LEMMA PositionFacts ==
    ASSUME CatalogueOK, CatalogueInv, NEW r \in EditRequests, SetPosition(r),
           NEW q, q = editRequest[r]
    PROVE  /\ q.at = "order" /\ q \in Edit /\ EditInv(q) /\ q.sub \in Existing
           /\ q.place \in 1 .. Len(q.order) /\ Len(q.order) \in Nat /\ DOMAIN q.order = 1 .. Len(q.order)
           /\ listed' = listed /\ Existing' = Existing
           /\ \E i \in DOMAIN q.rows :
                 /\ i = Match(q.rows, q.order[q.place], q.sub)
                 /\ q.rows[i].name \in Existing
                 /\ q.rows[i].name \in {q.order[q.place], q.sub}
                 /\ \A j \in DOMAIN q.rows : q.rows[j].name \in {q.order[q.place], q.sub} => i <= j
                 /\ q.rows[i].position = subscription[q.rows[i].name].position_in_group =>
                       subscription'[q.rows[i].name].position_in_group = q.place
                 /\ \A s \in Existing : s # q.rows[i].name => subscription'[s] = subscription[s]
           /\ \A s \in Existing :
                 /\ subscription'[s] \in Row /\ Whole(subscription'[s])
                 /\ subscription'[s].price = subscription[s].price
                 /\ subscription'[s].period = subscription[s].period
                 /\ subscription'[s].period_count = subscription[s].period_count
                 /\ subscription'[s].period_unit = subscription[s].period_unit
<1>1. q.at = "order" /\ q.at \in Stages /\ listed' = listed
    BY DEF SetPosition, EditAt, Stages
<1>2. q \in Edit /\ EditInv(q) /\ q.sub \in Existing
    BY <1>1, UnderWay
<1>3. /\ q.place \in 1 .. Len(q.order) /\ q.place \in Nat
      /\ q.rows \in Seq([name : Sub, position : Nat])
      /\ \A j \in DOMAIN q.rows : q.rows[j].name \in Existing
      /\ \E j \in DOMAIN q.rows : q.rows[j].name = q.sub
    BY <1>1, <1>2 DEF EditInv, Edit
<1>4. Len(q.order) \in Nat /\ DOMAIN q.order = 1 .. Len(q.order)
    BY <1>2 DEF Edit
<1>5. PICK i : i = Match(q.rows, q.order[q.place], q.sub)
    OBVIOUS
<1>6. /\ i \in DOMAIN q.rows /\ q.rows[i].name \in {q.order[q.place], q.sub}
      /\ \A j \in DOMAIN q.rows : q.rows[j].name \in {q.order[q.place], q.sub} => i <= j
    <2>1. PICK rows \in Seq([name : Sub, position : Nat]) : rows = q.rows
        BY <1>3
    <2>2. PICK entry, s : entry = q.order[q.place] /\ s = q.sub
        OBVIOUS
    <2>3. \E j \in DOMAIN rows : rows[j].name = s
        BY <1>3, <2>1, <2>2
    <2>4. i = Match(rows, entry, s)
        BY <1>5, <2>1, <2>2
    <2>5. /\ i \in DOMAIN rows /\ rows[i].name \in {entry, s}
          /\ \A j \in DOMAIN rows : rows[j].name \in {entry, s} => i <= j
        BY <2>3, <2>4, MatchFacts
    <2> QED
        BY <2>1, <2>2, <2>5
<1>7. PICK x \in Existing : x = q.rows[i].name
    BY <1>3, <1>6
<1>8. PICK v : v = IF q.rows[i].position = q.place THEN subscription[x].position_in_group
                   ELSE q.place
    OBVIOUS
<1>9. PICK row \in Row : row = subscription[x] /\ Whole(row)
    BY <1>7 DEF CatalogueOK, CatalogueInv, ShapeInv
<1>10. v \in Nat
    BY <1>3, <1>8, <1>9 DEF Row
<1>11. subscription' = [subscription EXCEPT ![x] = [row EXCEPT !.position_in_group = v]]
    <2>1. subscription' = [subscription EXCEPT ![x].position_in_group =
                              IF q.rows[i].position = q.place THEN @ ELSE q.place]
        BY <1>5, <1>7 DEF SetPosition
    <2> QED
        BY <1>7, <1>8, <1>9, <2>1 DEF Existing
<1>12. PICK new : new = [row EXCEPT !.position_in_group = v]
    OBVIOUS
<1>13. /\ new \in Row /\ new.price = row.price /\ new.period = row.period
       /\ new.period_count = row.period_count /\ new.period_unit = row.period_unit
       /\ new.position_in_group = v
    BY <1>10, <1>12 DEF Row
<1>14. Whole(new)
    BY <1>9, <1>13 DEF Whole
<1>15. /\ Existing' = Existing /\ subscription'[x] = new
       /\ \A s \in Existing : s # x => subscription'[s] = subscription[s]
    BY <1>7, <1>11, <1>12 DEF Existing
<1>16. \A s \in Existing :
          /\ subscription'[s] \in Row /\ Whole(subscription'[s])
          /\ subscription'[s].price = subscription[s].price
          /\ subscription'[s].period = subscription[s].period
          /\ subscription'[s].period_count = subscription[s].period_count
          /\ subscription'[s].period_unit = subscription[s].period_unit
    <2>1. \A s \in Existing : subscription[s] \in Row /\ Whole(subscription[s])
        BY DEF CatalogueOK, CatalogueInv, ShapeInv
    <2> QED
        BY <1>9, <1>13, <1>14, <1>15, <2>1
<1>17. q.rows[i].position = subscription[x].position_in_group =>
          subscription'[x].position_in_group = q.place
    BY <1>8, <1>13, <1>15
<1>18. /\ i \in DOMAIN q.rows
       /\ i = Match(q.rows, q.order[q.place], q.sub)
       /\ q.rows[i].name \in Existing
       /\ q.rows[i].name \in {q.order[q.place], q.sub}
       /\ \A j \in DOMAIN q.rows : q.rows[j].name \in {q.order[q.place], q.sub} => i <= j
    BY <1>5, <1>6, <1>7
<1>19. q.rows[i].position = subscription[q.rows[i].name].position_in_group =>
           subscription'[q.rows[i].name].position_in_group = q.place
    BY <1>7, <1>17
<1>20. \A s \in Existing : s # q.rows[i].name => subscription'[s] = subscription[s]
    BY <1>7, <1>15
<1>21. Existing' = Existing
    BY <1>15
<1>22. q.place \in 1 .. Len(q.order) /\ Len(q.order) \in Nat
           /\ DOMAIN q.order = 1 .. Len(q.order)
    BY <1>3, <1>4
<1> QED
    BY <1>1, <1>2, <1>16, <1>18, <1>19, <1>20, <1>21, <1>22

\* An edit of the group that is alone and reads its own subscription last finds,
\* at each place, the row that belongs there.  The place that a subscription has
\* got so far is the last of those at which the order has named it.
LEMMA PlacedRight ==
    ASSUME CatalogueOK, CatalogueInv, NEW r \in EditRequests, SetPosition(r),
           NEW q, q = editRequest[r], Placing(q), q.rows[Len(q.rows)].name = q.sub
    PROVE  \A k \in LastPlaces(q.order, q.place) :
              subscription'[q.order[k]].position_in_group = k
<1>1. /\ q.at = "order" /\ q \in Edit /\ EditInv(q) /\ q.sub \in Existing
      /\ q.place \in 1 .. Len(q.order) /\ Len(q.order) \in Nat /\ DOMAIN q.order = 1 .. Len(q.order)
    BY PositionFacts
<1>2. PICK i \in DOMAIN q.rows :
         /\ q.rows[i].name \in Existing
         /\ q.rows[i].name \in {q.order[q.place], q.sub}
         /\ \A j \in DOMAIN q.rows : q.rows[j].name \in {q.order[q.place], q.sub} => i <= j
         /\ q.rows[i].position = subscription[q.rows[i].name].position_in_group =>
               subscription'[q.rows[i].name].position_in_group = q.place
         /\ \A s \in Existing : s # q.rows[i].name => subscription'[s] = subscription[s]
    BY PositionFacts
<1>3. /\ \A a, b \in DOMAIN q.rows : q.rows[a].name = q.rows[b].name => a = b
      /\ Existing = {q.rows[a].name : a \in DOMAIN q.rows}
      /\ q.rows[i].position = subscription[q.rows[i].name].position_in_group
      /\ \A k \in LastPlaces(q.order, q.place - 1) :
            subscription[q.order[k]].position_in_group = k
    BY <1>1, <1>2 DEF Placing
<1>4. PICK n \in Nat : n = Len(q.rows) /\ DOMAIN q.rows = 1 .. n
    BY <1>1 DEF Edit
<1>5. q.order[q.place] \in Existing
    BY <1>1 DEF EditInv
<1>6. PICK j \in DOMAIN q.rows : q.rows[j].name = q.order[q.place]
    BY <1>3, <1>5
<1>7. q.rows[i].name = q.order[q.place]
    <2>1. ASSUME q.rows[i].name = q.sub
          PROVE  q.order[q.place] = q.sub
        <3>1. n \in DOMAIN q.rows
            BY <1>2, <1>4
        <3>2. i = n
            BY <1>2, <1>3, <1>4, <2>1, <3>1
        <3>3. i <= j
            BY <1>2, <1>6
        <3>4. j = n
            BY <1>4, <1>6, <3>2, <3>3
        <3> QED
            BY <1>4, <1>6, <3>4
    <2> QED
        BY <1>2, <2>1
<1>9. ASSUME NEW k \in LastPlaces(q.order, q.place)
      PROVE  subscription'[q.order[k]].position_in_group = k
    <2>1. CASE k = q.place
        BY <1>2, <1>3, <1>7, <2>1
    <2>2. CASE k # q.place
        <3>0. k \in 1 .. q.place /\ \A m \in k + 1 .. q.place : q.order[m] # q.order[k]
            BY <1>9 DEF LastPlaces
        <3>1. /\ k \in 1 .. q.place - 1 /\ k \in 1 .. Len(q.order)
              /\ q.place \in k + 1 .. q.place
            BY <1>1, <2>2, <3>0
        <3>2. q.order[k] # q.order[q.place]
            BY <3>0, <3>1
        <3>3. q.order[k] \in Existing
            BY <1>1, <3>1 DEF EditInv
        <3>6. k \in LastPlaces(q.order, q.place - 1)
            BY <1>1, <3>0, <3>1 DEF LastPlaces
        <3>4. subscription'[q.order[k]] = subscription[q.order[k]]
            BY <1>2, <1>7, <3>2, <3>3
        <3>5. subscription[q.order[k]].position_in_group = k
            BY <1>3, <3>6
        <3> QED
            BY <3>4, <3>5
    <2> QED
        BY <2>1, <2>2
<1> QED
    BY <1>9

\* The order goes on to its next entry.
LEMMA PlaceStep ==
    ASSUME CatalogueOK, CatalogueInv, NEW r \in EditRequests, SetPosition(r),
           NEW q, q = editRequest[r], q.place # Len(q.order)
    PROVE  CatalogueOK' /\ CatalogueInv'
<1>1. /\ q.at = "order" /\ q.at \in Stages /\ q \in Edit /\ EditInv(q) /\ q.sub \in Existing
      /\ q.place \in 1 .. Len(q.order) /\ Len(q.order) \in Nat /\ DOMAIN q.order = 1 .. Len(q.order)
      /\ listed' = listed /\ Existing' = Existing
      /\ \A s \in Existing :
            /\ subscription'[s] \in Row /\ Whole(subscription'[s])
            /\ subscription'[s].price = subscription[s].price
            /\ subscription'[s].period = subscription[s].period
            /\ subscription'[s].period_count = subscription[s].period_count
            /\ subscription'[s].period_unit = subscription[s].period_unit
    BY PositionFacts DEF Stages
<1>2. PICK i \in DOMAIN q.rows :
         /\ i = Match(q.rows, q.order[q.place], q.sub)
         /\ q.rows[i].name \in Existing
         /\ q.rows[i].position = subscription[q.rows[i].name].position_in_group =>
               subscription'[q.rows[i].name].position_in_group = q.place
         /\ \A s \in Existing : s # q.rows[i].name => subscription'[s] = subscription[s]
    BY PositionFacts
<1>3. /\ editRequest' = [editRequest EXCEPT ![r] =
             [q EXCEPT !.place = @ + 1, !.rows[i].position = q.place]]
      /\ UNCHANGED <<asked, halfDone, askedOrder, misordered>>
    BY <1>2 DEF SetPosition
<1>4. PICK rows : rows = [q.rows EXCEPT ![i].position = q.place]
    OBVIOUS
<1>5. PICK p : p = [q EXCEPT !.place = q.place + 1, !.rows = rows]
    OBVIOUS
<1>6. Continues(r, p)
    BY <1>3, <1>4, <1>5 DEF Continues
<1>7. q.place \in Nat /\ q.place + 1 \in 1 .. Len(q.order) /\ q.place + 1 \in Nat
    BY <1>1
<1>8. PICK old \in Seq([name : Sub, position : Nat]), n \in Nat :
         /\ old = q.rows /\ n = Len(old) /\ DOMAIN old = 1 .. n /\ i \in 1 .. n
         /\ old[i] \in [name : Sub, position : Nat]
    <2>1. PICK old \in Seq([name : Sub, position : Nat]) : old = q.rows
        BY <1>1 DEF Edit
    <2>2. Len(old) \in Nat /\ DOMAIN old = 1 .. Len(old)
        BY <2>1, LenProperties
    <2>3. i \in 1 .. Len(old)
        BY <1>2, <2>1, <2>2
    <2>4. old[i] \in [name : Sub, position : Nat]
        BY <2>3, ElementOfSeq
    <2> QED
        BY <2>1, <2>2, <2>3, <2>4
<1>9. /\ rows \in Seq([name : Sub, position : Nat])
      /\ DOMAIN rows = 1 .. n /\ Len(rows) = n
      /\ \A j \in 1 .. n : rows[j].name = old[j].name
      /\ rows[i].position = q.place
      /\ \A j \in 1 .. n : j # i => rows[j] = old[j]
    <2>1. PICK e : e = [old[i] EXCEPT !.position = q.place]
        OBVIOUS
    <2>2. e \in [name : Sub, position : Nat] /\ e.name = old[i].name /\ e.position = q.place
        BY <1>7, <1>8, <2>1
    <2>3. rows = [old EXCEPT ![i] = e]
        BY <1>4, <1>8, <2>1
    <2>4. /\ rows \in Seq([name : Sub, position : Nat]) /\ Len(rows) = n
          /\ \A j \in 1 .. n : rows[j] = IF j = i THEN e ELSE old[j]
        BY <1>8, <2>2, <2>3, ExceptSeq
    <2>5. DOMAIN rows = 1 .. n
        BY <1>8, <2>3
    <2> QED
        BY <1>8, <2>2, <2>4, <2>5
<1>10. /\ \A j \in 1 .. n : old[j].name \in Existing
       /\ \E j \in 1 .. n : old[j].name = q.sub
    BY <1>1, <1>8 DEF EditInv
<1>11. /\ p \in Edit /\ p.at = "order" /\ p.rows = rows /\ p.place = q.place + 1
       /\ p.sub = q.sub /\ p.form = q.form /\ p.copy = q.copy /\ p.list = q.list
       /\ p.order = q.order /\ p.want = q.want /\ p.onItsOwn = q.onItsOwn /\ p.alone = q.alone
    <2>1. p \in Edit
        BY <1>1, <1>5, <1>7, <1>9 DEF Edit
    <2> QED
        BY <1>1, <1>5, <2>1 DEF Edit
<1>12. EditInv(p)
    <2>0. /\ p.rows = rows /\ p.sub = q.sub /\ DOMAIN rows = 1 .. n
          /\ \A j \in 1 .. n : rows[j].name = old[j].name
        BY <1>9, <1>11
    <2>1. /\ \A j \in DOMAIN p.rows : p.rows[j].name \in Existing
          /\ \E j \in DOMAIN p.rows : p.rows[j].name = p.sub
        BY <1>10, <2>0
    <2> QED
        BY <1>1, <1>7, <1>11, <2>1 DEF EditInv
<1>13. \A t \in Existing \ {q.sub} : KeepsAll(t)
    BY <1>1, <1>3 DEF KeepsAll
<1>14. q.onItsOwn => Progress(p)'
    <2> SUFFICES ASSUME q.onItsOwn
                 PROVE  Progress(p)'
        OBVIOUS
    <2>1. Progress(q)
        BY <1>1, UnderWay
    <2>2. Handled(p)' = List /\ Handled(q) = List
        BY <1>1, <1>11 DEF Handled
    <2>3. /\ p.at = "order" /\ q.at = "order" /\ p.sub = q.sub
          /\ p.form = q.form /\ p.want = q.want
        BY <1>1, <1>11
    <2>4. /\ subscription'[q.sub].price = subscription[q.sub].price
          /\ subscription'[q.sub].period = subscription[q.sub].period
          /\ subscription'[q.sub].period_count = subscription[q.sub].period_count
          /\ subscription'[q.sub].period_unit = subscription[q.sub].period_unit
          /\ listed' = listed
        BY <1>1
    <2>5. /\ q.form.price = q.want.price /\ q.form.period_unit = q.want.period_unit
          /\ q.want.period_unit = "Day" => q.form.period = q.want.period
          /\ \A k \in List : q.form.lists[k] = q.want.lists[k] \/ k = "features"
          /\ subscription[q.sub].price = q.form.price
          /\ subscription[q.sub].period = q.form.period
          /\ subscription[q.sub].period_unit = q.form.period_unit
          /\ subscription[q.sub].period_count
                = ConvertToDays(q.form.period, q.form.period_unit)
          /\ \A k \in List : listed[k][q.sub] = q.want.lists[k]
        BY <2>1, <2>2, <2>3 DEF Progress
    <2>6. /\ subscription'[p.sub].price = p.form.price
          /\ subscription'[p.sub].period = p.form.period
          /\ subscription'[p.sub].period_unit = p.form.period_unit
          /\ subscription'[p.sub].period_count
                = ConvertToDays(p.form.period, p.form.period_unit)
          /\ \A k \in List : listed'[k][p.sub] = p.want.lists[k]
        BY <2>3, <2>4, <2>5
    <2>7. /\ p.form.price = p.want.price /\ p.form.period_unit = p.want.period_unit
          /\ p.want.period_unit = "Day" => p.form.period = p.want.period
          /\ \A k \in List : p.form.lists[k] = p.want.lists[k] \/ k = "features"
        BY <2>3, <2>5
    <2> QED
        BY <2>2, <2>3, <2>6, <2>7 DEF Progress, ConvertToDays
<1>15. q.alone => Placing(p)'
    <2> SUFFICES ASSUME q.alone
                 PROVE  Placing(p)'
        OBVIOUS
    <2>1. Placing(q)
        BY <1>1, UnderWay
    <2>3. /\ \A a, b \in 1 .. n : old[a].name = old[b].name => a = b
          /\ \A x : x \in Existing <=> \E a \in 1 .. n : old[a].name = x
          /\ \A a \in 1 .. n : old[a].position = subscription[old[a].name].position_in_group
        <3>1. q.rows = old /\ DOMAIN q.rows = 1 .. n
            BY <1>8
        <3>2. \A a, b \in DOMAIN q.rows : q.rows[a].name = q.rows[b].name => a = b
            BY <1>1, <2>1 DEF Placing
        <3>0. Existing = {q.rows[a].name : a \in DOMAIN q.rows}
            BY <1>1, <2>1 DEF Placing
        <3>3. \A x : x \in Existing <=> \E a \in DOMAIN q.rows : q.rows[a].name = x
            BY <3>0
        <3>4. \A a \in DOMAIN q.rows :
                 q.rows[a].position = subscription[q.rows[a].name].position_in_group
            BY <1>1, <2>1 DEF Placing
        <3>5. \A a, b \in 1 .. n : old[a].name = old[b].name => a = b
            BY <3>1, <3>2
        <3>6. \A x : x \in Existing <=> \E a \in 1 .. n : old[a].name = x
            BY <3>1, <3>3
        <3>7. \A a \in 1 .. n : old[a].position = subscription[old[a].name].position_in_group
            BY <3>1, <3>4
        <3> QED
            BY <3>5, <3>6, <3>7
    <2>4. \A a, b \in 1 .. n : rows[a].name = rows[b].name => a = b
        <3> SUFFICES ASSUME NEW a \in 1 .. n, NEW b \in 1 .. n, rows[a].name = rows[b].name
                     PROVE  a = b
            OBVIOUS
        <3>1. old[a].name = old[b].name
            BY <1>9
        <3> QED
            BY <2>3, <3>1
    <2>5. \A x : x \in Existing <=> \E a \in 1 .. n : rows[a].name = x
        <3>1. \A a \in 1 .. n : rows[a].name = old[a].name
            BY <1>9
        <3>2. \A x : x \in Existing <=> \E a \in 1 .. n : old[a].name = x
            BY <2>3
        <3> QED
            BY <3>1, <3>2
    <2>6. ASSUME NEW a \in 1 .. n
          PROVE  rows[a].position = subscription'[rows[a].name].position_in_group
        <3>1. /\ old[a].name \in Existing /\ rows[a].name = old[a].name
              /\ old[a].position = subscription[old[a].name].position_in_group
            BY <1>9, <1>10, <2>3
        <3>2. CASE a = i
            <4>1. old[i] = q.rows[i] /\ rows[i].position = q.place /\ rows[i].name = old[i].name
                BY <1>8, <1>9
            <4>2. old[i].position = subscription[old[i].name].position_in_group
                BY <3>1, <3>2
            <4>3. q.rows[i].position = subscription[q.rows[i].name].position_in_group
                BY <4>1, <4>2
            <4>4. subscription'[q.rows[i].name].position_in_group = q.place
                BY <1>2, <4>3
            <4>5. subscription'[old[i].name].position_in_group = q.place
                BY <4>1, <4>4
            <4> QED
                BY <3>2, <4>1, <4>5
        <3>3. CASE a # i
            <4>1. old[a].name # old[i].name
                BY <1>8, <2>3, <3>3
            <4>2. subscription'[old[a].name] = subscription[old[a].name]
                BY <1>2, <1>8, <3>1, <4>1
            <4> QED
                BY <1>9, <3>1, <3>3, <4>2
        <3> QED
            BY <3>2, <3>3
    <2>7. ASSUME rows[n].name = q.sub
          PROVE  \A k \in LastPlaces(q.order, q.place) :
                    subscription'[q.order[k]].position_in_group = k
        <3>1. n \in 1 .. n
            BY <1>8
        <3>2. q.rows[Len(q.rows)].name = q.sub
            BY <1>8, <1>9, <2>7, <3>1
        <3> QED
            BY <2>1, <3>2, PlacedRight
    <2>8. p.place - 1 = q.place
        BY <1>7, <1>11
    <2>9. /\ p.rows = rows /\ DOMAIN p.rows = 1 .. n /\ Len(p.rows) = n
          /\ p.sub = q.sub /\ p.order = q.order
        BY <1>11, <1>9
    <2>10. p.rows[Len(p.rows)].name = p.sub =>
              \A k \in LastPlaces(p.order, p.place - 1) :
                  subscription'[p.order[k]].position_in_group = k
        BY <2>7, <2>8, <2>9
    <2>11. Existing = {p.rows[a].name : a \in DOMAIN p.rows}
        BY <2>5, <2>9
    <2> QED
        BY <1>1, <2>4, <2>6, <2>9, <2>10, <2>11 DEF Placing
<1> QED
    BY <1>1, <1>3, <1>6, <1>11, <1>12, <1>13, <1>14, <1>15, WorkStep

\* The edit is over, without an order or after the last entry of its order.
LEMMA EndStep ==
    ASSUME CatalogueOK, CatalogueInv, NEW r \in EditRequests,
           NEW q \in Edit, q = editRequest[r], q.at \in {"group", "order"}, q.sub \in Existing,
           NEW order \in Seq(Existing), NEW ordered \in BOOLEAN,
           editRequest' = [editRequest EXCEPT ![r] = Closed], EditEnds(q, order, ordered),
           listed' = listed, Existing' = Existing,
           \A s \in Existing :
              /\ subscription'[s] \in Row /\ Whole(subscription'[s])
              /\ subscription'[s].price = subscription[s].price
              /\ subscription'[s].period = subscription[s].period
              /\ subscription'[s].period_count = subscription[s].period_count
              /\ subscription'[s].period_unit = subscription[s].period_unit,
           ordered => \A i \in LastPlaces(order, Len(order)) :
                         subscription'[order[i]].position_in_group = i
    PROVE  CatalogueOK' /\ CatalogueInv'
<1>1. q.at \in Stages
    BY DEF Stages
<1>2. /\ asked' = [asked EXCEPT ![q.sub] = q.want]
      /\ halfDone' = IF q.onItsOwn THEN halfDone \ {q.sub} ELSE halfDone \cup {q.sub}
      /\ askedOrder' = order
      /\ misordered' = ~ordered
    BY DEF EditEnds
<1>3. PICK p : p = Closed
    OBVIOUS
<1>4. Continues(r, p) /\ p.at = "done" /\ p.at \notin Stages /\ p.at # "page"
    BY <1>2, <1>3 DEF Continues, Closed, Stages
<1>5. /\ asked' \in [Existing -> Want] /\ asked'[q.sub] = q.want
      /\ \A t \in Existing : t # q.sub => asked'[t] = asked[t]
    BY <1>1, <1>2 DEF CatalogueOK, Edit
<1>6. halfDone' \in SUBSET Sub
    BY <1>1, <1>2 DEF CatalogueOK, Edit
<1>7. CatalogueOK'
    <2>1. askedOrder' \in Seq(Sub) /\ misordered' \in BOOLEAN
        BY <1>2, SeqMonotonic DEF CatalogueOK
    <2> QED
        BY <1>1, <1>3, <1>4, <1>5, <1>6, <2>1, TypesFrame
<1>8. ShapeInv'
    BY <1>1, <1>4, ShapeFrame DEF CatalogueInv
<1>9. ProgressInv'
    <2>1. \A t \in Existing \ {q.sub} : KeepsAll(t)
        BY <1>1, <1>2, <1>5 DEF KeepsAll
    <2>2. ASSUME Settled(q.sub)'
          PROVE  AsAsked(q.sub)'
        <3>1. q.sub \notin halfDone'
            BY <2>2 DEF Settled
        <3>2. q.onItsOwn
            BY <1>2, <3>1
        <3>3. Progress(q) /\ Handled(q) = List
            BY <1>1, <3>2, UnderWay DEF Handled
        <3>4. /\ q.form.price = q.want.price /\ q.form.period_unit = q.want.period_unit
              /\ q.want.period_unit = "Day" => q.form.period = q.want.period
              /\ subscription'[q.sub].price = q.form.price
              /\ subscription'[q.sub].period = q.form.period
              /\ subscription'[q.sub].period_unit = q.form.period_unit
              /\ subscription'[q.sub].period_count = ConvertToDays(q.form.period, q.form.period_unit)
              /\ \A k \in List : listed'[k][q.sub] = q.want.lists[k]
            BY <1>1, <3>3 DEF Progress
        <3>5. PICK row, want : row = subscription'[q.sub] /\ want = asked'[q.sub]
            OBVIOUS
        <3>6. /\ row.price = want.price /\ row.period_unit = want.period_unit
              /\ row.period_count = row.period * UnitDays[row.period_unit]
              /\ \A k \in List : listed'[k][q.sub] = want.lists[k]
            BY <1>5, <3>4, <3>5 DEF ConvertToDays
        <3>7. want.period_unit = "Day" => row.period = want.period * UnitDays[want.period_unit]
            <4>1. want.period \in Nat
                BY <1>1, <1>5, <3>5 DEF Edit, Want
            <4> QED
                BY <1>5, <3>4, <3>5, <4>1, DaysOfDays DEF ConvertToDays
        <3> QED
            BY <3>5, <3>6, <3>7 DEF AsAsked, LinkDays, ConvertToDays
    <2> QED
        BY <1>1, <1>4, <1>7, <2>1, <2>2, ProgressFrame DEF CatalogueInv
<1>10. OrderInv'
    <2>1. \A i \in DOMAIN askedOrder' : askedOrder'[i] \in Existing
        BY <1>2
    <2>2. OrderAsAsked'
        BY <1>2 DEF OrderAsAsked
    <2> QED
        BY <1>1, <1>4, <1>7, <2>1, <2>2, OrderFrame DEF CatalogueInv
<1> QED
    BY <1>7, <1>8, <1>9, <1>10 DEF CatalogueInv

\* A sequence with all its entries in T is a sequence over T.
LEMMA EntriesIn ==
    ASSUME NEW S, NEW T, NEW s \in Seq(S), \A i \in DOMAIN s : s[i] \in T
    PROVE  s \in Seq(T)
    OBVIOUS

\* The last entry has its position: the edit is over.
LEMMA LastPlaceStep ==
    ASSUME CatalogueOK, CatalogueInv, NEW r \in EditRequests, SetPosition(r),
           NEW q, q = editRequest[r], q.place = Len(q.order)
    PROVE  CatalogueOK' /\ CatalogueInv'
<1>1. /\ q.at = "order" /\ q.at \in Stages /\ q \in Edit /\ EditInv(q) /\ q.sub \in Existing
      /\ DOMAIN q.order = 1 .. Len(q.order)
      /\ listed' = listed /\ Existing' = Existing
      /\ \A s \in Existing :
            /\ subscription'[s] \in Row /\ Whole(subscription'[s])
            /\ subscription'[s].price = subscription[s].price
            /\ subscription'[s].period = subscription[s].period
            /\ subscription'[s].period_count = subscription[s].period_count
            /\ subscription'[s].period_unit = subscription[s].period_unit
    BY PositionFacts DEF Stages
<1>2. PICK ordered \in BOOLEAN : ordered = (q.alone /\ q.rows[Len(q.rows)].name = q.sub)
    OBVIOUS
<1>3. editRequest' = [editRequest EXCEPT ![r] = Closed] /\ EditEnds(q, q.order, ordered)
    BY <1>2 DEF SetPosition, EditEnds
<1>4. q.order \in Seq(Existing)
    <2>1. \A i \in DOMAIN q.order : q.order[i] \in Existing
        BY <1>1 DEF EditInv
    <2>2. q.order \in Seq(Sub)
        BY <1>1 DEF Edit
    <2> QED
        BY <2>1, <2>2, EntriesIn
<1>5. ASSUME ordered
      PROVE  \A k \in LastPlaces(q.order, Len(q.order)) :
                subscription'[q.order[k]].position_in_group = k
    <2>1. Placing(q) /\ q.rows[Len(q.rows)].name = q.sub
        BY <1>1, <1>2, <1>5, UnderWay
    <2> QED
        BY <2>1, PlacedRight
<1> QED
    BY <1>1, <1>3, <1>4, <1>5, EndStep

LEMMA LeaveStep ==
    ASSUME CatalogueOK, CatalogueInv, NEW r \in EditRequests, LeaveOrder(r)
    PROVE  CatalogueOK' /\ CatalogueInv'
<1>1. PICK q : q = editRequest[r]
    OBVIOUS
<1>2. /\ q.at = "group" /\ q.at \in Stages
      /\ editRequest' = [editRequest EXCEPT ![r] = Closed] /\ EditEnds(q, <<>>, TRUE)
      /\ subscription' = subscription /\ listed' = listed /\ Existing' = Existing
    BY <1>1 DEF LeaveOrder, EditAt, Stages, Existing
<1>3. q \in Edit /\ q.sub \in Existing
    BY <1>1, <1>2, UnderWay
<1>4. <<>> \in Seq(Existing) /\ LastPlaces(<<>>, Len(<<>>)) = {}
    BY EmptySeq DEF LastPlaces
<1>5. \A s \in Existing : subscription'[s] \in Row /\ Whole(subscription'[s])
    BY <1>2 DEF CatalogueOK, CatalogueInv, ShapeInv
<1> QED
    BY <1>1, <1>2, <1>3, <1>4, <1>5, EndStep

LEMMA FailStep ==
    ASSUME CatalogueOK, CatalogueInv, NEW r \in EditRequests, EditFails(r)
    PROVE  CatalogueOK' /\ CatalogueInv'
<1>1. PICK q : q = editRequest[r]
    OBVIOUS
<1>2. q.at \in Stages
    BY <1>1, RequestKinds DEF EditFails, EditAt
<1>3. q \in Edit /\ EditInv(q) /\ q.sub \in Existing /\ q.sub \in Sub
    BY <1>1, <1>2, UnderWay
<1>4. /\ editRequest' = [editRequest EXCEPT ![r] = Closed]
      /\ halfDone' = halfDone \cup {q.sub} /\ misordered' = TRUE
      /\ UNCHANGED <<subscription, listed, asked, askedOrder>>
    BY <1>1 DEF EditFails
<1>5. PICK p : p = Closed
    OBVIOUS
<1>6. Continues(r, p) /\ p.at = "done" /\ p.at \notin Stages /\ p.at # "page"
    BY <1>4, <1>5 DEF Continues, Closed, Stages
<1>7. /\ Existing' = Existing
      /\ \A s \in Existing : subscription'[s] \in Row /\ Whole(subscription'[s])
    BY <1>4 DEF Existing, CatalogueOK, CatalogueInv, ShapeInv
<1>8. CatalogueOK'
    BY <1>3, <1>4, <1>5, <1>6, <1>7, TypesFrame DEF CatalogueOK
<1>9. ShapeInv'
    BY <1>6, <1>7, ShapeFrame DEF CatalogueInv
<1>10. ProgressInv'
    <2>1. \A t \in Existing \ {q.sub} : KeepsAll(t)
        BY <1>4 DEF KeepsAll
    <2>2. ~Settled(q.sub)'
        BY <1>4 DEF Settled
    <2> QED
        BY <1>1, <1>2, <1>6, <1>7, <1>8, <2>1, <2>2, ProgressFrame DEF CatalogueInv
<1>11. OrderInv'
    <2>1. OrderAsAsked' /\ \A i \in DOMAIN askedOrder' : askedOrder'[i] \in Existing
        BY <1>4 DEF OrderAsAsked, CatalogueInv, OrderInv
    <2> QED
        BY <1>1, <1>2, <1>6, <1>7, <1>8, <2>1, OrderFrame DEF CatalogueInv
<1> QED
    BY <1>8, <1>9, <1>10, <1>11 DEF CatalogueInv

(***************************************************************************)
(* The steps that begin an edit                                            *)
(***************************************************************************)

\* A page shows what was asked for, if nobody is at work on the subscription.
LEMMA PageStep ==
    ASSUME CatalogueOK, CatalogueInv, NEW r \in EditRequests, EditPage(r)
    PROVE  CatalogueOK' /\ CatalogueInv'
<1>1. /\ EditAt(r) = "unsent" /\ EditAt(r) \notin Stages
      /\ UNCHANGED <<subscription, listed, asked, halfDone, askedOrder, misordered>>
    BY DEF EditPage, Stages
<1>2. PICK s \in Existing :
         editRequest' = [editRequest EXCEPT ![r] =
              [at |-> "page", sub |-> s, form |-> PageForm(s), want |-> asked[s],
               onItsOwn |-> ~Editing(s) /\ s \notin halfDone]]
    BY DEF EditPage
<1>3. PICK own \in BOOLEAN : own = (~Editing(s) /\ s \notin halfDone)
    OBVIOUS
<1>4. PICK form : form = PageForm(s)
    OBVIOUS
<1>5. PICK row \in Row : row = subscription[s] /\ Whole(row)
    BY DEF CatalogueOK, CatalogueInv, ShapeInv
<1>6. /\ form.price = row.price /\ form.period = row.period_count
      /\ form.period_unit = row.period_unit /\ form.import = {}
      /\ form.lists = [k \in List |-> listed[k][s]]
    BY <1>4, <1>5 DEF PageForm
<1>7. s \in Sub /\ form \in Form /\ asked[s] \in Want
    <2>1. s \in Sub /\ asked[s] \in Want
        BY DEF CatalogueOK
    <2>2. [k \in List |-> listed[k][s]] \in ListsOfForm
        BY <2>1 DEF CatalogueOK, ListedOK, ListsOfForm
    <2>3. form \in Form
        BY <1>4, <1>5, <2>2 DEF PageForm, Form, Row
    <2> QED
        BY <2>1, <2>3
<1>8. PICK p : p = [at |-> "page", sub |-> s, form |-> form, want |-> asked[s], onItsOwn |-> own]
    OBVIOUS
<1>9. /\ p \in Page /\ p.at = "page" /\ p.sub = s /\ p.form = form /\ p.want = asked[s]
      /\ p.onItsOwn = own
    BY <1>7, <1>8 DEF Page
<1>10. Continues(r, p)
    BY <1>2, <1>3, <1>4, <1>8 DEF Continues
<1>11. /\ editRequest'[r] = p /\ EditAt(r)' = "page"
       /\ \A x \in EditRequests : x # r =>
             editRequest'[x] = editRequest[x] /\ EditAt(x)' = EditAt(x)
    BY <1>9, <1>10, ContinuesFacts
<1>12. /\ Existing' = Existing
       /\ \A t \in Existing : subscription'[t] \in Row /\ Whole(subscription'[t])
    BY <1>1 DEF Existing, CatalogueOK, CatalogueInv, ShapeInv
<1>13. CatalogueOK'
    BY <1>1, <1>9, <1>10, <1>12, TypesFrame DEF CatalogueOK
<1>14. PageInv(p)
    <2>1. FormInv(form, s)
        BY <1>6, <1>7 DEF FormInv, CatalogueOK, ListedOK
    <2>2. form.price # 0 => form.price \in FormPrice /\ form.period_unit # "NULL"
        BY <1>5, <1>6 DEF Whole
    <2> QED
        BY <1>6, <1>9, <2>1, <2>2 DEF PageInv
<1>15. ShapeInv'
    BY <1>9, <1>10, <1>12, <1>14, ShapeFrame DEF CatalogueInv, Stages
<1>16. "page" \notin Stages
    BY DEF Stages
<1>17. \A t : Editors(t)' = Editors(t)
    <2>1. ASSUME NEW t, NEW x
          PROVE  x \in Editors(t)' <=> x \in Editors(t)
        <3>1. CASE x = r
            <4>1. x \notin Editors(t)
                BY <1>1, <3>1, EditorFacts
            <4>2. x \notin Editors(t)'
                BY <1>11, <1>13, <1>16, <3>1, EditorFactsNext
            <4> QED
                BY <4>1, <4>2
        <3>2. CASE x # r
            BY <1>11, <1>13, <3>2, EditorsOfOthers
        <3> QED
            BY <3>1, <3>2
    <2>2. ASSUME NEW t
          PROVE  Editors(t)' = Editors(t)
        BY <2>1
    <2> QED
        BY <2>2
<1>18. \A t \in Existing : KeepsAll(t)
    BY <1>1 DEF KeepsAll
<1>19. ProgressInv'
    <2>1. ASSUME NEW t \in Existing', Settled(t)'
          PROVE  AsAsked(t)'
        <3>1. Settled(t)
            BY <1>1, <1>17, <2>1 DEF Settled, Editing
        <3> QED
            BY <1>12, <1>18, <3>1, AllAsAsked, AsAskedKept DEF CatalogueInv, ProgressInv
    <2>2. EditIsComplete' /\ LengthAsAsked'
        BY <2>1, AllAsAskedNext
    <2>3. ASSUME NEW x \in EditRequests,
                 editRequest'[x].at \in Stages \cup {"page"}, editRequest'[x].onItsOwn
          PROVE  IF EditAt(x)' = "page" THEN Shown(editRequest[x])'
                 ELSE Editors(editRequest[x].sub)' = {x} /\ Progress(editRequest[x])'
        <3>1. CASE x = r
            <4>1. Settled(s)
                BY <1>3, <1>9, <1>11, <2>3, <3>1 DEF Settled
            <4>2. AsAsked(s)
                BY <4>1, AllAsAsked DEF CatalogueInv, ProgressInv
            <4>3. /\ form.price = asked[s].price /\ form.period_unit = asked[s].period_unit
                  /\ asked[s].period_unit = "Day" => form.period = asked[s].period
                <5>1. PICK want : want = asked[s]
                    OBVIOUS
                <5>2. /\ row.price = want.price /\ row.period_unit = want.period_unit
                      /\ row.period_count = ConvertToDays(row.period, row.period_unit)
                      /\ want.period_unit = "Day" =>
                            row.period = ConvertToDays(want.period, want.period_unit)
                    BY <1>5, <4>2, <5>1 DEF AsAsked, LinkDays
                <5>3. row.period \in Nat /\ want.period \in Nat
                    BY <1>5, <1>7, <5>1 DEF Row, Want
                <5>4. want.period_unit = "Day" => row.period_count = want.period
                    BY <5>2, <5>3, DaysOfDays
                <5>5. form.price = want.price /\ form.period_unit = want.period_unit
                    BY <1>6, <1>5, <5>1, <5>2
                <5>6. want.period_unit = "Day" => form.period = want.period
                    BY <1>6, <1>5, <5>1, <5>4
                <5> QED
                    BY <5>1, <5>5, <5>6
            <4>4. form.lists = asked[s].lists
                <5>1. asked[s].lists \in [List -> SUBSET (Feature \cup Sub)]
                    BY <1>7 DEF Want, ListsOfForm
                <5> QED
                    BY <1>6, <4>2, <5>1 DEF AsAsked
            <4>5. Shown(p)
                BY <1>9, <4>3, <4>4 DEF Shown
            <4>6. Shown(editRequest[x])'
                BY <1>11, <3>1, <4>5 DEF Shown
            <4> QED
                BY <1>11, <3>1, <4>6
        <3>2. CASE x # r
            <4>1. PICK w : w = editRequest[x] /\ editRequest'[x] = w
                BY <1>11, <3>2
            <4>2. w.at \in Stages \cup {"page"} /\ w.onItsOwn
                BY <2>3, <4>1
            <4>3. CASE w.at = "page"
                <5>1. Shown(w)
                    BY <4>1, <4>2, <4>3 DEF CatalogueInv, ProgressInv, EditAt
                <5>2. Shown(editRequest[x])'
                    BY <4>1, <5>1 DEF Shown
                <5> QED
                    BY <1>11, <3>2, <4>1, <4>3, <5>2 DEF EditAt
            <4>4. CASE w.at # "page"
                <5>1. Editors(w.sub) = {x} /\ Progress(w)
                    BY <4>1, <4>2, <4>4 DEF CatalogueInv, ProgressInv, EditAt
                <5>2. w.at \in Stages
                    BY <4>2, <4>4
                <5>3. w \in Edit /\ EditInv(w)
                    BY <4>1, <5>2, UnderWay
                <5>4. w.sub \in Existing
                      /\ (w.at \in {"delete", "import", "create"} => w.list \in List)
                    BY <5>3 DEF EditInv, Edit
                <5>5. Progress(w)'
                    BY <1>18, <5>1, <5>4, ProgressKept
                <5>6. Progress(editRequest[x])'
                    BY <4>1, <5>5 DEF Progress, Handled
                <5>7. Editors(w.sub)' = {x}
                    BY <1>17, <5>1
                <5>8. Editors(editRequest[x].sub)' = {x}
                    BY <4>1, <5>7 DEF Editors
                <5> QED
                    BY <1>11, <3>2, <4>1, <4>4, <5>6, <5>8 DEF EditAt
            <4> QED
                BY <4>3, <4>4
        <3> QED
            BY <3>1, <3>2
    <2> QED
        BY <2>2, <2>3 DEF ProgressInv
<1>20. OrderInv'
    <2>1. OrderAsAsked'
        BY <1>1, <1>12, <1>17 DEF CatalogueInv, OrderInv, OrderAsAsked, Editing
    <2>2. \A i \in DOMAIN askedOrder' : askedOrder'[i] \in Existing'
        BY <1>1, <1>12 DEF CatalogueInv, OrderInv
    <2>3. ASSUME NEW x \in EditRequests, EditAt(x)' \in Stages, editRequest'[x].alone
          PROVE  /\ \A y \in EditRequests : EditAt(y)' \in Stages => y = x
                 /\ Placing(editRequest[x])'
        <3>1. x # r
            BY <1>11, <1>16, <2>3
        <3>2. /\ \A y \in EditRequests : EditAt(y) \in Stages => y = x
              /\ Placing(editRequest[x])
            BY <1>11, <2>3, <3>1 DEF CatalogueInv, OrderInv
        <3>3. \A y \in EditRequests : EditAt(y)' \in Stages => y = x
            BY <1>11, <1>16, <3>2
        <3>4. PICK w : w = editRequest[x] /\ editRequest'[x] = w
            BY <1>11, <3>1
        <3>5. Placing(w)
            BY <3>2, <3>4
        <3>6. Placing(w)'
            BY <1>1, <1>12, <3>5 DEF Placing
        <3>7. Placing(editRequest[x])'
            BY <3>4, <3>6 DEF Placing
        <3> QED
            BY <3>3, <3>7
    <2> QED
        BY <2>1, <2>2, <2>3 DEF OrderInv
<1> QED
    BY <1>13, <1>15, <1>19, <1>20 DEF CatalogueInv

\* Another edit begins while an edit is under way: it is no longer alone, and no
\* longer on its own if both are of one subscription.
LEMMA CrossedFacts ==
    ASSUME NEW q \in Edit, NEW s,
           NEW e, e = [q EXCEPT !.alone = FALSE, !.onItsOwn = @ /\ q.sub # s]
    PROVE  /\ e \in Edit /\ e.at = q.at /\ e.list = q.list /\ e.todo = q.todo
           /\ e.sub = q.sub /\ e.form = q.form /\ e.copy = q.copy
           /\ e.order = q.order /\ e.place = q.place /\ e.rows = q.rows /\ e.want = q.want
           /\ ~e.alone /\ (e.onItsOwn <=> q.onItsOwn /\ q.sub # s)
<1>1. e \in Edit
    BY DEF Edit
<1> QED
    BY <1>1 DEF Edit

\* The edit that begins, those it finds under way, and the other requests.
Begun(r, s, stage, form, want, own) ==
    /\ \E p \in Edit :
          /\ editRequest'[r] = p
          /\ p.at = stage /\ p.sub = s /\ p.form = form /\ p.want = want
          /\ p.copy = IF s \in Existing THEN subscription[s] ELSE Blank
          /\ p.list = "none" /\ p.place = 1
          /\ p.onItsOwn <=> own /\ ~Editing(s)
          /\ p.alone <=> \A x \in EditRequests : EditAt(x) \notin Stages
    /\ \A x \in EditRequests \ {r} :
          /\ EditAt(x)' = EditAt(x)
          /\ EditAt(x) \notin Stages => editRequest'[x] = editRequest[x]
          /\ EditAt(x) \in Stages =>
                editRequest'[x] =
                   [editRequest[x] EXCEPT !.alone = FALSE,
                                          !.onItsOwn = @ /\ editRequest[x].sub # s]
    /\ editRequest' \in [EditRequests -> {NoForm, Closed} \cup Page \cup Edit]

LEMMA StartFacts ==
    ASSUME CatalogueOK, ShapeInv, NEW r \in EditRequests, EditAt(r) \in {"unsent", "page"},
           NEW s \in Sub, NEW stage \in {"blank", "fill"}, NEW form \in Form, NEW want \in Want,
           NEW own \in BOOLEAN, Start(r, s, stage, form, want, own)
    PROVE  Begun(r, s, stage, form, want, own)
<1>1. PICK others : others = UNION {Editors(t) : t \in Sub}
    OBVIOUS
<1>2. \A x : x \in others <=> x \in EditRequests /\ EditAt(x) \in Stages
    BY <1>1, EditorFacts
<1>3. PICK copy : copy = IF s \in Existing THEN subscription[s] ELSE Blank
    OBVIOUS
<1>4. copy \in Row
    BY <1>3, BlankFacts DEF CatalogueOK
<1>5. editRequest' =
            [q \in EditRequests |->
                IF q = r
                THEN [at |-> stage, sub |-> s, form |-> form, order |-> <<>>,
                      copy |-> IF s \in Existing THEN subscription[s] ELSE Blank,
                      list |-> "none", todo |-> {}, rows |-> <<>>, place |-> 1,
                      want |-> want,
                      onItsOwn |-> own /\ ~Editing(s),
                      alone |-> UNION {Editors(t) : t \in Sub} = {}]
                ELSE IF q \in UNION {Editors(t) : t \in Sub}
                THEN [editRequest[q] EXCEPT !.alone = FALSE,
                                            !.onItsOwn = @ /\ editRequest[q].sub # s]
                ELSE editRequest[q]]
    BY Zenon DEF Start
<1>10. <<>> \in Seq(Sub) /\ <<>> \in Seq([name : Sub, position : Nat])
    BY EmptySeq
<1>11. PICK mine, alone \in BOOLEAN :
          mine = (own /\ ~Editing(s)) /\ alone = (others = {}) /\ mine \in BOOLEAN
    OBVIOUS
<1>12. PICK p : p = [at |-> stage, sub |-> s, form |-> form, order |-> <<>>,
                     copy |-> copy, list |-> "none", todo |-> {}, rows |-> <<>>, place |-> 1,
                     want |-> want, onItsOwn |-> mine, alone |-> alone]
    OBVIOUS
<1>13. /\ p \in Edit /\ p.at = stage /\ p.sub = s /\ p.form = form /\ p.copy = copy
       /\ p.list = "none" /\ p.place = 1 /\ p.want = want /\ p.onItsOwn = mine /\ p.alone = alone
    BY <1>4, <1>10, <1>11, <1>12 DEF Edit, Stages
<1>14. editRequest'[r] = p
    BY <1>1, <1>3, <1>5, <1>11, <1>12
<1>15. alone <=> \A x \in EditRequests : EditAt(x) \notin Stages
    BY <1>2, <1>11
<1>16. \A x \in EditRequests \ {r} :
          /\ EditAt(x) \notin Stages => editRequest'[x] = editRequest[x]
          /\ EditAt(x) \in Stages =>
                editRequest'[x] =
                   [editRequest[x] EXCEPT !.alone = FALSE,
                                          !.onItsOwn = @ /\ editRequest[x].sub # s]
    BY <1>1, <1>2, <1>5
<1>17. ASSUME NEW x \in EditRequests \ {r}
       PROVE  /\ EditAt(x)' = EditAt(x)
              /\ editRequest'[x] \in {NoForm, Closed} \cup Page \cup Edit
    <2>1. CASE EditAt(x) \notin Stages
        BY <1>16, <2>1 DEF EditAt, CatalogueOK
    <2>2. CASE EditAt(x) \in Stages
        <3>1. editRequest[x] \in Edit
            BY <2>2, RequestKinds
        <3>2. PICK q \in Edit : q = editRequest[x]
            BY <3>1
        <3>3. PICK e : e = [q EXCEPT !.alone = FALSE, !.onItsOwn = @ /\ q.sub # s]
            OBVIOUS
        <3>4. e \in Edit /\ e.at = q.at
            <4>1. e \in Edit
                BY <3>3 DEF Edit
            <4> QED
                BY <3>3, <4>1 DEF Edit
        <3>5. editRequest'[x] = e
            BY <1>16, <2>2, <3>2, <3>3
        <3> QED
            BY <3>2, <3>4, <3>5 DEF EditAt
    <2> QED
        BY <2>1, <2>2
<1>18. editRequest' \in [EditRequests -> {NoForm, Closed} \cup Page \cup Edit]
    <2>1. \A x \in EditRequests : editRequest'[x] \in {NoForm, Closed} \cup Page \cup Edit
        BY <1>13, <1>14, <1>17
    <2>2. editRequest' = [x \in EditRequests |-> editRequest'[x]]
        BY <1>5
    <2> QED
        BY <2>1, <2>2
<1> QED
    BY <1>3, <1>11, <1>13, <1>14, <1>15, <1>16, <1>17, <1>18 DEF Begun

\* The requests of the next state, once an edit of s has begun.
LEMMA EditorsAfterStart ==
    ASSUME CatalogueOK, CatalogueOK', NEW r \in EditRequests, EditAt(r) \notin Stages,
           NEW s, editRequest'[r].at \in Stages, editRequest'[r].sub = s,
           \A x \in EditRequests \ {r} :
              /\ EditAt(x)' = EditAt(x)
              /\ EditAt(x) \in Stages => editRequest'[x].sub = editRequest[x].sub
    PROVE  /\ r \in Editors(s)'
           /\ Editors(s) = {} => Editors(s)' = {r}
           /\ \A t : t # s => Editors(t)' = Editors(t)
<1>1. \A t, x : x \in Editors(t) <=>
         x \in EditRequests /\ EditAt(x) \in Stages /\ editRequest[x].sub = t
    BY EditorFacts
<1>2. \A t, x : x \in Editors(t)' <=>
         x \in EditRequests /\ EditAt(x)' \in Stages /\ editRequest'[x].sub = t
    BY EditorFactsNext
<1>3. r \in Editors(s)'
    BY <1>2 DEF EditAt
<1>4. \A t, x : x # r => (x \in Editors(t)' <=> x \in Editors(t))
    BY <1>1, <1>2
<1>5. \A t : t # s => r \notin Editors(t) /\ r \notin Editors(t)'
    BY <1>1, <1>2
<1>6. Editors(s) = {} => Editors(s)' = {r}
    BY <1>3, <1>4
<1>7. ASSUME NEW t, t # s
      PROVE  Editors(t)' = Editors(t)
    BY <1>4, <1>5, <1>7
<1> QED
    BY <1>3, <1>6, <1>7

\* An edit of s begins: it is on its own and alone as far as it can tell, and no
\* other edit claims to be any more.
LEMMA StartStep ==
    ASSUME CatalogueOK, CatalogueInv, NEW r \in EditRequests, EditAt(r) \in {"unsent", "page"},
           NEW s \in Sub, NEW stage \in {"blank", "fill"}, NEW form \in Form, NEW want \in Want,
           NEW own \in BOOLEAN, Start(r, s, stage, form, want, own),
           form.price \in FormPrice, form.period # 0, form.period_unit # "NULL",
           FormInv(form, s),
           stage = "blank" <=> s \in Existing,
           Existing' = Existing \cup {s},
           \A t \in Existing : subscription'[t] = subscription[t] /\ asked'[t] = asked[t],
           s \notin Existing => subscription'[s] = Blank,
           asked' \in [Existing' -> Want],
           UNCHANGED <<listed, halfDone, askedOrder, misordered>>,
           own => /\ form.price = want.price /\ form.period_unit = want.period_unit
                  /\ form.lists = want.lists
                  /\ want.period_unit = "Day" => form.period = want.period
    PROVE  CatalogueOK' /\ CatalogueInv'
<1>0. Begun(r, s, stage, form, want, own)
    BY StartFacts DEF CatalogueInv
<1>1. PICK p \in Edit :
         /\ editRequest'[r] = p
         /\ p.at = stage /\ p.sub = s /\ p.form = form /\ p.want = want
         /\ p.copy = IF s \in Existing THEN subscription[s] ELSE Blank
         /\ p.list = "none" /\ p.place = 1
         /\ p.onItsOwn <=> own /\ ~Editing(s)
         /\ p.alone <=> \A x \in EditRequests : EditAt(x) \notin Stages
    BY <1>0 DEF Begun
<1>2. \A x \in EditRequests \ {r} :
         /\ EditAt(x)' = EditAt(x)
         /\ EditAt(x) \notin Stages => editRequest'[x] = editRequest[x]
         /\ EditAt(x) \in Stages =>
               editRequest'[x] =
                  [editRequest[x] EXCEPT !.alone = FALSE,
                                         !.onItsOwn = @ /\ editRequest[x].sub # s]
    BY <1>0 DEF Begun
<1>3. editRequest' \in [EditRequests -> {NoForm, Closed} \cup Page \cup Edit]
    BY <1>0 DEF Begun
<1>4. EditAt(r) \notin Stages /\ p.at \in Stages /\ p.at # "order" /\ p.at \in {"blank", "fill"}
    BY <1>1 DEF Stages
<1>5. /\ \A t \in Existing' : subscription'[t] \in Row /\ Whole(subscription'[t])
      /\ Existing \subseteq Existing' /\ s \in Existing' /\ Existing' \in SUBSET Sub
    BY BlankFacts DEF CatalogueOK, CatalogueInv, ShapeInv
<1>6. CatalogueOK'
    <2>1. ListedOK'
        BY <1>5 DEF CatalogueOK, ListedOK, EntriesOf
    <2>2. \A t \in Existing' : subscription'[t].price = 0 <=> subscription'[t].period = 0
        BY <1>5, WholeFacts
    <2> QED
        BY <1>3, <1>5, <2>1, <2>2 DEF CatalogueOK
<1>7. ASSUME NEW x \in EditRequests \ {r}, EditAt(x) \in Stages, NEW q, q = editRequest[x],
             NEW e, e = editRequest'[x]
      PROVE  /\ q \in Edit /\ EditInv(q) /\ e \in Edit /\ e.at = q.at /\ e.list = q.list
             /\ e.todo = q.todo /\ e.sub = q.sub /\ e.form = q.form /\ e.copy = q.copy
             /\ e.order = q.order /\ e.place = q.place /\ e.rows = q.rows /\ e.want = q.want
             /\ ~e.alone /\ (e.onItsOwn <=> q.onItsOwn /\ q.sub # s)
    <2>1. q \in Edit /\ EditInv(q)
        BY <1>7, UnderWay DEF EditAt
    <2>2. e = [q EXCEPT !.alone = FALSE, !.onItsOwn = @ /\ q.sub # s]
        BY <1>2, <1>7
    <2>3. e \in Edit
        BY <2>1, <2>2 DEF Edit
    <2> QED
        BY <2>1, <2>2, <2>3 DEF Edit
<1>8. /\ r \in Editors(s)'
      /\ Editors(s) = {} => Editors(s)' = {r}
      /\ \A t : t # s => Editors(t)' = Editors(t)
    <2>1. \A x \in EditRequests \ {r} :
             EditAt(x) \in Stages => editRequest'[x].sub = editRequest[x].sub
        BY <1>7
    <2>2. editRequest'[r].at \in Stages /\ editRequest'[r].sub = s
        BY <1>1, <1>4
    <2> QED
        <3>1. \A x \in EditRequests \ {r} :
                 /\ EditAt(x)' = EditAt(x)
                 /\ EditAt(x) \in Stages => editRequest'[x].sub = editRequest[x].sub
            BY <1>2, <2>1
        <3> HIDE <1>0
        <3> QED
            BY <1>4, <1>6, <2>2, <3>1, EditorsAfterStart
<1>9. ShapeInv'
    <2>1. EditInv(p)'
        <3>1. FormInv(form, s)'
            BY <1>5, FormsGrow
        <3>2. Whole(p.copy) /\ (p.at # "blank" => p.copy = Blank)
            BY <1>1, BlankFacts DEF CatalogueInv, ShapeInv
        <3>3. Whole(p.copy)'
            BY <3>2 DEF Whole
        <3> QED
            BY <1>1, <1>4, <1>5, <3>1, <3>2, <3>3 DEF EditInv
    <2>2. ASSUME NEW x \in EditRequests
          PROVE  /\ (EditAt(x) = "page" => PageInv(editRequest[x]))'
                 /\ (EditAt(x) \in Stages => EditInv(editRequest[x]))'
        <3>1. PICK e : e = editRequest'[x]
            OBVIOUS
        <3>2. e.at \in Stages => EditInv(e)'
            <4>1. CASE x = r
                BY <1>1, <2>1, <3>1, <4>1
            <4>2. CASE x # r
                <5> SUFFICES ASSUME e.at \in Stages
                             PROVE  EditInv(e)'
                    OBVIOUS
                <5>1. EditAt(x) \in Stages
                    BY <1>2, <3>1, <4>2 DEF EditAt
                <5>2. PICK q : q = editRequest[x]
                    OBVIOUS
                <5>3. /\ EditInv(q) /\ e.at = q.at /\ e.list = q.list
                      /\ e.todo = q.todo /\ e.sub = q.sub /\ e.form = q.form /\ e.copy = q.copy
                      /\ e.order = q.order /\ e.place = q.place /\ e.rows = q.rows
                    BY <1>7, <3>1, <4>2, <5>1, <5>2
                <5>4. EditInv(e)
                    BY <5>3 DEF EditInv
                <5> QED
                    BY <1>5, <5>4, EditsGrow
            <4> QED
                BY <4>1, <4>2
        <3>3. e.at = "page" => PageInv(e)'
            <4> SUFFICES ASSUME e.at = "page"
                         PROVE  PageInv(e)'
                OBVIOUS
            <4>1. x # r /\ EditAt(x) = "page" /\ EditAt(x) \notin Stages
                BY <1>1, <1>2, <1>4, <3>1 DEF EditAt, Stages
            <4>2. e = editRequest[x]
                BY <1>2, <3>1, <4>1
            <4>3. PageInv(e)
                BY <4>1, <4>2 DEF CatalogueInv, ShapeInv
            <4> QED
                BY <1>5, <4>3, PagesGrow
        <3>4. PageInv(e)' <=> PageInv(editRequest[x])'
            BY <3>1 DEF PageInv, FormInv, EntriesOf
        <3>5. EditInv(e)' <=> EditInv(editRequest[x])'
            BY <3>1 DEF EditInv, FormInv, EntriesOf, Whole
        <3> QED
            BY <3>1, <3>2, <3>3, <3>4, <3>5 DEF EditAt
    <2>3. IsFiniteSet(Existing')
        BY FS_AddElement DEF CatalogueInv, ShapeInv
    <2>4. \A t \in Existing' : Whole(subscription[t])'
        BY <1>5 DEF Whole
    <2> QED
        BY <2>2, <2>3, <2>4 DEF ShapeInv
<1>10. \A t \in Existing \ {s} : KeepsAll(t)
    BY DEF KeepsAll
<1>11. ProgressInv'
    <2>1. ASSUME NEW t \in Existing', Settled(t)'
          PROVE  AsAsked(t)'
        <3>1. t # s /\ t \in Existing
            BY <1>8, <2>1 DEF Settled, Editing
        <3>2. Settled(t)
            BY <1>8, <2>1, <3>1 DEF Settled, Editing
        <3> QED
            BY <1>10, <3>1, <3>2, AllAsAsked, AsAskedKept DEF CatalogueInv, ProgressInv
    <2>2. EditIsComplete' /\ LengthAsAsked'
        BY <2>1, AllAsAskedNext
    <2>3. ASSUME NEW x \in EditRequests,
                 editRequest'[x].at \in Stages \cup {"page"}, editRequest'[x].onItsOwn
          PROVE  IF EditAt(x)' = "page" THEN Shown(editRequest[x])'
                 ELSE Editors(editRequest[x].sub)' = {x} /\ Progress(editRequest[x])'
        <3>1. PICK e : e = editRequest'[x]
            OBVIOUS
        <3>2. CASE x = r
            <4>1. e = p /\ own /\ Editors(s)' = {r}
                BY <1>1, <1>8, <2>3, <3>1, <3>2 DEF Editing
            <4>2. Handled(p)' = {}
                BY <1>1, <1>4 DEF Handled
            <4>3. Progress(p)'
                BY <1>1, <1>4, <4>1, <4>2 DEF Progress
            <4>4. Progress(editRequest[x])'
                BY <3>1, <4>1, <4>3 DEF Progress, Handled
            <4>5. Editors(editRequest[x].sub)' = {x}
                BY <1>1, <3>1, <3>2, <4>1 DEF Editors
            <4>6. EditAt(x)' # "page"
                BY <1>1, <1>4, <3>2 DEF EditAt, Stages
            <4> QED
                BY <4>4, <4>5, <4>6
        <3>3. CASE x # r /\ EditAt(x) \notin Stages
            <4>1. /\ e = editRequest[x] /\ e.at = "page" /\ e.onItsOwn
                  /\ EditAt(x)' = "page" /\ EditAt(x) = "page"
                BY <1>2, <2>3, <3>1, <3>3 DEF EditAt
            <4>2. Shown(e)
                BY <4>1 DEF CatalogueInv, ProgressInv
            <4>3. Shown(editRequest[x])'
                BY <3>1, <4>2 DEF Shown
            <4> QED
                BY <4>1, <4>3
        <3>4. CASE x # r /\ EditAt(x) \in Stages
            <4>1. PICK q : q = editRequest[x]
                OBVIOUS
            <4>2. /\ q \in Edit /\ EditInv(q) /\ e \in Edit /\ e.at = q.at /\ e.list = q.list
                  /\ e.todo = q.todo /\ e.sub = q.sub /\ e.form = q.form /\ e.want = q.want
                  /\ e.onItsOwn <=> q.onItsOwn /\ q.sub # s
                BY <1>7, <3>1, <3>4, <4>1
            <4>3. q.at \in Stages /\ q.onItsOwn /\ e.sub # s /\ e.at \in Stages
                BY <2>3, <3>1, <3>4, <4>1, <4>2 DEF EditAt
            <4>4. Editors(q.sub) = {x} /\ Progress(q)
                BY <4>1, <4>3 DEF CatalogueInv, ProgressInv, EditAt, Stages
            <4>5. Handled(e) = Handled(q)
                BY <4>2 DEF Handled
            <4>6. Progress(e)
                BY <4>2, <4>4, <4>5 DEF Progress
            <4>7. e.at \in {"delete", "import", "create"} => e.list \in List
                BY <4>2 DEF EditInv, Edit
            <4>8. Progress(e)'
                <5>1. KeepsAll(e.sub)
                    BY <1>10, <4>2, <4>3 DEF EditInv
                <5> QED
                    BY <4>6, <4>7, <5>1, ProgressKept
            <4>9. Progress(editRequest[x])'
                BY <3>1, <4>8 DEF Progress, Handled
            <4>10. Editors(e.sub)' = {x}
                BY <1>8, <4>2, <4>3, <4>4
            <4>11. Editors(editRequest[x].sub)' = {x}
                BY <3>1, <4>10 DEF Editors
            <4>12. EditAt(x)' # "page"
                BY <3>1, <4>3 DEF EditAt, Stages
            <4> QED
                BY <4>9, <4>11, <4>12
        <3> QED
            BY <3>2, <3>3, <3>4
    <2> QED
        BY <2>2, <2>3 DEF ProgressInv
<1>12. OrderInv'
    <2>1. OrderAsAsked'
        BY <1>5, <1>8 DEF OrderAsAsked, Editing
    <2>2. \A i \in DOMAIN askedOrder' : askedOrder'[i] \in Existing'
        BY <1>5 DEF CatalogueInv, OrderInv
    <2>3. ASSUME NEW x \in EditRequests, EditAt(x)' \in Stages, editRequest'[x].alone
          PROVE  /\ \A y \in EditRequests : EditAt(y)' \in Stages => y = x
                 /\ Placing(editRequest[x])'
        <3>1. x = r
            <4> SUFFICES ASSUME x # r
                         PROVE  FALSE
                OBVIOUS
            <4>1. EditAt(x) \in Stages
                BY <1>2, <2>3
            <4>2. PICK e : e = editRequest'[x]
                OBVIOUS
            <4>3. ~e.alone
                BY <1>7, <4>1, <4>2
            <4> QED
                BY <2>3, <4>2, <4>3
        <3>2. \A y \in EditRequests : EditAt(y)' \in Stages => y = x
            <4>1. p.alone
                BY <1>1, <2>3, <3>1
            <4>2. \A y \in EditRequests : EditAt(y) \notin Stages
                BY <1>1, <4>1
            <4>3. \A y \in EditRequests \ {r} : EditAt(y)' = EditAt(y)
                BY <1>2
            <4> QED
                BY <3>1, <4>2, <4>3
        <3>3. Placing(p)'
            BY <1>1, <1>4 DEF Placing
        <3>4. Placing(editRequest[x])'
            BY <1>1, <3>1, <3>3 DEF Placing
        <3> QED
            BY <3>2, <3>4
    <2> QED
        BY <2>1, <2>2, <2>3 DEF OrderInv
<1> QED
    BY <1>6, <1>9, <1>11, <1>12 DEF CatalogueInv

\* What a typed form brings to the edit that it begins.
LEMMA TypedStart ==
    ASSUME CatalogueOK, NEW s \in Sub, NEW form \in TypedForms(s),
           NEW want, want = Wanted(form)
    PROVE  /\ form \in Form /\ want \in Want
           /\ form.price \in FormPrice /\ form.period # 0 /\ form.period_unit # "NULL"
           /\ FormInv(form, s)
           /\ want.price = form.price /\ want.period_unit = form.period_unit
           /\ want.period = form.period /\ want.lists = form.lists
    BY TypedFormFacts DEF FormInv, Wanted

LEMMA SaveStep ==
    ASSUME CatalogueOK, CatalogueInv, NEW r \in EditRequests, SaveSubscription(r)
    PROVE  CatalogueOK' /\ CatalogueInv'
<1>1. PICK s \in Sub \ Existing : \E form \in TypedForms(s) :
         /\ Start(r, s, "fill", form, Wanted(form), TRUE)
         /\ subscription' = [t \in Existing \cup {s} |->
                               IF t = s THEN Blank ELSE subscription[t]]
         /\ asked' = [t \in Existing \cup {s} |->
                        IF t = s THEN Wanted(form) ELSE asked[t]]
    BY DEF SaveSubscription
<1>2. PICK form \in TypedForms(s) :
         /\ Start(r, s, "fill", form, Wanted(form), TRUE)
         /\ subscription' = [t \in Existing \cup {s} |->
                               IF t = s THEN Blank ELSE subscription[t]]
         /\ asked' = [t \in Existing \cup {s} |->
                        IF t = s THEN Wanted(form) ELSE asked[t]]
    BY <1>1
<1>3. EditAt(r) \in {"unsent", "page"}
      /\ UNCHANGED <<listed, halfDone, askedOrder, misordered>>
    BY DEF SaveSubscription
<1>4. PICK want : want = Wanted(form)
    OBVIOUS
<1>5. /\ form \in Form /\ want \in Want
      /\ form.price \in FormPrice /\ form.period # 0 /\ form.period_unit # "NULL"
      /\ FormInv(form, s)
      /\ want.price = form.price /\ want.period_unit = form.period_unit
      /\ want.period = form.period /\ want.lists = form.lists
    BY <1>4, TypedStart
<1>6. Existing' = Existing \cup {s}
    BY <1>2 DEF Existing
<1>7. /\ \A t \in Existing : subscription'[t] = subscription[t] /\ asked'[t] = asked[t]
      /\ subscription'[s] = Blank
    BY <1>2
<1>8. asked' \in [Existing' -> Want]
    BY <1>2, <1>4, <1>5, <1>6 DEF CatalogueOK
<1>9. Start(r, s, "fill", form, want, TRUE)
    BY <1>2, <1>4
<1> QED
    BY <1>3, <1>5, <1>6, <1>7, <1>8, <1>9, StartStep

LEMMA UpdateStep ==
    ASSUME CatalogueOK, CatalogueInv, NEW r \in EditRequests, UpdateSubscription(r)
    PROVE  CatalogueOK' /\ CatalogueInv'
<1>1. PICK s \in Existing : \E form \in TypedForms(s) :
         Start(r, s, "blank", form, Wanted(form), TRUE)
    BY DEF UpdateSubscription
<1>2. PICK form \in TypedForms(s) : Start(r, s, "blank", form, Wanted(form), TRUE)
    BY <1>1
<1>3. EditAt(r) \in {"unsent", "page"} /\ s \in Sub
      /\ UNCHANGED <<subscription, listed, asked, halfDone, askedOrder, misordered>>
    BY DEF UpdateSubscription, CatalogueOK
<1>4. PICK want : want = Wanted(form)
    OBVIOUS
<1>5. /\ form \in Form /\ want \in Want
      /\ form.price \in FormPrice /\ form.period # 0 /\ form.period_unit # "NULL"
      /\ FormInv(form, s)
      /\ want.price = form.price /\ want.period_unit = form.period_unit
      /\ want.period = form.period /\ want.lists = form.lists
    BY <1>3, <1>4, TypedStart
<1>6. Existing' = Existing \cup {s}
    BY <1>3 DEF Existing
<1>7. \A t \in Existing : subscription'[t] = subscription[t] /\ asked'[t] = asked[t]
    BY <1>3
<1>8. asked' \in [Existing' -> Want]
    BY <1>3, <1>6 DEF CatalogueOK
<1>9. Start(r, s, "blank", form, want, TRUE)
    BY <1>2, <1>4
<1> QED
    BY <1>3, <1>5, <1>6, <1>7, <1>8, <1>9, StartStep

LEMMA ResendStep ==
    ASSUME CatalogueOK, CatalogueInv, NEW r \in EditRequests, ResendPage(r)
    PROVE  CatalogueOK' /\ CatalogueInv'
<1>1. PICK q : q = editRequest[r]
    OBVIOUS
<1>2. /\ EditAt(r) = "page" /\ q.at = "page" /\ q.form.price # 0 /\ q.form.period # 0
      /\ Start(r, q.sub, "blank", q.form, q.want, q.onItsOwn)
      /\ UNCHANGED <<subscription, listed, asked, halfDone, askedOrder, misordered>>
    BY <1>1 DEF ResendPage, EditAt
<1>3. q \in Page /\ PageInv(q)
    BY <1>1, <1>2, RequestKinds DEF CatalogueInv, ShapeInv
<1>4. PICK s, form, want, own :
         s = q.sub /\ form = q.form /\ want = q.want /\ own = q.onItsOwn
    OBVIOUS
<1>5. /\ s \in Existing /\ s \in Sub /\ form \in Form /\ want \in Want /\ own \in BOOLEAN
      /\ form.price \in FormPrice /\ form.period # 0 /\ form.period_unit # "NULL"
      /\ FormInv(form, s)
    BY <1>2, <1>3, <1>4 DEF Page, PageInv
<1>6. own => Shown(q)
    BY <1>1, <1>2, <1>4 DEF CatalogueInv, ProgressInv
<1>7. own => /\ form.price = want.price /\ form.period_unit = want.period_unit
             /\ form.lists = want.lists
             /\ want.period_unit = "Day" => form.period = want.period
    BY <1>4, <1>6 DEF Shown
<1>8. Existing' = Existing \cup {s}
    BY <1>2, <1>5 DEF Existing
<1>9. \A t \in Existing : subscription'[t] = subscription[t] /\ asked'[t] = asked[t]
    BY <1>2
<1>10. asked' \in [Existing' -> Want]
    BY <1>2, <1>5, <1>8 DEF CatalogueOK
<1>11. Start(r, s, "blank", form, want, own)
    BY <1>2, <1>4
<1> QED
    BY <1>2, <1>5, <1>7, <1>8, <1>9, <1>10, <1>11, StartStep

(***************************************************************************)
(* All steps                                                               *)
(***************************************************************************)

LEMMA CatalogueNext ==
    ASSUME CatalogueOK, CatalogueInv, NEW r \in EditRequests, CatalogueStep(r)
    PROVE  CatalogueOK' /\ CatalogueInv'
<1>1. CASE SetPosition(r)
    <2>1. PICK q : q = editRequest[r]
        OBVIOUS
    <2>2. CASE q.place = Len(q.order)
        BY <1>1, <2>1, <2>2, LastPlaceStep
    <2>3. CASE q.place # Len(q.order)
        BY <1>1, <2>1, <2>3, PlaceStep
    <2> QED
        BY <2>2, <2>3
<1> QED
    BY <1>1, SaveStep, UpdateStep, PageStep, ResendStep, BlankStep, FillStep, LoadStep,
       DeleteStep, ImportStep, CreateStep, LeaveStep, GroupStep, FailStep
    DEF CatalogueStep

LEMMA CatalogueStutter ==
    ASSUME CatalogueOK, CatalogueInv, UNCHANGED catalogueVars
    PROVE  CatalogueOK' /\ CatalogueInv'
<1>1. CatalogueOK'
    BY DEF catalogueVars, CatalogueOK, ListedOK, Existing, EntriesOf
<1>2. \A t : Editors(t)' = Editors(t)
    BY DEF catalogueVars, Editors, EditAt
<1>3. ShapeInv'
    BY DEF catalogueVars, CatalogueInv, ShapeInv, PageInv, EditInv, FormInv, EntriesOf,
           Existing, EditAt, Whole
<1>4. ProgressInv'
    <2>1. EditIsComplete' /\ LengthAsAsked'
        BY <1>2 DEF catalogueVars, CatalogueInv, ProgressInv, EditIsComplete, LengthAsAsked,
               Settled, Editing, Existing, ConvertToDays, LinkDays
    <2>2. ASSUME NEW x \in EditRequests
          PROVE  /\ EditAt(x)' = EditAt(x) /\ editRequest'[x] = editRequest[x]
                 /\ Shown(editRequest[x]) => Shown(editRequest[x])'
                 /\ Progress(editRequest[x]) => Progress(editRequest[x])'
                 /\ Editors(editRequest[x].sub)' = Editors(editRequest[x].sub)
        <3>1. PICK q : q = editRequest[x] /\ editRequest'[x] = q
            BY DEF catalogueVars
        <3>2. Handled(q)' = Handled(q)
            BY DEF Handled
        <3>3. Progress(q) => Progress(q)'
            BY <3>2 DEF catalogueVars, Progress, ConvertToDays
        <3>4. Progress(editRequest[x]) => Progress(editRequest[x])'
            <4>1. SUFFICES ASSUME Progress(q) PROVE Progress(editRequest[x])'
                BY <3>1
            <4>2. Progress(q)'
                BY <3>3, <4>1
            <4>3. Handled(editRequest[x])' = Handled(q)'
                BY <3>1 DEF Handled
            <4>4. editRequest'[x] = q
                BY <3>1
            <4> HIDE <3>1
            <4> QED
                BY <4>2, <4>3, <4>4 DEF Progress
        <3>5. Editors(editRequest[x].sub)' = Editors(editRequest[x].sub)
            BY DEF catalogueVars, Editors, EditAt
        <3>6. Shown(editRequest[x]) => Shown(editRequest[x])'
            BY <3>1 DEF Shown
        <3> QED
            BY <3>1, <3>4, <3>5, <3>6 DEF EditAt
    <2>3. ASSUME NEW x \in EditRequests,
                 editRequest'[x].at \in Stages \cup {"page"}, editRequest'[x].onItsOwn
          PROVE  IF EditAt(x)' = "page" THEN Shown(editRequest[x])'
                 ELSE Editors(editRequest[x].sub)' = {x} /\ Progress(editRequest[x])'
        <3>1. editRequest[x].at \in Stages \cup {"page"} /\ editRequest[x].onItsOwn
            BY <2>2, <2>3
        <3>2. IF EditAt(x) = "page" THEN Shown(editRequest[x])
              ELSE Editors(editRequest[x].sub) = {x} /\ Progress(editRequest[x])
            BY <3>1 DEF CatalogueInv, ProgressInv
        <3> QED
            BY <2>2, <3>2
    <2> QED
        BY <2>1, <2>3 DEF ProgressInv
<1>5. OrderInv'
    <2>1. /\ OrderAsAsked'
          /\ \A i \in DOMAIN askedOrder' : askedOrder'[i] \in Existing'
        BY <1>2 DEF catalogueVars, CatalogueInv, OrderInv, OrderAsAsked, Editing, Existing
    <2>2. ASSUME NEW x \in EditRequests, EditAt(x)' \in Stages, editRequest'[x].alone
          PROVE  /\ \A y \in EditRequests : EditAt(y)' \in Stages => y = x
                 /\ Placing(editRequest[x])'
        <3>1. \A y \in EditRequests : EditAt(y)' = EditAt(y)
            BY DEF catalogueVars, EditAt
        <3>2. PICK q : q = editRequest[x] /\ editRequest'[x] = q
            BY DEF catalogueVars
        <3>3. /\ \A y \in EditRequests : EditAt(y) \in Stages => y = x
              /\ Placing(q)
            BY <2>2, <3>1, <3>2 DEF CatalogueInv, OrderInv
        <3>4. Placing(q)'
            BY <3>3 DEF catalogueVars, Placing, Existing
        <3>5. Placing(editRequest[x])'
            BY <3>2, <3>4 DEF Placing
        <3> QED
            BY <3>1, <3>3, <3>5
    <2> QED
        BY <2>1, <2>2 DEF OrderInv
<1> QED
    BY <1>1, <1>3, <1>4, <1>5 DEF CatalogueInv

\* The subscriptions that exist at the start were saved one after the other.
LEMMA CatalogueStart ==
    ASSUME InitCatalogue
    PROVE  CatalogueOK /\ CatalogueInv
<1>1. PICK o \in Orders(StartSubs), p \in [StartSubs -> FormPrice],
           n \in [StartSubs -> FormCount] :
        /\ askedOrder = o
        /\ subscription = [s \in StartSubs |->
              [price |-> p[s], period |-> n[s], period_count |-> n[s],
               period_unit |-> "Day",
               position_in_group |-> CHOOSE i \in DOMAIN o : o[i] = s]]
        /\ listed = [k \in List |-> [s \in Sub |-> {}]]
        /\ editRequest = [r \in EditRequests |-> NoForm]
        /\ asked = [s \in StartSubs |->
              [price |-> p[s], period |-> n[s], period_unit |-> "Day",
               lists |-> [k \in List |-> {}]]]
        /\ halfDone = {}
        /\ misordered = FALSE
    BY DEF InitCatalogue
<1>2. /\ Existing = StartSubs /\ Existing \in SUBSET Sub /\ IsFiniteSet(Existing)
    BY <1>1, CatalogueFormsAssumption DEF Existing
<1>3. /\ o \in Seq(StartSubs) /\ DOMAIN o = 1 .. Len(o) /\ Len(o) \in Nat /\ Range(o) = StartSubs
      /\ \A i, j \in DOMAIN o : o[i] = o[j] => i = j
    BY <1>2, OrderFacts
<1>4. ASSUME NEW s \in StartSubs, NEW row, row = subscription[s]
      PROVE  /\ row \in Row /\ Whole(row)
             /\ row.price = p[s] /\ row.period = n[s] /\ row.period_count = n[s]
             /\ row.period_unit = "Day"
             /\ row.position_in_group \in DOMAIN o /\ o[row.position_in_group] = s
    <2>1. PICK i : i = CHOOSE j \in DOMAIN o : o[j] = s
        OBVIOUS
    <2>2. i \in DOMAIN o /\ o[i] = s
        <3>1. \E j \in DOMAIN o : o[j] = s
            BY <1>3 DEF Range
        <3> QED
            BY <2>1, <3>1
    <2>3. i \in Nat
        BY <1>3, <2>2
    <2>4. /\ p[s] \in FormPrice /\ p[s] \in Nat /\ p[s] # 0
          /\ n[s] \in Nat /\ n[s] # 0
        BY CatalogueFormsAssumption
    <2>5. row = [price |-> p[s], period |-> n[s], period_count |-> n[s],
                 period_unit |-> "Day", position_in_group |-> i]
        BY <1>1, <1>4, <2>1
    <2>6. "Day" \in Unit /\ "Day" # "NULL"
        BY UnitFacts DEF Unit
    <2> QED
        BY <2>2, <2>3, <2>4, <2>5, <2>6 DEF Row, Whole
<1>5. ASSUME NEW s \in StartSubs, NEW want, want = asked[s]
      PROVE  /\ want \in Want /\ want.price = p[s] /\ want.period = n[s]
             /\ want.period_unit = "Day" /\ want.lists = [k \in List |-> {}]
    <2>1. p[s] \in Nat /\ n[s] \in Nat
        BY CatalogueFormsAssumption
    <2>2. "Day" \in Unit
        BY UnitFacts DEF Unit
    <2>3. [k \in List |-> {}] \in ListsOfForm
        BY DEF ListsOfForm
    <2>4. want = [price |-> p[s], period |-> n[s], period_unit |-> "Day",
                  lists |-> [k \in List |-> {}]]
        BY <1>1, <1>5
    <2> QED
        BY <2>1, <2>2, <2>3, <2>4 DEF Want
<1>6. \A r \in EditRequests : EditAt(r) = "unsent" /\ EditAt(r) \notin Stages
    BY <1>1 DEF EditAt, NoForm, Stages
<1>7. CatalogueOK
    <2>1. ListedOK
        BY <1>1 DEF ListedOK, EntriesOf
    <2>2. \A s \in Existing : subscription[s] \in Row /\ Whole(subscription[s])
        BY <1>2, <1>4
    <2>3. \A s \in Existing : subscription[s].price = 0 <=> subscription[s].period = 0
        BY <2>2, WholeFacts
    <2>4. asked \in [Existing -> Want]
        BY <1>1, <1>2, <1>5
    <2>5. editRequest \in [EditRequests -> {NoForm, Closed} \cup Page \cup Edit]
        BY <1>1
    <2>6. askedOrder \in Seq(Sub)
        BY <1>1, <1>2, <1>3, SeqMonotonic
    <2> QED
        BY <1>1, <1>2, <2>1, <2>2, <2>3, <2>4, <2>5, <2>6 DEF CatalogueOK
<1>8. ShapeInv
    BY <1>2, <1>4, <1>6 DEF ShapeInv
<1>9. ProgressInv
    <2>1. \A s \in Existing : AsAsked(s)
        <3>1. ASSUME NEW s \in Existing
              PROVE  AsAsked(s)
            <4>1. PICK row, want : row = subscription[s] /\ want = asked[s]
                OBVIOUS
            <4>2. /\ row.price = want.price /\ row.period_unit = want.period_unit
                  /\ row.period = want.period
                  /\ row.period_count = ConvertToDays(want.period, want.period_unit)
                <5>1. n[s] \in Nat
                    BY <1>2, CatalogueFormsAssumption
                <5>2. ConvertToDays(n[s], "Day") = n[s]
                    BY <5>1, DaysOfDays
                <5>3. /\ row.price = p[s] /\ row.period = n[s] /\ row.period_count = n[s]
                      /\ row.period_unit = "Day"
                    BY <1>2, <1>4, <4>1
                <5>4. want.price = p[s] /\ want.period = n[s] /\ want.period_unit = "Day"
                    BY <1>2, <1>5, <4>1
                <5> QED
                    BY <5>2, <5>3, <5>4
            <4>3. \A k \in List : listed[k][s] = want.lists[k]
                BY <1>1, <1>2, <1>5, <4>1
            <4>4. /\ row.period_count = ConvertToDays(row.period, row.period_unit)
                  /\ row.period = ConvertToDays(row.period, row.period_unit)
                  /\ row.period = ConvertToDays(want.period, want.period_unit)
                BY <1>2, <1>4, <1>5, <4>1, <4>2, CatalogueFormsAssumption, DaysOfDays
            <4>5. LinkDays(s) = row.period
                BY <4>1 DEF LinkDays
            <4> QED
                BY <4>1, <4>2, <4>3, <4>4, <4>5 DEF AsAsked
        <3> QED
            BY <3>1
    <2>2. EditIsComplete /\ LengthAsAsked
        BY <2>1, AllAsAsked
    <2>3. \A r \in EditRequests : editRequest[r].at \notin Stages \cup {"page"}
        BY <1>6 DEF EditAt
    <2> QED
        BY <2>2, <2>3 DEF ProgressInv
<1>10. OrderInv
    <2>1. ASSUME NEW i \in DOMAIN o
          PROVE  o[i] \in Existing /\ subscription[o[i]].position_in_group = i
        <3>1. PICK s : s = o[i] /\ s \in StartSubs
            BY <1>3
        <3>2. PICK row : row = subscription[s]
            OBVIOUS
        <3>3. row.position_in_group \in DOMAIN o /\ o[row.position_in_group] = s
            BY <1>4, <3>1, <3>2
        <3> QED
            BY <1>2, <1>3, <3>1, <3>2, <3>3
    <2>2. OrderAsAsked
        <3>1. \A i \in LastPlaces(askedOrder, Len(askedOrder)) : i \in DOMAIN askedOrder
            BY <1>1, <1>2 DEF LastPlaces
        <3> QED
            BY <1>1, <2>1, <3>1 DEF OrderAsAsked
    <2> QED
        BY <1>1, <1>6, <2>1, <2>2 DEF OrderInv
<1> QED
    BY <1>7, <1>8, <1>9, <1>10 DEF CatalogueInv

(***************************************************************************)
(* The prices and the periods that the payments see                        *)
(***************************************************************************)

PricedLess(s) ==
    Priced' = [t \in Existing \cup {s} |->
                 IF t = s THEN [price |-> 0, period |-> 0] ELSE Priced[t]]

PricedAnew(s, o) == Priced' = [Priced EXCEPT ![s] = o]

\* The step of one row takes its price and period off, sets them, or leaves them.
LEMMA OneRowPriced ==
    ASSUME NEW s \in Existing, NEW w, subscription' = [subscription EXCEPT ![s] = w]
    PROVE  /\ w.price = subscription[s].price /\ w.period = subscription[s].period =>
                 Priced' = Priced
           /\ w.price = 0 /\ w.period = 0 => PricedLess(s)
           /\ PricedAnew(s, [price |-> w.price, period |-> w.period])
<1>1. Existing' = Existing /\ subscription'[s] = w
      /\ \A t \in Existing : t # s => subscription'[t] = subscription[t]
    BY DEF Existing
<1>2. Existing \cup {s} = Existing
    OBVIOUS
<1>3. w.price = subscription[s].price /\ w.period = subscription[s].period =>
         Priced' = Priced
    BY <1>1 DEF Priced
<1>4. w.price = 0 /\ w.period = 0 => PricedLess(s)
    BY <1>1, <1>2 DEF Priced, PricedLess
<1>5. PricedAnew(s, [price |-> w.price, period |-> w.period])
    BY <1>1 DEF Priced, PricedAnew
<1> QED
    BY <1>3, <1>4, <1>5

LEMMA PricesSteady ==
    ASSUME Existing' = Existing,
           \A t \in Existing : /\ subscription'[t].price = subscription[t].price
                               /\ subscription'[t].period = subscription[t].period
    PROVE  Priced' = Priced
    BY DEF Priced

LEMMA SaveUnpriced ==
    ASSUME CatalogueOK, NEW r \in EditRequests, SaveSubscription(r)
    PROVE  \E s \in Sub : PricedLess(s)
<1>1. PICK s \in Sub \ Existing :
         subscription' = [t \in Existing \cup {s} |->
                            IF t = s THEN Blank ELSE subscription[t]]
    BY DEF SaveSubscription
<1>2. Existing' = Existing \cup {s} /\ subscription'[s] = Blank
      /\ \A t \in Existing : subscription'[t] = subscription[t]
    BY <1>1 DEF Existing
<1>3. PricedLess(s)
    BY <1>2, BlankFacts DEF Priced, PricedLess
<1> QED
    BY <1>3

LEMMA BlankUnpriced ==
    ASSUME CatalogueOK, CatalogueInv, NEW r \in EditRequests, BlankRow(r)
    PROVE  Priced' = Priced \/ \E s \in Sub : PricedLess(s)
<1>1. PICK q : q = editRequest[r]
    OBVIOUS
<1>2. q.at = "blank" /\ q.at \in Stages
    BY <1>1 DEF BlankRow, EditAt, Stages
<1>3. q \in Edit /\ EditInv(q) /\ q.sub \in Existing /\ q.sub \in Sub
    BY <1>1, <1>2, UnderWay
<1>4. PICK row, copy : row = subscription[q.sub] /\ copy = q.copy
    OBVIOUS
<1>5. row \in Row /\ copy \in Row /\ Whole(copy)
    BY <1>3, <1>4 DEF CatalogueOK, Edit, EditInv
<1>6. PICK w : w = Written(row, copy, Blank)
    OBVIOUS
<1>7. /\ w.price = IF 0 = copy.price THEN row.price ELSE 0
      /\ w.period = IF 0 = copy.period THEN row.period ELSE 0
    BY <1>5, <1>6, BlankFacts, WrittenFields
<1>8. copy.price = 0 <=> copy.period = 0
    BY <1>5, WholeFacts
<1>9. subscription' = [subscription EXCEPT ![q.sub] = w]
    BY <1>1, <1>4, <1>6 DEF BlankRow
<1> QED
    BY <1>3, <1>4, <1>7, <1>8, <1>9, OneRowPriced

LEMMA FillPriced ==
    ASSUME CatalogueOK, CatalogueInv, NEW r \in EditRequests, FillRow(r)
    PROVE  \E s \in Existing : \E o \in [price : FormPrice, period : Nat \ {0}] :
              PricedAnew(s, o)
<1>1. PICK q : q = editRequest[r]
    OBVIOUS
<1>2. q.at = "fill" /\ q.at \in Stages
    BY <1>1 DEF FillRow, EditAt, Stages
<1>3. q \in Edit /\ EditInv(q) /\ q.sub \in Existing
    BY <1>1, <1>2, UnderWay
<1>4. /\ q.copy = Blank
      /\ q.form \in Form /\ subscription[q.sub] \in Row
      /\ q.form.price \in FormPrice /\ q.form.period # 0 /\ q.form.period_unit # "NULL"
    BY <1>2, <1>3 DEF EditInv, Edit, CatalogueOK
<1>5. PICK w : w = Written(subscription[q.sub], Blank, Filled(q.form))
    OBVIOUS
<1>6. w.price = q.form.price /\ w.period = q.form.period
    BY <1>4, <1>5, FillWhole
<1>7. subscription' = [subscription EXCEPT ![q.sub] = w]
    BY <1>1, <1>4, <1>5 DEF FillRow
<1>8. PricedAnew(q.sub, [price |-> w.price, period |-> w.period])
    BY <1>3, <1>7, OneRowPriced
<1>9. q.form.period \in Nat
    BY <1>4 DEF Form
<1> QED
    BY <1>3, <1>4, <1>6, <1>8, <1>9

\* A save takes the price and the period off and sets them together; no other
\* step of an edit changes a price or a period.
LEMMA PriceSteps ==
    ASSUME CatalogueOK, CatalogueInv, NEW r \in EditRequests, CatalogueStep(r)
    PROVE  \/ Priced' = Priced
           \/ \E s \in Sub : PricedLess(s)
           \/ \E s \in Existing : \E o \in [price : FormPrice, period : Nat \ {0}] :
                 PricedAnew(s, o)
<1>1. ASSUME subscription' = subscription
      PROVE  Priced' = Priced
    BY <1>1 DEF Priced, Existing
<1>2. CASE SetPosition(r)
    <2>1. PICK q : q = editRequest[r]
        OBVIOUS
    <2>2. /\ Existing' = Existing
          /\ \A s \in Existing : /\ subscription'[s].price = subscription[s].price
                                 /\ subscription'[s].period = subscription[s].period
        BY <1>2, <2>1, PositionFacts
    <2> QED
        BY <2>2, PricesSteady
<1>3. CASE \/ UpdateSubscription(r) \/ EditPage(r) \/ ResendPage(r) \/ LoadList(r)
           \/ DeleteEntry(r) \/ ImportFeatures(r) \/ CreateEntry(r) \/ LeaveOrder(r)
           \/ ReadGroup(r)
           \/ EditFails(r)
    BY <1>1, <1>3 DEF UpdateSubscription, EditPage, ResendPage, LoadList, DeleteEntry,
                      ImportFeatures, CreateEntry, LeaveOrder, ReadGroup, EditFails
<1> QED
    BY <1>2, <1>3, SaveUnpriced, BlankUnpriced, FillPriced DEF CatalogueStep

\* The subscriptions of the start have a price and a period of a form.
LEMMA PricedAtStart ==
    ASSUME InitCatalogue
    PROVE  Priced \in [StartSubs -> [price : FormPrice, period : Nat \ {0}]]
<1>1. PICK o \in Orders(StartSubs), p \in [StartSubs -> FormPrice],
           n \in [StartSubs -> FormCount] :
        /\ askedOrder = o
        /\ subscription = [s \in StartSubs |->
              [price |-> p[s], period |-> n[s], period_count |-> n[s],
               period_unit |-> "Day",
               position_in_group |-> CHOOSE i \in DOMAIN o : o[i] = s]]
        /\ listed = [k \in List |-> [s \in Sub |-> {}]]
        /\ editRequest = [r \in EditRequests |-> NoForm]
        /\ asked = [s \in StartSubs |->
              [price |-> p[s], period |-> n[s], period_unit |-> "Day",
               lists |-> [k \in List |-> {}]]]
        /\ halfDone = {}
        /\ misordered = FALSE
    BY DEF InitCatalogue
<1>2. Existing = StartSubs
    BY <1>1 DEF Existing
<1>3. \A s \in StartSubs : subscription[s].price = p[s] /\ subscription[s].period = n[s]
    BY <1>1
<1>4. \A s \in StartSubs : p[s] \in FormPrice /\ n[s] \in Nat \ {0}
    BY CatalogueFormsAssumption
<1> QED
    BY <1>2, <1>3, <1>4 DEF Priced

=============================================================================
