------------------------ MODULE AdministrationProofs ------------------------
(***************************************************************************)
(* What the administrator and the users do besides paying, for any number  *)
(* of requests: the types, and the safety properties of period users,      *)
(* password tokens and themes.                                             *)
(***************************************************************************)
EXTENDS Administration, CatalogueProofs, FiniteSetTheorems, TLAPS

(***************************************************************************)
(* Period users                                                            *)
(***************************************************************************)

\* What a request is at each of its stages.
LEMMA UsersFields ==
    ASSUME UsersOK, NEW r \in UsersRequests
    PROVE  /\ UsersStage(r) \in {"count", "create"} =>
                 /\ usersRequest[r] \in Asking
                 /\ usersRequest[r].link \in UsersLink
                 /\ usersRequest[r].status \in BOOLEAN /\ usersRequest[r].alone \in BOOLEAN
           /\ UsersStage(r) = "update" =>
                 /\ usersRequest[r] \in Updating
                 /\ usersRequest[r].status \in BOOLEAN /\ usersRequest[r].copy \in BOOLEAN
    BY DEF UsersOK, UsersStage, NotSent, Served, Asking, Updating

LEMMA UsersMove ==
    ASSUME UsersOK, NEW r \in UsersRequests, NEW p, NowAt(r, p)
    PROVE  /\ usersRequest'[r] = p
           /\ \A s \in UsersRequests : s # r => usersRequest'[s] = usersRequest[s]
           /\ DOMAIN usersRequest' = UsersRequests
           /\ p \in {NotSent, Served} \cup Asking \cup Updating =>
                 \A s \in UsersRequests :
                    usersRequest'[s] \in {NotSent, Served} \cup Asking \cup Updating
    BY DEF UsersOK, NowAt

LEMMA UsersStart == InitUsers => UsersOK /\ UsersInv
<1> SUFFICES ASSUME InitUsers
             PROVE  UsersOK /\ UsersInv
    OBVIOUS
<1>1. /\ nrOfPeriodUsers \in [UsersLink -> 1 .. LargestLimit]
      /\ DOMAIN periodUser = {} /\ DOMAIN admitted = {}
      /\ usersRequest = [r \in UsersRequests |-> NotSent]
    BY DEF InitUsers
<1>2. UsersOK
    BY <1>1 DEF UsersOK
<1>3. IsFiniteSet({}) /\ Cardinality({}) = 0 /\ {} = 1 .. 0
    BY FS_EmptySet
<1>4. \A r \in UsersRequests : UsersStage(r) = "unsent"
    BY <1>1 DEF UsersStage, NotSent
<1>5. \A l \in UsersLink : Pending(l) = {} /\ Counted(l) = {}
    BY <1>1, <1>4 DEF Pending, Counted, ActiveUsers
<1>6. \A l \in UsersLink : nrOfPeriodUsers[l] \in Nat /\ 0 <= nrOfPeriodUsers[l]
    BY <1>1, PeriodUsersAssumption
<1>7. CountedWithinLimit
    BY <1>3, <1>5, <1>6 DEF CountedWithinLimit
<1> QED
    BY <1>1, <1>2, <1>3, <1>4, <1>5, <1>7 DEF UsersInv

\* Sets of users of a link are finite.
LEMMA UsersAreFinite ==
    ASSUME UsersInv, NEW l
    PROVE  /\ IsFiniteSet(ActiveUsers(l)) /\ IsFiniteSet(Counted(l))
           /\ Cardinality(ActiveUsers(l)) \in Nat
           /\ Cardinality(Counted(l)) \in Nat
           /\ Cardinality(Counted(l)) <= Cardinality(ActiveUsers(l))
<1>1. ActiveUsers(l) \subseteq DOMAIN periodUser /\ Counted(l) \subseteq ActiveUsers(l)
    BY DEF ActiveUsers, Counted
<1>2. IsFiniteSet(ActiveUsers(l))
    BY <1>1, FS_Subset DEF UsersInv
<1> QED
    BY <1>1, <1>2, FS_Subset, FS_CardinalityType

\* A step that changes no user, and puts nobody among the pending, keeps everything.
LEMMA UsersQuiet ==
    ASSUME UsersOK, UsersInv, NEW r \in UsersRequests, NEW p,
           NowAt(r, p), p \in {NotSent, Served} \cup Asking \cup Updating,
           UNCHANGED <<nrOfPeriodUsers, periodUser, admitted>>,
           p.at = "create" => ~p.status,
           p.at = "update" => p.id \in DOMAIN periodUser
    PROVE  UsersOK' /\ UsersInv'
<1>1. UsersOK'
    BY UsersMove DEF UsersOK
<1>2. \A l \in UsersLink : Pending(l)' = Pending(l) \ {r}
    BY UsersMove DEF Pending, UsersStage
<1>3. \A l \in UsersLink : Counted(l)' = Counted(l)
    BY DEF Counted, ActiveUsers
<1>4. \A s \in UsersRequests :
         UsersStage(s)' = "update" => usersRequest'[s].id \in DOMAIN periodUser'
    BY UsersMove DEF UsersInv, UsersStage
<1>5. ASSUME NEW l \in UsersLink, NEW s \in Pending(l)', usersRequest'[s].alone
      PROVE  Pending(l)' = {s} /\ Cardinality(Counted(l)') < nrOfPeriodUsers'[l]
    <2>1. s \in UsersRequests /\ s # r /\ s \in Pending(l)
        BY <1>2, <1>5 DEF Pending
    <2>2. usersRequest'[s] = usersRequest[s]
        BY <2>1, UsersMove
    <2> QED
        BY <1>2, <1>3, <1>5, <2>1, <2>2 DEF UsersInv
<1>6. CountedWithinLimit'
    BY <1>3 DEF UsersInv, CountedWithinLimit
<1> QED
    BY <1>1, <1>4, <1>5, <1>6 DEF UsersInv

LEMMA AddPeriodUserStep ==
    ASSUME UsersOK, UsersInv, NEW r \in UsersRequests, AddPeriodUser(r)
    PROVE  UsersOK' /\ UsersInv'
<1>1. PICK l \in UsersLink, s \in BOOLEAN :
          NowAt(r, [at |-> IF s THEN "count" ELSE "create", link |-> l, status |-> s,
                    alone |-> TRUE])
    BY DEF AddPeriodUser
<1>2. PICK p : p = [at |-> IF s THEN "count" ELSE "create", link |-> l, status |-> s,
                    alone |-> TRUE]
    OBVIOUS
<1>3. p \in Asking /\ (p.at = "create" => ~p.status) /\ p.at # "update"
    BY <1>2 DEF Asking
<1> QED
    BY <1>1, <1>2, <1>3, UsersQuiet DEF AddPeriodUser

LEMMA EditPeriodUserStep ==
    ASSUME UsersOK, UsersInv, NEW r \in UsersRequests, EditPeriodUser(r)
    PROVE  UsersOK' /\ UsersInv'
<1>1. PICK i \in DOMAIN periodUser, s \in BOOLEAN :
          NowAt(r, [at |-> "update", id |-> i, status |-> s, copy |-> periodUser[i].status])
    BY DEF EditPeriodUser
<1>2. PICK p : p = [at |-> "update", id |-> i, status |-> s, copy |-> periodUser[i].status]
    OBVIOUS
<1>3. p \in Updating /\ p.at # "create" /\ p.id \in DOMAIN periodUser
    <2>1. i \in Nat /\ periodUser[i].status \in BOOLEAN
        BY DEF UsersOK
    <2> QED
        BY <1>2, <2>1 DEF Updating
<1> QED
    BY <1>1, <1>2, <1>3, UsersQuiet DEF EditPeriodUser

LEMMA CountUsersStep ==
    ASSUME UsersOK, UsersInv, NEW r \in UsersRequests, CountUsers(r)
    PROVE  UsersOK' /\ UsersInv'
<1>1. PICK q : q = usersRequest[r]
    OBVIOUS
<1>2. PICK l : l = q.link
    OBVIOUS
<1>3. q \in Asking /\ l \in UsersLink /\ UsersStage(r) = "count"
    BY <1>1, <1>2, UsersFields DEF CountUsers
<1>4. /\ UNCHANGED <<nrOfPeriodUsers, periodUser, admitted>>
      /\ \A m \in UsersLink : Counted(m)' = Counted(m) /\ nrOfPeriodUsers[m] \in Nat
    <2>1. UNCHANGED <<nrOfPeriodUsers, periodUser, admitted>>
        BY DEF CountUsers
    <2> QED
        BY <2>1, PeriodUsersAssumption DEF Counted, ActiveUsers, UsersOK
<1>5. CASE ~CanBeActivated(l)
    <2>1. usersRequest' = [s \in UsersRequests |-> IF s = r THEN Served ELSE usersRequest[s]]
        BY <1>1, <1>2, <1>5 DEF CountUsers
    <2>2. NowAt(r, Served)
        BY <2>1 DEF NowAt, UsersOK
    <2>3. Served.at = "done"
        BY DEF Served
    <2> QED
        BY <1>4, <2>2, <2>3, UsersQuiet
<1>6. CASE CanBeActivated(l)
    <2>1. PICK p : p = [q EXCEPT !.at = "create", !.alone = Pending(l) = {}]
        OBVIOUS
    <2>2. /\ p \in Asking /\ p.at = "create" /\ p.link = l /\ p.status = q.status
          /\ p.alone <=> Pending(l) = {}
        <3>1. (Pending(l) = {}) \in BOOLEAN
            OBVIOUS
        <3> QED
            BY <1>2, <1>3, <2>1, <3>1 DEF Asking
    <2>3. usersRequest' = [s \in UsersRequests |->
                              IF s = r THEN p
                              ELSE IF s \in Pending(l)
                              THEN [usersRequest[s] EXCEPT !.alone = FALSE]
                              ELSE usersRequest[s]]
        BY <1>1, <1>2, <1>6, <2>1 DEF CountUsers
    <2>4. r \notin Pending(l)
        BY <1>3 DEF Pending
    <2>5. ASSUME NEW s \in UsersRequests, s # r
          PROVE  /\ UsersStage(s)' = UsersStage(s)
                 /\ s \in Pending(l) =>
                       /\ usersRequest'[s] \in Asking /\ ~usersRequest'[s].alone
                       /\ usersRequest'[s].link = l /\ usersRequest'[s].status
                 /\ s \notin Pending(l) => usersRequest'[s] = usersRequest[s]
        <3>1. CASE s \in Pending(l)
            <4>1. usersRequest[s] \in Asking /\ usersRequest[s].link = l /\ usersRequest[s].status
                BY <3>1, UsersFields DEF Pending
            <4>2. usersRequest'[s] = [usersRequest[s] EXCEPT !.alone = FALSE]
                BY <2>3, <2>5, <3>1
            <4> QED
                BY <3>1, <4>1, <4>2 DEF Asking, UsersStage
        <3>2. CASE s \notin Pending(l)
            BY <2>3, <2>5, <3>2 DEF UsersStage
        <3> QED
            BY <3>1, <3>2
    <2>6. usersRequest'[r] = p
        BY <2>3
    <2>7. UsersOK'
        <3>1. ASSUME NEW s \in UsersRequests
              PROVE  usersRequest'[s] \in {NotSent, Served} \cup Asking \cup Updating
            BY <2>2, <2>5, <2>6 DEF UsersOK
        <3> QED
            BY <1>4, <2>3, <3>1 DEF UsersOK
    <2>8. \A m \in UsersLink : m # l => Pending(m)' = Pending(m)
        <3>1. ASSUME NEW m \in UsersLink, m # l, NEW s \in UsersRequests
              PROVE  s \in Pending(m)' <=> s \in Pending(m)
            <4>1. CASE s = r
                BY <1>3, <2>2, <2>6, <3>1, <4>1 DEF Pending
            <4>2. CASE s # r /\ s \in Pending(l)
                BY <2>5, <3>1, <4>2 DEF Pending
            <4>3. CASE s # r /\ s \notin Pending(l)
                BY <2>5, <3>1, <4>3 DEF Pending, UsersStage
            <4> QED
                BY <4>1, <4>2, <4>3
        <3> QED
            BY <3>1 DEF Pending
    <2>9. Pending(l)' \subseteq Pending(l) \cup {r}
        <3>1. ASSUME NEW s \in UsersRequests, s # r, s \in Pending(l)'
              PROVE  s \in Pending(l)
            BY <2>5, <3>1 DEF Pending, UsersStage
        <3> QED
            BY <3>1 DEF Pending
    <2>10. ASSUME NEW m \in UsersLink, NEW s \in Pending(m)', usersRequest'[s].alone
           PROVE  Pending(m)' = {s} /\ Cardinality(Counted(m)') < nrOfPeriodUsers'[m]
        <3>1. s \in UsersRequests
            BY DEF Pending
        <3>2. CASE m # l
            <4>1. s \in Pending(m) /\ s # r
                BY <1>3, <2>8, <2>10, <3>2 DEF Pending
            <4>2. s \notin Pending(l)
                BY <3>2, <4>1 DEF Pending
            <4>3. usersRequest'[s] = usersRequest[s]
                BY <2>5, <3>1, <4>1, <4>2
            <4> QED
                BY <1>4, <2>8, <2>10, <3>2, <4>1, <4>3 DEF UsersInv
        <3>3. CASE m = l
            <4>1. s = r
                BY <2>5, <2>9, <2>10, <3>1, <3>3
            <4>2. Pending(l) = {}
                BY <2>2, <2>6, <2>10, <4>1
            <4>3. Cardinality(Counted(l)) < nrOfPeriodUsers[l]
                BY <1>3, <1>4, <1>6, UsersAreFinite DEF CanBeActivated
            <4> QED
                BY <1>3, <1>4, <2>9, <2>10, <3>3, <4>1, <4>2, <4>3
        <3> QED
            BY <3>2, <3>3
    <2>11. \A s \in UsersRequests :
              UsersStage(s)' = "update" => usersRequest'[s].id \in DOMAIN periodUser'
        <3>1. ASSUME NEW s \in UsersRequests, UsersStage(s)' = "update"
              PROVE  usersRequest'[s].id \in DOMAIN periodUser'
            <4>1. s # r
                BY <2>2, <2>6, <3>1 DEF UsersStage
            <4>2. UsersStage(s) = "update" /\ s \notin Pending(l)
                BY <2>5, <3>1, <4>1 DEF Pending
            <4> QED
                BY <1>4, <2>5, <4>1, <4>2 DEF UsersInv
        <3> QED
            BY <3>1
    <2>12. CountedWithinLimit'
        BY <1>4 DEF UsersInv, CountedWithinLimit
    <2> QED
        BY <1>4, <2>7, <2>10, <2>11, <2>12 DEF UsersInv
<1> QED
    BY <1>5, <1>6

\* A step that may take users out of those counted, and nobody into the pending.
LEMMA UsersFewer ==
    ASSUME UsersOK, UsersInv, NEW r \in UsersRequests, NowAt(r, Served),
           UNCHANGED nrOfPeriodUsers, UsersOK',
           IsFiniteSet(DOMAIN periodUser'),
           DOMAIN periodUser' = 1 .. Cardinality(DOMAIN periodUser'),
           DOMAIN periodUser \subseteq DOMAIN periodUser',
           \A l \in UsersLink :
              \/ Counted(l)' \subseteq Counted(l)
              \/ /\ r \in Pending(l) /\ usersRequest[r].alone
                 /\ \E i : Counted(l)' = Counted(l) \cup {i}
    PROVE  UsersInv'
<1>1. \A l \in UsersLink : Pending(l)' = Pending(l) \ {r}
    BY UsersMove DEF Pending, UsersStage, Served
<1>2. ASSUME NEW l \in UsersLink
      PROVE  /\ Cardinality(Counted(l)') <= nrOfPeriodUsers[l]
             /\ \A s \in Pending(l) \ {r} : usersRequest[s].alone =>
                   Pending(l) = {s} /\ Cardinality(Counted(l)') < nrOfPeriodUsers[l]
    <2>1. /\ IsFiniteSet(Counted(l)) /\ Cardinality(Counted(l)) \in Nat
          /\ nrOfPeriodUsers[l] \in Nat /\ Cardinality(Counted(l)) <= nrOfPeriodUsers[l]
        BY UsersAreFinite, PeriodUsersAssumption DEF UsersOK, UsersInv, CountedWithinLimit
    <2>2. CASE Counted(l)' \subseteq Counted(l)
        <3>1. Cardinality(Counted(l)') <= Cardinality(Counted(l))
              /\ Cardinality(Counted(l)') \in Nat
            BY <2>1, <2>2, FS_Subset, FS_CardinalityType
        <3> QED
            BY <1>2, <2>1, <3>1 DEF UsersInv
    <2>3. ASSUME r \in Pending(l), usersRequest[r].alone,
                 NEW i, Counted(l)' = Counted(l) \cup {i}
          PROVE  /\ Cardinality(Counted(l)') <= nrOfPeriodUsers[l]
                 /\ Pending(l) \ {r} = {}
        <3>1. Pending(l) = {r} /\ Cardinality(Counted(l)) < nrOfPeriodUsers[l]
            BY <2>3 DEF UsersInv
        <3>2. PICK C : C = Counted(l)
            OBVIOUS
        <3>3. Cardinality(C \cup {i}) =
                 IF i \in C THEN Cardinality(C) ELSE Cardinality(C) + 1
            BY <2>1, <3>2, FS_AddElement
        <3>4. Counted(l)' = C \cup {i}
            BY <2>3, <3>2
        <3>5. Cardinality(Counted(l)') <= nrOfPeriodUsers[l]
            BY <2>1, <3>1, <3>2, <3>3, <3>4
        <3> QED
            BY <3>1, <3>5
    <2> QED
        BY <2>2, <2>3
<1>3. CountedWithinLimit'
    BY <1>2 DEF CountedWithinLimit
<1>4. ASSUME NEW l \in UsersLink, NEW s \in Pending(l)', usersRequest'[s].alone
      PROVE  Pending(l)' = {s} /\ Cardinality(Counted(l)') < nrOfPeriodUsers'[l]
    <2>1. s \in Pending(l) \ {r} /\ s \in UsersRequests
        BY <1>1, <1>4 DEF Pending
    <2>2. usersRequest'[s] = usersRequest[s]
        BY <2>1, UsersMove
    <2>3. Pending(l) = {s} /\ Cardinality(Counted(l)') < nrOfPeriodUsers[l]
        BY <1>2, <1>4, <2>1, <2>2
    <2> QED
        BY <1>1, <2>1, <2>3
<1>5. \A s \in UsersRequests :
         UsersStage(s)' = "update" => usersRequest'[s].id \in DOMAIN periodUser'
    BY UsersMove DEF UsersInv, UsersStage, Served
<1> QED
    BY <1>3, <1>4, <1>5 DEF UsersInv

LEMMA CreateUserStep ==
    ASSUME UsersOK, UsersInv, NEW r \in UsersRequests, CreateUser(r)
    PROVE  UsersOK' /\ UsersInv'
<1>1. PICK q : q = usersRequest[r]
    OBVIOUS
<1>2. PICK i : i = Cardinality(DOMAIN periodUser) + 1
    OBVIOUS
<1>3. /\ q.link \in UsersLink /\ q.status \in BOOLEAN /\ q.alone \in BOOLEAN
      /\ UsersStage(r) = "create" /\ NowAt(r, Served) /\ UNCHANGED nrOfPeriodUsers
    BY <1>1, UsersFields DEF CreateUser
<1>4. /\ i \in Nat /\ i \notin DOMAIN periodUser
      /\ IsFiniteSet(DOMAIN periodUser \cup {i})
      /\ DOMAIN periodUser \cup {i} = 1 .. Cardinality(DOMAIN periodUser \cup {i})
    <2>1. PICK n \in Nat : n = Cardinality(DOMAIN periodUser)
        BY FS_CardinalityType DEF UsersInv
    <2>2. DOMAIN periodUser = 1 .. n /\ i = n + 1
        BY <1>2, <2>1 DEF UsersInv
    <2>3. n + 1 \in Nat /\ n + 1 \notin 1 .. n /\ 1 .. n + 1 = (1 .. n) \cup {n + 1}
        OBVIOUS
    <2>4. Cardinality(DOMAIN periodUser \cup {i}) = n + 1
          /\ IsFiniteSet(DOMAIN periodUser \cup {i})
        BY <2>1, <2>2, <2>3, FS_AddElement DEF UsersInv
    <2> QED
        BY <2>2, <2>3, <2>4
<1>5. CASE UNCHANGED <<periodUser, admitted>>
    <2>1. UsersOK'
        BY <1>3, <1>5, UsersMove DEF UsersOK
    <2>2. \A l \in UsersLink : Counted(l)' = Counted(l)
        BY <1>5 DEF Counted, ActiveUsers
    <2> QED
        BY <1>3, <1>5, <2>1, <2>2, UsersFewer DEF UsersInv
<1>6. CASE /\ periodUser' = [j \in DOMAIN periodUser \cup {i} |->
                IF j = i THEN [link |-> q.link, status |-> q.status] ELSE periodUser[j]]
           /\ admitted' = [j \in DOMAIN periodUser \cup {i} |->
                IF j = i THEN CASE ~q.status -> "inactive"
                                [] q.status /\ q.alone -> "counted"
                                [] q.status /\ ~q.alone -> "crowded"
                ELSE admitted[j]]
    <2>1. /\ DOMAIN periodUser' = DOMAIN periodUser \cup {i}
          /\ DOMAIN admitted' = DOMAIN periodUser \cup {i}
          /\ periodUser'[i] = [link |-> q.link, status |-> q.status]
          /\ \A j \in DOMAIN periodUser :
                periodUser'[j] = periodUser[j] /\ admitted'[j] = admitted[j]
        BY <1>4, <1>6
    <2>2. /\ admitted'[i] \in {"inactive", "counted", "crowded"}
          /\ admitted'[i] = "counted" => q.status /\ q.alone
        <3>1. admitted'[i] = CASE ~q.status -> "inactive"
                               [] q.status /\ q.alone -> "counted"
                               [] q.status /\ ~q.alone -> "crowded"
            BY <1>6
        <3> QED
            BY <1>3, <3>1
    <2>3. UsersOK'
        <3>1. [link |-> q.link, status |-> q.status] \in [link : UsersLink, status : BOOLEAN]
            BY <1>3
        <3> QED
            BY <1>3, <1>4, <2>1, <2>2, <3>1, UsersMove DEF UsersOK
    <2>4. ASSUME NEW l \in UsersLink
          PROVE  \/ Counted(l)' \subseteq Counted(l)
                 \/ /\ r \in Pending(l) /\ usersRequest[r].alone
                    /\ \E k : Counted(l)' = Counted(l) \cup {k}
        <3>1. periodUser'[i].link = q.link /\ periodUser'[i].status = q.status
            BY <2>1
        <3>2. \A j \in DOMAIN periodUser : j \in Counted(l)' <=> j \in Counted(l)
            BY <2>1 DEF Counted, ActiveUsers, UsersOK
        <3>3. Counted(l)' \subseteq DOMAIN periodUser \cup {i}
              /\ Counted(l) \subseteq DOMAIN periodUser
            BY <2>1 DEF Counted, ActiveUsers
        <3>4. CASE i \in Counted(l)'
            <4>1. q.status /\ q.alone /\ q.link = l
                BY <2>2, <3>1, <3>4 DEF Counted, ActiveUsers
            <4>2. Counted(l)' = Counted(l) \cup {i}
                BY <3>2, <3>3, <3>4
            <4> QED
                BY <1>1, <1>3, <4>1, <4>2 DEF Pending
        <3>5. CASE i \notin Counted(l)'
            BY <3>2, <3>3, <3>5
        <3> QED
            BY <3>4, <3>5
    <2> QED
        BY <1>3, <1>4, <2>1, <2>3, <2>4, UsersFewer
<1> QED
    BY <1>1, <1>2, <1>5, <1>6 DEF CreateUser

LEMMA UpdateUserStep ==
    ASSUME UsersOK, UsersInv, NEW r \in UsersRequests, UpdateUser(r)
    PROVE  UsersOK' /\ UsersInv'
<1>1. PICK q : q = usersRequest[r]
    OBVIOUS
<1>2. /\ q.id \in DOMAIN periodUser /\ q.status \in BOOLEAN /\ q.copy \in BOOLEAN
      /\ NowAt(r, Served) /\ UNCHANGED nrOfPeriodUsers
    BY <1>1, UsersFields DEF UpdateUser, UsersInv
<1>3. CASE UNCHANGED <<periodUser, admitted>>
    <2>1. UsersOK'
        BY <1>2, <1>3, UsersMove DEF UsersOK
    <2>2. \A l \in UsersLink : Counted(l)' = Counted(l)
        BY <1>3 DEF Counted, ActiveUsers
    <2> QED
        BY <1>2, <1>3, <2>1, <2>2, UsersFewer DEF UsersInv
<1>4. CASE /\ q.status # q.copy
           /\ periodUser' = [periodUser EXCEPT ![q.id].status = q.status]
           /\ admitted' = [admitted EXCEPT ![q.id] =
                CASE ~q.status -> "inactive"
                  [] q.status /\ periodUser[q.id].status -> admitted[q.id]
                  [] OTHER -> "edited"]
    <2>1. PICK i \in DOMAIN periodUser : i = q.id
        BY <1>2
    <2>2. /\ periodUser[i] \in [link : UsersLink, status : BOOLEAN]
          /\ i \in DOMAIN admitted
        BY DEF UsersOK
    <2>3. /\ DOMAIN periodUser' = DOMAIN periodUser /\ DOMAIN admitted' = DOMAIN periodUser
          /\ periodUser'[i].link = periodUser[i].link /\ periodUser'[i].status = q.status
          /\ periodUser'[i] \in [link : UsersLink, status : BOOLEAN]
          /\ \A j \in DOMAIN periodUser : j # i =>
                periodUser'[j] = periodUser[j] /\ admitted'[j] = admitted[j]
        BY <1>2, <1>4, <2>1, <2>2 DEF UsersOK
    <2>4. /\ admitted'[i] \in {"inactive", "edited", admitted[i]}
          /\ admitted'[i] = "counted" =>
                q.status /\ periodUser[i].status /\ admitted[i] = "counted"
        <3>1. admitted'[i] = CASE ~q.status -> "inactive"
                               [] q.status /\ periodUser[i].status -> admitted[i]
                               [] OTHER -> "edited"
            BY <1>4, <2>1, <2>2
        <3> QED
            BY <1>2, <2>2, <3>1
    <2>5. UsersOK'
        BY <1>2, <2>2, <2>3, <2>4, UsersMove DEF UsersOK
    <2>6. ASSUME NEW l \in UsersLink
          PROVE  Counted(l)' \subseteq Counted(l)
        BY <2>3, <2>4 DEF Counted, ActiveUsers
    <2> QED
        BY <1>2, <2>3, <2>5, <2>6, UsersFewer DEF UsersInv
<1> QED
    BY <1>1, <1>3, <1>4 DEF UpdateUser

LEMMA UsersNext ==
    ASSUME UsersOK, UsersInv, NEW r \in UsersRequests, UsersStep(r)
    PROVE  UsersOK' /\ UsersInv'
    BY AddPeriodUserStep, CountUsersStep, CreateUserStep, EditPeriodUserStep, UpdateUserStep
       DEF UsersStep

LEMMA UsersStutter ==
    ASSUME UsersOK, UsersInv, UNCHANGED usersVars
    PROVE  UsersOK' /\ UsersInv'
<1>1. UsersOK'
    BY DEF usersVars, UsersOK
<1>2. \A l \in UsersLink : Pending(l)' = Pending(l) /\ Counted(l)' = Counted(l)
    BY DEF usersVars, Pending, UsersStage, Counted, ActiveUsers
<1> QED
    BY <1>1, <1>2 DEF usersVars, UsersInv, UsersStage, CountedWithinLimit

(***************************************************************************)
(* Password tokens                                                         *)
(***************************************************************************)

\* What a request is at each of its stages.
LEMMA TokenFields ==
    ASSUME TokensOK, NEW r \in TokenRequests
    PROVE  /\ tokenRequest[r] \in TokenProgress
           /\ Stage(r) = "lookup" => tokenRequest[r].user \in TokenUser
           /\ Stage(r) = "save" =>
                 tokenRequest[r].user \in TokenUser /\ tokenRequest[r].found \in BOOLEAN
           /\ Submitted(r) =>
                 tokenRequest[r].user \in TokenUser /\ tokenRequest[r].token \in TokenRequests
    BY DEF TokensOK, TokenProgress, Stage, Submitted, Idle, Finished, Looking, Saving,
           Mailing, Submitting

LEMMA TokenMove ==
    ASSUME TokensOK, NEW r \in TokenRequests, NEW p, Becomes(r, p)
    PROVE  /\ tokenRequest'[r] = p
           /\ \A s \in TokenRequests : s # r => tokenRequest'[s] = tokenRequest[s]
           /\ p \in TokenProgress => tokenRequest' \in [TokenRequests -> TokenProgress]
<1>1. tokenRequest \in [TokenRequests -> TokenProgress]
    BY DEF TokensOK
<1>2. tokenRequest' = [tokenRequest EXCEPT ![r] = p]
    BY DEF Becomes
<1> QED
    BY <1>1, <1>2

LEMMA TokensStart == InitTokens => TokensOK /\ TokensInv
<1> SUFFICES ASSUME InitTokens
             PROVE  TokensOK /\ TokensInv
    OBVIOUS
<1>1. DOMAIN pswToken = {} /\ DOMAIN newest = {}
    BY DEF InitTokens
<1>2. \A r \in TokenRequests : Stage(r) = "unsent" /\ ~Submitted(r)
    BY DEF InitTokens, Idle, Stage, Submitted
<1>3. \A t \in TokenRequests : uses[t] = 0
    BY DEF InitTokens
<1>4. TokensOK
    BY <1>1, TokensAssumption DEF InitTokens, TokensOK, TokenProgress
<1>5. OwnersInv
    BY <1>1, <1>2, <1>3 DEF OwnersInv, OwnedBy, InitTokens
<1>6. RowsInv
    BY <1>1, <1>2 DEF RowsInv
<1>7. SpentInv
    BY <1>2, <1>3 DEF SpentInv
<1> QED
    BY <1>4, <1>5, <1>6, <1>7 DEF TokensInv

\* A step of a request that has not submitted a password, nor does, and changes
\* no row: its own token is at most mailed, at the end.
LEMMA TokensQuiet ==
    ASSUME TokensOK, TokensInv, NEW r \in TokenRequests, NEW p,
           Becomes(r, p), p \in TokenProgress,
           ~Submitted(r), p.at \notin {"password", "remove"},
           Stage(r) \in {"mail", "done"} => p.at \in {"mail", "done"},
           UNCHANGED <<pswToken, newest, uses, entwined, hurried>>,
           mailed' \subseteq mailed \cup {r}, mailed' = mailed \/ p.at = "done",
           tokenDeaths' \in 0 .. MaxTokenDeaths
    PROVE  TokensOK' /\ TokensInv'
<1>1. TokensOK'
    BY TokenMove DEF TokensOK
<1>2. /\ \A s \in TokenRequests : s # r => tokenRequest'[s] = tokenRequest[s]
      /\ tokenRequest'[r] = p
    BY TokenMove
<1>3. ~Submitted(r)'
    BY <1>2 DEF Submitted, Stage
<1>4. \A t, u : OwnedBy(t, u)' <=> OwnedBy(t, u)
    BY <1>2, <1>3 DEF OwnedBy, Submitted, Stage
<1>5. ASSUME NEW t \in TokenRequests, Stage(t)' \notin {"mail", "done"}
      PROVE  Stage(t) \notin {"mail", "done"} /\ (t \in mailed' => t \in mailed)
    BY <1>2, <1>5 DEF Stage
<1>6. OwnersInv'
    BY <1>4, <1>5 DEF TokensInv, OwnersInv
<1>7. RowsInv'
    BY <1>2, <1>3 DEF TokensInv, RowsInv, Submitted, Stage
<1>8. \A s \in TokenRequests : Submitted(s)' =>
         Submitted(s) /\ s # r /\ tokenRequest'[s] = tokenRequest[s]
    BY <1>2, <1>3 DEF Submitted, Stage
<1>9. \A s \in TokenRequests : Stage(s) = "remove" =>
         s # r /\ tokenRequest'[s] = tokenRequest[s]
    BY <1>2 DEF Submitted, Stage
<1>10. SpentInv'
    BY <1>8, <1>9 DEF TokensInv, SpentInv, Stage
<1> QED
    BY <1>1, <1>6, <1>7, <1>10 DEF TokensInv

LEMMA AskForMailStep ==
    ASSUME TokensOK, TokensInv, NEW r \in TokenRequests, AskForMail(r)
    PROVE  TokensOK' /\ TokensInv'
<1>1. PICK u \in TokenUser : Becomes(r, [at |-> "lookup", user |-> u])
    BY DEF AskForMail
<1>2. PICK p : p = [at |-> "lookup", user |-> u]
    OBVIOUS
<1>3. p \in TokenProgress /\ p.at = "lookup"
    BY <1>2 DEF TokenProgress, Looking
<1>4. tokenDeaths' \in 0 .. MaxTokenDeaths
    BY DEF AskForMail, TokensOK
<1> QED
    BY <1>1, <1>2, <1>3, <1>4, TokensQuiet DEF AskForMail, Submitted

LEMMA FindRowStep ==
    ASSUME TokensOK, TokensInv, NEW r \in TokenRequests, FindRow(r)
    PROVE  TokensOK' /\ TokensInv'
<1>1. PICK u : u = tokenRequest[r].user
    OBVIOUS
<1>2. PICK p : p = [at |-> "save", user |-> u, found |-> u \in DOMAIN pswToken]
    OBVIOUS
<1>3. u \in TokenUser
    BY <1>1, TokenFields DEF FindRow
<1>4. p \in TokenProgress /\ p.at = "save"
    BY <1>2, <1>3 DEF TokenProgress, Saving
<1>5. tokenDeaths' \in 0 .. MaxTokenDeaths
    BY DEF FindRow, TokensOK
<1> QED
    BY <1>1, <1>2, <1>4, <1>5, TokensQuiet DEF FindRow, Submitted

LEMMA MailTokenStep ==
    ASSUME TokensOK, TokensInv, NEW r \in TokenRequests, MailToken(r)
    PROVE  TokensOK' /\ TokensInv'
<1>1. Finished \in TokenProgress /\ Finished.at = "done"
    BY DEF TokenProgress, Finished
<1>2. tokenDeaths' \in 0 .. MaxTokenDeaths
    BY DEF MailToken, TokensOK
<1> QED
    BY <1>1, <1>2, TokensQuiet DEF MailToken, Submitted

\* A token that is saved had no row and no submission: the user's row is now
\* that token, and submissions for the user make it a hurried one.
LEMMA SaveTokenStep ==
    ASSUME TokensOK, TokensInv, NEW r \in TokenRequests, SaveToken(r)
    PROVE  TokensOK' /\ TokensInv'
<1>1. PICK u : u = tokenRequest[r].user
    OBVIOUS
<1>2. Stage(r) = "save" /\ u \in TokenUser /\ ~Submitted(r)
    BY <1>1, TokenFields DEF SaveToken, Submitted
<1>3. tokenDeaths' \in 0 .. MaxTokenDeaths /\ UNCHANGED <<mailed, uses, entwined>>
    BY DEF SaveToken, TokensOK
<1>4. CASE Becomes(r, Finished) /\ UNCHANGED <<pswToken, newest, hurried>>
    <2>1. Finished \in TokenProgress /\ Finished.at = "done"
        BY DEF TokenProgress, Finished
    <2> QED
        BY <1>2, <1>3, <1>4, <2>1, TokensQuiet
<1>5. CASE /\ pswToken' = With(pswToken, u, r)
           /\ newest' = With(newest, u, r)
           /\ hurried' = IF Submissions(u) = {} THEN hurried ELSE hurried \cup {r}
           /\ Becomes(r, [at |-> "mail"])
    <2>1. PICK p : p = [at |-> "mail"]
        OBVIOUS
    <2>2. p \in TokenProgress /\ p.at = "mail"
        BY <2>1 DEF TokenProgress, Mailing
    <2>3. /\ \A s \in TokenRequests : s # r => tokenRequest'[s] = tokenRequest[s]
          /\ tokenRequest'[r] = p /\ tokenRequest' \in [TokenRequests -> TokenProgress]
        BY <1>5, <2>1, <2>2, TokenMove
    <2>4. /\ DOMAIN pswToken' = DOMAIN pswToken \cup {u} /\ pswToken'[u] = r
          /\ \A v \in DOMAIN pswToken : v # u => pswToken'[v] = pswToken[v]
        BY <1>5 DEF With
    <2>5. /\ DOMAIN newest' = DOMAIN newest \cup {u} /\ newest'[u] = r
          /\ \A v \in DOMAIN newest : v # u => newest'[v] = newest[v]
        BY <1>5 DEF With
    <2>6. hurried \subseteq hurried' /\ hurried' \subseteq hurried \cup {r}
        BY <1>5
    <2>7. TokensOK'
        BY <1>2, <1>3, <2>3, <2>4, <2>5, <2>6 DEF TokensOK
    <2>8. ~Submitted(r)' /\ Stage(r)' = "mail"
        BY <2>2, <2>3 DEF Submitted, Stage
    <2>9. \A s \in TokenRequests : s # r =>
             /\ Submitted(s)' <=> Submitted(s)
             /\ Stage(s)' = Stage(s)
        BY <2>3 DEF Submitted, Stage
    <2>10. uses[r] = 0 /\ \A v \in TokenUser : ~OwnedBy(r, v)
        BY <1>2 DEF TokensInv, OwnersInv
    <2>11. \A t \in TokenRequests, v \in TokenUser :
              OwnedBy(t, v)' => OwnedBy(t, v) \/ (t = r /\ v = u)
        BY <2>3, <2>4, <2>8, <2>9 DEF OwnedBy
    <2>12. OwnersInv'
        BY <1>3, <2>8, <2>9, <2>10, <2>11 DEF TokensInv, OwnersInv
    <2>13. \A v \in DOMAIN pswToken' : v \in DOMAIN newest' /\ pswToken'[v] = newest'[v]
        BY <2>4, <2>5 DEF TokensInv, RowsInv
    <2>14. ASSUME NEW s \in TokenRequests, Submitted(s)', NEW v, v = tokenRequest'[s].user
           PROVE  /\ v \in DOMAIN newest'
                  /\ tokenRequest'[s].token = newest'[v] \/ newest'[v] \in hurried'
                  /\ Stage(s)' = "remove" => uses'[tokenRequest'[s].token] > 0
        <3>1. /\ s # r /\ Submitted(s) /\ tokenRequest'[s] = tokenRequest[s]
              /\ Stage(s)' = Stage(s) /\ v = tokenRequest[s].user
            BY <2>3, <2>8, <2>9, <2>14
        <3>2. /\ v \in DOMAIN newest
              /\ tokenRequest[s].token = newest[v] \/ newest[v] \in hurried
              /\ Stage(s) = "remove" => uses[tokenRequest[s].token] > 0
            BY <3>1 DEF TokensInv, RowsInv
        <3>3. CASE v = u
            <4>1. s \in Submissions(u)
                BY <3>1, <3>3 DEF Submissions, Submitted
            <4>2. r \in hurried'
                BY <1>5, <4>1
            <4> QED
                BY <1>3, <2>5, <3>1, <3>2, <3>3, <4>2
        <3>4. CASE v # u
            BY <1>3, <2>5, <2>6, <3>1, <3>2, <3>4
        <3> QED
            BY <3>3, <3>4
    <2>15. ASSUME NEW v \in DOMAIN newest'
           PROVE  \/ v \in DOMAIN pswToken' /\ pswToken'[v] = newest'[v]
                  \/ uses'[newest'[v]] > 0
                  \/ newest'[v] \in hurried'
        <3>1. CASE v = u
            BY <2>4, <2>5, <3>1
        <3>2. CASE v # u
            BY <1>3, <2>4, <2>5, <2>6, <3>2 DEF TokensInv, RowsInv
        <3> QED
            BY <3>1, <3>2
    <2>16. RowsInv'
        BY <2>13, <2>14, <2>15 DEF RowsInv
    <2>17. ASSUME NEW t \in TokenRequests, t \notin entwined
           PROVE  /\ \A q, s \in TokenRequests :
                        /\ Submitted(q)' /\ tokenRequest'[q].token = t
                        /\ Submitted(s)' /\ tokenRequest'[s].token = t
                        => q = s
                  /\ uses'[t] = 0 \/ uses'[t] = 1
                  /\ uses'[t] = 1 =>
                        /\ \A q \in TokenRequests :
                              Submitted(q)' /\ tokenRequest'[q].token = t =>
                                 Stage(q)' = "remove"
                        /\ \/ \A v \in DOMAIN pswToken' : pswToken'[v] # t
                           \/ \E q \in TokenRequests :
                                 Stage(q)' = "remove" /\ tokenRequest'[q].token = t
        <3>1. /\ \A q \in TokenRequests : Submitted(q)' =>
                    /\ q # r /\ Submitted(q) /\ tokenRequest'[q] = tokenRequest[q]
                    /\ Stage(q)' = Stage(q)
              /\ \A q \in TokenRequests : Stage(q) = "remove" =>
                    Stage(q)' = "remove" /\ tokenRequest'[q] = tokenRequest[q]
            BY <1>2, <2>3, <2>8, <2>9
        <3>2. uses'[t] = 1 => t # r
            BY <1>3, <2>10
        <3>3. t # r /\ (\A v \in DOMAIN pswToken : pswToken[v] # t) =>
                 \A v \in DOMAIN pswToken' : pswToken'[v] # t
            BY <2>4
        <3> QED
            BY <1>3, <2>17, <3>1, <3>2, <3>3 DEF TokensInv, SpentInv
    <2>18. SpentInv'
        BY <1>3, <2>17 DEF SpentInv
    <2> QED
        BY <2>7, <2>12, <2>16, <2>18 DEF TokensInv
<1> QED
    BY <1>1, <1>4, <1>5 DEF SaveToken

\* The token that is submitted is in its user's row, so whoever else has
\* submitted it holds the same row, and it is noted as entwined.
LEMMA SubmitPasswordStep ==
    ASSUME TokensOK, TokensInv, NEW r \in TokenRequests, SubmitPassword(r)
    PROVE  TokensOK' /\ TokensInv'
<1>1. PICK t \in mailed, u \in DOMAIN pswToken :
          /\ pswToken[u] = t
          /\ Becomes(r, [at |-> "password", user |-> u, token |-> t])
          /\ entwined' = IF \E s \in Submissions(u) : tokenRequest[s].token = t
                         THEN entwined \cup {t} ELSE entwined
    BY DEF SubmitPassword
<1>2. PICK p : p = [at |-> "password", user |-> u, token |-> t]
    OBVIOUS
<1>3. u \in TokenUser /\ t \in TokenRequests
    BY DEF TokensOK
<1>4. p \in TokenProgress /\ p.at = "password" /\ p.user = u /\ p.token = t
    BY <1>2, <1>3 DEF TokenProgress, Submitting
<1>5. /\ \A s \in TokenRequests : s # r => tokenRequest'[s] = tokenRequest[s]
      /\ tokenRequest'[r] = p /\ tokenRequest' \in [TokenRequests -> TokenProgress]
    BY <1>1, <1>2, <1>4, TokenMove
<1>6. UNCHANGED <<pswToken, newest, mailed, uses, hurried, tokenDeaths>>
    BY DEF SubmitPassword
<1>7. Stage(r) = "unsent" /\ ~Submitted(r) /\ Submitted(r)' /\ Stage(r)' = "password"
    BY <1>4, <1>5 DEF SubmitPassword, Submitted, Stage
<1>8. \A s \in TokenRequests : s # r =>
         (Submitted(s)' <=> Submitted(s)) /\ Stage(s)' = Stage(s)
    BY <1>5 DEF Submitted, Stage
<1>9. entwined \subseteq entwined' /\ entwined' \subseteq entwined \cup {t}
    BY <1>1
<1>10. TokensOK'
    BY <1>3, <1>5, <1>6, <1>9 DEF TokensOK
<1>11. OwnedBy(t, u)
    BY <1>1 DEF OwnedBy
<1>12. ASSUME NEW w \in TokenRequests, NEW v \in TokenUser
       PROVE  OwnedBy(w, v)' <=> OwnedBy(w, v)
    <2>1. OwnedBy(w, v) => OwnedBy(w, v)'
        BY <1>5, <1>6, <1>7, <1>8 DEF OwnedBy
    <2>2. OwnedBy(w, v)' => OwnedBy(w, v) \/ (w = t /\ v = u)
        BY <1>4, <1>5, <1>6, <1>7, <1>8 DEF OwnedBy
    <2> QED
        BY <1>11, <2>1, <2>2
<1>13. OwnersInv'
    BY <1>6, <1>7, <1>8, <1>12 DEF TokensInv, OwnersInv
<1>14. RowsInv'
    <2>1. u \in DOMAIN newest /\ t = newest[u]
        BY <1>1 DEF TokensInv, RowsInv
    <2>2. ASSUME NEW s \in TokenRequests, Submitted(s)', NEW v, v = tokenRequest'[s].user
          PROVE  /\ v \in DOMAIN newest
                 /\ tokenRequest'[s].token = newest[v] \/ newest[v] \in hurried
                 /\ Stage(s)' = "remove" => uses[tokenRequest'[s].token] > 0
        <3>1. CASE s = r
            BY <1>4, <1>5, <1>7, <2>1, <2>2, <3>1
        <3>2. CASE s # r
            BY <1>5, <1>8, <2>2, <3>2 DEF TokensInv, RowsInv
        <3> QED
            BY <3>1, <3>2
    <2> QED
        BY <1>6, <2>2 DEF TokensInv, RowsInv
<1>15. ASSUME NEW w \in TokenRequests, w \notin entwined'
       PROVE  /\ \A q, s \in TokenRequests :
                    /\ Submitted(q)' /\ tokenRequest'[q].token = w
                    /\ Submitted(s)' /\ tokenRequest'[s].token = w
                    => q = s
              /\ uses[w] = 0 \/ uses[w] = 1
              /\ uses[w] = 1 =>
                    /\ \A q \in TokenRequests :
                          Submitted(q)' /\ tokenRequest'[q].token = w => Stage(q)' = "remove"
                    /\ \/ \A v \in DOMAIN pswToken : pswToken[v] # w
                       \/ \E q \in TokenRequests :
                             Stage(q)' = "remove" /\ tokenRequest'[q].token = w
    <2>1. w \notin entwined
        BY <1>9, <1>15
    <2>2. \A q \in TokenRequests : Stage(q) = "remove" =>
             q # r /\ Stage(q)' = "remove" /\ tokenRequest'[q] = tokenRequest[q]
        BY <1>5, <1>7, <1>8
    <2>3. CASE w # t
        <3>1. \A q \in TokenRequests : Submitted(q)' /\ tokenRequest'[q].token = w =>
                 /\ q # r /\ Submitted(q) /\ tokenRequest[q].token = w
                 /\ Stage(q)' = Stage(q)
            BY <1>4, <1>5, <1>8, <2>3
        <3> QED
            BY <2>1, <2>2, <3>1 DEF TokensInv, SpentInv
    <2>4. CASE w = t
        <3>1. \A s \in Submissions(u) : tokenRequest[s].token # t
            BY <1>1, <1>15, <2>4
        <3>2. ASSUME NEW s \in TokenRequests, Submitted(s), tokenRequest[s].token = t
              PROVE  FALSE
            <4>1. PICK v \in TokenUser : v = tokenRequest[s].user
                BY <3>2, TokenFields
            <4>2. OwnedBy(t, v)
                BY <3>2, <4>1 DEF OwnedBy
            <4>3. v = u
                BY <1>3, <1>11, <4>2 DEF TokensInv, OwnersInv
            <4> QED
                BY <3>1, <3>2, <4>1, <4>3 DEF Submissions, Submitted
        <3>3. \A q \in TokenRequests : Submitted(q)' /\ tokenRequest'[q].token = t => q = r
            BY <1>5, <1>8, <3>2
        <3>4. ~\E q \in TokenRequests : Stage(q) = "remove" /\ tokenRequest[q].token = t
            BY <3>2 DEF Submitted
        <3>5. uses[t] = 0 \/ uses[t] = 1
            BY <1>3, <2>1, <2>4 DEF TokensInv, SpentInv
        <3>6. uses[t] # 1
            BY <1>1, <1>3, <2>1, <2>4, <3>4 DEF TokensInv, SpentInv
        <3> QED
            BY <2>4, <3>3, <3>5, <3>6
    <2> QED
        BY <2>3, <2>4
<1>16. SpentInv'
    BY <1>6, <1>15 DEF SpentInv
<1> QED
    BY <1>10, <1>13, <1>14, <1>16 DEF TokensInv

\* The password is set, once for a token that is not entwined.
LEMMA SetPasswordStep ==
    ASSUME TokensOK, TokensInv, NEW r \in TokenRequests, SetPassword(r)
    PROVE  TokensOK' /\ TokensInv'
<1>1. PICK u, t : u = tokenRequest[r].user /\ t = tokenRequest[r].token
    OBVIOUS
<1>2. Stage(r) = "password" /\ Submitted(r) /\ u \in TokenUser /\ t \in TokenRequests
    BY <1>1, TokenFields DEF SetPassword, Submitted
<1>3. PICK p : p = [tokenRequest[r] EXCEPT !.at = "remove"]
    OBVIOUS
<1>4. p \in TokenProgress /\ p.at = "remove" /\ p.user = u /\ p.token = t
    <2>1. tokenRequest[r] \in Submitting
        BY <1>2, TokenFields DEF TokenProgress, Idle, Finished, Looking, Saving, Mailing,
                                 Submitting, Stage
    <2> QED
        BY <1>1, <1>3, <2>1 DEF TokenProgress, Submitting
<1>5. /\ \A s \in TokenRequests : s # r => tokenRequest'[s] = tokenRequest[s]
      /\ tokenRequest'[r] = p /\ tokenRequest' \in [TokenRequests -> TokenProgress]
    BY <1>3, <1>4, TokenMove DEF SetPassword
<1>6. UNCHANGED <<pswToken, newest, mailed, entwined, hurried, tokenDeaths>>
    BY DEF SetPassword
<1>7. /\ uses' \in [TokenRequests -> Nat] /\ uses'[t] = uses[t] + 1
      /\ \A w \in TokenRequests : w # t => uses'[w] = uses[w]
      /\ \A w \in TokenRequests : uses[w] \in Nat
    BY <1>1, <1>2 DEF SetPassword, TokensOK
<1>8. TokensOK'
    BY <1>5, <1>6, <1>7 DEF TokensOK
<1>9. Submitted(r)' /\ Stage(r)' = "remove"
    BY <1>4, <1>5 DEF Submitted, Stage
<1>10. \A s \in TokenRequests : s # r =>
          (Submitted(s)' <=> Submitted(s)) /\ Stage(s)' = Stage(s)
    BY <1>5 DEF Submitted, Stage
<1>11. \A s \in TokenRequests :
          /\ Submitted(s)' <=> Submitted(s)
          /\ tokenRequest'[s].user = tokenRequest[s].user
          /\ tokenRequest'[s].token = tokenRequest[s].token
          /\ Stage(s)' \notin {"mail", "done"} => Stage(s) \notin {"mail", "done"}
          /\ Stage(s)' = "remove" => s = r \/ Stage(s) = "remove"
          /\ Stage(s) = "remove" => Stage(s)' = "remove"
    BY <1>1, <1>2, <1>4, <1>5, <1>9, <1>10
<1>12. \A w, v : OwnedBy(w, v)' <=> OwnedBy(w, v)
    BY <1>6, <1>11 DEF OwnedBy
<1>13. OwnedBy(t, u)
    BY <1>1, <1>2 DEF OwnedBy
<1>14. OwnersInv'
    BY <1>2, <1>6, <1>7, <1>11, <1>12, <1>13 DEF TokensInv, OwnersInv
<1>15. \A w \in TokenRequests : uses[w] > 0 => uses'[w] > 0
    BY <1>2, <1>7
<1>16. uses'[t] > 0
    BY <1>2, <1>7
<1>17. RowsInv'
    <2>1. \A s \in TokenRequests : Submitted(s) => tokenRequest[s].token \in TokenRequests
        BY TokenFields
    <2>2. \A v \in DOMAIN newest : newest[v] \in TokenRequests
        BY DEF TokensOK
    <2>3. ASSUME NEW s \in TokenRequests, Submitted(s)'
          PROVE  Stage(s)' = "remove" => uses'[tokenRequest'[s].token] > 0
        <3>1. CASE s = r
            BY <1>1, <1>11, <1>16, <3>1
        <3>2. CASE s # r
            BY <1>11, <1>15, <2>1, <2>3, <3>2 DEF TokensInv, RowsInv
        <3> QED
            BY <3>1, <3>2
    <2>4. \A s \in TokenRequests : Submitted(s)' =>
             /\ tokenRequest'[s].user \in DOMAIN newest
             /\ \/ tokenRequest'[s].token = newest[tokenRequest'[s].user]
                \/ newest[tokenRequest'[s].user] \in hurried
        BY <1>11 DEF TokensInv, RowsInv
    <2>5. \A v \in DOMAIN newest :
             \/ v \in DOMAIN pswToken /\ pswToken[v] = newest[v]
             \/ uses'[newest[v]] > 0
             \/ newest[v] \in hurried
        BY <1>15, <2>2 DEF TokensInv, RowsInv
    <2> QED
        BY <1>6, <2>3, <2>4, <2>5 DEF TokensInv, RowsInv
<1>18. ASSUME NEW w \in TokenRequests, w \notin entwined
       PROVE  /\ \A q, s \in TokenRequests :
                    /\ Submitted(q)' /\ tokenRequest'[q].token = w
                    /\ Submitted(s)' /\ tokenRequest'[s].token = w
                    => q = s
              /\ uses'[w] = 0 \/ uses'[w] = 1
              /\ uses'[w] = 1 =>
                    /\ \A q \in TokenRequests :
                          Submitted(q)' /\ tokenRequest'[q].token = w => Stage(q)' = "remove"
                    /\ \/ \A v \in DOMAIN pswToken : pswToken[v] # w
                       \/ \E q \in TokenRequests :
                             Stage(q)' = "remove" /\ tokenRequest'[q].token = w
    <2>1. \A q, s \in TokenRequests :
                    /\ Submitted(q) /\ tokenRequest[q].token = w
                    /\ Submitted(s) /\ tokenRequest[s].token = w
                    => q = s
        BY <1>18 DEF TokensInv, SpentInv
    <2>2. CASE w = t
        <3>1. uses[t] # 1
            BY <1>1, <1>2, <1>18, <2>2 DEF TokensInv, SpentInv
        <3>2. uses'[t] = 1
            BY <1>7, <1>18, <2>2, <3>1 DEF TokensInv, SpentInv
        <3>3. \A q \in TokenRequests : Submitted(q)' /\ tokenRequest'[q].token = w => q = r
            BY <1>1, <1>2, <1>11, <2>1, <2>2
        <3> QED
            BY <1>1, <1>9, <1>11, <2>1, <2>2, <3>2, <3>3
    <2>3. CASE w # t
        BY <1>1, <1>7, <1>10, <1>11, <1>18, <2>1, <2>3 DEF TokensInv, SpentInv
    <2> QED
        BY <2>2, <2>3
<1>19. SpentInv'
    BY <1>6, <1>18 DEF SpentInv
<1> QED
    BY <1>8, <1>14, <1>17, <1>19 DEF TokensInv

\* A submission that ends, its row deleted or not: its token was used, and if the
\* row stays although it was, the token is entwined.
LEMMA SubmissionEnds ==
    ASSUME TokensOK, TokensInv, NEW r \in TokenRequests, Submitted(r),
           Becomes(r, Finished), TokensOK',
           UNCHANGED <<newest, mailed, uses, hurried>>,
           entwined \subseteq entwined',
           NEW u, NEW t, u = tokenRequest[r].user, t = tokenRequest[r].token,
           DOMAIN pswToken' \subseteq DOMAIN pswToken,
           \A v \in DOMAIN pswToken' : pswToken'[v] = pswToken[v],
           DOMAIN pswToken \subseteq DOMAIN pswToken' \cup {u},
           u \in DOMAIN pswToken \ DOMAIN pswToken' => Stage(r) = "remove",
           u \in DOMAIN pswToken' /\ Stage(r) = "remove" => t \in entwined'
    PROVE  TokensInv'
<1>1. u \in TokenUser /\ t \in TokenRequests
    BY TokenFields
<1>2. /\ \A s \in TokenRequests : s # r => tokenRequest'[s] = tokenRequest[s]
      /\ tokenRequest'[r] = Finished
    BY TokenMove
<1>3. ~Submitted(r)' /\ Stage(r)' = "done"
    BY <1>2 DEF Submitted, Stage, Finished
<1>4. \A s \in TokenRequests : s # r =>
         (Submitted(s)' <=> Submitted(s)) /\ Stage(s)' = Stage(s)
    BY <1>2 DEF Submitted, Stage
<1>5. \A w, v : OwnedBy(w, v)' => OwnedBy(w, v)
    BY <1>2, <1>3, <1>4 DEF OwnedBy
<1>6. OwnersInv'
    BY <1>3, <1>4, <1>5 DEF TokensInv, OwnersInv
<1>7. RowsInv'
    <2>1. \A v \in DOMAIN pswToken' : v \in DOMAIN newest /\ pswToken'[v] = newest[v]
        BY DEF TokensInv, RowsInv
    <2>2. \A s \in TokenRequests : Submitted(s)' =>
             /\ s # r /\ Submitted(s) /\ tokenRequest'[s] = tokenRequest[s]
             /\ Stage(s)' = Stage(s)
        BY <1>2, <1>3, <1>4
    <2>3. ASSUME NEW v \in DOMAIN newest
          PROVE  \/ v \in DOMAIN pswToken' /\ pswToken'[v] = newest[v]
                 \/ uses[newest[v]] > 0
                 \/ newest[v] \in hurried
        <3>1. CASE v \in DOMAIN pswToken \ DOMAIN pswToken'
            <4>1. v = u /\ Stage(r) = "remove"
                BY <3>1
            <4>2. uses[t] > 0 /\ (t = newest[u] \/ newest[u] \in hurried)
                BY <4>1 DEF TokensInv, RowsInv
            <4> QED
                BY <4>1, <4>2
        <3>2. CASE v \notin DOMAIN pswToken \ DOMAIN pswToken'
            BY <3>2 DEF TokensInv, RowsInv
        <3> QED
            BY <3>1, <3>2
    <2> QED
        BY <2>1, <2>2, <2>3 DEF TokensInv, RowsInv
<1>8. \A q \in TokenRequests : Submitted(q)' =>
         /\ q # r /\ Submitted(q) /\ tokenRequest'[q] = tokenRequest[q]
         /\ Stage(q)' = Stage(q)
    BY <1>2, <1>3, <1>4
<1>9. SpentInv'
    <2> SUFFICES ASSUME NEW w \in (TokenRequests \ entwined)'
                 PROVE  /\ \A q, s \in TokenRequests :
                              /\ Submitted(q)' /\ tokenRequest'[q].token = w
                              /\ Submitted(s)' /\ tokenRequest'[s].token = w
                              => q = s
                        /\ uses'[w] = 0 \/ uses'[w] = 1
                        /\ uses'[w] = 1 =>
                              /\ \A q \in TokenRequests :
                                    Submitted(q)' /\ tokenRequest'[q].token = w =>
                                       Stage(q)' = "remove"
                              /\ \/ \A v \in DOMAIN pswToken' : pswToken'[v] # w
                                 \/ \E q \in TokenRequests :
                                       Stage(q)' = "remove" /\ tokenRequest'[q].token = w
        BY Zenon DEF SpentInv
    <2>1. w \in TokenRequests /\ w \notin entwined /\ w \notin entwined'
        OBVIOUS
    <2>2. uses'[w] = uses[w] /\ (uses[w] = 0 \/ uses[w] = 1)
        BY <2>1 DEF TokensInv, SpentInv
    <2>3. \A q, s \in TokenRequests :
             /\ Submitted(q)' /\ tokenRequest'[q].token = w
             /\ Submitted(s)' /\ tokenRequest'[s].token = w
             => q = s
        BY <1>8, <2>1 DEF TokensInv, SpentInv
    <2>4. uses[w] = 1 => \A q \in TokenRequests :
             Submitted(q)' /\ tokenRequest'[q].token = w => Stage(q)' = "remove"
        BY <1>8, <2>1 DEF TokensInv, SpentInv
    <2>5. ASSUME uses[w] = 1
          PROVE  \/ \A v \in DOMAIN pswToken' : pswToken'[v] # w
                 \/ \E q \in TokenRequests :
                       Stage(q)' = "remove" /\ tokenRequest'[q].token = w
        <3>1. CASE \A v \in DOMAIN pswToken : pswToken[v] # w
            BY <3>1
        <3>2. ASSUME NEW q \in TokenRequests, Stage(q) = "remove", tokenRequest[q].token = w
              PROVE  \/ \A v \in DOMAIN pswToken' : pswToken'[v] # w
                     \/ \E s \in TokenRequests :
                           Stage(s)' = "remove" /\ tokenRequest'[s].token = w
            <4>1. CASE q # r
                BY <1>2, <1>4, <3>2, <4>1
            <4>2. CASE q = r
                <5>1. w = t /\ u \notin DOMAIN pswToken'
                    BY <2>1, <3>2, <4>2
                <5>2. OwnedBy(t, u)
                    BY DEF OwnedBy
                <5>3. ASSUME NEW v \in DOMAIN pswToken', pswToken'[v] = w
                      PROVE  FALSE
                    <6>1. v \in TokenUser /\ OwnedBy(t, v)
                        BY <5>1, <5>3 DEF OwnedBy, TokensOK
                    <6> QED
                        BY <1>1, <5>1, <5>2, <5>3, <6>1 DEF TokensInv, OwnersInv
                <5> QED
                    BY <5>3
            <4> QED
                BY <4>1, <4>2
        <3> QED
            BY <2>1, <2>5, <3>1, <3>2 DEF TokensInv, SpentInv
    <2> QED
        BY <2>2, <2>3, <2>4, <2>5
<1> QED
    BY <1>6, <1>7, <1>9 DEF TokensInv

LEMMA RemoveTokenStep ==
    ASSUME TokensOK, TokensInv, NEW r \in TokenRequests, RemoveToken(r)
    PROVE  TokensOK' /\ TokensInv'
<1>1. PICK u, t : u = tokenRequest[r].user /\ t = tokenRequest[r].token
    OBVIOUS
<1>2. Submitted(r) /\ Stage(r) = "remove" /\ u \in TokenUser /\ t \in TokenRequests
    BY <1>1, TokenFields DEF RemoveToken, Submitted
<1>3. /\ DOMAIN pswToken' = DOMAIN pswToken \ {u}
      /\ \A v \in DOMAIN pswToken' : pswToken'[v] = pswToken[v]
    BY <1>1 DEF RemoveToken, Restrict
<1>4. Finished \in TokenProgress
    BY DEF TokenProgress
<1>5. TokensOK'
    BY <1>3, <1>4, TokenMove DEF RemoveToken, TokensOK
<1> QED
    BY <1>1, <1>2, <1>3, <1>5, SubmissionEnds DEF RemoveToken

LEMMA TokenDieStep ==
    ASSUME TokensOK, TokensInv, NEW r \in TokenRequests, TokenDie(r)
    PROVE  TokensOK' /\ TokensInv'
<1>1. Finished \in TokenProgress /\ Finished.at = "done"
    BY DEF TokenProgress, Finished
<1>2. tokenDeaths' \in 0 .. MaxTokenDeaths
    BY TokensAssumption DEF TokenDie, TokensOK
<1>3. CASE ~Submitted(r)
    BY <1>1, <1>2, <1>3, TokensQuiet DEF TokenDie, Submitted
<1>4. CASE Submitted(r)
    <2>1. PICK u, t : u = tokenRequest[r].user /\ t = tokenRequest[r].token
        OBVIOUS
    <2>2. u \in TokenUser /\ t \in TokenRequests
        BY <1>4, <2>1, TokenFields
    <2>3. entwined' = IF Stage(r) = "remove" THEN entwined \cup {t} ELSE entwined
        BY <2>1 DEF TokenDie
    <2>4. TokensOK'
        BY <1>1, <1>2, <2>2, <2>3, TokenMove DEF TokenDie, TokensOK
    <2> QED
        BY <1>4, <2>1, <2>3, <2>4, SubmissionEnds DEF TokenDie
<1> QED
    BY <1>3, <1>4

LEMMA TokensNext ==
    ASSUME TokensOK, TokensInv, NEW r \in TokenRequests, TokenStep(r)
    PROVE  TokensOK' /\ TokensInv'
    BY AskForMailStep, FindRowStep, SaveTokenStep, MailTokenStep, SubmitPasswordStep,
       SetPasswordStep, RemoveTokenStep, TokenDieStep DEF TokenStep

LEMMA TokensStutter ==
    ASSUME TokensOK, TokensInv, UNCHANGED tokenVars
    PROVE  TokensOK' /\ TokensInv'
<1>1. TokensOK'
    BY DEF tokenVars, TokensOK
<1>2. \A t, u : OwnedBy(t, u)' <=> OwnedBy(t, u)
    BY DEF tokenVars, OwnedBy, Submitted, Stage
<1>3. OwnersInv'
    BY <1>2 DEF tokenVars, TokensInv, OwnersInv, Stage
<1>4. RowsInv' /\ SpentInv'
    BY DEF tokenVars, TokensInv, RowsInv, SpentInv, Submitted, Stage
<1> QED
    BY <1>1, <1>3, <1>4 DEF TokensInv

\* What the invariant says of a token: it sets one password, and the newest works.
LEMMA TokensPromise ==
    ASSUME TokensOK, TokensInv
    PROVE  TokenSetsOnce /\ NewestTokenWorks
<1>1. \A t \in TokenRequests : uses[t] \in Nat
    BY DEF TokensOK
<1>2. TokenSetsOnce
    BY <1>1 DEF TokensInv, SpentInv, TokenSetsOnce
<1>3. NewestTokenWorks
    BY DEF TokensInv, RowsInv, NewestTokenWorks
<1> QED
    BY <1>2, <1>3

(***************************************************************************)
(* Themes: what a step does to the requests and the rows                   *)
(***************************************************************************)

LEMMA ThemeFields ==
    ASSUME ThemesOK, NEW r \in ThemeRequests
    PROVE  /\ themeRequest[r] \in ThemeProgress
           /\ themeRequest[r].id \in Nat /\ themeRequest[r].folder \in Nat
           /\ themeRequest[r].active \in BOOLEAN
    BY DEF ThemesOK, ThemeProgress

LEMMA ThemeMove ==
    ASSUME ThemesOK, NEW r \in ThemeRequests, NEW p, p \in ThemeProgress, Moves(r, p)
    PROVE  /\ themeRequest'[r] = p
           /\ \A s \in ThemeRequests : s # r => themeRequest'[s] = themeRequest[s]
           /\ themeRequest' \in [ThemeRequests -> ThemeProgress]
           /\ shared \subseteq shared' /\ shared' \in SUBSET Nat
           /\ p.at \in OnFolder /\ p.folder \notin shared' =>
                 \A s \in ThemeRequests : s # r => ~AtWorkOn(s, p.folder)
<1>1. themeRequest \in [ThemeRequests -> ThemeProgress] /\ shared \in SUBSET Nat
    BY DEF ThemesOK
<1>2. themeRequest' = [themeRequest EXCEPT ![r] = p]
    BY DEF Moves
<1>3. p.folder \in Nat
    BY DEF ThemeProgress
<1>4. shared' = IF /\ p.at \in OnFolder
                   /\ \E s \in ThemeRequests \ {r} : AtWorkOn(s, p.folder)
                THEN shared \cup {p.folder}
                ELSE shared
    BY DEF Moves
<1> QED
    BY <1>1, <1>2, <1>3, <1>4

\* A request that goes to another stage and changes nothing else.
LEMMA ThemeGoes ==
    ASSUME ThemesOK, NEW r \in ThemeRequests, NEW stage, GoesTo(r, stage),
           stage \in {"unsent", "probe", "mkdir", "files", "cleanup", "clear", "create",
                      "remove", "check", "delete", "find", "activate", "done"}
    PROVE  \E p \in ThemeProgress :
              /\ Moves(r, p) /\ p.at = stage /\ p.id = themeRequest[r].id
              /\ p.folder = themeRequest[r].folder /\ p.active = themeRequest[r].active
<1>1. PICK p : p = [themeRequest[r] EXCEPT !.at = stage]
    OBVIOUS
<1>2. themeRequest[r] \in ThemeProgress
    BY ThemeFields
<1>3. /\ p \in ThemeProgress /\ p.at = stage /\ p.id = themeRequest[r].id
      /\ p.folder = themeRequest[r].folder /\ p.active = themeRequest[r].active
    BY <1>1, <1>2 DEF ThemeProgress
<1> QED
    BY <1>1, <1>3 DEF GoesTo

\* Every step is a move of its request.
LEMMA ThemeMoves ==
    ASSUME ThemesOK, NEW r \in ThemeRequests, ThemeStep(r)
    PROVE  \E p \in ThemeProgress : Moves(r, p)
<1>1. \A i \in DOMAIN theme :
         theme[i].folder \in Nat /\ theme[i].active \in BOOLEAN /\ i \in Nat
    BY DEF ThemesOK, Theme
<1>2. ASSUME AddTheme(r)
      PROVE  \E p \in ThemeProgress : Moves(r, p)
    <2>1. PICK active \in BOOLEAN : Moves(r, [Unsent EXCEPT !.at = "probe", !.active = active])
        BY <1>2 DEF AddTheme
    <2>2. [Unsent EXCEPT !.at = "probe", !.active = active] \in ThemeProgress
        BY DEF Unsent, ThemeProgress
    <2> QED
        BY <2>1, <2>2
<1>3. ASSUME ProbeFolder(r)
      PROVE  \E p \in ThemeProgress : Moves(r, p)
    <2>1. themeRequest[r] \in ThemeProgress /\ themeRequest[r].folder + 1 \in Nat
        BY ThemeFields
    <2>2. [themeRequest[r] EXCEPT !.folder = @ + 1] \in ThemeProgress
        BY <2>1 DEF ThemeProgress
    <2>3. CASE Moves(r, [themeRequest[r] EXCEPT !.folder = @ + 1])
        BY <2>2, <2>3
    <2>4. CASE GoesTo(r, "mkdir")
        BY <2>4, ThemeGoes
    <2> QED
        BY <1>3, <2>3, <2>4 DEF ProbeFolder
<1>4. ASSUME DeleteTheme(r)
      PROVE  \E p \in ThemeProgress : Moves(r, p)
    <2>1. PICK i \in DOMAIN theme :
             Moves(r, [Unsent EXCEPT !.at = "remove", !.id = i, !.folder = theme[i].folder])
        BY <1>4 DEF DeleteTheme
    <2>2. [Unsent EXCEPT !.at = "remove", !.id = i, !.folder = theme[i].folder]
             \in ThemeProgress
        BY <1>1 DEF Unsent, ThemeProgress
    <2> QED
        BY <2>1, <2>2
<1>5. ASSUME ActivateTheme(r)
      PROVE  \E p \in ThemeProgress : Moves(r, p)
    <2>1. PICK i \in 1 .. nextTheme - 1 :
             Moves(r, [Unsent EXCEPT !.at = "find", !.id = i])
        BY <1>5 DEF ActivateTheme
    <2>2. i \in Nat
        BY <2>1 DEF ThemesOK
    <2>3. [Unsent EXCEPT !.at = "find", !.id = i] \in ThemeProgress
        BY <2>2 DEF Unsent, ThemeProgress
    <2> QED
        BY <2>1, <2>3
<1>6. ASSUME FindTheme(r)
      PROVE  \E p \in ThemeProgress : Moves(r, p)
    <2>1. PICK i : i = themeRequest[r].id
        OBVIOUS
    <2>2. CASE i \in DOMAIN theme /\
               Moves(r, [themeRequest[r] EXCEPT !.at = "activate", !.active = theme[i].active])
        <3>1. themeRequest[r] \in ThemeProgress /\ theme[i].active \in BOOLEAN
            BY <1>1, <2>2, ThemeFields
        <3>2. [themeRequest[r] EXCEPT !.at = "activate", !.active = theme[i].active]
                 \in ThemeProgress
            BY <3>1 DEF ThemeProgress
        <3> QED
            BY <2>2, <3>2
    <2>3. CASE GoesTo(r, "done")
        BY <2>3, ThemeGoes
    <2> QED
        BY <1>6, <2>1, <2>2, <2>3 DEF FindTheme
<1>7. ASSUME \E stage \in {"mkdir", "files", "cleanup", "clear", "create", "check",
                           "delete", "done"} : GoesTo(r, stage)
      PROVE  \E p \in ThemeProgress : Moves(r, p)
    BY <1>7, ThemeGoes
<1>8. CASE MakeFolder(r) \/ SaveFiles(r) \/ CleanUp(r) \/ ClearForNew(r) \/ CreateTheme(r)
    BY <1>7, <1>8 DEF MakeFolder, SaveFiles, CleanUp, ClearForNew, CreateTheme
<1>9. CASE RemoveFolder(r) \/ CheckFolder(r) \/ DeleteRow(r) \/ UpdateTheme(r) \/ ThemeDie(r)
    BY <1>7, <1>9 DEF RemoveFolder, CheckFolder, DeleteRow, UpdateTheme, ThemeDie
<1> QED
    BY <1>2, <1>3, <1>4, <1>5, <1>6, <1>8, <1>9 DEF ThemeStep

LEMMA ThemeWent ==
    ASSUME ThemesOK, NEW r \in ThemeRequests, NEW stage, GoesTo(r, stage)
    PROVE  /\ themeRequest'[r].at = stage
           /\ themeRequest'[r].id = themeRequest[r].id
           /\ themeRequest'[r].folder = themeRequest[r].folder
           /\ themeRequest'[r].active = themeRequest[r].active
<1>1. themeRequest' = [themeRequest EXCEPT ![r] = [themeRequest[r] EXCEPT !.at = stage]]
    BY DEF GoesTo, Moves
<1>2. themeRequest[r] \in ThemeProgress /\ themeRequest \in [ThemeRequests -> ThemeProgress]
    BY DEF ThemesOK
<1>3. themeRequest'[r] = [themeRequest[r] EXCEPT !.at = stage]
    BY <1>1, <1>2
<1> QED
    BY <1>2, <1>3 DEF ThemeProgress

\* What a step does to the rows: it switches them all off, adds one, deletes one,
\* switches one on, or leaves them.
LEMMA ThemeRows ==
    ASSUME ThemesOK, NEW r \in ThemeRequests
    PROVE  /\ SwitchAllOff(r) =>
                 /\ DOMAIN theme' = DOMAIN theme /\ ActiveThemes' = {}
                 /\ \A i \in DOMAIN theme : theme'[i] \in Theme
                 /\ \A i \in DOMAIN theme : theme'[i].folder = theme[i].folder
           /\ CreateTheme(r) /\ theme' # theme =>
                 /\ DOMAIN theme' = DOMAIN theme \cup {nextTheme}
                 /\ nextTheme \notin DOMAIN theme /\ nextTheme' = nextTheme + 1
                 /\ theme'[nextTheme].folder = themeRequest[r].folder
                 /\ theme'[nextTheme].active = themeRequest[r].active
                 /\ theme'[nextTheme] \in Theme
                 /\ \A i \in DOMAIN theme : theme'[i] = theme[i]
           /\ DeleteRow(r) /\ theme' # theme =>
                 /\ DOMAIN theme' = DOMAIN theme \ {themeRequest[r].id}
                 /\ \A i \in DOMAIN theme' : theme'[i] = theme[i]
           /\ UpdateTheme(r) /\ theme' # theme =>
                 /\ themeRequest[r].id \in DOMAIN theme
                 /\ DOMAIN theme' = DOMAIN theme
                 /\ theme'[themeRequest[r].id].active
                 /\ \A i \in DOMAIN theme :
                       /\ theme'[i] \in Theme
                       /\ theme'[i].folder = theme[i].folder
                       /\ i # themeRequest[r].id => theme'[i] = theme[i]
<1>1. /\ DOMAIN theme \subseteq 1 .. nextTheme - 1 /\ nextTheme \in Nat
      /\ \A i \in DOMAIN theme : theme[i] \in [folder : Nat, active : BOOLEAN]
    BY DEF ThemesOK, Theme
<1>2. themeRequest[r].folder \in Nat /\ themeRequest[r].active \in BOOLEAN
    BY ThemeFields
<1>3. ASSUME SwitchAllOff(r)
      PROVE  /\ DOMAIN theme' = DOMAIN theme /\ ActiveThemes' = {}
             /\ \A i \in DOMAIN theme : theme'[i] \in Theme
             /\ \A i \in DOMAIN theme : theme'[i].folder = theme[i].folder
    <2>1. /\ DOMAIN theme' = DOMAIN theme
          /\ \A i \in DOMAIN theme : theme'[i] = [theme[i] EXCEPT !.active = FALSE]
        BY <1>3 DEF SwitchAllOff, AllOff
    <2>2. \A i \in DOMAIN theme :
             /\ theme'[i] \in Theme /\ theme'[i].folder = theme[i].folder
             /\ theme'[i].active = FALSE
        BY <1>1, <2>1 DEF Theme
    <2> QED
        BY <2>1, <2>2 DEF ActiveThemes
<1>4. ASSUME CreateTheme(r), theme' # theme
      PROVE  /\ DOMAIN theme' = DOMAIN theme \cup {nextTheme}
             /\ nextTheme \notin DOMAIN theme /\ nextTheme' = nextTheme + 1
             /\ theme'[nextTheme].folder = themeRequest[r].folder
             /\ theme'[nextTheme].active = themeRequest[r].active
             /\ theme'[nextTheme] \in Theme
             /\ \A i \in DOMAIN theme : theme'[i] = theme[i]
    <2>1. PICK q : q = themeRequest[r]
        OBVIOUS
    <2>2. /\ theme' = [i \in DOMAIN theme \cup {nextTheme} |->
                          IF i = nextTheme THEN [folder |-> q.folder, active |-> q.active]
                          ELSE theme[i]]
          /\ nextTheme' = nextTheme + 1
        BY <1>4, <2>1 DEF CreateTheme
    <2>3. nextTheme \notin DOMAIN theme
        BY <1>1
    <2>4. /\ DOMAIN theme' = DOMAIN theme \cup {nextTheme}
          /\ theme'[nextTheme] = [folder |-> q.folder, active |-> q.active]
          /\ \A i \in DOMAIN theme : theme'[i] = theme[i]
        BY <2>2, <2>3
    <2> QED
        BY <1>2, <2>1, <2>2, <2>3, <2>4 DEF Theme
<1>5. ASSUME DeleteRow(r), theme' # theme
      PROVE  /\ DOMAIN theme' = DOMAIN theme \ {themeRequest[r].id}
             /\ \A i \in DOMAIN theme' : theme'[i] = theme[i]
    BY <1>5 DEF DeleteRow, Restrict
<1>6. ASSUME UpdateTheme(r), theme' # theme
      PROVE  /\ themeRequest[r].id \in DOMAIN theme
             /\ DOMAIN theme' = DOMAIN theme
             /\ theme'[themeRequest[r].id].active
             /\ \A i \in DOMAIN theme :
                   /\ theme'[i] \in Theme
                   /\ theme'[i].folder = theme[i].folder
                   /\ i # themeRequest[r].id => theme'[i] = theme[i]
    <2>1. PICK q : q = themeRequest[r]
        OBVIOUS
    <2>2. q.id \in DOMAIN theme /\ theme' = [theme EXCEPT ![q.id].active = TRUE]
        BY <1>6, <2>1 DEF UpdateTheme
    <2>3. /\ DOMAIN theme' = DOMAIN theme
          /\ theme'[q.id] = [theme[q.id] EXCEPT !.active = TRUE]
          /\ \A i \in DOMAIN theme : i # q.id => theme'[i] = theme[i]
        BY <2>2
    <2>4. /\ theme'[q.id] \in Theme /\ theme'[q.id].folder = theme[q.id].folder
          /\ theme'[q.id].active = TRUE
        BY <1>1, <2>2, <2>3 DEF Theme
    <2> QED
        BY <1>1, <2>1, <2>2, <2>3, <2>4 DEF Theme
<1> QED
    BY <1>3, <1>4, <1>5, <1>6

LEMMA ThemesStayOK ==
    ASSUME ThemesOK, NEW r \in ThemeRequests, ThemeStep(r)
    PROVE  ThemesOK'
<1>1. themeRequest' \in [ThemeRequests -> ThemeProgress] /\ shared' \in SUBSET Nat
    BY ThemeMoves, ThemeMove
<1>2. /\ themeRequest[r].folder \in Nat /\ themeRequest[r].active \in BOOLEAN
      /\ folder \in SUBSET Nat /\ broken \in SUBSET Nat /\ nextTheme \in Nat \ {0}
      /\ lapsed \in BOOLEAN /\ crossed \in BOOLEAN
      /\ DOMAIN theme \in SUBSET (1 .. nextTheme - 1)
      /\ \A i \in DOMAIN theme : theme[i] \in Theme
      /\ themeDeaths \in 0 .. MaxThemeDeaths
    BY ThemeFields DEF ThemesOK
<1>3. folder' \in SUBSET Nat
    BY <1>2 DEF ThemeStep, AddTheme, ProbeFolder, MakeFolder, SaveFiles, CleanUp,
                ClearForNew, CreateTheme, DeleteTheme, RemoveFolder, CheckFolder, DeleteRow,
                ActivateTheme, FindTheme, UpdateTheme, ThemeDie
<1>4. broken' \in SUBSET Nat
    BY <1>2 DEF ThemeStep, AddTheme, ProbeFolder, MakeFolder, SaveFiles, CleanUp,
                ClearForNew, CreateTheme, DeleteTheme, RemoveFolder, CheckFolder, DeleteRow,
                ActivateTheme, FindTheme, UpdateTheme, ThemeDie
<1>5. lapsed' \in BOOLEAN
    BY <1>2 DEF ThemeStep, AddTheme, ProbeFolder, MakeFolder, SaveFiles, CleanUp,
                ClearForNew, CreateTheme, DeleteTheme, RemoveFolder, CheckFolder, DeleteRow,
                ActivateTheme, FindTheme, UpdateTheme, ThemeDie
<1>6. crossed' \in BOOLEAN
    BY <1>2 DEF ThemeStep, AddTheme, ProbeFolder, MakeFolder, SaveFiles, CleanUp,
                ClearForNew, CreateTheme, DeleteTheme, RemoveFolder, CheckFolder, DeleteRow,
                ActivateTheme, FindTheme, UpdateTheme, ThemeDie, SwitchAllOff
<1>7. themeDeaths' \in 0 .. MaxThemeDeaths
    <2>1. CASE ThemeDie(r)
        BY <1>2, <2>1, ThemesAssumption DEF ThemeDie
    <2>2. CASE themeDeaths' = themeDeaths
        BY <1>2, <2>2
    <2> QED
        BY <2>1, <2>2
           DEF ThemeStep, AddTheme, ProbeFolder, MakeFolder, SaveFiles, CleanUp,
           ClearForNew, CreateTheme, DeleteTheme, RemoveFolder, CheckFolder, DeleteRow,
           ActivateTheme, FindTheme, UpdateTheme
<1>8. /\ nextTheme' \in Nat \ {0}
      /\ DOMAIN theme' \in SUBSET (1 .. nextTheme' - 1)
      /\ \A i \in DOMAIN theme' : theme'[i] \in Theme
    <2>1. CASE UNCHANGED <<theme, nextTheme>>
        BY <1>2, <2>1
    <2>2. CASE SwitchAllOff(r) /\ UNCHANGED nextTheme
        BY <1>2, <2>2, ThemeRows
    <2>3. CASE CreateTheme(r) /\ theme' # theme
        <3>1. /\ DOMAIN theme' = DOMAIN theme \cup {nextTheme}
              /\ nextTheme' = nextTheme + 1
              /\ \A i \in DOMAIN theme' : theme'[i] \in Theme
            BY <1>2, <2>3, ThemeRows
        <3> QED
            BY <1>2, <3>1
    <2>4. CASE DeleteRow(r) /\ theme' # theme
        BY <1>2, <2>4, ThemeRows DEF DeleteRow
    <2>5. CASE UpdateTheme(r) /\ theme' # theme
        BY <1>2, <2>5, ThemeRows DEF UpdateTheme
    <2>6. CASE CreateTheme(r) /\ theme' = theme
        <3>1. CASE nextTheme' = nextTheme
            BY <1>2, <2>6, <3>1
        <3>2. CASE nextTheme' = nextTheme + 1
            BY <1>2, <2>6, <3>2
        <3> QED
            BY <2>6, <3>1, <3>2 DEF CreateTheme
    <2> QED
        BY <2>1, <2>2, <2>3, <2>4, <2>5, <2>6
           DEF ThemeStep, AddTheme, ProbeFolder, MakeFolder, SaveFiles, CleanUp,
               ClearForNew, DeleteTheme, RemoveFolder, CheckFolder, DeleteRow,
               ActivateTheme, FindTheme, UpdateTheme, ThemeDie
<1> QED
    BY <1>1, <1>3, <1>4, <1>5, <1>6, <1>7, <1>8 DEF ThemesOK

\* The other requests stay where they are.
LEMMA OthersStay ==
    ASSUME ThemesOK, NEW r \in ThemeRequests, ThemeStep(r),
           NEW s \in ThemeRequests, s # r
    PROVE  /\ themeRequest'[s] = themeRequest[s]
           /\ Switching(s)' <=> Switching(s)
           /\ Promises(s)' <=> Promises(s)
           /\ \A f : AtWorkOn(s, f)' <=> AtWorkOn(s, f)
<1>1. themeRequest'[s] = themeRequest[s]
    BY ThemeMoves, ThemeMove
<1> QED
    BY <1>1 DEF Switching, Promises, AtWorkOn, At

(***************************************************************************)
(* Themes: one is active, and some                                         *)
(***************************************************************************)

\* A step that switches no theme on and begins no switch.
LEMMA SwitchesQuiet ==
    ASSUME ThemesOK, SwitchesInv, NEW r \in ThemeRequests, ThemeStep(r),
           ActiveThemes' \subseteq ActiveThemes, Switching(r)' => Switching(r),
           UNCHANGED crossed
    PROVE  SwitchesInv'
    BY OthersStay DEF SwitchesInv

\* A switch begins: every theme goes off, and it is noted if another is under way.
LEMMA SwitchBegins ==
    ASSUME ThemesOK, NEW r \in ThemeRequests, ThemeStep(r), SwitchAllOff(r)
    PROVE  SwitchesInv'
<1>1. ActiveThemes' = {}
    BY ThemeRows
<1>2. crossed' = \E s \in ThemeRequests \ {r} : Switching(s)
    BY DEF SwitchAllOff
<1>3. ~crossed' => \A s \in ThemeRequests : Switching(s)' => s = r
    BY <1>2, OthersStay
<1> QED
    BY <1>1, <1>3 DEF SwitchesInv

\* A switch ends with its theme on.
LEMMA SwitchEnds ==
    ASSUME ThemesOK, SwitchesInv, NEW r \in ThemeRequests, ThemeStep(r),
           Switching(r), ~Switching(r)', UNCHANGED crossed,
           NEW i, ActiveThemes' \subseteq ActiveThemes \cup {i}
    PROVE  SwitchesInv'
<1>1. ~crossed => \A s \in ThemeRequests : ~Switching(s)'
    BY OthersStay DEF SwitchesInv
<1>2. ~crossed => ActiveThemes = {}
    BY DEF SwitchesInv
<1> QED
    BY <1>1, <1>2 DEF SwitchesInv

LEMMA SwitchesNext ==
    ASSUME ThemesOK, SwitchesInv, NEW r \in ThemeRequests, ThemeStep(r)
    PROVE  SwitchesInv'
<1>1. CASE \/ AddTheme(r) \/ ProbeFolder(r) \/ MakeFolder(r) \/ SaveFiles(r) \/ CleanUp(r)
           \/ DeleteTheme(r) \/ RemoveFolder(r) \/ CheckFolder(r) \/ FindTheme(r) \/ ThemeDie(r)
    <2>1. ActiveThemes' = ActiveThemes /\ UNCHANGED crossed
        BY <1>1 DEF ActiveThemes, AddTheme, ProbeFolder, MakeFolder, SaveFiles, CleanUp,
                    DeleteTheme, RemoveFolder, CheckFolder, FindTheme, ThemeDie
    <2>2. CASE FindTheme(r)
        BY <1>1, <2>1, <2>2, SwitchesQuiet DEF FindTheme, Switching
    <2>3. ASSUME NEW stage, GoesTo(r, stage), stage \notin {"create", "find", "activate"}
          PROVE  ~Switching(r)'
        BY <2>3, ThemeWent DEF Switching, At
    <2>4. CASE AddTheme(r)
        <3>1. PICK active \in BOOLEAN :
                 Moves(r, [Unsent EXCEPT !.at = "probe", !.active = active])
            BY <2>4 DEF AddTheme
        <3>2. themeRequest'[r].at = "probe"
            BY <3>1 DEF Moves, Unsent, ThemesOK
        <3> QED
            BY <1>1, <2>1, <3>2, SwitchesQuiet DEF Switching, At
    <2>5. CASE DeleteTheme(r)
        <3>1. PICK i \in DOMAIN theme :
                 Moves(r, [Unsent EXCEPT !.at = "remove", !.id = i, !.folder = theme[i].folder])
            BY <2>5 DEF DeleteTheme
        <3>2. themeRequest'[r].at = "remove"
            BY <3>1 DEF Moves, Unsent, ThemesOK
        <3> QED
            BY <1>1, <2>1, <3>2, SwitchesQuiet DEF Switching, At
    <2>6. CASE ProbeFolder(r)
        <3>1. At(r, "probe") /\ themeRequest[r] \in ThemeProgress
            BY <2>6, ThemeFields DEF ProbeFolder
        <3>2. CASE Moves(r, [themeRequest[r] EXCEPT !.folder = @ + 1])
            <4>1. themeRequest'[r].at = "probe"
                BY <3>1, <3>2 DEF Moves, ThemesOK, ThemeProgress, At
            <4> QED
                BY <1>1, <2>1, <4>1, SwitchesQuiet DEF Switching, At
        <3>3. CASE GoesTo(r, "mkdir")
            BY <1>1, <2>1, <2>3, <3>3, SwitchesQuiet
        <3> QED
            BY <2>6, <3>2, <3>3 DEF ProbeFolder
    <2>7. CASE SaveFiles(r)
        <3>1. CASE GoesTo(r, IF themeRequest[r].active THEN "clear" ELSE "create")
            <4>1. ~Switching(r)'
                BY <3>1, ThemeWent DEF Switching, At
            <4> QED
                BY <1>1, <2>1, <4>1, SwitchesQuiet
        <3>2. CASE GoesTo(r, "cleanup")
            BY <1>1, <2>1, <2>3, <3>2, SwitchesQuiet
        <3> QED
            BY <2>7, <3>1, <3>2 DEF SaveFiles
    <2>8. CASE MakeFolder(r) \/ CleanUp(r) \/ RemoveFolder(r) \/ CheckFolder(r) \/ ThemeDie(r)
        <3>1. \E stage \in {"files", "cleanup", "done", "check", "delete"} : GoesTo(r, stage)
            BY <2>8 DEF MakeFolder, CleanUp, RemoveFolder, CheckFolder, ThemeDie
        <3> QED
            BY <1>1, <2>1, <2>3, <3>1, SwitchesQuiet
    <2> QED
        BY <1>1, <2>2, <2>4, <2>5, <2>6, <2>7, <2>8
<1>2. CASE ClearForNew(r) \/ ActivateTheme(r)
    BY <1>2, SwitchBegins DEF ClearForNew, ActivateTheme
<1>3. CASE CreateTheme(r)
    <2>1. ~Switching(r)' /\ UNCHANGED crossed
        BY <1>3, ThemeWent DEF CreateTheme, Switching, At
    <2>2. CASE theme' = theme
        BY <2>1, <2>2, SwitchesQuiet DEF ActiveThemes
    <2>3. CASE theme' # theme /\ themeRequest[r].active
        <3>1. ActiveThemes' \subseteq ActiveThemes \cup {nextTheme}
            BY <1>3, <2>3, ThemeRows DEF ActiveThemes
        <3> QED
            BY <1>3, <2>1, <2>3, <3>1, SwitchEnds DEF CreateTheme, Switching
    <2>4. CASE theme' # theme /\ ~themeRequest[r].active
        <3>1. ActiveThemes' \subseteq ActiveThemes
            BY <1>3, <2>4, ThemeRows DEF ActiveThemes
        <3> QED
            BY <2>1, <3>1, SwitchesQuiet
    <2> QED
        BY <2>2, <2>3, <2>4
<1>4. CASE DeleteRow(r)
    <2>1. ~Switching(r)' /\ UNCHANGED crossed
        BY <1>4, ThemeWent DEF DeleteRow, Switching, At
    <2>2. ActiveThemes' \subseteq ActiveThemes
        BY <1>4, ThemeRows DEF ActiveThemes
    <2> QED
        BY <2>1, <2>2, SwitchesQuiet
<1>5. CASE UpdateTheme(r)
    <2>1. ~Switching(r)' /\ UNCHANGED crossed /\ Switching(r)
        BY <1>5, ThemeWent DEF UpdateTheme, Switching, At
    <2>2. ActiveThemes' \subseteq ActiveThemes \cup {themeRequest[r].id}
        BY <1>5, ThemeRows DEF ActiveThemes
    <2> QED
        BY <2>1, <2>2, SwitchEnds
<1> QED
    BY <1>1, <1>2, <1>3, <1>4, <1>5 DEF ThemeStep

\* The stage and the fields a request has after each of the steps that choose
\* what to work on.
LEMMA ThemeChoices ==
    ASSUME ThemesOK, NEW r \in ThemeRequests
    PROVE  /\ AddTheme(r) => themeRequest'[r].at = "probe"
           /\ ProbeFolder(r) =>
                 \/ themeRequest'[r].at = "probe"
                 \/ /\ themeRequest'[r].at = "mkdir"
                    /\ themeRequest'[r].folder = themeRequest[r].folder
                    /\ themeRequest[r].folder \notin folder
           /\ DeleteTheme(r) =>
                 /\ themeRequest'[r].at = "remove"
                 /\ themeRequest'[r].id \in DOMAIN theme
                 /\ themeRequest'[r].folder = theme[themeRequest'[r].id].folder
           /\ ActivateTheme(r) =>
                 themeRequest'[r].at = "find" /\ themeRequest'[r].id \in 1 .. nextTheme - 1
           /\ FindTheme(r) =>
                 \/ /\ themeRequest'[r].at = "activate"
                    /\ themeRequest[r].id \in DOMAIN theme
                    /\ themeRequest'[r].active = theme[themeRequest[r].id].active
                 \/ themeRequest'[r].at = "done" /\ lapsed'
<1>1. /\ themeRequest \in [ThemeRequests -> ThemeProgress]
      /\ themeRequest[r] \in ThemeProgress
    BY DEF ThemesOK
<1>2. ASSUME NEW p, Moves(r, p)
      PROVE  themeRequest'[r] = p
    BY <1>1, <1>2 DEF Moves
<1>3. ASSUME AddTheme(r)
      PROVE  themeRequest'[r].at = "probe"
    BY <1>2, <1>3 DEF AddTheme, Unsent
<1>4. ASSUME ProbeFolder(r)
      PROVE  \/ themeRequest'[r].at = "probe"
             \/ /\ themeRequest'[r].at = "mkdir"
                /\ themeRequest'[r].folder = themeRequest[r].folder
                /\ themeRequest[r].folder \notin folder
    <2>1. CASE Moves(r, [themeRequest[r] EXCEPT !.folder = @ + 1])
        BY <1>1, <1>2, <1>4, <2>1 DEF ThemeProgress, ProbeFolder, At
    <2>2. CASE GoesTo(r, "mkdir") /\ themeRequest[r].folder \notin folder
        BY <2>2, ThemeWent
    <2> QED
        BY <1>4, <2>1, <2>2 DEF ProbeFolder
<1>5. ASSUME DeleteTheme(r)
      PROVE  /\ themeRequest'[r].at = "remove"
             /\ themeRequest'[r].id \in DOMAIN theme
             /\ themeRequest'[r].folder = theme[themeRequest'[r].id].folder
    <2>1. PICK i \in DOMAIN theme :
             Moves(r, [Unsent EXCEPT !.at = "remove", !.id = i, !.folder = theme[i].folder])
        BY <1>5 DEF DeleteTheme
    <2>2. themeRequest'[r] =
             [Unsent EXCEPT !.at = "remove", !.id = i, !.folder = theme[i].folder]
        BY <1>2, <2>1
    <2> QED
        BY <2>1, <2>2 DEF Unsent
<1>6. ASSUME ActivateTheme(r)
      PROVE  themeRequest'[r].at = "find" /\ themeRequest'[r].id \in 1 .. nextTheme - 1
    <2>1. PICK i \in 1 .. nextTheme - 1 : Moves(r, [Unsent EXCEPT !.at = "find", !.id = i])
        BY <1>6 DEF ActivateTheme
    <2>2. themeRequest'[r] = [Unsent EXCEPT !.at = "find", !.id = i]
        BY <1>2, <2>1
    <2> QED
        BY <2>1, <2>2 DEF Unsent
<1>7. ASSUME FindTheme(r)
      PROVE  \/ /\ themeRequest'[r].at = "activate"
                /\ themeRequest[r].id \in DOMAIN theme
                /\ themeRequest'[r].active = theme[themeRequest[r].id].active
             \/ themeRequest'[r].at = "done" /\ lapsed'
    <2>1. PICK i : i = themeRequest[r].id
        OBVIOUS
    <2>2. CASE i \in DOMAIN theme /\
               Moves(r, [themeRequest[r] EXCEPT !.at = "activate", !.active = theme[i].active])
        <3>1. themeRequest'[r] =
                 [themeRequest[r] EXCEPT !.at = "activate", !.active = theme[i].active]
            BY <1>2, <2>2
        <3> QED
            BY <1>1, <2>1, <2>2, <3>1 DEF ThemeProgress
    <2>3. CASE GoesTo(r, "done") /\ lapsed' = TRUE
        BY <2>3, ThemeWent
    <2> QED
        BY <1>7, <2>1, <2>2, <2>3 DEF FindTheme
<1> QED
    BY <1>3, <1>4, <1>5, <1>6, <1>7

\* A theme is active, or the lack of one is accounted for, after a step that
\* takes no theme away and breaks no promise.
LEMMA LapsesQuiet ==
    ASSUME ThemesOK, LapsesInv, NEW r \in ThemeRequests, ThemeStep(r),
           At(r, "clear")' => themeRequest'[r].active,
           ActiveThemes # {} => ActiveThemes' # {} \/ lapsed' \/ Promises(r)',
           lapsed => ActiveThemes' # {} \/ lapsed' \/ Promises(r)',
           Promises(r) => ActiveThemes' # {} \/ lapsed' \/ Promises(r)'
    PROVE  LapsesInv'
<1>1. \A s \in ThemeRequests : At(s, "clear")' => themeRequest'[s].active
    BY OthersStay DEF LapsesInv, At
<1>2. \A s \in ThemeRequests : s # r => (Promises(s)' <=> Promises(s))
    BY OthersStay
<1>3. ActiveThemes' # {} \/ lapsed' \/ \E s \in ThemeRequests : Promises(s)'
    BY <1>2 DEF LapsesInv
<1> QED
    BY <1>1, <1>3 DEF LapsesInv

LEMMA LapsesNext ==
    ASSUME ThemesOK, LapsesInv, NEW r \in ThemeRequests, ThemeStep(r)
    PROVE  LapsesInv'
<1>1. CASE \/ AddTheme(r) \/ ProbeFolder(r) \/ MakeFolder(r) \/ SaveFiles(r) \/ CleanUp(r)
           \/ DeleteTheme(r) \/ RemoveFolder(r) \/ CheckFolder(r)
    <2>1. ActiveThemes' = ActiveThemes /\ lapsed' = lapsed /\ ~Promises(r)
        BY <1>1 DEF ActiveThemes, AddTheme, ProbeFolder, MakeFolder, SaveFiles, CleanUp,
                    DeleteTheme, RemoveFolder, CheckFolder, Promises, At
    <2>2. At(r, "clear")' => themeRequest'[r].active
        <3>1. CASE AddTheme(r) \/ ProbeFolder(r) \/ DeleteTheme(r)
            BY <3>1, ThemeChoices DEF At
        <3>2. CASE MakeFolder(r) \/ CleanUp(r) \/ RemoveFolder(r) \/ CheckFolder(r)
            <4>1. \E stage \in {"files", "cleanup", "done", "check", "delete"} :
                     GoesTo(r, stage)
                BY <3>2 DEF MakeFolder, CleanUp, RemoveFolder, CheckFolder
            <4> QED
                BY <4>1, ThemeWent DEF At
        <3>3. CASE SaveFiles(r)
            BY <3>3, ThemeWent DEF SaveFiles, At
        <3> QED
            BY <1>1, <3>1, <3>2, <3>3
    <2> QED
        BY <2>1, <2>2, LapsesQuiet
<1>2. CASE ClearForNew(r)
    <2>1. At(r, "create")' /\ themeRequest'[r].active
        BY <1>2, ThemeWent DEF ClearForNew, LapsesInv, At
    <2>2. Promises(r)'
        BY <2>1 DEF Promises, At
    <2> QED
        BY <2>1, <2>2, LapsesQuiet
<1>3. CASE ActivateTheme(r)
    <2>1. themeRequest'[r].at = "find"
        BY <1>3, ThemeChoices
    <2> QED
        BY <2>1, LapsesQuiet DEF Promises, At
<1>4. CASE CreateTheme(r)
    <2>1. At(r, "create") /\ At(r, "done")'
        BY <1>4, ThemeWent DEF CreateTheme, At
    <2>2. themeRequest[r].active \in BOOLEAN
        BY ThemeFields
    <2>3. CASE theme' = theme /\ (lapsed' = (lapsed \/ themeRequest[r].active))
        BY <2>1, <2>2, <2>3, LapsesQuiet DEF Promises, At, ActiveThemes
    <2>4. CASE theme' # theme /\ (lapsed' = (lapsed /\ ~themeRequest[r].active))
        <3>1. ActiveThemes \subseteq ActiveThemes'
            BY <1>4, <2>4, ThemeRows DEF ActiveThemes
        <3>2. themeRequest[r].active => nextTheme \in ActiveThemes'
            BY <1>4, <2>4, ThemeRows DEF ActiveThemes
        <3> QED
            BY <2>1, <2>4, <3>1, <3>2, LapsesQuiet DEF Promises, At
    <2>5. ~ (theme' = theme /\ nextTheme' = nextTheme + 1)
        <3>1. ASSUME theme' = [i \in DOMAIN theme \cup {nextTheme} |->
                        IF i = nextTheme
                        THEN [folder |-> themeRequest[r].folder,
                              active |-> themeRequest[r].active]
                        ELSE theme[i]]
              PROVE  theme' # theme
            <4>1. nextTheme \in DOMAIN theme'
                BY <3>1
            <4>2. nextTheme \notin DOMAIN theme
                BY DEF ThemesOK
            <4> QED
                BY <4>1, <4>2
        <3>2. nextTheme + 1 # nextTheme
            BY DEF ThemesOK
        <3> QED
            BY <1>4, <3>1, <3>2 DEF CreateTheme
    <2> QED
        BY <1>4, <2>3, <2>4, <2>5 DEF CreateTheme
<1>5. CASE DeleteRow(r)
    <2>1. At(r, "delete") /\ At(r, "done")'
        BY <1>5, ThemeWent DEF DeleteRow, At
    <2>2. lapsed => lapsed'
        BY <1>5 DEF DeleteRow
    <2>3. CASE theme' = theme
        BY <2>1, <2>2, <2>3, LapsesQuiet DEF Promises, At, ActiveThemes
    <2>4. CASE theme' # theme
        <3>1. lapsed' = (lapsed \/ themeRequest[r].id \in ActiveThemes)
            BY <1>5, <2>4 DEF DeleteRow
        <3>2. ActiveThemes \ {themeRequest[r].id} \subseteq ActiveThemes'
            BY <1>5, <2>4, ThemeRows DEF ActiveThemes
        <3> QED
            BY <2>1, <2>2, <3>1, <3>2, LapsesQuiet DEF Promises, At
    <2> QED
        BY <2>3, <2>4
<1>6. CASE FindTheme(r)
    <2>1. ActiveThemes' = ActiveThemes /\ (lapsed => lapsed')
        BY <1>6 DEF FindTheme, ActiveThemes
    <2>2. CASE themeRequest'[r].at = "done" /\ lapsed'
        BY <2>1, <2>2, LapsesQuiet DEF At
    <2>3. CASE /\ themeRequest'[r].at = "activate"
               /\ themeRequest[r].id \in DOMAIN theme
               /\ themeRequest'[r].active = theme[themeRequest[r].id].active
        <3>1. themeRequest[r].id \in ActiveThemes \/ Promises(r)'
            BY <2>3 DEF ActiveThemes, Promises, At
        <3> QED
            BY <2>1, <2>3, <3>1, LapsesQuiet DEF At
    <2> QED
        BY <1>6, <2>2, <2>3, ThemeChoices
<1>7. CASE UpdateTheme(r)
    <2>1. At(r, "activate") /\ At(r, "done")'
        BY <1>7, ThemeWent DEF UpdateTheme, At
    <2>2. themeRequest[r].active \in BOOLEAN
        BY ThemeFields
    <2>3. CASE UNCHANGED <<theme, lapsed>> /\ themeRequest[r].active
        BY <2>1, <2>3, LapsesQuiet DEF Promises, At, ActiveThemes
    <2>4. CASE lapsed' = TRUE
        BY <2>1, <2>4, LapsesQuiet DEF At
    <2>5. CASE /\ themeRequest[r].id \in DOMAIN theme
               /\ theme' = [theme EXCEPT ![themeRequest[r].id].active = TRUE]
        <3>1. themeRequest[r].id \in DOMAIN theme' /\ theme'[themeRequest[r].id].active
            BY <2>5 DEF ThemesOK, Theme
        <3> QED
            BY <2>1, <3>1, LapsesQuiet DEF ActiveThemes, At
    <2> QED
        BY <1>7, <2>3, <2>4, <2>5 DEF UpdateTheme
<1>8. CASE ThemeDie(r)
    <2>1. At(r, "done")' /\ theme' = theme /\ (lapsed' = (lapsed \/ Switching(r)))
        BY <1>8, ThemeWent DEF ThemeDie, At
    <2>2. Promises(r) => Switching(r)
        BY DEF Promises, Switching
    <2> QED
        BY <2>1, <2>2, LapsesQuiet DEF At, ActiveThemes
<1> QED
    BY <1>1, <1>2, <1>3, <1>4, <1>5, <1>6, <1>7, <1>8 DEF ThemeStep

(***************************************************************************)
(* Themes: each has a folder of its own                                    *)
(***************************************************************************)

\* A row keeps its folder, and an id that was given out is not given out again.
LEMMA RowsKeepFolders ==
    ASSUME ThemesOK, NEW r \in ThemeRequests, ThemeStep(r)
    PROVE  /\ nextTheme <= nextTheme'
           /\ \A i \in DOMAIN theme' :
                 \/ i \in DOMAIN theme /\ theme'[i].folder = theme[i].folder
                 \/ /\ CreateTheme(r) /\ i = nextTheme /\ i \notin DOMAIN theme
                    /\ theme'[i].folder = themeRequest[r].folder
           /\ \A i \in DOMAIN theme :
                 \/ i \in DOMAIN theme'
                 \/ DeleteRow(r) /\ i = themeRequest[r].id /\ theme' # theme
<1>1. nextTheme \in Nat
    BY DEF ThemesOK
<1>2. CASE UNCHANGED <<theme, nextTheme>>
    BY <1>1, <1>2
<1>3. CASE SwitchAllOff(r) /\ UNCHANGED nextTheme
    <2>1. /\ DOMAIN theme' = DOMAIN theme
          /\ \A i \in DOMAIN theme : theme'[i].folder = theme[i].folder
        BY <1>3, ThemeRows
    <2> QED
        BY <1>1, <1>3, <2>1
<1>4. CASE CreateTheme(r)
    <2>1. CASE theme' = theme
        BY <1>1, <1>4, <2>1 DEF CreateTheme
    <2>2. CASE theme' # theme
        <3>1. /\ DOMAIN theme' = DOMAIN theme \cup {nextTheme}
              /\ nextTheme \notin DOMAIN theme /\ nextTheme' = nextTheme + 1
              /\ theme'[nextTheme].folder = themeRequest[r].folder
              /\ \A i \in DOMAIN theme : theme'[i] = theme[i]
            BY <1>4, <2>2, ThemeRows
        <3> QED
            BY <1>1, <1>4, <3>1
    <2> QED
        BY <2>1, <2>2
<1>5. CASE DeleteRow(r)
    <2>1. CASE theme' = theme
        BY <1>1, <1>5, <2>1 DEF DeleteRow
    <2>2. CASE theme' # theme
        <3>1. /\ DOMAIN theme' = DOMAIN theme \ {themeRequest[r].id}
              /\ \A i \in DOMAIN theme' : theme'[i] = theme[i]
            BY <1>5, <2>2, ThemeRows
        <3> QED
            BY <1>1, <1>5, <2>2, <3>1 DEF DeleteRow
    <2> QED
        BY <2>1, <2>2
<1>6. CASE UpdateTheme(r)
    <2>1. CASE theme' = theme
        BY <1>1, <1>6, <2>1 DEF UpdateTheme
    <2>2. CASE theme' # theme
        <3>1. /\ DOMAIN theme' = DOMAIN theme
              /\ \A i \in DOMAIN theme : theme'[i].folder = theme[i].folder
            BY <1>6, <2>2, ThemeRows
        <3> QED
            BY <1>1, <1>6, <3>1 DEF UpdateTheme
    <2> QED
        BY <2>1, <2>2
<1> QED
    BY <1>2, <1>3, <1>4, <1>5, <1>6
       DEF ThemeStep, AddTheme, ProbeFolder, MakeFolder, SaveFiles, CleanUp, ClearForNew,
           DeleteTheme, RemoveFolder, CheckFolder, ActivateTheme, FindTheme, ThemeDie

LEMMA DeletionsNext ==
    ASSUME ThemesOK, DeletionsInv, NEW r \in ThemeRequests, ThemeStep(r)
    PROVE  DeletionsInv'
<1>1. /\ nextTheme \in Nat /\ nextTheme' \in Nat /\ nextTheme <= nextTheme'
      /\ \A i \in DOMAIN theme : i < nextTheme
      /\ \A s \in ThemeRequests : themeRequest[s].id \in Nat
    BY ThemesStayOK, RowsKeepFolders, ThemeFields DEF ThemesOK
<1>2. ASSUME NEW i \in Nat, i < nextTheme, i \in DOMAIN theme'
      PROVE  i \in DOMAIN theme /\ theme'[i].folder = theme[i].folder
    BY <1>1, <1>2, RowsKeepFolders
<1>3. ASSUME NEW s \in ThemeRequests, s # r,
             themeRequest'[s].at \in {"remove", "check", "delete"}
      PROVE  /\ themeRequest'[s].id < nextTheme'
             /\ themeRequest'[s].id \in DOMAIN theme' =>
                   theme'[themeRequest'[s].id].folder = themeRequest'[s].folder
    <2>1. themeRequest'[s] = themeRequest[s]
        BY <1>3, OthersStay
    <2>2. /\ themeRequest[s].id < nextTheme
          /\ themeRequest[s].id \in DOMAIN theme =>
                theme[themeRequest[s].id].folder = themeRequest[s].folder
        BY <1>3, <2>1 DEF DeletionsInv
    <2>3. themeRequest[s].id < nextTheme'
        BY <1>1, <2>2
    <2> QED
        BY <1>1, <1>2, <2>1, <2>2, <2>3
<1>4. ASSUME themeRequest'[r].at \in {"remove", "check", "delete"}
      PROVE  /\ themeRequest'[r].id < nextTheme'
             /\ themeRequest'[r].id \in DOMAIN theme' =>
                   theme'[themeRequest'[r].id].folder = themeRequest'[r].folder
    <2>1. CASE DeleteTheme(r)
        BY <1>1, <2>1, ThemeChoices DEF DeleteTheme
    <2>2. CASE RemoveFolder(r) \/ CheckFolder(r)
        <3>1. \E stage \in {"check", "done", "delete"} : GoesTo(r, stage)
            BY <2>2 DEF RemoveFolder, CheckFolder
        <3>2. /\ themeRequest[r].at \in {"remove", "check"}
              /\ theme' = theme /\ nextTheme' = nextTheme
              /\ themeRequest'[r].id = themeRequest[r].id
              /\ themeRequest'[r].folder = themeRequest[r].folder
            BY <2>2, <3>1, ThemeWent DEF RemoveFolder, CheckFolder, At
        <3> QED
            BY <3>2 DEF DeletionsInv
    <2>3. CASE AddTheme(r) \/ ProbeFolder(r) \/ ActivateTheme(r) \/ FindTheme(r)
        BY <1>4, <2>3, ThemeChoices
    <2>4. CASE MakeFolder(r) \/ SaveFiles(r) \/ CleanUp(r) \/ ClearForNew(r) \/ CreateTheme(r)
               \/ DeleteRow(r) \/ UpdateTheme(r) \/ ThemeDie(r)
        <3>1. \E stage \in {"files", "cleanup", "clear", "create", "done"} : GoesTo(r, stage)
            BY <2>4 DEF MakeFolder, SaveFiles, CleanUp, ClearForNew, CreateTheme, DeleteRow,
                        UpdateTheme, ThemeDie
        <3> QED
            BY <1>4, <3>1, ThemeWent
    <2> QED
        BY <2>1, <2>2, <2>3, <2>4 DEF ThemeStep
<1>5. \A s \in ThemeRequests :
         themeRequest'[s].at \in {"remove", "check", "delete"} =>
            /\ themeRequest'[s].id < nextTheme'
            /\ themeRequest'[s].id \in DOMAIN theme' =>
                  theme'[themeRequest'[s].id].folder = themeRequest'[s].folder
    BY <1>3, <1>4
<1> QED
    BY <1>5 DEF DeletionsInv

\* A folder that is not in use, and was not, has nobody to promise anything to.
LEMMA FoldersOfAll ==
    ASSUME ThemesInv, NEW f, f \notin shared \cup broken
    PROVE  FolderInv(f)
<1>1. CASE f \in InUse
    BY <1>1 DEF ThemesInv
<1>2. CASE f \notin InUse
    <2>1. Tenants(f) = {} /\ \A r \in ThemeRequests : ~AtWorkOn(r, f)
        BY <1>2 DEF InUse, Tenants, AtWorkOn
    <2> QED
        BY <2>1 DEF FolderInv
<1> QED
    BY <1>1, <1>2

\* What a step has to keep for a folder that is neither shared nor broken: the
\* requests it leaves alone see the folder and its themes as they were.
LEMMA FolderKept ==
    ASSUME ThemesOK, NEW f, FolderInv(f), NEW r \in ThemeRequests, ThemeStep(r),
           f \notin shared',
           \A i, j \in Tenants(f)' : i = j,
           ~AtWorkOn(r, f) /\ ~AtWorkOn(r, f)' =>
              Tenants(f)' = Tenants(f) /\ (f \in folder <=> f \in folder'),
           AtWorkOn(r, f) /\ ~AtWorkOn(r, f)' => f \in folder' \/ Tenants(f)' = {},
           AtWorkOn(r, f)' =>
              /\ themeRequest'[r].at \in {"mkdir", "files", "cleanup", "clear", "create"} =>
                    Tenants(f)' = {}
              /\ themeRequest'[r].at \in {"files", "clear", "create", "remove"} => f \in folder'
              /\ themeRequest'[r].at \in {"remove", "check", "delete"} =>
                    themeRequest'[r].id \in Tenants(f)'
    PROVE  FolderInv(f)'
<1>1. \A s \in ThemeRequests : s # r =>
         (AtWorkOn(s, f)' <=> AtWorkOn(s, f)) /\ themeRequest'[s] = themeRequest[s]
    BY OthersStay
<1>2. AtWorkOn(r, f)' => \A s \in ThemeRequests : s # r => ~AtWorkOn(s, f)
    BY ThemeMoves, ThemeMove DEF AtWorkOn
<1>3. \A q, s \in ThemeRequests : AtWorkOn(q, f)' /\ AtWorkOn(s, f)' => q = s
    BY <1>1, <1>2 DEF FolderInv
<1>4. (\A s \in ThemeRequests : ~AtWorkOn(s, f)') => f \in folder' \/ Tenants(f)' = {}
    BY <1>1 DEF FolderInv
<1>5. ASSUME NEW s \in ThemeRequests, AtWorkOn(s, f)'
      PROVE  /\ themeRequest'[s].at \in {"mkdir", "files", "cleanup", "clear", "create"} =>
                   Tenants(f)' = {}
             /\ themeRequest'[s].at \in {"files", "clear", "create", "remove"} => f \in folder'
             /\ themeRequest'[s].at \in {"remove", "check", "delete"} =>
                   themeRequest'[s].id \in Tenants(f)'
    <2>1. CASE s = r
        BY <1>5, <2>1
    <2>2. CASE s # r
        <3>1. AtWorkOn(s, f) /\ themeRequest'[s] = themeRequest[s]
            BY <1>1, <1>5, <2>2
        <3>2. ~AtWorkOn(r, f) /\ ~AtWorkOn(r, f)'
            BY <1>2, <2>2, <3>1 DEF FolderInv
        <3> QED
            BY <3>1, <3>2 DEF FolderInv
    <2> QED
        BY <2>1, <2>2
<1> QED
    BY <1>3, <1>4, <1>5 DEF FolderInv

\* The themes in a folder change when one is created in it or deleted.
LEMMA TenantsKept ==
    ASSUME ThemesOK, NEW f, NEW r \in ThemeRequests, ThemeStep(r)
    PROVE  /\ ~CreateTheme(r) /\ ~DeleteRow(r) => Tenants(f)' = Tenants(f)
           /\ CreateTheme(r) /\ themeRequest[r].folder # f => Tenants(f)' = Tenants(f)
           /\ CreateTheme(r) /\ ~DeleteRow(r) =>
                 Tenants(f) \subseteq Tenants(f)' /\ Tenants(f)' \subseteq Tenants(f) \cup {nextTheme}
           /\ DeleteRow(r) /\ ~CreateTheme(r) =>
                 /\ Tenants(f)' \subseteq Tenants(f)
                 /\ Tenants(f) \subseteq Tenants(f)' \cup {themeRequest[r].id}
                 /\ theme' # theme => themeRequest[r].id \notin Tenants(f)'
<1>1. ~(CreateTheme(r) /\ DeleteRow(r))
    BY DEF CreateTheme, DeleteRow, At
<1>2. Tenants(f)' = {i \in DOMAIN theme' : theme'[i].folder = f}
    BY DEF Tenants
<1>3. DeleteRow(r) /\ theme' # theme => themeRequest[r].id \notin DOMAIN theme'
    BY ThemeRows
<1> QED
    BY <1>1, <1>2, <1>3, RowsKeepFolders DEF Tenants

LEMMA FolderNext ==
    ASSUME ThemesOK, DeletionsInv, NEW f, FolderInv(f), NEW r \in ThemeRequests, ThemeStep(r),
           f \notin shared' \cup broken'
    PROVE  FolderInv(f)'
<1>1. \A i, j \in Tenants(f) : i = j
    BY DEF FolderInv
<1>2. CASE AddTheme(r) \/ ActivateTheme(r) \/ FindTheme(r) \/ UpdateTheme(r)
    <2>1. ~AtWorkOn(r, f)
        BY <1>2 DEF AddTheme, ActivateTheme, FindTheme, UpdateTheme, AtWorkOn, OnFolder, At
    <2>2. ~AtWorkOn(r, f)'
        <3>1. CASE UpdateTheme(r)
            BY <3>1, ThemeWent DEF UpdateTheme, AtWorkOn, OnFolder
        <3>2. CASE AddTheme(r) \/ ActivateTheme(r) \/ FindTheme(r)
            BY <3>2, ThemeChoices DEF AtWorkOn, OnFolder
        <3> QED
            BY <1>2, <3>1, <3>2
    <2>3. Tenants(f)' = Tenants(f) /\ folder' = folder
        BY <1>2, TenantsKept
           DEF AddTheme, ActivateTheme, FindTheme, UpdateTheme, CreateTheme, DeleteRow, At
    <2> QED
        BY <1>1, <2>1, <2>2, <2>3, FolderKept
<1>3. CASE ProbeFolder(r)
    <2>1. ~AtWorkOn(r, f)
        BY <1>3 DEF ProbeFolder, AtWorkOn, OnFolder, At
    <2>2. Tenants(f)' = Tenants(f) /\ folder' = folder
        BY <1>3, TenantsKept DEF ProbeFolder, CreateTheme, DeleteRow, At
    <2>3. CASE ~AtWorkOn(r, f)'
        BY <1>1, <2>1, <2>2, <2>3, FolderKept
    <2>4. CASE AtWorkOn(r, f)'
        <3>1. /\ themeRequest'[r].at = "mkdir" /\ f \notin folder
              /\ \A s \in ThemeRequests : s # r => ~AtWorkOn(s, f)
            BY <1>3, <2>4, ThemeChoices, ThemeMoves, ThemeMove DEF AtWorkOn, OnFolder
        <3>2. Tenants(f) = {}
            BY <2>1, <3>1 DEF FolderInv
        <3> QED
            BY <1>1, <2>1, <2>2, <3>1, <3>2, FolderKept
    <2> QED
        BY <2>3, <2>4
<1>4. CASE MakeFolder(r)
    <2>1. Tenants(f)' = Tenants(f) /\ themeRequest[r].at = "mkdir"
        BY <1>4, TenantsKept DEF MakeFolder, CreateTheme, DeleteRow, At
    <2>2. /\ AtWorkOn(r, f) <=> themeRequest[r].folder = f
          /\ AtWorkOn(r, f)' <=> themeRequest[r].folder = f
          /\ \/ themeRequest'[r].at = "cleanup"
             \/ themeRequest'[r].at = "files" /\ themeRequest[r].folder \in folder'
        <3>1. themeRequest'[r].folder = themeRequest[r].folder
            BY <1>4, ThemeWent DEF MakeFolder
        <3>2. \/ themeRequest'[r].at = "cleanup"
              \/ themeRequest'[r].at = "files" /\ themeRequest[r].folder \in folder'
            BY <1>4, ThemeWent DEF MakeFolder
        <3> QED
            BY <2>1, <3>1, <3>2 DEF AtWorkOn, OnFolder
    <2>3. themeRequest[r].folder # f => (f \in folder <=> f \in folder')
        BY <1>4 DEF MakeFolder
    <2>4. themeRequest[r].folder = f => Tenants(f) = {}
        BY <2>1, <2>2 DEF FolderInv
    <2> QED
        BY <1>1, <2>1, <2>2, <2>3, <2>4, FolderKept
<1>5. CASE SaveFiles(r)
    <2>1. Tenants(f)' = Tenants(f) /\ themeRequest[r].at = "files" /\ folder' = folder
        BY <1>5, TenantsKept DEF SaveFiles, CreateTheme, DeleteRow, At
    <2>2. /\ AtWorkOn(r, f) <=> themeRequest[r].folder = f
          /\ AtWorkOn(r, f)' <=> themeRequest[r].folder = f
          /\ themeRequest'[r].at \in {"cleanup", "clear", "create"}
        BY <1>5, ThemeWent DEF SaveFiles, AtWorkOn, OnFolder, At
    <2>3. themeRequest[r].folder = f => Tenants(f) = {} /\ f \in folder
        BY <2>1, <2>2 DEF FolderInv
    <2> QED
        BY <1>1, <2>1, <2>2, <2>3, FolderKept
<1>6. CASE CleanUp(r)
    <2>1. Tenants(f)' = Tenants(f) /\ themeRequest[r].at = "cleanup"
        BY <1>6, TenantsKept DEF CleanUp, CreateTheme, DeleteRow, At
    <2>2. /\ AtWorkOn(r, f) <=> themeRequest[r].folder = f
          /\ ~AtWorkOn(r, f)'
        BY <1>6, ThemeWent DEF CleanUp, AtWorkOn, OnFolder, At
    <2>3. themeRequest[r].folder = f => Tenants(f) = {}
        BY <2>1, <2>2 DEF FolderInv
    <2>4. themeRequest[r].folder # f => (f \in folder <=> f \in folder')
        BY <1>6 DEF CleanUp
    <2> QED
        BY <1>1, <2>1, <2>2, <2>3, <2>4, FolderKept
<1>7. CASE ClearForNew(r)
    <2>1. Tenants(f)' = Tenants(f) /\ themeRequest[r].at = "clear" /\ folder' = folder
        BY <1>7, TenantsKept DEF ClearForNew, CreateTheme, DeleteRow, At
    <2>2. /\ AtWorkOn(r, f) <=> themeRequest[r].folder = f
          /\ AtWorkOn(r, f)' <=> themeRequest[r].folder = f
          /\ themeRequest'[r].at = "create"
        BY <1>7, ThemeWent DEF ClearForNew, AtWorkOn, OnFolder, At
    <2>3. themeRequest[r].folder = f => Tenants(f) = {} /\ f \in folder
        BY <2>1, <2>2 DEF FolderInv
    <2> QED
        BY <1>1, <2>1, <2>2, <2>3, FolderKept
<1>8. CASE CreateTheme(r)
    <2>1. themeRequest[r].at = "create" /\ folder' = folder /\ ~DeleteRow(r)
        BY <1>8 DEF CreateTheme, DeleteRow, At
    <2>2. /\ AtWorkOn(r, f) <=> themeRequest[r].folder = f
          /\ ~AtWorkOn(r, f)'
        BY <1>8, ThemeWent DEF CreateTheme, AtWorkOn, OnFolder, At
    <2>3. CASE themeRequest[r].folder = f
        <3>1. Tenants(f) = {} /\ f \in folder
            BY <2>1, <2>2, <2>3 DEF FolderInv
        <3>2. Tenants(f)' \subseteq {nextTheme}
            BY <1>8, <2>1, <3>1, TenantsKept
        <3> QED
            BY <2>1, <2>2, <2>3, <3>1, <3>2, FolderKept
    <2>4. CASE themeRequest[r].folder # f
        <3>1. Tenants(f)' = Tenants(f)
            BY <1>8, <2>4, TenantsKept
        <3> QED
            BY <1>1, <2>1, <2>2, <2>4, <3>1, FolderKept
    <2> QED
        BY <2>3, <2>4
<1>9. CASE DeleteTheme(r)
    <2>1. Tenants(f)' = Tenants(f) /\ folder' = folder /\ ~AtWorkOn(r, f)
        BY <1>9, TenantsKept DEF DeleteTheme, CreateTheme, DeleteRow, At, AtWorkOn, OnFolder
    <2>2. CASE ~AtWorkOn(r, f)'
        BY <1>1, <2>1, <2>2, FolderKept
    <2>3. CASE AtWorkOn(r, f)'
        <3>1. /\ themeRequest'[r].at = "remove" /\ themeRequest'[r].id \in Tenants(f)
              /\ \A s \in ThemeRequests : s # r => ~AtWorkOn(s, f)
            BY <1>9, <2>3, ThemeChoices, ThemeMoves, ThemeMove DEF AtWorkOn, Tenants
        <3>2. f \in folder
            BY <2>1, <3>1 DEF FolderInv
        <3> QED
            BY <1>1, <2>1, <3>1, <3>2, FolderKept
    <2> QED
        BY <2>2, <2>3
<1>10. CASE RemoveFolder(r)
    <2>1. Tenants(f)' = Tenants(f) /\ themeRequest[r].at = "remove"
        BY <1>10, TenantsKept DEF RemoveFolder, CreateTheme, DeleteRow, At
    <2>2. /\ AtWorkOn(r, f) <=> themeRequest[r].folder = f
          /\ AtWorkOn(r, f)' <=> themeRequest[r].folder = f
          /\ themeRequest'[r].at = "check" /\ themeRequest'[r].id = themeRequest[r].id
        BY <1>10, ThemeWent DEF RemoveFolder, AtWorkOn, OnFolder, At
    <2>3. themeRequest[r].folder = f => themeRequest[r].id \in Tenants(f)
        BY <2>1, <2>2 DEF FolderInv
    <2>4. themeRequest[r].folder # f => (f \in folder <=> f \in folder')
        BY <1>10 DEF RemoveFolder
    <2> QED
        BY <1>1, <2>1, <2>2, <2>3, <2>4, FolderKept
<1>11. CASE CheckFolder(r)
    <2>1. Tenants(f)' = Tenants(f) /\ themeRequest[r].at = "check" /\ folder' = folder
        BY <1>11, TenantsKept DEF CheckFolder, CreateTheme, DeleteRow, At
    <2>2. /\ AtWorkOn(r, f) <=> themeRequest[r].folder = f
          /\ themeRequest'[r].id = themeRequest[r].id
          /\ \/ /\ themeRequest'[r].at = "done" /\ themeRequest[r].folder \in folder
                /\ ~AtWorkOn(r, f)'
             \/ /\ themeRequest'[r].at = "delete"
                /\ AtWorkOn(r, f)' <=> themeRequest[r].folder = f
        BY <1>11, ThemeWent DEF CheckFolder, AtWorkOn, OnFolder, At
    <2>3. themeRequest[r].folder = f => themeRequest[r].id \in Tenants(f)
        BY <2>1, <2>2 DEF FolderInv
    <2> QED
        BY <1>1, <2>1, <2>2, <2>3, FolderKept
<1>12. CASE DeleteRow(r)
    <2>1. themeRequest[r].at = "delete" /\ folder' = folder /\ ~CreateTheme(r)
        BY <1>12 DEF DeleteRow, CreateTheme, At
    <2>2. /\ AtWorkOn(r, f) <=> themeRequest[r].folder = f
          /\ ~AtWorkOn(r, f)'
        BY <1>12, ThemeWent DEF DeleteRow, AtWorkOn, OnFolder, At
    <2>3. CASE themeRequest[r].folder = f
        <3>1. themeRequest[r].id \in Tenants(f)
            BY <2>1, <2>2, <2>3 DEF FolderInv
        <3>2. theme' # theme
            <4>1. ASSUME theme' = Restrict(theme, DOMAIN theme \ {themeRequest[r].id})
                  PROVE  theme' # theme
                <5>1. themeRequest[r].id \notin DOMAIN theme'
                    BY <4>1 DEF Restrict
                <5> QED
                    BY <3>1, <5>1 DEF Tenants
            <4> QED
                BY <1>12, <2>3, <4>1 DEF DeleteRow
        <3>3. Tenants(f)' \subseteq Tenants(f) /\ themeRequest[r].id \notin Tenants(f)'
            BY <1>12, <2>1, <3>2, TenantsKept
        <3>4. Tenants(f)' = {}
            BY <1>1, <3>1, <3>3
        <3> QED
            BY <2>2, <2>3, <3>4, FolderKept
    <2>4. CASE themeRequest[r].folder # f
        <3>1. themeRequest[r].id \notin Tenants(f)
            BY <2>1, <2>4 DEF DeletionsInv, Tenants
        <3>2. Tenants(f)' = Tenants(f)
            BY <1>12, <2>1, <3>1, TenantsKept
        <3> QED
            BY <1>1, <2>1, <2>2, <2>4, <3>2, FolderKept
    <2> QED
        BY <2>3, <2>4
<1>13. CASE ThemeDie(r)
    <2>1. Tenants(f)' = Tenants(f) /\ folder' = folder
        <3>1. theme' = theme /\ folder' = folder
            BY <1>13 DEF ThemeDie
        <3> QED
            BY <3>1 DEF Tenants
    <2>2. ~AtWorkOn(r, f) /\ ~AtWorkOn(r, f)'
        <3>1. ~AtWorkOn(r, f)
            BY <1>13 DEF ThemeDie, AtWorkOn
        <3>2. themeRequest'[r].at = "done"
            BY <1>13, ThemeWent DEF ThemeDie
        <3> QED
            BY <3>1, <3>2 DEF AtWorkOn, OnFolder
    <2> QED
        BY <1>1, <2>1, <2>2, FolderKept
<1> QED
    BY <1>2, <1>3, <1>4, <1>5, <1>6, <1>7, <1>8, <1>9, <1>10, <1>11, <1>12, <1>13
       DEF ThemeStep

LEMMA ThemesNext ==
    ASSUME ThemesOK, ThemesInv, NEW r \in ThemeRequests, ThemeStep(r)
    PROVE  ThemesOK' /\ ThemesInv'
<1>1. ThemesOK'
    BY ThemesStayOK
<1>2. SwitchesInv' /\ LapsesInv' /\ DeletionsInv'
    BY SwitchesNext, LapsesNext, DeletionsNext DEF ThemesInv
<1>3. shared \subseteq shared'
    BY ThemeMoves, ThemeMove
<1>4. broken \subseteq broken'
    BY DEF ThemeStep, AddTheme, ProbeFolder, MakeFolder, SaveFiles, CleanUp, ClearForNew,
           CreateTheme, DeleteTheme, RemoveFolder, CheckFolder, DeleteRow, ActivateTheme,
           FindTheme, UpdateTheme, ThemeDie
<1>5. ASSUME NEW f, f \notin shared' \cup broken'
      PROVE  FolderInv(f)'
    BY <1>3, <1>4, <1>5, FoldersOfAll, FolderNext DEF ThemesInv
<1>6. \A f \in (InUse \ (shared \cup broken))' : FolderInv(f)'
    BY <1>5
<1> QED
    BY <1>1, <1>2, <1>6 DEF ThemesInv

LEMMA ThemesStart == InitThemes => ThemesOK /\ ThemesInv
<1> SUFFICES ASSUME InitThemes
             PROVE  ThemesOK /\ ThemesInv
    OBVIOUS
<1>1. PICK on \in 0 .. StartThemes :
         /\ folder = 0 .. StartThemes - 1
         /\ theme = [i \in 1 .. StartThemes |-> [folder |-> i - 1, active |-> i = on]]
         /\ nextTheme = StartThemes + 1
         /\ themeRequest = [r \in ThemeRequests |-> Unsent]
         /\ shared = {} /\ broken = {} /\ lapsed = (on = 0) /\ crossed = FALSE
         /\ themeDeaths = 0
    BY DEF InitThemes
<1>2. /\ DOMAIN theme = 1 .. StartThemes
      /\ \A i \in 1 .. StartThemes :
            theme[i].folder = i - 1 /\ theme[i].active = (i = on)
    BY <1>1
<1>3. \A i \in 1 .. StartThemes : i - 1 \in Nat /\ theme[i] \in Theme
    BY <1>1, ThemesAssumption DEF Theme
<1>4. Unsent \in ThemeProgress
    BY DEF Unsent, ThemeProgress
<1>5. ThemesOK
    <2>1. /\ nextTheme \in Nat \ {0} /\ nextTheme - 1 = StartThemes
          /\ folder \in SUBSET Nat /\ themeDeaths \in 0 .. MaxThemeDeaths
        BY <1>1, ThemesAssumption
    <2>2. themeRequest \in [ThemeRequests -> ThemeProgress]
        BY <1>1, <1>4
    <2>3. lapsed \in BOOLEAN /\ crossed \in BOOLEAN
        BY <1>1
    <2>4. /\ DOMAIN theme \in SUBSET (1 .. nextTheme - 1)
          /\ \A i \in DOMAIN theme : theme[i] \in Theme
        BY <1>2, <1>3, <2>1
    <2> QED
        BY <1>1, <2>1, <2>2, <2>3, <2>4 DEF ThemesOK
<1>6. \A r \in ThemeRequests : themeRequest[r].at = "unsent"
    BY <1>1 DEF Unsent
<1>7. \A r \in ThemeRequests : ~Switching(r) /\ ~Promises(r) /\ ~At(r, "clear")
    BY <1>6 DEF Switching, Promises, At
<1>8. ActiveThemes = {i \in 1 .. StartThemes : i = on}
    BY <1>2 DEF ActiveThemes
<1>9. SwitchesInv
    BY <1>7, <1>8 DEF SwitchesInv
<1>10. LapsesInv
    <2>1. on # 0 => on \in ActiveThemes
        BY <1>8, ThemesAssumption
    <2> QED
        BY <1>1, <1>7, <2>1 DEF LapsesInv
<1>11. DeletionsInv
    BY <1>6 DEF DeletionsInv
<1>12. ASSUME NEW f
       PROVE  FolderInv(f)
    <2>1. \A r \in ThemeRequests : ~AtWorkOn(r, f)
        BY <1>6 DEF AtWorkOn, OnFolder
    <2>2. \A i, j \in Tenants(f) : i = j
        BY <1>2, ThemesAssumption DEF Tenants
    <2>3. Tenants(f) # {} => f \in folder
        BY <1>1, <1>2, ThemesAssumption DEF Tenants
    <2> QED
        BY <2>1, <2>2, <2>3 DEF FolderInv
<1> QED
    BY <1>5, <1>9, <1>10, <1>11, <1>12 DEF ThemesInv

LEMMA ThemesStutter ==
    ASSUME ThemesOK, ThemesInv, UNCHANGED themeVars
    PROVE  ThemesOK' /\ ThemesInv'
<1>1. ThemesOK'
    BY DEF themeVars, ThemesOK
<1>2. \A r \in ThemeRequests :
         (Switching(r)' <=> Switching(r)) /\ (Promises(r)' <=> Promises(r))
    BY DEF themeVars, Switching, Promises, At
<1>3. ActiveThemes' = ActiveThemes
    BY DEF themeVars, ActiveThemes
<1>4. SwitchesInv'
    BY <1>2, <1>3 DEF themeVars, ThemesInv, SwitchesInv
<1>5. LapsesInv' /\ DeletionsInv'
    BY <1>2, <1>3 DEF themeVars, ThemesInv, LapsesInv, DeletionsInv, At
<1>6. ASSUME NEW f, f \notin (shared \cup broken)'
      PROVE  FolderInv(f)'
    <2>1. FolderInv(f)
        BY <1>6, FoldersOfAll DEF themeVars
    <2>2. Tenants(f)' = Tenants(f) /\ \A r : AtWorkOn(r, f)' <=> AtWorkOn(r, f)
        BY DEF themeVars, Tenants, AtWorkOn
    <2> QED
        BY <2>1, <2>2 DEF themeVars, FolderInv
<1> QED
    BY <1>1, <1>4, <1>5, <1>6 DEF ThemesInv

\* What the invariant says of the themes: one at most is active, the lack of one
\* is accounted for, and each has a folder of its own.
LEMMA ThemesPromise ==
    ASSUME ThemesOK, ThemesInv
    PROVE  OneThemeActive /\ SomeThemeActive /\ ThemeHasFolder
<1>1. OneThemeActive
    <2>1. CASE crossed
        BY <2>1 DEF OneThemeActive
    <2>2. CASE ~crossed
        <3>1. \A i, j \in ActiveThemes : i = j
            BY <2>2 DEF ThemesInv, SwitchesInv
        <3>2. CASE ActiveThemes = {}
            BY <3>2, FS_EmptySet DEF OneThemeActive
        <3>3. ASSUME NEW i \in ActiveThemes
              PROVE  OneThemeActive
            <4>1. ActiveThemes = {i}
                BY <3>1, <3>3
            <4>2. Cardinality(ActiveThemes) = 1
                BY <4>1, FS_Singleton
            <4> QED
                BY <4>2 DEF OneThemeActive
        <3> QED
            BY <3>2, <3>3
    <2> QED
        BY <2>1, <2>2
<1>2. SomeThemeActive
    BY DEF ThemesInv, LapsesInv, SomeThemeActive, Promises, Switching
<1>3. ThemeHasFolder
    <2>1. SUFFICES ASSUME NEW i \in DOMAIN theme, NEW f, f = theme[i].folder,
                          f \notin shared \cup broken,
                          \A r \in ThemeRequests :
                             ~(themeRequest[r].id = i /\ themeRequest[r].at \in {"check", "delete"})
                   PROVE  f \in folder /\ \A j \in DOMAIN theme \ {i} : theme[j].folder # f
        BY DEF ThemeHasFolder
    <2>2. FolderInv(f) /\ i \in Tenants(f)
        BY <2>1, FoldersOfAll DEF Tenants
    <2>3. \A j \in DOMAIN theme \ {i} : theme[j].folder # f
        BY <2>2 DEF FolderInv, Tenants
    <2>4. ASSUME NEW r \in ThemeRequests, AtWorkOn(r, f)
          PROVE  f \in folder
        <3>1. themeRequest[r].at \notin {"mkdir", "files", "cleanup", "clear", "create"}
            BY <2>2, <2>4 DEF FolderInv
        <3>2. themeRequest[r].at \in {"check", "delete"} => themeRequest[r].id = i
            BY <2>2, <2>4 DEF FolderInv
        <3>3. themeRequest[r].at = "remove"
            BY <2>1, <2>4, <3>1, <3>2 DEF AtWorkOn, OnFolder
        <3> QED
            BY <2>2, <2>4, <3>3 DEF FolderInv
    <2> QED
        BY <2>2, <2>3, <2>4 DEF FolderInv
<1> QED
    BY <1>1, <1>2, <1>3

(***************************************************************************)
(* The areas together                                                      *)
(***************************************************************************)

AreasInv ==
    /\ ThemesOK /\ ThemesInv
    /\ TokensOK /\ TokensInv
    /\ UsersOK /\ UsersInv

LEMMA AreasStart == Init => AreasInv
    BY ThemesStart, TokensStart, UsersStart DEF Init, AreasInv

LEMMA AreasNext ==
    ASSUME AreasInv, [Next]_vars
    PROVE  AreasInv'
<1>1. ThemesOK' /\ ThemesInv'
    BY ThemesNext, ThemesStutter DEF AreasInv, Next, vars
<1>2. TokensOK' /\ TokensInv'
    BY TokensNext, TokensStutter DEF AreasInv, Next, vars
<1>3. UsersOK' /\ UsersInv'
    BY UsersNext, UsersStutter DEF AreasInv, Next, vars
<1> QED
    BY <1>1, <1>2, <1>3 DEF AreasInv

\* The tables and the requests of the themes, the password tokens and the period
\* users have their types, and the invariants of the three areas hold.
THEOREM AreasInvHolds == Spec => []AreasInv
<1>1. Init => AreasInv
    BY AreasStart
<1>2. AreasInv /\ [Next]_vars => AreasInv'
    BY AreasNext
<1> QED
    BY <1>1, <1>2, PTL DEF Spec

\* At most one theme is active after the last switch, unless it began while
\* another was under way (Themes.pm, add_theme and activate).
THEOREM OneThemeAtATime == Spec => []OneThemeActive
<1>1. AreasInv => OneThemeActive
    BY ThemesPromise DEF AreasInv
<1> QED
    BY <1>1, AreasInvHolds, PTL

\* A site without an active theme is in a switch, or one was given up half way,
\* or the active theme was deleted.
THEOREM ThemeOrLapse == Spec => []SomeThemeActive
<1>1. AreasInv => SomeThemeActive
    BY ThemesPromise DEF AreasInv
<1> QED
    BY <1>1, AreasInvHolds, PTL

\* No addition and no deletion takes the folder of another theme away, unless two
\* requests were at work on one folder or the work on it was given up half way.
THEOREM FoldersAreKept == Spec => []ThemeHasFolder
<1>1. AreasInv => ThemeHasFolder
    BY ThemesPromise DEF AreasInv
<1> QED
    BY <1>1, AreasInvHolds, PTL

\* A mailed token sets one password, unless it was in two submissions at once.
THEOREM TokensAreSpent == Spec => []TokenSetsOnce
<1>1. AreasInv => TokenSetsOnce
    BY TokensPromise DEF AreasInv
<1> QED
    BY <1>1, AreasInvHolds, PTL

\* The token saved last for a user works when it is mailed, until it was used,
\* unless a submission for the user was under way when it was saved.
THEOREM TheLastMailWorks == Spec => []NewestTokenWorks
<1>1. AreasInv => NewestTokenWorks
    BY TokensPromise DEF AreasInv
<1> QED
    BY <1>1, AreasInvHolds, PTL

\* Additions of period users that were counted alone keep within what was paid for.
THEOREM LimitIsKept == Spec => []CountedWithinLimit
<1>1. AreasInv => CountedWithinLimit
    BY DEF AreasInv, UsersInv
<1> QED
    BY <1>1, AreasInvHolds, PTL

\* What the administrator saves in the catalogue, in every state.
CatalogueHolds == CatalogueOK /\ CatalogueInv

LEMMA CatalogueStays ==
    ASSUME CatalogueHolds, [Next]_vars
    PROVE  CatalogueHolds'
    BY CatalogueNext, CatalogueStutter DEF CatalogueHolds, Next, vars

\* The rows, the lists and the edits of the catalogue have their types; edits keep
\* to what their forms ask for and to the order of the group, as far as no other
\* edit crosses them (Controller/Admin/Subscriptions.pm, _update_subscription_data).
THEOREM CatalogueInvHolds == Spec => [](CatalogueOK /\ CatalogueInv)
<1>1. Init => CatalogueHolds
    BY CatalogueStart DEF Init, CatalogueHolds
<1>2. CatalogueHolds /\ [Next]_vars => CatalogueHolds'
    BY CatalogueStays
<1>3. CatalogueHolds => CatalogueOK /\ CatalogueInv
    BY DEF CatalogueHolds
<1> QED
    BY <1>1, <1>2, <1>3, PTL DEF Spec

\* The tables of the four areas, the requests at work on them and what is noted
\* about them have their types.
THEOREM AdministrationTypes == Spec => []TypeOK
<1>1. AreasInv /\ CatalogueOK => TypeOK
    BY DEF AreasInv, TypeOK
<1> QED
    BY <1>1, AreasInvHolds, CatalogueInvHolds, PTL

\* A subscription whose last edit nobody crossed, and that did not fail, has the
\* price, the unit and the lists of its form, with nothing left of earlier lists.
THEOREM EditsAreComplete == Spec => []EditIsComplete
<1>1. CatalogueInv => EditIsComplete
    BY DEF CatalogueInv, ProgressInv
<1> QED
    BY <1>1, CatalogueInvHolds, PTL

\* The links to a subscription that was asked for in days last the days asked for
\* (the cron and the requests add the column period as days), however often its
\* form was sent back from the edit page.
THEOREM LengthsAreKept == Spec => []LengthAsAsked
<1>1. CatalogueInv => LengthAsAsked
    BY DEF CatalogueInv, ProgressInv
<1> QED
    BY <1>1, CatalogueInvHolds, PTL

\* Every subscription that the order last asked for names has the last place at
\* which it is named, if that edit was alone and read its own subscription as the
\* last row of the group.
THEOREM OrderIsKept == Spec => []OrderAsAsked
<1>1. CatalogueInv => OrderAsAsked
    BY DEF CatalogueInv, OrderInv
<1> QED
    BY <1>1, CatalogueInvHolds, PTL

LEMMA PriceListStart == Init => Prices!InitPriceList
    BY PricedAtStart DEF Init, Prices!InitPriceList, Prices!Offers

LEMMA PriceListStep ==
    ASSUME CatalogueHolds, [Next]_vars
    PROVE  [Prices!Repriced]_Priced
<1>1. DOMAIN Priced = Existing
    BY DEF Priced
<1>2. CASE Priced' = Priced
    BY <1>2
<1>3. CASE \E s \in Sub : PricedLess(s)
    BY <1>1, <1>3 DEF PricedLess, Prices!Repriced, Prices!Withdraw, Prices!NoOffer
<1>4. CASE \E s \in Existing : \E o \in [price : FormPrice, period : Nat \ {0}] :
              PricedAnew(s, o)
    <2>1. PICK s \in Existing : \E o \in [price : FormPrice, period : Nat \ {0}] :
              PricedAnew(s, o)
        BY <1>4
    <2>2. PICK o \in [price : FormPrice, period : Nat \ {0}] : PricedAnew(s, o)
        BY <2>1
    <2>3. Priced' = [Priced EXCEPT ![s] = o] /\ Priced'[s] = o
        BY <1>1, <2>2 DEF PricedAnew
    <2>4. s \in Sub
        BY DEF CatalogueHolds, CatalogueOK
    <2> QED
        BY <1>1, <2>3, <2>4 DEF Prices!Repriced, Prices!Offer, Prices!Offers
<1>5. CASE UNCHANGED catalogueVars
    BY <1>5 DEF catalogueVars, Priced, Existing
<1>6. CASE \E r \in EditRequests : CatalogueStep(r)
    BY <1>2, <1>3, <1>4, <1>6, PriceSteps DEF CatalogueHolds
<1> QED
    BY <1>5, <1>6 DEF Next, vars

\* The payments see a list of prices in which every save takes the price and the
\* period of its subscription off and then sets them together: the catalogue
\* implements PriceList.
THEOREM PriceListIsImplemented == Spec => ImplementsPriceList
<1>1. Init => Prices!InitPriceList
    BY PriceListStart
<1>2. CatalogueHolds /\ [Next]_vars => [Prices!Repriced]_Priced
    BY PriceListStep
<1>3. Spec => []CatalogueHolds
    BY CatalogueInvHolds, PTL DEF CatalogueHolds
<1> QED
    BY <1>1, <1>2, <1>3, PTL DEF Spec, ImplementsPriceList, Prices!PriceListSpec
=============================================================================
