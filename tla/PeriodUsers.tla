----------------------------- MODULE PeriodUsers -----------------------------
(***************************************************************************)
(* The period users of a link (Controller/User/Manage_users.pm and, the    *)
(* same, Controller/Admin/Manage_users.pm): so many of them may be active, *)
(* which is counted before one is created active and not before one is     *)
(* activated by an edit.                                                   *)
(***************************************************************************)
EXTENDS Naturals, FiniteSets

CONSTANTS
    UsersLink,      \* links with period users
    UsersRequests,  \* each is one submitted request and its process
    LargestLimit    \* bound: the largest number of users asked for at registration

ASSUME PeriodUsersAssumption == LargestLimit \in Nat \ {0}

VARIABLES
    nrOfPeriodUsers,  \* the column of each link
    periodUser,       \* the table: id -> row
    usersRequest,     \* the progress of each request
    admitted          \* history: how each active user became active

usersVars == <<nrOfPeriodUsers, periodUser, usersRequest, admitted>>

\* alone: no other addition to the link was under way at any time since the count.
Asking == [at : {"count", "create"}, link : UsersLink, status : BOOLEAN, alone : BOOLEAN]
Updating == [at : {"update"}, id : Nat, status : BOOLEAN, copy : BOOLEAN]
NotSent == [at |-> "unsent"]
Served == [at |-> "done"]

UsersOK ==
    /\ nrOfPeriodUsers \in [UsersLink -> 1 .. LargestLimit]
    /\ DOMAIN periodUser \in SUBSET Nat
    /\ \A i \in DOMAIN periodUser :
          periodUser[i] \in [link : UsersLink, status : BOOLEAN]
    /\ DOMAIN usersRequest = UsersRequests
    /\ \A r \in UsersRequests :
          usersRequest[r] \in {NotSent, Served} \cup Asking \cup Updating
    /\ DOMAIN admitted = DOMAIN periodUser
    /\ \A i \in DOMAIN admitted : admitted[i] \in {"inactive", "counted", "crowded", "edited"}

\* nr_of_period_users is what the form of the registration says, or 1.
InitUsers ==
    /\ nrOfPeriodUsers \in [UsersLink -> 1 .. LargestLimit]
    /\ periodUser = <<>>
    /\ usersRequest = [r \in UsersRequests |-> NotSent]
    /\ admitted = <<>>

UsersStage(r) == usersRequest[r].at

ActiveUsers(l) ==
    {i \in DOMAIN periodUser : periodUser[i].link = l /\ periodUser[i].status}

\* Active additions to a link that were counted and are not created yet.
Pending(l) ==
    {r \in UsersRequests :
        UsersStage(r) = "create" /\ usersRequest[r].link = l /\ usersRequest[r].status}

NowAt(r, progress) == usersRequest' = [usersRequest EXCEPT ![r] = progress]

\* add_period_user: an inactive user is created at once, an active one after a count.
AddPeriodUser(r) ==
    /\ UsersStage(r) = "unsent"
    /\ \E l \in UsersLink, s \in BOOLEAN :
          NowAt(r, [at |-> IF s THEN "count" ELSE "create", link |-> l, status |-> s,
                    alone |-> TRUE])
    /\ UNCHANGED <<nrOfPeriodUsers, periodUser, admitted>>

\* fault: the limit itself is let through.
CanBeActivated_OneMore(l) == Cardinality(ActiveUsers(l)) <= nrOfPeriodUsers[l]

CanBeActivated(l) == Cardinality(ActiveUsers(l)) < nrOfPeriodUsers[l]

\* can_be_activated; it is also noted whose counts cross.
CountUsers(r) ==
    LET l == usersRequest[r].link IN
    /\ UsersStage(r) = "count"
    /\ usersRequest' =
          [s \in UsersRequests |->
              IF s = r
              THEN IF CanBeActivated(l)
                   THEN [usersRequest[r] EXCEPT !.at = "create", !.alone = Pending(l) = {}]
                   ELSE Served
              ELSE IF s \in Pending(l) /\ CanBeActivated(l)
              THEN [usersRequest[s] EXCEPT !.alone = FALSE]
              ELSE usersRequest[s]]
    /\ UNCHANGED <<nrOfPeriodUsers, periodUser, admitted>>

\* The insert, which may fail; a process that dies before it leaves the same.
CreateUser(r) ==
    LET q == usersRequest[r]
        i == Cardinality(DOMAIN periodUser) + 1 IN
    /\ UsersStage(r) = "create"
    /\ NowAt(r, Served)
    /\ \/ /\ periodUser' = [j \in DOMAIN periodUser \cup {i} |->
                IF j = i THEN [link |-> q.link, status |-> q.status] ELSE periodUser[j]]
          /\ admitted' = [j \in DOMAIN periodUser \cup {i} |->
                IF j = i THEN CASE ~q.status -> "inactive"
                                [] q.status /\ q.alone -> "counted"
                                [] q.status /\ ~q.alone -> "crowded"
                ELSE admitted[j]]
       \/ UNCHANGED <<periodUser, admitted>>
    /\ UNCHANGED nrOfPeriodUsers

\* edit_period_user loads the row ...
EditPeriodUser(r) ==
    /\ UsersStage(r) = "unsent"
    /\ \E i \in DOMAIN periodUser, s \in BOOLEAN :
          NowAt(r, [at |-> "update", id |-> i, status |-> s, copy |-> periodUser[i].status])
    /\ UNCHANGED <<nrOfPeriodUsers, periodUser, admitted>>

\* ... and updates it, writing the status if it differs from the copy's; nobody counts.
UpdateUser(r) ==
    LET q == usersRequest[r] IN
    /\ UsersStage(r) = "update"
    /\ NowAt(r, Served)
    /\ \/ /\ q.status # q.copy
          /\ periodUser' = [periodUser EXCEPT ![q.id].status = q.status]
          /\ admitted' = [admitted EXCEPT ![q.id] =
                CASE ~q.status -> "inactive"
                  [] q.status /\ periodUser[q.id].status -> @
                  [] OTHER -> "edited"]
       \/ UNCHANGED <<periodUser, admitted>>
    /\ UNCHANGED nrOfPeriodUsers

UsersStep(r) ==
    \/ AddPeriodUser(r) \/ CountUsers(r) \/ CreateUser(r)
    \/ EditPeriodUser(r) \/ UpdateUser(r)

-----------------------------------------------------------------------------
\* The active users of a link whose addition was counted alone.
Counted(l) == {i \in ActiveUsers(l) : admitted[i] = "counted"}

\* The active users of a link stay within what was paid for, but for those an
\* edit activated, and those whose addition was counted while another was
\* under way: additions that do not cross never pass the limit together,
\* whatever edits come between the count and the insert.
CountedWithinLimit ==
    \A l \in UsersLink : Cardinality(Counted(l)) <= nrOfPeriodUsers[l]

-----------------------------------------------------------------------------
\* The invariant that CountedWithinLimit follows from: an addition that was
\* counted alone is the only one under way, and has its place kept.
UsersInv ==
    /\ IsFiniteSet(DOMAIN periodUser)
    /\ DOMAIN periodUser = 1 .. Cardinality(DOMAIN periodUser)
    /\ \A r \in UsersRequests :
          UsersStage(r) = "update" => usersRequest[r].id \in DOMAIN periodUser
    /\ \A l \in UsersLink : \A r \in Pending(l) :
          usersRequest[r].alone =>
              Pending(l) = {r} /\ Cardinality(Counted(l)) < nrOfPeriodUsers[l]
    /\ CountedWithinLimit

=============================================================================
