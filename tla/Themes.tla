------------------------------- MODULE Themes -------------------------------
(***************************************************************************)
(* The themes of the site (Controller/Admin/Themes.pm): a folder under     *)
(* root/static/themes and a row for each, one row active.  Names that      *)
(* differ after they are cleaned share no folder, so one name is           *)
(* modelled, and a folder is its version: name, name.1, name.2 and so on.  *)
(***************************************************************************)
EXTENDS Naturals, FiniteSets, Functions

CONSTANTS
    ThemeRequests,  \* each is one submitted request and its process
    StartThemes,    \* themes added before the first of them
    MaxThemeDeaths  \* bound: processes that die

ASSUME ThemesAssumption == StartThemes \in Nat /\ MaxThemeDeaths \in Nat

VARIABLES
    folder,        \* the versions that have a folder
    theme,         \* the table: id -> row
    nextTheme,     \* its sequence
    themeRequest,  \* the progress of each request
    shared,        \* history: folders two requests were at work on at once
    broken,        \* history: folders whose work died or failed half way
    lapsed,        \* history: the active theme was taken away and not replaced
    crossed,       \* history: another switch was under way at the last one
    themeDeaths    \* history: processes that died

themeVars == <<folder, theme, nextTheme, themeRequest, shared, broken,
               lapsed, crossed, themeDeaths>>

Theme == [folder : Nat, active : BOOLEAN]

\* What a request works on, from the time it knows: a folder, the id of a row,
\* the flag its page or its copy of the row has.
Unsent == [at |-> "unsent", id |-> 0, folder |-> 0, active |-> FALSE]

ThemeProgress ==
    [at : {"unsent", "probe", "mkdir", "files", "cleanup", "clear", "create",
           "remove", "check", "delete", "find", "activate", "done"},
     id : Nat, folder : Nat, active : BOOLEAN]

ThemesOK ==
    /\ folder \in SUBSET Nat
    /\ nextTheme \in Nat \ {0}
    /\ DOMAIN theme \in SUBSET (1 .. nextTheme - 1)
    /\ \A i \in DOMAIN theme : theme[i] \in Theme
    /\ themeRequest \in [ThemeRequests -> ThemeProgress]
    /\ shared \in SUBSET Nat
    /\ broken \in SUBSET Nat
    /\ lapsed \in BOOLEAN
    /\ crossed \in BOOLEAN
    /\ themeDeaths \in 0 .. MaxThemeDeaths

ActiveThemes == {i \in DOMAIN theme : theme[i].active}

\* Themes added one after the other, the last one that asked to be active or
\* none of them.
InitThemes ==
    \E on \in 0 .. StartThemes :
        /\ folder = 0 .. StartThemes - 1
        /\ theme = [i \in 1 .. StartThemes |-> [folder |-> i - 1, active |-> i = on]]
        /\ nextTheme = StartThemes + 1
        /\ themeRequest = [r \in ThemeRequests |-> Unsent]
        /\ shared = {}
        /\ broken = {}
        /\ lapsed = (on = 0)
        /\ crossed = FALSE
        /\ themeDeaths = 0

At(r, stage) == themeRequest[r].at = stage

\* Requests that have switched every theme off and not yet theirs on.
Switching(r) ==
    \/ At(r, "create") /\ themeRequest[r].active
    \/ At(r, "find")
    \/ At(r, "activate")

\* The stages at which a request has settled on a folder.
OnFolder == {"mkdir", "files", "cleanup", "clear", "create",
            "remove", "check", "delete"}

AtWorkOn(r, f) == themeRequest[r].at \in OnFolder /\ themeRequest[r].folder = f

\* The request moves on; the folder it settles on is shared if another one has it.
Moves(r, progress) ==
    /\ themeRequest' = [themeRequest EXCEPT ![r] = progress]
    /\ shared' = IF /\ progress.at \in OnFolder
                    /\ \E s \in ThemeRequests \ {r} : AtWorkOn(s, progress.folder)
                 THEN shared \cup {progress.folder}
                 ELSE shared

GoesTo(r, stage) == Moves(r, [themeRequest[r] EXCEPT !.at = stage])

AddTheme(r) ==
    /\ At(r, "unsent")
    /\ \E active \in BOOLEAN :
          Moves(r, [Unsent EXCEPT !.at = "probe", !.active = active])
    /\ UNCHANGED <<folder, theme, nextTheme, broken, lapsed, crossed, themeDeaths>>

\* fault: the next version is taken without looking whether it is free.
ProbeFolder_Once(r) ==
    /\ At(r, "probe")
    /\ LET v == themeRequest[r].folder IN
       Moves(r, [themeRequest[r] EXCEPT !.at = "mkdir",
                                        !.folder = IF v \in folder THEN v + 1 ELSE v])
    /\ UNCHANGED <<folder, theme, nextTheme, broken, lapsed, crossed, themeDeaths>>

\* One test of -r: the version is taken, or the next one is tried.
ProbeFolder(r) ==
    /\ At(r, "probe")
    /\ IF themeRequest[r].folder \in folder
       THEN Moves(r, [themeRequest[r] EXCEPT !.folder = @ + 1])
       ELSE GoesTo(r, "mkdir")
    /\ UNCHANGED <<folder, theme, nextTheme, broken, lapsed, crossed, themeDeaths>>

\* mkdir refuses a folder that exists, and may fail for other reasons.
MakeFolder(r) ==
    /\ At(r, "mkdir")
    /\ \/ /\ themeRequest[r].folder \notin folder
          /\ folder' = folder \cup {themeRequest[r].folder}
          /\ GoesTo(r, "files")
       \/ /\ GoesTo(r, "cleanup")
          /\ UNCHANGED folder
    /\ UNCHANGED <<theme, nextTheme, broken, lapsed, crossed, themeDeaths>>

\* The style sheet and the thumbnail, which cannot be written if the folder is gone.
SaveFiles(r) ==
    /\ At(r, "files")
    /\ \/ /\ themeRequest[r].folder \in folder
          /\ GoesTo(r, IF themeRequest[r].active THEN "clear" ELSE "create")
       \/ GoesTo(r, "cleanup")
    /\ UNCHANGED <<folder, theme, nextTheme, broken, lapsed, crossed, themeDeaths>>

\* remove_tree in the first catch block; its errors are collected and not read.
CleanUp(r) ==
    /\ At(r, "cleanup")
    /\ folder' \in {folder, folder \ {themeRequest[r].folder}}
    /\ GoesTo(r, "done")
    /\ UNCHANGED <<theme, nextTheme, broken, lapsed, crossed, themeDeaths>>

AllOff == [i \in DOMAIN theme |-> [theme[i] EXCEPT !.active = FALSE]]

SwitchAllOff(r) ==
    /\ theme' = AllOff
    /\ crossed' = \E s \in ThemeRequests \ {r} : Switching(s)

\* fault: a new active theme leaves the old one on.
ClearForNew_Forgotten(r) ==
    /\ At(r, "clear")
    /\ GoesTo(r, "create")
    /\ UNCHANGED <<folder, theme, nextTheme, broken, lapsed, crossed, themeDeaths>>

\* "only one theme can be active"
ClearForNew(r) ==
    /\ At(r, "clear")
    /\ SwitchAllOff(r)
    /\ GoesTo(r, "create")
    /\ UNCHANGED <<folder, nextTheme, broken, lapsed, themeDeaths>>

\* The row; when it cannot be created nothing that was done before is undone.
CreateTheme(r) ==
    LET q == themeRequest[r] IN
    /\ At(r, "create")
    /\ GoesTo(r, "done")
    /\ \/ /\ theme' = [i \in DOMAIN theme \cup {nextTheme} |->
                        IF i = nextTheme THEN [folder |-> q.folder, active |-> q.active]
                        ELSE theme[i]]
          /\ nextTheme' = nextTheme + 1
          /\ lapsed' = (lapsed /\ ~q.active)
       \/ /\ lapsed' = (lapsed \/ q.active)
          /\ UNCHANGED <<theme, nextTheme>>
    /\ UNCHANGED <<folder, broken, crossed, themeDeaths>>

\* Theme 1 is never deleted; a row that is gone ends the request.
DeleteTheme(r) ==
    /\ At(r, "unsent")
    /\ \E i \in DOMAIN theme \ {1} :
          Moves(r, [Unsent EXCEPT !.at = "remove", !.id = i, !.folder = theme[i].folder])
    /\ UNCHANGED <<folder, theme, nextTheme, broken, lapsed, crossed, themeDeaths>>

RemoveFolder(r) ==
    /\ At(r, "remove")
    /\ folder' \in {folder, folder \ {themeRequest[r].folder}}
    /\ GoesTo(r, "check")
    /\ UNCHANGED <<theme, nextTheme, broken, lapsed, crossed, themeDeaths>>

\* A folder that is still there, or there again, keeps the row.
CheckFolder(r) ==
    /\ At(r, "check")
    /\ GoesTo(r, IF themeRequest[r].folder \in folder THEN "done" ELSE "delete")
    /\ UNCHANGED <<folder, theme, nextTheme, broken, lapsed, crossed, themeDeaths>>

\* The delete may fail, which is only logged; deleting a deleted row does not.
DeleteRow(r) ==
    LET q == themeRequest[r] IN
    /\ At(r, "delete")
    /\ GoesTo(r, "done")
    /\ \/ /\ theme' = Restrict(theme, DOMAIN theme \ {q.id})
          /\ lapsed' = (lapsed \/ q.id \in ActiveThemes)
          /\ UNCHANGED broken
       \/ /\ broken' = broken \cup {q.folder}
          /\ UNCHANGED <<theme, lapsed>>
    /\ UNCHANGED <<folder, nextTheme, crossed, themeDeaths>>

\* fault: the row is loaded before every theme goes off.
ActivateTheme_LoadsFirst(r) ==
    /\ At(r, "unsent")
    /\ \E i \in DOMAIN theme :
          Moves(r, [Unsent EXCEPT !.at = "activate", !.id = i, !.active = theme[i].active])
    /\ SwitchAllOff(r)
    /\ UNCHANGED <<folder, nextTheme, broken, lapsed, themeDeaths>>

\* activate, for any theme a page showed: first every theme goes off ...
ActivateTheme(r) ==
    /\ At(r, "unsent")
    /\ \E i \in 1 .. nextTheme - 1 :
          Moves(r, [Unsent EXCEPT !.at = "find", !.id = i])
    /\ SwitchAllOff(r)
    /\ UNCHANGED <<folder, nextTheme, broken, lapsed, themeDeaths>>

\* ... then the row is loaded, if it is still there ...
FindTheme(r) ==
    LET i == themeRequest[r].id IN
    /\ At(r, "find")
    /\ \/ /\ i \in DOMAIN theme
          /\ Moves(r, [themeRequest[r] EXCEPT !.at = "activate",
                                              !.active = theme[i].active])
          /\ UNCHANGED lapsed
       \/ /\ i \notin DOMAIN theme
          /\ GoesTo(r, "done")
          /\ lapsed' = TRUE
    /\ UNCHANGED <<folder, theme, nextTheme, broken, crossed, themeDeaths>>

\* ... and updated, if its copy is not active already; the update of a row
\* that is gone throws.
UpdateTheme(r) ==
    LET q == themeRequest[r] IN
    /\ At(r, "activate")
    /\ GoesTo(r, "done")
    /\ \/ /\ ~q.active /\ q.id \in DOMAIN theme
          /\ theme' = [theme EXCEPT ![q.id].active = TRUE]
          /\ lapsed' = FALSE
       \/ /\ q.active
          /\ UNCHANGED <<theme, lapsed>>
       \/ /\ ~q.active /\ q.id \notin DOMAIN theme
          /\ lapsed' = TRUE
          /\ UNCHANGED theme
    /\ UNCHANGED <<folder, nextTheme, broken, crossed, themeDeaths>>

ThemeDie(r) ==
    /\ ~At(r, "unsent") /\ ~At(r, "done")
    /\ themeDeaths < MaxThemeDeaths
    /\ themeDeaths' = themeDeaths + 1
    /\ broken' = IF themeRequest[r].at \in OnFolder
                  THEN broken \cup {themeRequest[r].folder} ELSE broken
    /\ lapsed' = (lapsed \/ Switching(r))
    /\ GoesTo(r, "done")
    /\ UNCHANGED <<folder, theme, nextTheme, crossed>>

ThemeStep(r) ==
    \/ AddTheme(r)     \/ ProbeFolder(r)  \/ MakeFolder(r)  \/ SaveFiles(r)
    \/ CleanUp(r)      \/ ClearForNew(r)  \/ CreateTheme(r)
    \/ DeleteTheme(r)  \/ RemoveFolder(r) \/ CheckFolder(r) \/ DeleteRow(r)
    \/ ActivateTheme(r) \/ FindTheme(r)   \/ UpdateTheme(r)
    \/ ThemeDie(r)

-----------------------------------------------------------------------------
\* Only one theme is active, whatever switches, additions and deletions come
\* between: unless the last switch began while another was under way.
OneThemeActive == crossed \/ Cardinality(ActiveThemes) <= 1

\* The site has an active theme, unless a switch is under way, or was given up
\* half way, or the active one was deleted (delete_theme puts nothing in its place).
SomeThemeActive ==
    \/ ActiveThemes # {}
    \/ lapsed
    \/ \E r \in ThemeRequests : Switching(r)

\* Every theme has a folder of its own, which the requests on other themes, one
\* after the other or side by side, find taken and never remove: not so when two
\* were at work on one folder at once (both found it free, or one was deleting
\* it), or the work on it died or failed half way.
ThemeHasFolder ==
    \A i \in DOMAIN theme :
        LET f == theme[i].folder IN
        \/ f \in folder /\ \A j \in DOMAIN theme \ {i} : theme[j].folder # f
        \/ f \in shared \cup broken
        \/ \E r \in ThemeRequests :
              themeRequest[r].id = i /\ themeRequest[r].at \in {"check", "delete"}

-----------------------------------------------------------------------------
\* The invariants that the three properties follow from.
\*
\* While a switch is under way that no other has crossed, it is the only one,
\* and no theme is on.
SwitchesInv ==
    ~crossed =>
        /\ \A i, j \in ActiveThemes : i = j
        /\ \A r \in ThemeRequests : Switching(r) => ActiveThemes = {}
        /\ \A r, s \in ThemeRequests : Switching(r) /\ Switching(s) => r = s

\* A switch that will put a theme on, or be noted as given up.
Promises(r) ==
    \/ At(r, "create") /\ themeRequest[r].active
    \/ At(r, "find")
    \/ At(r, "activate") /\ ~themeRequest[r].active

LapsesInv ==
    /\ \A r \in ThemeRequests : At(r, "clear") => themeRequest[r].active
    /\ ActiveThemes # {} \/ lapsed \/ \E r \in ThemeRequests : Promises(r)

\* A deletion has the folder of its row, as long as there is that row.
DeletionsInv ==
    \A r \in ThemeRequests :
        LET q == themeRequest[r] IN
        q.at \in {"remove", "check", "delete"} =>
            /\ q.id < nextTheme
            /\ q.id \in DOMAIN theme => theme[q.id].folder = q.folder

\* The themes in a folder.
Tenants(f) == {i \in DOMAIN theme : theme[i].folder = f}

\* A folder nobody shared or broke: one request at a time is at work on it, which
\* makes it before there is a theme in it, or removes it for its only theme.
FolderInv(f) ==
    /\ \A r, s \in ThemeRequests : AtWorkOn(r, f) /\ AtWorkOn(s, f) => r = s
    /\ \A i, j \in Tenants(f) : i = j
    /\ (\A r \in ThemeRequests : ~AtWorkOn(r, f)) => f \in folder \/ Tenants(f) = {}
    /\ \A r \in ThemeRequests : AtWorkOn(r, f) =>
          /\ themeRequest[r].at \in {"mkdir", "files", "cleanup", "clear", "create"} =>
                Tenants(f) = {}
          /\ themeRequest[r].at \in {"files", "clear", "create", "remove"} => f \in folder
          /\ themeRequest[r].at \in {"remove", "check", "delete"} =>
                themeRequest[r].id \in Tenants(f)

InUse ==
    folder \cup {theme[i].folder : i \in DOMAIN theme}
           \cup {themeRequest[r].folder : r \in ThemeRequests}

ThemesInv ==
    /\ SwitchesInv
    /\ LapsesInv
    /\ DeletionsInv
    /\ \A f \in InUse \ (shared \cup broken) : FolderInv(f)

=============================================================================
