----------------------------- MODULE Navigation -----------------------------
(***************************************************************************)
(* The address bar and what it resolves to: the project list is a query    *)
(* that is loading, stale, refetched or failed; a URL naming a project the *)
(* list lacks is redirected to the remembered one; projects are created    *)
(* and deleted here and in other tabs, and the answers of those calls      *)
(* navigate.                                                               *)
(***************************************************************************)
EXTENDS Integers, FiniteSets, FiniteSetsExt

CONSTANTS
    ProjectIds,     \* project ids, as numbers in the order of their names
    Founded,        \* the projects that exist at the start
    Typo,           \* an id no project ever has
    Nowhere,        \* no project, no session, no data
    Quiet, OnItsWay,  \* a call not made, and one the server has not served
    Chat,           \* a session id a URL may carry
    MaxSteps,       \* bound: what users do
    MaxFailures     \* bound: requests for the list that fail

ASSUME NavAssumption == ProjectIds \subseteq Nat /\ Founded \subseteq ProjectIds

VARIABLES
    projects,       \* the projects table
    list,           \* the list query's data, Nowhere while it is pending
    failed,         \* the list query's error
    listRequest,        \* the list request: Quiet, OnItsWay, or its answer
    url,            \* the address bar: page, project and session
    remembered,     \* localStorage: the last project
    form,           \* the create form: "none", or the surface it is on
    creating,       \* the POST of a project: Quiet, OnItsWay, or the id it made
    deleting,       \* the DELETE: Nowhere, or the project
    steps, failures,
    confirmed,      \* ghost: ids the list ever held while they were open
    dropped         \* ghost: the projects this tab was told it deleted

navVars == <<projects, list, failed, listRequest, url, remembered, form, creating, deleting, steps,
             failures, confirmed, dropped>>

HomeRoute == [page |-> "home", project |-> Nowhere, session |-> Nowhere]
ProjectSessionRoute(p, s) == [page |-> "session", project |-> p, session |-> s]
ProjectSettingsRoute(p) == [page |-> "settings", project |-> p, session |-> Nowhere]

-----------------------------------------------------------------------------
(* useProjectIndex: a failed first load is ready, with no projects. *)
IndexStatus == IF list = Nowhere /\ ~failed THEN "loading" ELSE "ready"
Indexed == IF list = Nowhere THEN {} ELSE list

(* Mutant of Fallback: the remembered project, there or not. *)
FallbackUnchecked == IF remembered # Nowhere THEN remembered
                     ELSE IF Indexed # {} THEN Min(Indexed) ELSE Nowhere

(* The remembered project while it is listed, else the first. *)
Fallback == IF remembered \in Indexed THEN remembered
            ELSE IF Indexed # {} THEN Min(Indexed) ELSE Nowhere

ResolveProjectRoute ==
    IF IndexStatus = "loading" THEN [kind |-> "loading"]
    ELSE IF url.project \in Indexed THEN [kind |-> "ok"]
    ELSE IF Fallback # Nowhere
    THEN [kind |-> "redirect", to |-> ProjectSessionRoute(Fallback, url.session)]
    ELSE [kind |-> "not-found"]

Redirecting == url.page # "home" /\ ResolveProjectRoute.kind = "redirect"

(* Navigating away unmounts a form or a confirmation the page held: the      *)
(* answer of its call then navigates nowhere.  The rail's modal stays.       *)
GoTo(to) ==
    /\ url' = to
    /\ form' = IF form = "home" /\ to.page # "home" THEN "none" ELSE form

-----------------------------------------------------------------------------
(* ProjectRoute's effects: <Navigate replace>, or writing the memory. *)
FollowRedirect ==
    /\ Redirecting
    /\ GoTo(ResolveProjectRoute.to)
    /\ UNCHANGED <<projects, list, failed, listRequest, remembered, creating, deleting, steps, failures,
                   confirmed, dropped>>

(* Only a project known to exist is remembered. *)
Remember ==
    /\ url.page # "home" /\ ResolveProjectRoute.kind = "ok" /\ remembered # url.project
    /\ remembered' = url.project
    /\ UNCHANGED <<projects, list, failed, listRequest, url, form, creating, deleting, steps, failures,
                   confirmed, dropped>>

-----------------------------------------------------------------------------
(* The list query. *)

ListServed ==
    /\ listRequest = OnItsWay /\ listRequest' = projects
    /\ UNCHANGED <<projects, list, failed, url, remembered, form, creating, deleting, steps, failures,
                   confirmed, dropped>>

ListArrives ==
    /\ listRequest \notin {Quiet, OnItsWay}
    /\ list' = listRequest /\ failed' = FALSE /\ listRequest' = Quiet
    /\ confirmed' = confirmed \cup listRequest
    /\ UNCHANGED <<projects, url, remembered, form, creating, deleting, steps, failures, dropped>>

(* After its retry a failure is an error; the data of an earlier answer stays. *)
ListFails ==
    /\ listRequest # Quiet /\ failures < MaxFailures /\ failures' = failures + 1
    /\ failed' = TRUE /\ listRequest' = Quiet
    /\ UNCHANGED <<projects, list, url, remembered, form, creating, deleting, steps, confirmed, dropped>>

(* An invalidated query is asked again; a request on its way is dropped. *)
Invalidate == listRequest' = OnItsWay

Step == steps < MaxSteps /\ steps' = steps + 1

(* A query that has gone stale, or has failed, is asked again when a surface *)
(* that reads it mounts.                                                     *)
Refetch ==
    /\ Step /\ listRequest = Quiet /\ listRequest' = OnItsWay
    /\ UNCHANGED <<projects, list, failed, url, remembered, form, creating, deleting, failures,
                   confirmed, dropped>>

-----------------------------------------------------------------------------
(* What users do. *)

(* A link, a bookmark, the palette or the rail. *)
Browse(to) ==
    /\ Step /\ to # url /\ GoTo(to)
    /\ UNCHANGED <<projects, list, failed, listRequest, remembered, creating, deleting, failures, confirmed,
                   dropped>>

(* The page's form at home (open by itself when there are no projects), the  *)
(* switcher's modal inside a project.                                        *)
OpenForm ==
    /\ Step /\ form = "none" /\ IndexStatus = "ready"
    /\ \/ url.page = "home" /\ form' = "home"
       \/ url.page # "home" /\ url.project \in Indexed /\ form' = "rail"
    /\ UNCHANGED <<projects, list, failed, listRequest, url, remembered, creating, deleting, failures,
                   confirmed, dropped>>

CloseForm ==
    /\ Step /\ form # "none" /\ form' = "none"
    /\ UNCHANGED <<projects, list, failed, listRequest, url, remembered, creating, deleting, failures,
                   confirmed, dropped>>

SubmitForm ==
    /\ Step /\ form # "none" /\ creating = Quiet /\ creating' = OnItsWay
    /\ UNCHANGED <<projects, list, failed, listRequest, url, remembered, form, deleting, failures,
                   confirmed, dropped>>

CreateServed(p) ==
    /\ creating = OnItsWay /\ p \notin projects \cup confirmed \cup dropped
    /\ projects' = projects \cup {p} /\ creating' = p
    /\ UNCHANGED <<list, failed, listRequest, url, remembered, form, deleting, steps, failures, confirmed,
                   dropped>>

(* The list is invalidated and not awaited; a form still mounted closes and  *)
(* navigates.                                                                *)
CreateAnswered ==
    /\ creating \in ProjectIds /\ creating' = Quiet
    /\ Invalidate
    /\ IF form = "none" THEN UNCHANGED <<url, form>>
       ELSE url' = ProjectSessionRoute(creating, Nowhere) /\ form' = "none"
    /\ UNCHANGED <<projects, list, failed, remembered, deleting, steps, failures, confirmed, dropped>>

(* The advanced settings of the open project. *)
DeleteProject ==
    /\ Step /\ url.page = "settings" /\ ResolveProjectRoute.kind = "ok"
    /\ deleting = Nowhere /\ deleting' = url.project
    /\ UNCHANGED <<projects, list, failed, listRequest, url, remembered, form, creating, failures,
                   confirmed, dropped>>

(* Served and answered: the list is invalidated, and the page, if it is      *)
(* still there, goes home.                                                   *)
DeleteAnswered ==
    /\ deleting # Nowhere /\ deleting' = Nowhere
    /\ projects' = projects \ {deleting} /\ dropped' = dropped \cup {deleting}
    /\ Invalidate
    /\ IF url = ProjectSettingsRoute(deleting) THEN GoTo(HomeRoute) ELSE UNCHANGED <<url, form>>
    /\ UNCHANGED <<list, failed, remembered, creating, steps, failures, confirmed>>

(* Another tab deletes a project. *)
OtherTab(p) ==
    /\ Step /\ p \in projects /\ projects' = projects \ {p}
    /\ UNCHANGED <<list, failed, listRequest, url, remembered, form, creating, deleting, failures,
                   confirmed, dropped>>

-----------------------------------------------------------------------------
Destinations ==
    {HomeRoute} \cup {ProjectSettingsRoute(p) : p \in Indexed}
        \cup {ProjectSessionRoute(p, s) : p \in Indexed \cup {Typo}, s \in {Nowhere, Chat}}

(* A cold start: any address, the memory of an earlier visit, the list asked. *)
NavInit ==
    /\ projects = Founded /\ list = Nowhere /\ failed = FALSE /\ listRequest = OnItsWay
    /\ url \in {HomeRoute} \cup {ProjectSessionRoute(p, Chat) : p \in Founded \cup {Typo}}
    /\ remembered \in {Nowhere} \cup Founded
    /\ form = "none" /\ creating = Quiet /\ deleting = Nowhere
    /\ steps = 0 /\ failures = 0
    /\ confirmed = {remembered} \ {Nowhere} /\ dropped = {}

NavNext ==
    \/ FollowRedirect \/ Remember
    \/ ListServed \/ ListArrives \/ ListFails \/ Refetch
    \/ \E to \in Destinations : Browse(to)
    \/ OpenForm \/ CloseForm \/ SubmitForm
    \/ \E p \in ProjectIds : CreateServed(p)
    \/ CreateAnswered
    \/ DeleteProject \/ DeleteAnswered
    \/ \E p \in ProjectIds : OtherTab(p)

(* React runs its effects, and every call is answered. *)
NavFairness ==
    /\ WF_navVars(FollowRedirect \/ Remember)
    /\ WF_navVars(ListServed \/ ListArrives)
    /\ WF_navVars(CreateAnswered \/ \E p \in ProjectIds : CreateServed(p))
    /\ WF_navVars(DeleteAnswered)

NavSpec == NavInit /\ [][NavNext]_navVars /\ NavFairness

-----------------------------------------------------------------------------
(* The memory holds only ids a list confirmed: an address mistyped, or       *)
(* visited before the list was there, is not where a later dead address      *)
(* leads (project-route.tsx, the effect on resolvedProjectId).               *)
RemembersReal == remembered = Nowhere \/ remembered \in confirmed

(* Redirects end: once users rest, the address comes to rest on a listed     *)
(* project, at home or on a card, whatever was remembered and deleted        *)
(* (resolveProjectRoute).                                                    *)
RouteSettles == <>[](~Redirecting)

(* A project deleted here does not stay open: the page that asked goes home, *)
(* and when the user walked away from it inside the project before the       *)
(* answer, the refetched list closes it, unless that refetch failed and its  *)
(* error is still there (useDeleteProject, ProjectRoute).                    *)
DeletedLeft ==
    []<>(failed \/ url.project \notin dropped \/ ResolveProjectRoute.kind # "ok")

(* Routes are sound: the memory is confirmed, redirects end, and a deleted *)
(* project does not stay open.                                             *)
RouteSound == /\ []RemembersReal
              /\ RouteSettles
              /\ DeletedLeft
=============================================================================
