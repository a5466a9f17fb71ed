---------------------------- MODULE CompanyScope ----------------------------
(***************************************************************************)
(* The company and the financial year one browser tab of the web client    *)
(* works in, from the link or the storage they come from to the requests,  *)
(* the rows and the files they scope.                                      *)
(*                                                                         *)
(* CompanyProvider loads the companies and then one company's years.  An   *)
(* answer queues a state change; React renders it in a later task, and     *)
(* runs the effects (which abort the requests of the render before and     *)
(* send new ones) in a task after that, before it renders again; so other  *)
(* answers come in between.                                                *)
(* A click is rendered, and its effects are run, before anything else.     *)
(* The effects of a screen run before those of AccessProvider, and these   *)
(* before those of CompanyProvider.                                        *)
(*                                                                         *)
(* A year stands for the year and the branch, which are asked for, checked,*)
(* remembered and picked alike.  Manage and the API are external: a        *)
(* request is answered, fails, or is given up after 30 s.                  *)
(***************************************************************************)
EXTENDS Naturals

CONSTANTS
    Companies,  \* companies in Manage
    Years,      \* their financial years
    YearOf,     \* the company of a year
    Current,    \* the year pickFyForDate() picks for a company, or None
    CanRead,    \* companies in which the user may read the master on screen
    CanWrite,   \* companies in which the user may create one
    Before(_, _),  \* Manage's order of companies
    Absent,     \* a parameter the link does not have
    Unreadable, \* a parameter that is not an id
    None,       \* no company, year or scope
    Links,      \* the links the user follows
    MaxVisits,  \* bound on document loads
    MaxFaults   \* bound on requests that fail or are given up

ASSUME ScopeAssumption ==
    /\ YearOf \in [Years -> Companies]
    /\ Current \in [Companies -> Years \cup {None}]
    /\ \A c \in Companies :
          IF \E y \in Years : YearOf[y] = c THEN Current[c] \in Years /\ YearOf[Current[c]] = c
                                            ELSE Current[c] = None
    /\ \A s \in SUBSET Companies : s # {} => \E c \in s : \A d \in s \ {c} : Before(c, d)
    /\ CanRead \subseteq Companies /\ CanWrite \subseteq CanRead
    /\ {Absent, Unreadable, None} \cap (Companies \cup Years) = {} /\ None \notin [cmp : Companies, fy : Years]
    /\ Absent # Unreadable /\ None \notin {Absent, Unreadable}
    /\ Links \subseteq [cmp : Companies \cup {Absent, Unreadable}, fy : Years \cup {Absent, Unreadable}]
    /\ MaxVisits \in Nat /\ MaxFaults \in Nat

VARIABLES
    mine,       \* the companies Manage lists for the user
    stored,     \* localStorage, shared by the tabs of the browser
    shared,     \* ghost: another tab has written to it
    url,        \* the scope parameters in the address bar
    router,     \* those in react-router's own copy of the location
    new,        \* ?new=1 in the address bar
    path,       \* the page the link opens, or another (the dashboard: home)
    asked,      \* urlScope.current: what of the link is still to be settled
    refused,    \* refusedCompany.current
    linked,     \* ghost: the link of this visit, until the user picks or is warned of it
    named,      \* ghost: the company the link's page belongs to
    picked,     \* ghost: the company last switched to since the link, or None
                \* while react-router has put the name of another in the address bar
    st,         \* CompanyProvider's state, with the changes queued for it
    list,       \* effect 1's request is out
    info,       \* effect 2: the company it last ran for, its request out
    access,     \* AccessProvider's query
    ui,         \* what the last render used
    active,     \* activeScope of services/api.ts
    page,       \* the screen: its query and its form
    stage,      \* what React has left to do
    retried,    \* ghost: reload() was called in this visit
    lost,       \* ghost: a request of this visit was given up after 30 s
    visits, faults

vars == <<mine, stored, shared, url, router, new, path, asked, refused, linked, named, picked, st, list, info,
          access, ui, active, page, stage, retried, lost, visits, faults>>

browser == <<mine, stored, shared>>
link == <<router, path, asked, refused, linked, named, picked>>
react == <<ui, active, page, stage>>
visit == <<retried, lost, visits>>

Scopes == [cmp : Companies, fy : Years]
NoLink == [cmp |-> Absent, fy |-> Absent]
NoPage == [data |-> None, call |-> None, ran |-> <<None, FALSE>>, form |-> "none"]

TypeOK ==
    /\ mine \subseteq Companies
    /\ stored \in [cmp : Companies \cup {None}, fy : Years \cup {None}]
    /\ {url, router, asked} \subseteq Links \cup {NoLink}
    /\ linked \in [cmp : Companies \cup {Absent, Unreadable}, fy : Years \cup {Absent, Unreadable}]
    /\ named \in Companies \cup {Absent, Unreadable} /\ picked \in Companies \cup {None}
    /\ {shared, new, refused, list, retried, lost} \subseteq BOOLEAN
    /\ path \in {"record", "home"}
    /\ st \in [status : {"loading", "ready", "empty", "error"}, warn : BOOLEAN, companies : SUBSET Companies,
               cmp : Companies \cup {None}, years : SUBSET Years, fy : Years \cup {None}]
    /\ info \in [of : Companies \cup {None}, out : BOOLEAN]
    /\ access \in [data : Companies \cup {None}, loading : BOOLEAN, of : Companies \cup {None}, out : BOOLEAN]
    /\ ui \in [cmp : Companies \cup {None}, scope : Scopes \cup {None},
               perms : Companies \cup {None}, wait : BOOLEAN]
    /\ active \in Scopes \cup {None}
    /\ page \in [data : Scopes \cup {None}, call : Scopes \cup {None},
                 ran : (Scopes \cup {None}) \X BOOLEAN, form : {"none", "opened", "shut"}]
    /\ stage \in {"idle", "render", "effects"}
    /\ visits \in 0..MaxVisits /\ faults \in 0..MaxFaults

-----------------------------------------------------------------------------
(* urlScope.ts                                                             *)

YearsOf(c) == {y \in Years : YearOf[y] = c}

Id(a) == a \notin {Absent, Unreadable}

\* scopeForCompany(): a link that names another company asks nothing here.
ForCompany(l, c) == IF Id(l.cmp) /\ l.cmp # c THEN NoLink ELSE l

\* resolveRequestedCompany(), resolveUnreadableScope()
CompanyRefused(l) == l.cmp # Absent /\ l.cmp \notin mine
ScopeRefused(l) == CompanyRefused(l) \/ l.fy = Unreadable

\* resolveRequestedFy(), resolveRequestedBranch()
YearTaken(l, c) == FALSE
YearRefused(l, c) == l.fy # Absent /\ l.fy \notin YearsOf(c)

\* forgetUrlScope(): the ref is null and the parameters leave the address bar,
\* but not react-router's copy of it.
KeptLink == url
Cleared == IF asked = NoLink THEN url ELSE NoLink

\* A switch to c does not last if the link is back in the address bar by then,
\* where forgetUrlScope() leaves it, or is put back later.
Lasts(c, bar) == IF bar.cmp \in {Absent, c} THEN c ELSE None

-----------------------------------------------------------------------------
(* Rendering.                                                              *)

OnceLoaded(s) == IF s.cmp # None THEN [cmp |-> s.cmp, fy |-> s.fy] ELSE None
ScopeOf(s) ==
    IF s.status = "ready" /\ s.cmp # None /\ s.fy # None THEN [cmp |-> s.cmp, fy |-> s.fy] ELSE None

UiOf(s) ==
    LET sc == ScopeOf(s) IN
    [cmp |-> s.cmp, scope |-> sc, perms |-> access.data, wait |-> access.loading /\ sc # None]

\* useQuery drops the rows of another scope while it renders (resetKey).
KeepsRows(sc) == page.data
RowsFor(sc) == IF sc = ui.scope THEN page.data ELSE None

\* AppShell mounts the screen while the company is ready.
PageOf(u) == IF u.scope = None THEN NoPage ELSE [page EXCEPT !.data = RowsFor(u.scope)]

\* The scope a screen's effect finds in services/api.ts: it is registered
\* while CompanyProvider renders, before any effect.
RegisteredInEffect(u) == active
Registered(u) == u.scope

\* AccessProvider's query: run again for another company.  It drops what it
\* knew in its effect, and only when there is a company to ask about.
KeepsAnswer(u) ==
    LET c == IF u.scope = None THEN None ELSE u.scope.cmp IN
    IF c = access.of THEN access
    ELSE [access EXCEPT !.loading = c # None, !.of = c, !.out = c # None]
AccessFor(u) ==
    LET c == IF u.scope = None THEN None ELSE u.scope.cmp IN
    IF c = access.of THEN access
    ELSE IF c = None THEN [access EXCEPT !.loading = FALSE, !.of = None, !.out = FALSE]
    ELSE [data |-> None, loading |-> TRUE, of |-> c, out |-> TRUE]

\* The effects of a render, in their order: the screen's form and query, the
\* permissions, the company's details.
Effects(u, p, again, n, bar) ==
    LET reads == u.scope # None /\ u.perms \in CanRead
        arrives == n /\ u.scope # None /\ ~u.wait
        ran == <<u.scope, reads>>
    IN
    /\ new' = (n /\ ~arrives)
    /\ url' = IF arrives THEN router ELSE bar
    /\ page' = [p EXCEPT !.form = IF ~arrives THEN @ ELSE IF u.perms \in CanWrite THEN "opened" ELSE "shut",
                         !.ran = ran,
                         !.call = IF ran = p.ran THEN @ ELSE IF reads THEN Registered(u) ELSE None]
    /\ access' = AccessFor(u)
    /\ info' = IF again \/ u.cmp # info.of THEN [of |-> u.cmp, out |-> u.cmp # None] ELSE info
    /\ stage' = IF access' = access /\ u = UiOf(st') THEN "idle" ELSE "render"

\* An answer leaves its change to the next render, which comes after the
\* effects of the last one.
Changed == IF stage = "effects" THEN stage ELSE "render"
Queue(s) == st' = s /\ stage' = IF s = st THEN stage ELSE Changed

Render ==
    /\ stage = "render"
    /\ ui' = UiOf(st) /\ active' = ui'.scope
    /\ page' = PageOf(ui')
    /\ stage' = "effects"
    /\ UNCHANGED <<browser, link, url, new, st, list, info, access, visit, faults>>

\* Once ?new=1 is spent, the address bar is react-router's.
Arrived == picked' = IF new /\ ~new' THEN Lasts(picked, router) ELSE picked

RunEffects ==
    /\ stage = "effects"
    /\ UNCHANGED <<browser, router, path, asked, refused, linked, named, st, list, ui, active, visit, faults>>
    /\ Effects(ui, page, FALSE, new, url) /\ Arrived

\* A click is rendered and its effects are run at once.
Clicked(s, again, n, bar) ==
    /\ st' = s
    /\ ui' = UiOf(s) /\ active' = ui'.scope
    /\ Effects(ui', PageOf(ui'), again, n, bar)

-----------------------------------------------------------------------------
(* CompanyProvider: a document load and the answers to its two requests.   *)

Loading == [status |-> "loading", warn |-> FALSE, companies |-> {}, cmp |-> None, years |-> {}, fy |-> None]

Load ==
    /\ visits < MaxVisits /\ visits' = visits + 1
    /\ refused' = FALSE /\ retried' = FALSE /\ lost' = FALSE
    /\ st' = Loading /\ list' = TRUE /\ info' = [of |-> None, out |-> FALSE]
    /\ access' = [data |-> None, loading |-> FALSE, of |-> None, out |-> FALSE]
    /\ ui' = [cmp |-> None, scope |-> None, perms |-> None, wait |-> FALSE] /\ active' = None
    /\ page' = NoPage /\ stage' = "idle"
    /\ UNCHANGED <<browser, faults>>

Visit(l, n) ==
    /\ Load
    /\ url' = l /\ router' = l /\ asked' = l /\ linked' = l /\ named' = l.cmp
    /\ picked' = None /\ new' = n /\ path' = "record"

\* The address bar as it is, loaded again.
Refresh ==
    /\ Load
    /\ router' = url /\ asked' = url
    /\ UNCHANGED <<url, linked, named, picked, new, path>>

Fault == faults < MaxFaults /\ faults' = faults + 1

First(s) == CHOOSE c \in s : \A d \in s \ {c} : Before(c, d)

\* The company the link asks for, else the remembered one, else the first.
RememberedFirst(l) ==
    IF stored.cmp \in mine THEN stored.cmp ELSE IF Id(l.cmp) THEN l.cmp ELSE First(mine)
Chosen(l) ==
    IF Id(l.cmp) THEN l.cmp ELSE IF stored.cmp \in mine THEN stored.cmp ELSE First(mine)

ListAnswers ==
    /\ list /\ list' = FALSE
    /\ refused' = (mine # {} /\ ScopeRefused(asked))
    /\ Queue(IF mine = {} THEN [st EXCEPT !.status = "empty", !.companies = {}, !.cmp = None]
             ELSE IF refused' THEN [Loading EXCEPT !.status = "error", !.companies = mine]
             ELSE [st EXCEPT !.status = "loading", !.companies = mine, !.cmp = Chosen(asked)])
    /\ UNCHANGED <<browser, url, router, path, asked, linked, named, picked, new, info, access, ui, active,
                   page, visit, faults>>

ListFails ==
    /\ list /\ list' = FALSE /\ Fault
    /\ Queue([st EXCEPT !.status = "error"])
    /\ UNCHANGED <<browser, link, url, new, info, access, ui, active, page, visit>>

\* The company's years: the one the link asks for, else the remembered one of
\* this company, else the current one.
InfoAnswers ==
    LET c == info.of
        l == ForCompany(asked, c)
        kept == IF stored.cmp = c /\ stored.fy \in YearsOf(c) THEN stored.fy ELSE Current[c]
        fy == IF l.fy # Absent THEN l.fy ELSE kept
        known == [st EXCEPT !.warn = FALSE, !.years = YearsOf(c)]
    IN
    /\ info.out /\ info' = [info EXCEPT !.out = FALSE]
    /\ IF YearRefused(l, c)
       THEN /\ Queue([known EXCEPT !.status = "error", !.fy = kept])
            /\ UNCHANGED <<stored, url, asked>>
       ELSE /\ stored' = [cmp |-> c, fy |-> fy]
            /\ IF l # NoLink THEN asked' = NoLink /\ url' = Cleared ELSE UNCHANGED <<url, asked>>
            /\ Queue([known EXCEPT !.status = IF fy = None THEN "error" ELSE "ready", !.fy = fy])
    /\ UNCHANGED <<mine, shared, router, path, refused, linked, named, picked, new, list, access, ui, active,
                   page, visit, faults>>

\* Manage is down: the year the link asks for, unchecked, else the remembered one.
InfoFails ==
    LET c == info.of
        l == ForCompany(asked, c)
        degraded == [st EXCEPT !.status = "ready", !.warn = TRUE, !.years = {}]
    IN
    /\ info.out /\ info' = [info EXCEPT !.out = FALSE] /\ Fault
    /\ IF Id(l.fy)
       THEN /\ stored' = [cmp |-> c, fy |-> l.fy] /\ asked' = NoLink /\ url' = Cleared
            /\ linked' = [linked EXCEPT !.fy = Absent]
            /\ Queue([degraded EXCEPT !.fy = l.fy])
       ELSE /\ UNCHANGED <<stored, url, asked, linked>>
            /\ Queue(IF stored.cmp = c /\ stored.fy # None THEN [degraded EXCEPT !.fy = stored.fy]
                                                          ELSE [st EXCEPT !.status = "error"])
    /\ UNCHANGED <<mine, shared, router, path, refused, named, picked, new, list, access, ui, active, page, visit>>

\* isAbortError() is true of a request given up after 30 s as well: nothing is done.
GivenUp ==
    /\ \/ list /\ list' = FALSE /\ UNCHANGED <<info, access>>
       \/ info.out /\ info' = [info EXCEPT !.out = FALSE] /\ UNCHANGED <<list, access>>
       \/ access.out /\ access' = [access EXCEPT !.out = FALSE] /\ UNCHANGED <<list, info>>
    /\ Fault /\ lost' = TRUE
    /\ UNCHANGED <<browser, link, url, new, st, react, retried, visits>>

-----------------------------------------------------------------------------
(* What the user does.  The switcher is there once companies are listed.   *)

Settled == stage = "idle"

\* A pick of the company already open changes nothing: its effect would not run again.
NeverOpen(c) == FALSE
Open(c) == c = st.cmp

\* selectCompany(): a pick overrules the link, and leaves the page of a company
\* that was refused.
PickCompany(c) ==
    /\ Settled /\ c \in st.companies
    /\ asked' = NoLink /\ linked' = NoLink /\ refused' = FALSE
    /\ picked' = IF Open(c) THEN picked ELSE IF asked = NoLink THEN Lasts(c, url) ELSE c
    /\ IF refused THEN path' = "home" /\ router' = NoLink ELSE UNCHANGED <<path, router>>
    /\ IF Open(c)
       THEN url' = Cleared /\ UNCHANGED <<stored, st, ui, active, new, page, access, info, stage>>
       ELSE /\ stored' = [cmp |-> c, fy |-> None]
            /\ Clicked([Loading EXCEPT !.companies = st.companies, !.cmp = c], FALSE, new /\ ~refused, Cleared)
    /\ UNCHANGED <<mine, shared, named, list, visit, faults>>

\* selectFy(), selectBranch(): the switcher is disabled while a company loads.
PickYear(y) ==
    /\ Settled /\ st.status # "loading" /\ y \in st.years
    /\ asked' = NoLink /\ linked' = NoLink
    /\ IF y = st.fy /\ st.status = "ready"
       THEN url' = Cleared /\ UNCHANGED <<stored, picked, st, ui, active, new, page, access, info, stage>>
       ELSE /\ stored' = [stored EXCEPT !.fy = y]
            /\ Clicked([st EXCEPT !.status = "ready", !.fy = y], FALSE, new, Cleared)
            /\ Arrived
    /\ UNCHANGED <<mine, shared, router, path, refused, named, list, visit, faults>>

\* reload(): both effects run again, side by side.
Retry ==
    /\ Settled /\ st.status \in {"error", "empty"}
    /\ list' = TRUE /\ retried' = TRUE
    /\ Clicked([st EXCEPT !.status = "loading"], TRUE, new, url)
    /\ UNCHANGED <<browser, link, lost, visits, faults>>

\* A link inside the app, to another page, which Quick Create gives ?new=1.
Navigate(n) ==
    /\ Settled /\ ui.scope # None
    /\ url' = NoLink /\ router' = NoLink /\ path' = "home" /\ new' = n
    /\ page' = NoPage /\ stage' = "render"
    /\ UNCHANGED <<browser, asked, refused, linked, named, picked, st, list, info, access, ui, active, visit, faults>>

\* A search or a filter of a list: useListParams() writes react-router's copy
\* of the parameters back with it.
Filter ==
    /\ Settled /\ ui.scope # None
    /\ url' = router /\ picked' = Lasts(picked, router)
    /\ UNCHANGED <<browser, router, path, asked, refused, linked, named, new, st, list, info, access, react, visit, faults>>

\* Another tab of the browser, in any company and year, or picking a year.
OtherTab ==
    /\ \E c \in mine, y \in Years :
          \/ stored' = [cmp |-> c, fy |-> None]
          \/ YearOf[y] = c /\ stored' = [cmp |-> c, fy |-> y]
          \/ YearOf[y] = c /\ stored' = [stored EXCEPT !.fy = y]
    /\ shared' = TRUE
    /\ UNCHANGED <<mine, link, url, new, st, list, info, access, react, visit, faults>>

-----------------------------------------------------------------------------
(* The screen: its permissions and its rows.                               *)

AccessAnswers ==
    /\ access.out
    /\ \/ access' = [access EXCEPT !.data = access.of, !.loading = FALSE, !.out = FALSE] /\ UNCHANGED faults
       \/ access' = [access EXCEPT !.loading = FALSE, !.out = FALSE] /\ Fault
    /\ stage' = Changed
    /\ UNCHANGED <<browser, link, url, new, st, list, info, ui, active, page, visit>>

PageAnswers ==
    /\ page.call # None
    /\ page' = [page EXCEPT !.data = page.call, !.call = None]
    /\ UNCHANGED <<browser, link, url, new, st, list, info, access, ui, active, stage, visit, faults>>

-----------------------------------------------------------------------------
Init ==
    /\ mine \in SUBSET Companies
    /\ stored = [cmp |-> None, fy |-> None] /\ shared = FALSE
    /\ url = NoLink /\ router = NoLink /\ asked = NoLink /\ linked = NoLink /\ named = Absent /\ picked = None
    /\ new = FALSE /\ path = "home"
    /\ refused = FALSE /\ retried = FALSE /\ lost = FALSE
    /\ st = Loading /\ list = TRUE /\ info = [of |-> None, out |-> FALSE]
    /\ access = [data |-> None, loading |-> FALSE, of |-> None, out |-> FALSE]
    /\ ui = [cmp |-> None, scope |-> None, perms |-> None, wait |-> FALSE] /\ active = None
    /\ page = NoPage /\ stage = "idle"
    /\ visits = 0 /\ faults = 0

Next ==
    \/ \E l \in Links, n \in BOOLEAN : Visit(l, n)
    \/ Refresh
    \/ ListAnswers \/ ListFails \/ InfoAnswers \/ InfoFails \/ GivenUp
    \/ Render \/ RunEffects
    \/ \E c \in Companies : PickCompany(c)
    \/ \E y \in Years : PickYear(y)
    \/ Retry \/ (\E n \in BOOLEAN : Navigate(n)) \/ Filter \/ OtherTab
    \/ AccessAnswers \/ PageAnswers

Spec == Init /\ [][Next]_vars

-----------------------------------------------------------------------------
(***************************************************************************)
(* "A scope the user cannot open is refused, never quietly swapped": until *)
(* the user picks, a link opens its own company and year or nothing, on    *)
(* every load of the address bar it leaves behind; and its page is never   *)
(* shown for a company that was refused.                                   *)
(***************************************************************************)
LinkNeverSwapped ==
    ui.scope # None =>
        /\ path = "record" => named \in mine \cup {Absent}
        /\ ~shared => linked.cmp \in {Absent, ui.scope.cmp} /\ linked.fy \in {Absent, ui.scope.fy}

(***************************************************************************)
(* The year is one of the company's, unless the screen warns that Manage   *)
(* could not confirm it, or reload() has set the two requests against each *)
(* other.                                                                  *)
(***************************************************************************)
ScopeOfOneCompany ==
    ui.scope # None /\ ~retried /\ ~st.warn => YearOf[ui.scope.fy] = ui.scope.cmp

(***************************************************************************)
(* The rows on screen are those of the company and the year it names, and  *)
(* the rows asked for are those of the last scope its effects ran for.     *)
(* After reload() a year may change under a mounted screen with no click.  *)
(***************************************************************************)
ScreenShowsItsScope ==
    /\ page.data # None /\ ~retried => page.data = ui.scope
    /\ page.call # None => page.call = page.ran[1]

(***************************************************************************)
(* A tab that says it is loading has a request out or a render to come,    *)
(* unless one was given up or reload() was called.                         *)
(***************************************************************************)
LoadingHasCause ==
    st.status = "loading" /\ ~lost /\ ~retried => list \/ info.out \/ stage # "idle"

(***************************************************************************)
(* Quick Create opens the form in a company where the user may create, and *)
(* not on what the user may do in the company the tab was in before, save  *)
(* when reload() goes from one company straight to another.                *)
(***************************************************************************)
FormIsAllowed == page.form = "opened" /\ ~retried => ui.scope # None /\ ui.scope.cmp \in CanWrite

(***************************************************************************)
(* "A later switch from the switcher is not undone by an address bar still *)
(* naming the old one": while only this tab writes to the storage, the     *)
(* company the user switched to is opened by every load, until the user    *)
(* picks another or follows a link, or a filter or ?new=1 puts the name of *)
(* another company back in the address bar.                                *)
(***************************************************************************)
SwitchNotUndone == ui.scope # None /\ picked # None /\ ~shared => ui.scope.cmp = picked
=============================================================================
