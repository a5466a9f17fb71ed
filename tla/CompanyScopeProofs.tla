------------------------- MODULE CompanyScopeProofs -------------------------
(***************************************************************************)
(* Proofs about CompanyScope: every property its run checks, for any       *)
(* companies, years, links, permissions and bounds.                        *)
(*                                                                         *)
(* Most of the invariant relates state that is set at different times: the *)
(* link, the storage and the address bar; the provider's state, what the   *)
(* last render used, and the company each request was sent for.  The parts *)
(* that hold of any two requests at once come first; those that need       *)
(* them to come one after the other (InTurn, OneScope, Permitted) hold     *)
(* until reload().  An action is first said in flat form (its ...Do        *)
(* lemma); each part of the invariant then has one lemma, with one step    *)
(* for each action.                                                        *)
(***************************************************************************)
EXTENDS CompanyScope, TLAPS

-----------------------------------------------------------------------------
(* The inductive invariant, in the parts the properties are proved from.   *)

Shown == ScopeOf(st)
CompanyOf(sc) == IF sc = None THEN None ELSE sc.cmp

\* What is in play is the user's own, and a request is about a company.
Mine ==
    /\ {stored.cmp, st.cmp, info.of, ui.cmp} \subseteq mine \cup {None}
    /\ st.companies \subseteq mine
    /\ info.out => info.of # None
    /\ access.out => access.of # None

\* A tab with nothing left to do shows its state, and its effects ran for it.
Idle ==
    /\ ui.scope # None => ui.scope.cmp = ui.cmp
    /\ stage = "idle" => /\ ui = UiOf(st)
                         /\ info.of = ui.cmp
                         /\ access.of = CompanyOf(ui.scope)

\* The two requests come one after the other.
InTurn ==
    /\ list => st = Loading /\ stage = "idle" /\ ui.scope = None /\ info.of = None /\ ~info.out
    /\ info.out => st.status = "loading" /\ info.of = st.cmp
    /\ st.cmp # info.of => st.status = "loading" /\ st.cmp # None
    /\ stage = "effects" => ui.cmp = st.cmp
    /\ ui.scope # None => Shown = ui.scope
    /\ st.years \subseteq YearsOf(st.cmp)
    /\ Shown # None /\ ~st.warn => YearOf[st.fy] = st.cmp
    /\ st.status = "loading" /\ ~lost => list \/ info.out \/ st.cmp # info.of

\* The rows asked for, and those on screen.
Rows ==
    /\ page.call # None => page.call = page.ran[1]
    /\ ui.scope = None => page = NoPage

OneScope ==
    /\ page.call # None => page.call = ui.scope
    /\ page.data # None => page.data = ui.scope

\* What is known of the user's permissions, and of which company.
Answer ==
    /\ access.loading => access.data = None
    /\ access.of # None => access.data \in {None, access.of}
    /\ new /\ stage = "idle" /\ ui.scope # None => ui.wait

Permitted ==
    /\ access.out => ui.scope # None /\ access.of = ui.scope.cmp
    /\ new /\ ui.scope # None /\ ~ui.wait => ui.perms \in {None, ui.scope.cmp}
    /\ new /\ Shown # None /\ ~access.loading => access.data \in {None, st.cmp}
    /\ new /\ Shown = None => access.data = None
    /\ page.form = "opened" => ui.scope # None /\ ui.scope.cmp \in CanWrite

\* A link that is refused is asked again by every load.
Foreign == path = "record" /\ named \notin mine \cup {Absent}
Refusal ==
    /\ ScopeRefused(asked) =>
          st.cmp = None /\ ui.cmp = None /\ st.years = {} /\ info = [of |-> None, out |-> FALSE]
    /\ Foreign =>
          asked.cmp = named /\ url.cmp = named /\ (st.companies = {} \/ refused)

\* The companies the provider may hold, when only c may be loaded.
Only(c) == {st.cmp, ui.cmp, info.of} \subseteq {None, c}

\* The user's switch.
Switched ==
    picked # None /\ ~shared =>
        /\ stored.cmp = picked /\ picked \in mine
        /\ asked.cmp \in {Absent, picked} /\ url.cmp \in {Absent, picked}
        /\ Only(picked)

\* The link is still to be settled, or it is what the storage remembers.
Names(r, l) == l.cmp \in {Absent, r.cmp} /\ l.fy \in {Absent, r.fy}
Kept ==
    /\ Names(stored, linked) /\ stored.cmp \in mine
    /\ linked.fy # Absent => linked.fy \in YearsOf(stored.cmp)
Holds(r) == Names(r, linked) \/ (r = NoLink /\ Kept)
Followed ==
    ~shared /\ linked # NoLink =>
        /\ Holds(asked) /\ Holds(url) /\ Holds(router)
        /\ mine # {} => Only(Chosen(asked))
        /\ Shown # None => Names(Shown, linked) /\ Kept
        /\ ui.scope # None => Names(ui.scope, linked)

Inv ==
    /\ TypeOK /\ Mine /\ Idle /\ Rows /\ Answer /\ Refusal /\ Switched /\ Followed
    /\ ~retried => InTurn /\ OneScope /\ Permitted

-----------------------------------------------------------------------------
(* Types.                                                                  *)

Bars == Links \cup {NoLink}
Places == Scopes \cup {None}
Some == Companies \cup {None}
StateType ==
    [status : {"loading", "ready", "empty", "error"}, warn : BOOLEAN, companies : SUBSET Companies,
     cmp : Some, years : SUBSET Years, fy : Years \cup {None}]
InfoType == [of : Some, out : BOOLEAN]
AccessType == [data : Some, loading : BOOLEAN, of : Some, out : BOOLEAN]
UiType == [cmp : Some, scope : Places, perms : Some, wait : BOOLEAN]
PageType == [data : Places, call : Places, ran : Places \X BOOLEAN, form : {"none", "opened", "shut"}]

LinkType == [cmp : Companies \cup {Absent, Unreadable}, fy : Years \cup {Absent, Unreadable}]
StoreType == [cmp : Some, fy : Years \cup {None}]

Typed ==
    /\ mine \subseteq Companies
    /\ stored \in StoreType
    /\ url \in Bars /\ router \in Bars /\ asked \in Bars
    /\ linked \in LinkType
    /\ named \in Companies \cup {Absent, Unreadable} /\ picked \in Some
    /\ shared \in BOOLEAN /\ new \in BOOLEAN /\ refused \in BOOLEAN /\ list \in BOOLEAN
    /\ retried \in BOOLEAN /\ lost \in BOOLEAN
    /\ path \in {"record", "home"}
    /\ st \in StateType /\ info \in InfoType /\ access \in AccessType /\ ui \in UiType
    /\ active \in Places /\ page \in PageType
    /\ stage \in {"idle", "render", "effects"}
    /\ visits \in 0..MaxVisits /\ faults \in 0..MaxFaults

LEMMA Types == TypeOK <=> Typed
  BY DEF TypeOK, Typed, Bars, Places, Some, StoreType, LinkType, StateType, InfoType, AccessType, UiType, PageType

LEMMA Apart ==
    /\ None \notin Companies /\ None \notin Years /\ Absent \notin Companies /\ Absent \notin Years
    /\ Unreadable \notin Companies /\ Unreadable \notin Years
    /\ Absent # Unreadable /\ None # Absent /\ None # Unreadable
  BY ScopeAssumption

LEMMA BarIsLink == Bars \subseteq LinkType
  BY ScopeAssumption DEF Bars, NoLink, LinkType

\* A state shows its company and year, or nothing.
LEMMA ScopeFits ==
    ASSUME NEW s \in StateType
    PROVE  /\ ScopeOf(s) \in Places
           /\ ScopeOf(s) # None <=> s.status = "ready" /\ s.cmp # None /\ s.fy # None
           /\ ScopeOf(s) # None => ScopeOf(s) = [cmp |-> s.cmp, fy |-> s.fy]
           /\ ScopeOf(s) # None => ScopeOf(s).cmp = s.cmp /\ ScopeOf(s).fy = s.fy
  <1>1. s.cmp # None /\ s.fy # None => [cmp |-> s.cmp, fy |-> s.fy] \in Scopes
    BY DEF StateType, Scopes, Some
  <1>2. None \notin Scopes BY ScopeAssumption DEF Scopes
  <1> QED BY <1>1, <1>2 DEF ScopeOf, Places

LEMMA UiFits ==
    ASSUME Typed, NEW s \in StateType
    PROVE  /\ UiOf(s) \in UiType
           /\ UiOf(s).cmp = s.cmp /\ UiOf(s).scope = ScopeOf(s) /\ UiOf(s).perms = access.data
           /\ UiOf(s).wait = (access.loading /\ ScopeOf(s) # None)
  <1>1. access \in AccessType BY DEF Typed
  <1>2. ScopeOf(s) \in Places BY ScopeFits
  <1> QED BY <1>1, <1>2 DEF UiOf, UiType, AccessType, StateType

LEMMA PageFits ==
    ASSUME Typed, NEW u \in UiType
    PROVE  /\ PageOf(u) \in PageType
           /\ u.scope = None => PageOf(u) = NoPage
           /\ u.scope # None => /\ PageOf(u).call = page.call /\ PageOf(u).ran = page.ran
                                /\ PageOf(u).form = page.form
                                /\ PageOf(u).data = IF u.scope = ui.scope THEN page.data ELSE None
  <1>1. NoPage \in PageType BY DEF NoPage, PageType, Places
  <1>2. RowsFor(u.scope) \in Places BY DEF RowsFor, Typed, PageType, Places
  <1> DEFINE p == [page EXCEPT !.data = RowsFor(u.scope)]
  <1>3. p = [data |-> RowsFor(u.scope), call |-> page.call, ran |-> page.ran, form |-> page.form]
    BY DEF Typed, PageType
  <1>4. p \in PageType BY <1>2, <1>3 DEF Typed, PageType
  <1> HIDE DEF p
  <1>5. CASE u.scope = None
    <2>1. PageOf(u) = NoPage BY <1>5 DEF PageOf
    <2> QED BY <2>1, <1>1, <1>5
  <1>6. CASE u.scope # None
    <2>1. PageOf(u) = p BY <1>6 DEF PageOf, p
    <2>2. /\ p.call = page.call /\ p.ran = page.ran /\ p.form = page.form
          /\ p.data = IF u.scope = ui.scope THEN page.data ELSE None
      BY <1>3 DEF RowsFor
    <2> QED BY <2>1, <2>2, <1>4, <1>6
  <1> QED BY <1>5, <1>6

\* What the effects of a render leave behind.
LEMMA AccessFits ==
    ASSUME Typed, NEW u \in UiType
    PROVE  /\ AccessFor(u) \in AccessType
           /\ AccessFor(u).of = CompanyOf(u.scope)
           /\ \/ AccessFor(u) = access
              \/ /\ CompanyOf(u.scope) = None /\ AccessFor(u).data = access.data
                 /\ ~AccessFor(u).loading /\ ~AccessFor(u).out
              \/ /\ CompanyOf(u.scope) # None /\ AccessFor(u).data = None
                 /\ AccessFor(u).loading /\ AccessFor(u).out
  <1> DEFINE c == CompanyOf(u.scope)
             gone == [access EXCEPT !.loading = FALSE, !.of = None, !.out = FALSE]
             anew == [data |-> None, loading |-> TRUE, of |-> c, out |-> TRUE]
  <1>1. access \in AccessType BY DEF Typed
  <1>2. c \in Some BY DEF CompanyOf, UiType, Places, Scopes, Some
  <1>3. /\ gone \in AccessType
        /\ gone.data = access.data /\ ~gone.loading /\ gone.of = None /\ ~gone.out
    BY <1>1 DEF AccessType, Some
  <1>4. anew \in AccessType /\ anew.data = None /\ anew.loading /\ anew.of = c /\ anew.out
    BY <1>2 DEF AccessType, Some
  <1>5. AccessFor(u) = IF c = access.of THEN access ELSE IF c = None THEN gone ELSE anew
    BY DEF AccessFor, CompanyOf
  <1> HIDE DEF c, gone, anew
  <1>6. /\ AccessFor(u) \in AccessType
        /\ AccessFor(u).of = c
        /\ \/ AccessFor(u) = access
           \/ c = None /\ AccessFor(u).data = access.data /\ ~AccessFor(u).loading /\ ~AccessFor(u).out
           \/ c # None /\ AccessFor(u).data = None /\ AccessFor(u).loading /\ AccessFor(u).out
    BY <1>1, <1>3, <1>4, <1>5
  <1> QED BY <1>6 DEF c

Left(u, p, again, n, bar) ==
    /\ new' \in BOOLEAN /\ (new' => n) /\ (new' /\ u.scope # None => u.wait)
    /\ n /\ ~new' => u.scope # None /\ ~u.wait
    /\ url' \in Bars /\ (url' = bar \/ (n /\ ~new' /\ url' = router))
    /\ page' \in PageType /\ page'.data = p.data /\ page'.ran[1] = u.scope
    /\ page'.call # None /\ (p.call # None => p.call = p.ran[1]) => page'.call = u.scope
    /\ u.scope = None /\ p = NoPage => page' = NoPage
    /\ \/ page'.form = p.form
       \/ n /\ u.scope # None /\ ~u.wait /\ (page'.form = "opened" => u.perms \in CanWrite)
    /\ access' = AccessFor(u)
    /\ info' \in InfoType /\ info'.of = u.cmp
    /\ info' = info \/ info'.out = (u.cmp # None)
    /\ u.cmp # info.of => info'.out = (u.cmp # None)
    /\ ~again /\ u.cmp = info.of => info' = info
    /\ stage' \in {"idle", "render"} /\ (stage' = "idle" => access' = access /\ u = UiOf(st'))

LEMMA EffectsDo ==
    ASSUME Typed, NEW u \in UiType, NEW p \in PageType, NEW again \in BOOLEAN, NEW n \in BOOLEAN, NEW bar \in Bars,
           Effects(u, p, again, n, bar)
    PROVE  Left(u, p, again, n, bar)
  <1> DEFINE reads == u.scope # None /\ u.perms \in CanRead
             arrives == n /\ u.scope # None /\ ~u.wait
             ran == <<u.scope, reads>>
             form == IF ~arrives THEN p.form ELSE IF u.perms \in CanWrite THEN "opened" ELSE "shut"
             call == IF ran = p.ran THEN p.call ELSE IF reads THEN u.scope ELSE None
  <1>1. /\ new' = (n /\ ~arrives)
        /\ url' = IF arrives THEN router ELSE bar
        /\ page' = [p EXCEPT !.form = form, !.ran = ran, !.call = call]
        /\ access' = AccessFor(u)
        /\ info' = IF again \/ u.cmp # info.of THEN [of |-> u.cmp, out |-> u.cmp # None] ELSE info
        /\ stage' = IF access' = access /\ u = UiOf(st') THEN "idle" ELSE "render"
    BY DEF Effects, Registered
  <1>2. page' = [data |-> p.data, call |-> call, ran |-> ran, form |-> form]
    <2> HIDE DEF form, ran, call
    <2> QED BY <1>1 DEF PageType
  <1>3. ran \in Places \X BOOLEAN /\ ran[1] = u.scope
    BY DEF UiType
  <1>4. form \in {"none", "opened", "shut"} BY DEF PageType
  <1>5. call \in Places BY DEF PageType, UiType, Places
  <1>6. page' \in PageType
    <2> HIDE DEF form, ran, call
    <2>1. p.data \in Places BY DEF PageType
    <2> QED BY <1>2, <1>3, <1>4, <1>5, <2>1 DEF PageType
  <1>7. page'.data = p.data /\ page'.ran = ran /\ page'.call = call /\ page'.form = form
    <2> HIDE DEF form, ran, call
    <2> QED BY <1>2
  <1>8. /\ new' \in BOOLEAN /\ (new' => n) /\ (new' /\ u.scope # None => u.wait)
        /\ n /\ ~new' => u.scope # None /\ ~u.wait
    BY <1>1
  <1>9. url' \in Bars /\ (url' = bar \/ (n /\ ~new' /\ url' = router))
    BY <1>1 DEF Typed
  <1>10. page'.call # None /\ (p.call # None => p.call = p.ran[1]) => page'.call = u.scope
    <2>1. CASE ran = p.ran BY <2>1, <1>7, <1>3
    <2>2. CASE ran # p.ran BY <2>2, <1>7
    <2> QED BY <2>1, <2>2
  <1>11. u.scope = None /\ p = NoPage => page' = NoPage
    <2>1. u.scope = None => reads = FALSE /\ arrives = FALSE OBVIOUS
    <2>2. u.scope = None => form = p.form /\ ran = <<None, FALSE>>
      <3> HIDE DEF reads, arrives
      <3> QED BY <2>1
    <2>3. u.scope = None /\ ran = p.ran => call = p.call OBVIOUS
    <2> HIDE DEF form, ran, call
    <2>4. p = NoPage => /\ p.data = None /\ p.call = None /\ p.form = "none" /\ p.ran = <<None, FALSE>>
      <3>1. /\ NoPage.data = None /\ NoPage.call = None /\ NoPage.form = "none"
        BY DEF NoPage
      <3>2. NoPage.ran = <<None, FALSE>> BY Zenon DEF NoPage
      <3> QED BY <3>1, <3>2, Zenon
    <2>5. u.scope = None /\ p = NoPage => ran = <<None, FALSE>> /\ call = None /\ form = "none"
      BY <2>2, <2>3, <2>4
    <2>6. u.scope = None /\ p = NoPage => page' = [data |-> None, call |-> None, ran |-> <<None, FALSE>>, form |-> "none"]
      BY <1>2, <2>4, <2>5
    <2> QED BY <2>6 DEF NoPage
  <1>12. \/ page'.form = p.form
         \/ n /\ u.scope # None /\ ~u.wait /\ (page'.form = "opened" => u.perms \in CanWrite)
    BY <1>7
  <1>13. /\ info' \in InfoType /\ info'.of = u.cmp 
         /\ info' = info \/ info'.out = (u.cmp # None)
         /\ u.cmp # info.of => info'.out = (u.cmp # None)
         /\ ~again /\ u.cmp = info.of => info' = info
    BY <1>1 DEF Typed, InfoType, UiType
  <1>14. stage' \in {"idle", "render"} /\ (stage' = "idle" => access' = access /\ u = UiOf(st'))
    BY <1>1
  <1>15. page'.ran[1] = u.scope BY <1>3, <1>7
  <1>16. access' = AccessFor(u) BY <1>1
  <1> HIDE DEF form, ran, call, reads, arrives
  <1> QED BY <1>6, <1>7, <1>8, <1>9, <1>10, <1>11, <1>12, <1>13, <1>14, <1>15, <1>16
       DEF Left

LEMMA ClickDo ==
    ASSUME Typed, NEW s \in StateType, NEW again \in BOOLEAN, NEW n \in BOOLEAN, NEW bar \in Bars,
           Clicked(s, again, n, bar)
    PROVE  /\ st' = s /\ ui' = UiOf(s) /\ ui' \in UiType /\ active' \in Places
           /\ PageOf(ui') \in PageType
           /\ Left(ui', PageOf(ui'), again, n, bar)
  <1>1. st' = s /\ ui' = UiOf(s) /\ active' = ui'.scope /\ Effects(ui', PageOf(ui'), again, n, bar)
    BY DEF Clicked
  <1>2. ui' \in UiType BY <1>1, UiFits
  <1>3. PageOf(ui') \in PageType BY <1>2, PageFits
  <1>4. Left(ui', PageOf(ui'), again, n, bar) BY <1>1, <1>2, <1>3, EffectsDo
  <1> QED BY <1>1, <1>2, <1>3, <1>4 DEF UiType

LEMMA QueueDo ==
    ASSUME Typed, NEW s \in StateType, Queue(s)
    PROVE  st' = s /\ st' \in StateType /\ stage' \in {"idle", "render", "effects"}
           /\ (stage' = "idle" => st' = st /\ stage = "idle") /\ (stage' = "effects" => stage = "effects")
  BY DEF Queue, Changed, Typed

-----------------------------------------------------------------------------
(* Types are kept.                                                         *)

LEMMA FirstIsMine ==
    ASSUME mine \subseteq Companies, mine # {}
    PROVE  First(mine) \in mine
  <1>1. \E c \in mine : \A d \in mine \ {c} : Before(c, d) BY ScopeAssumption
  <1> QED BY <1>1 DEF First

LEMMA ChosenIsMine ==
    ASSUME Typed, mine # {}, ~ScopeRefused(asked)
    PROVE  Chosen(asked) \in mine
  <1>1. Id(asked.cmp) => asked.cmp \in mine
    BY Apart, BarIsLink DEF Id, ScopeRefused, CompanyRefused, Typed, LinkType
  <1>2. First(mine) \in mine BY FirstIsMine DEF Typed
  <1> QED BY <1>1, <1>2 DEF Chosen

LEMMA LoadingType == Loading \in StateType
  BY DEF Loading, StateType, Some
LEMMA NoPageType == NoPage \in PageType
  BY DEF NoPage, PageType, Places

LEMMA LoadDo ==
    ASSUME Load
    PROVE  /\ ~refused' /\ ~retried' /\ ~lost' /\ list'
           /\ st' = Loading /\ st'.status = "loading" /\ st'.companies = {} /\ st'.cmp = None /\ st'.years = {}
           /\ st'.fy = None /\ ~st'.warn
           /\ info' = [of |-> None, out |-> FALSE] /\ info'.of = None /\ ~info'.out
           /\ access'.of = None /\ access'.data = None /\ ~access'.loading /\ ~access'.out
           /\ ui'.cmp = None /\ ui'.scope = None /\ ui'.perms = None /\ ~ui'.wait
           /\ page' = NoPage /\ page'.call = None /\ page'.data = None /\ page'.form = "none" /\ stage' = "idle"
           /\ mine' = mine /\ stored' = stored /\ shared' = shared
           /\ ui' = [cmp |-> None, scope |-> None, perms |-> None, wait |-> FALSE]
  BY DEF Load, Loading, NoPage, browser

LEMMA LoadTypes ==
    ASSUME Typed, Load
    PROVE  /\ mine' = mine /\ stored' = stored /\ shared' = shared
           /\ refused' \in BOOLEAN /\ retried' \in BOOLEAN /\ lost' \in BOOLEAN /\ list' \in BOOLEAN
           /\ st' \in StateType /\ info' \in InfoType /\ access' \in AccessType /\ ui' \in UiType
           /\ active' \in Places /\ page' \in PageType /\ stage' \in {"idle", "render", "effects"}
           /\ visits' \in 0..MaxVisits /\ faults' \in 0..MaxFaults
  <1>1. st' \in StateType BY LoadingType DEF Load
  <1>2. page' \in PageType BY NoPageType DEF Load
  <1>3. visits' \in 0..MaxVisits BY ScopeAssumption DEF Load, Typed
  <1>4. info' \in InfoType /\ access' \in AccessType /\ ui' \in UiType
    BY DEF Load, InfoType, AccessType, UiType, Some, Places
  <1> QED BY <1>1, <1>2, <1>3, <1>4 DEF Load, Typed, browser, Places

LEMMA VisitTypes ==
    ASSUME Typed, NEW l \in Links, NEW n \in BOOLEAN, Visit(l, n)
    PROVE  Typed'
  <1>1. l \in Bars /\ l \in LinkType BY BarIsLink DEF Bars
  <1>2. l.cmp \in Companies \cup {Absent, Unreadable} BY <1>1 DEF LinkType
  <1> QED BY <1>1, <1>2, LoadTypes DEF Visit, Typed, Some

LEMMA RefreshTypes ==
    ASSUME Typed, Refresh
    PROVE  Typed'
  BY LoadTypes DEF Refresh, Typed

LEMMA FaultTypes == ASSUME Typed, Fault PROVE faults' \in 0..MaxFaults
  BY ScopeAssumption DEF Fault, Typed

LEMMA ListDo ==
    ASSUME Typed, ListAnswers
    PROVE  /\ list /\ list' = FALSE /\ refused' = (mine # {} /\ ScopeRefused(asked))
           /\ st' \in StateType
           /\ \/ /\ mine = {}
                 /\ st'.status = "empty" /\ st'.warn = st.warn /\ st'.companies = {} /\ st'.cmp = None
                 /\ st'.years = st.years /\ st'.fy = st.fy
              \/ /\ mine # {} /\ ScopeRefused(asked)
                 /\ st'.status = "error" /\ ~st'.warn /\ st'.companies = mine /\ st'.cmp = None
                 /\ st'.years = {} /\ st'.fy = None
              \/ /\ mine # {} /\ ~ScopeRefused(asked)
                 /\ st'.status = "loading" /\ st'.warn = st.warn /\ st'.companies = mine
                 /\ st'.cmp = Chosen(asked) /\ st'.cmp \in mine
                 /\ st'.years = st.years /\ st'.fy = st.fy
           /\ stage' \in {"idle", "render", "effects"}
           /\ (stage' = "idle" => st' = st /\ stage = "idle") /\ (stage' = "effects" => stage = "effects")
           /\ UNCHANGED <<mine, stored, shared, url, router, path, asked, linked, named, picked, new, info, access, ui,
                          active, page, retried, lost, visits, faults>>
  <1> DEFINE empty == [st EXCEPT !.status = "empty", !.companies = {}, !.cmp = None]
             bad == [Loading EXCEPT !.status = "error", !.companies = mine]
             good == [st EXCEPT !.status = "loading", !.companies = mine, !.cmp = Chosen(asked)]
             s == IF mine = {} THEN empty ELSE IF refused' THEN bad ELSE good
  <1>1. refused' = (mine # {} /\ ScopeRefused(asked)) BY DEF ListAnswers
  <1>2. /\ empty \in StateType /\ empty.status = "empty" /\ empty.warn = st.warn /\ empty.companies = {}
        /\ empty.cmp = None /\ empty.years = st.years /\ empty.fy = st.fy
    BY DEF Typed, StateType, Some
  <1>3. /\ bad \in StateType /\ bad.status = "error" /\ ~bad.warn /\ bad.companies = mine /\ bad.cmp = None
        /\ bad.years = {} /\ bad.fy = None
    BY DEF Typed, Loading, StateType, Some
  <1>4. ASSUME mine # {}, ~ScopeRefused(asked)
        PROVE  /\ good \in StateType /\ good.status = "loading" /\ good.warn = st.warn /\ good.companies = mine
               /\ good.cmp = Chosen(asked) /\ good.cmp \in mine /\ good.years = st.years /\ good.fy = st.fy
    <2>1. Chosen(asked) \in mine /\ Chosen(asked) \in Some BY <1>4, ChosenIsMine DEF Typed, Some
    <2> QED BY <2>1 DEF Typed, StateType
  <1>5. Queue(s) BY DEF ListAnswers
  <1>6. /\ \/ mine = {} /\ s = empty
           \/ mine # {} /\ ScopeRefused(asked) /\ s = bad
           \/ mine # {} /\ ~ScopeRefused(asked) /\ s = good
    BY <1>1
  <1> HIDE DEF s, empty, bad, good
  <1>7. s \in StateType BY <1>2, <1>3, <1>4, <1>6
  <1>8. st' = s /\ stage' \in {"idle", "render", "effects"}
        /\ (stage' = "idle" => st' = st /\ stage = "idle") /\ (stage' = "effects" => stage = "effects")
    BY <1>5, <1>7, QueueDo
  <1>9. /\ list /\ list' = FALSE
        /\ UNCHANGED <<mine, stored, shared, url, router, path, asked, linked, named, picked, new, info, access, ui,
                       active, page, retried, lost, visits, faults>>
    BY DEF ListAnswers, browser, visit
  <1>a. CASE mine = {} BY <1>a, <1>1, <1>2, <1>6, <1>8, <1>9
  <1>b. CASE mine # {} /\ ScopeRefused(asked) BY <1>b, <1>1, <1>3, <1>6, <1>8, <1>9
  <1>c. CASE mine # {} /\ ~ScopeRefused(asked) BY <1>c, <1>1, <1>4, <1>6, <1>8, <1>9
  <1> QED BY <1>a, <1>b, <1>c

LEMMA ListFailDo ==
    ASSUME Typed, ListFails
    PROVE  /\ list /\ list' = FALSE /\ Fault
           /\ st' \in StateType /\ st'.status = "error" /\ st'.warn = st.warn /\ st'.companies = st.companies
           /\ st'.cmp = st.cmp /\ st'.years = st.years /\ st'.fy = st.fy
           /\ stage' \in {"idle", "render", "effects"}
           /\ (stage' = "idle" => st' = st /\ stage = "idle") /\ (stage' = "effects" => stage = "effects")
           /\ UNCHANGED <<mine, stored, shared, url, router, path, asked, refused, linked, named, picked, new, info,
                          access, ui, active, page, retried, lost, visits>>
  <1> DEFINE s == [st EXCEPT !.status = "error"]
  <1>1. /\ s \in StateType /\ s.status = "error" /\ s.warn = st.warn /\ s.companies = st.companies
        /\ s.cmp = st.cmp /\ s.years = st.years /\ s.fy = st.fy
    BY DEF Typed, StateType
  <1>2. Queue(s) BY DEF ListFails
  <1> HIDE DEF s
  <1>3. st' = s /\ stage' \in {"idle", "render", "effects"}
        /\ (stage' = "idle" => st' = st /\ stage = "idle") /\ (stage' = "effects" => stage = "effects")
    BY <1>1, <1>2, QueueDo
  <1> QED BY <1>1, <1>3 DEF ListFails, browser, link, visit

LEMMA ListTypes ==
    ASSUME Typed, ListAnswers \/ ListFails
    PROVE  Typed'
  <1>1. CASE ListAnswers BY <1>1, ListDo DEF Typed
  <1>2. CASE ListFails BY <1>2, ListFailDo, FaultTypes DEF Typed
  <1> QED BY <1>1, <1>2

\* What an answer about a company's years does.
Asks == ForCompany(asked, info.of)
Remembered ==
    IF stored.cmp = info.of /\ stored.fy \in YearsOf(info.of) THEN stored.fy ELSE Current[info.of]

LEMMA AsksType == ASSUME Typed PROVE Asks \in Bars
  BY DEF Asks, ForCompany, Typed, Bars

LEMMA RememberedType ==
    ASSUME Typed, info.of \in Companies
    PROVE  Remembered \in YearsOf(info.of) \cup {None}
  BY ScopeAssumption DEF Remembered, YearsOf

LEMMA AnswerDo ==
    ASSUME Typed, Mine, InfoAnswers
    PROVE  /\ info.out /\ info.of \in Companies
           /\ info' \in InfoType /\ info'.of = info.of /\ ~info'.out
           /\ st' \in StateType /\ st'.cmp = st.cmp /\ st'.companies = st.companies
           /\ ~st'.warn /\ st'.years = YearsOf(info.of) /\ st'.fy \in YearsOf(info.of) \cup {None}
           /\ st'.status \in {"ready", "error"}
           /\ \/ st'.status = "error" /\ UNCHANGED <<stored, url, asked>>
              \/ /\ ~YearRefused(Asks, info.of)
                 /\ stored' = [cmp |-> info.of, fy |-> st'.fy]
                 /\ st'.fy = IF Asks.fy # Absent THEN Asks.fy ELSE Remembered
                 /\ \/ Asks # NoLink /\ asked' = NoLink /\ url' = Cleared
                    \/ Asks = NoLink /\ UNCHANGED <<url, asked>>
           /\ stage' \in {"idle", "render", "effects"}
           /\ (stage' = "idle" => st' = st /\ stage = "idle") /\ (stage' = "effects" => stage = "effects")
           /\ UNCHANGED <<mine, shared, router, path, refused, linked, named, picked, new, list, access, ui, active,
                          page, retried, lost, visits, faults>>
  <1> DEFINE c == info.of
             fy == IF Asks.fy # Absent THEN Asks.fy ELSE Remembered
             known == [st EXCEPT !.warn = FALSE, !.years = YearsOf(c)]
             bad == [known EXCEPT !.status = "error", !.fy = Remembered]
             good == [known EXCEPT !.status = IF fy = None THEN "error" ELSE "ready", !.fy = fy]
  <1>1. /\ info.out /\ info' = [info EXCEPT !.out = FALSE]
        /\ IF YearRefused(Asks, c)
           THEN Queue(bad) /\ UNCHANGED <<stored, url, asked>>
           ELSE /\ stored' = [cmp |-> c, fy |-> fy]
                /\ IF Asks # NoLink THEN asked' = NoLink /\ url' = Cleared ELSE UNCHANGED <<url, asked>>
                /\ Queue(good)
        /\ UNCHANGED <<mine, shared, router, path, refused, linked, named, picked, new, list, access, ui, active,
                       page, visit, faults>>
    BY DEF InfoAnswers, Asks, Remembered
  <1>2. c \in Companies BY <1>1 DEF Mine, Typed, InfoType, Some
  <1>3. info' \in InfoType /\ info'.of = info.of /\ ~info'.out
    BY <1>1 DEF Typed, InfoType
  <1>4. Remembered \in YearsOf(c) \cup {None} BY <1>2, RememberedType
  <1>5. ~YearRefused(Asks, c) => fy \in YearsOf(c) \cup {None}
    BY <1>4 DEF YearRefused
  <1>6. YearsOf(c) \subseteq Years BY DEF YearsOf
  <1>7. /\ bad \in StateType /\ bad.cmp = st.cmp /\ bad.companies = st.companies /\ ~bad.warn
        /\ bad.years = YearsOf(c) /\ bad.fy = Remembered /\ bad.status = "error"
    <2> HIDE DEF c
    <2> QED BY <1>4, <1>6 DEF Typed, StateType
  <1>8. ASSUME ~YearRefused(Asks, c)
        PROVE  /\ good \in StateType /\ good.cmp = st.cmp /\ good.companies = st.companies /\ ~good.warn
               /\ good.years = YearsOf(c) /\ good.fy = fy /\ good.status = IF fy = None THEN "error" ELSE "ready"
    <2> HIDE DEF c, fy
    <2> QED BY <1>5, <1>6, <1>8 DEF Typed, StateType
  <1> HIDE DEF bad, good, known
  <1>9. CASE YearRefused(Asks, c)
    <2>1. Queue(bad) BY <1>1, <1>9
    <2>2. st' = bad /\ stage' \in {"idle", "render", "effects"}
          /\ (stage' = "idle" => st' = st /\ stage = "idle") /\ (stage' = "effects" => stage = "effects")
      BY <2>1, <1>7, QueueDo
    <2> QED BY <2>2, <1>1, <1>2, <1>3, <1>4, <1>7, <1>9 DEF visit
  <1>10. CASE ~YearRefused(Asks, c)
    <2>1. Queue(good) BY <1>1, <1>10
    <2>2. st' = good /\ stage' \in {"idle", "render", "effects"}
          /\ (stage' = "idle" => st' = st /\ stage = "idle") /\ (stage' = "effects" => stage = "effects")
      BY <2>1, <1>8, <1>10, QueueDo
    <2>3. st' \in StateType /\ st'.cmp = st.cmp /\ st'.companies = st.companies /\ ~st'.warn /\ st'.years = YearsOf(c)
          /\ st'.fy = fy /\ st'.status \in {"ready", "error"}
      BY <2>2, <1>8, <1>10
    <2>4. stored' = [cmp |-> c, fy |-> st'.fy] BY <2>3, <1>1, <1>10
    <2> HIDE DEF fy
    <2>5. st'.fy \in YearsOf(c) \cup {None} BY <2>3, <1>5, <1>10
    <2> USE DEF fy
    <2>6. st'.fy = IF Asks.fy # Absent THEN Asks.fy ELSE Remembered BY <2>3
    <2> HIDE DEF fy
    <2> QED BY <2>2, <2>3, <2>4, <2>5, <2>6, <1>1, <1>2, <1>3, <1>10 DEF visit
  <1> QED BY <1>9, <1>10

LEMMA FailDo ==
    ASSUME Typed, Mine, InfoFails
    PROVE  /\ info.out /\ info.of \in Companies /\ Fault
           /\ info' \in InfoType /\ info'.of = info.of /\ ~info'.out
           /\ st' \in StateType /\ st'.cmp = st.cmp /\ st'.companies = st.companies
           /\ \/ /\ Id(Asks.fy) /\ Asks.fy \in Years
                 /\ stored' = [cmp |-> info.of, fy |-> Asks.fy] /\ asked' = NoLink /\ url' = Cleared
                 /\ linked' = [linked EXCEPT !.fy = Absent]
                 /\ st'.status = "ready" /\ st'.warn /\ st'.years = {} /\ st'.fy = Asks.fy
              \/ /\ ~Id(Asks.fy)
                 /\ UNCHANGED <<stored, url, asked, linked>>
                 /\ \/ /\ stored.cmp = info.of /\ stored.fy # None
                       /\ st'.status = "ready" /\ st'.warn /\ st'.years = {} /\ st'.fy = stored.fy
                    \/ /\ st'.status = "error" /\ st'.warn = st.warn /\ st'.years = st.years /\ st'.fy = st.fy
           /\ stage' \in {"idle", "render", "effects"}
           /\ (stage' = "idle" => st' = st /\ stage = "idle") /\ (stage' = "effects" => stage = "effects")
           /\ UNCHANGED <<mine, shared, router, path, refused, named, picked, new, list, access, ui, active,
                          page, retried, lost, visits>>
  <1> DEFINE degraded == [st EXCEPT !.status = "ready", !.warn = TRUE, !.years = {}]
             given == [degraded EXCEPT !.fy = Asks.fy]
             kept == [degraded EXCEPT !.fy = stored.fy]
             bad == [st EXCEPT !.status = "error"]
             s == IF stored.cmp = info.of /\ stored.fy # None THEN kept ELSE bad
  <1>1. /\ info.out /\ info' = [info EXCEPT !.out = FALSE] /\ Fault
        /\ IF Id(Asks.fy)
           THEN /\ stored' = [cmp |-> info.of, fy |-> Asks.fy] /\ asked' = NoLink /\ url' = Cleared
                /\ linked' = [linked EXCEPT !.fy = Absent]
                /\ Queue(given)
           ELSE UNCHANGED <<stored, url, asked, linked>> /\ Queue(s)
        /\ UNCHANGED <<mine, shared, router, path, refused, named, picked, new, list, access, ui, active, page, visit>>
    BY DEF InfoFails, Asks
  <1>2. info.of \in Companies BY <1>1 DEF Mine, Typed, InfoType, Some
  <1>3. info' \in InfoType /\ info'.of = info.of /\ ~info'.out
    BY <1>1 DEF Typed, InfoType
  <1>4. Id(Asks.fy) => Asks.fy \in Years BY AsksType, BarIsLink DEF LinkType, Id
  <1>5. ASSUME Id(Asks.fy)
        PROVE  /\ given \in StateType /\ given.cmp = st.cmp /\ given.companies = st.companies /\ given.warn
               /\ given.years = {} /\ given.fy = Asks.fy /\ given.status = "ready"
    BY <1>4, <1>5 DEF Typed, StateType
  <1>6. /\ s \in StateType /\ s.cmp = st.cmp /\ s.companies = st.companies
        /\ \/ /\ stored.cmp = info.of /\ stored.fy # None
              /\ s.status = "ready" /\ s.warn /\ s.years = {} /\ s.fy = stored.fy
           \/ s.status = "error" /\ s.warn = st.warn /\ s.years = st.years /\ s.fy = st.fy
    BY DEF Typed, StateType, StoreType
  <1> HIDE DEF given, kept, bad, s, degraded
  <1>7. CASE Id(Asks.fy)
    <2>1. Queue(given) BY <1>1, <1>7
    <2>2. st' = given /\ stage' \in {"idle", "render", "effects"}
          /\ (stage' = "idle" => st' = st /\ stage = "idle") /\ (stage' = "effects" => stage = "effects")
      BY <2>1, <1>5, <1>7, QueueDo
    <2> QED BY <2>2, <1>1, <1>2, <1>3, <1>4, <1>5, <1>7 DEF visit
  <1>8. CASE ~Id(Asks.fy)
    <2>1. Queue(s) BY <1>1, <1>8
    <2>2. st' = s /\ stage' \in {"idle", "render", "effects"}
          /\ (stage' = "idle" => st' = st /\ stage = "idle") /\ (stage' = "effects" => stage = "effects")
      BY <2>1, <1>6, QueueDo
    <2> QED BY <2>2, <1>1, <1>2, <1>3, <1>6, <1>8 DEF visit
  <1> QED BY <1>7, <1>8

LEMMA ClearedType == ASSUME Typed PROVE Cleared \in Bars
  BY DEF Typed, Cleared, Bars

LEMMA InfoTypes ==
    ASSUME Typed, Mine, InfoAnswers \/ InfoFails
    PROVE  Typed'
  <1>0. NoLink \in Bars /\ YearsOf(info.of) \subseteq Years BY DEF Bars, YearsOf
  <1>1. CASE InfoAnswers
    <2>1. stored' \in StoreType BY <1>0, <1>1, AnswerDo DEF Typed, StoreType, Some
    <2>2. url' \in Bars /\ asked' \in Bars BY <1>0, <1>1, AnswerDo, ClearedType DEF Typed
    <2> QED BY <1>1, <2>1, <2>2, AnswerDo DEF Typed
  <1>2. CASE InfoFails
    <2>1. stored' \in StoreType BY <1>2, FailDo DEF Typed, StoreType, Some
    <2>2. url' \in Bars /\ asked' \in Bars BY <1>0, <1>2, FailDo, ClearedType DEF Typed
    <2>3. linked' \in LinkType BY <1>2, FailDo DEF Typed, LinkType
    <2> QED BY <1>2, <2>1, <2>2, <2>3, FailDo, FaultTypes DEF Typed
  <1> QED BY <1>1, <1>2

\* What the user's clicks do.
LEMMA PickDo ==
    ASSUME Typed, NEW c \in Companies, PickCompany(c)
    PROVE  /\ stage = "idle" /\ c \in st.companies
           /\ asked' = NoLink /\ linked' = NoLink /\ ~refused'
           /\ picked' = IF Open(c) THEN picked ELSE IF asked = NoLink THEN Lasts(c, url) ELSE c
           /\ IF refused THEN path' = "home" /\ router' = NoLink ELSE UNCHANGED <<path, router>>
           /\ \/ /\ c = st.cmp /\ url' = Cleared
                 /\ UNCHANGED <<stored, st, ui, active, new, page, access, info, stage>>
              \/ /\ c # st.cmp /\ url' = Cleared
                 /\ stored' = [cmp |-> c, fy |-> None]
                 /\ st' \in StateType /\ st'.status = "loading" /\ ~st'.warn /\ st'.companies = st.companies
                 /\ st'.cmp = c /\ st'.years = {} /\ st'.fy = None
                 /\ ui' = UiOf(st') /\ ui' \in UiType /\ ui'.cmp = c /\ ui'.scope = None
                 /\ active' = None /\ page' = NoPage /\ new' \in BOOLEAN /\ (new' => new)
                 /\ access' = AccessFor(ui')
                 /\ info' \in InfoType /\ info'.of = c /\ (c # info.of => info'.out) /\ (c = info.of => info' = info)
                 /\ stage' \in {"idle", "render"} /\ (stage' = "idle" => access' = access)
           /\ UNCHANGED <<mine, shared, named, list, retried, lost, visits, faults>>
  <1> DEFINE s == [Loading EXCEPT !.companies = st.companies, !.cmp = c]
             n == new /\ ~refused
  <1>1. /\ stage = "idle" /\ c \in st.companies
        /\ asked' = NoLink /\ linked' = NoLink /\ ~refused'
        /\ picked' = IF Open(c) THEN picked ELSE IF asked = NoLink THEN Lasts(c, url) ELSE c
        /\ IF refused THEN path' = "home" /\ router' = NoLink ELSE UNCHANGED <<path, router>>
        /\ UNCHANGED <<mine, shared, named, list, retried, lost, visits, faults>>
    BY DEF PickCompany, Settled, visit
  <1>2. CASE Open(c)
    BY <1>1, <1>2 DEF PickCompany, Open
  <1>3. CASE ~Open(c)
    <2>1. /\ s \in StateType /\ s.status = "loading" /\ ~s.warn /\ s.companies = st.companies
          /\ s.cmp = c /\ s.years = {} /\ s.fy = None
      BY DEF Loading, StateType, Some, Typed
    <2>2. n \in BOOLEAN /\ Cleared \in Bars BY ClearedType DEF Typed
    <2>3. Clicked(s, FALSE, n, Cleared) /\ stored' = [cmp |-> c, fy |-> None]
      BY <1>3 DEF PickCompany
    <2> HIDE DEF s, n
    <2>4. st' = s /\ ui' = UiOf(s) /\ ui' \in UiType /\ Left(ui', PageOf(ui'), FALSE, n, Cleared)
      BY <2>1, <2>2, <2>3, ClickDo
    <2>5. ui'.cmp = c /\ ui'.scope = None /\ active' = None
      BY <2>1, <2>3, <2>4, UiFits, ScopeFits DEF Clicked
    <2>6. PageOf(ui') = NoPage BY <2>4, <2>5, PageFits
    <2>7. page' = NoPage /\ url' = Cleared /\ new' \in BOOLEAN /\ (new' => n)
      BY <2>4, <2>5, <2>6 DEF Left
    <2>8. /\ access' = AccessFor(ui')
          /\ info' \in InfoType /\ info'.of = c /\ (c # info.of => info'.out) /\ (c = info.of => info' = info)
          /\ stage' \in {"idle", "render"} /\ (stage' = "idle" => access' = access)
      BY <2>4, <2>5, Apart DEF Left
    <2>9. new' => new BY <2>7 DEF n
    <2> QED BY <1>1, <1>3, <2>1, <2>3, <2>4, <2>5, <2>7, <2>8, <2>9 DEF Open
  <1> QED BY <1>2, <1>3

LEMMA YearDo ==
    ASSUME Typed, NEW y \in Years, PickYear(y)
    PROVE  /\ stage = "idle" /\ st.status # "loading" /\ y \in st.years
           /\ asked' = NoLink /\ linked' = NoLink
           /\ \/ url' = Cleared /\ UNCHANGED <<stored, picked, st, ui, active, new, page, access, info, stage>>
              \/ /\ stored' = [stored EXCEPT !.fy = y]
                 /\ st' \in StateType /\ st'.status = "ready" /\ st'.warn = st.warn /\ st'.companies = st.companies
                 /\ st'.cmp = st.cmp /\ st'.years = st.years /\ st'.fy = y
                 /\ ui' = UiOf(st') /\ ui' \in UiType /\ ui'.cmp = st.cmp /\ active' \in Places
                 /\ PageOf(ui') \in PageType
                 /\ Left(ui', PageOf(ui'), FALSE, new, Cleared) /\ Arrived
           /\ UNCHANGED <<mine, shared, router, path, refused, named, list, retried, lost, visits, faults>>
  <1> DEFINE s == [st EXCEPT !.status = "ready", !.fy = y]
  <1>1. /\ stage = "idle" /\ st.status # "loading" /\ y \in st.years
        /\ asked' = NoLink /\ linked' = NoLink
        /\ UNCHANGED <<mine, shared, router, path, refused, named, list, retried, lost, visits, faults>>
    BY DEF PickYear, Settled, visit
  <1>2. CASE y = st.fy /\ st.status = "ready"
    BY <1>1, <1>2 DEF PickYear
  <1>3. CASE ~(y = st.fy /\ st.status = "ready")
    <2>1. /\ s \in StateType /\ s.status = "ready" /\ s.warn = st.warn /\ s.companies = st.companies
          /\ s.cmp = st.cmp /\ s.years = st.years /\ s.fy = y
      BY DEF StateType, Typed
    <2>2. new \in BOOLEAN /\ Cleared \in Bars BY ClearedType DEF Typed
    <2>3. Clicked(s, FALSE, new, Cleared) /\ Arrived /\ stored' = [stored EXCEPT !.fy = y]
      BY <1>3 DEF PickYear
    <2> HIDE DEF s
    <2>4. st' = s /\ ui' = UiOf(s) /\ ui' \in UiType /\ active' \in Places /\ PageOf(ui') \in PageType
          /\ Left(ui', PageOf(ui'), FALSE, new, Cleared)
      BY <2>1, <2>2, <2>3, ClickDo
    <2>5. ui'.cmp = st.cmp BY <2>1, <2>4, UiFits
    <2> QED BY <1>1, <2>1, <2>3, <2>4, <2>5
  <1> QED BY <1>2, <1>3

LEMMA RetryDo ==
    ASSUME Typed, Retry
    PROVE  /\ stage = "idle" /\ list' /\ retried'
           /\ st' \in StateType /\ st'.status = "loading" /\ st'.warn = st.warn /\ st'.companies = st.companies
           /\ st'.cmp = st.cmp /\ st'.years = st.years /\ st'.fy = st.fy
           /\ ui' = UiOf(st') /\ ui' \in UiType /\ ui'.cmp = st.cmp /\ ui'.scope = None
           /\ active' = None /\ page' = NoPage /\ url' = url /\ new' \in BOOLEAN
           /\ access' = AccessFor(ui')
           /\ info' \in InfoType /\ info'.of = st.cmp /\ (info' = info \/ info'.out = (st.cmp # None))
           /\ stage' \in {"idle", "render"} /\ (stage' = "idle" => access' = access)
           /\ UNCHANGED <<mine, stored, shared, router, path, asked, refused, linked, named, picked, lost, visits, faults>>
  <1> DEFINE s == [st EXCEPT !.status = "loading"]
  <1>1. /\ s \in StateType /\ s.status = "loading" /\ s.warn = st.warn /\ s.companies = st.companies
        /\ s.cmp = st.cmp /\ s.years = st.years /\ s.fy = st.fy
    BY DEF StateType, Typed
  <1>2. Clicked(s, TRUE, new, url) /\ new \in BOOLEAN /\ url \in Bars BY DEF Retry, Typed
  <1> HIDE DEF s
  <1>3. st' = s /\ ui' = UiOf(s) /\ ui' \in UiType /\ Left(ui', PageOf(ui'), TRUE, new, url)
    BY <1>1, <1>2, ClickDo
  <1>4. ui'.cmp = st.cmp /\ ui'.scope = None /\ active' = None
    BY <1>1, <1>2, <1>3, UiFits, ScopeFits DEF Clicked
  <1>5. PageOf(ui') = NoPage BY <1>3, <1>4, PageFits
  <1>6. page' = NoPage /\ url' = url /\ new' \in BOOLEAN
    BY <1>3, <1>4, <1>5 DEF Left
  <1>7. /\ access' = AccessFor(ui')
        /\ info' \in InfoType /\ info'.of = st.cmp /\ (info' = info \/ info'.out = (st.cmp # None))
        /\ stage' \in {"idle", "render"} /\ (stage' = "idle" => access' = access)
    BY <1>3, <1>4 DEF Left
  <1> QED BY <1>1, <1>3, <1>4, <1>6, <1>7 DEF Retry, Settled, browser, link

LEMMA RunDo ==
    ASSUME Typed, RunEffects
    PROVE  /\ stage = "effects" /\ Left(ui, page, FALSE, new, url) /\ Arrived
           /\ UNCHANGED <<mine, stored, shared, router, path, asked, refused, linked, named, st, list, ui, active,
                          retried, lost, visits, faults>>
  <1>1. stage = "effects" /\ Effects(ui, page, FALSE, new, url) /\ Arrived BY DEF RunEffects
  <1>2. Left(ui, page, FALSE, new, url) BY <1>1, EffectsDo DEF Typed
  <1> QED BY <1>1, <1>2 DEF RunEffects, browser, visit

LEMMA RenderDo ==
    ASSUME Typed, Render
    PROVE  /\ stage = "render" /\ stage' = "effects"
           /\ ui' = UiOf(st) /\ ui' \in UiType /\ active' \in Places /\ page' = PageOf(ui') /\ page' \in PageType
           /\ UNCHANGED <<mine, stored, shared, router, path, asked, refused, linked, named, picked, url, new, st, list,
                          info, access, retried, lost, visits, faults>>
  <1>1. ui' = UiOf(st) /\ ui' \in UiType BY UiFits DEF Render, Typed
  <1>2. page' = PageOf(ui') /\ page' \in PageType BY <1>1, PageFits DEF Render
  <1>3. active' \in Places BY <1>1 DEF Render, UiType
  <1> QED BY <1>1, <1>2, <1>3 DEF Render, browser, link, visit

LEMMA LastsType == ASSUME NEW c \in Some, NEW bar PROVE Lasts(c, bar) \in Some
  BY DEF Lasts, Some

LEMMA ClickTypes ==
    ASSUME Typed, RunEffects \/ Render \/ Retry \/ (\E c \in Companies : PickCompany(c)) \/ (\E y \in Years : PickYear(y))
    PROVE  Typed'
  <1>0. /\ None \in Places /\ NoLink \in Bars /\ NoLink \in LinkType
    BY DEF Places, Bars, NoLink, LinkType
  <1>1. CASE RunEffects
    <2>1. picked' \in Some BY <1>1, RunDo, LastsType DEF Arrived, Typed
    <2>2. access' \in AccessType BY <1>1, RunDo, AccessFits DEF Left, Typed
    <2> QED BY <1>1, <2>1, <2>2, RunDo DEF Typed, Left
  <1>2. CASE Render BY <1>2, RenderDo DEF Typed
  <1>3. CASE Retry
    <2>1. access' \in AccessType BY <1>3, RetryDo, AccessFits
    <2> QED BY <1>0, <1>3, <2>1, RetryDo, NoPageType DEF Typed
  <1>4. ASSUME NEW c \in Companies, PickCompany(c) PROVE Typed'
    <2>1. picked' \in Some BY <1>4, PickDo, LastsType DEF Typed, Some
    <2>2. access' \in AccessType BY <1>4, PickDo, AccessFits DEF Typed
    <2>3. stored' \in StoreType BY <1>4, PickDo DEF Typed, StoreType, Some
    <2>4. url' \in Bars /\ router' \in Bars BY <1>0, <1>4, PickDo, ClearedType DEF Typed
    <2>5. st' \in StateType /\ info' \in InfoType /\ ui' \in UiType /\ active' \in Places /\ page' \in PageType
          /\ new' \in BOOLEAN /\ stage' \in {"idle", "render", "effects"}
      BY <1>0, <1>4, PickDo, NoPageType DEF Typed
    <2>6. /\ asked' \in Bars /\ linked' \in LinkType /\ refused' \in BOOLEAN /\ path' \in {"record", "home"}
          /\ UNCHANGED <<mine, shared, named, list, retried, lost, visits, faults>>
      <3>1. asked' = NoLink /\ linked' = NoLink /\ refused' = FALSE /\ (path' = path \/ path' = "home")
            /\ UNCHANGED <<mine, shared, named, list, retried, lost, visits, faults>>
        BY <1>4, PickDo
      <3> QED BY <3>1, <1>0 DEF Typed
    <2> QED BY <2>1, <2>2, <2>3, <2>4, <2>5, <2>6 DEF Typed
  <1>5. ASSUME NEW y \in Years, PickYear(y) PROVE Typed'
    <2>0. picked' = picked \/ picked' = Lasts(picked, router) BY <1>5, YearDo DEF Arrived
    <2>1. picked' \in Some BY <2>0, LastsType DEF Typed
    <2>2. access' \in AccessType BY <1>5, YearDo, AccessFits DEF Typed, Left
    <2>3. stored' \in StoreType BY <1>5, YearDo DEF Typed, StoreType
    <2>4. url' \in Bars BY <1>5, YearDo, ClearedType DEF Typed, Left
    <2>5. st' \in StateType /\ info' \in InfoType /\ ui' \in UiType /\ active' \in Places /\ page' \in PageType
          /\ new' \in BOOLEAN /\ stage' \in {"idle", "render", "effects"}
      BY <1>5, YearDo DEF Typed, Left
    <2> QED BY <1>0, <1>5, <2>1, <2>2, <2>3, <2>4, <2>5, YearDo DEF Typed
  <1> QED BY <1>1, <1>2, <1>3, <1>4, <1>5

\* The answers of the screen, and what is given up.
LEMMA GivenDo ==
    ASSUME Typed, GivenUp
    PROVE  /\ info' \in InfoType /\ info'.of = info.of /\ (info'.out => info.out)
           /\ access' \in AccessType /\ access'.of = access.of /\ access'.data = access.data
           /\ access'.loading = access.loading /\ (access'.out => access.out)
           /\ list' \in BOOLEAN /\ (list' => list) /\ lost' /\ Fault
           /\ UNCHANGED <<mine, stored, shared, router, path, asked, refused, linked, named, picked, url, new, st,
                          ui, active, page, stage, retried, visits>>
  <1> DEFINE i == [info EXCEPT !.out = FALSE]
             a == [access EXCEPT !.out = FALSE]
  <1>1. i \in InfoType /\ i.of = info.of /\ ~i.out
    BY DEF Typed, InfoType
  <1>2. a \in AccessType /\ a.of = access.of /\ a.data = access.data /\ a.loading = access.loading /\ ~a.out
    BY DEF Typed, AccessType
  <1>3. (info' = i \/ info' = info) /\ (access' = a \/ access' = access) /\ (list' = FALSE \/ list' = list)
    BY DEF GivenUp
  <1> HIDE DEF i, a
  <1>4. info' \in InfoType /\ info'.of = info.of /\ (info'.out => info.out)
    BY <1>1, <1>3 DEF Typed
  <1>5. /\ access' \in AccessType /\ access'.of = access.of /\ access'.data = access.data
        /\ access'.loading = access.loading /\ (access'.out => access.out)
    BY <1>2, <1>3 DEF Typed
  <1>6. list' \in BOOLEAN /\ (list' => list)
    <2>1. CASE list' = FALSE BY <2>1
    <2>2. CASE list' = list BY <2>2 DEF Typed
    <2> QED BY <1>3, <2>1, <2>2
  <1> QED BY <1>4, <1>5, <1>6 DEF GivenUp, browser, link, react

LEMMA AccessDo ==
    ASSUME Typed, AccessAnswers
    PROVE  /\ access.out
           /\ access' \in AccessType /\ access'.of = access.of /\ ~access'.loading /\ ~access'.out
           /\ access'.data \in {access.of, access.data}
           /\ faults' \in 0..MaxFaults
           /\ stage' \in {"render", "effects"} /\ (stage' = "effects" => stage = "effects")
           /\ UNCHANGED <<mine, stored, shared, router, path, asked, refused, linked, named, picked, url, new, st,
                          list, info, ui, active, page, retried, lost, visits>>
  <1> DEFINE known == [access EXCEPT !.data = access.of, !.loading = FALSE, !.out = FALSE]
             unknown == [access EXCEPT !.loading = FALSE, !.out = FALSE]
  <1>1. known \in AccessType /\ known.of = access.of /\ known.data = access.of /\ ~known.loading /\ ~known.out
    BY DEF Typed, AccessType
  <1>2. unknown \in AccessType /\ unknown.of = access.of /\ unknown.data = access.data
        /\ ~unknown.loading /\ ~unknown.out
    BY DEF Typed, AccessType
  <1>3. (access' = known /\ faults' = faults) \/ (access' = unknown /\ Fault)
    BY DEF AccessAnswers
  <1> HIDE DEF known, unknown
  <1>4. /\ access' \in AccessType /\ access'.of = access.of /\ ~access'.loading /\ ~access'.out
        /\ access'.data \in {access.of, access.data}
    BY <1>1, <1>2, <1>3
  <1>5. faults' \in 0..MaxFaults BY <1>3, FaultTypes DEF Typed
  <1> QED BY <1>4, <1>5 DEF AccessAnswers, Changed, Typed, browser, link, visit

LEMMA PageDo ==
    ASSUME Typed, PageAnswers
    PROVE  /\ page.call # None /\ page' \in PageType
           /\ page'.data = page.call /\ page'.call = None /\ page'.ran = page.ran /\ page'.form = page.form
           /\ UNCHANGED <<mine, stored, shared, router, path, asked, refused, linked, named, picked, url, new, st,
                          list, info, access, ui, active, stage, retried, lost, visits, faults>>
  <1>1. page' = [page EXCEPT !.data = page.call, !.call = None] /\ page.call # None BY DEF PageAnswers
  <1>2. page' \in PageType BY <1>1 DEF Typed, PageType, Places
  <1>3. page'.data = page.call /\ page'.call = None /\ page'.ran = page.ran /\ page'.form = page.form
    BY <1>1 DEF Typed, PageType
  <1> QED BY <1>1, <1>2, <1>3 DEF PageAnswers, browser, link, visit

LEMMA NavigateDo ==
    ASSUME NEW n \in BOOLEAN, Navigate(n)
    PROVE  /\ stage = "idle" /\ ui.scope # None /\ stage' = "render"
           /\ url' = NoLink /\ router' = NoLink /\ path' = "home" /\ new' = n /\ page' = NoPage
           /\ UNCHANGED <<mine, stored, shared, asked, refused, linked, named, picked, st, list, info, access, ui,
                          active, retried, lost, visits, faults>>
  BY DEF Navigate, Settled, browser, visit

LEMMA FilterDo ==
    ASSUME Filter
    PROVE  /\ stage = "idle" /\ ui.scope # None
           /\ url' = router /\ picked' = Lasts(picked, router)
           /\ UNCHANGED <<mine, stored, shared, router, path, asked, refused, linked, named, new, st, list, info,
                          access, ui, active, page, stage, retried, lost, visits, faults>>
  BY DEF Filter, Settled, browser, visit, react

LEMMA OtherDo ==
    ASSUME Typed, OtherTab
    PROVE  /\ stored' \in StoreType /\ stored'.cmp \in mine \cup {stored.cmp} /\ shared'
           /\ UNCHANGED <<mine, router, path, asked, refused, linked, named, picked, url, new, st, list, info,
                          access, ui, active, page, stage, retried, lost, visits, faults>>
  <1> PICK c \in mine, y \in Years :
          \/ stored' = [cmp |-> c, fy |-> None]
          \/ YearOf[y] = c /\ stored' = [cmp |-> c, fy |-> y]
          \/ YearOf[y] = c /\ stored' = [stored EXCEPT !.fy = y]
    BY DEF OtherTab
  <1>1. stored' \in StoreType /\ stored'.cmp \in mine \cup {stored.cmp} BY DEF Typed, StoreType, Some
  <1> QED BY <1>1 DEF OtherTab, link, react, visit

LEMMA ScreenTypes ==
    ASSUME Typed, \/ GivenUp \/ AccessAnswers \/ PageAnswers
                  \/ (\E n \in BOOLEAN : Navigate(n)) \/ Filter \/ OtherTab
    PROVE  Typed'
  <1>0. NoLink \in Bars BY DEF Bars
  <1>1. CASE GivenUp BY <1>1, GivenDo, FaultTypes DEF Typed
  <1>2. CASE AccessAnswers BY <1>2, AccessDo DEF Typed
  <1>3. CASE PageAnswers BY <1>3, PageDo DEF Typed
  <1>4. ASSUME NEW n \in BOOLEAN, Navigate(n) PROVE Typed'
    BY <1>0, <1>4, NavigateDo, NoPageType DEF Typed
  <1>5. CASE Filter BY <1>5, FilterDo, LastsType DEF Typed
  <1>6. CASE OtherTab BY <1>6, OtherDo DEF Typed
  <1> QED BY <1>1, <1>2, <1>3, <1>4, <1>5, <1>6

\* Every step keeps the types.
LEMMA TypesKept == Typed /\ Mine /\ [Next]_vars => Typed'
  <1> SUFFICES ASSUME Typed, Mine, [Next]_vars PROVE Typed' OBVIOUS
  <1>1. CASE UNCHANGED vars BY <1>1 DEF vars, Typed
  <1>2. CASE Next
    BY <1>2, VisitTypes, RefreshTypes, ListTypes, InfoTypes, ClickTypes, ScreenTypes DEF Next
  <1> QED BY <1>1, <1>2

-----------------------------------------------------------------------------
(* What is in play is the user's own.                                      *)

LEMMA MineKept ==
    ASSUME Typed, Mine, Idle, [Next]_vars
    PROVE  Mine'
  <1>1. CASE UNCHANGED vars BY <1>1 DEF vars, Mine
  <1>2. CASE (\E l \in Links, n \in BOOLEAN : Visit(l, n)) \/ Refresh
    BY <1>2, LoadDo DEF Visit, Refresh, Mine
  <1>3. CASE ListAnswers BY <1>3, ListDo DEF Mine
  <1>4. CASE ListFails BY <1>4, ListFailDo DEF Mine
  <1>5. CASE InfoAnswers BY <1>5, AnswerDo DEF Mine
  <1>6. CASE InfoFails BY <1>6, FailDo DEF Mine
  <1>7. CASE GivenUp BY <1>7, GivenDo DEF Mine
  <1>8. CASE Render BY <1>8, RenderDo, UiFits DEF Mine, Typed
  <1>9. CASE RunEffects
    <2>1. access'.out => access'.of # None BY <1>9, RunDo, AccessFits DEF Left, Typed, Mine
    <2> QED BY <1>9, <2>1, RunDo DEF Left, Mine
  <1>10. ASSUME NEW c \in Companies, PickCompany(c) PROVE Mine'
    <2>1. access'.out => access'.of # None BY <1>10, PickDo, AccessFits DEF Mine
    <2>2. c \in mine /\ c # None BY <1>10, PickDo, Apart DEF Mine
    <2> QED BY <1>10, <2>1, <2>2, PickDo DEF Mine
  <1>11. ASSUME NEW y \in Years, PickYear(y) PROVE Mine'
    <2>1. access'.out => access'.of # None BY <1>11, YearDo, AccessFits DEF Mine, Left
    <2>2. info'.of \in mine \cup {None} /\ ui'.cmp \in mine \cup {None} /\ (info'.out => info'.of # None)
      BY <1>11, YearDo DEF Mine, Left
    <2>3. stored'.cmp = stored.cmp BY <1>11, YearDo DEF Typed, StoreType
    <2>4. st'.cmp = st.cmp /\ st'.companies = st.companies /\ mine' = mine BY <1>11, YearDo
    <2> QED BY <2>1, <2>2, <2>3, <2>4 DEF Mine
  <1>12. CASE Retry
    <2>1. access'.out => access'.of # None BY <1>12, RetryDo, AccessFits DEF Mine
    <2>2. info'.out => info'.of # None BY <1>12, RetryDo DEF Mine
    <2> QED BY <1>12, <2>1, <2>2, RetryDo DEF Mine
  <1>13. ASSUME NEW n \in BOOLEAN, Navigate(n) PROVE Mine' BY <1>13, NavigateDo DEF Mine
  <1>14. CASE Filter BY <1>14, FilterDo DEF Mine
  <1>15. CASE OtherTab BY <1>15, OtherDo DEF Mine
  <1>16. CASE AccessAnswers BY <1>16, AccessDo DEF Mine
  <1>17. CASE PageAnswers BY <1>17, PageDo DEF Mine
  <1> QED BY <1>1, <1>2, <1>3, <1>4, <1>5, <1>6, <1>7, <1>8, <1>9, <1>10, <1>11, <1>12, <1>13, <1>14, <1>15,
             <1>16, <1>17 DEF Next

-----------------------------------------------------------------------------
(* A tab at rest shows its state.                                          *)

LEMMA UiSame ==
    ASSUME access'.data = access.data, access'.loading = access.loading
    PROVE  UiOf(st)' = UiOf(st')
  BY DEF UiOf

LEMMA UiOfScope ==
    ASSUME Typed, NEW s \in StateType
    PROVE  UiOf(s).scope # None => UiOf(s).scope.cmp = UiOf(s).cmp
  BY UiFits, ScopeFits

LEMMA IdleKept ==
    ASSUME Typed, Typed', Mine, Idle, [Next]_vars
    PROVE  Idle'
  <1> DEFINE Rest == stage = "idle" => ui = UiOf(st) /\ info.of = ui.cmp /\ access.of = CompanyOf(ui.scope)
             One == ui.scope # None => ui.scope.cmp = ui.cmp
  <1> SUFFICES One' /\ Rest' BY DEF Idle
  <1>0. One /\ Rest BY DEF Idle
  <1>1. CASE UNCHANGED vars BY <1>0, <1>1 DEF vars, UiOf
  <1>2. CASE (\E l \in Links, n \in BOOLEAN : Visit(l, n)) \/ Refresh
    <2>1. Load BY <1>2 DEF Visit, Refresh
    <2>2. UiOf(st)' = [cmp |-> None, scope |-> None, perms |-> None, wait |-> FALSE]
      BY <2>1, LoadDo DEF UiOf, ScopeOf
    <2> QED BY <2>1, <2>2, LoadDo DEF CompanyOf
  <1>3. CASE ListAnswers BY <1>0, <1>3, ListDo, UiSame
  <1>4. CASE ListFails BY <1>0, <1>4, ListFailDo, UiSame
  <1>5. CASE InfoAnswers BY <1>0, <1>5, AnswerDo, UiSame
  <1>6. CASE InfoFails BY <1>0, <1>6, FailDo, UiSame
  <1>7. CASE GivenUp BY <1>0, <1>7, GivenDo, UiSame
  <1>8. CASE Render BY <1>8, RenderDo, UiOfScope DEF Typed
  <1>9. CASE RunEffects
    <2>1. access'.of = CompanyOf(ui.scope) BY <1>9, RunDo, AccessFits DEF Left, Typed
    <2> QED BY <1>0, <1>9, <2>1, RunDo, UiSame DEF Left
  <1>10. ASSUME NEW c \in Companies, PickCompany(c) PROVE One' /\ Rest'
    <2>1. CASE UNCHANGED <<st, ui, access, info, stage>> BY <1>0, <2>1, UiSame
    <2>2. CASE ~UNCHANGED <<st, ui, access, info, stage>>
      <3>1. access'.of = CompanyOf(ui'.scope) BY <1>10, <2>2, PickDo, AccessFits
      <3>2. One' BY <1>10, <2>2, PickDo
      <3>3. stage' = "idle" => ui' = UiOf(st') /\ info'.of = ui'.cmp /\ access' = access BY <1>10, <2>2, PickDo
      <3> QED BY <3>1, <3>2, <3>3, UiSame
    <2> QED BY <2>1, <2>2
  <1>11. ASSUME NEW y \in Years, PickYear(y) PROVE One' /\ Rest'
    <2>1. CASE UNCHANGED <<st, ui, access, info, stage>> BY <1>0, <2>1, UiSame
    <2>2. CASE ~UNCHANGED <<st, ui, access, info, stage>>
      <3>1. access'.of = CompanyOf(ui'.scope) BY <1>11, <2>2, YearDo, AccessFits DEF Left
      <3>2. One' BY <1>11, <2>2, YearDo, UiOfScope
      <3>3. stage' = "idle" => ui' = UiOf(st') /\ info'.of = ui'.cmp /\ access' = access
        BY <1>11, <2>2, YearDo DEF Left
      <3> QED BY <3>1, <3>2, <3>3, UiSame
    <2> QED BY <2>1, <2>2
  <1>12. CASE Retry
    <2>1. access'.of = CompanyOf(ui'.scope) BY <1>12, RetryDo, AccessFits
    <2> QED BY <1>12, <2>1, RetryDo, UiSame
  <1>13. ASSUME NEW n \in BOOLEAN, Navigate(n) PROVE One' /\ Rest' BY <1>0, <1>13, NavigateDo
  <1>14. CASE Filter BY <1>0, <1>14, FilterDo, UiSame
  <1>15. CASE OtherTab BY <1>0, <1>15, OtherDo, UiSame
  <1>16. CASE AccessAnswers BY <1>0, <1>16, AccessDo
  <1>17. CASE PageAnswers BY <1>0, <1>17, PageDo, UiSame
  <1> QED BY <1>1, <1>2, <1>3, <1>4, <1>5, <1>6, <1>7, <1>8, <1>9, <1>10, <1>11, <1>12, <1>13, <1>14, <1>15,
             <1>16, <1>17 DEF Next

-----------------------------------------------------------------------------
(* The rows asked for are those of the scope the effects ran for.          *)

LEMMA RowsKept ==
    ASSUME Typed, Mine, Idle, Rows, [Next]_vars
    PROVE  Rows'
  <1>0. NoPage.call = None BY DEF NoPage
  <1>1. CASE UNCHANGED vars BY <1>1 DEF vars, Rows
  <1>2. CASE (\E l \in Links, n \in BOOLEAN : Visit(l, n)) \/ Refresh
    BY <1>2, LoadDo DEF Visit, Refresh, Rows
  <1>3. CASE \/ ListAnswers \/ ListFails \/ InfoAnswers \/ InfoFails \/ GivenUp \/ OtherTab \/ AccessAnswers \/ Filter
    <2>1. UNCHANGED <<ui, page>>
      BY <1>3, ListDo, ListFailDo, AnswerDo, FailDo, GivenDo, OtherDo, AccessDo, FilterDo
    <2> QED BY <2>1 DEF Rows
  <1>4. CASE Render BY <1>0, <1>4, RenderDo, PageFits DEF Rows
  <1>5. CASE RunEffects
    <2>1. page'.call # None => page'.call = page'.ran[1] BY <1>5, RunDo DEF Left, Rows
    <2> QED BY <1>5, <2>1, RunDo DEF Left, Rows
  <1>6. ASSUME NEW c \in Companies, PickCompany(c) PROVE Rows'
    BY <1>0, <1>6, PickDo DEF Rows
  <1>7. ASSUME NEW y \in Years, PickYear(y) PROVE Rows'
    <2>1. CASE UNCHANGED <<ui, page>> BY <2>1 DEF Rows
    <2>2. CASE ~UNCHANGED <<ui, page>>
      <3>1. Left(ui', PageOf(ui'), FALSE, new, Cleared) /\ ui' \in UiType BY <1>7, <2>2, YearDo
      <3>2. PageOf(ui').call # None => PageOf(ui').call = PageOf(ui').ran[1]
        BY <1>0, <3>1, PageFits DEF Rows
      <3>3. ui'.scope = None => PageOf(ui') = NoPage BY <3>1, PageFits
      <3> QED BY <3>1, <3>2, <3>3 DEF Left, Rows
    <2> QED BY <2>1, <2>2
  <1>8. CASE Retry BY <1>0, <1>8, RetryDo DEF Rows
  <1>9. ASSUME NEW n \in BOOLEAN, Navigate(n) PROVE Rows' BY <1>0, <1>9, NavigateDo DEF Rows
  <1>10. CASE PageAnswers
    <2>1. page # NoPage BY <1>0, <1>10, PageDo
    <2> QED BY <1>10, <2>1, PageDo DEF Rows
  <1> QED BY <1>1, <1>2, <1>3, <1>4, <1>5, <1>6, <1>7, <1>8, <1>9, <1>10 DEF Next

-----------------------------------------------------------------------------
(* A link that is refused stays refused.                                   *)

LEMMA NothingShown ==
    ASSUME Typed, Idle, ui.cmp = None
    PROVE  ui.scope = None
  BY Apart DEF Typed, Idle, UiType, Places, Scopes

LEMMA NoLinkIs == NoLink.cmp = Absent /\ NoLink.fy = Absent /\ ~Id(NoLink.cmp) /\ ~Id(NoLink.fy)
  BY DEF NoLink, Id

LEMMA NothingRefused == ~ScopeRefused(NoLink)
  BY Apart, NoLinkIs DEF ScopeRefused, CompanyRefused

LEMMA RefusalKept ==
    ASSUME Typed, Mine, Idle, Refusal, [Next]_vars
    PROVE  Refusal'
  <1> DEFINE None2 == [of |-> None, out |-> FALSE]
             Blank == st.cmp = None /\ ui.cmp = None /\ st.years = {} /\ info = None2
  <1>0. (ScopeRefused(asked) => Blank) /\ (Foreign => asked.cmp = named /\ url.cmp = named /\ (st.companies = {} \/ refused))
    BY DEF Refusal
  <1>a. ASSUME asked' = asked, mine' = mine, ScopeRefused(asked) => Blank' PROVE ScopeRefused(asked)' => Blank'
    BY <1>a DEF ScopeRefused, CompanyRefused
  <1>b. ASSUME asked' = NoLink PROVE ~ScopeRefused(asked)'
    BY <1>b, Apart, NoLinkIs DEF ScopeRefused, CompanyRefused
  <1>c. Foreign => ScopeRefused(asked) BY <1>0 DEF Foreign, ScopeRefused, CompanyRefused
  <1>d. ASSUME UNCHANGED <<mine, asked, url, path, named>>, st'.companies = st.companies, refused' = refused
        PROVE  Foreign' => asked'.cmp = named' /\ url'.cmp = named' /\ (st'.companies = {} \/ refused')
    BY <1>0, <1>d DEF Foreign
  <1>e. None2.of = None /\ ~None2.out OBVIOUS
  <1> HIDE DEF None2
  <1> SUFFICES /\ ScopeRefused(asked)' => Blank'
               /\ Foreign' => asked'.cmp = named' /\ url'.cmp = named' /\ (st'.companies = {} \/ refused')
    BY DEF Refusal, None2
  <1>1. CASE UNCHANGED vars BY <1>0, <1>1, <1>a, <1>d DEF vars
  <1>2. CASE \E l \in Links, n \in BOOLEAN : Visit(l, n)
    BY <1>2, LoadDo DEF Visit, None2, Foreign
  <1>3. CASE Refresh
    BY <1>0, <1>3, LoadDo DEF Refresh, None2, Foreign
  <1>4. CASE ListAnswers
    <2>1. ScopeRefused(asked) => Blank' BY <1>0, <1>4, ListDo
    <2>2. Foreign' => asked'.cmp = named' /\ url'.cmp = named' /\ (st'.companies = {} \/ refused')
      BY <1>0, <1>c, <1>4, ListDo DEF Foreign
    <2> QED BY <1>4, <2>1, <2>2, <1>a, ListDo
  <1>5. CASE ListFails BY <1>0, <1>5, <1>a, <1>d, ListFailDo
  <1>6. CASE InfoAnswers
    <2>1. ~ScopeRefused(asked) BY <1>0, <1>e, <1>6, AnswerDo, Apart
    <2>2. ScopeRefused(asked)' => Blank' BY <2>1, <1>6, <1>a, <1>b, AnswerDo
    <2>3. ~Foreign' BY <2>1, <1>6, <1>c, AnswerDo DEF Foreign
    <2> QED BY <2>2, <2>3
  <1>7. CASE InfoFails
    <2>1. ~ScopeRefused(asked) BY <1>0, <1>e, <1>7, FailDo, Apart
    <2>2. ScopeRefused(asked)' => Blank' BY <2>1, <1>7, <1>a, <1>b, FailDo
    <2>3. ~Foreign' BY <2>1, <1>7, <1>c, FailDo DEF Foreign
    <2> QED BY <2>2, <2>3
  <1>8. CASE GivenUp
    <2>1. ScopeRefused(asked) => info' = None2
      <3>1. ASSUME ScopeRefused(asked) PROVE info' = info
        BY <1>0, <1>e, <1>8, <3>1 DEF GivenUp
      <3> QED BY <3>1, <1>0
    <2> QED BY <1>0, <1>8, <2>1, <1>a, <1>d, GivenDo
  <1>9. CASE Render
    <2>1. ui'.cmp = st.cmp BY <1>9, RenderDo, UiFits DEF Typed
    <2> QED BY <1>0, <1>9, <2>1, <1>a, <1>d, RenderDo
  <1>10. CASE RunEffects
    <2>1. ScopeRefused(asked) => info' = info /\ url' = url
      <3> SUFFICES ASSUME ScopeRefused(asked) PROVE info' = info /\ url' = url OBVIOUS
      <3>1. ui.scope = None /\ ui.cmp = info.of BY <1>0, <1>e, NothingShown
      <3> QED BY <1>10, <3>1, RunDo DEF Left
    <2> QED BY <1>0, <1>10, <2>1, <1>a, <1>c, RunDo DEF Foreign
  <1>11. ASSUME NEW c \in Companies, PickCompany(c) PROVE Refusal'
    <2>1. ~ScopeRefused(asked)' BY <1>b, <1>11, PickDo
    <2>2. ~Foreign'
      <3>1. CASE refused BY <3>1, <1>11, PickDo DEF Foreign
      <3>2. CASE ~refused BY <3>2, <1>0, <1>11, PickDo DEF Foreign
      <3> QED BY <3>1, <3>2
    <2> QED BY <2>1, <2>2 DEF Refusal
  <1>12. ASSUME NEW y \in Years, PickYear(y) PROVE Refusal'
    <2>1. ~ScopeRefused(asked)' BY <1>b, <1>12, YearDo
    <2>2. ~Foreign' BY <1>0, <1>c, <1>12, YearDo DEF Foreign
    <2> QED BY <2>1, <2>2 DEF Refusal
  <1>13. CASE Retry
    <2>1. ScopeRefused(asked) => info' = None2
      <3> SUFFICES ASSUME ScopeRefused(asked) PROVE info' = None2 OBVIOUS
      <3>1. info'.of = None /\ info'.out = FALSE /\ info' \in InfoType BY <1>0, <1>e, <1>13, RetryDo DEF InfoType
      <3> QED BY <3>1 DEF None2, InfoType
    <2> QED BY <1>0, <1>13, <2>1, <1>a, <1>d, RetryDo
  <1>14. ASSUME NEW n \in BOOLEAN, Navigate(n) PROVE Refusal'
    <2>1. ScopeRefused(asked)' => Blank' BY <1>0, <1>a, <1>14, NavigateDo
    <2>2. ~Foreign' BY <1>14, NavigateDo DEF Foreign
    <2> QED BY <2>1, <2>2 DEF Refusal, None2
  <1>15. CASE Filter
    <2>1. ~ScopeRefused(asked) BY <1>0, <1>15, FilterDo, NothingShown
    <2> QED BY <1>15, <2>1, <1>a, <1>c, FilterDo DEF Foreign
  <1>16. CASE OtherTab BY <1>0, <1>16, <1>a, <1>d, OtherDo
  <1>17. CASE AccessAnswers BY <1>0, <1>17, <1>a, <1>d, AccessDo
  <1>18. CASE PageAnswers BY <1>0, <1>18, <1>a, <1>d, PageDo
  <1>19. ASSUME Refusal' PROVE /\ ScopeRefused(asked)' => Blank'
                               /\ Foreign' => asked'.cmp = named' /\ url'.cmp = named' /\ (st'.companies = {} \/ refused')
    BY <1>19 DEF Refusal, None2
  <1> QED BY <1>1, <1>2, <1>3, <1>4, <1>5, <1>6, <1>7, <1>8, <1>9, <1>10, <1>11, <1>12, <1>13, <1>14, <1>15,
             <1>16, <1>17, <1>18, <1>19 DEF Next

-----------------------------------------------------------------------------
(* A switch is remembered, and nothing in the address bar overrules it.    *)

LEMMA ChosenIs ==
    ASSUME Typed, NEW c \in mine, stored.cmp = c, asked.cmp \in {Absent, c}
    PROVE  Chosen(asked) = c
  BY DEF Chosen, Id

LEMMA LastsIs ==
    ASSUME NEW c, NEW bar, Lasts(c, bar) # None
    PROVE  Lasts(c, bar) = c /\ bar.cmp \in {Absent, c}
  BY DEF Lasts

LEMMA SwitchedKept ==
    ASSUME Typed, Typed', Mine, Idle, Switched, [Next]_vars
    PROVE  Switched'
  <1> SUFFICES ASSUME picked' # None, ~shared'
               PROVE  /\ stored'.cmp = picked' /\ picked' \in mine'
                      /\ asked'.cmp \in {Absent, picked'} /\ url'.cmp \in {Absent, picked'}
                      /\ {st'.cmp, ui'.cmp, info'.of} \subseteq {None, picked'}
    BY DEF Switched, Only
  <1>0. ASSUME picked # None, ~shared
        PROVE  /\ stored.cmp = picked /\ picked \in mine
               /\ asked.cmp \in {Absent, picked} /\ url.cmp \in {Absent, picked}
               /\ {st.cmp, ui.cmp, info.of} \subseteq {None, picked}
               /\ Cleared.cmp \in {Absent, picked}
    BY <1>0, NoLinkIs DEF Switched, Only, Cleared
  <1>1. CASE UNCHANGED vars BY <1>0, <1>1 DEF vars
  <1>2. CASE \E l \in Links, n \in BOOLEAN : Visit(l, n) BY <1>2 DEF Visit
  <1>3. CASE Refresh
    BY <1>0, <1>3, LoadDo DEF Refresh
  <1>4. CASE ListAnswers
    <2>1. picked # None /\ ~shared BY <1>4, ListDo
    <2>2. Chosen(asked) = picked BY <2>1, <1>0, ChosenIs
    <2> QED BY <2>1, <2>2, <1>0, <1>4, ListDo
  <1>5. CASE ListFails BY <1>0, <1>5, ListFailDo
  <1>6. CASE InfoAnswers
    <2>1. picked # None /\ ~shared BY <1>6, AnswerDo
    <2>2. info.of = picked BY <2>1, <1>0, <1>6, AnswerDo, Apart
    <2>3. stored'.cmp = picked BY <2>1, <2>2, <1>0, <1>6, AnswerDo
    <2>4. asked'.cmp \in {Absent, picked} /\ url'.cmp \in {Absent, picked}
      BY <2>1, <1>0, <1>6, AnswerDo, NoLinkIs
    <2> QED BY <2>1, <2>3, <2>4, <1>0, <1>6, AnswerDo
  <1>7. CASE InfoFails
    <2>1. picked # None /\ ~shared BY <1>7, FailDo
    <2>2. info.of = picked BY <2>1, <1>0, <1>7, FailDo, Apart
    <2>3. stored'.cmp = picked BY <2>1, <2>2, <1>0, <1>7, FailDo
    <2>4. asked'.cmp \in {Absent, picked} /\ url'.cmp \in {Absent, picked}
      BY <2>1, <1>0, <1>7, FailDo, NoLinkIs
    <2> QED BY <2>1, <2>3, <2>4, <1>0, <1>7, FailDo
  <1>8. CASE GivenUp BY <1>0, <1>8, GivenDo
  <1>9. CASE Render BY <1>0, <1>9, RenderDo, UiFits DEF Typed
  <1>10. CASE RunEffects
    <2>1. \/ picked' = picked /\ url' = url
          \/ picked' = Lasts(picked, router) /\ url' \in {url, router}
      BY <1>10, RunDo DEF Left, Arrived
    <2>2. picked' = picked BY <2>1, LastsIs
    <2>3. url'.cmp \in {Absent, picked'} BY <2>1, <2>2, <1>0, <1>10, LastsIs, RunDo
    <2> QED BY <2>2, <2>3, <1>0, <1>10, RunDo DEF Left
  <1>11. ASSUME NEW c \in Companies, PickCompany(c)
         PROVE  /\ stored'.cmp = picked' /\ picked' \in mine'
                /\ asked'.cmp \in {Absent, picked'} /\ url'.cmp \in {Absent, picked'}
                /\ {st'.cmp, ui'.cmp, info'.of} \subseteq {None, picked'}
    <2>1. asked'.cmp = Absent BY <1>11, PickDo, NoLinkIs
    <2>2. CASE c = st.cmp
      <3>1. picked' = picked /\ url' = Cleared /\ UNCHANGED <<mine, shared, stored, st, ui, info>>
        BY <1>11, <2>2, PickDo DEF Open
      <3> QED BY <3>1, <2>1, <1>0
    <2>3. CASE c # st.cmp
      <3>1. /\ stored'.cmp = c /\ st'.cmp = c /\ ui'.cmp = c /\ info'.of = c /\ c \in mine /\ mine' = mine
            /\ url' = Cleared
        BY <1>11, <2>3, PickDo DEF Mine
      <3>2. picked' = IF asked = NoLink THEN Lasts(c, url) ELSE c
        BY <1>11, <2>3, PickDo DEF Open
      <3>3. picked' = c BY <3>2, LastsIs
      <3>4. url'.cmp \in {Absent, c}
        <4>1. CASE asked = NoLink BY <4>1, <3>1, <3>2, LastsIs DEF Cleared
        <4>2. CASE asked # NoLink BY <4>2, <3>1, NoLinkIs DEF Cleared
        <4> QED BY <4>1, <4>2
      <3> QED BY <2>1, <3>1, <3>3, <3>4
    <2> QED BY <2>2, <2>3
  <1>12. ASSUME NEW y \in Years, PickYear(y)
         PROVE  /\ stored'.cmp = picked' /\ picked' \in mine'
                /\ asked'.cmp \in {Absent, picked'} /\ url'.cmp \in {Absent, picked'}
                /\ {st'.cmp, ui'.cmp, info'.of} \subseteq {None, picked'}
    <2>1. asked'.cmp = Absent /\ shared' = shared /\ mine' = mine BY <1>12, YearDo, NoLinkIs
    <2>2. CASE UNCHANGED <<stored, picked, st, ui, info>> /\ url' = Cleared
      BY <2>1, <2>2, <1>0
    <2>3. CASE ~(UNCHANGED <<stored, picked, st, ui, info>> /\ url' = Cleared)
      <3>1. /\ stored'.cmp = stored.cmp /\ st'.cmp = st.cmp /\ ui'.cmp = st.cmp /\ info'.of = st.cmp
            /\ \/ picked' = picked /\ url' = Cleared
               \/ picked' = Lasts(picked, router) /\ url' \in {Cleared, router}
        BY <1>12, <2>3, YearDo DEF Left, Arrived, Typed, StoreType
      <3>2. picked' = picked BY <3>1, LastsIs
      <3>3. url'.cmp \in {Absent, picked'} BY <3>1, <3>2, <2>1, <1>0, LastsIs
      <3> QED BY <2>1, <3>1, <3>2, <3>3, <1>0
    <2> QED BY <2>2, <2>3
  <1>13. CASE Retry BY <1>0, <1>13, RetryDo
  <1>14. ASSUME NEW n \in BOOLEAN, Navigate(n)
         PROVE  /\ stored'.cmp = picked' /\ picked' \in mine'
                /\ asked'.cmp \in {Absent, picked'} /\ url'.cmp \in {Absent, picked'}
                /\ {st'.cmp, ui'.cmp, info'.of} \subseteq {None, picked'}
    BY <1>0, <1>14, NavigateDo, NoLinkIs
  <1>15. CASE Filter
    <2>1. picked' = picked /\ url'.cmp \in {Absent, picked} BY <1>15, FilterDo, LastsIs
    <2> QED BY <2>1, <1>0, <1>15, FilterDo
  <1>16. CASE OtherTab BY <1>16, OtherDo
  <1>17. CASE AccessAnswers BY <1>0, <1>17, AccessDo
  <1>18. CASE PageAnswers BY <1>0, <1>18, PageDo
  <1> QED BY <1>1, <1>2, <1>3, <1>4, <1>5, <1>6, <1>7, <1>8, <1>9, <1>10, <1>11, <1>12, <1>13, <1>14, <1>15,
             <1>16, <1>17, <1>18 DEF Next

-----------------------------------------------------------------------------
(* The link of the visit is asked again, or it is what the storage holds.  *)

LEMMA ShownIs ==
    ASSUME Typed
    PROVE  /\ Shown # None <=> st.status = "ready" /\ st.cmp # None /\ st.fy # None
           /\ Shown # None => Shown.cmp = st.cmp /\ Shown.fy = st.fy
           /\ UiOf(st).scope = Shown
  BY ScopeFits, UiFits DEF Shown, Typed

\* The company whose years answer is the one the link or the storage names.
LEMMA AboutChosen ==
    ASSUME Typed, Mine, Refusal, Followed, ~shared, linked # NoLink, info.out, info.of \in Companies
    PROVE  /\ info.of = Chosen(asked) /\ info.of \in mine /\ ~ScopeRefused(asked)
           /\ Asks = asked /\ st.cmp \in {None, info.of} /\ ui.cmp \in {None, info.of}
           /\ Id(asked.cmp) => asked.cmp = info.of
           /\ ~Id(asked.cmp) => asked.cmp = Absent
           /\ asked.fy # Unreadable
           /\ \/ Names(asked, linked) /\ linked.cmp \in {Absent, info.of}
              \/ asked = NoLink /\ Kept /\ stored.cmp = info.of
  <1>1. info.of \in mine /\ info.of # None /\ mine # {} BY Apart DEF Mine
  <1>2. info.of = Chosen(asked) /\ st.cmp \in {None, info.of} /\ ui.cmp \in {None, info.of}
    BY <1>1 DEF Followed, Only
  <1>3. ~ScopeRefused(asked) BY DEF Refusal
  <1>4. Id(asked.cmp) => asked.cmp = info.of BY <1>2 DEF Chosen
  <1>5. Asks = asked BY <1>4 DEF Asks, ForCompany
  <1>6. ~Id(asked.cmp) => asked.cmp = Absent
    BY <1>3, Apart DEF Id, ScopeRefused, CompanyRefused, Mine, Typed
  <1>7. asked.fy # Unreadable BY <1>3 DEF ScopeRefused
  <1>8. Names(asked, linked) => linked.cmp \in {Absent, info.of}
    BY <1>4, <1>6 DEF Names
  <1>9. asked = NoLink /\ Kept => stored.cmp = info.of
    BY <1>2, NoLinkIs DEF Kept, Chosen
  <1> QED BY <1>1, <1>2, <1>3, <1>4, <1>5, <1>6, <1>7, <1>8, <1>9 DEF Followed, Holds

\* Once it is what the storage holds, every load opens it.
LEMMA FollowedOn ==
    ASSUME Typed, Typed', Followed, ~shared, linked # NoLink, mine' = mine,
           linked' = linked \/ (linked'.fy = Absent /\ linked'.cmp = linked.cmp),
           Kept', asked' = NoLink, url' \in {url, NoLink}, router' = router,
           {st'.cmp, ui'.cmp, info'.of} \subseteq {None, stored'.cmp},
           Shown' # None => Shown' = [cmp |-> stored'.cmp, fy |-> stored'.fy],
           ui' = ui
    PROVE  Followed'
  <1>1. ASSUME NEW r, Names(r, linked) PROVE Names(r, linked')
    BY <1>1 DEF Names
  <1>2. Holds(asked)' /\ Holds(url)' /\ Holds(router)'
    BY <1>1 DEF Followed, Holds
  <1>3. Chosen(asked)' = stored'.cmp BY NoLinkIs DEF Chosen, Kept
  <1>4. Shown' # None => Names(Shown, linked)' BY DEF Names, Kept
  <1>5. ui'.scope # None => Names(ui.scope, linked)' BY <1>1 DEF Followed
  <1> QED BY <1>2, <1>3, <1>4, <1>5 DEF Followed, Only

LEMMA FollowedAnswer ==
    ASSUME Typed, Typed', Mine, Refusal, Followed, ~shared, linked # NoLink, InfoAnswers
    PROVE  Followed'
  <1>1. /\ info.of = Chosen(asked) /\ info.of \in mine /\ ~ScopeRefused(asked)
        /\ Asks = asked /\ st.cmp \in {None, info.of} /\ ui.cmp \in {None, info.of}
        /\ \/ Names(asked, linked) /\ linked.cmp \in {Absent, info.of}
           \/ asked = NoLink /\ Kept /\ stored.cmp = info.of
    BY AnswerDo, AboutChosen
  <1>2. CASE st'.status = "error" /\ UNCHANGED <<stored, url, asked>>
    <2>1. Shown' = None BY <1>2, ShownIs, AnswerDo DEF Shown, ScopeOf
    <2>2. UNCHANGED <<mine, shared, stored, url, asked, router, linked, ui>> /\ st'.cmp = st.cmp /\ info'.of = info.of
      BY <1>2, AnswerDo
    <2> QED BY <2>1, <2>2 DEF Followed, Holds, Kept, Names, Only, Chosen
  <1>3. CASE /\ ~YearRefused(Asks, info.of)
             /\ stored' = [cmp |-> info.of, fy |-> st'.fy]
             /\ st'.fy = IF Asks.fy # Absent THEN Asks.fy ELSE Remembered
             /\ \/ Asks # NoLink /\ asked' = NoLink /\ url' = Cleared
                \/ Asks = NoLink /\ UNCHANGED <<url, asked>>
    <2>1. asked' = NoLink /\ url' \in {url, NoLink} BY <1>1, <1>3 DEF Cleared
    <2>2. stored'.cmp = info.of /\ stored'.fy = st'.fy BY <1>3
    <2>3. UNCHANGED <<mine, shared, router, linked, ui>> /\ st'.cmp = st.cmp /\ info'.of = info.of BY AnswerDo
    <2>4. linked.cmp \in {Absent, info.of} BY <1>1 DEF Kept, Names
    <2>5. linked.fy # Absent => linked.fy = st'.fy /\ linked.fy \in YearsOf(info.of)
      <3> SUFFICES ASSUME linked.fy # Absent PROVE linked.fy = st'.fy /\ linked.fy \in YearsOf(info.of) OBVIOUS
      <3>1. CASE Names(asked, linked) BY <3>1, <1>1, <1>3 DEF Names, YearRefused
      <3>2. CASE asked = NoLink /\ Kept /\ stored.cmp = info.of
        BY <3>2, <1>1, <1>3, NoLinkIs DEF Kept, Names, Remembered
      <3> QED BY <1>1, <3>1, <3>2
    <2>6. Kept' BY <1>1, <2>2, <2>3, <2>4, <2>5 DEF Kept, Names
    <2>7. Shown' # None => Shown' = [cmp |-> stored'.cmp, fy |-> stored'.fy]
      <3>1. st' \in StateType BY AnswerDo
      <3>2. ScopeOf(st') # None => ScopeOf(st') = [cmp |-> st'.cmp, fy |-> st'.fy] /\ st'.cmp # None BY <3>1, ScopeFits
      <3> QED BY <3>2, <1>1, <2>2, <2>3 DEF Shown
    <2> QED BY <1>1, <2>1, <2>2, <2>3, <2>6, <2>7, FollowedOn
  <1> QED BY <1>2, <1>3, AnswerDo

LEMMA FollowedFail ==
    ASSUME Typed, Typed', Mine, Refusal, Followed, ~shared, linked # NoLink, InfoFails
    PROVE  Followed'
  <1>1. /\ info.of = Chosen(asked) /\ info.of \in mine
        /\ Asks = asked /\ st.cmp \in {None, info.of} /\ ui.cmp \in {None, info.of}
        /\ asked.fy # Unreadable
        /\ \/ Names(asked, linked) /\ linked.cmp \in {Absent, info.of}
           \/ asked = NoLink /\ Kept /\ stored.cmp = info.of
    BY FailDo, AboutChosen
  <1>2. st' \in StateType /\ UNCHANGED <<mine, shared, router, ui>> /\ st'.cmp = st.cmp /\ info'.of = info.of
    BY FailDo
  <1>3. ScopeOf(st') # None => ScopeOf(st') = [cmp |-> st'.cmp, fy |-> st'.fy] /\ st'.cmp # None BY <1>2, ScopeFits
  <1>4. CASE /\ Id(Asks.fy)
             /\ stored' = [cmp |-> info.of, fy |-> Asks.fy] /\ asked' = NoLink /\ url' = Cleared
             /\ linked' = [linked EXCEPT !.fy = Absent]
             /\ st'.fy = Asks.fy
    <2>1. url' \in {url, NoLink} BY <1>4 DEF Cleared
    <2>2. stored'.cmp = info.of /\ stored'.fy = st'.fy BY <1>4
    <2>3. linked'.fy = Absent /\ linked'.cmp = linked.cmp BY <1>4 DEF Typed, LinkType
    <2>4. linked.cmp \in {Absent, info.of} BY <1>1 DEF Kept, Names
    <2>5. Kept' BY <1>1, <1>2, <2>2, <2>3, <2>4 DEF Kept, Names
    <2>6. Shown' # None => Shown' = [cmp |-> stored'.cmp, fy |-> stored'.fy]
      BY <1>1, <1>2, <1>3, <2>2 DEF Shown
    <2> QED BY <1>1, <1>2, <1>4, <2>1, <2>2, <2>3, <2>5, <2>6, FollowedOn
  <1>5. CASE /\ ~Id(Asks.fy) /\ UNCHANGED <<stored, url, asked, linked>>
             /\ stored.cmp = info.of /\ stored.fy # None /\ st'.fy = stored.fy
    <2>1. asked.fy = Absent BY <1>1, <1>5 DEF Id
    <2>2. Kept
      <3>1. CASE Names(asked, linked) /\ linked.cmp \in {Absent, info.of}
        BY <3>1, <2>1, <1>1, <1>5 DEF Kept, Names
      <3> QED BY <3>1, <1>1
    <2>3. Shown' # None => Shown' = [cmp |-> stored.cmp, fy |-> stored.fy]
      BY <1>1, <1>2, <1>3, <1>5 DEF Shown
    <2> QED BY <1>1, <1>2, <1>5, <2>2, <2>3 DEF Followed, Holds, Kept, Names, Only, Chosen
  <1>6. CASE /\ UNCHANGED <<stored, url, asked, linked>> /\ st'.status = "error"
    <2>1. Shown' = None BY <1>6 DEF Shown, ScopeOf
    <2> QED BY <1>1, <1>2, <1>6, <2>1 DEF Followed, Holds, Kept, Names, Only, Chosen
  <1> QED BY <1>4, <1>5, <1>6, FailDo

LEMMA FollowedKept ==
    ASSUME Typed, Typed', Mine, Idle, Refusal, Followed, [Next]_vars
    PROVE  Followed'
  <1> SUFFICES ASSUME ~shared', linked' # NoLink PROVE Followed' BY DEF Followed
  <1>0. ASSUME UNCHANGED <<mine, shared, stored, linked, asked, url, router, ui>>, info'.of = info.of,
               st'.cmp = st.cmp, Shown' = None \/ Shown' = Shown
        PROVE  Followed'
    BY <1>0 DEF Followed, Holds, Kept, Names, Only, Chosen
  <1>a. ASSUME st' = st PROVE Shown' = Shown BY <1>a DEF Shown
  <1>b. ASSUME st'.status # "ready" PROVE Shown' = None BY <1>b DEF Shown, ScopeOf
  <1>1. CASE UNCHANGED vars BY <1>0, <1>a, <1>1 DEF vars
  <1>2. CASE \E l \in Links, n \in BOOLEAN : Visit(l, n)
    <2>1. Load /\ asked' = linked' /\ url' = linked' /\ router' = linked' BY <1>2 DEF Visit
    <2>2. Names(linked, linked)' BY DEF Names
    <2>3. Shown' = None BY <2>1, <1>b, LoadDo
    <2> QED BY <2>1, <2>2, <2>3, LoadDo DEF Followed, Holds, Only
  <1>3. CASE Refresh
    <2>1. Load /\ asked' = url /\ router' = url /\ url' = url /\ linked' = linked BY <1>3 DEF Refresh
    <2>2. Shown' = None BY <2>1, <1>b, LoadDo
    <2> QED BY <2>1, <2>2, LoadDo DEF Followed, Holds, Kept, Names, Only
  <1>4. CASE ListAnswers
    <2>1. Shown' = None BY <1>4, <1>b, ListDo
    <2>2. UNCHANGED <<mine, shared, stored, linked, asked, url, router, ui>> /\ info'.of = info.of
          /\ (mine = {} \/ st'.cmp \in {None, Chosen(asked)})
      BY <1>4, ListDo
    <2> QED BY <2>1, <2>2 DEF Followed, Holds, Kept, Names, Only, Chosen
  <1>5. CASE ListFails BY <1>5, <1>0, <1>b, ListFailDo
  <1>6. CASE InfoAnswers BY <1>6, FollowedAnswer, AnswerDo
  <1>7. CASE InfoFails
    <2>1. CASE linked = NoLink
      <3>1. linked'.fy = Absent /\ linked'.cmp = Absent BY <2>1, <1>7, FailDo, NoLinkIs DEF Typed, LinkType
      <3>2. linked' = NoLink
        <4>1. linked' = linked \/ linked' = [linked EXCEPT !.fy = Absent] BY <1>7, FailDo
        <4> QED BY <4>1, <2>1 DEF NoLink
      <3> QED BY <3>2
    <2>2. CASE linked # NoLink BY <2>2, <1>7, FollowedFail, FailDo
    <2> QED BY <2>1, <2>2
  <1>8. CASE GivenUp BY <1>8, <1>0, <1>a, GivenDo
  <1>9. CASE Render
    <2>1. ui'.cmp = st.cmp /\ ui'.scope = Shown BY <1>9, RenderDo, UiFits DEF Typed, Shown
    <2>2. UNCHANGED <<mine, shared, stored, linked, asked, url, router, info, st>> BY <1>9, RenderDo
    <2>3. Shown' = Shown BY <2>2, <1>a
    <2> QED BY <2>1, <2>2, <2>3 DEF Followed, Holds, Kept, Names, Only, Chosen
  <1>10. CASE RunEffects
    <2>1. UNCHANGED <<mine, shared, stored, linked, asked, router, ui, st>> /\ info'.of = ui.cmp /\ url' \in {url, router}
      BY <1>10, RunDo DEF Left
    <2>2. Shown' = Shown BY <2>1, <1>a
    <2> QED BY <2>1, <2>2 DEF Followed, Holds, Kept, Names, Only, Chosen
  <1>11. ASSUME NEW c \in Companies, PickCompany(c) PROVE Followed' BY <1>11, PickDo
  <1>12. ASSUME NEW y \in Years, PickYear(y) PROVE Followed' BY <1>12, YearDo
  <1>13. CASE Retry
    <2>1. UNCHANGED <<mine, shared, stored, linked, asked, router, url>> /\ info'.of = st.cmp /\ ui'.cmp = st.cmp
          /\ st'.cmp = st.cmp /\ ui'.scope = None
      BY <1>13, RetryDo
    <2>2. Shown' = None BY <1>13, <1>b, RetryDo
    <2> QED BY <2>1, <2>2 DEF Followed, Holds, Kept, Names, Only, Chosen
  <1>14. ASSUME NEW n \in BOOLEAN, Navigate(n) PROVE Followed'
    <2>1. Shown # None BY <1>14, NavigateDo, ShownIs DEF Idle
    <2>2. UNCHANGED <<mine, shared, stored, linked, asked, ui, st, info>> /\ url' = NoLink /\ router' = NoLink
      BY <1>14, NavigateDo
    <2>3. Shown' = Shown BY <2>2, <1>a
    <2> QED BY <2>1, <2>2, <2>3 DEF Followed, Holds, Kept, Names, Only, Chosen
  <1>15. CASE Filter
    <2>1. UNCHANGED <<mine, shared, stored, linked, asked, router, ui, st, info>> /\ url' = router BY <1>15, FilterDo
    <2>2. Shown' = Shown BY <2>1, <1>a
    <2> QED BY <2>1, <2>2 DEF Followed, Holds, Kept, Names, Only, Chosen
  <1>16. CASE OtherTab BY <1>16, OtherDo
  <1>17. CASE AccessAnswers BY <1>17, <1>0, <1>a, AccessDo
  <1>18. CASE PageAnswers BY <1>18, <1>0, <1>a, PageDo
  <1> QED BY <1>1, <1>2, <1>3, <1>4, <1>5, <1>6, <1>7, <1>8, <1>9, <1>10, <1>11, <1>12, <1>13, <1>14, <1>15,
             <1>16, <1>17, <1>18 DEF Next

-----------------------------------------------------------------------------
(* Until reload() is called, the requests of a load come one by one.       *)

LEMMA LoadingIs ==
    /\ Loading.status = "loading" /\ Loading.companies = {} /\ Loading.cmp = None /\ Loading.years = {}
    /\ ScopeOf(Loading) = None
  BY DEF Loading, ScopeOf

LEMMA InTurnKept ==
    ASSUME Typed, Typed', Mine, Idle, ~retried => InTurn /\ Permitted, ~retried', [Next]_vars
    PROVE  InTurn'
  <1>a. ASSUME st' = st PROVE Shown' = Shown BY <1>a DEF Shown
  <1>b. ASSUME st'.status # "ready" PROVE Shown' = None BY <1>b DEF Shown, ScopeOf
  <1>c. YearsOf(st.cmp)' = YearsOf(st'.cmp) BY DEF YearsOf
  <1>0. ASSUME UNCHANGED <<list, info, st, ui, lost, retried>>, stage' # "effects" \/ stage = "effects",
               list => stage' = "idle"
        PROVE  InTurn'
    BY <1>0, <1>a DEF InTurn
  <1>1. CASE UNCHANGED vars BY <1>1, <1>0 DEF vars, InTurn
  <1>2. CASE (\E l \in Links, n \in BOOLEAN : Visit(l, n)) \/ Refresh
    <2>1. Load BY <1>2 DEF Visit, Refresh
    <2>2. Shown' = None BY <2>1, <1>b, LoadDo
    <2> QED BY <2>1, <2>2, LoadDo DEF InTurn
  <1>3. CASE ListAnswers
    <2>1. InTurn /\ list BY <1>3, ListDo
    <2>2. st = Loading /\ stage = "idle" /\ ui.scope = None /\ info.of = None /\ ~info.out BY <2>1 DEF InTurn
    <2>3. Shown' = None BY <1>3, <1>b, ListDo
    <2>4. /\ ~list' /\ info' = info /\ ui' = ui /\ stage' # "effects" /\ st'.years = {}
          /\ st'.cmp # None => st'.status = "loading"
          /\ st'.status = "loading" => st'.cmp # None
      BY <1>3, <2>2, ListDo, LoadingIs, Apart DEF Typed
    <2> QED BY <2>2, <2>3, <2>4 DEF InTurn
  <1>4. CASE ListFails
    <2>1. InTurn /\ list BY <1>4, ListFailDo
    <2>2. st = Loading /\ stage = "idle" /\ ui.scope = None /\ info.of = None /\ ~info.out BY <2>1 DEF InTurn
    <2>3. Shown' = None BY <1>4, <1>b, ListFailDo
    <2>4. ~list' /\ info' = info /\ ui' = ui /\ stage' # "effects" /\ st'.years = {} /\ st'.cmp = None
          /\ st'.status = "error"
      BY <1>4, <2>2, ListFailDo, LoadingIs
    <2> QED BY <2>2, <2>3, <2>4 DEF InTurn
  <1>5. CASE InfoAnswers
    <2>1. InTurn /\ info.out BY <1>5, AnswerDo
    <2>2. st.status = "loading" /\ info.of = st.cmp /\ ~list BY <2>1 DEF InTurn
    <2>3. Shown = None BY <2>2, ShownIs
    <2>4. Shown' # None => YearOf[st'.fy] = st'.cmp
      <3>1. st' \in StateType /\ st'.cmp = info.of /\ st'.fy \in YearsOf(info.of) \cup {None} BY <1>5, <2>2, AnswerDo
      <3>2. Shown' # None => st'.fy # None BY <3>1, ScopeFits DEF Shown
      <3> QED BY <3>1, <3>2 DEF YearsOf
    <2>5. /\ ~list' /\ ~info'.out /\ info'.of = st'.cmp /\ ui' = ui /\ st'.cmp = st.cmp
          /\ (stage' = "effects" => stage = "effects") /\ st'.years = YearsOf(st'.cmp) /\ st'.status # "loading"
      BY <1>5, <2>2, AnswerDo
    <2> QED BY <1>c, <2>1, <2>3, <2>4, <2>5 DEF InTurn
  <1>6. CASE InfoFails
    <2>1. InTurn /\ info.out BY <1>6, FailDo
    <2>2. st.status = "loading" /\ info.of = st.cmp /\ ~list BY <2>1 DEF InTurn
    <2>3. Shown = None BY <2>2, ShownIs
    <2>4. Shown' = None \/ st'.warn BY <1>6, <1>b, FailDo
    <2>5. /\ ~list' /\ ~info'.out /\ info'.of = st'.cmp /\ ui' = ui /\ st'.cmp = st.cmp
          /\ (stage' = "effects" => stage = "effects") /\ st'.status # "loading" /\ (st'.years = {} \/ st'.years = st.years)
      BY <1>6, <2>2, FailDo
    <2> QED BY <1>c, <2>1, <2>3, <2>4, <2>5 DEF InTurn
  <1>7. CASE GivenUp
    <2>1. Shown' = Shown BY <1>7, <1>a, GivenDo
    <2> QED BY <1>7, <2>1, GivenDo DEF InTurn
  <1>8. CASE Render
    <2>1. ui'.cmp = st.cmp /\ ui'.scope = Shown BY <1>8, RenderDo, UiFits DEF Typed, Shown
    <2>2. Shown' = Shown BY <1>8, <1>a, RenderDo
    <2> QED BY <1>8, <2>1, <2>2, RenderDo DEF InTurn
  <1>9. CASE RunEffects
    <2>1. InTurn /\ Shown' = Shown BY <1>9, <1>a, RunDo
    <2>2. ui.cmp = st.cmp /\ ~list BY <1>9, <2>1, RunDo DEF InTurn
    <2>3. /\ info'.of = st.cmp /\ (st.cmp = info.of => info' = info)
          /\ (st.cmp # info.of => info'.out = (st.cmp # None)) /\ stage' # "effects"
      BY <1>9, <2>2, RunDo DEF Left
    <2>4. UNCHANGED <<list, ui, st, lost>> BY <1>9, RunDo
    <2> QED BY <2>1, <2>2, <2>3, <2>4 DEF InTurn
  <1>10. ASSUME NEW c \in Companies, PickCompany(c) PROVE InTurn'
    <2>1. CASE c = st.cmp BY <1>10, <2>1, <1>0, PickDo DEF InTurn
    <2>2. CASE c # st.cmp
      <3>1. ~list /\ ~list' /\ stage = "idle" /\ InTurn BY <1>10, <2>2, PickDo, LoadingIs DEF InTurn
      <3>2. c # info.of BY <1>10, <2>2, <3>1, UiFits DEF Idle, Typed
      <3>3. Shown' = None BY <1>10, <2>2, <1>b, PickDo
      <3> QED BY <1>10, <2>2, <3>1, <3>2, <3>3, PickDo, Apart DEF InTurn
    <2> QED BY <2>1, <2>2
  <1>11. ASSUME NEW y \in Years, PickYear(y) PROVE InTurn'
    <2>1. CASE UNCHANGED <<st, ui, info, stage>> BY <1>11, <2>1, <1>0, YearDo DEF InTurn
    <2>2. CASE ~UNCHANGED <<st, ui, info, stage>>
      <3>1. /\ InTurn /\ stage = "idle" /\ st.status # "loading" /\ y \in st.years /\ UNCHANGED <<list, lost>>
            /\ st' \in StateType /\ st'.status = "ready" /\ st'.cmp = st.cmp /\ st'.years = st.years /\ st'.fy = y
            /\ ui' = UiOf(st') /\ ui'.cmp = st.cmp
            /\ Left(ui', PageOf(ui'), FALSE, new, Cleared)
        BY <1>11, <2>2, YearDo
      <3>2. ~list /\ ~info.out BY <3>1, LoadingIs DEF InTurn
      <3>3. info.of = st.cmp BY <3>1, UiFits DEF Idle, Typed
      <3>4. info' = info /\ stage' # "effects" BY <3>1, <3>3 DEF Left
      <3>5. ui'.scope = Shown' BY <3>1, UiFits DEF Shown
      <3>6. YearOf[st'.fy] = st'.cmp BY <3>1 DEF InTurn, YearsOf
      <3>7. st'.years \subseteq YearsOf(st'.cmp) BY <3>1 DEF InTurn
      <3> QED BY <1>c, <3>1, <3>2, <3>3, <3>4, <3>5, <3>6, <3>7 DEF InTurn
    <2> QED BY <2>1, <2>2
  <1>12. CASE Retry BY <1>12, RetryDo
  <1>13. ASSUME NEW n \in BOOLEAN, Navigate(n) PROVE InTurn' BY <1>13, <1>0, NavigateDo DEF InTurn
  <1>14. CASE Filter BY <1>14, <1>0, FilterDo DEF InTurn
  <1>15. CASE OtherTab BY <1>15, <1>0, OtherDo DEF InTurn
  <1>16. CASE AccessAnswers BY <1>16, <1>0, AccessDo DEF InTurn, Permitted
  <1>17. CASE PageAnswers BY <1>17, <1>0, PageDo DEF InTurn
  <1> QED BY <1>1, <1>2, <1>3, <1>4, <1>5, <1>6, <1>7, <1>8, <1>9, <1>10, <1>11, <1>12, <1>13, <1>14, <1>15,
             <1>16, <1>17 DEF Next

LEMMA OneScopeKept ==
    ASSUME Typed, Typed', Mine, Idle, Rows, ~retried => InTurn /\ OneScope, ~retried', [Next]_vars
    PROVE  OneScope'
  <1>0. NoPage.call = None /\ NoPage.data = None BY DEF NoPage
  <1>1. CASE UNCHANGED vars BY <1>1 DEF vars, OneScope
  <1>2. CASE (\E l \in Links, n \in BOOLEAN : Visit(l, n)) \/ Refresh
    BY <1>2, LoadDo DEF Visit, Refresh, OneScope
  <1>3. CASE \/ ListAnswers \/ ListFails \/ InfoAnswers \/ InfoFails \/ GivenUp \/ OtherTab \/ AccessAnswers \/ Filter
    <2>1. UNCHANGED <<ui, page, retried>>
      BY <1>3, ListDo, ListFailDo, AnswerDo, FailDo, GivenDo, OtherDo, AccessDo, FilterDo
    <2> QED BY <2>1 DEF OneScope
  <1>4. CASE Render
    <2>1. InTurn /\ OneScope /\ page' = PageOf(ui') /\ ui' \in UiType /\ ui'.scope = Shown
      BY <1>4, RenderDo, UiFits DEF Shown, Typed
    <2>2. CASE ui'.scope = None BY <1>0, <2>1, <2>2, PageFits DEF OneScope
    <2>3. CASE ui'.scope # None
      <3>1. page'.call = page.call /\ page'.data = IF ui'.scope = ui.scope THEN page.data ELSE None
        BY <2>1, <2>3, PageFits
      <3>2. CASE ui.scope = None BY <1>0, <2>3, <3>1, <3>2 DEF Rows, OneScope
      <3>3. CASE ui.scope # None BY <2>1, <3>1, <3>3 DEF InTurn, OneScope
      <3> QED BY <3>2, <3>3
    <2> QED BY <2>2, <2>3
  <1>5. CASE RunEffects
    <2>1. OneScope /\ ui' = ui /\ Left(ui, page, FALSE, new, url) BY <1>5, RunDo
    <2> QED BY <2>1 DEF Left, Rows, OneScope
  <1>6. ASSUME NEW c \in Companies, PickCompany(c) PROVE OneScope'
    BY <1>0, <1>6, PickDo DEF OneScope
  <1>7. ASSUME NEW y \in Years, PickYear(y) PROVE OneScope'
    <2>1. CASE UNCHANGED <<ui, page>> BY <1>7, <2>1, YearDo DEF OneScope
    <2>2. CASE ~UNCHANGED <<ui, page>>
      <3>1. OneScope /\ Left(ui', PageOf(ui'), FALSE, new, Cleared) /\ ui' \in UiType BY <1>7, <2>2, YearDo
      <3>2. PageOf(ui').call # None => PageOf(ui').call = PageOf(ui').ran[1]
        BY <1>0, <3>1, PageFits DEF Rows
      <3>3. PageOf(ui').data # None => PageOf(ui').data = ui'.scope
        BY <1>0, <3>1, PageFits DEF OneScope
      <3> QED BY <3>1, <3>2, <3>3 DEF Left, OneScope
    <2> QED BY <2>1, <2>2
  <1>8. CASE Retry BY <1>8, RetryDo
  <1>9. ASSUME NEW n \in BOOLEAN, Navigate(n) PROVE OneScope' BY <1>0, <1>9, NavigateDo DEF OneScope
  <1>10. CASE PageAnswers BY <1>10, PageDo DEF OneScope
  <1> QED BY <1>1, <1>2, <1>3, <1>4, <1>5, <1>6, <1>7, <1>8, <1>9, <1>10 DEF Next

-----------------------------------------------------------------------------
(* What is known of the permissions is known of the company on screen.     *)

LEMMA AnswerKept ==
    ASSUME Typed, Typed', Mine, Idle, Answer, [Next]_vars
    PROVE  Answer'
  <1> DEFINE Ready == new /\ stage = "idle" /\ ui.scope # None => ui.wait
             Known == (access.loading => access.data = None) /\ (access.of # None => access.data \in {None, access.of})
  <1>0. Ready /\ Known BY DEF Answer
  <1>a. ASSUME NEW u \in UiType, access' = AccessFor(u) PROVE Known'
    BY <1>0, <1>a, AccessFits
  <1> SUFFICES Ready' /\ Known' BY DEF Answer
  <1>1. CASE UNCHANGED vars BY <1>0, <1>1 DEF vars
  <1>2. CASE (\E l \in Links, n \in BOOLEAN : Visit(l, n)) \/ Refresh
    BY <1>2, LoadDo DEF Visit, Refresh
  <1>3. CASE \/ ListAnswers \/ ListFails \/ InfoAnswers \/ InfoFails \/ OtherTab \/ Filter \/ PageAnswers
    <2>1. UNCHANGED <<ui, access, new>> /\ (stage' = "idle" => stage = "idle")
      BY <1>3, ListDo, ListFailDo, AnswerDo, FailDo, OtherDo, FilterDo, PageDo
    <2> QED BY <1>0, <2>1
  <1>4. CASE GivenUp BY <1>0, <1>4, GivenDo
  <1>5. CASE AccessAnswers BY <1>0, <1>5, AccessDo
  <1>6. CASE Render BY <1>0, <1>6, RenderDo
  <1>7. CASE RunEffects
    <2>1. Known' BY <1>7, <1>a, RunDo DEF Left, Typed
    <2> QED BY <1>7, <2>1, RunDo DEF Left
  <1>8. ASSUME NEW c \in Companies, PickCompany(c) PROVE Ready' /\ Known'
    <2>1. CASE UNCHANGED <<ui, access, new, stage>> BY <1>0, <2>1
    <2>2. CASE ~UNCHANGED <<ui, access, new, stage>> BY <1>8, <2>2, <1>a, PickDo
    <2> QED BY <2>1, <2>2
  <1>9. ASSUME NEW y \in Years, PickYear(y) PROVE Ready' /\ Known'
    <2>1. CASE UNCHANGED <<ui, access, new, stage>> BY <1>0, <2>1
    <2>2. CASE ~UNCHANGED <<ui, access, new, stage>>
      <3>1. Left(ui', PageOf(ui'), FALSE, new, Cleared) /\ ui' \in UiType BY <1>9, <2>2, YearDo
      <3>2. Known' BY <3>1, <1>a DEF Left
      <3> QED BY <3>1, <3>2 DEF Left
    <2> QED BY <2>1, <2>2
  <1>10. CASE Retry BY <1>10, <1>a, RetryDo
  <1>11. ASSUME NEW n \in BOOLEAN, Navigate(n) PROVE Ready' /\ Known' BY <1>0, <1>11, NavigateDo
  <1> QED BY <1>1, <1>2, <1>3, <1>4, <1>5, <1>6, <1>7, <1>8, <1>9, <1>10, <1>11 DEF Next

\* Before ?new=1 is spent nothing is known of the permissions, unless it is of
\* the company on screen.
LEMMA NothingKnown ==
    ASSUME Typed, Idle, Answer, Permitted, stage = "idle", new
    PROVE  access.data = None
  <1>1. ui.scope = Shown /\ ui.wait = (access.loading /\ Shown # None) BY UiFits DEF Idle, Shown, Typed
  <1> QED BY <1>1 DEF Answer, Permitted

LEMMA PermittedKept ==
    ASSUME Typed, Typed', Mine, Idle, Answer, ~retried => InTurn /\ Permitted, ~retried', [Next]_vars
    PROVE  Permitted'
  <1>0. NoPage.form = "none" BY DEF NoPage
  <1>a. ASSUME st' = st PROVE Shown' = Shown BY <1>a DEF Shown
  <1>b. ASSUME st'.status # "ready" PROVE Shown' = None BY <1>b DEF Shown, ScopeOf
  <1>c. \A c \in Some : c \in CanWrite => c # None BY ScopeAssumption, Apart
  <1>d. ASSUME NEW u \in UiType, access' = AccessFor(u)
        PROVE  /\ access'.out => u.scope # None /\ access'.of = u.scope.cmp
               /\ access'.data \in {access.data, None}
               /\ access'.loading \/ access'.data = None \/ (access'.data = access.data /\ ~access.loading)
    BY <1>d, AccessFits DEF CompanyOf, Mine, Answer
  <1>e. ASSUME UNCHANGED <<access, ui, new, retried>>, page'.form = page.form, st'.cmp = st.cmp, Shown' = None \/ Shown' = Shown,
               Shown' = None => Shown = None \/ ~new
        PROVE  Permitted'
    BY <1>e DEF Permitted
  <1>1. CASE UNCHANGED vars BY <1>1, <1>a, <1>e DEF vars
  <1>2. CASE (\E l \in Links, n \in BOOLEAN : Visit(l, n)) \/ Refresh
    <2>1. Load BY <1>2 DEF Visit, Refresh
    <2> QED BY <2>1, LoadDo DEF Permitted
  <1>3. CASE ListAnswers \/ ListFails
    <2>1. InTurn /\ list /\ Permitted BY <1>3, ListDo, ListFailDo
    <2>2. Shown = None BY <2>1, LoadingIs DEF InTurn, Shown
    <2>3. Shown' = None BY <1>3, <1>b, ListDo, ListFailDo
    <2>4. UNCHANGED <<access, ui, new, page>> BY <1>3, ListDo, ListFailDo
    <2> QED BY <2>1, <2>2, <2>3, <2>4 DEF Permitted
  <1>4. CASE InfoAnswers \/ InfoFails
    <2>1. InTurn /\ Permitted /\ info.out BY <1>4, AnswerDo, FailDo
    <2>2. Shown = None BY <2>1, ShownIs DEF InTurn
    <2>3. UNCHANGED <<access, ui, new, page>> BY <1>4, AnswerDo, FailDo
    <2> QED BY <2>1, <2>2, <2>3 DEF Permitted
  <1>5. CASE GivenUp
    <2>1. Shown' = Shown BY <1>5, <1>a, GivenDo
    <2> QED BY <1>5, <2>1, GivenDo DEF Permitted
  <1>6. CASE AccessAnswers
    <2>1. Shown' = Shown /\ InTurn /\ Permitted /\ st' = st BY <1>6, <1>a, AccessDo
    <2>2. Shown # None /\ access.of = st.cmp
      BY <1>6, <2>1, AccessDo, ShownIs DEF InTurn, Permitted
    <2>3. access'.data \in {None, st.cmp} BY <1>6, <2>2, AccessDo, ShownIs DEF Answer
    <2> QED BY <1>6, <2>1, <2>2, <2>3, AccessDo DEF Permitted
  <1>7. CASE Render
    <2>1. InTurn /\ Permitted /\ Shown' = Shown BY <1>7, <1>a, RenderDo
    <2>2. /\ ui'.scope = Shown /\ ui'.perms = access.data /\ ui'.wait = (access.loading /\ Shown # None)
          /\ UNCHANGED <<access, st, new>> /\ ui' \in UiType /\ page' = PageOf(ui')
      BY <1>7, RenderDo, UiFits DEF Typed, Shown
    <2>3. ui.scope # None => ui'.scope = ui.scope BY <2>1, <2>2 DEF InTurn
    <2>4. page'.form = "opened" => ui'.scope # None /\ page.form = "opened" BY <1>0, <2>2, PageFits
    <2>5. Shown # None => Shown.cmp = st.cmp BY ShownIs
    <2> QED BY <2>1, <2>2, <2>3, <2>4, <2>5 DEF Permitted
  <1>8. CASE RunEffects
    <2>1. /\ Permitted /\ Shown' = Shown /\ UNCHANGED <<ui, st>> /\ (new' => new)
          /\ access' = AccessFor(ui)
          /\ \/ page'.form = page.form
             \/ new /\ ui.scope # None /\ ~ui.wait /\ (page'.form = "opened" => ui.perms \in CanWrite)
      BY <1>8, <1>a, RunDo DEF Left
    <2>2. page'.form = "opened" => ui.scope # None /\ ui.scope.cmp \in CanWrite
      BY <2>1, <1>c DEF Permitted, Typed, UiType
    <2>3. /\ access'.out => ui.scope # None /\ access'.of = ui.scope.cmp
          /\ access'.data \in {access.data, None}
          /\ access'.loading \/ access'.data = None \/ (access'.data = access.data /\ ~access.loading)
      BY <2>1, <1>d DEF Typed
    <2> QED BY <2>1, <2>2, <2>3 DEF Permitted
  <1>9. ASSUME NEW c \in Companies, PickCompany(c) PROVE Permitted'
    <2>1. CASE UNCHANGED <<st, ui, new, page, access>> BY <1>9, <2>1, <1>a, <1>e, PickDo
    <2>2. CASE ~UNCHANGED <<st, ui, new, page, access>>
      <3>1. /\ Permitted /\ stage = "idle" /\ Shown' = None /\ (new' => new) /\ ui'.scope = None /\ ui' \in UiType
            /\ page' = NoPage /\ access' = AccessFor(ui')
        BY <1>9, <2>2, <1>b, PickDo
      <3>2. new => access.data = None BY <3>1, NothingKnown
      <3>3. ~access'.out /\ access'.data \in {access.data, None} BY <3>1, <1>d
      <3> QED BY <1>0, <3>1, <3>2, <3>3 DEF Permitted
    <2> QED BY <2>1, <2>2
  <1>10. ASSUME NEW y \in Years, PickYear(y) PROVE Permitted'
    <2>1. CASE UNCHANGED <<st, ui, new, page, access>> BY <1>10, <2>1, <1>a, <1>e, YearDo
    <2>2. CASE ~UNCHANGED <<st, ui, new, page, access>>
      <3>1. /\ Permitted /\ stage = "idle"
            /\ st' \in StateType /\ st'.cmp = st.cmp
            /\ ui' = UiOf(st') /\ ui' \in UiType /\ Left(ui', PageOf(ui'), FALSE, new, Cleared)
        BY <1>10, <2>2, YearDo
      <3>2. new => access.data = None BY <3>1, NothingKnown
      <3>3. ui'.perms = access.data /\ ui'.scope = Shown' BY <3>1, UiFits DEF Shown
      <3>4. /\ new' => new
            /\ \/ page'.form = PageOf(ui').form
               \/ new /\ ui'.scope # None /\ (page'.form = "opened" => ui'.perms \in CanWrite)
            /\ access' = AccessFor(ui')
        BY <3>1 DEF Left
      <3>5. access'.out => ui'.scope # None /\ access'.of = ui'.scope.cmp BY <3>1, <3>4, <1>d
      <3>6. access'.data \in {access.data, None} BY <3>1, <3>4, <1>d
      <3>7. page'.form = "opened" => ui'.scope # None /\ ui'.scope.cmp \in CanWrite
        <4> SUFFICES ASSUME page'.form = "opened" PROVE ui'.scope # None /\ ui'.scope.cmp \in CanWrite OBVIOUS
        <4>1. page'.form = PageOf(ui').form BY <3>2, <3>3, <3>4, ScopeAssumption, Apart
        <4>2. ui'.scope # None /\ page.form = "opened" BY <1>0, <3>1, <4>1, PageFits
        <4>3. ui.scope # None /\ ui.scope.cmp \in CanWrite BY <3>1, <4>2 DEF Permitted
        <4>4. ui.scope.cmp = st.cmp BY <3>1, <4>3, UiFits DEF Idle, Typed
        <4>5. ui'.scope.cmp = st'.cmp BY <3>1, <4>2, UiFits, ScopeFits
        <4> QED BY <3>1, <4>2, <4>3, <4>4, <4>5
      <3> QED BY <3>2, <3>3, <3>4, <3>5, <3>6, <3>7 DEF Permitted
    <2> QED BY <2>1, <2>2
  <1>11. CASE Retry BY <1>11, RetryDo
  <1>12. ASSUME NEW n \in BOOLEAN, Navigate(n) PROVE Permitted'
    <2>1. /\ Permitted /\ stage = "idle" /\ ui.scope # None /\ Shown' = Shown /\ UNCHANGED <<access, ui, st>>
          /\ page' = NoPage
      BY <1>12, <1>a, NavigateDo
    <2>2. ui.scope = Shown /\ ui.perms = access.data /\ access.of = Shown.cmp
      BY <2>1, UiFits DEF Idle, Typed, Shown, CompanyOf
    <2>3. Shown.cmp = st.cmp /\ st.cmp # None BY <2>1, <2>2, ShownIs
    <2>4. access.data \in {None, st.cmp} BY <2>2, <2>3 DEF Answer
    <2> QED BY <1>0, <2>1, <2>2, <2>3, <2>4 DEF Permitted
  <1>13. CASE Filter BY <1>13, <1>a, <1>e, FilterDo
  <1>14. CASE OtherTab BY <1>14, <1>a, <1>e, OtherDo
  <1>15. CASE PageAnswers BY <1>15, <1>a, <1>e, PageDo
  <1> QED BY <1>1, <1>2, <1>3, <1>4, <1>5, <1>6, <1>7, <1>8, <1>9, <1>10, <1>11, <1>12, <1>13, <1>14, <1>15 DEF Next

-----------------------------------------------------------------------------
(* The invariant, and what it comes to.                                    *)

LEMMA InitInv == Init => Inv
  <1> SUFFICES ASSUME Init PROVE Inv OBVIOUS
  <1>1. /\ st = Loading /\ info.of = None /\ ~info.out /\ page = NoPage /\ stage = "idle"
        /\ ui = [cmp |-> None, scope |-> None, perms |-> None, wait |-> FALSE] /\ ui.cmp = None /\ ui.scope = None
        /\ access.of = None /\ access.data = None /\ ~access.loading /\ ~access.out
        /\ stored.cmp = None /\ asked = NoLink /\ linked = NoLink /\ named = Absent /\ picked = None /\ ~new
        /\ mine \subseteq Companies
    BY DEF Init
  <1>2. /\ Loading.status = "loading" /\ Loading.companies = {} /\ Loading.cmp = None /\ Loading.years = {}
        /\ NoPage.call = None /\ NoPage.data = None /\ NoPage.form = "none"
    BY DEF Loading, NoPage
  <1>3. Typed
    <2>1. st \in StateType /\ page \in PageType BY <1>1, LoadingType, NoPageType
    <2>2. NoLink \in Bars /\ NoLink \in LinkType BY DEF Bars, NoLink, LinkType
    <2>3. stored \in StoreType /\ info \in InfoType /\ access \in AccessType /\ ui \in UiType
      BY DEF Init, StoreType, InfoType, AccessType, UiType, Some, Places
    <2>4. visits \in 0..MaxVisits /\ faults \in 0..MaxFaults BY ScopeAssumption DEF Init
    <2> QED BY <2>1, <2>2, <2>3, <2>4 DEF Init, Typed, Some, Places
  <1>4. TypeOK BY <1>3, Types
  <1>5. Shown = None BY <1>1, LoadingIs DEF Shown
  <1>6. Mine BY <1>1, <1>2 DEF Mine
  <1>7. Idle
    <2>1. UiOf(st) = [cmp |-> None, scope |-> None, perms |-> None, wait |-> FALSE]
      BY <1>1, <1>2, <1>5 DEF UiOf, Shown
    <2> QED BY <1>1, <2>1 DEF Idle, CompanyOf
  <1>8. Rows /\ OneScope /\ Answer /\ Permitted BY <1>1, <1>2, <1>5 DEF Rows, OneScope, Answer, Permitted
  <1>9. Refusal BY <1>1, NothingRefused DEF Refusal, Foreign
  <1>10. Switched /\ Followed BY <1>1 DEF Switched, Followed
  <1>11. InTurn BY <1>1, <1>2, <1>5 DEF InTurn, Init
  <1> QED BY <1>4, <1>6, <1>7, <1>8, <1>9, <1>10, <1>11 DEF Inv

LEMMA StepInv == Inv /\ [Next]_vars => Inv'
  <1> SUFFICES ASSUME Inv, [Next]_vars PROVE Inv' OBVIOUS
  <1>1. /\ TypeOK /\ Mine /\ Idle /\ Rows /\ Answer /\ Refusal /\ Switched /\ Followed
        /\ ~retried => InTurn /\ OneScope /\ Permitted
    BY DEF Inv
  <1>2. Typed BY <1>1, Types
  <1>3. Typed' BY <1>1, <1>2, TypesKept
  <1>4. Typed' => TypeOK' BY Types, PTL
  <1>5. Mine' /\ Idle' /\ Rows' BY <1>1, <1>2, <1>3, MineKept, IdleKept, RowsKept
  <1>6. Refusal' /\ Switched' BY <1>1, <1>2, <1>3, RefusalKept, SwitchedKept
  <1>7. Followed' BY <1>1, <1>2, <1>3, FollowedKept
  <1>8. Answer' BY <1>1, <1>2, <1>3, AnswerKept
  <1>9. ~retried' => InTurn' BY <1>1, <1>2, <1>3, InTurnKept
  <1>10. ~retried' => OneScope' BY <1>1, <1>2, <1>3, OneScopeKept
  <1>11. ~retried' => Permitted' BY <1>1, <1>2, <1>3, PermittedKept
  <1> QED BY <1>3, <1>4, <1>5, <1>6, <1>7, <1>8, <1>9, <1>10, <1>11 DEF Inv

(***************************************************************************)
(* Whatever the order of answers, renders, effects, clicks and loads, the  *)
(* parts of a tab's state keep to what each expects of the others.         *)
(***************************************************************************)
THEOREM Invariant == Spec => []Inv
  BY InitInv, StepInv, PTL DEF Spec

(***************************************************************************)
(* Every variable keeps its type: in particular a year that is remembered  *)
(* or applied is a year, whatever the link and the storage hold.           *)
(***************************************************************************)
THEOREM TypeCorrect == Spec => []TypeOK
  <1>1. Inv => TypeOK BY DEF Inv
  <1> QED BY <1>1, Invariant, PTL

(***************************************************************************)
(* CompanyProvider never opens another company or year than the link's, on *)
(* any load of the address bar it leaves behind, and a company that was    *)
(* refused is never shown under the link's page.                           *)
(***************************************************************************)
THEOREM NeverSwapped == Spec => []LinkNeverSwapped
  <1>1. Inv => LinkNeverSwapped
    <2> SUFFICES ASSUME Inv, ui.scope # None
                 PROVE  /\ path = "record" => named \in mine \cup {Absent}
                        /\ ~shared => linked.cmp \in {Absent, ui.scope.cmp} /\ linked.fy \in {Absent, ui.scope.fy}
      BY DEF LinkNeverSwapped
    <2>1. Typed /\ Idle /\ Refusal /\ Followed BY Types DEF Inv
    <2>2. ~Foreign
      <3>1. Foreign => ScopeRefused(asked) BY <2>1 DEF Refusal, Foreign, ScopeRefused, CompanyRefused
      <3> QED BY <2>1, <3>1, NothingShown DEF Refusal
    <2>3. ~shared => linked.cmp \in {Absent, ui.scope.cmp} /\ linked.fy \in {Absent, ui.scope.fy}
      <3>1. CASE linked = NoLink BY <3>1, NoLinkIs
      <3>2. CASE linked # NoLink BY <2>1, <3>2 DEF Followed, Names
      <3> QED BY <3>1, <3>2
    <2> QED BY <2>2, <2>3 DEF Foreign
  <1> QED BY <1>1, Invariant, PTL

(***************************************************************************)
(* The year CompanyProvider applies is one of the company's, whatever      *)
(* another tab has left in the storage.                                    *)
(***************************************************************************)
THEOREM OneCompany == Spec => []ScopeOfOneCompany
  <1>1. Inv => ScopeOfOneCompany
    <2> SUFFICES ASSUME Inv, ui.scope # None, ~retried, ~st.warn PROVE YearOf[ui.scope.fy] = ui.scope.cmp
      BY DEF ScopeOfOneCompany
    <2>1. Typed /\ InTurn BY Types DEF Inv
    <2> QED BY <2>1, ShownIs DEF InTurn
  <1> QED BY <1>1, Invariant, PTL

(***************************************************************************)
(* useQuery shows and asks for the rows of the scope on screen.            *)
(***************************************************************************)
THEOREM ItsScope == Spec => []ScreenShowsItsScope
  <1>1. Inv => ScreenShowsItsScope BY DEF Inv, Rows, OneScope, ScreenShowsItsScope
  <1> QED BY <1>1, Invariant, PTL

(***************************************************************************)
(* CompanyProvider says it is loading only while an answer or a render is  *)
(* to come.                                                                *)
(***************************************************************************)
THEOREM HasCause == Spec => []LoadingHasCause
  <1>1. Inv => LoadingHasCause
    <2> SUFFICES ASSUME Inv, st.status = "loading", ~lost, ~retried, ~list, ~info.out, stage = "idle" PROVE FALSE
      BY DEF LoadingHasCause
    <2>1. Typed /\ InTurn /\ Idle BY Types DEF Inv
    <2>2. st.cmp # info.of BY <2>1 DEF InTurn
    <2>3. info.of = st.cmp BY <2>1, UiFits DEF Idle, Typed
    <2> QED BY <2>2, <2>3
  <1> QED BY <1>1, Invariant, PTL

(***************************************************************************)
(* MasterPage opens the form of ?new=1 only where the user may create.     *)
(***************************************************************************)
THEOREM FormAllowed == Spec => []FormIsAllowed
  <1>1. Inv => FormIsAllowed BY DEF Inv, Permitted, FormIsAllowed
  <1> QED BY <1>1, Invariant, PTL

(***************************************************************************)
(* A switch made with selectCompany() is what every later load opens.      *)
(***************************************************************************)
THEOREM NotUndone == Spec => []SwitchNotUndone
  <1>1. Inv => SwitchNotUndone
    <2> SUFFICES ASSUME Inv, ui.scope # None, picked # None, ~shared PROVE ui.scope.cmp = picked
      BY DEF SwitchNotUndone
    <2>1. Typed /\ Idle /\ Switched BY Types DEF Inv
    <2>2. ui.scope.cmp = ui.cmp /\ ui.scope.cmp # None
      BY <2>1, Apart DEF Idle, Typed, UiType, Places, Scopes
    <2> QED BY <2>1, <2>2 DEF Switched, Only
  <1> QED BY <1>1, Invariant, PTL
=============================================================================
