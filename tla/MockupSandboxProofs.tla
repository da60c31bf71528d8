------------------------ MODULE MockupSandboxProofs ------------------------
(***************************************************************************)
(* Proofs about MockupSandbox: the plugin's invariant, the page's and the   *)
(* kit's, each kept by the steps of all three.                              *)
(***************************************************************************)
EXTENDS MockupSandbox, TLAPS

(* No notice waits while no listing is under way, nor before the server is   *)
(* up; the notices the listing under way began after are among those told.   *)
Notified ==
    /\ refreshInFlight \/ ~refreshQueued
    /\ covered \subseteq news
    /\ stage = "down" => ~refreshInFlight
    /\ NoNoticeIsLost

(* The module is what was listed last.                                      *)
Written ==
    /\ currentSource # Unwritten => module = currentSource
    /\ Up /\ ~refreshInFlight => currentSource # Unwritten
    /\ ModuleTellsDirectory

PluginInv == PreviewTypeOK /\ Notified /\ Written

PageTypeOK ==
    /\ componentPath \in Files \cup {None} /\ modules \in SUBSET Targets
    /\ loads \in SUBSET BOOLEAN /\ error \in BOOLEAN
    /\ Component \in {None, componentPath} /\ widgets \in WidgetSets \cup {{}}

(* A load that is not cancelled is of a listed file, and nothing is shown   *)
(* yet.                                                                     *)
PageInv == /\ PageTypeOK
           /\ FALSE \in loads => componentPath \in modules /\ Component = None /\ ~error
           /\ PreviewIsOfItsModules

(* What the tooltip remembers is made from the props of this render.        *)
Remembers == memo = Chart!Remembered(props)

(* The cookie of a sidebar that keeps its own state is of its last setting. *)
CookieTells == ~controlled /\ ~handled /\ cookie # NoCookie => cookie = nextOpen

(* Timers are of toasts there were, so that no new toast finds one.         *)
TimersInv == /\ count \in 0 .. MaxToasts
             /\ timers \subseteq 1 .. count
             /\ \A t \in toasts \cup shown : t.id \in 1 .. count
             /\ Toast!DismissedToastsWillGo

KitInv == /\ TimersInv
          /\ CookieTells
          /\ Carousel!ButtonsTellPosition
          /\ Remembers

IInv == PluginInv /\ PageInv /\ KitInv

-----------------------------------------------------------------------------
(* The plugin *)

LEMMA PluginFrame ==
    ASSUME PluginInv, UNCHANGED server
    PROVE  PluginInv'
  BY DEF PluginInv, server, PreviewTypeOK, Notified, NoNoticeIsLost, Written, ModuleTellsDirectory, Up

(* A call of refresh, with what the watcher has told by then.               *)
LEMMA RefreshCalled ==
    ASSUME PluginInv, Refresh(news'), news \subseteq news', news' \in SUBSET Files,
           stage' # "down",
           stage' \in {"down", "configuring", "watching", "ready"},
           known' \in SUBSET Files, built' \in BOOLEAN,
           UNCHANGED <<disk, changes, currentSource, module>>
    PROVE  PluginInv'
  <1>1. CASE ~refreshInFlight
    <2>1. refreshInFlight' = TRUE /\ covered' = news' /\ dirty' = {} /\ UNCHANGED refreshQueued
      BY <1>1 DEF Refresh, Begin
    <2> QED BY <2>1 DEF PluginInv, PreviewTypeOK, Notified, NoNoticeIsLost, Written,
               ModuleTellsDirectory, Up
  <1>2. CASE refreshInFlight
    <2>1. refreshInFlight' = TRUE /\ refreshQueued' = TRUE /\ UNCHANGED <<covered, dirty>>
      BY <1>2 DEF Refresh
    <2> QED BY <2>1 DEF PluginInv, PreviewTypeOK, Notified, NoNoticeIsLost, Written,
               ModuleTellsDirectory, Up
  <1> QED BY <1>1, <1>2

LEMMA RefreshEndsStep ==
    ASSUME PluginInv, RefreshEnds
    PROVE  PluginInv'
  <1>1. PICK S \in Listings : /\ currentSource' = S
                              /\ module' = IF S # currentSource THEN S ELSE module
    BY DEF RefreshEnds
  <1>2. /\ refreshInFlight /\ news' = news \ covered /\ refreshQueued' = FALSE
        /\ refreshInFlight' = refreshQueued
        /\ covered' = IF refreshQueued THEN news \ covered ELSE {}
        /\ dirty' = IF refreshQueued THEN {} ELSE dirty
        /\ UNCHANGED <<stage, built, known, disk, changes>>
    BY DEF RefreshEnds, directory
  <1>3. /\ S \in SUBSET Targets /\ S # Unwritten
        /\ \A f \in Targets \ dirty : f \in S <=> f \in disk
    BY PreviewAssumption DEF Listings
  <1>4. module' = S
    BY <1>1, <1>3 DEF PluginInv, Written
  <1>5. PreviewTypeOK'
    BY <1>1, <1>2, <1>3, <1>4 DEF PluginInv, PreviewTypeOK
  <1>6. Notified'
    BY <1>2 DEF PluginInv, PreviewTypeOK, Notified, NoNoticeIsLost
  <1>7. Written'
    BY <1>1, <1>2, <1>3, <1>4 DEF Written, ModuleTellsDirectory
  <1> QED BY <1>5, <1>6, <1>7 DEF PluginInv

LEMMA StopStep ==
    ASSUME PluginInv, Stop
    PROVE  PluginInv'
  BY DEF PluginInv, Stop, directory, PreviewTypeOK, Notified, NoNoticeIsLost, Written,
     ModuleTellsDirectory, Up

LEMMA FileStep ==
    ASSUME PluginInv, NEW f \in Files, FileComesOrGoes(f)
    PROVE  PluginInv'
  <1>1. /\ changes' = changes + 1
        /\ disk' = IF f \in disk THEN disk \ {f} ELSE disk \cup {f}
        /\ dirty' = IF Up THEN dirty \cup {f} ELSE dirty
        /\ UNCHANGED <<stage, built, known, refreshInFlight, refreshQueued, currentSource,
                       module, news, covered>>
    BY DEF FileComesOrGoes, plugin
  <1>2. PreviewTypeOK' /\ Notified'
    BY <1>1 DEF PluginInv, PreviewTypeOK, Notified, NoNoticeIsLost
  <1>3. Written'
    BY <1>1 DEF PluginInv, Written, ModuleTellsDirectory, Up
  <1> QED BY <1>2, <1>3 DEF PluginInv

(* Steps of the watcher that call no refresh.                               *)
LEMMA WatcherStep ==
    ASSUME PluginInv, Watch \/ WatcherReady \/ \E f \in Files : OnAddIgnored(f)
    PROVE  PluginInv'
  <1>1. /\ UNCHANGED <<disk, changes, built, refreshInFlight, refreshQueued, currentSource,
                       module, news, covered, dirty>>
        /\ stage \in {"configuring", "watching", "ready"} /\ stage' \in {"watching", "ready"}
        /\ known' \in SUBSET Files
    BY DEF Watch, WatcherReady, OnAddIgnored, directory, PluginInv, PreviewTypeOK
  <1> QED BY <1>1 DEF PluginInv, PreviewTypeOK, Notified, NoNoticeIsLost, Written,
             ModuleTellsDirectory, Up

LEMMA RescanStep ==
    ASSUME PluginInv, Up, Rescan
    PROVE  PluginInv'
  <1>1. Refresh(news) /\ UNCHANGED <<stage, built, known, currentSource, module, news, disk, changes>>
    BY DEF Rescan, directory
  <1>2. Refresh(news')
    BY <1>1 DEF Refresh, Begin
  <1> QED BY <1>1, <1>2, RefreshCalled DEF PluginInv, PreviewTypeOK, Up

LEMMA ServerStepsKeep ==
    ASSUME PluginInv, ServerSteps
    PROVE  PluginInv'
  <1>1. CASE Start
    <2>1. /\ stage = "down" /\ stage' = "configuring" /\ built' = FALSE /\ Refresh({})
          /\ UNCHANGED <<known, currentSource, module, news, disk, changes>>
      BY <1>1 DEF Start, directory
    <2>2. news = {} /\ Refresh(news')
      BY <2>1 DEF PluginInv, Notified, NoNoticeIsLost, Refresh, Begin
    <2>3. PluginInv'
      <3>1. /\ refreshInFlight' = TRUE /\ covered' = {} /\ dirty' = {}
            /\ UNCHANGED refreshQueued
        BY <2>1 DEF Refresh, Begin, PluginInv, Notified
      <3> QED BY <2>1, <2>2, <3>1 DEF PluginInv, PreviewTypeOK, Notified, NoNoticeIsLost,
                 Written, ModuleTellsDirectory, Up
    <2> QED BY <2>3
  <1>2. CASE BuildStart
    <2>1. /\ stage \in {"watching", "ready"} /\ built' = TRUE /\ Refresh(news)
          /\ UNCHANGED <<stage, known, currentSource, module, news, disk, changes>>
      BY <1>2 DEF BuildStart, directory
    <2>2. Refresh(news')
      BY <2>1 DEF Refresh, Begin
    <2> QED BY <2>1, <2>2, RefreshCalled DEF PluginInv, PreviewTypeOK
  <1>3. ASSUME NEW f \in Files, OnAdd(f) \/ OnUnlink(f)
        PROVE  PluginInv'
    <2>1. /\ stage = "ready" /\ news' = news \cup {f} /\ Refresh(news \cup {f})
          /\ known' \in SUBSET Files
          /\ UNCHANGED <<stage, built, currentSource, module, disk, changes>>
      BY <1>3 DEF OnAdd, OnUnlink, Noticed, directory, PluginInv, PreviewTypeOK
    <2>2. Refresh(news') /\ news' \in SUBSET Files
      BY <2>1 DEF Refresh, Begin, PluginInv, PreviewTypeOK
    <2> QED BY <2>1, <2>2, RefreshCalled DEF PluginInv, PreviewTypeOK
  <1> QED BY <1>1, <1>2, <1>3, RefreshEndsStep, StopStep, FileStep, WatcherStep DEF ServerSteps

-----------------------------------------------------------------------------
(* The page and the kit *)

LEMMA PromisesFrame ==
    ASSUME KitInv, UNCHANGED kit
    PROVE  KitInv'
  BY DEF kit, store, sidebar, carousel, chart, KitInv, Remembers, TimersInv,
     Toast!DismissedToastsWillGo, CookieTells, Carousel!ButtonsTellPosition

LEMMA ToastsKept ==
    ASSUME TimersInv, UNCHANGED <<toasts, timers, count>>, shown' \subseteq toasts \cup shown
    PROVE  TimersInv'
  BY DEF TimersInv, Toast!DismissedToastsWillGo

LEMMA ShowsKeeps ==
    ASSUME KitInv, NEW c, Shows(c)
    PROVE  KitInv' /\ Component' = c /\ widgets' = widgets
  <1>1. /\ Component' = c /\ UNCHANGED <<widgets, toasts, timers, count>>
        /\ shown' \subseteq toasts \cup shown
    BY DEF Shows, Toast!Mount, Toast!Unmount, store
  <1>2. cookie' = NoCookie /\ api' = "none"
    BY DEF Shows, Sidebar!MountSidebar, Sidebar!UnmountSidebar, Carousel!MountCarousel
  <1>3. Remembers'
    BY DEF Shows, Chart!MountChart, Chart!UnmountChart, Remembers
  <1> QED BY <1>1, <1>2, <1>3, ToastsKept DEF KitInv, CookieTells,
             Carousel!ButtonsTellPosition

LEMMA ResetKeeps ==
    ASSUME ResetKit
    PROVE  KitInv'
  BY SandboxAssumption DEF ResetKit, Toast!Reset, Sidebar!UnmountSidebar, Carousel!MountCarousel,
     Chart!UnmountChart, KitInv, Remembers, TimersInv,
     Toast!DismissedToastsWillGo, CookieTells, Carousel!ButtonsTellPosition

LEMMA UseToastKeeps ==
    ASSUME TimersInv, Toast!UseToast \/ Toast!Timers
    PROVE  TimersInv'
  <1> USE DEF TimersInv, Toast!DismissedToastsWillGo
  <1>1. CASE Toast!AddToast
    <2>1. Toast!GenId = count + 1 /\ count' = count + 1 /\ count' \in 0 .. MaxToasts
      BY <1>1, SandboxAssumption DEF Toast!AddToast, Toast!GenId
    <2>2. /\ toasts' \subseteq toasts \cup {[id |-> count + 1, open |-> TRUE, dismissed |-> FALSE]}
          /\ timers' = timers
      BY <1>1, <2>1 DEF Toast!AddToast, Toast!Dispatch, Toast!Newest
    <2>3. count + 1 \notin timers
      BY SandboxAssumption
    <2>4. /\ timers' \subseteq 1 .. count'
          /\ \A t \in toasts' \cup shown' : t.id \in 1 .. count'
      <3>1. shown' \in {shown, toasts'}
        BY <1>1 DEF Toast!AddToast, Toast!Dispatch
      <3>2. \A t \in toasts' : t.id \in 1 .. count'
        BY <2>1, <2>2
      <3>3. timers' \subseteq 1 .. count' /\ \A t \in shown : t.id \in 1 .. count'
        BY <2>1, <2>2
      <3> QED BY <3>1, <3>2, <3>3
    <2>5. ASSUME NEW t \in toasts'
          PROVE  t.dismissed <=> t.id \in timers'
      <3>1. CASE t \in toasts
        BY <2>2, <3>1
      <3>2. CASE t = [id |-> count + 1, open |-> TRUE, dismissed |-> FALSE]
        BY <2>2, <2>3, <3>2
      <3> QED BY <2>2, <2>5, <3>1, <3>2
    <2> QED BY <2>1, <2>4, <2>5
  <1>2. CASE Toast!DismissAll
    <2>1. /\ timers' = timers \cup {t.id : t \in toasts} /\ count' = count
          /\ toasts' = Toast!Closed({t.id : t \in toasts}) /\ shown' \in {shown, toasts'}
      BY <1>2 DEF Toast!DismissAll, Toast!AddToRemoveQueue, Toast!Dispatch
    <2>2. ASSUME NEW t \in toasts
          PROVE  t.id \in 1 .. count
      OBVIOUS
    <2>3. ASSUME NEW t \in toasts'
          PROVE  t.id \in 1 .. count /\ t.dismissed /\ t.id \in timers'
      <3>1. PICK u \in toasts : t = [id |-> u.id, open |-> FALSE, dismissed |-> TRUE]
        BY <2>1 DEF Toast!Closed
      <3> QED BY <2>1, <2>2, <3>1
    <2> QED BY <2>1, <2>2, <2>3
  <1>3. ASSUME NEW id \in 1 .. count, Toast!DismissToast(id)
        PROVE  TimersInv'
    <2>1. /\ timers' = timers \cup {id} /\ count' = count
          /\ toasts' = Toast!Closed({id}) /\ shown' \in {shown, toasts'}
      BY <1>3 DEF Toast!DismissToast, Toast!AddToRemoveQueue, Toast!Dispatch
    <2>2. ASSUME NEW t \in toasts'
          PROVE  t.id \in 1 .. count /\ (t.dismissed <=> t.id \in timers')
      <3>1. PICK u \in toasts : t = IF u.id \in {id} THEN [id |-> u.id, open |-> FALSE, dismissed |-> TRUE]
                                    ELSE u
        BY <2>1 DEF Toast!Closed
      <3> QED BY <2>1, <3>1
    <2> QED BY <1>3, <2>1, <2>2
  <1>4. ASSUME NEW id, NEW o, Toast!UpdateToast(id, o)
        PROVE  TimersInv'
    <2>1. /\ timers' = timers /\ count' = count /\ shown' \in {shown, toasts'}
          /\ \A t \in toasts' : \E u \in toasts : t.id = u.id /\ t.dismissed = u.dismissed
      BY <1>4 DEF Toast!UpdateToast, Toast!Dispatch
    <2> QED BY <2>1
  <1>5. CASE Toast!ToasterListens
    BY <1>5 DEF Toast!ToasterListens
  <1>6. ASSUME NEW id, Toast!RemoveToast(id)
        PROVE  TimersInv'
    <2>1. /\ timers' = timers \ {id} /\ toasts' = {t \in toasts : t.id # id} /\ count' = count
          /\ shown' \in {shown, toasts'}
      BY <1>6 DEF Toast!RemoveToast, Toast!Dispatch
    <2> QED BY <2>1
  <1> QED BY <1>1, <1>2, <1>3, <1>4, <1>5, <1>6 DEF Toast!UseToast, Toast!OnOpenChange, Toast!Timers,
             Toast!Created

LEMMA UseSidebarKeeps ==
    ASSUME CookieTells, Sidebar!UseSidebar \/ Sidebar!Resize
    PROVE  CookieTells'
  BY DEF CookieTells, Sidebar!UseSidebar, Sidebar!Resize, Sidebar!ToggleSidebar,
     Sidebar!SetOpen, Sidebar!NextAfter, Sidebar!PageSets, Sidebar!ownership,
     Sidebar!SheetCloses, Sidebar!SidebarRenders, Sidebar!Measure

LEMMA UseCarouselKeeps ==
    ASSUME Carousel!ButtonsTellPosition, Carousel!UseCarousel
    PROVE  Carousel!ButtonsTellPosition'
  BY DEF Carousel!ButtonsTellPosition, Carousel!UseCarousel, Carousel!ApiMade, Carousel!ApiReady,
     Carousel!ScrollPrev, Carousel!ScrollNext, Carousel!Told, Carousel!Select, Carousel!SlidesChange, Carousel!OnSelect

(* The label's dependencies are all it is made from.                        *)
LEMMA DependenciesSuffice ==
    ASSUME NEW p, NEW q, Chart!Dependencies(p) = Chart!Dependencies(q)
    PROVE  Chart!TooltipLabel(p) = Chart!TooltipLabel(q)
  <1>1. /\ p.label = q.label /\ p.items = q.items /\ p.hideLabel = q.hideLabel
        /\ p.config = q.config /\ p.labelKey = q.labelKey
    BY DEF Chart!Dependencies
  <1> QED BY <1>1 DEF Chart!TooltipLabel

LEMMA UseChartKeeps ==
    ASSUME Remembers, Chart!UseChart
    PROVE  Remembers'
  <1>1. PICK p \in ChartProps : Chart!ChartRenders(p)
    BY DEF Chart!UseChart
  <1>2. props' = p
    BY <1>1 DEF Chart!ChartRenders
  <1>3. CASE memo.of = Chart!Dependencies(p)
    <2>1. memo' = memo /\ memo = Chart!Remembered(props)
      BY <1>1, <1>3 DEF Chart!ChartRenders, Remembers
    <2>2. Chart!Dependencies(props) = Chart!Dependencies(p)
      BY <1>3, <2>1 DEF Chart!Remembered
    <2>3. Chart!Remembered(props) = Chart!Remembered(p)
      BY <2>2, DependenciesSuffice DEF Chart!Remembered
    <2> QED BY <1>2, <2>1, <2>3 DEF Remembers
  <1>4. CASE memo.of # Chart!Dependencies(p)
    BY <1>1, <1>2, <1>4 DEF Chart!ChartRenders, Remembers
  <1> QED BY <1>3, <1>4

LEMMA KitStep ==
    ASSUME KitInv, Kit
    PROVE  KitInv' /\ UNCHANGED <<server, page, widgets>>
  <1>1. CASE UseToast \/ ToastTimers
    <2>1. TimersInv' /\ UNCHANGED <<server, page, widgets, sidebar, carousel, chart>>
      BY <1>1, UseToastKeeps DEF UseToast, ToastTimers, KitInv
    <2> QED BY <2>1 DEF KitInv, Remembers, chart, sidebar, carousel, CookieTells,
               Carousel!ButtonsTellPosition
  <1>2. CASE UseSidebar
    <2>1. CookieTells' /\ UNCHANGED <<server, page, widgets, store, carousel, chart>>
      BY <1>2, UseSidebarKeeps DEF UseSidebar, KitInv
    <2> QED BY <2>1, ToastsKept DEF KitInv, Remembers, chart, store, carousel, Carousel!ButtonsTellPosition
  <1>3. CASE UseCarousel
    <2>1. Carousel!ButtonsTellPosition' /\ UNCHANGED <<server, page, widgets, store, sidebar, chart>>
      BY <1>3, UseCarouselKeeps DEF UseCarousel, KitInv
    <2> QED BY <2>1, ToastsKept DEF KitInv, Remembers, chart, store, sidebar, CookieTells
  <1>4. CASE UseChart
    <2>1. Remembers' /\ UNCHANGED <<server, page, widgets, store, sidebar, carousel>>
      BY <1>4, UseChartKeeps DEF UseChart, KitInv
    <2> QED BY <2>1, ToastsKept DEF KitInv, store, sidebar, carousel, CookieTells,
               Carousel!ButtonsTellPosition
  <1> QED BY <1>1, <1>2, <1>3, <1>4 DEF Kit

LEMMA PageStep ==
    ASSUME IInv, Page
    PROVE  IInv'
  <1> USE DEF IInv
  <1>1. ASSUME NEW f \in Files, OpenPage(f)
        PROVE  IInv'
    <2>1. PluginInv'
      BY <1>1, PluginFrame DEF OpenPage
    <2>2. KitInv'
      BY <1>1, ResetKeeps DEF OpenPage
    <2>3. PageInv'
      <3>1. modules' \in SUBSET Targets
        BY <1>1 DEF OpenPage, PluginInv, PreviewTypeOK
      <3> QED BY <1>1, <3>1 DEF OpenPage, PageInv, PageTypeOK, PreviewIsOfItsModules
    <2> QED BY <2>1, <2>2, <2>3
  <1>2. CASE LeavePage
    <2>1. PluginInv'
      BY <1>2, PluginFrame DEF LeavePage
    <2>2. KitInv'
      BY <1>2, ResetKeeps DEF LeavePage
    <2>3. PageInv'
      BY <1>2 DEF LeavePage, PageInv, PageTypeOK, PreviewIsOfItsModules
    <2> QED BY <2>1, <2>2, <2>3
  <1>3. CASE HotUpdate
    <2>1. PluginInv'
      BY <1>3, PluginFrame DEF HotUpdate
    <2>2. KitInv' /\ Component' = None /\ widgets' = widgets
      BY <1>3, ShowsKeeps DEF HotUpdate, Effect
    <2>3. /\ modules' = module /\ componentPath' = componentPath
          /\ loads' = Loads(componentPath, module) /\ error' = (componentPath \notin module)
      BY <1>3 DEF HotUpdate, Effect
    <2>4. loads' \in SUBSET BOOLEAN /\ (FALSE \in loads' => componentPath \in module)
      BY <2>3 DEF Loads
    <2>5. PageInv'
      BY <2>2, <2>3, <2>4 DEF PageInv, PageTypeOK, PreviewIsOfItsModules, PluginInv, PreviewTypeOK
    <2> QED BY <2>1, <2>2, <2>5
  <1>4. ASSUME NEW l \in BOOLEAN, LoadArrives(l)
        PROVE  IInv'
    <2>1. PluginInv' /\ loads' = loads \ {l} /\ l \in loads /\ UNCHANGED <<componentPath, modules>>
      BY <1>4, PluginFrame DEF LoadArrives
    <2>2. CASE l /\ UNCHANGED <<Component, error, kit>>
      BY <2>1, <2>2, PromisesFrame DEF kit, PageInv, PageTypeOK, PreviewIsOfItsModules
    <2>3. CASE ~l /\ Shows(componentPath) /\ UNCHANGED error
      <3>1. KitInv' /\ Component' = componentPath /\ widgets' = widgets
        BY <2>3, ShowsKeeps
      <3> QED BY <2>1, <2>3, <3>1 DEF PageInv, PageTypeOK, PreviewIsOfItsModules
    <2>4. CASE ~l /\ error' = TRUE /\ UNCHANGED <<Component, kit>>
      BY <2>1, <2>4, PromisesFrame DEF kit, PageInv, PageTypeOK, PreviewIsOfItsModules
    <2> QED BY <1>4, <2>2, <2>3, <2>4 DEF LoadArrives
  <1>5. ASSUME NEW l \in BOOLEAN, LoadFails(l)
        PROVE  IInv'
    <2>1. PluginInv'
      BY <1>5, RescanStep, PluginFrame DEF LoadFails
    <2>2. KitInv'
      BY <1>5, PromisesFrame DEF LoadFails
    <2>3. PageInv'
      BY <1>5 DEF LoadFails, kit, PageInv, PageTypeOK, PreviewIsOfItsModules
    <2> QED BY <2>1, <2>2, <2>3
  <1> QED BY <1>1, <1>2, <1>3, <1>4, <1>5 DEF Page

LEMMA InitInv == Init => IInv
  <1> SUFFICES ASSUME Init PROVE IInv
    OBVIOUS
  <1>1. PluginInv
    BY DEF Init, PreviewInit, PluginInv, PreviewTypeOK, Notified, NoNoticeIsLost, Written,
       ModuleTellsDirectory, Up
  <1>2. PageInv
    BY DEF Init, PageInv, PageTypeOK, PreviewIsOfItsModules
  <1>3. KitInv
    BY SandboxAssumption DEF Init, KitInv, Remembers, TimersInv, Toast!ToastInit, Sidebar!SidebarInit, Carousel!CarouselInit,
       Chart!ChartInit,
       Toast!DismissedToastsWillGo, CookieTells, Carousel!ButtonsTellPosition
  <1> QED BY <1>1, <1>2, <1>3 DEF IInv

LEMMA PageFrame ==
    ASSUME PageInv, UNCHANGED <<page, widgets>>
    PROVE  PageInv'
  BY DEF page, PageInv, PageTypeOK, PreviewIsOfItsModules

LEMMA Inductive == Spec => []IInv
  <1>1. IInv /\ [Next]_vars => IInv'
    <2> SUFFICES ASSUME IInv, [Next]_vars PROVE IInv'
      OBVIOUS
    <2>1. CASE Plugin
      BY <2>1, ServerStepsKeep, PageFrame, PromisesFrame DEF Plugin, kit, IInv
    <2>2. CASE Page
      BY <2>2, PageStep
    <2>3. CASE Kit
      BY <2>3, KitStep, PluginFrame, PageFrame DEF IInv
    <2>4. CASE UNCHANGED vars
      BY <2>4, PluginFrame, PageFrame, PromisesFrame DEF vars, kit, IInv
    <2> QED BY <2>1, <2>2, <2>3, <2>4 DEF Next
  <1> QED BY <1>1, InitInv, PTL DEF Spec

-----------------------------------------------------------------------------
(* Theorems *)

(* The plugin's and the page's state keep their shape.                      *)
THEOREM SandboxTypeCorrect == Spec => []TypeOK
  <1>1. IInv => TypeOK
    BY DEF IInv, PluginInv, PageInv, PageTypeOK, TypeOK
  <1> QED BY <1>1, Inductive, PTL

(* refresh folds the calls made during a listing into one that follows: no  *)
(* notice of the watcher is dropped.                                        *)
THEOREM NoticesAreKept == Spec => []NoNoticeIsLost
  <1>1. IInv => NoNoticeIsLost
    BY DEF IInv, PluginInv, Notified
  <1> QED BY <1>1, Inductive, PTL

(* Comparing with currentSource before writing never leaves an old module.  *)
THEOREM ModuleIsTheDirectory == Spec => []ModuleTellsDirectory
  <1>1. IInv => ModuleTellsDirectory
    BY DEF IInv, PluginInv, Written
  <1> QED BY <1>1, Inductive, PTL

(* PreviewRenderer's cancelled flag: what is told is of the modules the    *)
(* page has now.                                                            *)
THEOREM PreviewsAreCurrent == Spec => []PreviewIsOfItsModules
  <1>1. IInv => PreviewIsOfItsModules
    BY DEF IInv, PageInv
  <1> QED BY <1>1, Inductive, PTL

(* A toast has a removal timer exactly when it was dismissed, and cookie,   *)
(* buttons and tooltip label tell what they were made from, however events, *)
(* timers, effects and renders fall.                                        *)
THEOREM WidgetsKeepTheirPromises == Spec => []WidgetPromises
  <1>1. Remembers => Chart!LabelIsOfThisRender
    BY DEF Remembers, Chart!Remembered, Chart!LabelIsOfThisRender
  <1>2. CookieTells => Sidebar!CookieTellsSidebar
    BY DEF CookieTells, Sidebar!CookieTellsSidebar
  <1>3. IInv => WidgetPromises
    BY <1>1, <1>2 DEF IInv, KitInv, TimersInv, WidgetPromises
  <1> QED BY <1>3, Inductive, PTL
=============================================================================
