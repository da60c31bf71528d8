--------------------------- MODULE MockupSandbox ---------------------------
(***************************************************************************)
(* A page of the mockup sandbox: PreviewRenderer loads the file named by    *)
(* the page's path from the modules the plugin generated, and the file's    *)
(* component uses the UI kit.  Hot updates replace the modules under it; a  *)
(* page load starts anew, with the kit's stores but not the cookie.         *)
(***************************************************************************)
EXTENDS MockupPreview, Sequences

CONSTANTS WidgetSets,    \* which of the kit's components a mockup may use together
          None, NoCookie, TOAST_LIMIT, MaxSafeInteger, MaxToasts, MaxSlides, ChartProps

ASSUME SandboxAssumption == /\ WidgetSets \subseteq SUBSET {"toast", "sidebar", "carousel", "chart"}
                            /\ None \notin Files
                            /\ TOAST_LIMIT \in Nat \ {0} /\ MaxSlides \in Nat \ {0}
                            /\ MaxToasts \in Nat /\ MaxSafeInteger \in Nat
                            /\ MaxToasts < MaxSafeInteger

VARIABLES componentPath,   \* of the page, or None: the gallery, or no page
          modules,         \* the generated module as the page has it
          loads,           \* loaders under way: are they cancelled?
          Component, error,
          widgets,         \* the kit's components the page's mockup uses
          toasts, timers, count, toaster, shown,
          controlled, handled, open, nextOpen, openMobile, isMobile, narrow, cookie,
          api, at, slides, canScrollPrev, canScrollNext,
          props, memo

Toast == INSTANCE ToastStore
Sidebar == INSTANCE SidebarState
Carousel == INSTANCE CarouselState
Chart == INSTANCE ChartTooltip

server == <<disk, changes, stage, built, known, refreshInFlight, refreshQueued, currentSource,
            module, dirty, news, covered>>
page == <<componentPath, modules, loads, Component, error>>
store == <<toasts, timers, count, toaster, shown>>
sidebar == <<controlled, handled, open, nextOpen, openMobile, isMobile, narrow, cookie>>
carousel == <<api, at, slides, canScrollPrev, canScrollNext>>
chart == <<props, memo>>
kit == <<widgets, store, sidebar, carousel, chart>>
vars == <<server, page, kit>>

-----------------------------------------------------------------------------
(* The kit under the previewed component *)

Uses(w) == Component # None /\ w \in widgets

(* the previewed component becomes c                                        *)
Shows(c) ==
    /\ Component' = c
    /\ IF c # None /\ "toast" \in widgets THEN Toast!Mount
       ELSE IF Uses("toast") THEN Toast!Unmount ELSE UNCHANGED store
    /\ IF c # None /\ "sidebar" \in widgets THEN Sidebar!MountSidebar
       ELSE Sidebar!UnmountSidebar
    /\ Carousel!MountCarousel
    /\ IF c # None /\ "chart" \in widgets THEN Chart!MountChart ELSE Chart!UnmountChart
    /\ UNCHANGED widgets

UseToast == /\ Uses("toast") /\ Toast!UseToast
            /\ UNCHANGED <<server, page, widgets, sidebar, carousel, chart>>
ToastTimers == /\ componentPath # None /\ Toast!Timers
               /\ UNCHANGED <<server, page, widgets, sidebar, carousel, chart>>
UseSidebar == /\ Uses("sidebar") /\ (Sidebar!UseSidebar \/ Sidebar!Resize)
              /\ UNCHANGED <<server, page, widgets, store, carousel, chart>>
UseCarousel == /\ Uses("carousel") /\ Carousel!UseCarousel
               /\ UNCHANGED <<server, page, widgets, store, sidebar, chart>>
UseChart == /\ Uses("chart") /\ Chart!UseChart
            /\ UNCHANGED <<server, page, widgets, store, sidebar, carousel>>

ResetKit == /\ Toast!Reset /\ Sidebar!UnmountSidebar
            /\ Carousel!MountCarousel /\ Chart!UnmountChart

-----------------------------------------------------------------------------
(* PreviewRenderer *)

(* the effect on [componentPath, modules]: a load under way is cancelled    *)
Loads(path, ms) == {TRUE : l \in loads} \cup (IF path \in ms THEN {FALSE} ELSE {})

Effect(path, ms) ==
    /\ loads' = Loads(path, ms)
    /\ error' = (path \notin ms)
    /\ Shows(None)

(* a page load: the path is the location's, the modules the file's          *)
OpenPage(f) ==
    /\ stage \in {"watching", "ready"} /\ componentPath = None
    /\ componentPath' = f /\ modules' = module
    /\ loads' = (IF f \in module THEN {FALSE} ELSE {})
    /\ error' = (f \notin module)
    /\ Component' = None
    /\ widgets' \in WidgetSets /\ ResetKit
    /\ UNCHANGED server

(* the page is left, or the server's client reloads it after a restart      *)
LeavePage ==
    /\ componentPath # None
    /\ componentPath' = None /\ modules' = {} /\ loads' = {} /\ Component' = None /\ error' = FALSE
    /\ widgets' = {} /\ ResetKit
    /\ UNCHANGED server

HotUpdate ==
    /\ Up /\ componentPath # None /\ modules # module
    /\ modules' = module
    /\ Effect(componentPath, module)
    /\ UNCHANGED <<server, componentPath>>

(* The loader's module arrives.  A cancelled load is dropped; else the      *)
(* component is shown, unless the file exports none.                        *)
LoadArrivesAnyway(l) ==
    /\ l \in loads /\ loads' = loads \ {l}
    /\ \/ Shows(componentPath) /\ UNCHANGED error
       \/ error' = TRUE /\ UNCHANGED <<Component, kit>>
    /\ UNCHANGED <<server, componentPath, modules>>
LoadArrives(l) ==
    /\ l \in loads /\ loads' = loads \ {l}
    /\ \/ l /\ UNCHANGED <<Component, error, kit>>
       \/ ~l /\ Shows(componentPath) /\ UNCHANGED error
       \/ ~l /\ error' = TRUE /\ UNCHANGED <<Component, kit>>
    /\ UNCHANGED <<server, componentPath, modules>>

(* The file is gone: its source is answered with a 404, and the plugin      *)
(* lists the directory again.                                               *)
LoadFails(l) ==
    /\ l \in loads /\ loads' = loads \ {l}
    /\ componentPath \notin disk
    /\ \/ Up /\ Rescan
       \/ ~Up /\ UNCHANGED server
    /\ error' = IF l THEN error ELSE TRUE
    /\ UNCHANGED <<componentPath, modules, Component, kit>>

-----------------------------------------------------------------------------
Init ==
    /\ PreviewInit
    /\ componentPath = None /\ modules = {} /\ loads = {} /\ Component = None /\ error = FALSE
    /\ widgets = {} /\ Toast!ToastInit /\ Sidebar!SidebarInit /\ Carousel!CarouselInit
    /\ Chart!ChartInit

Plugin == ServerSteps /\ UNCHANGED <<page, kit>>
Page == (\E f \in Files : OpenPage(f)) \/ LeavePage \/ HotUpdate
        \/ \E l \in BOOLEAN : LoadArrives(l) \/ LoadFails(l)
Kit == UseToast \/ ToastTimers \/ UseSidebar \/ UseCarousel \/ UseChart

Next == Plugin \/ Page \/ Kit

Spec == Init /\ [][Next]_vars

-----------------------------------------------------------------------------
(* Properties *)

(* The shape of the plugin's and the page's state.                          *)
TypeOK ==
    /\ PreviewTypeOK
    /\ componentPath \in Files \cup {None} /\ modules \in SUBSET Targets
    /\ loads \in SUBSET BOOLEAN /\ error \in BOOLEAN
    /\ Component \in {None, componentPath} /\ widgets \in WidgetSets \cup {{}}

(* Modules are replaced while a load is under way: what the page shows is   *)
(* the file of its path, listed by the modules it has now, and no error is   *)
(* shown with it.                                                            *)
PreviewIsOfItsModules == Component # None => Component \in modules /\ ~error

(* What the kit's components remember between events, timers and renders    *)
(* stays in step with what it was made from: removal timers with dismissals, *)
(* the cookie with the sidebar, buttons with the position, the tooltip's     *)
(* label with its data.                                                      *)
WidgetPromises == /\ Toast!DismissedToastsWillGo
                  /\ Sidebar!CookieTellsSidebar
                  /\ Carousel!ButtonsTellPosition
                  /\ Chart!LabelIsOfThisRender
=============================================================================
