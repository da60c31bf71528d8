---------------------------- MODULE SidebarState ----------------------------
(***************************************************************************)
(* SidebarProvider with useIsMobile: the state of the last render, the      *)
(* state already set for the next one, and the cookie that remembers it.    *)
(* Event handlers see the last render's state.  The page may keep the state *)
(* itself (an open prop) and may take over its setting (onOpenChange), or   *)
(* one of them only; which of the two it gives does not change.             *)
(***************************************************************************)
CONSTANT NoCookie

VARIABLES controlled,  \* an open prop is given
          handled,     \* onOpenChange is given
          open,        \* as rendered
          nextOpen,    \* as set
          openMobile,
          isMobile,    \* as rendered: false until the effect has measured
          narrow,      \* the window is below MOBILE_BREAKPOINT
          cookie       \* sidebar_state, as set since the provider was mounted (none reads it)

ownership == <<controlled, handled>>

(* What is rendered next once v is asked for.  The state of a sidebar       *)
(* without a handler is its own, and under an open prop it is not looked    *)
(* at; a handler changes nothing by itself, but the page that has one may   *)
(* take v for its open prop.                                                *)
NextAfter(v) == IF handled THEN IF controlled THEN {nextOpen, v} ELSE {nextOpen}
                ELSE IF controlled THEN {nextOpen} ELSE {v}

SetOpenBefore(v) == /\ nextOpen' \in NextAfter(v)     \* the cookie keeps what was rendered
                    /\ cookie' = open
                    /\ UNCHANGED <<ownership, open, openMobile, isMobile, narrow>>
SetOpen(v) == /\ nextOpen' \in NextAfter(v)
              /\ cookie' = v
              /\ UNCHANGED <<ownership, open, openMobile, isMobile, narrow>>

(* the page changes the open prop for reasons of its own                    *)
PageSets(v) == /\ controlled
               /\ nextOpen' = v
               /\ UNCHANGED <<ownership, open, openMobile, isMobile, narrow, cookie>>

ToggleSidebar == \/ ~isMobile /\ SetOpen(~open)
                 \/ /\ isMobile
                    /\ openMobile' = ~openMobile
                    /\ UNCHANGED <<ownership, open, nextOpen, isMobile, narrow, cookie>>

(* the sheet of the mobile sidebar is closed by the user                    *)
SheetCloses == /\ isMobile /\ openMobile
               /\ openMobile' = FALSE
               /\ UNCHANGED <<ownership, open, nextOpen, isMobile, narrow, cookie>>

SidebarRenders == /\ open # nextOpen
                  /\ open' = nextOpen
                  /\ UNCHANGED <<ownership, nextOpen, openMobile, isMobile, narrow, cookie>>

Measure == /\ isMobile # narrow
           /\ isMobile' = narrow
           /\ UNCHANGED <<ownership, open, nextOpen, openMobile, narrow, cookie>>

Resize == /\ narrow' = ~narrow
          /\ UNCHANGED <<ownership, open, nextOpen, openMobile, isMobile, cookie>>

(* it starts as its open prop or its defaultOpen says                       *)
MountSidebar == /\ controlled' \in BOOLEAN /\ handled' \in BOOLEAN
                /\ open' \in BOOLEAN /\ nextOpen' = open'
                /\ openMobile' = FALSE /\ isMobile' = FALSE
                /\ narrow' \in BOOLEAN /\ cookie' = NoCookie

UnmountSidebar == /\ controlled' = FALSE /\ handled' = FALSE
                  /\ open' = TRUE /\ nextOpen' = TRUE /\ openMobile' = FALSE /\ isMobile' = FALSE
                  /\ narrow' = FALSE /\ cookie' = NoCookie

SidebarInit == /\ controlled = FALSE /\ handled = FALSE
               /\ open = TRUE /\ nextOpen = TRUE /\ openMobile = FALSE /\ isMobile = FALSE
               /\ narrow = FALSE /\ cookie = NoCookie

UseSidebar == ToggleSidebar \/ SheetCloses \/ SidebarRenders \/ Measure
              \/ \E v \in BOOLEAN : SetOpen(v) \/ PageSets(v)

(* In a sidebar that keeps its own state, once what was set is rendered,    *)
(* the cookie tells what is seen, however toggles and renders fall: a toggle *)
(* works on the state of the last render, the cookie on the same answer.    *)
(* With an open prop or a handler the page decides, and they may differ.    *)
CookieTellsSidebar ==
    ~controlled /\ ~handled /\ open = nextOpen /\ cookie # NoCookie => cookie = open
=============================================================================
