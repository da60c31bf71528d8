----------------------------- MODULE ToastStore -----------------------------
(***************************************************************************)
(* use-toast and Toaster: a store outside React, a removal timer per        *)
(* dismissed toast, and a Toaster that copies the store's state when it is  *)
(* rendered and hears of later ones once its effect has run.  Ids grow, so   *)
(* that the newest toasts are those with the greatest ids.                  *)
(***************************************************************************)
EXTENDS Naturals, FiniteSets

CONSTANTS TOAST_LIMIT,
          MaxSafeInteger,   \* ids are counted modulo it
          MaxToasts         \* bound on toasts

VARIABLES toasts,    \* memoryState.toasts: open as last told, and whether ever dismissed
          timers,    \* the ids toastTimeouts has a timer for
          count,
          toaster,   \* absent, rendered (not listening yet) or listening
          shown      \* what it shows

Dispatch(ts) == /\ toasts' = ts
                /\ shown' = IF toaster = "listening" THEN ts ELSE shown
                /\ UNCHANGED toaster

GenId == (count + 1) % MaxSafeInteger

Newest(ts) == {t \in ts : Cardinality({u \in ts : u.id > t.id}) < TOAST_LIMIT}

AddToast ==
    /\ count < MaxToasts
    /\ count' = GenId
    /\ Dispatch(Newest(toasts \cup {[id |-> GenId, open |-> TRUE, dismissed |-> FALSE]}))
    /\ UNCHANGED timers

(* update: the toast is given new properties, open among them               *)
UpdateToast(id, isOpen) ==
    /\ Dispatch({[id |-> t.id, open |-> IF t.id = id THEN isOpen ELSE t.open,
                  dismissed |-> t.dismissed] : t \in toasts})
    /\ UNCHANGED <<timers, count>>

Closed(ids) == {IF t.id \in ids THEN [id |-> t.id, open |-> FALSE, dismissed |-> TRUE] ELSE t :
                t \in toasts}

AddToRemoveQueue(ids) == timers' = timers \cup ids

DismissToast(id) ==
    /\ AddToRemoveQueue({id})
    /\ Dispatch(Closed({id}))
    /\ UNCHANGED count

DismissAllNow ==                 \* closed, and left to be replaced
    /\ Dispatch(Closed({t.id : t \in toasts}))
    /\ UNCHANGED <<count, timers>>
DismissAll ==
    /\ AddToRemoveQueue({t.id : t \in toasts})
    /\ Dispatch(Closed({t.id : t \in toasts}))
    /\ UNCHANGED count

RemoveToast(id) ==
    /\ id \in timers
    /\ timers' = timers \ {id}
    /\ Dispatch({t \in toasts : t.id # id})
    /\ UNCHANGED count

(* a toast on the screen is closed by the user or by its own duration       *)
OnOpenChange == \E t \in shown : t.open /\ DismissToast(t.id)

ToasterListens == /\ toaster = "rendered"
                  /\ toaster' = "listening"
                  /\ UNCHANGED <<toasts, timers, count, shown>>

Mount == toaster' = "rendered" /\ shown' = toasts /\ UNCHANGED <<toasts, timers, count>>
Unmount == toaster' = "absent" /\ shown' = {} /\ UNCHANGED <<toasts, timers, count>>
Reset == toasts' = {} /\ timers' = {} /\ count' = 0 /\ toaster' = "absent" /\ shown' = {}

ToastInit == toasts = {} /\ timers = {} /\ count = 0 /\ toaster = "absent" /\ shown = {}

Created == 1 .. count

UseToast == /\ toaster # "absent"
            /\ \/ AddToast \/ DismissAll \/ OnOpenChange
               \/ \E id \in Created : DismissToast(id) \/ \E o \in BOOLEAN : UpdateToast(id, o)
               \/ ToasterListens

Timers == \E id \in Created : RemoveToast(id)

(* A removal timer is never called off: a toast has one exactly when it was  *)
(* dismissed, whatever it was told since.  So a dismissed toast will go, and *)
(* no timer left by an older toast takes one that was not dismissed.        *)
DismissedToastsWillGo == \A t \in toasts : t.dismissed <=> t.id \in timers
=============================================================================
