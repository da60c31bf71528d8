--------------------------- MODULE RouteOwnership ---------------------------
(***************************************************************************)
(* What the reroute command promises.  Commands draw tickets, in the order *)
(* in which they are under way; a command takes effect at once or not at    *)
(* all, with an owner the route's brand accepts and at most once for a key; *)
(* and the owner of a route is the one named with the newest ticket: only a *)
(* command that was overtaken while it was under way loses to another.      *)
(***************************************************************************)
EXTENDS Naturals

CONSTANTS Routes, Owners, Configured, ValidOwners, FirstOwner, Keys, NoKey

VARIABLES owner, at,    \* per route, its owner and the ticket that named it
          used,         \* the keys of the commands that took effect
          last, open    \* the newest ticket; the tickets of commands under way

ownershipVars == <<owner, at, used, last, open>>

Init == /\ owner = FirstOwner /\ at = [r \in Routes |-> 0]
        /\ used = {}
        /\ last = 0 /\ open = {}

Begin == /\ last' = last + 1 /\ open' = open \cup {last'}
         /\ UNCHANGED <<owner, at, used>>

Abandon(t) == /\ open' = open \ {t}
              /\ UNCHANGED <<owner, at, used, last>>

(* the command of ticket t takes effect                                     *)
Reroute(t, r, o, k) ==
    /\ r \in Configured => o \in ValidOwners
    /\ k \notin used
    /\ used' = used \cup ({k} \ {NoKey})
    /\ open' = open \ {t}
    /\ \/ /\ t > at[r]
          /\ owner' = [owner EXCEPT ![r] = o] /\ at' = [at EXCEPT ![r] = t]
       \/ t < at[r] /\ UNCHANGED <<owner, at>>
    /\ UNCHANGED last

Next == \/ Begin
        \/ \E t \in open : \/ Abandon(t)
                            \/ \E r \in Routes, o \in Owners, k \in Keys \cup {NoKey} :
                                  Reroute(t, r, o, k)

Spec == Init /\ [][Next]_ownershipVars
=============================================================================
