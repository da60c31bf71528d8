---------------------------- MODULE MCWebClient ----------------------------
(* One or two brands with a route each, a pattern, two windows, two filters *)
EXTENDS WebClient

CONSTANTS b1, r1, p1, o1

McFilters == {AllFilters, [AllFilters EXCEPT !.source = "reddit"]}
McFirstOwner == [r \in Routes |-> o1]
McBrandRoutes == [b \in Brands |-> IF b = b1 THEN {r1} ELSE Routes \ {r1}]
McPanes == [p \in {"critical", "sentiment", "volume"} |-> IF p = "sentiment" THEN {} ELSE Routes]
McFilterRoutes == [f \in McFilters |-> IF f = AllFilters THEN Routes ELSE {r1}]
McPatternRoutes == [p \in Patterns |-> {r1}]
McBrandPattern == [b \in Brands |-> IF b = b1 THEN p1 ELSE None]
McFaults == {[status |-> 500, empty |-> FALSE, media |-> "json", body |-> "json"],
             [status |-> 200, empty |-> FALSE, media |-> "text", body |-> "text"]}
=============================================================================
