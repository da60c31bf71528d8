--------------------------- MODULE CarouselState ---------------------------
(***************************************************************************)
(* Carousel over the Embla API (external: its position, and the events it   *)
(* calls back): the previous and next buttons follow "select" and "reInit"  *)
(* from the effect that registers their handler on, some time after the     *)
(* instance was made.                                                       *)
(***************************************************************************)
EXTENDS Naturals

CONSTANT MaxSlides

VARIABLES api,             \* of the Embla instance: none, made, or heard
          at, slides,      \* its position, its slides
          canScrollPrev, canScrollNext

OnSelect(p, n) == canScrollPrev' = (p > 1) /\ canScrollNext' = (p < n)

(* an event of the instance, at the new position p of n                     *)
Told(p, n) == IF api = "heard" THEN OnSelect(p, n) ELSE UNCHANGED <<canScrollPrev, canScrollNext>>

ApiMade == /\ api = "none" /\ api' = "made"
           /\ UNCHANGED <<at, slides, canScrollPrev, canScrollNext>>

ApiReady == /\ api = "made" /\ api' = "heard"
            /\ OnSelect(at, slides)
            /\ UNCHANGED <<at, slides>>

Select(p) == /\ api # "none" /\ p \in 1 .. slides
             /\ at' = p
             /\ Told(p, slides)
             /\ UNCHANGED <<api, slides>>

(* the buttons are disabled at the ends; the arrow keys are not, and do     *)
(* nothing there                                                            *)
ScrollPrev == Select(at - 1)
ScrollNext == Select(at + 1)

(* slides come or go: the instance is initialised anew, and its position    *)
(* moves with the last slide                                                *)
SlidesChangeUnheard(n) ==       \* no handler for reInit
    /\ api # "none" /\ n \in 1 .. MaxSlides /\ n # slides
    /\ slides' = n /\ at' = IF at > n THEN n ELSE at
    /\ UNCHANGED <<api, canScrollPrev, canScrollNext>>
SlidesChange(n) ==
    /\ api # "none" /\ n \in 1 .. MaxSlides /\ n # slides
    /\ slides' = n /\ at' = IF at > n THEN n ELSE at
    /\ Told(at', n)
    /\ UNCHANGED api

MountCarousel == /\ api' = "none" /\ at' = 1 /\ slides' = MaxSlides
                 /\ canScrollPrev' = FALSE /\ canScrollNext' = FALSE

CarouselInit == /\ api = "none" /\ at = 1 /\ slides = MaxSlides
                /\ canScrollPrev = FALSE /\ canScrollNext = FALSE

UseCarousel == ApiMade \/ ApiReady \/ ScrollPrev \/ ScrollNext
               \/ \E n \in 1 .. MaxSlides : SlidesChange(n)

(* From the effect on the buttons lead to another slide exactly when there  *)
(* is one, whatever moved or changed between the instance and the effect.   *)
ButtonsTellPosition ==
    api = "heard" => (canScrollPrev <=> at > 1) /\ (canScrollNext <=> at < slides)
=============================================================================
