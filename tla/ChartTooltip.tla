---------------------------- MODULE ChartTooltip ----------------------------
(***************************************************************************)
(* The label of a chart's tooltip, over what recharts (external) gives it   *)
(* at each render: the items of the payload, each with the fields of its    *)
(* own and of its datum that hold strings, and the label of the axis.  The  *)
(* tooltip remembers its label between renders (useMemo); its rows and the  *)
(* legend are named anew each time and keep nothing.  "undefined" stands    *)
(* for what is missing; every entry of a config has a label.                *)
(***************************************************************************)
EXTENDS Sequences

CONSTANTS ChartProps     \* what the tooltip may be given

VARIABLES props,         \* of the last render
          memo           \* the remembered label and what it was made from

OrElse(a, b) == IF a = "undefined" THEN b ELSE a

LabelIn(config, key) == IF key \in DOMAIN config THEN config[key] ELSE "undefined"

(* an item is looked up in the chart's config by the string one of its      *)
(* fields holds, or its datum's, and by the key itself when that fails      *)
PayloadLabel(config, item, key) ==
    LET named == IF key \in DOMAIN item.fields THEN item.fields[key]
                 ELSE IF key \in DOMAIN item.datum THEN item.datum[key] ELSE key IN
    OrElse(LabelIn(config, named), LabelIn(config, key))

Field(item, f) == IF f \in DOMAIN item.fields THEN item.fields[f] ELSE "undefined"

TooltipLabel(p) ==
    IF p.hideLabel \/ p.items = <<>> THEN "undefined"
    ELSE IF p.labelKey = "undefined" /\ p.label # "undefined"
    THEN OrElse(LabelIn(p.config, p.label), p.label)
    ELSE PayloadLabel(p.config, Head(p.items),
             OrElse(p.labelKey, OrElse(Field(Head(p.items), "dataKey"),
                                       OrElse(Field(Head(p.items), "name"), "value"))))

-----------------------------------------------------------------------------
DependenciesWithoutKey(p) ==     \* the label's key is left out
    <<p.label, p.items, p.hideLabel, p.config>>
Dependencies(p) == <<p.label, p.items, p.hideLabel, p.config, p.labelKey>>

Remembered(p) == [of |-> Dependencies(p), label |-> TooltipLabel(p)]

ChartRenders(p) == /\ props' = p
                   /\ memo' = IF memo.of = Dependencies(p) THEN memo ELSE Remembered(p)

FirstProps == CHOOSE p \in ChartProps : TRUE      \* while there is no chart

MountChart == \E p \in ChartProps : props' = p /\ memo' = Remembered(p)
UnmountChart == props' = FirstProps /\ memo' = Remembered(FirstProps)
ChartInit == props = FirstProps /\ memo = Remembered(FirstProps)

UseChart == \E p \in ChartProps : ChartRenders(p)

(* However the props change from render to render, the remembered label is  *)
(* the one the data of this render has.                                     *)
LabelIsOfThisRender == memo.label = TooltipLabel(props)
=============================================================================
