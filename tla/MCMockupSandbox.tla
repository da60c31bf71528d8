-------------------------- MODULE MCMockupSandbox --------------------------
(* A mockup and a file that is no preview; a bar chart with one series,    *)
(* named by its data key or by the browser its datum tells, or apart        *)
EXTENDS MockupSandbox

McConfig == [desktop |-> "Desktop", chrome |-> "Chrome"]
McItem(name) == [fields |-> [dataKey |-> "desktop", name |-> name], datum |-> [browser |-> "chrome"]]
McChart(items, labelKey) ==
    [items |-> items, label |-> "January", hideLabel |-> FALSE, config |-> McConfig,
     labelKey |-> labelKey]
McChartProps == {McChart(<<>>, "undefined"),
                 McChart(<<McItem("desktop")>>, "undefined"),
                 McChart(<<McItem("desktop")>>, "browser"),
                 McChart(<<McItem("Tablet")>>, "dataKey")}
=============================================================================
