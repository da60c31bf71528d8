---------------------------- MODULE AnswerFields ----------------------------
(***************************************************************************)
(* What the views may count on.  Of every type of answer the pages show    *)
(* (lib/api-client-react, api.schemas.ts), the fields that always have a    *)
(* value: one that is optional or may be null is left out.  Of every view   *)
(* (artifacts/resound, viewModels.ts and the components), the fields it     *)
(* calls a method on, or takes a field of, without a default.  A field is   *)
(* the path to it; a step over an array stands for each of its elements.    *)
(***************************************************************************)
EXTENDS Sequences

Fields(names) == {<<name>> : name \in names}
Of(name, type) == {<<name>> \o path : path \in type}
Object(name, type) == {<<name>>} \cup Of(name, type)

-----------------------------------------------------------------------------
(* Answers *)

OwnerOption == Fields({"owner", "label", "hint"})
Brand == Fields({"id", "name", "slug", "description", "primaryContact", "sourcesActive",
                 "tagline"})
         \cup Of("ownerOptions", OwnerOption)
SourceStat == Fields({"source", "count", "pct"})
SentimentBreakdown == Fields({"positive", "neutral", "negative"})
PatternSummary == Fields({"id", "name", "area", "signalCount", "weeklyVelocity",
                          "velocityMultiple"})
BrandStats == Fields({"brandId", "period", "netSentiment", "netSentimentDelta", "criticalCount",
                      "criticalDelta", "totalVolume", "volumeDelta"})
              \cup Object("sourceMix", SourceStat)
              \cup Object("sentimentBreakdown", SentimentBreakdown)
              \cup Object("topEmergingIssue", PatternSummary)
Classification == Fields({"id", "signalId", "isAboutBrand", "area", "sentiment", "severity",
                          "actionClass", "rootCauseHypothesis", "summary", "confidence"})
Pattern == Fields({"id", "brandId", "name", "area", "blurb", "signalCount", "weeklyVelocity",
                   "velocityMultiple", "startedAt"})
Signal == Fields({"id", "brandId", "source", "externalId", "url", "authorHandle", "content",
                  "postedAt", "createdAt"})
Route == Fields({"id", "signalId", "classificationId", "owner", "confidence", "createdAt"})
SignalDetail == Object("signal", Signal) \cup Object("classification", Classification)
                \cup Object("route", Route)
PatternDetail == Object("pattern", Pattern) \cup Object("signals", SignalDetail)
RouteAudit == Fields({"id", "signalId", "owner", "area", "severity", "sentiment", "source",
                      "content", "summary", "confidence", "createdAt"})
SignalList == Object("signals", SignalDetail) \cup Fields({"total"})

-----------------------------------------------------------------------------
(* Views.  Each element is one use, of any of the fields it may fall back to *)

Uses(paths) == {{path} : path \in paths}
Within(name, uses) == {Of(name, paths) : paths \in uses}

FormatSource(path) == Uses({path})
FormatReach(source) == Uses({source})

ToBrandView == Uses({<<"sourcesActive">>, <<"ownerOptions", "owner">>})
ToPatternView == Uses({<<"startedAt">>})       \* an area that is none becomes "other"
ToSignalView ==
    Uses({<<"signal">>, <<"classification">>, <<"route">>})
    \cup FormatSource(<<"signal", "source">>)
    \cup FormatReach(<<"signal", "source">>)   \* of a reach that is not null
SignalRow ==
    Uses({<<"classification", f>> : f \in {"severity", "sentiment", "actionClass"}})
    \cup {{<<"route", "confidence">>, <<"classification", "confidence">>}}
RouteAuditToSignalView == FormatSource(<<"source">>) \cup Uses({<<"confidence">>})
Dashboard == Uses({<<"sourceMix", "source">>})   \* everything else of the stats has a default
SignalsOf == Within("signals", ToSignalView \cup SignalRow)

Renders(view, answer) == \A use \in view : use \cap answer # {}
=============================================================================
