--------------------------- MODULE MockupPreview ---------------------------
(***************************************************************************)
(* The mockup preview server: mockupPreviewPlugin keeps a generated module *)
(* that lists the mockup files of a directory, and the page previews one   *)
(* file of the list.  The plugin lists the directory (refresh) when the     *)
(* server starts, when its watcher notices a file that came or went, and   *)
(* when a mockup was asked for and not found; calls during a refresh are   *)
(* folded into one that follows it.  Listing takes time: a file that comes *)
(* or goes meanwhile may be in the list or not.                            *)
(***************************************************************************)
EXTENDS Naturals, FiniteSets

CONSTANTS Files,      \* .tsx files below src/components/mockups
          Targets,    \* those with no path segment that starts with "_"
          Unwritten,  \* currentSource before the first refresh
          MaxChanges  \* bound on files that come or go

ASSUME PreviewAssumption == /\ Targets \subseteq Files
                            /\ \A S \in SUBSET Targets : S # Unwritten
                            /\ MaxChanges \in Nat

VARIABLES disk,      \* the files of the directory
          changes,
          stage,     \* of the server: down, configuring, watching, ready
          built,     \* buildStart has run
          known,     \* the files the watcher has seen
          refreshInFlight, refreshQueued, currentSource,
          module,    \* what the generated module lists
          dirty,     \* files that came or went since the last listing began
          news,      \* files the watcher told of, that no listing begun since has ended
          covered    \* those of them the listing under way began after

plugin == <<stage, built, known, refreshInFlight, refreshQueued, currentSource, module,
            news, covered>>
directory == <<disk, changes>>

Up == stage # "down"

-----------------------------------------------------------------------------
(* refresh: begin a listing, or have one follow the listing under way       *)
Begin(told) == /\ refreshInFlight' = TRUE
               /\ covered' = told
               /\ dirty' = {}
               /\ UNCHANGED refreshQueued

RefreshForgets(told) ==         \* a call during a refresh is dropped
    \/ ~refreshInFlight /\ Begin(told)
    \/ refreshInFlight /\ UNCHANGED <<refreshQueued, refreshInFlight, covered, dirty>>
Refresh(told) ==
    \/ ~refreshInFlight /\ Begin(told)
    \/ /\ refreshInFlight
       /\ refreshQueued' = TRUE
       /\ UNCHANGED <<refreshInFlight, covered, dirty>>

ListingsOfAll ==                 \* the glob ignores nothing
    {S \in SUBSET Files : \A f \in Files \ dirty : f \in S <=> f \in disk}
Listings == {S \in SUBSET Targets : \A f \in Targets \ dirty : f \in S <=> f \in disk}

RefreshEndsStale ==              \* currentSource keeps the first listing
    /\ refreshInFlight
    /\ \E S \in Listings :
          /\ currentSource' = IF currentSource = Unwritten THEN S ELSE currentSource
          /\ module' = IF S # currentSource THEN S ELSE module
    /\ news' = news \ covered
    /\ refreshQueued' = FALSE
    /\ refreshInFlight' = refreshQueued
    /\ covered' = IF refreshQueued THEN news \ covered ELSE {}
    /\ dirty' = IF refreshQueued THEN {} ELSE dirty
    /\ UNCHANGED <<stage, built, known>> /\ UNCHANGED directory

(* the listing ends: the module is written if it changed, and a queued      *)
(* refresh begins at once                                                   *)
RefreshEnds ==
    /\ refreshInFlight
    /\ \E S \in Listings :
          /\ currentSource' = S
          /\ module' = IF S # currentSource THEN S ELSE module
    /\ news' = news \ covered
    /\ refreshQueued' = FALSE
    /\ refreshInFlight' = refreshQueued
    /\ covered' = IF refreshQueued THEN news \ covered ELSE {}
    /\ dirty' = IF refreshQueued THEN {} ELSE dirty
    /\ UNCHANGED <<stage, built, known>> /\ UNCHANGED directory

-----------------------------------------------------------------------------
(* The server *)

(* configureServer: refresh, then watch.  Files the watcher finds when it   *)
(* first reads the directory are not told of (ignoreInitial).               *)
Start == /\ stage = "down"
         /\ stage' = "configuring" /\ built' = FALSE
         /\ Refresh({})
         /\ UNCHANGED <<known, currentSource, module, news>> /\ UNCHANGED directory

Watch == /\ stage = "configuring" /\ ~refreshInFlight
         /\ stage' = "watching"
         /\ UNCHANGED <<built, known, refreshInFlight, refreshQueued, currentSource, module,
                        news, covered, dirty>>
         /\ UNCHANGED directory

WatcherReady == /\ stage = "watching"
                /\ stage' = "ready" /\ known' = disk
                /\ UNCHANGED <<built, refreshInFlight, refreshQueued, currentSource, module,
                               news, covered, dirty>>
                /\ UNCHANGED directory

BuildStart == /\ stage \in {"watching", "ready"} /\ ~built
              /\ built' = TRUE
              /\ Refresh(news)
              /\ UNCHANGED <<stage, known, currentSource, module, news>> /\ UNCHANGED directory

(* A listing or a write that fails is a rejection nobody handles: the       *)
(* process ends, as it does when it is stopped.                             *)
Stop == /\ Up
        /\ stage' = "down" /\ built' = FALSE /\ known' = {}
        /\ refreshInFlight' = FALSE /\ refreshQueued' = FALSE
        /\ currentSource' = Unwritten
        /\ news' = {} /\ covered' = {} /\ dirty' = {}
        /\ UNCHANGED module /\ UNCHANGED directory

-----------------------------------------------------------------------------
(* The directory and its watcher *)

FileComesOrGoes(f) ==
    /\ changes < MaxChanges
    /\ changes' = changes + 1
    /\ disk' = IF f \in disk THEN disk \ {f} ELSE disk \cup {f}
    /\ dirty' = IF Up THEN dirty \cup {f} ELSE dirty
    /\ UNCHANGED plugin

Noticed(f) == /\ stage = "ready"
              /\ news' = news \cup {f}
              /\ Refresh(news \cup {f})
              /\ UNCHANGED <<stage, built, currentSource, module>> /\ UNCHANGED directory

OnAdd(f) == /\ f \in disk \ known /\ f \in Targets
            /\ known' = known \cup {f}
            /\ Noticed(f)
OnAddIgnored(f) == /\ stage = "ready"
                   /\ f \in disk \ known /\ f \notin Targets
                   /\ known' = known \cup {f}
                   /\ UNCHANGED <<stage, built, refreshInFlight, refreshQueued, currentSource,
                                  module, news, covered, dirty>>
                   /\ UNCHANGED directory
OnUnlink(f) == /\ f \in known \ disk
               /\ known' = known \ {f}
               /\ Noticed(f)

(* the 404 of a mockup's source                                             *)
Rescan == /\ Refresh(news)
          /\ UNCHANGED <<stage, built, known, currentSource, module, news>>
          /\ UNCHANGED directory

PreviewInit ==
    /\ disk \in SUBSET Files
    /\ changes = 0
    /\ stage = "down" /\ built = FALSE /\ known = {}
    /\ refreshInFlight = FALSE /\ refreshQueued = FALSE
    /\ currentSource = Unwritten /\ module = {}
    /\ dirty = {} /\ news = {} /\ covered = {}

ServerSteps ==
    \/ RefreshEnds \/ Start \/ Watch \/ WatcherReady \/ BuildStart \/ Stop
    \/ \E f \in Files : FileComesOrGoes(f) \/ OnAdd(f) \/ OnAddIgnored(f) \/ OnUnlink(f)

Notices == \E f \in Files : OnAdd(f) \/ OnAddIgnored(f) \/ OnUnlink(f)

-----------------------------------------------------------------------------
(* Properties *)

PreviewTypeOK ==
    /\ disk \in SUBSET Files /\ known \in SUBSET Files /\ dirty \in SUBSET Files
    /\ news \in SUBSET Files /\ covered \in SUBSET Files
    /\ module \in SUBSET Targets
    /\ currentSource = Unwritten \/ currentSource \in SUBSET Targets
    /\ stage \in {"down", "configuring", "watching", "ready"}
    /\ changes \in Nat /\ built \in BOOLEAN
    /\ refreshInFlight \in BOOLEAN /\ refreshQueued \in BOOLEAN

(* A file the watcher told of while a refresh was under way is not lost: a  *)
(* listing that began after it is under way, or one will follow.            *)
NoNoticeIsLost ==
    /\ ~refreshInFlight => news = {}
    /\ news # covered => refreshQueued

(* Once a listing has ended, the module the page imports lists the files    *)
(* that are there and no others, but for those that came or went since the   *)
(* listing began; with NoNoticeIsLost, each of these has yet to be noticed   *)
(* by the watcher, or was missed by it.                                      *)
ModuleTellsDirectory ==
    Up /\ ~refreshInFlight => \A f \in Targets \ dirty : f \in module <=> f \in disk
=============================================================================
