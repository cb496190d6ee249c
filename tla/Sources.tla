-------------------------------- MODULE Sources -------------------------------
(***************************************************************************)
(* tracker-sources.json, the endpoints that edit it (app/core/sources.py   *)
(* and app/api/router.py), and the discovery runs of app/core/discovery.py *)
(* that propose new sources.                                               *)
(*                                                                         *)
(* An endpoint loads the file, changes it and saves it in one atomic step. *)
(* A discovery loads it, asks well-known sites and GitHub, and saves the   *)
(* copy it loaded: edits made in between are overwritten.  A save may fail *)
(* before or after the file is truncated; a truncated file reads as none.  *)
(*                                                                         *)
(* The raw lists are in memory and in config.json, which is only read at   *)
(* start-up.                                                               *)
(***************************************************************************)
EXTENDS Integers

CONSTANTS
  Urls,          \* what may become a source
  RawUrls,       \* ... as a raw list, kept in config.json
  DefaultRaw,    \* the raw lists of an AppConfig that could not be read
  WellKnown,     \* WELL_KNOWN_SOURCES
  Manuals,       \* trackers a user may enter by hand
  Discoveries,   \* identities of discovery runs; each is started once
  MinInterval,   \* minimum_interval_days, in ticks
  MaxClock,      \* bound on the clock
  MaxEdits,      \* bound on calls of the endpoints
  MaxAborts,     \* bound on discoveries cut short, and on restarts
  MaxFaults      \* bound on saves that fail

ASSUME SourcesAssumption ==
  /\ RawUrls \subseteq Urls /\ WellKnown \subseteq Urls /\ DefaultRaw \subseteq RawUrls
  /\ MinInterval \in Nat \ {0} /\ MaxClock \in Nat
  /\ MaxEdits \in Nat /\ MaxAborts \in Nat /\ MaxFaults \in Nat

VARIABLES
  clock,
  file,          \* tracker-sources.json
  trackerUrls,   \* the raw lists of app.state.config
  stored,        \* the raw lists of config.json
  pc,            \* where each discovery is suspended
  loc,           \* its local variables
  edits, aborts, faults,  \* counters behind the bounds
  refused,       \* ghost: URLs dismissed, and neither approved nor cleared since
  approved,      \* ghost: raw lists approved, and not taken off the list since
  slipped,       \* ghost: raw lists that a save of config.json failed to keep
  lastSearch,    \* ghost: when the last GitHub search began
  overwritten,   \* ghost: has an edit come while a discovery was in flight?
  damaged,       \* ghost: has a save that failed changed tracker-sources.json?
  disturbed      \* ghost: was a discovery cut short, or beside another one?

lists == <<trackerUrls, stored, approved, slipped>>
ghosts == <<refused, lastSearch, overwritten, damaged, disturbed>>
vars == <<clock, file, pc, loc, edits, aborts, faults, lists, ghosts>>

-------------------------------------------------------------------------------
(* State *)

NoTime == -1

Times == 0..MaxClock \cup {NoTime}

(* sources and pending count how often their lists hold a URL: two entries *)
(* of one URL have ids of their own.                                       *)
SourcesFile ==
  [sources   : [Urls \ RawUrls -> Nat],
   manual    : SUBSET Manuals,
   pending   : [Urls -> Nat],
   dismissed : SUBSET Urls,
   searched  : Times]

Empty ==
  [sources |-> [u \in Urls \ RawUrls |-> 0], manual |-> {},
   pending |-> [u \in Urls |-> 0], dismissed |-> {}, searched |-> NoTime]

InFlight == {"asking", "searching"}

NoLocals == [copy |-> Empty, known |-> {}, startedAt |-> NoTime]

TypeOK ==
  /\ clock \in 0..MaxClock
  /\ file \in SourcesFile
  /\ trackerUrls \subseteq RawUrls /\ stored \subseteq RawUrls
  /\ pc \in [Discoveries -> {"idle", "over"} \cup InFlight]
  /\ loc \in [Discoveries ->
                [copy : SourcesFile, known : SUBSET Urls, startedAt : Times]]
  /\ edits \in 0..MaxEdits /\ aborts \in 0..MaxAborts /\ faults \in 0..MaxFaults
  /\ refused \subseteq Urls
  /\ approved \subseteq RawUrls /\ slipped \subseteq RawUrls
  /\ lastSearch \in Times
  /\ overwritten \in BOOLEAN /\ damaged \in BOOLEAN /\ disturbed \in BOOLEAN

Init ==
  /\ clock = 0
  /\ file = Empty
  /\ trackerUrls \in SUBSET RawUrls
  /\ stored = trackerUrls
  /\ pc = [d \in Discoveries |-> "idle"]
  /\ loc = [d \in Discoveries |-> NoLocals]
  /\ edits = 0 /\ aborts = 0 /\ faults = 0
  /\ refused = {} /\ approved = {} /\ slipped = {} /\ lastSearch = NoTime
  /\ overwritten = FALSE /\ damaged = FALSE /\ disturbed = FALSE

-------------------------------------------------------------------------------
(* Helpers *)

Pending(f) == {u \in Urls : f.pending[u] > 0}

Without(f, u) == [f EXCEPT !.pending[u] = 0]

Known(f) == trackerUrls \cup {u \in Urls \ RawUrls : f.sources[u] > 0}

(* Faulty variant: candidates already pending are proposed again.          *)
ProposedAgain(f, known, found) ==
  [f EXCEPT !.pending = [u \in Urls |->
     IF u \in found \ (known \cup f.dismissed) THEN @[u] + 1 ELSE @[u]]]

(* Faulty variant: what was dismissed is proposed again.                   *)
ProposedAnyway(f, known, found) ==
  [f EXCEPT !.pending = [u \in Urls |->
     IF u \in found \ (known \cup Pending(f)) THEN @[u] + 1 ELSE @[u]]]

(* _add_candidate, for each URL of found.                                  *)
Proposed(f, known, found) ==
  [f EXCEPT !.pending = [u \in Urls |->
     IF u \in found \ (known \cup f.dismissed \cup Pending(f))
     THEN @[u] + 1 ELSE @[u]]]

(* Faulty variant: the interval is compared the wrong way round.           *)
EligibleEarly(f, now) ==
  f.searched = NoTime \/ now - f.searched <= MinInterval

Eligible(f, now) == f.searched = NoTime \/ now - f.searched >= MinInterval

Fault ==
  /\ faults < MaxFaults
  /\ faults' = faults + 1

(* save_sources fails: the file is as it was, or cut off.                  *)
SaveFails ==
  /\ Fault
  /\ file' \in {file, Empty}
  /\ damaged' = (damaged \/ file' # file)

-------------------------------------------------------------------------------
(* A discovery *)

Goto(d, label) == pc' = [pc EXCEPT ![d] = label]

Finish(d) ==
  /\ Goto(d, "over")
  /\ loc' = [loc EXCEPT ![d] = NoLocals]

Busy == {d \in Discoveries : pc[d] \in InFlight}

(* A discovery that cannot save ends as one that crashed.                  *)
Conclude(d, f) ==
  /\ Finish(d)
  /\ \/ file' = f /\ UNCHANGED <<faults, damaged, disturbed>>
     \/ SaveFails /\ disturbed' = TRUE

Start(d) ==
  /\ pc[d] = "idle"
  /\ Goto(d, "asking")
  /\ disturbed' = (disturbed \/ Busy # {})
  /\ loc' = [loc EXCEPT ![d] = [NoLocals EXCEPT !.copy = file, !.known = Known(file)]]
  /\ UNCHANGED <<clock, file, lists, edits, aborts, faults, refused, lastSearch,
                 overwritten, damaged>>

(* The well-known sites were asked: a raw list must answer with a tracker  *)
(* list, the others are proposed as they are.  Then GitHub is searched, or *)
(* the copy is saved at once.                                              *)
Asked(d, answered) ==
  LET l     == loc[d]
      found == answered \cup (WellKnown \ RawUrls)
      copy  == Proposed(l.copy, l.known, found)
  IN /\ pc[d] = "asking"
     /\ answered \subseteq WellKnown \cap RawUrls
     /\ \/ /\ Eligible(copy, clock)
           /\ Goto(d, "searching")
           /\ loc' = [loc EXCEPT ![d].copy = copy, ![d].startedAt = clock]
           /\ lastSearch' = clock
           /\ UNCHANGED <<file, faults, damaged, disturbed>>
        \/ /\ ~Eligible(copy, clock)
           /\ Conclude(d, copy)
           /\ UNCHANGED lastSearch
     /\ UNCHANGED <<clock, lists, edits, aborts, refused, overwritten>>

(* Any repositories may be found, none of them when GitHub's own rate      *)
(* limit is hit.                                                           *)
Searched(d, found) ==
  LET l == loc[d]
  IN /\ pc[d] = "searching"
     /\ Conclude(d, [Proposed(l.copy, l.known, found) EXCEPT !.searched = l.startedAt])
     /\ UNCHANGED <<clock, lists, edits, aborts, refused, lastSearch, overwritten>>

(* Aborted by the user, or crashed.                                        *)
Abort(d) ==
  /\ pc[d] \in InFlight
  /\ aborts < MaxAborts
  /\ aborts' = aborts + 1
  /\ Finish(d)
  /\ disturbed' = TRUE
  /\ UNCHANGED <<clock, file, lists, edits, faults, refused, lastSearch, overwritten,
                 damaged>>

(* The process ends, and a new one reads config.json.                      *)
Restart ==
  /\ aborts < MaxAborts
  /\ aborts' = aborts + 1
  /\ pc' = [d \in Discoveries |-> IF d \in Busy THEN "over" ELSE pc[d]]
  /\ loc' = [d \in Discoveries |-> NoLocals]
  /\ trackerUrls' = stored
  /\ disturbed' = (disturbed \/ Busy # {})
  /\ UNCHANGED <<clock, file, stored, edits, faults, approved, slipped, refused,
                 lastSearch, overwritten, damaged>>

-------------------------------------------------------------------------------
(* The endpoints of tracker-sources.json *)

Edited ==
  /\ edits < MaxEdits
  /\ edits' = edits + 1
  /\ UNCHANGED <<clock, pc, loc, aborts, lastSearch, disturbed>>

Late == overwritten' = (overwritten \/ Busy # {})

(* The new file is saved, and the user told so; or the save fails, and the *)
(* answer is an error.                                                     *)
Save(f, refusals) ==
  \/ file' = f /\ refused' = refusals /\ Late /\ UNCHANGED <<faults, damaged>>
  \/ SaveFails /\ UNCHANGED <<refused, overwritten>>

AddSource(u) ==
  /\ Edited
  /\ Save([file EXCEPT !.sources[u] = @ + 1], refused)
  /\ UNCHANGED lists

(* Faulty variant: a source that is not there is removed all the same.     *)
RemoveMissing(u) ==
  /\ Edited
  /\ Save([file EXCEPT !.sources[u] = @ - 1], refused)
  /\ UNCHANGED lists

RemoveSource(u) ==
  /\ Edited
  /\ file.sources[u] > 0
  /\ Save([file EXCEPT !.sources[u] = @ - 1], refused)
  /\ UNCHANGED lists

SetManual(trackers) ==
  /\ Edited
  /\ Save([file EXCEPT !.manual = trackers], refused)
  /\ UNCHANGED lists

ApproveSource(u) ==
  /\ Edited
  /\ Save([Without(file, u) EXCEPT !.sources[u] = @ + 1], refused \ {u})
  /\ UNCHANGED lists

Dismissed(f, u) == [Without(f, u) EXCEPT !.dismissed = @ \cup {u}]

(* Faulty variant: the candidate stays in the list.                        *)
DismissKeeps(u) ==
  /\ Edited
  /\ Save([file EXCEPT !.dismissed = @ \cup {u}], refused \cup {u})
  /\ UNCHANGED lists

(* Faulty variant: the candidate is only taken off the list.               *)
DismissForgets(u) ==
  /\ Edited
  /\ Save(Without(file, u), refused \cup {u})
  /\ UNCHANGED lists

Dismiss(u) ==
  /\ Edited
  /\ Save(Dismissed(file, u), refused \cup {u})
  /\ UNCHANGED lists

ClearDismissed ==
  /\ Edited
  /\ Save([file EXCEPT !.dismissed = {}], {})
  /\ UNCHANGED lists

-------------------------------------------------------------------------------
(* The endpoints of config.json *)

(* save_app_config: all lists are on disk, ...                             *)
ConfigSaved ==
  /\ stored' = trackerUrls'
  /\ slipped' = slipped \ trackerUrls'

(* ... or it fails, and a file cut off reads as the defaults.              *)
ConfigFails ==
  /\ Fault
  /\ stored' \in {stored, DefaultRaw}
  /\ slipped' = slipped \cup (trackerUrls' \ stored')

(* POST /api/config replaces the list, on disk and then in memory.         *)
SetTrackerUrls(urls) ==
  /\ Edited
  /\ \/ /\ trackerUrls' = urls
        /\ ConfigSaved
        /\ approved' = approved \cap urls
        /\ Late
        /\ UNCHANGED faults
     \/ UNCHANGED <<trackerUrls, approved, overwritten>> /\ ConfigFails
  /\ UNCHANGED <<file, refused, damaged>>

(* Faulty variant: the new list is kept in memory.                         *)
ListedInMemory(u) ==
  /\ trackerUrls' = trackerUrls \cup {u}
  /\ UNCHANGED <<stored, slipped>>

(* A raw list joins the list in memory, which is saved unless it was there *)
(* already.                                                                *)
Listed(u) ==
  /\ trackerUrls' = trackerUrls \cup {u}
  /\ IF u \in trackerUrls THEN UNCHANGED <<stored, slipped>> ELSE ConfigSaved

(* It is dismissed, and then taken off the dismissed ones again.           *)
ApproveRaw(u) ==
  /\ Edited
  /\ Listed(u)
  /\ file' = [Without(file, u) EXCEPT !.dismissed = @ \ {u}]
  /\ refused' = refused \ {u}
  /\ approved' = approved \cup {u}
  /\ Late
  /\ UNCHANGED <<faults, damaged>>

(* One of the three saves fails.                                           *)
ApproveRawFails(u) ==
  /\ Edited
  /\ \/ /\ u \notin trackerUrls
        /\ trackerUrls' = trackerUrls \cup {u}
        /\ ConfigFails
        /\ UNCHANGED <<file, damaged>>
     \/ Listed(u) /\ SaveFails
     \/ /\ Listed(u)
        /\ Fault
        /\ file' \in {Dismissed(file, u), Empty}
        /\ damaged' = TRUE
  /\ UNCHANGED <<refused, approved, overwritten>>

-------------------------------------------------------------------------------

Tick ==
  /\ clock < MaxClock
  /\ clock' = clock + 1
  /\ UNCHANGED <<file, pc, loc, edits, aborts, faults, lists, ghosts>>

Discover ==
  \/ Restart
  \/ \E d \in Discoveries :
       \/ Start(d)
       \/ \E answered \in SUBSET Urls : Asked(d, answered)
       \/ \E found \in SUBSET (Urls \ RawUrls) : Searched(d, found)
       \/ Abort(d)

Edit ==
  \/ \E u \in Urls \ RawUrls : AddSource(u) \/ RemoveSource(u) \/ ApproveSource(u)
  \/ \E u \in RawUrls : ApproveRaw(u) \/ ApproveRawFails(u)
  \/ \E u \in Urls : Dismiss(u)
  \/ \E trackers \in SUBSET Manuals : SetManual(trackers)
  \/ \E urls \in SUBSET RawUrls : SetTrackerUrls(urls)
  \/ ClearDismissed

Next == Discover \/ Edit \/ Tick

Spec == Init /\ [][Next]_vars

-------------------------------------------------------------------------------
(* Properties *)

(* Whatever copies are written back over each other, no candidate is       *)
(* listed twice, neither on disk nor in the copy a discovery will save.    *)
UniqueCandidates ==
  /\ \A u \in Urls : file.pending[u] <= 1
  /\ \A d \in Discoveries, u \in Urls : loc[d].copy.pending[u] <= 1

(* Nothing is both proposed and dismissed, on disk or in a copy: a whole   *)
(* file is written, never a mix of two.                                    *)
DismissedNotPending ==
  /\ Pending(file) \cap file.dismissed = {}
  /\ \A d \in Discoveries : Pending(loc[d].copy) \cap loc[d].copy.dismissed = {}

(* discovery.py:11, "already-dismissed [...] URLs are skipped": what the   *)
(* user dismissed stays dismissed, and is not proposed again, until it is  *)
(* approved or cleared; unless an edit came while a discovery was in       *)
(* flight, or a save that failed changed the file.                         *)
RefusedStays ==
  \/ overwritten \/ damaged
  \/ refused \subseteq file.dismissed /\ refused \cap Pending(file) = {}

(* A raw list whose approval was answered with ok is in the configuration, *)
(* in memory and in config.json, so restarts keep it.  Not so once the     *)
(* save failed: a retry finds it in memory, answers ok and saves nothing.  *)
ApprovedStays == approved \ slipped \subseteq trackerUrls \cap stored

(* discovery.py:7, "runs at most once per [...] minimum_interval_days":    *)
(* two GitHub searches are never closer than that, whatever is edited in   *)
(* between, as long as no discovery is cut short or overlaps another, and  *)
(* no save that failed lost the date of the last one.                      *)
RateLimited ==
  [][lastSearch' # lastSearch =>
       \/ disturbed \/ damaged \/ lastSearch = NoTime
       \/ lastSearch' - lastSearch >= MinInterval]_vars
===============================================================================
