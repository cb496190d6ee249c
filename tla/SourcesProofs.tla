----------------------------- MODULE SourcesProofs -----------------------------
(***************************************************************************)
(* What Sources.tla keeps in order for any number of discoveries, edits,   *)
(* aborts, restarts and failing saves, whichever copy of the file is       *)
(* written back when: the copies lose edits, but each of them is in order  *)
(* by itself.                                                              *)
(***************************************************************************)
EXTENDS Sources, TLAPS

(* No candidate is listed twice, or dismissed.                             *)
Orderly(f) ==
  \A u \in Urls : f.pending[u] <= 1 /\ (f.pending[u] > 0 => u \notin f.dismissed)

OrderlyFiles == {f \in SourcesFile : Orderly(f)}

LoadedCopy == [copy : OrderlyFiles, known : SUBSET Urls, startedAt : Times]

LEMMA EmptyOrderly == Empty \in OrderlyFiles
  <1>1. Empty \in SourcesFile
    BY DEF Empty, SourcesFile, Times
  <1> QED
    BY <1>1 DEF OrderlyFiles, Orderly, Empty

LEMMA NothingLoaded == NoLocals \in LoadedCopy
  BY EmptyOrderly DEF NoLocals, LoadedCopy, Times

(* _add_candidate skips what is known, dismissed or a candidate already.   *)
LEMMA ProposedOrderly ==
  ASSUME NEW f \in OrderlyFiles, NEW known, NEW found
  PROVE  Proposed(f, known, found) \in OrderlyFiles
  <1> DEFINE new == Proposed(f, known, found)
             skipped == known \cup f.dismissed \cup Pending(f)
  <1>1. f \in SourcesFile /\ Orderly(f)
    BY DEF OrderlyFiles
  <1>2. /\ \A u \in Urls : new.pending[u] = IF u \in found \ skipped
                                            THEN f.pending[u] + 1 ELSE f.pending[u]
        /\ new.dismissed = f.dismissed
    BY <1>1 DEF Proposed, SourcesFile
  <1>3. new \in SourcesFile
    <2> DEFINE counts == [u \in Urls |-> IF u \in found \ skipped
                                       THEN f.pending[u] + 1 ELSE f.pending[u]]
    <2>1. counts \in [Urls -> Nat]
      BY <1>1 DEF SourcesFile
    <2>2. new = [f EXCEPT !.pending = counts]
      BY DEF Proposed
    <2> HIDE DEF counts
    <2> QED
      BY <1>1, <2>1, <2>2 DEF SourcesFile
  <1>4. \A u \in Urls : f.pending[u] \in Nat
    BY <1>1 DEF SourcesFile
  <1>5. ASSUME NEW u \in Urls
        PROVE  new.pending[u] <= 1 /\ (new.pending[u] > 0 => u \notin new.dismissed)
    <2>1. CASE u \in found \ skipped
      <3>1. f.pending[u] = 0 /\ u \notin f.dismissed
        BY <2>1, <1>4 DEF Pending
      <3> QED
        BY <2>1, <3>1, <1>2
    <2>2. CASE u \notin found \ skipped
      BY <2>2, <1>1, <1>2 DEF Orderly
    <2> QED
      BY <2>1, <2>2
  <1> QED
    BY <1>3, <1>5 DEF OrderlyFiles, Orderly

LEMMA SearchedOrderly ==
  ASSUME NEW f \in OrderlyFiles, NEW t \in Times
  PROVE  [f EXCEPT !.searched = t] \in OrderlyFiles
  BY DEF OrderlyFiles, Orderly, SourcesFile

-------------------------------------------------------------------------------
(* What an edit makes of a file *)

(* An edit that takes candidates off the list, or dismisses such, is fine. *)
LEMMA StaysOrderly ==
  ASSUME NEW f \in OrderlyFiles, NEW g \in SourcesFile,
         \A u \in Urls : /\ g.pending[u] \in {0, f.pending[u]}
                         /\ u \in g.dismissed \ f.dismissed => g.pending[u] = 0
  PROVE  g \in OrderlyFiles
  BY DEF OrderlyFiles, Orderly

LEMMA WithoutCandidate ==
  ASSUME NEW f \in SourcesFile, NEW u \in Urls
  PROVE  /\ Without(f, u) \in SourcesFile
         /\ Without(f, u).sources = f.sources
         /\ Without(f, u).dismissed = f.dismissed
         /\ \A v \in Urls : Without(f, u).pending[v] = IF v = u THEN 0 ELSE f.pending[v]
  BY DEF Without, SourcesFile

LEMMA DismissedSet ==
  ASSUME NEW f \in SourcesFile, NEW D \in SUBSET Urls
  PROVE  /\ [f EXCEPT !.dismissed = D] \in SourcesFile
         /\ [f EXCEPT !.dismissed = D].dismissed = D
         /\ [f EXCEPT !.dismissed = D].pending = f.pending
  BY DEF SourcesFile

LEMMA SourceAdded ==
  ASSUME NEW f \in SourcesFile, NEW u \in Urls \ RawUrls
  PROVE  /\ [f EXCEPT !.sources[u] = @ + 1] \in SourcesFile
         /\ [f EXCEPT !.sources[u] = @ + 1].dismissed = f.dismissed
         /\ [f EXCEPT !.sources[u] = @ + 1].pending = f.pending
  BY DEF SourcesFile

LEMMA DismissedOne ==
  ASSUME NEW f \in OrderlyFiles, NEW u \in Urls
  PROVE  /\ Dismissed(f, u) \in OrderlyFiles
         /\ Dismissed(f, u).dismissed = f.dismissed \cup {u}
  <1>1. f \in SourcesFile
    BY DEF OrderlyFiles
  <1>2. f.dismissed \subseteq Urls /\ f.dismissed \cup {u} \in SUBSET Urls
    BY <1>1 DEF SourcesFile
  <1>3. /\ Dismissed(f, u) \in SourcesFile
        /\ Dismissed(f, u).dismissed = f.dismissed \cup {u}
        /\ \A v \in Urls : Dismissed(f, u).pending[v] = IF v = u THEN 0 ELSE f.pending[v]
    BY <1>1, <1>2, WithoutCandidate, DismissedSet DEF Dismissed
  <1> QED
    BY <1>3, StaysOrderly

LEMMA ApprovedOne ==
  ASSUME NEW f \in OrderlyFiles, NEW u \in Urls
  PROVE  /\ [Without(f, u) EXCEPT !.dismissed = @ \ {u}] \in OrderlyFiles
         /\ [Without(f, u) EXCEPT !.dismissed = @ \ {u}].dismissed = f.dismissed \ {u}
  <1> DEFINE g == [Without(f, u) EXCEPT !.dismissed = @ \ {u}]
             D == f.dismissed \ {u}
  <1>1. f \in SourcesFile
    BY DEF OrderlyFiles
  <1>2. D \in SUBSET Urls /\ Without(f, u) \in SourcesFile
        /\ Without(f, u).dismissed = f.dismissed
        /\ \A v \in Urls : Without(f, u).pending[v] = IF v = u THEN 0 ELSE f.pending[v]
    BY <1>1, WithoutCandidate DEF SourcesFile
  <1>3. g = [Without(f, u) EXCEPT !.dismissed = D]
    BY <1>2
  <1> HIDE DEF g
  <1>4. /\ g \in SourcesFile /\ g.dismissed = D
        /\ \A v \in Urls : g.pending[v] = IF v = u THEN 0 ELSE f.pending[v]
    BY <1>2, <1>3, DismissedSet
  <1>5. g \in OrderlyFiles
    BY <1>4, StaysOrderly
  <1> QED
    BY <1>4, <1>5 DEF g

-------------------------------------------------------------------------------
(* The invariants *)

(* TypeOK, with every file and copy in order: what holds of the file holds *)
(* of the copy a discovery loads, and must hold of the file again when the *)
(* discovery saves it.                                                     *)
FileInOrder ==
  /\ file \in OrderlyFiles
  /\ refused \subseteq Urls
  /\ faults \in 0..MaxFaults
  /\ overwritten \in BOOLEAN /\ damaged \in BOOLEAN

RunsInOrder ==
  /\ clock \in 0..MaxClock
  /\ pc \in [Discoveries -> {"idle", "over"} \cup InFlight]
  /\ loc \in [Discoveries -> LoadedCopy]
  /\ edits \in 0..MaxEdits /\ aborts \in 0..MaxAborts
  /\ lastSearch \in Times
  /\ disturbed \in BOOLEAN

(* A list in memory that is not on disk is one a save failed to keep.      *)
ListsInOrder ==
  /\ trackerUrls \subseteq RawUrls /\ stored \subseteq RawUrls
  /\ approved \subseteq RawUrls /\ slipped \subseteq RawUrls
  /\ trackerUrls \ stored \subseteq slipped
  /\ ApprovedStays

(* The copies that will be saved dismiss what the file dismisses.          *)
Heeded ==
  \/ overwritten \/ damaged
  \/ /\ refused \subseteq file.dismissed
     /\ \A d \in Busy : refused \subseteq loc[d].copy.dismissed

InOrder == FileInOrder /\ RunsInOrder /\ ListsInOrder /\ Heeded

(* What an endpoint does to the file.                                      *)
FileStep ==
  /\ FileInOrder'
  /\ \/ overwritten' \/ damaged'
     \/ /\ ~overwritten /\ ~damaged
        /\ refused \subseteq file.dismissed => refused' \subseteq file'.dismissed
        /\ Busy = {} \/ refused' = refused

LEMMA FailedSave ==
  ASSUME FileInOrder, SaveFails
  PROVE  /\ file' \in OrderlyFiles /\ faults' \in 0..MaxFaults /\ damaged' \in BOOLEAN
         /\ damaged' \/ (~damaged /\ file' = file)
  <1>1. file' \in OrderlyFiles /\ faults' \in 0..MaxFaults
    BY EmptyOrderly, SourcesAssumption DEF FileInOrder, SaveFails, Fault
  <1>2. damaged' = (damaged \/ file' # file) /\ damaged \in BOOLEAN
    BY DEF FileInOrder, SaveFails
  <1>3. damaged' \in BOOLEAN /\ (damaged' \/ (~damaged /\ file' = file))
    BY <1>2, Zenon
  <1> QED
    BY <1>1, <1>3

LEMMA SaveSteps ==
  ASSUME FileInOrder, NEW f \in OrderlyFiles, NEW r \in SUBSET Urls, Save(f, r),
         refused \subseteq file.dismissed => r \subseteq f.dismissed
  PROVE  FileStep
  <1>1. CASE file' = f /\ refused' = r /\ Late /\ UNCHANGED <<faults, damaged>>
    BY <1>1 DEF FileInOrder, FileStep, Late
  <1>2. CASE SaveFails /\ UNCHANGED <<refused, overwritten>>
    BY <1>2, FailedSave DEF FileInOrder, FileStep
  <1> QED
    BY <1>1, <1>2 DEF Save

-------------------------------------------------------------------------------
(* The endpoints *)

LEMMA SourceEdits ==
  ASSUME FileInOrder, NEW u \in Urls \ RawUrls,
         AddSource(u) \/ RemoveSource(u) \/ ApproveSource(u)
  PROVE  FileStep
  <1>1. file \in SourcesFile /\ file \in OrderlyFiles /\ refused \subseteq Urls
    BY DEF FileInOrder, OrderlyFiles
  <1>2. ASSUME NEW f \in SourcesFile, NEW r \in SUBSET Urls, r \subseteq refused,
               f.dismissed = file.dismissed, Save(f, r),
               \A v \in Urls : f.pending[v] \in {0, file.pending[v]}
        PROVE  FileStep
    <2>1. f \in OrderlyFiles
      BY <1>1, <1>2, StaysOrderly
    <2>2. refused \subseteq file.dismissed => r \subseteq f.dismissed
      BY <1>2
    <2> QED
      BY <1>2, <2>1, <2>2, SaveSteps
  <1>3. CASE AddSource(u)
    <2>1. Save([file EXCEPT !.sources[u] = @ + 1], refused)
      BY <1>3 DEF AddSource
    <2> QED
      BY <1>1, <1>2, <2>1, SourceAdded
  <1>4. CASE RemoveSource(u)
    <2> DEFINE f == [file EXCEPT !.sources[u] = @ - 1]
    <2>1. file.sources[u] - 1 \in Nat
      BY <1>1, <1>4 DEF RemoveSource, SourcesFile
    <2>2. f \in SourcesFile /\ f.dismissed = file.dismissed /\ f.pending = file.pending
      BY <1>1, <2>1 DEF SourcesFile
    <2>3. Save(f, refused)
      BY <1>4 DEF RemoveSource
    <2> HIDE DEF f
    <2> QED
      BY <1>1, <1>2, <2>2, <2>3
  <1>5. CASE ApproveSource(u)
    <2> DEFINE f == [Without(file, u) EXCEPT !.sources[u] = @ + 1]
    <2>1. /\ f \in SourcesFile /\ f.dismissed = file.dismissed
          /\ \A v \in Urls : f.pending[v] \in {0, file.pending[v]}
      BY <1>1, WithoutCandidate, SourceAdded
    <2>2. Save(f, refused \ {u})
      BY <1>5 DEF ApproveSource
    <2> HIDE DEF f
    <2> QED
      BY <1>1, <1>2, <2>1, <2>2
  <1> QED
    BY <1>3, <1>4, <1>5

LEMMA OtherEdits ==
  ASSUME FileInOrder,
         \/ \E u \in Urls : Dismiss(u)
         \/ \E trackers \in SUBSET Manuals : SetManual(trackers)
         \/ ClearDismissed
  PROVE  FileStep
  <1>1. file \in SourcesFile /\ file \in OrderlyFiles /\ refused \subseteq Urls
    BY DEF FileInOrder, OrderlyFiles
  <1>2. ASSUME NEW u \in Urls, Dismiss(u) PROVE FileStep
    <2>1. Save(Dismissed(file, u), refused \cup {u})
      BY <1>2 DEF Dismiss
    <2> QED
      BY <1>1, <2>1, DismissedOne, SaveSteps
  <1>3. ASSUME NEW trackers \in SUBSET Manuals, SetManual(trackers) PROVE FileStep
    <2> DEFINE f == [file EXCEPT !.manual = trackers]
    <2>1. f \in SourcesFile /\ f.dismissed = file.dismissed /\ f.pending = file.pending
      BY <1>1, <1>3 DEF SourcesFile
    <2>2. Save(f, refused)
      BY <1>3 DEF SetManual
    <2> HIDE DEF f
    <2>3. f \in OrderlyFiles
      BY <1>1, <2>1, StaysOrderly
    <2> QED
      BY <1>1, <2>1, <2>2, <2>3, SaveSteps
  <1>4. CASE ClearDismissed
    <2> DEFINE f == [file EXCEPT !.dismissed = {}]
    <2>1. f \in SourcesFile /\ f.dismissed = {} /\ f.pending = file.pending
      BY <1>1 DEF SourcesFile
    <2>2. Save(f, {})
      BY <1>4 DEF ClearDismissed
    <2> HIDE DEF f
    <2>3. f \in OrderlyFiles
      BY <1>1, <2>1, StaysOrderly
    <2> QED
      BY <1>1, <2>1, <2>2, <2>3, SaveSteps
  <1> QED
    BY <1>2, <1>3, <1>4

LEMMA SameLists == ListsInOrder /\ UNCHANGED lists => ListsInOrder'
  BY DEF ListsInOrder, ApprovedStays, lists

LEMMA ListedKeeps ==
  ASSUME ListsInOrder, NEW u \in RawUrls, Listed(u)
  PROVE  /\ trackerUrls' \subseteq RawUrls /\ stored' \subseteq RawUrls
         /\ slipped' \subseteq RawUrls
         /\ trackerUrls' \ stored' \subseteq slipped'
         /\ (approved \cup {u}) \ slipped' \subseteq trackerUrls' \cap stored'
  BY DEF ListsInOrder, ApprovedStays, Listed, ConfigSaved

LEMMA RawEdits ==
  ASSUME FileInOrder, ListsInOrder, NEW u \in RawUrls, ApproveRaw(u) \/ ApproveRawFails(u)
  PROVE  FileStep /\ ListsInOrder'
  <1>1. u \in Urls /\ file \in OrderlyFiles /\ refused \subseteq Urls
    BY SourcesAssumption DEF FileInOrder
  <1>2. CASE ApproveRaw(u)
    <2>1. ListsInOrder'
      BY <1>2, ListedKeeps DEF ApproveRaw, ListsInOrder, ApprovedStays
    <2>2. Save([Without(file, u) EXCEPT !.dismissed = @ \ {u}], refused \ {u})
      BY <1>2 DEF ApproveRaw, Save
    <2> DEFINE f == [Without(file, u) EXCEPT !.dismissed = @ \ {u}]
    <2>3. f \in OrderlyFiles /\ f.dismissed = file.dismissed \ {u} /\ Save(f, refused \ {u})
      BY <1>1, <2>2, ApprovedOne
    <2> HIDE DEF f
    <2>4. FileStep
      BY <1>1, <2>3, SaveSteps
    <2> QED
      BY <2>1, <2>4
  <1>3. CASE Listed(u) /\ SaveFails /\ UNCHANGED <<refused, approved, overwritten>>
    <2>1. ListsInOrder'
      BY <1>3, ListedKeeps DEF ListsInOrder, ApprovedStays
    <2>2. FileStep
      BY <1>3, FailedSave DEF FileInOrder, FileStep
    <2> QED
      BY <2>1, <2>2
  <1>4. CASE /\ Listed(u) /\ Fault /\ file' \in {Dismissed(file, u), Empty}
             /\ damaged' = TRUE /\ UNCHANGED <<refused, approved, overwritten>>
    <2>1. ListsInOrder'
      BY <1>4, ListedKeeps DEF ListsInOrder, ApprovedStays
    <2>2. file' \in OrderlyFiles /\ faults' \in 0..MaxFaults
      BY <1>1, <1>4, DismissedOne, EmptyOrderly, SourcesAssumption DEF Fault, FileInOrder
    <2>3. FileStep
      BY <1>4, <2>2 DEF FileInOrder, FileStep
    <2> QED
      BY <2>1, <2>3
  <1>5. CASE /\ u \notin trackerUrls /\ trackerUrls' = trackerUrls \cup {u} /\ ConfigFails
             /\ UNCHANGED <<file, damaged, refused, approved, overwritten>>
    <2>1. ListsInOrder'
      BY <1>5, SourcesAssumption DEF ListsInOrder, ApprovedStays, ConfigFails
    <2>2. faults' \in 0..MaxFaults
      BY <1>5, SourcesAssumption DEF ConfigFails, Fault, FileInOrder
    <2>3. FileStep
      BY <1>5, <2>2 DEF FileInOrder, FileStep
    <2> QED
      BY <2>1, <2>3
  <1> QED
    BY <1>2, <1>3, <1>4, <1>5 DEF ApproveRawFails

LEMMA ConfigEdits ==
  ASSUME FileInOrder, ListsInOrder, NEW urls \in SUBSET RawUrls, SetTrackerUrls(urls)
  PROVE  FileStep /\ ListsInOrder'
  <1>1. UNCHANGED <<file, refused, damaged>>
    BY DEF SetTrackerUrls
  <1>2. CASE /\ trackerUrls' = urls /\ ConfigSaved /\ approved' = approved \cap urls
             /\ Late /\ UNCHANGED faults
    <2>1. ListsInOrder'
      BY <1>2 DEF ListsInOrder, ApprovedStays, ConfigSaved
    <2>2. FileStep
      BY <1>1, <1>2 DEF FileInOrder, FileStep, Late
    <2> QED
      BY <2>1, <2>2
  <1>3. CASE UNCHANGED <<trackerUrls, approved, overwritten>> /\ ConfigFails
    <2>1. ListsInOrder'
      BY <1>3, SourcesAssumption DEF ListsInOrder, ApprovedStays, ConfigFails
    <2>2. faults' \in 0..MaxFaults
      BY <1>3, SourcesAssumption DEF ConfigFails, Fault, FileInOrder
    <2>3. FileStep
      BY <1>1, <1>3, <2>2 DEF FileInOrder, FileStep
    <2> QED
      BY <2>1, <2>3
  <1> QED
    BY <1>2, <1>3 DEF SetTrackerUrls

LEMMA EditInOrder == ASSUME InOrder, Edit PROVE InOrder'
  <1>1. FileStep /\ ListsInOrder' /\ Edited
    <2>1. CASE \E u \in Urls \ RawUrls :
                 AddSource(u) \/ RemoveSource(u) \/ ApproveSource(u)
      BY <2>1, SourceEdits, SameLists
         DEF InOrder, AddSource, RemoveSource, ApproveSource
    <2>2. CASE \E u \in RawUrls : ApproveRaw(u) \/ ApproveRawFails(u)
      BY <2>2, RawEdits DEF InOrder, ApproveRaw, ApproveRawFails
    <2>3. CASE \/ \E u \in Urls : Dismiss(u)
               \/ \E trackers \in SUBSET Manuals : SetManual(trackers)
               \/ ClearDismissed
      BY <2>3, OtherEdits, SameLists DEF InOrder, Dismiss, SetManual, ClearDismissed
    <2>4. CASE \E urls \in SUBSET RawUrls : SetTrackerUrls(urls)
      BY <2>4, ConfigEdits DEF InOrder, SetTrackerUrls
    <2> QED
      BY <2>1, <2>2, <2>3, <2>4 DEF Edit
  <1>2. RunsInOrder'
    BY <1>1, SourcesAssumption DEF InOrder, RunsInOrder, Edited
  <1>3. Heeded'
    BY <1>1 DEF InOrder, Heeded, FileStep, Edited, Busy
  <1> QED
    BY <1>1, <1>2, <1>3 DEF InOrder, FileStep

-------------------------------------------------------------------------------
(* Discoveries *)

LEMMA InitInOrder == Init => InOrder
  <1> SUFFICES ASSUME Init PROVE InOrder
    OBVIOUS
  <1>1. loc \in [Discoveries -> LoadedCopy]
    BY NothingLoaded DEF Init
  <1>2. pc \in [Discoveries -> {"idle", "over"} \cup InFlight]
    BY DEF Init
  <1>0. overwritten \in BOOLEAN /\ damaged \in BOOLEAN /\ disturbed \in BOOLEAN
    BY DEF Init
  <1>3. RunsInOrder
    BY <1>0, <1>1, <1>2, SourcesAssumption DEF Init, RunsInOrder, Times
  <1>4. FileInOrder /\ ListsInOrder
    BY <1>0, EmptyOrderly, SourcesAssumption
       DEF Init, FileInOrder, ListsInOrder, ApprovedStays
  <1>5. Heeded
    BY DEF Init, Heeded, Busy, InFlight
  <1> QED
    BY <1>3, <1>4, <1>5 DEF InOrder

LEMMA KnownUrls ==
  ASSUME ListsInOrder, NEW f
  PROVE  Known(f) \subseteq Urls
  BY SourcesAssumption DEF Known, ListsInOrder

LEMMA FinishInOrder ==
  ASSUME RunsInOrder, NEW d \in Discoveries, Finish(d)
  PROVE  /\ pc' \in [Discoveries -> {"idle", "over"} \cup InFlight]
         /\ loc' \in [Discoveries -> LoadedCopy]
         /\ Busy' = Busy \ {d}
         /\ \A e \in Busy' : loc'[e] = loc[e]
  <1>1. /\ \A e \in Discoveries : pc'[e] = IF e = d THEN "over" ELSE pc[e]
        /\ \A e \in Discoveries \ {d} : loc'[e] = loc[e]
    BY DEF RunsInOrder, Finish, Goto
  <1>2. "over" \notin InFlight
    BY DEF InFlight
  <1> QED
    BY <1>1, <1>2, NothingLoaded DEF RunsInOrder, Finish, Goto, Busy

LEMMA StartInOrder ==
  ASSUME InOrder, NEW d \in Discoveries, Start(d)
  PROVE  InOrder'
  <1>1. [NoLocals EXCEPT !.copy = file, !.known = Known(file)] \in LoadedCopy
    BY NothingLoaded, KnownUrls DEF InOrder, FileInOrder, LoadedCopy
  <1>2. loc' \in [Discoveries -> LoadedCopy]
    BY <1>1 DEF InOrder, RunsInOrder, Start
  <1>3. RunsInOrder'
    BY <1>2 DEF InOrder, RunsInOrder, Start, Goto, InFlight
  <1>4. FileInOrder' /\ ListsInOrder'
    BY SameLists DEF InOrder, FileInOrder, Start
  <1>5. \A e \in Busy' : loc'[e].copy = IF e = d THEN file ELSE loc[e].copy
    <2>1. loc'[d].copy = file
      BY DEF InOrder, RunsInOrder, Start, NoLocals
    <2>2. \A e \in Discoveries \ {d} : loc'[e] = loc[e]
      BY DEF InOrder, RunsInOrder, Start
    <2> QED
      BY <2>1, <2>2 DEF Busy
  <1>6. Busy' \subseteq Busy \cup {d}
    BY DEF Busy, Start, Goto, InOrder, RunsInOrder
  <1>7. Heeded'
    BY <1>5, <1>6 DEF InOrder, Heeded, Start
  <1> QED
    BY <1>3, <1>4, <1>7 DEF InOrder

(* A discovery saves a copy that dismisses what its own copy did.          *)
LEMMA ConcludeInOrder ==
  ASSUME InOrder, NEW d \in Busy, NEW f \in OrderlyFiles, Conclude(d, f),
         f.dismissed = loc[d].copy.dismissed,
         UNCHANGED <<clock, lists, edits, aborts, refused, lastSearch, overwritten>>
  PROVE  InOrder'
  <1>0. d \in Discoveries
    BY DEF Busy
  <1>1. /\ pc' \in [Discoveries -> {"idle", "over"} \cup InFlight]
        /\ loc' \in [Discoveries -> LoadedCopy]
        /\ Busy' = Busy \ {d}
        /\ \A e \in Busy' : loc'[e] = loc[e]
    BY <1>0, FinishInOrder DEF InOrder, Conclude
  <1>2. RunsInOrder'
    BY <1>1 DEF InOrder, RunsInOrder, Conclude
  <1>3. ListsInOrder'
    BY SameLists DEF InOrder
  <1>4. CASE file' = f /\ UNCHANGED <<faults, damaged, disturbed>>
    <2>1. FileInOrder'
      BY <1>4 DEF InOrder, FileInOrder
    <2>2. Heeded'
      BY <1>1, <1>4 DEF InOrder, Heeded
    <2> QED
      BY <1>2, <1>3, <2>1, <2>2 DEF InOrder
  <1>5. CASE SaveFails
    <2>1. FileInOrder'
      BY <1>5, FailedSave DEF InOrder, FileInOrder
    <2>2. Heeded'
      BY <1>1, <1>5, FailedSave DEF InOrder, Heeded
    <2> QED
      BY <1>2, <1>3, <2>1, <2>2 DEF InOrder
  <1> QED
    BY <1>4, <1>5 DEF Conclude

LEMMA ProposedDismissed ==
  ASSUME NEW f \in SourcesFile, NEW known, NEW found
  PROVE  Proposed(f, known, found).dismissed = f.dismissed
  BY DEF Proposed, SourcesFile

LEMMA AskedInOrder ==
  ASSUME InOrder, NEW d \in Discoveries, NEW answered \in SUBSET Urls,
         Asked(d, answered)
  PROVE  InOrder'
  <1> DEFINE l == loc[d]
             copy == Proposed(l.copy, l.known, answered \cup (WellKnown \ RawUrls))
  <1>1. l \in LoadedCopy /\ l.copy \in OrderlyFiles /\ clock \in Times
    BY DEF InOrder, RunsInOrder, LoadedCopy, Times
  <1>2. copy \in OrderlyFiles
    BY <1>1, ProposedOrderly
  <1>3. copy.dismissed = l.copy.dismissed
    BY <1>1, ProposedDismissed DEF OrderlyFiles
  <1>4. d \in Busy
    BY DEF Asked, Busy, InFlight
  <1>5. UNCHANGED <<clock, lists, edits, aborts, refused, overwritten>>
    BY DEF Asked
  <1>6. CASE /\ Goto(d, "searching")
             /\ loc' = [loc EXCEPT ![d].copy = copy, ![d].startedAt = clock]
             /\ lastSearch' = clock
             /\ UNCHANGED <<file, faults, damaged, disturbed>>
    <2> HIDE DEF copy
    <2>1. [l EXCEPT !.copy = copy, !.startedAt = clock] \in LoadedCopy
      BY <1>1, <1>2 DEF LoadedCopy
    <2>2. loc' = [loc EXCEPT ![d] = [l EXCEPT !.copy = copy, !.startedAt = clock]]
      BY <1>6 DEF InOrder, RunsInOrder
    <2>3. /\ loc' \in [Discoveries -> LoadedCopy]
          /\ \A e \in Discoveries : e # d => loc'[e] = loc[e]
          /\ loc'[d].copy = copy
      BY <1>1, <2>1, <2>2 DEF InOrder, RunsInOrder, LoadedCopy
    <2>4. RunsInOrder'
      BY <1>1, <1>5, <1>6, <2>3 DEF InOrder, RunsInOrder, Goto, InFlight
    <2>5. FileInOrder' /\ ListsInOrder'
      BY <1>5, <1>6, SameLists DEF InOrder, FileInOrder
    <2>6. Busy' = Busy
      BY <1>4, <1>6 DEF InOrder, RunsInOrder, Goto, Busy, InFlight
    <2>7. Heeded'
      <3>1. \A e \in Busy : loc'[e].copy.dismissed = loc[e].copy.dismissed
        BY <1>3, <2>3 DEF Busy
      <3> QED
        BY <1>5, <1>6, <2>6, <3>1 DEF InOrder, Heeded
    <2> QED
      BY <2>4, <2>5, <2>7 DEF InOrder
  <1>7. CASE Conclude(d, copy) /\ UNCHANGED lastSearch
    <2> HIDE DEF copy
    <2> QED
      BY <1>2, <1>3, <1>4, <1>5, <1>7, ConcludeInOrder
  <1> QED
    BY <1>6, <1>7 DEF Asked

LEMMA SearchedInOrder ==
  ASSUME InOrder, NEW d \in Discoveries, NEW found, Searched(d, found)
  PROVE  InOrder'
  <1> DEFINE l == loc[d]
             g == Proposed(l.copy, l.known, found)
             f == [g EXCEPT !.searched = l.startedAt]
  <1>1. l.copy \in OrderlyFiles /\ l.startedAt \in Times
    BY DEF InOrder, RunsInOrder, LoadedCopy
  <1>2. g \in OrderlyFiles /\ g.dismissed = l.copy.dismissed
    BY <1>1, ProposedOrderly, ProposedDismissed DEF OrderlyFiles
  <1>3. Conclude(d, f)
    BY DEF Searched
  <1> HIDE DEF g
  <1>4. f \in OrderlyFiles /\ f.dismissed = l.copy.dismissed
    BY <1>1, <1>2, SearchedOrderly DEF OrderlyFiles, SourcesFile
  <1> HIDE DEF f
  <1>5. d \in Busy
    BY DEF Searched, Busy, InFlight
  <1>6. UNCHANGED <<clock, lists, edits, aborts, refused, lastSearch, overwritten>>
    BY DEF Searched
  <1> QED
    BY <1>3, <1>4, <1>5, <1>6, ConcludeInOrder

LEMMA AbortInOrder ==
  ASSUME InOrder, NEW d \in Discoveries, Abort(d)
  PROVE  InOrder'
  <1>1. RunsInOrder'
    BY FinishInOrder, SourcesAssumption DEF InOrder, RunsInOrder, Abort
  <1>2. FileInOrder' /\ ListsInOrder'
    BY SameLists DEF InOrder, FileInOrder, Abort
  <1>3. Heeded'
    BY FinishInOrder DEF InOrder, Heeded, Abort
  <1> QED
    BY <1>1, <1>2, <1>3 DEF InOrder

LEMMA RestartInOrder == ASSUME InOrder, Restart PROVE InOrder'
  <1>1. loc' \in [Discoveries -> LoadedCopy]
    BY NothingLoaded DEF Restart
  <1>2. pc' \in [Discoveries -> {"idle", "over"} \cup InFlight]
    BY DEF Restart, InOrder, RunsInOrder
  <1>3. RunsInOrder'
    BY <1>1, <1>2, SourcesAssumption DEF InOrder, RunsInOrder, Restart
  <1>4. FileInOrder'
    BY DEF InOrder, FileInOrder, Restart
  <1>5. ListsInOrder'
    BY DEF InOrder, ListsInOrder, ApprovedStays, Restart
  <1>6. Busy' = {}
    BY DEF Restart, Busy, InFlight
  <1>7. Heeded'
    BY <1>6 DEF InOrder, Heeded, Restart
  <1> QED
    BY <1>3, <1>4, <1>5, <1>7 DEF InOrder

LEMMA StayInOrder ==
  ASSUME InOrder, UNCHANGED <<file, pc, loc, edits, aborts, faults, lists, ghosts>>,
         clock' \in 0..MaxClock
  PROVE  InOrder'
  <1>1. FileInOrder' /\ RunsInOrder' /\ ListsInOrder'
    BY SameLists DEF InOrder, FileInOrder, RunsInOrder, ghosts
  <1>2. Heeded'
    BY DEF InOrder, Heeded, Busy, ghosts
  <1> QED
    BY <1>1, <1>2 DEF InOrder

LEMMA NextInOrder == InOrder /\ [Next]_vars => InOrder'
  <1> SUFFICES ASSUME InOrder, [Next]_vars PROVE InOrder'
    OBVIOUS
  <1>1. CASE Tick
    BY <1>1, StayInOrder, SourcesAssumption DEF InOrder, RunsInOrder, Tick
  <1>2. CASE UNCHANGED vars
    BY <1>2, StayInOrder DEF InOrder, RunsInOrder, vars
  <1>3. CASE Discover
    BY <1>3, StartInOrder, AskedInOrder, SearchedInOrder, AbortInOrder, RestartInOrder
       DEF Discover
  <1> QED
    BY <1>1, <1>2, <1>3, EditInOrder DEF Next

LEMMA AlwaysInOrder == Spec => []InOrder
  BY InitInOrder, NextInOrder, PTL DEF Spec

(* The file, every copy of it and the raw lists keep their types.          *)
THEOREM TypeCorrect == Spec => []TypeOK
  <1>1. InOrder => TypeOK
    BY DEF InOrder, FileInOrder, RunsInOrder, ListsInOrder, TypeOK, LoadedCopy, OrderlyFiles
  <1> QED
    BY <1>1, AlwaysInOrder, PTL

(* No interleaving of discoveries and endpoints lists a candidate twice.   *)
THEOREM CandidatesUnique == Spec => []UniqueCandidates
  <1>1. InOrder => UniqueCandidates
    BY DEF InOrder, FileInOrder, RunsInOrder, UniqueCandidates, LoadedCopy, OrderlyFiles,
           Orderly
  <1> QED
    BY <1>1, AlwaysInOrder, PTL

(* ... or proposes in one file what the same file dismisses, whichever     *)
(* save fails.                                                             *)
THEOREM DismissedApart == Spec => []DismissedNotPending
  <1>1. InOrder => DismissedNotPending
    BY DEF InOrder, FileInOrder, RunsInOrder, DismissedNotPending, Pending, LoadedCopy,
           OrderlyFiles, Orderly
  <1> QED
    BY <1>1, AlwaysInOrder, PTL

(* A dismissal lasts: only an edit that falls into a discovery, or a save  *)
(* that cuts the file off, can make it come back.                          *)
THEOREM DismissalsLast == Spec => []RefusedStays
  <1>1. ASSUME InOrder, refused \subseteq file.dismissed
        PROVE  refused \cap Pending(file) = {}
    BY <1>1 DEF InOrder, FileInOrder, Pending, OrderlyFiles, Orderly
  <1>2. InOrder => RefusedStays
    BY <1>1 DEF InOrder, Heeded, RefusedStays
  <1> QED
    BY <1>2, AlwaysInOrder, PTL

(* An approved raw list outlives restarts, unless a save of config.json    *)
(* failed to keep it.                                                      *)
THEOREM ApprovalsLast == Spec => []ApprovedStays
  <1>1. InOrder => ApprovedStays
    BY DEF InOrder, ListsInOrder
  <1> QED
    BY <1>1, AlwaysInOrder, PTL

-------------------------------------------------------------------------------
(* GitHub is not searched too often *)

(* The inductive invariant: while nothing went wrong there is one          *)
(* discovery at a time, and the date of the last search is on file, in the *)
(* copy that will be saved, or is the one the search will save.            *)
Dated ==
  \/ disturbed \/ damaged
  \/ /\ \A d, e \in Busy : d = e
     /\ \A d \in Discoveries :
          /\ pc[d] = "asking" => loc[d].copy.searched = lastSearch
          /\ pc[d] = "searching" => loc[d].startedAt = lastSearch
     /\ (\A d \in Discoveries : pc[d] # "searching") => file.searched = lastSearch

(* What an endpoint does to the date on file.                              *)
DateStep == damaged' \/ (~damaged /\ file'.searched = file.searched)

LEMMA SaveKeepsDate ==
  ASSUME NEW f, f.searched = file.searched, NEW r, FileInOrder, Save(f, r)
  PROVE  DateStep
  <1>1. CASE file' = f /\ UNCHANGED damaged
    BY <1>1 DEF DateStep, FileInOrder
  <1>2. CASE SaveFails
    BY <1>2, FailedSave DEF DateStep
  <1> QED
    BY <1>1, <1>2 DEF Save

LEMMA EditKeepsDate ==
  ASSUME FileInOrder, Edit
  PROVE  DateStep /\ Edited
  <1>1. file \in SourcesFile
    BY DEF FileInOrder, OrderlyFiles
  <1>2. \A u \in Urls : /\ Without(file, u) \in SourcesFile
                        /\ Without(file, u).searched = file.searched
    BY <1>1 DEF Without, SourcesFile
  <1>3. ASSUME NEW u \in Urls \ RawUrls, AddSource(u) \/ RemoveSource(u) \/ ApproveSource(u)
        PROVE  DateStep
    <2>1. /\ [file EXCEPT !.sources[u] = @ + 1].searched = file.searched
          /\ [file EXCEPT !.sources[u] = @ - 1].searched = file.searched
          /\ [Without(file, u) EXCEPT !.sources[u] = @ + 1].searched = file.searched
      BY <1>1, <1>2 DEF SourcesFile
    <2> QED
      BY <1>3, <2>1, SaveKeepsDate DEF AddSource, RemoveSource, ApproveSource
  <1>4. ASSUME NEW u \in RawUrls, ApproveRaw(u) \/ ApproveRawFails(u)
        PROVE  DateStep
    <2>1. u \in Urls
      BY SourcesAssumption
    <2>2. [Without(file, u) EXCEPT !.dismissed = @ \ {u}].searched = file.searched
      BY <1>2, <2>1 DEF SourcesFile
    <2>3. CASE ApproveRaw(u)
      BY <2>2, <2>3 DEF ApproveRaw, DateStep, FileInOrder
    <2>4. CASE ApproveRawFails(u)
      BY <2>4, FailedSave DEF ApproveRawFails, DateStep, FileInOrder
    <2> QED
      BY <1>4, <2>3, <2>4
  <1>5. ASSUME NEW u \in Urls, Dismiss(u) PROVE DateStep
    <2>1. Dismissed(file, u).searched = file.searched
      BY <1>2 DEF Dismissed, SourcesFile
    <2> QED
      BY <1>5, <2>1, SaveKeepsDate DEF Dismiss
  <1>6. ASSUME NEW trackers \in SUBSET Manuals, SetManual(trackers) PROVE DateStep
    <2>1. [file EXCEPT !.manual = trackers].searched = file.searched
      BY <1>1 DEF SourcesFile
    <2> QED
      BY <1>6, <2>1, SaveKeepsDate DEF SetManual
  <1>7. CASE ClearDismissed
    <2>1. [file EXCEPT !.dismissed = {}].searched = file.searched
      BY <1>1 DEF SourcesFile
    <2> QED
      BY <1>7, <2>1, SaveKeepsDate DEF ClearDismissed
  <1>8. ASSUME NEW urls \in SUBSET RawUrls, SetTrackerUrls(urls) PROVE DateStep
    BY <1>8 DEF SetTrackerUrls, DateStep, FileInOrder
  <1>9. Edited
    BY DEF Edit, AddSource, RemoveSource, ApproveSource, ApproveRaw, ApproveRawFails,
           Dismiss, SetManual, SetTrackerUrls, ClearDismissed
  <1> QED
    BY <1>3, <1>4, <1>5, <1>6, <1>7, <1>8, <1>9 DEF Edit

LEMMA StartDated ==
  ASSUME InOrder, Dated, NEW d \in Discoveries, Start(d)
  PROVE  Dated'
  <1> SUFFICES ASSUME ~disturbed', ~damaged' PROVE Dated'
    BY DEF Dated
  <1>1. /\ ~disturbed /\ ~damaged /\ Busy = {}
        /\ lastSearch' = lastSearch /\ file' = file
    BY DEF Start, InOrder, RunsInOrder
  <1>2. file.searched = lastSearch
    BY <1>1 DEF Dated, Busy, InFlight
  <1>3. \A e \in Discoveries : pc'[e] = IF e = d THEN "asking" ELSE pc[e]
    BY DEF Start, Goto, InOrder, RunsInOrder
  <1>4. loc'[d].copy = file
    BY DEF Start, InOrder, RunsInOrder, NoLocals
  <1>5. Busy' = {d}
    BY <1>1, <1>3 DEF Busy, InFlight
  <1>6. \A e \in Discoveries : pc'[e] # "searching" /\ (pc'[e] = "asking" => e = d)
    BY <1>1, <1>3 DEF Busy, InFlight
  <1> QED
    BY <1>1, <1>2, <1>4, <1>5, <1>6 DEF Dated

(* The discovery that ends was alone, and leaves the date of the last      *)
(* search on file.                                                         *)
LEMMA ConcludeDated ==
  ASSUME InOrder, Dated, NEW d \in Busy, NEW f, Conclude(d, f), lastSearch' = lastSearch,
         disturbed \/ damaged \/ f.searched = lastSearch
  PROVE  Dated'
  <1> SUFFICES ASSUME ~disturbed', ~damaged' PROVE Dated'
    BY DEF Dated
  <1>1. file' = f /\ ~disturbed /\ ~damaged /\ f.searched = lastSearch
    BY DEF Conclude
  <1>2. Busy = {d}
    BY <1>1 DEF Dated
  <1>3. Busy' = Busy \ {d} /\ d \in Discoveries
    BY FinishInOrder DEF Conclude, InOrder, Busy
  <1>4. \A e \in Discoveries : pc'[e] \notin InFlight
    BY <1>2, <1>3 DEF Busy
  <1> QED
    BY <1>1, <1>2, <1>3, <1>4 DEF Dated, InFlight

LEMMA AskedDated ==
  ASSUME InOrder, Dated, NEW d \in Discoveries, NEW answered, Asked(d, answered)
  PROVE  Dated'
  <1> DEFINE l == loc[d]
             copy == Proposed(l.copy, l.known, answered \cup (WellKnown \ RawUrls))
  <1>1. pc[d] = "asking" /\ d \in Busy
    BY DEF Asked, Busy, InFlight
  <1>2. copy.searched = l.copy.searched
    BY DEF InOrder, RunsInOrder, LoadedCopy, OrderlyFiles, SourcesFile, Proposed
  <1>3. CASE /\ Goto(d, "searching")
             /\ loc' = [loc EXCEPT ![d].copy = copy, ![d].startedAt = clock]
             /\ lastSearch' = clock
             /\ UNCHANGED <<file, faults, damaged, disturbed>>
    <2> SUFFICES ASSUME ~disturbed', ~damaged' PROVE Dated'
      BY DEF Dated
    <2> HIDE DEF copy
    <2>1. Busy = {d}
      BY <1>1, <1>3 DEF Dated
    <2>2. \A e \in Discoveries : pc'[e] = IF e = d THEN "searching" ELSE pc[e]
      BY <1>3 DEF Goto, InOrder, RunsInOrder
    <2>3. loc'[d].startedAt = clock
      BY <1>3 DEF InOrder, RunsInOrder, LoadedCopy
    <2>4. Busy' = {d} /\ pc'[d] = "searching"
          /\ \A e \in Discoveries : e # d => pc'[e] \notin InFlight
      BY <2>1, <2>2 DEF Busy, InFlight
    <2> QED
      BY <1>3, <2>3, <2>4 DEF Dated, InFlight
  <1>4. CASE Conclude(d, copy) /\ UNCHANGED lastSearch
    <2> HIDE DEF copy
    <2> QED
      BY <1>1, <1>2, <1>4, ConcludeDated DEF Dated
  <1> QED
    BY <1>3, <1>4 DEF Asked

LEMMA SearchedDated ==
  ASSUME InOrder, Dated, NEW d \in Discoveries, NEW found, Searched(d, found)
  PROVE  Dated'
  <1> DEFINE l == loc[d]
             g == Proposed(l.copy, l.known, found)
             f == [g EXCEPT !.searched = l.startedAt]
  <1>1. pc[d] = "searching" /\ d \in Busy
    BY DEF Searched, Busy, InFlight
  <1>2. g \in SourcesFile
    BY ProposedOrderly DEF InOrder, RunsInOrder, LoadedCopy, OrderlyFiles
  <1>3. Conclude(d, f) /\ lastSearch' = lastSearch
    BY DEF Searched
  <1> HIDE DEF g
  <1>4. f.searched = l.startedAt
    BY <1>2 DEF SourcesFile
  <1> HIDE DEF f
  <1> QED
    BY <1>1, <1>3, <1>4, ConcludeDated DEF Dated

LEMMA NextDated == InOrder /\ Dated /\ [Next]_vars => Dated'
  <1> SUFFICES ASSUME InOrder, Dated, [Next]_vars PROVE Dated'
    OBVIOUS
  <1>1. CASE Edit
    <2>1. DateStep /\ UNCHANGED <<pc, loc, lastSearch, disturbed>>
      BY <1>1, EditKeepsDate DEF InOrder, Edited
    <2> QED
      BY <2>1 DEF DateStep, Dated, Busy
  <1>2. CASE Restart
    <2>1. \A d \in Discoveries : pc'[d] \notin InFlight
      BY <1>2 DEF Restart, Busy, InOrder, RunsInOrder, InFlight
    <2>2. disturbed' = (disturbed \/ Busy # {}) /\ UNCHANGED <<file, lastSearch, damaged>>
      BY <1>2 DEF Restart
    <2>3. disturbed' \/ damaged' \/ file.searched = lastSearch
      BY <2>2 DEF Dated, Busy, InFlight, InOrder, RunsInOrder
    <2> QED
      BY <2>1, <2>2, <2>3 DEF Dated, Busy, InFlight
  <1>3. ASSUME NEW d \in Discoveries, Abort(d) PROVE Dated'
    BY <1>3 DEF Abort, Dated
  <1>4. CASE Tick \/ UNCHANGED vars
    <2>1. UNCHANGED <<file, pc, loc, lastSearch, damaged, disturbed>>
      BY <1>4 DEF Tick, vars, ghosts
    <2> QED
      BY <2>1 DEF Dated, Busy
  <1> QED
    BY <1>1, <1>2, <1>3, <1>4, StartDated, AskedDated, SearchedDated DEF Next, Discover

(* Only a discovery that found itself eligible begins a search.            *)
LEMMA SearchEligible ==
  ASSUME InOrder, Dated, [Next]_vars, lastSearch' # lastSearch
  PROVE  \/ disturbed \/ damaged \/ lastSearch = NoTime
         \/ lastSearch' - lastSearch >= MinInterval
  <1>1. ~(Restart \/ Tick \/ UNCHANGED vars)
    BY DEF Restart, Tick, vars, ghosts
  <1>2. ~Edit
    BY EditKeepsDate DEF InOrder, Edited
  <1>3. PICK d \in Discoveries, answered \in SUBSET Urls : Asked(d, answered)
    BY <1>1, <1>2 DEF Next, Discover, Start, Searched, Abort
  <1> DEFINE l == loc[d]
             copy == Proposed(l.copy, l.known, answered \cup (WellKnown \ RawUrls))
  <1>4. pc[d] = "asking" /\ Eligible(copy, clock) /\ lastSearch' = clock
    BY <1>3 DEF Asked
  <1>5. copy.searched = l.copy.searched
    BY DEF InOrder, RunsInOrder, LoadedCopy, OrderlyFiles, SourcesFile, Proposed
  <1> HIDE DEF copy
  <1> QED
    BY <1>4, <1>5 DEF Dated, Eligible

(* discovery.py:7: GitHub is searched at most once per interval, whatever  *)
(* is edited in between, unless a discovery was cut short or overlapped    *)
(* another, or a failed save lost the date.                                *)
THEOREM SearchesSpaced == Spec => RateLimited
  <1>1. Init => Dated
    BY DEF Init, Dated, Busy, InFlight, Empty
  <1>2. InOrder /\ Dated /\ [Next]_vars =>
          [lastSearch' # lastSearch =>
             \/ disturbed \/ damaged \/ lastSearch = NoTime
             \/ lastSearch' - lastSearch >= MinInterval]_vars
    BY SearchEligible
  <1> QED
    BY <1>1, <1>2, InitInOrder, NextInOrder, NextDated, PTL DEF Spec, RateLimited
===============================================================================
