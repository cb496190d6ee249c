----------------------------- MODULE CollectProofs -----------------------------
(***************************************************************************)
(* For any number of collections, repositories and pushes, however the     *)
(* passes overwrite each other's cache: a listing is filed under a commit  *)
(* no newer than itself, so a pass that learned the newest commit of a     *)
(* repository never settles for files older than it.  And every step of a  *)
(* pass leaves it fewer.                                                   *)
(***************************************************************************)
EXTENDS Collect, FiniteSetTheorems, TLAPS

(* No entry is filed under a commit newer than what it lists.              *)
FreshCaches == {c \in Caches : \A r \in Repos : c[r].files >= c[r].sha}

FreshLocals == {l \in Locals : l.cache \in FreshCaches}

LEMMA NoneIsOlder == None \in Int /\ \A c \in Commits : c \in Int /\ None <= c
  BY CollectAssumption DEF None, Commits

LEMMA EmptyFresh == EmptyCache \in FreshCaches
  <1>1. EmptyCache \in Caches
    BY DEF EmptyCache, NoEntry, Caches, Entry
  <1>2. \A r \in Repos : EmptyCache[r].files = EmptyCache[r].sha
    BY DEF EmptyCache, NoEntry
  <1>3. \A r \in Repos : EmptyCache[r].sha \in Int
    BY NoneIsOlder DEF EmptyCache, NoEntry
  <1> QED
    BY <1>1, <1>2, <1>3 DEF FreshCaches

LEMMA NoLocalsFresh == NoLocals \in FreshLocals
  <1>1. EmptyCache \in Caches
    BY EmptyFresh DEF FreshCaches
  <1>2. NoLocals \in Locals
    BY <1>1 DEF NoLocals, Locals
  <1> QED
    BY <1>2, EmptyFresh DEF NoLocals, FreshLocals

-------------------------------------------------------------------------------
(* The invariant *)

Labels == {"idle", "over", "cut"} \cup InFlight

(* A pass that asks for a tree has seen a commit which the repository, and *)
(* thus the tree it will get, has not fallen behind.                       *)
CommitReached ==
  \A p \in Passes :
    pc[p] = "tree" => /\ loc[p].repo \in Repos
                      /\ loc[p].commit \in Commits
                      /\ loc[p].commit <= head[loc[p].repo]

Fresh ==
  /\ head \in [Repos -> Commits]
  /\ cacheFile \in FreshCaches
  /\ pc \in [Passes -> Labels]
  /\ loc \in [Passes -> FreshLocals]
  /\ CommitReached
  /\ CurrentListing

(* What a step must do to one pass, everything else staying as it is.      *)
LEMMA OnePass ==
  ASSUME Fresh, NEW p \in Passes, NEW l \in FreshLocals, NEW label \in Labels,
         head' = head, cacheFile' \in FreshCaches,
         pc' = [pc EXCEPT ![p] = label], loc' = [loc EXCEPT ![p] = l],
         label = "tree" => /\ l.repo \in Repos
                           /\ l.commit \in Commits /\ l.commit <= head[l.repo],
         label = "files" => l.fellBack \/ l.files >= l.commit
  PROVE  Fresh'
  <1>1. /\ pc'[p] = label /\ loc'[p] = l
        /\ \A q \in Passes \ {p} : pc'[q] = pc[q] /\ loc'[q] = loc[q]
    BY DEF Fresh
  <1>2. CommitReached'
    BY <1>1 DEF Fresh, CommitReached
  <1>3. CurrentListing'
    BY <1>1 DEF Fresh, CurrentListing
  <1> QED
    BY <1>2, <1>3 DEF Fresh

(* The repository served: its listing came from a fresh cache or the tree. *)
LEMMA ServeFresh ==
  ASSUME Fresh, NEW p \in Passes, NEW r \in Repos, NEW commit \in Commits \cup {None},
         NEW files \in Commits \cup {None}, NEW fellBack \in BOOLEAN,
         Serve(p, r, commit, files, fellBack), UNCHANGED <<head, cacheFile>>,
         fellBack \/ files >= commit
  PROVE  Fresh'
  <1> DEFINE l == [loc[p] EXCEPT !.repo = r, !.commit = commit, !.files = files,
                                 !.fellBack = fellBack]
  <1>1. loc[p] \in FreshLocals
    BY DEF Fresh
  <1>2. l \in FreshLocals /\ l.files = files /\ l.commit = commit /\ l.fellBack = fellBack
    BY <1>1 DEF FreshLocals, Locals
  <1>3. loc' = [loc EXCEPT ![p] = l]
    BY DEF Serve, Fresh
  <1>4. pc' = [pc EXCEPT ![p] = "files"] /\ "files" \in Labels
    BY DEF Serve, Goto, Labels, InFlight
  <1> HIDE DEF l
  <1> QED
    BY <1>2, <1>3, <1>4, OnePass DEF Fresh

LEMMA CommitFresh ==
  ASSUME Fresh, NEW p \in Passes, NEW r \in Repos,
         CommitUnknown(p, r) \/ CommitCached(p, r) \/ CommitNew(p, r)
  PROVE  Fresh'
  <1>1. loc[p] \in FreshLocals /\ head[r] \in Commits
    BY DEF Fresh
  <1>2. /\ loc[p].cache[r].files \in Commits \cup {None}
        /\ loc[p].cache[r].files >= loc[p].cache[r].sha
    BY <1>1 DEF FreshLocals, FreshCaches, Caches, Entry
  <1>3. CASE CommitUnknown(p, r)
    BY <1>2, <1>3, ServeFresh DEF CommitUnknown
  <1>4. CASE CommitCached(p, r)
    BY <1>1, <1>2, <1>4, ServeFresh DEF CommitCached
  <1>5. CASE CommitNew(p, r)
    <2> DEFINE l == [loc[p] EXCEPT !.repo = r, !.commit = head[r]]
    <2>1. l \in FreshLocals /\ l.repo = r /\ l.commit = head[r]
      BY <1>1 DEF FreshLocals, Locals
    <2>2. loc' = [loc EXCEPT ![p] = l] /\ pc' = [pc EXCEPT ![p] = "tree"]
      BY <1>5 DEF CommitNew, Goto, Fresh
    <2>3. "tree" \in Labels /\ head[r] <= head[r]
      BY <1>1, NoneIsOlder DEF Labels, InFlight
    <2> HIDE DEF l
    <2> QED
      BY <1>1, <1>5, <2>1, <2>2, <2>3, OnePass DEF CommitNew, Fresh
  <1> QED
    BY <1>3, <1>4, <1>5

LEMMA TreeFresh ==
  ASSUME Fresh, NEW p \in Passes, TreeRead(p) \/ TreeFails(p)
  PROVE  Fresh'
  <1> DEFINE r == loc[p].repo
  <1>1. /\ loc[p] \in FreshLocals
        /\ r \in Repos /\ loc[p].commit \in Commits /\ loc[p].commit <= head[r]
        /\ head[r] \in Commits
    BY DEF Fresh, CommitReached, TreeRead, TreeFails
  <1>2. loc[p].cache[r].files \in Commits \cup {None}
    BY <1>1 DEF FreshLocals, FreshCaches, Caches, Entry
  <1>3. CASE TreeFails(p)
    BY <1>1, <1>2, <1>3, ServeFresh DEF TreeFails
  <1>4. CASE TreeRead(p)
    <2> DEFINE entry == [sha |-> loc[p].commit, files |-> head[r]]
               cache == [loc[p].cache EXCEPT ![r] = entry]
               l == [loc[p] EXCEPT !.cache = cache, !.files = head[r], !.fellBack = FALSE]
    <2>1. entry \in Entry /\ entry.files >= entry.sha
      BY <1>1, NoneIsOlder DEF Entry
    <2>2. loc[p].cache \in FreshCaches
      BY <1>1 DEF FreshLocals
    <2>3. cache \in Caches
      BY <2>1, <2>2 DEF FreshCaches, Caches
    <2>4. \A s \in Repos : cache[s] = IF s = r THEN entry ELSE loc[p].cache[s]
      BY <2>2 DEF FreshCaches, Caches
    <2>5. cache \in FreshCaches
      BY <2>1, <2>2, <2>3, <2>4 DEF FreshCaches
    <2> HIDE DEF cache, entry
    <2>6. l \in FreshLocals /\ l.files = head[r] /\ l.commit = loc[p].commit
      BY <1>1, <2>3, <2>5 DEF FreshLocals, Locals
    <2>7. loc' = [loc EXCEPT ![p] = l] /\ pc' = [pc EXCEPT ![p] = "files"]
      BY <1>4 DEF TreeRead, Goto, Fresh, cache, entry
    <2>8. "files" \in Labels /\ head[r] >= loc[p].commit
      BY <1>1, NoneIsOlder DEF Labels, InFlight
    <2> HIDE DEF l
    <2> QED
      BY <1>1, <1>4, <2>6, <2>7, <2>8, OnePass DEF TreeRead, Fresh
  <1> QED
    BY <1>3, <1>4

LEMMA ListsFresh ==
  ASSUME Fresh, NEW p \in Passes,
         FetchRawLists(p) \/ Download(p) \/ Complete(p)
  PROVE  Fresh'
  <1>1. loc[p] \in FreshLocals /\ loc[p].cache \in FreshCaches
    BY DEF Fresh, FreshLocals
  <1>2. /\ "websites" \in Labels /\ "commit" \in Labels /\ "over" \in Labels
    BY DEF Labels, InFlight
  <1>3. CASE FetchRawLists(p)
    <2> DEFINE l == [loc[p] EXCEPT !.cache = cacheFile]
    <2>1. l \in FreshLocals
      BY <1>1 DEF Fresh, FreshLocals, FreshCaches, Locals
    <2>2. PICK label \in {"websites", "commit"} :
            loc' = [loc EXCEPT ![p] = l] /\ pc' = [pc EXCEPT ![p] = label]
      BY <1>3 DEF FetchRawLists, Goto, Fresh
    <2> HIDE DEF l
    <2> QED
      BY <1>2, <1>3, <2>1, <2>2, OnePass DEF FetchRawLists, Fresh
  <1>4. CASE Download(p)
    <2> DEFINE l == [loc[p] EXCEPT !.todo = loc[p].todo \ {loc[p].repo}]
    <2>1. l \in FreshLocals
      BY <1>1 DEF FreshLocals, Locals
    <2>2. loc' = [loc EXCEPT ![p] = l]
      BY <1>4 DEF Download, Fresh
    <2>3. PICK label \in {"websites", "commit"} : pc' = [pc EXCEPT ![p] = label]
      BY <1>4 DEF Download, Goto
    <2>4. cacheFile' \in FreshCaches /\ head' = head
      BY <1>1, <1>4, EmptyFresh DEF Download, Fresh
    <2> HIDE DEF l
    <2> QED
      BY <1>2, <2>1, <2>2, <2>3, <2>4, OnePass
  <1>5. CASE Complete(p)
    <2>1. loc' = [loc EXCEPT ![p] = loc[p]] /\ pc' = [pc EXCEPT ![p] = "over"]
      BY <1>5 DEF Complete, Goto, Fresh
    <2> QED
      BY <1>1, <1>2, <1>5, <2>1, OnePass DEF Complete, Fresh
  <1> QED
    BY <1>3, <1>4, <1>5

LEMMA AroundFresh ==
  ASSUME Fresh, NEW p \in Passes, Start(p) \/ Abort(p)
  PROVE  Fresh'
  <1>1. CASE Start(p)
    <2>1. loc[p] \in FreshLocals /\ loc' = [loc EXCEPT ![p] = loc[p]]
      BY <1>1 DEF Start, Fresh
    <2> QED
      BY <1>1, <2>1, OnePass DEF Start, Goto, Fresh, Labels, InFlight
  <1>2. CASE Abort(p)
    BY <1>2, NoLocalsFresh, OnePass DEF Abort, Goto, Fresh, Labels
  <1> QED
    BY <1>1, <1>2

(* A push moves a repository on, never back.                               *)
LEMMA PushFresh ==
  ASSUME Fresh, NEW r \in Repos, Push(r)
  PROVE  Fresh'
  <1>1. head' \in [Repos -> Commits]
    BY CollectAssumption DEF Fresh, Push, Commits
  <1>2. \A s \in Repos : head[s] \in Commits /\ head'[s] \in Commits /\ head[s] <= head'[s]
    BY <1>1 DEF Fresh, Push, Commits
  <1>3. CommitReached'
    BY <1>2 DEF Fresh, CommitReached, Push, Commits
  <1>4. CurrentListing'
    BY DEF Fresh, CurrentListing, Push
  <1> QED
    BY <1>1, <1>3, <1>4 DEF Fresh, Push

LEMMA NextFresh == Fresh /\ [Next]_vars => Fresh'
  <1>1. ASSUME Fresh, UNCHANGED vars PROVE Fresh'
    BY <1>1 DEF Fresh, CommitReached, CurrentListing, vars
  <1> QED
    BY <1>1, CommitFresh, TreeFresh, ListsFresh, AroundFresh, PushFresh DEF Next, Step

LEMMA InitFresh == Init => Fresh
  <1> SUFFICES ASSUME Init PROVE Fresh
    OBVIOUS
  <1>1. head \in [Repos -> Commits]
    BY CollectAssumption DEF Init, Commits
  <1> QED
    BY <1>1, EmptyFresh, NoLocalsFresh
       DEF Init, Fresh, Labels, CommitReached, CurrentListing

LEMMA AlwaysFresh == Spec => []Fresh
  BY InitFresh, NextFresh, PTL DEF Spec

(* Every variable keeps its type.                                          *)
THEOREM TypeCorrect == Spec => []TypeOK
  <1>1. Fresh => TypeOK
    BY DEF Fresh, TypeOK, FreshLocals, FreshCaches, Labels
  <1> QED
    BY <1>1, AlwaysFresh, PTL

(* A pass that knows a repository's newest commit uses files as new as it. *)
THEOREM ListingCurrent == Spec => []CurrentListing
  <1>1. Fresh => CurrentListing
    BY DEF Fresh
  <1> QED
    BY <1>1, AlwaysFresh, PTL

-------------------------------------------------------------------------------
(* What a pass has left to do *)

(* A repository that a pass is busy with is still on its list.             *)
Busy(p) ==
  LET l == loc[p]
  IN /\ pc[p] \in {"idle", "lists"} => l.todo = Repos
     /\ pc[p] = "commit" => l.todo # {}
     /\ pc[p] \in {"tree", "files"} => l.repo \in l.todo

OnList == \A p \in Passes : Busy(p)

ListInv == Fresh /\ OnList

LEMMA TodoType == Fresh => \A p \in Passes : loc[p].todo \subseteq Repos
  BY DEF Fresh, FreshLocals, Locals

(* The steps of another pass, and pushes, leave a pass as it is.           *)
LEMMA OnlyMover ==
  ASSUME ListInv, Next
  PROVE  \/ UNCHANGED <<pc, loc>>
         \/ \E p \in Passes :
              /\ Start(p) \/ Step(p) \/ Abort(p)
              /\ \A q \in Passes \ {p} : pc'[q] = pc[q] /\ loc'[q] = loc[q]
  <1>1. ASSUME NEW r \in Repos, Push(r) PROVE UNCHANGED <<pc, loc>>
    BY <1>1 DEF Push
  <1>2. ASSUME NEW p \in Passes, Start(p) \/ Step(p) \/ Abort(p)
        PROVE  \A q \in Passes \ {p} : pc'[q] = pc[q] /\ loc'[q] = loc[q]
    BY <1>2 DEF Start, Step, Abort, FetchRawLists, Download, Complete, CommitUnknown,
                CommitCached, CommitNew, Serve, TreeRead, TreeFails, Goto, ListInv, Fresh
  <1> QED
    BY <1>1, <1>2 DEF Next

(* Where the step of a pass takes it, and what becomes of its list.        *)
Course(p) ==
  \/ /\ pc[p] = "idle" /\ pc'[p] = "lists" /\ loc'[p].todo = loc[p].todo
  \/ /\ pc[p] = "lists" /\ pc'[p] = (IF Repos = {} THEN "websites" ELSE "commit")
     /\ loc'[p].todo = loc[p].todo
  \/ /\ pc[p] = "commit" /\ pc'[p] \in {"tree", "files"}
     /\ loc'[p].repo \in loc[p].todo /\ loc'[p].todo = loc[p].todo
  \/ /\ pc[p] = "tree" /\ pc'[p] = "files"
     /\ loc'[p].repo = loc[p].repo /\ loc'[p].todo = loc[p].todo
  \/ /\ pc[p] = "files" /\ loc'[p].todo = loc[p].todo \ {loc[p].repo}
     /\ pc'[p] = (IF loc'[p].todo = {} THEN "websites" ELSE "commit")
  \/ pc[p] = "websites" /\ pc'[p] = "over"
  \/ pc[p] \in InFlight /\ pc'[p] = "cut"

LEMMA StepsCourse ==
  ASSUME ListInv, NEW p \in Passes, Start(p) \/ Step(p) \/ Abort(p)
  PROVE  Course(p)
  <1>0. loc[p] \in Locals /\ pc \in [Passes -> Labels] /\ loc \in [Passes -> FreshLocals]
    BY DEF ListInv, Fresh, FreshLocals
  <1>1. CASE Start(p)
    BY <1>0, <1>1 DEF Start, Goto, Course
  <1>2. CASE FetchRawLists(p)
    BY <1>0, <1>2 DEF FetchRawLists, Goto, Course, Locals
  <1>3. CASE \E r \in Repos : CommitUnknown(p, r) \/ CommitCached(p, r) \/ CommitNew(p, r)
    <2> PICK r \in Repos : CommitUnknown(p, r) \/ CommitCached(p, r) \/ CommitNew(p, r)
      BY <1>3
    <2>1. /\ pc[p] = "commit" /\ r \in loc[p].todo
          /\ pc'[p] \in {"tree", "files"}
      BY <1>0 DEF CommitUnknown, CommitCached, CommitNew, Serve, Goto
    <2>2. loc'[p].repo = r /\ loc'[p].todo = loc[p].todo
      BY <1>0 DEF CommitUnknown, CommitCached, CommitNew, Serve, Locals
    <2> QED
      BY <2>1, <2>2 DEF Course
  <1>4. CASE TreeRead(p) \/ TreeFails(p)
    <2>1. pc[p] = "tree" /\ pc'[p] = "files"
      BY <1>0, <1>4 DEF TreeRead, TreeFails, Serve, Goto
    <2>2. loc'[p].repo = loc[p].repo /\ loc'[p].todo = loc[p].todo
      BY <1>0, <1>4 DEF TreeRead, TreeFails, Serve, Locals
    <2> QED
      BY <2>1, <2>2 DEF Course
  <1>5. CASE Download(p)
    <2>1. pc[p] = "files" /\ loc'[p].todo = loc[p].todo \ {loc[p].repo}
      BY <1>0, <1>5 DEF Download, Locals
    <2>2. pc'[p] = (IF loc[p].todo \ {loc[p].repo} = {} THEN "websites" ELSE "commit")
      BY <1>0, <1>5 DEF Download, Goto
    <2> QED
      BY <2>1, <2>2 DEF Course
  <1>6. CASE Complete(p)
    BY <1>0, <1>6 DEF Complete, Goto, Course
  <1>7. CASE Abort(p)
    BY <1>0, <1>7 DEF Abort, Goto, Course
  <1> QED
    BY <1>1, <1>2, <1>3, <1>4, <1>5, <1>6, <1>7 DEF Step

LEMMA CourseBusy ==
  ASSUME ListInv, NEW p \in Passes, Course(p)
  PROVE  Busy(p)'
  BY DEF ListInv, OnList, Busy, Course

LEMMA ListKept == ListInv /\ [Next]_vars => ListInv'
  <1> SUFFICES ASSUME ListInv, [Next]_vars PROVE OnList'
    BY NextFresh DEF ListInv
  <1>1. CASE UNCHANGED <<pc, loc>>
    BY <1>1 DEF ListInv, OnList, Busy
  <1>2. ASSUME NEW p \in Passes, Start(p) \/ Step(p) \/ Abort(p),
               \A q \in Passes \ {p} : pc'[q] = pc[q] /\ loc'[q] = loc[q]
        PROVE  OnList'
    <2>1. Busy(p)'
      BY <1>2, StepsCourse, CourseBusy
    <2>2. \A q \in Passes \ {p} : Busy(q)'
      BY <1>2 DEF ListInv, OnList, Busy
    <2> QED
      BY <2>1, <2>2 DEF OnList
  <1> QED
    BY <1>1, <1>2, OnlyMover DEF vars

LEMMA AlwaysOnList == Spec => []ListInv
  <1>1. Init => OnList
    BY DEF Init, NoLocals, OnList, Busy
  <1> QED
    BY <1>1, InitFresh, ListKept, PTL DEF Spec, ListInv

(* How many steps pass p has left at most: three for each repository it    *)
(* has yet to serve, and those before and after them.                      *)
Left(p) ==
  LET due == 3 * Cardinality(loc[p].todo)
  IN CASE pc[p] = "idle"     -> due + 3
       [] pc[p] = "lists"    -> due + 2
       [] pc[p] = "commit"   -> due + 1
       [] pc[p] = "tree"     -> due
       [] pc[p] = "files"    -> due - 1
       [] pc[p] = "websites" -> 1
       [] OTHER              -> 0

(* A pass serves each repository once, and never comes back to one whose   *)
(* listing it could not get: whatever fails and whatever is pushed, every  *)
(* step it takes brings it nearer to its end.                              *)
PassRunsDown ==
  [][\A p \in Passes : pc'[p] # pc[p] => Left(p)' \in 0..(Left(p) - 1)]_vars

(* The cardinalities that the measure is made of.                          *)
LEMMA Served ==
  ASSUME NEW todo \in SUBSET Repos, NEW r \in todo
  PROVE  /\ Cardinality(todo) \in Nat \ {0}
         /\ Cardinality(todo \ {r}) = Cardinality(todo) - 1
  <1>1. IsFiniteSet(todo)
    BY CollectAssumption, FS_Subset
  <1> QED
    BY <1>1, FS_RemoveElement, FS_CardinalityType, FS_EmptySet

LEMMA TodoCounts ==
  ASSUME NEW todo \in SUBSET Repos
  PROVE  Cardinality(todo) \in Nat
  BY CollectAssumption, FS_Subset, FS_CardinalityType

LEMMA CourseRunsDown ==
  ASSUME ListInv, NEW p \in Passes, Course(p)
  PROVE  Left(p)' \in 0..(Left(p) - 1)
  <1> DEFINE todo == loc[p].todo
             n == Cardinality(todo)
  <1>1. todo \in SUBSET Repos /\ n \in Nat
    BY TodoType, TodoCounts DEF ListInv
  <1>2. /\ pc[p] \in {"tree", "files"} => loc[p].repo \in todo
        /\ pc[p] = "commit" => todo # {}
    BY DEF ListInv, OnList, Busy
  <1>3. todo # {} => n \in Nat \ {0}
    BY <1>1, Served
  <1>4. CASE pc[p] = "files" /\ pc'[p] \in {"commit", "websites"}
             /\ loc'[p].todo = todo \ {loc[p].repo}
    <2>1. Cardinality(loc'[p].todo) = n - 1 /\ n \in Nat \ {0}
      BY <1>1, <1>2, <1>4, Served
    <2>2. Left(p) = 3 * n - 1 /\ Left(p)' \in {3 * (n - 1) + 1, 1}
      BY <1>4, <2>1 DEF Left
    <2> QED
      BY <2>1, <2>2
  <1>5. CASE pc[p] \in InFlight /\ pc'[p] \in {"over", "cut"}
    <2>1. Left(p)' = 0
      BY <1>5 DEF Left
    <2>2. Left(p) \in Nat \ {0}
      BY <1>1, <1>2, <1>3, <1>5 DEF Left, InFlight
    <2> QED
      BY <2>1, <2>2
  <1>6. CASE pc[p] \in {"idle", "lists", "commit", "tree"} /\ loc'[p].todo = todo
             /\ Course(p) /\ pc'[p] # "cut"
    <2>1. Cardinality(loc'[p].todo) = n
      BY <1>6
    <2>2. CASE pc[p] = "idle" /\ pc'[p] = "lists"
      BY <1>1, <2>1, <2>2 DEF Left
    <2>3. CASE pc[p] = "lists" /\ pc'[p] \in {"commit", "websites"}
      BY <1>1, <2>1, <2>3 DEF Left
    <2>4. CASE pc[p] = "commit" /\ pc'[p] \in {"tree", "files"}
      BY <1>1, <1>2, <1>3, <2>1, <2>4 DEF Left
    <2>5. CASE pc[p] = "tree" /\ pc'[p] = "files"
      BY <1>1, <1>2, <1>3, <2>1, <2>5 DEF Left
    <2> QED
      BY <1>6, <2>2, <2>3, <2>4, <2>5 DEF Course
  <1> QED
    BY <1>4, <1>5, <1>6 DEF Course, InFlight

(* A pass takes at most three steps for each repository and three more:    *)
(* with the timeout on its requests, it comes to an end.                   *)
THEOREM PassesRunOut == Spec => PassRunsDown
  <1>1. ASSUME ListInv, [Next]_vars, NEW p \in Passes, pc'[p] # pc[p]
        PROVE  Left(p)' \in 0..(Left(p) - 1)
    <2>1. Start(p) \/ Step(p) \/ Abort(p)
      BY <1>1, OnlyMover DEF vars
    <2> QED
      BY <1>1, <2>1, StepsCourse, CourseRunsDown
  <1>2. ListInv /\ [Next]_vars =>
          [\A p \in Passes : pc'[p] # pc[p] => Left(p)' \in 0..(Left(p) - 1)]_vars
    BY <1>1
  <1> QED
    BY <1>2, AlwaysOnList, PTL DEF Spec, PassRunsDown
===============================================================================
