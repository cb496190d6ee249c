-------------------------------- MODULE Collect -------------------------------
(***************************************************************************)
(* The collection of app/core/collect.py: one pass over raw lists, GitHub  *)
(* repositories, websites and manual entries, and the cache of repository  *)
(* listings, keyed by commit SHA, that passes share.                       *)
(*                                                                         *)
(* A pass loads the cache file once, asks about one repository after the   *)
(* other, and saves its copy after the last.  Between the question for a   *)
(* repository's newest commit and the one for its tree, somebody may push. *)
(***************************************************************************)
EXTENDS Integers, FiniteSets

CONSTANTS
  Repos,       \* configured GitHub repositories
  Passes,      \* identities of collections; each is started once
  MaxPushes    \* bound on pushes to a repository

ASSUME CollectAssumption == IsFiniteSet(Repos) /\ MaxPushes \in Nat

VARIABLES
  head,        \* external: the number of the newest commit of a repository
  cacheFile,   \* github-cache.json
  pc,          \* where each pass is suspended
  loc          \* its local variables

vars == <<head, cacheFile, pc, loc>>

-------------------------------------------------------------------------------
(* State *)

Commits == 0..MaxPushes

None == -1

(* files is the commit whose .txt files are listed.                        *)
Entry == [sha : Commits \cup {None}, files : Commits \cup {None}]

NoEntry == [sha |-> None, files |-> None]

Caches == [Repos -> Entry]

EmptyCache == [r \in Repos |-> NoEntry]

(* commit: the one a pass learned for its repository; fellBack: no newer   *)
(* listing than the cached one could be had.                               *)
Locals ==
  [cache : Caches, todo : SUBSET Repos, repo : Repos \cup {None},
   commit : Commits \cup {None}, files : Commits \cup {None}, fellBack : BOOLEAN]

NoLocals ==
  [cache |-> EmptyCache, todo |-> Repos, repo |-> None, commit |-> None,
   files |-> None, fellBack |-> FALSE]

InFlight == {"lists", "commit", "tree", "files", "websites"}

TypeOK ==
  /\ head \in [Repos -> Commits]
  /\ cacheFile \in Caches
  /\ pc \in [Passes -> {"idle", "over", "cut"} \cup InFlight]
  /\ loc \in [Passes -> Locals]

Init ==
  /\ head = [r \in Repos |-> 0]
  /\ cacheFile = EmptyCache
  /\ pc = [p \in Passes |-> "idle"]
  /\ loc = [p \in Passes |-> NoLocals]

-------------------------------------------------------------------------------
(* One pass *)

Goto(p, label) == pc' = [pc EXCEPT ![p] = label]

Start(p) ==
  /\ pc[p] = "idle"
  /\ Goto(p, "lists")
  /\ UNCHANGED <<head, cacheFile, loc>>

(* A list that cannot be downloaded is left out with a warning, here and   *)
(* with the other sources; what trackers they list is not modelled.        *)
FetchRawLists(p) ==
  /\ pc[p] = "lists"
  /\ loc' = [loc EXCEPT ![p].cache = cacheFile]
  /\ Goto(p, IF Repos = {} THEN "websites" ELSE "commit")
  /\ UNCHANGED <<head, cacheFile>>

(* Pass p will download files of repository r.                             *)
Serve(p, r, commit, files, fellBack) ==
  /\ Goto(p, "files")
  /\ loc' = [loc EXCEPT ![p].repo = r, ![p].commit = commit, ![p].files = files,
                        ![p].fellBack = fellBack]

(* Rate-limited or unreachable: what the cache lists, if anything.         *)
CommitUnknown(p, r) ==
  /\ pc[p] = "commit"
  /\ r \in loc[p].todo
  /\ Serve(p, r, None, loc[p].cache[r].files, TRUE)
  /\ UNCHANGED <<head, cacheFile>>

CommitCached(p, r) ==
  /\ pc[p] = "commit"
  /\ r \in loc[p].todo
  /\ loc[p].cache[r].sha = head[r]
  /\ Serve(p, r, head[r], loc[p].cache[r].files, FALSE)
  /\ UNCHANGED <<head, cacheFile>>

CommitNew(p, r) ==
  /\ pc[p] = "commit"
  /\ r \in loc[p].todo
  /\ loc[p].cache[r].sha # head[r]
  /\ loc' = [loc EXCEPT ![p].repo = r, ![p].commit = head[r]]
  /\ Goto(p, "tree")
  /\ UNCHANGED <<head, cacheFile>>

(* Faulty variant: the listing is cached without the commit it belongs to. *)
TreeReadBare(p) ==
  LET r == loc[p].repo
  IN /\ pc[p] = "tree"
     /\ Goto(p, "files")
     /\ loc' = [loc EXCEPT ![p].cache[r] = [files |-> head[r]],
                           ![p].files = head[r], ![p].fellBack = FALSE]
     /\ UNCHANGED <<head, cacheFile>>

(* The tree is that of HEAD, which may have moved on since.                *)
TreeRead(p) ==
  LET r     == loc[p].repo
      entry == [sha |-> loc[p].commit, files |-> head[r]]
  IN /\ pc[p] = "tree"
     /\ Goto(p, "files")
     /\ loc' = [loc EXCEPT ![p].cache[r] = entry, ![p].files = head[r],
                           ![p].fellBack = FALSE]
     /\ UNCHANGED <<head, cacheFile>>

(* Faulty variant: the old listing is filed under the new commit.          *)
TreeFailsFiled(p) ==
  LET r == loc[p].repo
  IN /\ pc[p] = "tree"
     /\ Goto(p, "files")
     /\ loc' = [loc EXCEPT ![p].cache[r].sha = loc[p].commit,
                           ![p].files = loc[p].cache[r].files, ![p].fellBack = TRUE]
     /\ UNCHANGED <<head, cacheFile>>

TreeFails(p) ==
  /\ pc[p] = "tree"
  /\ Serve(p, loc[p].repo, loc[p].commit, loc[p].cache[loc[p].repo].files, TRUE)
  /\ UNCHANGED <<head, cacheFile>>

(* Faulty variant: a repository without any listing stays on the list.     *)
DownloadAgain(p) ==
  LET todo == IF loc[p].files = None THEN loc[p].todo ELSE loc[p].todo \ {loc[p].repo}
  IN /\ pc[p] = "files"
     /\ loc' = [loc EXCEPT ![p].todo = todo]
     /\ \/ /\ todo # {}
           /\ Goto(p, "commit")
           /\ UNCHANGED cacheFile
        \/ /\ todo = {}
           /\ Goto(p, "websites")
           /\ cacheFile' \in {cacheFile, loc[p].cache, EmptyCache}
     /\ UNCHANGED head

(* The files were downloaded.  After the last repository the cache is      *)
(* saved; a write that fails is ignored, and one cut short leaves a file   *)
(* that is read as empty.                                                  *)
Download(p) ==
  LET todo == loc[p].todo \ {loc[p].repo}
  IN /\ pc[p] = "files"
     /\ loc' = [loc EXCEPT ![p].todo = todo]
     /\ \/ /\ todo # {}
           /\ Goto(p, "commit")
           /\ UNCHANGED cacheFile
        \/ /\ todo = {}
           /\ Goto(p, "websites")
           /\ cacheFile' \in {cacheFile, loc[p].cache, EmptyCache}
     /\ UNCHANGED head

(* Websites and manual entries complete the pool, which is then cleaned.   *)
Complete(p) ==
  /\ pc[p] = "websites"
  /\ Goto(p, "over")
  /\ UNCHANGED <<head, cacheFile, loc>>

Abort(p) ==
  /\ pc[p] \in InFlight
  /\ Goto(p, "cut")
  /\ loc' = [loc EXCEPT ![p] = NoLocals]
  /\ UNCHANGED <<head, cacheFile>>

Push(r) ==
  /\ head[r] < MaxPushes
  /\ head' = [head EXCEPT ![r] = @ + 1]
  /\ UNCHANGED <<cacheFile, pc, loc>>

Step(p) ==
  \/ FetchRawLists(p) \/ Download(p) \/ Complete(p)
  \/ \E r \in Repos : CommitUnknown(p, r) \/ CommitCached(p, r) \/ CommitNew(p, r)
  \/ TreeRead(p) \/ TreeFails(p)

Next ==
  \/ \E p \in Passes : Start(p) \/ Step(p) \/ Abort(p)
  \/ \E r \in Repos : Push(r)

Spec == Init /\ [][Next]_vars

(* Every request of a pass has a timeout.                                  *)
FairSpec == Spec /\ \A p \in Passes : WF_vars(Step(p))

-------------------------------------------------------------------------------
(* Properties *)

(* A pass that learned a repository's newest commit, and did not have to   *)
(* fall back, downloads a listing at least as new: however passes share    *)
(* and overwrite the cache, a listing is never filed under a commit newer  *)
(* than itself.                                                            *)
CurrentListing ==
  \A p \in Passes :
    pc[p] = "files" => loc[p].fellBack \/ loc[p].files >= loc[p].commit

(* Every pass comes to an end, whatever fails on its way.                  *)
PassEnds == \A p \in Passes : pc[p] = "lists" ~> pc[p] \in {"over", "cut"}
===============================================================================
