----------------------------- MODULE TrackerPing ------------------------------
(***************************************************************************)
(* The TrackerPing pipeline of app/core/run.py, run by run, over the files *)
(* it shares with every other run and with the wake endpoints.             *)
(*                                                                         *)
(* The process is one asyncio thread: the code between two network awaits  *)
(* is one atomic action, and another run, an endpoint, an abort or a crash *)
(* may come between any two actions.  A run reads the sleep file before    *)
(* its pings and writes the file from that old copy after them, which is   *)
(* where most of what can go wrong here comes from.                        *)
(***************************************************************************)
EXTENDS Sequences, SleepState

CONSTANTS
  UdpTrackers,     \* the trackers with a udp:// URL, skipped behind a proxy
  Runs,            \* identities of TrackerPing runs; each is started once
  Deployments,     \* what start-up may find: credentials and VPN check
  PriorFailures,   \* failure counts an earlier process may have left on disk
  HistoryDays,     \* retention of the history, in ticks
  MaxClock,        \* bound on the clock
  Overlap,         \* may a run start while another is in flight?
  TornSaves        \* may a file write fail, or be cut short by a crash?

VpnChecks == {"off", "protected", "unchecked", "leaking", "unreachable"}

Envs == [creds : BOOLEAN, vpn : VpnChecks]

ASSUME PipelineAssumption ==
  /\ UdpTrackers \subseteq Trackers
  /\ Deployments \subseteq Envs
  /\ PriorFailures \subseteq Nat
  /\ HistoryDays \in Nat \ {0}
  /\ MaxClock \in Nat
  /\ Overlap \in BOOLEAN
  /\ TornSaves \in BOOLEAN

VARIABLES
  clock,
  env,             \* what the last start-up found
  sleepFile,       \* tracker-sleep.json
  history,         \* tracker-history.json: newest-first results per tracker
  totalRuns,       \* its meta.total_runs
  knownFile,       \* known-trackers-cache.json
  qbt,             \* external: qBittorrent's add_trackers preference
  pc,              \* where each run is suspended
  loc,             \* the local variables of each run
  downs,           \* ghost: how often each tracker was found DOWN
  streak,          \* ghost: ... since it was last found UP
  calm,            \* ghost: no run started beside another, no write failed
  tally            \* ghost: the failures the sleep file should hold, if known

files == <<sleepFile, history, totalRuns, knownFile>>
charges == <<downs, streak>>
ghosts == <<charges, calm, tally>>
vars == <<clock, env, files, qbt, pc, loc, ghosts>>

-------------------------------------------------------------------------------
(* State *)

InFlight ==
  {"collecting", "pinging", "measuring", "login", "inject", "injected", "verify"}

(* "cut": aborted, or lost with its process.                               *)
Over == {"done", "failed", "cut"}

Locals ==
  [noUdp : BOOLEAN, pool : SUBSET Trackers, snap : SleepStates,
   active : SUBSET Trackers, passed : SUBSET Trackers]

NoLocals ==
  [noUdp |-> FALSE, pool |-> {}, snap |-> NoSleep, active |-> {}, passed |-> {}]

Result == [ts : Nat, up : BOOLEAN]

NoHistory == [x \in Trackers |-> <<>>]

Busy == {r \in Runs : pc[r] \in InFlight}

(* Runs that carry a copy of the sleep file which they will write back.    *)
Holding == {r \in Runs : pc[r] \in {"pinging", "measuring"}}

Unknown == -1

CoreTypeOK ==
  /\ clock \in 0..MaxClock
  /\ env \in Deployments
  /\ sleepFile \in SleepStates
  /\ totalRuns \in Nat
  /\ knownFile \subseteq Trackers
  /\ qbt \subseteq Trackers
  /\ pc \in [Runs -> {"idle"} \cup InFlight \cup Over]
  /\ loc \in [Runs -> Locals]
  /\ downs \in [Trackers -> Nat]
  /\ streak \in [Trackers -> Nat]
  /\ calm \in BOOLEAN
  /\ tally \in [Trackers -> Nat \cup {Unknown}]

TypeOK == CoreTypeOK /\ history \in [Trackers -> Seq(Result)]

(* An earlier process life may have left failures behind; its history has  *)
(* expired.                                                                *)
Init ==
  /\ clock = 0
  /\ env \in Deployments
  /\ \E prior \in [Trackers -> PriorFailures] :
       /\ sleepFile = [x \in Trackers |-> Backoff(prior[x], 0)]
       /\ downs = prior
       /\ streak = prior
       /\ tally = prior
  /\ calm = TRUE
  /\ history = NoHistory
  /\ totalRuns = 0
  /\ knownFile = {}
  /\ qbt = {}
  /\ pc = [r \in Runs |-> "idle"]
  /\ loc = [r \in Runs |-> NoLocals]

-------------------------------------------------------------------------------
(* Helpers *)

(* What a file can hold after write_text(new): the save helpers swallow    *)
(* the exception of a failed write, a write that stopped half-way leaves   *)
(* text the loaders reject, and a rejected file is read as `empty`.        *)
Saved(old, new, empty) == IF TornSaves THEN {old, new, empty} ELSE {new}

Goto(r, label) == pc' = [pc EXCEPT ![r] = label]

(* What a step that writes the sleep file does to the ghosts: once a write *)
(* failed, or runs overlapped, nothing is known of the failures on file.   *)
Reckon(undisturbed, counts) ==
  /\ calm' = (calm /\ undisturbed)
  /\ tally' = IF calm' THEN counts ELSE [x \in Trackers |-> Unknown]

(* The run is over: its locals are gone.                                   *)
Finish(r, verdict) ==
  /\ Goto(r, verdict)
  /\ loc' = [loc EXCEPT ![r] = NoLocals]

Admitted == env.creds /\ env.vpn \notin {"leaking", "unreachable"}

(* The user picks direct or proxy, unless a VPN container was configured.  *)
UdpBlocked == IF env.vpn = "off" THEN BOOLEAN ELSE {FALSE}

Skipped(l) == IF l.noUdp THEN l.active \cap UdpTrackers ELSE {}

Tested(l) == l.active \ Skipped(l)

Tallied(l) ==
  [x \in Trackers |->
     CASE x \in l.passed \/ x \notin l.pool -> 0
       [] x \in Tested(l) \ l.passed /\ tally[x] # Unknown -> tally[x] + 1
       [] OTHER -> tally[x]]

(* The results of `runs` younger than the retention, in their order: a     *)
(* SelectSeq, as a function of how far the list was read.                  *)
Recent(runs, now) ==
  LET kept[n \in 0..Len(runs)] ==
        IF n = 0 THEN <<>>
        ELSE IF runs[n].ts > now - HistoryDays THEN Append(kept[n - 1], runs[n])
        ELSE kept[n - 1]
  IN  kept[Len(runs)]

RecordRun(h, tested, passed, pool, now) ==
  [x \in Trackers |->
     LET new == IF x \in tested THEN <<[ts |-> now, up |-> x \in passed]>> ELSE <<>>
     IN  IF x \in pool THEN Recent(new \o h[x], now) ELSE <<>>]

-------------------------------------------------------------------------------
(* One run *)

(* No credentials, or the VPN check of start-up does not allow a run.      *)
Refuse(r) ==
  /\ pc[r] = "idle"
  /\ ~Admitted
  /\ Finish(r, "failed")
  /\ UNCHANGED <<clock, env, files, qbt, ghosts>>

Start(r) ==
  /\ pc[r] = "idle"
  /\ Admitted
  /\ Overlap \/ Busy = {}
  /\ \E noUdp \in UdpBlocked :
       loc' = [loc EXCEPT ![r] = [NoLocals EXCEPT !.noUdp = noUdp]]
  /\ Goto(r, "collecting")
  /\ Reckon(Busy = {}, tally)
  /\ UNCHANGED <<clock, env, files, qbt, charges>>

CollectNone(r) ==
  /\ pc[r] = "collecting"
  /\ Finish(r, "failed")
  /\ UNCHANGED <<clock, env, files, qbt, ghosts>>

(* Sources answered with the trackers in pool.  A source that failed only  *)
(* logs a warning, so any part of the trackers can be missing.             *)
Collect(r, pool) ==
  LET snap   == PruneUnknown(sleepFile, pool)
      active == pool \ Dormant(snap, clock)
  IN /\ pc[r] = "collecting"
     /\ pool # {}
     /\ knownFile' \in Saved(knownFile, pool, {})
     /\ \/ /\ active # {}
           /\ loc' = [loc EXCEPT ![r].pool = pool, ![r].snap = snap,
                                 ![r].active = active]
           /\ Goto(r, "pinging")
           /\ UNCHANGED <<sleepFile, calm, tally>>
        \/ /\ active = {}
           /\ sleepFile' \in Saved(sleepFile, snap, NoSleep)
           /\ Reckon(sleepFile' = snap,
                     [x \in Trackers |-> IF x \in pool THEN tally[x] ELSE 0])
           /\ Finish(r, "done")
     /\ UNCHANGED <<clock, env, history, totalRuns, qbt, charges>>

(* The pings answered.  When nothing is UP the run ends here and nothing   *)
(* it learned is kept.                                                     *)
Ping(r, up) ==
  /\ pc[r] = "pinging"
  /\ up \subseteq Tested(loc[r])
  /\ \/ /\ up # {}
        /\ loc' = [loc EXCEPT ![r].passed = up]
        /\ Goto(r, "measuring")
     \/ /\ up = {}
        /\ Finish(r, "failed")
  /\ UNCHANGED <<clock, env, files, qbt, ghosts>>

(* Latency measured: the results go to the history, and the copy of the    *)
(* sleep state taken in Collect, updated, goes back to its file.           *)
Record(r) ==
  LET l      == loc[r]
      failed == Tested(l) \ l.passed
      logged == RecordRun(history, Tested(l), l.passed, l.pool, clock)
      after  == UpdateAfterRun(l.snap, Tested(l), l.passed, clock)
  IN /\ pc[r] = "measuring"
     /\ \E next \in Saved(<<history, totalRuns>>, <<logged, totalRuns + 1>>,
                          <<NoHistory, 0>>) :
          history' = next[1] /\ totalRuns' = next[2]
     /\ sleepFile' \in Saved(sleepFile, after, NoSleep)
     /\ Reckon(sleepFile' = after /\ history' = logged, Tallied(l))
     /\ downs' = [x \in Trackers |->
                    IF x \in failed THEN downs[x] + 1 ELSE downs[x]]
     /\ streak' = [x \in Trackers |->
                     CASE x \in l.passed -> 0
                       [] x \in failed   -> streak[x] + 1
                       [] OTHER          -> streak[x]]
     /\ Goto(r, "login")
     /\ UNCHANGED <<clock, env, knownFile, qbt, loc>>

Login(r) ==
  /\ pc[r] = "login"
  /\ Goto(r, "inject")
  /\ UNCHANGED <<clock, env, files, qbt, loc, ghosts>>

(* Rejected credentials, or every attempt timed out.                       *)
LoginFails(r) ==
  /\ pc[r] = "login"
  /\ Finish(r, "failed")
  /\ UNCHANGED <<clock, env, files, qbt, ghosts>>

(* Faulty variant: the whole pool is injected.                             *)
ApplyPool(r) ==
  /\ pc[r] \in {"inject", "injected"}
  /\ qbt' = loc[r].pool
  /\ Goto(r, "injected")
  /\ UNCHANGED <<clock, env, files, loc, ghosts>>

(* qBittorrent handles the request, or the repetition of one whose answer  *)
(* came too late: see Inject.                                              *)
Apply(r) ==
  /\ pc[r] \in {"inject", "injected"}
  /\ qbt' = loc[r].passed
  /\ Goto(r, "injected")
  /\ UNCHANGED <<clock, env, files, loc, ghosts>>

Injected(r) ==
  /\ pc[r] = "injected"
  /\ Goto(r, "verify")
  /\ UNCHANGED <<clock, env, files, qbt, loc, ghosts>>

(* Every attempt failed for the client; one may have reached qBittorrent.  *)
InjectFails(r) ==
  /\ pc[r] \in {"inject", "injected"}
  /\ Finish(r, "failed")
  /\ UNCHANGED <<clock, env, files, qbt, ghosts>>

(* A mismatch is a warning in the log and nothing more.  An answer that is *)
(* JSON but no object raises outside the try, past the handlers of the     *)
(* run: it fails with its list in place.                                   *)
Verify(r) ==
  /\ pc[r] = "verify"
  /\ \E verdict \in {"done", "failed"} : Finish(r, verdict)
  /\ UNCHANGED <<clock, env, files, qbt, ghosts>>

-------------------------------------------------------------------------------
(* Around the runs *)

(* POST /api/jobs/{id}/abort: the task is cancelled where it is suspended. *)
Abort(r) ==
  /\ pc[r] \in InFlight
  /\ Finish(r, "cut")
  /\ UNCHANGED <<clock, env, files, qbt, ghosts>>

(* A run in flight may write its older copy over a wake.                   *)
AfterWake == IF Holding = {} THEN 0 ELSE Unknown

Wake(x) ==
  LET woken == [sleepFile EXCEPT ![x] = Awake]
  IN /\ sleepFile' \in Saved(sleepFile, woken, NoSleep)
     /\ Reckon(sleepFile' = woken, [tally EXCEPT ![x] = AfterWake])
     /\ UNCHANGED <<clock, env, history, totalRuns, knownFile, qbt, pc, loc, charges>>

WakeAll ==
  /\ sleepFile' \in Saved(sleepFile, NoSleep, NoSleep)
  /\ Reckon(sleepFile' = NoSleep, [x \in Trackers |-> AfterWake])
  /\ UNCHANGED <<clock, env, history, totalRuns, knownFile, qbt, pc, loc, charges>>

(* The container is restarted: the runs are gone, the files stay, and      *)
(* start-up looks at the credentials and the VPN again.                    *)
Restart ==
  /\ pc' = [r \in Runs |-> IF pc[r] \in InFlight THEN "cut" ELSE pc[r]]
  /\ loc' = [r \in Runs |-> NoLocals]
  /\ env' \in Deployments
  /\ UNCHANGED <<clock, files, qbt, ghosts>>

Tick ==
  /\ clock < MaxClock
  /\ clock' = clock + 1
  /\ UNCHANGED <<env, files, qbt, pc, loc, ghosts>>

Next ==
  \/ \E r \in Runs :
       \/ Refuse(r) \/ Start(r) \/ CollectNone(r)
       \/ \E pool \in SUBSET Trackers : Collect(r, pool)
       \/ \E up \in SUBSET Trackers : Ping(r, up)
       \/ Record(r)
       \/ Login(r) \/ LoginFails(r)
       \/ Apply(r) \/ Injected(r) \/ InjectFails(r)
       \/ Verify(r)
       \/ Abort(r)
  \/ \E x \in Trackers : Wake(x)
  \/ WakeAll
  \/ Restart
  \/ Tick

Spec == Init /\ [][Next]_vars

-------------------------------------------------------------------------------
(* Properties *)

(* However runs, wakes, aborts, restarts and failed writes interleave, a   *)
(* tracker is never charged more failures than pings that found it down:   *)
(* update_after_run adds to the copy the run took, not to the file.        *)
FailuresBacked ==
  /\ \A x \in Trackers : sleepFile[x].failures <= downs[x]
  /\ \A r \in Runs, x \in Trackers : loc[r].snap[x].failures <= downs[x]

(* No stale copy written back parks a tracker for longer than a fresh      *)
(* failure would: fewer than two failures never park, up to five park for  *)
(* at most SleepSpan from now, more for at most HibernateSpan.             *)
ParkedBounded ==
  \A x \in Trackers :
    LET entry == sleepFile[x]
    IN  Parked(entry) =>
          /\ entry.failures >= 2
          /\ entry.until <= clock + (IF entry.failures > 5 THEN HibernateSpan
                                     ELSE SleepSpan)

(* sleep.py:9, "A successful ping clears the tracker's failure count       *)
(* entirely": the failures on file all came after the last UP.             *)
PassClears == \A x \in Trackers : sleepFile[x].failures <= streak[x]

(* ... which holds as long as runs do not overlap and writes do not fail.  *)
PassClearsCalm == calm => PassClears

(* Undisturbed, the file holds every failure there is to hold: the DOWNs   *)
(* since the tracker's last UP, wake or absence from the pool, without     *)
(* those of a run that found nothing UP, or was cut before it recorded.    *)
(* Only a tracker woken during a run is not accounted for until it is UP.  *)
FailuresExact ==
  \A x \in Trackers : tally[x] # Unknown => sleepFile[x].failures = tally[x]

(* What reaches qBittorrent was UP, and is on record as UP: undisturbed,   *)
(* the list only changes to trackers whose newest result on file is UP.    *)
InjectedAreUp ==
  [][calm /\ qbt' # qbt =>
       \A x \in qbt' : history[x] # <<>> /\ Head(history[x]).up]_vars

(* What the contract with the client of inject.py sees of a run: nothing   *)
(* before its results are recorded, and then what it injects.              *)
Stage(r) ==
  IF pc[r] \in {"idle", "collecting", "pinging", "measuring"} THEN "idle" ELSE pc[r]

Injecting(r) ==
  IF pc[r] \in {"login", "inject", "injected", "verify"} THEN loc[r].passed ELSE {}

Contract == INSTANCE QbtList WITH Late <- FALSE,
                                  stage <- [r \in Runs |-> Stage(r)],
                                  list <- [r \in Runs |-> Injecting(r)]

(* The pipeline uses the client as Inject implements it: the list of each  *)
(* run is fixed before its login, qBittorrent's list only ever becomes     *)
(* that of a run past its login and not over, and a run verifies only      *)
(* after its own was taken.                                                *)
ContractSpec == Contract!Spec
===============================================================================
