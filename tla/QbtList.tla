-------------------------------- MODULE QbtList --------------------------------
(***************************************************************************)
(* qBittorrent's list as the runs change it: the contract between the      *)
(* TrackerPing pipeline and the client in app/core/inject.py.  Inject,     *)
(* with its attempts, timeouts and requests under way, implements it, and  *)
(* so does TrackerPing, with every run's files, aborts and restarts but    *)
(* without late requests.                                                  *)
(***************************************************************************)
CONSTANTS
  Runs, Trackers,
  Late   \* may a request be handled after its run left the step?

VARIABLES
  qbt,     \* qBittorrent's add_trackers preference
  stage,   \* how far the pipeline of each run has come
  list     \* what each run set out to inject

vars == <<qbt, stage, list>>

Stages ==
  {"idle", "login", "inject", "injected", "verify", "done", "failed", "cut"}

Init ==
  /\ qbt = {}
  /\ stage = [r \in Runs |-> "idle"]
  /\ list = [r \in Runs |-> {}]

Move(r, from, to) == stage[r] \in from /\ stage' = [stage EXCEPT ![r] = to]

(* The lists of runs that are over matter to late requests only.           *)
Drop(over) ==
  list' = IF Late THEN list ELSE [r \in Runs |-> IF r \in over THEN {} ELSE list[r]]

(* A run ends before it has anything to inject.                            *)
Skip(r) ==
  /\ \E verdict \in {"done", "failed"} : Move(r, {"idle"}, verdict)
  /\ UNCHANGED <<qbt, list>>

Start(r) ==
  /\ Move(r, {"idle"}, "login")
  /\ \E trackers \in SUBSET Trackers : list' = [list EXCEPT ![r] = trackers]
  /\ UNCHANGED qbt

Login(r) == Move(r, {"login"}, "inject") /\ UNCHANGED <<qbt, list>>

LoginFails(r) == Move(r, {"login"}, "failed") /\ Drop({r}) /\ UNCHANGED qbt

Apply(r) ==
  /\ Move(r, {"inject", "injected"}, "injected")
  /\ qbt' = list[r]
  /\ UNCHANGED list

(* A request that nobody waits for any more.                               *)
ApplyLate(r) ==
  /\ Late
  /\ stage[r] \in {"verify", "done", "failed", "cut"}
  /\ qbt' = list[r]
  /\ UNCHANGED <<stage, list>>

(* Only a run whose list was applied gets here.                            *)
Injected(r) == Move(r, {"injected"}, "verify") /\ UNCHANGED <<qbt, list>>

InjectFails(r) ==
  Move(r, {"inject", "injected"}, "failed") /\ Drop({r}) /\ UNCHANGED qbt

(* The run may fail with its list in place.                                *)
Verify(r) ==
  /\ \E verdict \in {"done", "failed"} : Move(r, {"verify"}, verdict)
  /\ Drop({r})
  /\ UNCHANGED qbt

(* An abort cuts one run short, a restart all that were in flight.         *)
Cut(some) ==
  /\ \A r \in some : stage[r] \in {"idle", "login", "inject", "injected", "verify"}
  /\ stage' = [r \in Runs |-> IF r \in some THEN "cut" ELSE stage[r]]
  /\ Drop(some)
  /\ UNCHANGED qbt

Next ==
  \/ \E r \in Runs :
       \/ Skip(r) \/ Start(r) \/ Login(r) \/ LoginFails(r)
       \/ Apply(r) \/ ApplyLate(r) \/ Injected(r) \/ InjectFails(r)
       \/ Verify(r)
  \/ \E some \in SUBSET Runs : Cut(some)

Spec == Init /\ [][Next]_vars
===============================================================================
