-------------------------------- MODULE Inject ---------------------------------
(***************************************************************************)
(* The qBittorrent client of app/core/inject.py: login, inject and verify, *)
(* the first two repeated when no good answer comes within the timeout.    *)
(*                                                                         *)
(* A request whose answer the client no longer waits for is not gone: what *)
(* qBittorrent received it may still handle, beside the next attempt, or,  *)
(* with Late, when its run is long over.                                   *)
(***************************************************************************)
EXTENDS Integers

CONSTANTS
  Runs,         \* runs that reach the injection; each calls it once
  Trackers,
  List,         \* what each run injects
  MaxRetries,   \* MAX_RETRIES
  Late          \* may a request be handled after its run left the step?

ASSUME InjectAssumption ==
  /\ List \in [Runs -> SUBSET Trackers]
  /\ MaxRetries \in Nat
  /\ Late \in BOOLEAN

VARIABLES
  qbt,       \* external: qBittorrent's add_trackers preference
  wire,      \* external: requests on their way to qBittorrent
  answers,   \* external: answers on their way back
  pc,        \* where each run is suspended
  attempt,   \* _with_retry's loop variable
  applied,   \* ghost: runs whose list qBittorrent has taken
  passed     \* ghost: runs that logged "Verification PASSED"

external == <<qbt, wire, answers, applied>>
vars == <<external, pc, attempt, passed>>

-------------------------------------------------------------------------------
(* State *)

(* "posted": a request was sent and its answer is awaited; in "login" and  *)
(* "inject" an attempt is about to be made, or the pause before it is on.  *)
InFlight == {"login", "inject", "posted", "verify"}

Request == [run : Runs, attempt : 0..MaxRetries]

Answer == [run : Runs, attempt : 0..MaxRetries, good : BOOLEAN]

TypeOK ==
  /\ qbt \subseteq Trackers
  /\ wire \subseteq Request
  /\ answers \subseteq Answer
  /\ pc \in [Runs -> {"idle", "done", "failed", "cut"} \cup InFlight]
  /\ attempt \in [Runs -> 0..MaxRetries]
  /\ applied \subseteq Runs
  /\ passed \subseteq Runs

Init ==
  /\ qbt = {} /\ wire = {} /\ answers = {}
  /\ pc = [r \in Runs |-> "idle"]
  /\ attempt = [r \in Runs |-> 0]
  /\ applied = {} /\ passed = {}

-------------------------------------------------------------------------------
(* A run *)

Goto(r, label) == pc' = [pc EXCEPT ![r] = label]

Sent(r) == [run |-> r, attempt |-> attempt[r]]

Came(r, good) == [run |-> r, attempt |-> attempt[r], good |-> good]

(* The next step of the pipeline, with attempts of its own.                *)
Advance(r, label) ==
  /\ Goto(r, label)
  /\ attempt' = [attempt EXCEPT ![r] = 0]

(* Faulty variant: the last attempt is compared as if counted from 1.      *)
RetryOnceMore(r, label) ==
  IF attempt[r] <= MaxRetries
  THEN Goto(r, label) /\ attempt' = [attempt EXCEPT ![r] = @ + 1]
  ELSE Goto(r, "failed") /\ UNCHANGED attempt

(* Faulty variant: attempts are not counted.                               *)
RetryForever(r, label) ==
  /\ Goto(r, label)
  /\ UNCHANGED attempt

(* _with_retry after a QbtConnectionError.                                 *)
Retry(r, label) ==
  IF attempt[r] < MaxRetries
  THEN Goto(r, label) /\ attempt' = [attempt EXCEPT ![r] = @ + 1]
  ELSE Goto(r, "failed") /\ UNCHANGED attempt

(* Faulty variant: a session is taken for granted.                         *)
StartWithoutLogin(r) ==
  /\ pc[r] = "idle"
  /\ Advance(r, "inject")
  /\ UNCHANGED <<external, passed>>

Start(r) ==
  /\ pc[r] = "idle"
  /\ Advance(r, "login")
  /\ UNCHANGED <<external, passed>>

Login(r) ==
  /\ pc[r] = "login"
  /\ Advance(r, "inject")
  /\ UNCHANGED <<external, passed>>

(* A QbtAuthError is not retried.                                          *)
LoginRejected(r) ==
  /\ pc[r] = "login"
  /\ Goto(r, "failed")
  /\ UNCHANGED <<external, attempt, passed>>

LoginUnreachable(r) ==
  /\ pc[r] = "login"
  /\ Retry(r, "login")
  /\ UNCHANGED <<external, passed>>

Post(r) ==
  /\ pc[r] = "inject"
  /\ wire' = wire \cup {Sent(r)}
  /\ Goto(r, "posted")
  /\ UNCHANGED <<qbt, answers, attempt, applied, passed>>

(* Faulty variant: the status of the answer is not looked at.              *)
InjectedAnyStatus(r) ==
  /\ pc[r] = "posted"
  /\ \E good \in BOOLEAN : Came(r, good) \in answers
  /\ Advance(r, "verify")
  /\ UNCHANGED <<external, passed>>

Injected(r) ==
  /\ pc[r] = "posted"
  /\ Came(r, TRUE) \in answers
  /\ Advance(r, "verify")
  /\ UNCHANGED <<external, passed>>

(* An error status, an error of the connection, or 45 seconds of silence.  *)
InjectFails(r) ==
  /\ pc[r] = "posted"
  /\ Retry(r, "inject")
  /\ UNCHANGED <<external, passed>>

(* The stored list is compared with the run's own.                         *)
Verify(r) ==
  /\ pc[r] = "verify"
  /\ passed' = IF List[r] \subseteq qbt THEN passed \cup {r} ELSE passed
  /\ Goto(r, "done")
  /\ UNCHANGED <<external, attempt>>

(* An exception while asking counts as a success.                          *)
VerifySkipped(r) ==
  /\ pc[r] = "verify"
  /\ passed' = passed \cup {r}
  /\ Goto(r, "done")
  /\ UNCHANGED <<external, attempt>>

(* The answer is JSON but no object: data.get is outside the try.          *)
VerifyRaises(r) ==
  /\ pc[r] = "verify"
  /\ Goto(r, "failed")
  /\ UNCHANGED <<external, attempt, passed>>

Abort(r) ==
  /\ pc[r] \in InFlight
  /\ Goto(r, "cut")
  /\ UNCHANGED <<external, attempt, passed>>

-------------------------------------------------------------------------------
(* qBittorrent and the network *)

Reaches(m) == m \in wire /\ (Late \/ pc[m.run] \in {"inject", "posted"})

Reply(m, good) ==
  /\ wire' = wire \ {m}
  /\ answers' = answers \cup {[run |-> m.run, attempt |-> m.attempt, good |-> good]}
  /\ UNCHANGED <<pc, attempt, passed>>

Apply(m) ==
  /\ Reaches(m)
  /\ qbt' = List[m.run]
  /\ applied' = applied \cup {m.run}
  /\ Reply(m, TRUE)

(* Not logged in any more, or out of order.                                *)
Refuse(m) ==
  /\ Reaches(m)
  /\ Reply(m, FALSE)
  /\ UNCHANGED <<qbt, applied>>

Step(r) ==
  \/ Login(r) \/ LoginRejected(r) \/ LoginUnreachable(r)
  \/ Post(r) \/ Injected(r) \/ InjectFails(r)
  \/ Verify(r) \/ VerifySkipped(r) \/ VerifyRaises(r)

Next ==
  \/ \E r \in Runs : Start(r) \/ Step(r) \/ Abort(r)
  \/ \E m \in wire : Apply(m) \/ Refuse(m)

Spec == Init /\ [][Next]_vars

(* Every request of a run is answered or times out; qBittorrent need not   *)
(* do anything.                                                            *)
FairSpec == Spec /\ \A r \in Runs : WF_vars(Step(r))

-------------------------------------------------------------------------------
(* Properties *)

(* What the contract sees of a run: it is past the injection, or may claim  *)
(* to be, as soon as qBittorrent has taken its list.                       *)
Stage(r) ==
  CASE pc[r] \in {"inject", "posted"} ->
         IF r \in applied THEN "injected" ELSE "inject"
    [] OTHER -> pc[r]

(* A run's list, as long as a request with it may still be handled.        *)
Chosen(r) ==
  IF pc[r] = "idle" \/ (~Late /\ pc[r] \in {"done", "failed", "cut"}) THEN {} ELSE List[r]

Contract == INSTANCE QbtList WITH stage <- [r \in Runs |-> Stage(r)],
                                  list <- [r \in Runs |-> Chosen(r)]

(* Retries, lost answers and repeated requests implement the injection as  *)
(* TrackerPing models it: the preference only ever becomes a list of a run *)
(* that was injecting it, and a run goes on to verify only after it did.   *)
ContractSpec == Contract!Spec

(* A run that ends well was applied, also when requests are handled late   *)
(* or answered in another order than they were sent.                       *)
DoneMeansApplied == \A r \in Runs : pc[r] \in {"verify", "done"} => r \in applied

(* However slow qBittorrent is, a run that starts comes to an end.         *)
RunsEnd == \A r \in Runs : pc[r] = "login" ~> pc[r] \in {"done", "failed", "cut"}

(* inject.py:5, "verifies the update took effect": a verification reported *)
(* as PASSED found the run's trackers in qBittorrent.                      *)
PassedMeansPresent ==
  [][\A r \in Runs : r \in passed' \ passed => List[r] \subseteq qbt]_vars
===============================================================================
