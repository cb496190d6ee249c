----------------------------- MODULE JobLifecycle -----------------------------
(***************************************************************************)
(* What jobs.py promises of a job: pending, then running, then one of      *)
(* done, failed and aborted.  While the end is being notified an abort may *)
(* still take the verdict back; once the job is settled it is final.       *)
(***************************************************************************)
CONSTANT JobIds

VARIABLES
  status,
  settled   \* jobs that are over, with their streams told so

vars == <<status, settled>>

Terminal == {"done", "failed", "aborted"}

Statuses == {"absent", "pending", "running"} \cup Terminal

Init ==
  /\ status = [j \in JobIds |-> "absent"]
  /\ settled = {}

Become(j, new) == status' = [status EXCEPT ![j] = new]

(* A job the scheduler awaits is running from the start.                   *)
Create(j) ==
  /\ status[j] = "absent"
  /\ \E new \in {"pending", "running"} : Become(j, new)
  /\ UNCHANGED settled

Begin(j) == status[j] = "pending" /\ Become(j, "running") /\ UNCHANGED settled

End(j) ==
  /\ status[j] = "running"
  /\ \/ \E new \in Terminal : Become(j, new) /\ settled' = settled \cup {j}
     \/ \E new \in {"done", "failed"} : Become(j, new) /\ UNCHANGED settled

(* The end was notified, or an abort came first.                           *)
Settle(j) ==
  /\ status[j] \in {"done", "failed"}
  /\ j \notin settled
  /\ settled' = settled \cup {j}
  /\ \/ Become(j, "aborted")
     \/ UNCHANGED status

Next == \E j \in JobIds : Create(j) \/ Begin(j) \/ End(j) \/ Settle(j)

Spec ==
  /\ Init /\ [][Next]_vars
  /\ \A j \in JobIds : WF_vars(Begin(j)) /\ WF_vars(End(j)) /\ WF_vars(Settle(j))
===============================================================================
