--------------------------------- MODULE Jobs ---------------------------------
(***************************************************************************)
(* The job table of app/api/jobs.py: jobs started from the API and by the  *)
(* scheduler, their log lines, abort, pruning, and the event streams that  *)
(* follow a job.  What a job does while it runs is TrackerPing's subject;  *)
(* here it logs and ends.                                                  *)
(*                                                                         *)
(* A scheduled job has no task of its own: it runs inside the scheduler's  *)
(* loop, and job.task is that loop.                                        *)
(***************************************************************************)
EXTENDS Integers

CONSTANTS
  JobIds,      \* identities of jobs; each is created once
  Scheduled,   \* those the scheduler creates
  Streams,     \* event-stream connections
  Follows,     \* the job each of them is opened for
  MaxAge,      \* prune_jobs' 1800 seconds, in ticks
  MaxLines,    \* bound on the log lines of a job's run
  MaxClock     \* bound on the clock

ASSUME JobsAssumption ==
  /\ Scheduled \subseteq JobIds
  /\ Follows \in [Streams -> JobIds]
  /\ MaxAge \in Nat \ {0} /\ MaxLines \in Nat /\ MaxClock \in Nat

VARIABLES
  clock,
  status,      \* job.status, kept after the job leaves the table
  at,          \* where the job's coroutine is suspended
  table,       \* the keys of _jobs
  startedAt, endedAt,
  lines,       \* how many log lines the job has
  event,       \* job._new_line_event is set
  loopDead,    \* has the scheduler's task been cancelled?
  sent,        \* the lines a stream has delivered
  reader       \* where it is suspended

jobVars == <<status, at, table, startedAt, endedAt, loopDead>>
vars == <<clock, jobVars, lines, event, sent, reader>>

-------------------------------------------------------------------------------
(* State *)

Lifecycle ==
  INSTANCE JobLifecycle WITH settled <- {j \in JobIds : at[j] = "over"}

Terminal == {"done", "failed", "aborted"}

NoTime == -1

Times == 0..MaxClock \cup {NoTime}

(* closed: the server ended the stream; gone: its client did.              *)
Readers == {"off", "top", "flush", "wait", "closed", "gone"}

TypeOK ==
  /\ clock \in 0..MaxClock
  /\ status \in [JobIds -> Lifecycle!Statuses]
  /\ at \in [JobIds -> {"absent", "new", "run", "notify", "report", "over"}]
  /\ table \subseteq JobIds
  /\ startedAt \in [JobIds -> Times] /\ endedAt \in [JobIds -> Times]
  /\ lines \in [JobIds -> 0..(MaxLines + 1)]
  /\ event \in [JobIds -> BOOLEAN]
  /\ loopDead \in BOOLEAN
  /\ sent \in [Streams -> 0..(MaxLines + 1)]
  /\ reader \in [Streams -> Readers]

Init ==
  /\ clock = 0
  /\ status = [j \in JobIds |-> "absent"]
  /\ at = [j \in JobIds |-> "absent"]
  /\ table = {}
  /\ startedAt = [j \in JobIds |-> NoTime]
  /\ endedAt = [j \in JobIds |-> NoTime]
  /\ lines = [j \in JobIds |-> 0]
  /\ event = [j \in JobIds |-> FALSE]
  /\ loopDead = FALSE
  /\ sent = [s \in Streams |-> 0]
  /\ reader = [s \in Streams |-> "off"]

-------------------------------------------------------------------------------
(* Helpers *)

Live == {j \in JobIds : at[j] \in {"run", "notify", "report"}}

(* Faulty variant: age is counted from the start of a job.                 *)
StaleByStart ==
  {j \in table : status[j] \in Terminal /\ startedAt[j] < clock - MaxAge}

(* prune_jobs: `ended_at or started_at` before the cutoff.                 *)
Stale ==
  {j \in table :
     /\ status[j] \in Terminal
     /\ (IF endedAt[j] = NoTime THEN startedAt[j] ELSE endedAt[j]) < clock - MaxAge}

(* event.set(): every stream that waits for it goes on.                    *)
Signal(j) ==
  /\ event' = [event EXCEPT ![j] = TRUE]
  /\ reader' = [s \in Streams |->
                  IF reader[s] = "wait" /\ Follows[s] = j THEN "top" ELSE reader[s]]

Silent == UNCHANGED <<event, reader>>

Log(j) == lines' = [lines EXCEPT ![j] = @ + 1]

(* Faulty variant: the finally block stamps the job but wakes nobody.      *)
OverUnsignalled(j) ==
  /\ at' = [at EXCEPT ![j] = "over"]
  /\ endedAt' = [endedAt EXCEPT ![j] = clock]
  /\ Silent

(* The finally block.                                                      *)
Over(j) ==
  /\ at' = [at EXCEPT ![j] = "over"]
  /\ endedAt' = [endedAt EXCEPT ![j] = clock]
  /\ Signal(j)

Become(j, new) == status' = [status EXCEPT ![j] = new]

Added(j, label, new) ==
  /\ at[j] = "absent"
  /\ at' = [at EXCEPT ![j] = label]
  /\ Become(j, new)
  /\ table' = (table \ Stale) \cup {j}
  /\ startedAt' = [startedAt EXCEPT ![j] = clock]
  /\ UNCHANGED <<clock, endedAt, lines, loopDead, sent>> /\ Silent

-------------------------------------------------------------------------------
(* Jobs *)

(* POST /api/jobs/run/trackerping and /run/discovery.                      *)
Create(j) == j \notin Scheduled /\ Added(j, "new", "pending")

(* The scheduler awaits one run at a time.                                 *)
Trigger(j) ==
  /\ j \in Scheduled
  /\ ~loopDead
  /\ Live \cap Scheduled = {}
  /\ Added(j, "run", "running")

Begin(j) ==
  /\ at[j] = "new"
  /\ at' = [at EXCEPT ![j] = "run"]
  /\ Become(j, "running")
  /\ UNCHANGED <<clock, table, startedAt, endedAt, lines, loopDead,
                 sent>> /\ Silent

Emit(j) ==
  /\ at[j] = "run"
  /\ lines[j] < MaxLines
  /\ Log(j)
  /\ Signal(j)
  /\ UNCHANGED <<clock, jobVars, sent>>

(* The pipeline returned.  The status is set before the notification is    *)
(* sent, if one is configured; ended_at and the signal come after it.      *)
Return(j, verdict) ==
  /\ at[j] = "run"
  /\ Become(j, verdict)
  /\ \/ /\ at' = [at EXCEPT ![j] = "notify"]
        /\ UNCHANGED endedAt /\ Silent
     \/ Over(j)
  /\ UNCHANGED <<clock, table, startedAt, lines, loopDead, sent>>

(* The pipeline raised.                                                    *)
Raise(j) ==
  /\ at[j] = "run"
  /\ Become(j, "failed")
  /\ Log(j)
  /\ \/ /\ at' = [at EXCEPT ![j] = "report"]
        /\ Signal(j)
        /\ UNCHANGED endedAt
     \/ Over(j)
  /\ UNCHANGED <<clock, table, startedAt, loopDead, sent>>

(* Notifications never raise and time out.                                 *)
Notified(j) ==
  /\ at[j] \in {"notify", "report"}
  /\ Over(j)
  /\ UNCHANGED <<clock, status, table, startedAt, lines, loopDead, sent>>

(* Faulty variant: the report of a crash is covered by the handler too.    *)
CancelledLogs(k) ==
  /\ at[k] \in {"run", "notify", "report"}
  /\ Become(k, "aborted")
  /\ Log(k)
  /\ Over(k)

(* The coroutine of k is cancelled.  In the report of a crash it is past   *)
(* the handler that would mark it aborted.                                 *)
Cancelled(k) ==
  /\ \/ /\ at[k] \in {"run", "notify"}
        /\ Become(k, "aborted")
        /\ Log(k)
     \/ /\ at[k] = "report"
        /\ UNCHANGED <<status, lines>>
  /\ Over(k)

(* The job whose coroutine POST /abort of j interrupts, if any: the abort  *)
(* of a scheduled job, even one long over, hits what the loop awaits.      *)
Interrupted(j) ==
  IF j \in Scheduled THEN (IF loopDead THEN {} ELSE Live \cap Scheduled)
  ELSE Live \cap {j}

(* Faulty variant: the endpoint marks the job itself, whatever its state.  *)
AbortMarks(j) ==
  /\ j \in table
  /\ at[j] # "new"
  /\ loopDead' = (loopDead \/ j \in Scheduled)
  /\ Become(j, "aborted")
  /\ at' = [at EXCEPT ![j] = "over"]
  /\ UNCHANGED <<clock, table, startedAt, endedAt, lines, sent>> /\ Silent

(* A caller learns the identity of an API job from a response, which is    *)
(* sent after the first step of its task: no abort finds it pending.       *)
Abort(j) ==
  /\ j \in table
  /\ at[j] # "new"
  /\ loopDead' = (loopDead \/ j \in Scheduled)
  /\ \/ \E k \in Interrupted(j) : Cancelled(k)
     \/ /\ Interrupted(j) = {}
        /\ UNCHANGED <<status, at, endedAt, lines>> /\ Silent
  /\ UNCHANGED <<clock, table, startedAt, sent>>

Tick ==
  /\ clock < MaxClock
  /\ clock' = clock + 1
  /\ UNCHANGED <<jobVars, lines, event, sent, reader>>

-------------------------------------------------------------------------------
(* GET /api/jobs/{id}/stream *)

Unread(s) == sent[s] < lines[Follows[s]]

Goto(s, label) == reader' = [reader EXCEPT ![s] = label]

Open(s) ==
  /\ reader[s] = "off"
  /\ Follows[s] \in table
  /\ Goto(s, "top")
  /\ UNCHANGED <<clock, jobVars, lines, event, sent>>

(* From the top of the loop, or from the yield of a line, to the next      *)
(* await: one more line, the end, or the wait for the event.               *)
Deliver(s) ==
  /\ reader[s] \in {"top", "flush"}
  /\ Unread(s)
  /\ event' = [event EXCEPT ![Follows[s]] = @ /\ reader[s] # "top"]
  /\ sent' = [sent EXCEPT ![s] = @ + 1]
  /\ Goto(s, "flush")
  /\ UNCHANGED <<clock, jobVars, lines>>

(* Faulty variant: the status is looked at before the lines are.           *)
CloseAtOnce(s) ==
  /\ reader[s] \in {"top", "flush"}
  /\ status[Follows[s]] \in Terminal
  /\ event' = [event EXCEPT ![Follows[s]] = @ /\ reader[s] # "top"]
  /\ Goto(s, "closed")
  /\ UNCHANGED <<clock, jobVars, lines, sent>>

Close(s) ==
  /\ reader[s] \in {"top", "flush"}
  /\ ~Unread(s)
  /\ status[Follows[s]] \in Terminal
  /\ event' = [event EXCEPT ![Follows[s]] = @ /\ reader[s] # "top"]
  /\ Goto(s, "closed")
  /\ UNCHANGED <<clock, jobVars, lines, sent>>

(* The wait returns at once if the event was set since the last clear.     *)
Await(s) ==
  /\ reader[s] \in {"top", "flush"}
  /\ ~Unread(s)
  /\ status[Follows[s]] \notin Terminal
  /\ event' = [event EXCEPT ![Follows[s]] = @ /\ reader[s] # "top"]
  /\ Goto(s, IF event'[Follows[s]] THEN "top" ELSE "wait")
  /\ UNCHANGED <<clock, jobVars, lines, sent>>

KeepAlive(s) ==
  /\ reader[s] = "wait"
  /\ Goto(s, "top")
  /\ UNCHANGED <<clock, jobVars, lines, event, sent>>

Disconnect(s) ==
  /\ reader[s] \in {"top", "flush", "wait"}
  /\ Goto(s, "gone")
  /\ sent' = [sent EXCEPT ![s] = 0]
  /\ UNCHANGED <<clock, jobVars, lines, event>>

-------------------------------------------------------------------------------

End(j) ==
  Raise(j) \/ Notified(j) \/ \E verdict \in {"done", "failed"} : Return(j, verdict)

Stream(s) == Deliver(s) \/ Close(s) \/ Await(s)

Next ==
  \/ \E j \in JobIds :
       Create(j) \/ Trigger(j) \/ Begin(j) \/ Emit(j) \/ End(j) \/ Abort(j)
  \/ \E s \in Streams : Open(s) \/ Stream(s) \/ KeepAlive(s) \/ Disconnect(s)
  \/ Tick

Spec == Init /\ [][Next]_vars

(* The event loop resumes what can go on, and every await of a job times   *)
(* out; the keepalive of a stream is not relied on.                        *)
Fairness ==
  /\ \A j \in JobIds : WF_vars(Begin(j)) /\ WF_vars(End(j))
  /\ \A s \in Streams : WF_vars(Stream(s))

FairSpec == Spec /\ Fairness

-------------------------------------------------------------------------------
(* Properties *)

(* No wake-up is lost although all streams of a job clear one event: a     *)
(* stream sleeps only on a job that has nothing new and is not over.       *)
NoLostWakeup ==
  \A s \in Streams :
    reader[s] = "wait" => ~Unread(s) /\ at[Follows[s]] # "over"

(* However long a job ran, it stays in the table until it has been over    *)
(* for MaxAge; only one whose verdict is still being notified may leave    *)
(* earlier, when it started before the cutoff.                             *)
PrunedWhenOld ==
  [][\A j \in table \ table' :
       \/ at[j] = "over" /\ endedAt[j] < clock - MaxAge
       \/ at[j] \in {"notify", "report"} /\ startedAt[j] < clock - MaxAge]_vars

(* A stream that the server ended has delivered all that its job will ever *)
(* log; of a job that ended as aborted it may lack the last line, which an *)
(* abort adds after the end when the verdict was set and being notified.   *)
StreamsComplete ==
  \A s \in Streams :
    LET job == Follows[s]
    IN reader[s] = "closed" => \/ sent[s] = lines[job]
                               \/ status[job] = "aborted" /\ sent[s] = lines[job] - 1

(* Every stream ends by itself, even one whose job left the table, and     *)
(* without help from the keepalive.                                        *)
StreamsEnd ==
  \A s \in Streams : reader[s] = "top" ~> reader[s] \in {"closed", "gone"}

(* The statuses of the jobs keep what JobLifecycle promises: whatever is   *)
(* aborted when, a job ends once, and its end is final once it is settled. *)
LifecycleSpec == Lifecycle!Spec
===============================================================================
