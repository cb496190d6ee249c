------------------------------ MODULE JobsProofs ------------------------------
(***************************************************************************)
(* For any number of jobs and streams: no stream sleeps through a line or  *)
(* the end of its job, none is ended short of a line but a late abort's,   *)
(* no job leaves the table early, and the statuses keep the safety part of *)
(* JobLifecycle.                                                           *)
(***************************************************************************)
EXTENDS Jobs, TLAPS

(* The status says where a job's coroutine can be, and the reverse.        *)
StatusFits ==
  \A j \in JobIds :
    /\ at[j] = "absent" <=> status[j] = "absent"
    /\ at[j] = "new" <=> status[j] = "pending"
    /\ at[j] = "run" <=> status[j] = "running"
    /\ at[j] = "notify" => status[j] \in {"done", "failed"}
    /\ at[j] = "report" => status[j] = "failed"
    /\ at[j] = "over" => status[j] \in Terminal

(* Only the crash and the abort lines come on top of a run's own.          *)
LinesFit == \A j \in JobIds : at[j] \notin {"report", "over"} => lines[j] <= MaxLines

OverStamped == \A j \in JobIds : at[j] = "over" <=> endedAt[j] # NoTime

JobInv ==
  /\ TypeOK
  /\ StatusFits
  /\ LinesFit
  /\ OverStamped
  /\ NoLostWakeup

-------------------------------------------------------------------------------
(* The steps that several actions are made of *)

LEMMA Constant == Follows \in [Streams -> JobIds] /\ MaxLines \in Nat /\ MaxClock \in Nat
  BY JobsAssumption

LEMMA ClockIsTime == TypeOK => clock \in Times /\ clock # NoTime
  BY Constant DEF TypeOK, Times, NoTime

(* Whoever waits after the signal of j waits for another job.              *)
LEMMA SignalWakes ==
  ASSUME TypeOK, NEW j \in JobIds, Signal(j)
  PROVE  /\ event' \in [JobIds -> BOOLEAN]
         /\ reader' \in [Streams -> Readers]
         /\ \A s \in Streams : reader'[s] = "wait" => reader[s] = "wait" /\ Follows[s] # j
  BY DEF TypeOK, Signal, Readers

(* A step that moves only the job j and signals its streams if it logs or  *)
(* ends.                                                                   *)
LEMMA JobMoves ==
  ASSUME JobInv, NEW j \in JobIds,
         NEW label \in {"run", "notify", "report", "over"},
         NEW st \in Lifecycle!Statuses, NEW count \in 0..(MaxLines + 1),
         at' = [at EXCEPT ![j] = label],
         status' = [status EXCEPT ![j] = st],
         lines' = [lines EXCEPT ![j] = count],
         endedAt' = IF label = "over" THEN [endedAt EXCEPT ![j] = clock] ELSE endedAt,
         at[j] # "over",
         label = "run" => st = "running",
         label = "notify" => st \in {"done", "failed"},
         label = "report" => st = "failed",
         label = "over" => st \in Terminal,
         label \in {"run", "notify"} => count <= MaxLines,
         Signal(j) \/ (Silent /\ count = lines[j] /\ label # "over"),
         UNCHANGED <<clock, table, startedAt, sent>>, loopDead' \in BOOLEAN
  PROVE  JobInv'
  <1>1. /\ at'[j] = label /\ status'[j] = st /\ lines'[j] = count
        /\ \A k \in JobIds \ {j} : at'[k] = at[k] /\ status'[k] = status[k]
                                   /\ lines'[k] = lines[k] /\ endedAt'[k] = endedAt[k]
        /\ endedAt'[j] = IF label = "over" THEN clock ELSE endedAt[j]
    BY DEF JobInv, TypeOK
  <1>2. /\ event' \in [JobIds -> BOOLEAN]
        /\ reader' \in [Streams -> Readers]
        /\ \A s \in Streams :
             reader'[s] = "wait" => reader[s] = "wait" /\ (Follows[s] # j \/ Silent)
    BY SignalWakes DEF JobInv, TypeOK, Silent
  <1>3. TypeOK'
    <2>1. endedAt' \in [JobIds -> Times]
      BY ClockIsTime DEF JobInv, TypeOK
    <2> QED
      BY <1>2, <2>1 DEF JobInv, TypeOK
  <1>4. StatusFits'
    BY <1>1 DEF JobInv, StatusFits, Terminal
  <1>5. LinesFit'
    BY <1>1 DEF JobInv, LinesFit
  <1>6. OverStamped'
    BY <1>1, ClockIsTime DEF JobInv, OverStamped
  <1>7. NoLostWakeup'
    <2> SUFFICES ASSUME NEW s \in Streams, reader'[s] = "wait"
                 PROVE  ~Unread(s)' /\ at'[Follows[s]] # "over"
      BY DEF NoLostWakeup
    <2>1. reader[s] = "wait" /\ ~Unread(s) /\ at[Follows[s]] # "over" /\ Follows[s] \in JobIds
      BY <1>2, Constant DEF JobInv, NoLostWakeup
    <2>2. lines'[Follows[s]] = lines[Follows[s]] /\ at'[Follows[s]] # "over"
      <3>1. CASE Follows[s] # j
        BY <1>1, <2>1, <3>1
      <3>2. CASE Follows[s] = j
        <4>1. Silent
          BY <1>2, <3>2
        <4>2. reader' = reader
          BY <4>1 DEF Silent
        <4>3. ~Signal(j)
          BY <2>1, <3>2, <4>2 DEF Signal, JobInv, TypeOK
        <4> QED
          BY <1>1, <3>2, <4>3
      <3> QED
        BY <3>1, <3>2
    <2> QED
      BY <2>1, <2>2 DEF Unread
  <1> QED
    BY <1>3, <1>4, <1>5, <1>6, <1>7 DEF JobInv

(* A step that moves only streams, and lets one wait only if it may.       *)
LEMMA StreamMoves ==
  ASSUME JobInv, NEW s \in Streams,
         NEW label \in {"top", "flush", "wait", "closed", "gone"},
         NEW count \in 0..(MaxLines + 1),
         reader' = [reader EXCEPT ![s] = label],
         sent' = [sent EXCEPT ![s] = count],
         event' \in [JobIds -> BOOLEAN],
         UNCHANGED <<clock, jobVars, lines>>,
         label = "wait" => count >= lines[Follows[s]] /\ at[Follows[s]] # "over"
  PROVE  JobInv'
  <1>1. /\ reader'[s] = label /\ sent'[s] = count
        /\ \A t \in Streams \ {s} : reader'[t] = reader[t] /\ sent'[t] = sent[t]
    BY DEF JobInv, TypeOK
  <1>2. TypeOK'
    BY DEF JobInv, TypeOK, Readers, jobVars
  <1>3. StatusFits' /\ LinesFit' /\ OverStamped'
    BY DEF JobInv, StatusFits, LinesFit, OverStamped, jobVars
  <1>4. \A t \in Streams : Follows[t] \in JobIds
    BY Constant
  <1>5. NoLostWakeup'
    <2> SUFFICES ASSUME NEW t \in Streams, reader'[t] = "wait"
                 PROVE  sent'[t] >= lines[Follows[t]] /\ at[Follows[t]] # "over"
      BY <1>4 DEF NoLostWakeup, Unread, jobVars, JobInv, TypeOK
    <2> QED
      BY <1>1, <1>4 DEF JobInv, NoLostWakeup, Unread, TypeOK
  <1> QED
    BY <1>2, <1>3, <1>5 DEF JobInv

-------------------------------------------------------------------------------
(* The actions *)

LEMMA AddedKeeps ==
  ASSUME JobInv, NEW j \in JobIds, NEW label \in {"new", "run"},
         NEW st \in {"pending", "running"}, label = "new" <=> st = "pending",
         Added(j, label, st)
  PROVE  JobInv'
  <1>1. /\ at'[j] = label /\ status'[j] = st /\ at[j] = "absent"
        /\ \A k \in JobIds \ {j} : at'[k] = at[k] /\ status'[k] = status[k]
        /\ UNCHANGED <<clock, endedAt, lines, loopDead, sent, event, reader>>
    BY DEF JobInv, TypeOK, Added, Become, Silent
  <1>2. TypeOK'
    <2>1. startedAt' \in [JobIds -> Times]
      BY ClockIsTime DEF JobInv, TypeOK, Added
    <2>2. table' \subseteq JobIds
      BY DEF JobInv, TypeOK, Added, Stale
    <2>3. at' \in [JobIds -> {"absent", "new", "run", "notify", "report", "over"}]
      BY DEF JobInv, TypeOK, Added
    <2>4. status' \in [JobIds -> Lifecycle!Statuses]
      BY DEF JobInv, TypeOK, Added, Become, Lifecycle!Statuses
    <2> QED
      BY <1>1, <2>1, <2>2, <2>3, <2>4 DEF JobInv, TypeOK
  <1>3. StatusFits'
    BY <1>1 DEF JobInv, StatusFits, Terminal
  <1>4. LinesFit' /\ OverStamped'
    BY <1>1 DEF JobInv, LinesFit, OverStamped
  <1>5. NoLostWakeup'
    BY <1>1, Constant DEF JobInv, NoLostWakeup, Unread
  <1> QED
    BY <1>2, <1>3, <1>4, <1>5 DEF JobInv

LEMMA BeginKeeps == ASSUME JobInv, NEW j \in JobIds, Begin(j) PROVE JobInv'
  <1>1. /\ at[j] = "new" /\ at'[j] = "run" /\ status'[j] = "running"
        /\ \A k \in JobIds \ {j} : at'[k] = at[k] /\ status'[k] = status[k]
        /\ UNCHANGED <<clock, table, startedAt, endedAt, lines, loopDead, sent, event, reader>>
    BY DEF JobInv, TypeOK, Begin, Become, Silent
  <1>2. TypeOK'
    BY <1>1 DEF JobInv, TypeOK, Begin, Become, Lifecycle!Statuses
  <1>3. StatusFits' /\ LinesFit' /\ OverStamped'
    BY <1>1 DEF JobInv, StatusFits, LinesFit, OverStamped, Terminal
  <1>4. NoLostWakeup'
    BY <1>1, Constant DEF JobInv, NoLostWakeup, Unread
  <1> QED
    BY <1>2, <1>3, <1>4 DEF JobInv

LEMMA EmitKeeps == ASSUME JobInv, NEW j \in JobIds, Emit(j) PROVE JobInv'
  <1>1. lines[j] \in 0..MaxLines /\ lines[j] + 1 \in 0..(MaxLines + 1)
        /\ lines[j] + 1 <= MaxLines /\ status[j] = "running"
    BY Constant DEF JobInv, TypeOK, StatusFits, Emit
  <1>2. /\ at' = [at EXCEPT ![j] = "run"] /\ status' = [status EXCEPT ![j] = "running"]
        /\ lines' = [lines EXCEPT ![j] = lines[j] + 1]
    BY <1>1 DEF JobInv, TypeOK, Emit, Log, jobVars
  <1>3. UNCHANGED <<clock, table, startedAt, endedAt, sent>> /\ loopDead' \in BOOLEAN
    BY DEF JobInv, TypeOK, Emit, jobVars
  <1>4. "running" \in Lifecycle!Statuses /\ at[j] # "over" /\ Signal(j)
    BY DEF Lifecycle!Statuses, Emit
  <1> QED
    BY <1>1, <1>2, <1>3, <1>4, JobMoves

(* What an end of j does to the other state, whichever way it comes.       *)
LEMMA OverMoves ==
  ASSUME JobInv, NEW j \in JobIds, NEW st \in Terminal, NEW count \in 0..(MaxLines + 1),
         at[j] # "over", Over(j),
         status' = [status EXCEPT ![j] = st], lines' = [lines EXCEPT ![j] = count],
         UNCHANGED <<clock, table, startedAt, sent>>, loopDead' \in BOOLEAN
  PROVE  JobInv'
  <1>1. st \in Lifecycle!Statuses
    BY DEF Terminal, Lifecycle!Statuses, Lifecycle!Terminal
  <1> QED
    BY <1>1, JobMoves DEF Over

LEMMA ReturnKeeps ==
  ASSUME JobInv, NEW j \in JobIds, NEW verdict \in {"done", "failed"}, Return(j, verdict)
  PROVE  JobInv'
  <1>1. /\ lines' = [lines EXCEPT ![j] = lines[j]] /\ lines[j] \in 0..(MaxLines + 1)
        /\ lines[j] <= MaxLines
        /\ status' = [status EXCEPT ![j] = verdict]
        /\ UNCHANGED <<clock, table, startedAt, sent>> /\ loopDead' \in BOOLEAN
        /\ at[j] # "over"
    BY DEF JobInv, TypeOK, LinesFit, Return, Become
  <1>2. verdict \in Terminal /\ verdict \in Lifecycle!Statuses
    BY DEF Terminal, Lifecycle!Statuses, Lifecycle!Terminal
  <1>3. CASE Over(j)
    BY <1>1, <1>2, <1>3, OverMoves
  <1>4. CASE at' = [at EXCEPT ![j] = "notify"] /\ UNCHANGED endedAt /\ Silent
    BY <1>1, <1>2, <1>4, JobMoves
  <1> QED
    BY <1>3, <1>4 DEF Return

LEMMA RaiseKeeps == ASSUME JobInv, NEW j \in JobIds, Raise(j) PROVE JobInv'
  <1>1. /\ lines' = [lines EXCEPT ![j] = lines[j] + 1] /\ lines[j] + 1 \in 0..(MaxLines + 1)
        /\ status' = [status EXCEPT ![j] = "failed"]
        /\ UNCHANGED <<clock, table, startedAt, sent>> /\ loopDead' \in BOOLEAN
        /\ at[j] # "over"
    BY Constant DEF JobInv, TypeOK, LinesFit, Raise, Become, Log
  <1>2. "failed" \in Terminal /\ "failed" \in Lifecycle!Statuses
    BY DEF Terminal, Lifecycle!Statuses, Lifecycle!Terminal
  <1>3. CASE Over(j)
    BY <1>1, <1>2, <1>3, OverMoves
  <1>4. CASE at' = [at EXCEPT ![j] = "report"] /\ Signal(j) /\ UNCHANGED endedAt
    BY <1>1, <1>2, <1>4, JobMoves
  <1> QED
    BY <1>3, <1>4 DEF Raise

LEMMA NotifiedKeeps == ASSUME JobInv, NEW j \in JobIds, Notified(j) PROVE JobInv'
  <1>1. /\ lines' = [lines EXCEPT ![j] = lines[j]] /\ lines[j] \in 0..(MaxLines + 1)
        /\ status' = [status EXCEPT ![j] = status[j]] /\ status[j] \in Terminal
        /\ UNCHANGED <<clock, table, startedAt, sent>> /\ loopDead' \in BOOLEAN
        /\ at[j] # "over" /\ Over(j)
    BY DEF JobInv, TypeOK, StatusFits, Notified, Terminal
  <1> QED
    BY <1>1, OverMoves

LEMMA CancelledKeeps ==
  ASSUME JobInv, NEW k \in JobIds, Cancelled(k),
         UNCHANGED <<clock, table, startedAt, sent>>, loopDead' \in BOOLEAN
  PROVE  JobInv'
  <1>1. CASE at[k] \in {"run", "notify"} /\ Become(k, "aborted") /\ Log(k)
    <2>1. lines[k] + 1 \in 0..(MaxLines + 1)
      BY <1>1, Constant DEF JobInv, TypeOK, LinesFit
    <2> QED
      BY <1>1, <2>1, OverMoves DEF Cancelled, Become, Log, Terminal
  <1>2. CASE at[k] = "report" /\ UNCHANGED <<status, lines>>
    <2>1. /\ lines' = [lines EXCEPT ![k] = lines[k]] /\ lines[k] \in 0..(MaxLines + 1)
          /\ status' = [status EXCEPT ![k] = status[k]] /\ status[k] \in Terminal
      BY <1>2 DEF JobInv, TypeOK, StatusFits, Terminal
    <2> QED
      BY <1>2, <2>1, OverMoves DEF Cancelled
  <1> QED
    BY <1>1, <1>2 DEF Cancelled

LEMMA InterruptedJobs == \A j \in JobIds : Interrupted(j) \subseteq JobIds
  BY DEF Interrupted, Live

LEMMA AbortKeeps == ASSUME JobInv, NEW j \in JobIds, Abort(j) PROVE JobInv'
  <1>1. UNCHANGED <<clock, table, startedAt, sent>> /\ loopDead' \in BOOLEAN
    BY DEF JobInv, TypeOK, Abort
  <1>2. CASE \E k \in Interrupted(j) : Cancelled(k)
    BY <1>1, <1>2, CancelledKeeps, InterruptedJobs
  <1>3. CASE UNCHANGED <<status, at, endedAt, lines>> /\ Silent
    <2>1. TypeOK'
      BY <1>1, <1>3 DEF JobInv, TypeOK, Silent
    <2>2. StatusFits' /\ LinesFit' /\ OverStamped' /\ NoLostWakeup'
      BY <1>1, <1>3
         DEF JobInv, StatusFits, LinesFit, OverStamped, NoLostWakeup, Unread, Silent
    <2> QED
      BY <2>1, <2>2 DEF JobInv
  <1> QED
    BY <1>2, <1>3 DEF Abort

LEMMA TickKeeps == ASSUME JobInv, Tick PROVE JobInv'
  <1>1. TypeOK'
    BY Constant DEF JobInv, TypeOK, Tick, jobVars
  <1>2. StatusFits' /\ LinesFit' /\ OverStamped' /\ NoLostWakeup'
    BY DEF JobInv, StatusFits, LinesFit, OverStamped, NoLostWakeup, Unread, Tick, jobVars
  <1> QED
    BY <1>1, <1>2 DEF JobInv

LEMMA StreamKeeps ==
  ASSUME JobInv, NEW s \in Streams,
         Open(s) \/ Stream(s) \/ KeepAlive(s) \/ Disconnect(s)
  PROVE  JobInv'
  <1>1. /\ Follows[s] \in JobIds
        /\ sent[s] \in 0..(MaxLines + 1) /\ lines[Follows[s]] \in 0..(MaxLines + 1)
        /\ MaxLines \in Nat
    BY Constant DEF JobInv, TypeOK
  <1>2. \A b \in BOOLEAN : [event EXCEPT ![Follows[s]] = b] \in [JobIds -> BOOLEAN]
    BY DEF JobInv, TypeOK
  <1>3. sent = [sent EXCEPT ![s] = sent[s]] /\ event \in [JobIds -> BOOLEAN]
    BY DEF JobInv, TypeOK
  <1>4. event[Follows[s]] \in BOOLEAN
    BY <1>1, <1>3
  <1>5. CASE Open(s)
    BY <1>1, <1>3, <1>5, StreamMoves DEF Open, Goto
  <1>6. CASE Deliver(s)
    <2>1. sent[s] + 1 \in 0..(MaxLines + 1)
      BY <1>1, <1>6 DEF Deliver, Unread
    <2>2. event' \in [JobIds -> BOOLEAN]
      BY <1>2, <1>4, <1>6 DEF Deliver
    <2> QED
      BY <1>6, <2>1, <2>2, StreamMoves DEF Deliver, Goto
  <1>7. CASE Close(s)
    <2>1. event' \in [JobIds -> BOOLEAN]
      BY <1>2, <1>4, <1>7 DEF Close
    <2> QED
      BY <1>1, <1>3, <1>7, <2>1, StreamMoves DEF Close, Goto
  <1>8. CASE Await(s)
    <2>1. event' \in [JobIds -> BOOLEAN]
      BY <1>2, <1>4, <1>8 DEF Await
    <2>2. sent[s] >= lines[Follows[s]] /\ at[Follows[s]] # "over"
      BY <1>1, <1>8 DEF Await, Unread, JobInv, StatusFits
    <2>3. PICK label \in {"top", "wait"} : reader' = [reader EXCEPT ![s] = label]
      BY <1>8 DEF Await, Goto
    <2>4. UNCHANGED <<clock, jobVars, lines, sent>>
      BY <1>8 DEF Await
    <2> QED
      BY <1>1, <1>3, <2>1, <2>2, <2>3, <2>4, StreamMoves
  <1>9. CASE KeepAlive(s)
    BY <1>1, <1>3, <1>9, StreamMoves DEF KeepAlive, Goto
  <1>10. CASE Disconnect(s)
    BY <1>1, <1>3, <1>10, StreamMoves, 0 \in 0..(MaxLines + 1) DEF Disconnect, Goto
  <1> QED
    BY <1>5, <1>6, <1>7, <1>8, <1>9, <1>10 DEF Stream

LEMMA InvHolds == Init => JobInv
  <1> SUFFICES ASSUME Init PROVE JobInv
    OBVIOUS
  <1>1. TypeOK
    <2>1. NoTime \in Times /\ 0 \in 0..MaxClock /\ 0 \in 0..(MaxLines + 1)
      BY Constant DEF Times
    <2>2. "absent" \in Lifecycle!Statuses
      BY DEF Lifecycle!Statuses
    <2> QED
      BY <2>1, <2>2 DEF Init, TypeOK, Readers
  <1>2. StatusFits
    BY DEF Init, StatusFits, Terminal
  <1>3. LinesFit /\ OverStamped /\ NoLostWakeup
    BY Constant DEF Init, LinesFit, OverStamped, NoLostWakeup
  <1> QED
    BY <1>1, <1>2, <1>3 DEF JobInv

LEMMA InvKept == JobInv /\ [Next]_vars => JobInv'
  <1> SUFFICES ASSUME JobInv, [Next]_vars PROVE JobInv'
    OBVIOUS
  <1>1. ASSUME NEW j \in JobIds, Create(j) PROVE JobInv'
    BY <1>1, AddedKeeps DEF Create
  <1>2. ASSUME NEW j \in JobIds, Trigger(j) PROVE JobInv'
    BY <1>2, AddedKeeps DEF Trigger
  <1>3. ASSUME NEW j \in JobIds, End(j) PROVE JobInv'
    BY <1>3, RaiseKeeps, NotifiedKeeps, ReturnKeeps DEF End
  <1>4. CASE UNCHANGED vars
    <2>1. TypeOK'
      BY <1>4 DEF vars, jobVars, JobInv, TypeOK
    <2> QED
      BY <1>4, <2>1 DEF vars, jobVars, JobInv, StatusFits, LinesFit, OverStamped,
                        NoLostWakeup, Unread
  <1> QED
    BY <1>1, <1>2, <1>3, <1>4, BeginKeeps, EmitKeeps, AbortKeeps, StreamKeeps, TickKeeps
       DEF Next

LEMMA AlwaysInv == Spec => []JobInv
  BY InvHolds, InvKept, PTL DEF Spec

-------------------------------------------------------------------------------
(* The theorems *)

(* Every variable of jobs.py keeps its type: a run that crashes or is      *)
(* aborted logs one line more than its pipeline, never two.                *)
THEOREM TypeCorrect == Spec => []TypeOK
  BY AlwaysInv, PTL DEF JobInv

(* The event all streams of a job share and clear never lets one sleep     *)
(* through a line, or through the end of the job.                          *)
THEOREM WakeupsKept == Spec => []NoLostWakeup
  BY AlwaysInv, PTL DEF JobInv

LEMMA OnlyAddingPrunes ==
  ASSUME JobInv, Next, ~ \E i \in JobIds : Create(i) \/ Trigger(i)
  PROVE  table' = table
  <1>2. ASSUME NEW j \in JobIds, Begin(j) \/ Emit(j) \/ End(j) \/ Abort(j)
        PROVE  table' = table
    BY <1>2 DEF Begin, Emit, End, Raise, Notified, Return, Abort, jobVars
  <1>3. ASSUME NEW s \in Streams, Open(s) \/ Stream(s) \/ KeepAlive(s) \/ Disconnect(s)
        PROVE  table' = table
    BY <1>3 DEF Open, Stream, Deliver, Close, Await, KeepAlive, Disconnect, jobVars
  <1>4. CASE Tick
    BY <1>4 DEF Tick, jobVars
  <1> QED
    BY <1>2, <1>3, <1>4 DEF Next

(* What prune_jobs drops was over for MaxAge, or had its verdict and began *)
(* before the cutoff: no running job leaves the table.                     *)
THEOREM PrunedLate == Spec => PrunedWhenOld
  <1>1. ASSUME JobInv, [Next]_vars, NEW j \in table \ table'
        PROVE  \/ at[j] = "over" /\ endedAt[j] < clock - MaxAge
               \/ at[j] \in {"notify", "report"} /\ startedAt[j] < clock - MaxAge
    <2>1. table' # table
      OBVIOUS
    <2>2. \E i \in JobIds : Create(i) \/ Trigger(i)
      BY <1>1, <2>1, OnlyAddingPrunes DEF vars, jobVars
    <2>3. j \in Stale
      BY <1>1, <2>2 DEF Create, Trigger, Added
    <2>4. j \in JobIds /\ status[j] \in Terminal
      BY <1>1, <2>3 DEF Stale, JobInv, TypeOK
    <2>5. at[j] \in {"notify", "report", "over"}
      BY <1>1, <2>4 DEF JobInv, TypeOK, StatusFits, Terminal
    <2> QED
      BY <1>1, <2>3, <2>4, <2>5 DEF Stale, JobInv, OverStamped
  <1>2. JobInv /\ [Next]_vars =>
          [\A j \in table \ table' :
             \/ at[j] = "over" /\ endedAt[j] < clock - MaxAge
             \/ at[j] \in {"notify", "report"} /\ startedAt[j] < clock - MaxAge]_vars
    BY <1>1
  <1> QED
    BY <1>2, AlwaysInv, PTL DEF Spec, PrunedWhenOld

-------------------------------------------------------------------------------
(* What a stream has delivered *)

(* The server ends a stream only when its job has a verdict: from there on *)
(* just the abort of a notification logs, and with it the job is over.     *)
ClosedLate ==
  \A s \in Streams :
    reader[s] = "closed" =>
      /\ at[Follows[s]] \in {"notify", "report", "over"}
      /\ \/ sent[s] = lines[Follows[s]]
         \/ /\ at[Follows[s]] = "over" /\ status[Follows[s]] = "aborted"
            /\ sent[s] = lines[Follows[s]] - 1

NeverAhead == \A s \in Streams : sent[s] <= lines[Follows[s]]

Ended == NeverAhead /\ ClosedLate

(* A step of job j: before its verdict no stream of it is closed; after it *)
(* nothing is logged but by an abort, which ends the job.                  *)
LEMMA JobEnds ==
  ASSUME JobInv, Ended, NEW j \in JobIds, sent' = sent, lines'[j] \in Int,
         \A s \in Streams : reader'[s] = "closed" => reader[s] = "closed",
         \A k \in JobIds \ {j} :
           at'[k] = at[k] /\ status'[k] = status[k] /\ lines'[k] = lines[k],
         \/ at[j] \in {"absent", "new", "run"} /\ lines'[j] >= lines[j]
         \/ /\ at[j] \in {"notify", "report"} /\ at'[j] = "over"
            /\ \/ status'[j] = status[j] /\ lines'[j] = lines[j]
               \/ status'[j] = "aborted" /\ lines'[j] = lines[j] + 1
  PROVE  Ended'
  <1>1. \A s \in Streams :
          Follows[s] \in JobIds /\ sent[s] \in Int /\ lines[Follows[s]] \in Int
    BY Constant DEF JobInv, TypeOK
  <1>3. NeverAhead'
    <2> SUFFICES ASSUME NEW s \in Streams PROVE sent'[s] <= lines'[Follows[s]]
      BY DEF NeverAhead
    <2>1. sent[s] <= lines[Follows[s]]
      BY DEF Ended, NeverAhead
    <2>2. CASE Follows[s] # j
      BY <1>1, <2>1, <2>2
    <2>3. CASE Follows[s] = j
      BY <1>1, <2>1, <2>3
    <2> QED
      BY <2>2, <2>3
  <1>4. ClosedLate'
    <2> SUFFICES ASSUME NEW s \in Streams, reader'[s] = "closed"
                 PROVE  /\ at'[Follows[s]] \in {"notify", "report", "over"}
                        /\ \/ sent'[s] = lines'[Follows[s]]
                           \/ /\ at'[Follows[s]] = "over" /\ status'[Follows[s]] = "aborted"
                              /\ sent'[s] = lines'[Follows[s]] - 1
      BY DEF ClosedLate
    <2>1. CASE Follows[s] # j
      BY <1>1, <2>1 DEF Ended, ClosedLate
    <2>2. CASE Follows[s] = j
      BY <1>1, <2>2 DEF Ended, ClosedLate
    <2> QED
      BY <2>1, <2>2
  <1> QED
    BY <1>3, <1>4 DEF Ended

LEMMA QuietEnds ==
  ASSUME Ended, UNCHANGED <<at, status, lines, sent>>,
         \A s \in Streams : reader'[s] = "closed" => reader[s] = "closed"
  PROVE  Ended'
  BY DEF Ended, NeverAhead, ClosedLate

LEMMA SignalEnds ==
  ASSUME JobInv, NEW j \in JobIds, Signal(j) \/ Silent
  PROVE  \A s \in Streams : reader'[s] = "closed" => reader[s] = "closed"
  BY DEF Signal, Silent, JobInv, TypeOK

LEMMA RunEnds ==
  ASSUME JobInv, Ended, NEW j \in JobIds,
         Create(j) \/ Trigger(j) \/ Begin(j) \/ Emit(j) \/ End(j)
  PROVE  Ended'
  <1>1. /\ sent' = sent /\ (Signal(j) \/ Silent)
        /\ \A k \in JobIds \ {j} :
             at'[k] = at[k] /\ status'[k] = status[k] /\ lines'[k] = lines[k]
    BY DEF Create, Trigger, Added, Begin, Emit, End, Raise, Notified, Return, Over, Become,
           Log, jobVars, JobInv, TypeOK
  <1>2. lines[j] \in Int /\ lines'[j] \in {lines[j], lines[j] + 1}
    BY DEF Create, Trigger, Added, Begin, Emit, End, Raise, Notified, Return, Log, JobInv, TypeOK
  <1>3. lines'[j] \in Int /\ lines'[j] >= lines[j]
    BY <1>2
  <1>4. \/ at[j] \in {"absent", "new", "run"}
        \/ /\ at[j] \in {"notify", "report"} /\ at'[j] = "over"
           /\ status'[j] = status[j] /\ lines'[j] = lines[j]
    <2>1. CASE Notified(j)
      BY <2>1 DEF Notified, Over, JobInv, TypeOK
    <2> QED
      BY <2>1 DEF Create, Trigger, Added, Begin, Emit, End, Raise, Return
  <1> QED
    BY <1>1, <1>3, <1>4, SignalEnds, JobEnds

LEMMA AbortEnds ==
  ASSUME JobInv, Ended, NEW j \in JobIds, Abort(j)
  PROVE  Ended'
  <1>1. sent' = sent
    BY DEF Abort
  <1>2. ASSUME NEW k \in JobIds, Cancelled(k) PROVE Ended'
    <2>1. /\ Signal(k)
          /\ \A i \in JobIds \ {k} :
               at'[i] = at[i] /\ status'[i] = status[i] /\ lines'[i] = lines[i]
      BY <1>2 DEF Cancelled, Over, Become, Log, JobInv, TypeOK
    <2>2. \/ at[k] = "run" /\ lines'[k] >= lines[k]
          \/ /\ at[k] \in {"notify", "report"} /\ at'[k] = "over"
             /\ \/ status'[k] = status[k] /\ lines'[k] = lines[k]
                \/ status'[k] = "aborted" /\ lines'[k] = lines[k] + 1
      BY <1>2 DEF Cancelled, Over, Become, Log, JobInv, TypeOK
    <2>3. lines'[k] \in Int
      BY <1>2, Constant DEF Cancelled, Log, JobInv, TypeOK
    <2> QED
      BY <1>1, <2>1, <2>2, <2>3, SignalEnds, JobEnds
  <1>3. CASE UNCHANGED <<status, at, endedAt, lines>> /\ Silent
    BY <1>1, <1>3, SignalEnds, QuietEnds
  <1> QED
    BY <1>2, <1>3, InterruptedJobs DEF Abort

LEMMA StreamEnds ==
  ASSUME JobInv, Ended, NEW s \in Streams,
         Open(s) \/ Stream(s) \/ KeepAlive(s) \/ Disconnect(s)
  PROVE  Ended'
  <1>1. UNCHANGED <<at, status, lines>>
    BY DEF Open, Stream, Deliver, Close, Await, KeepAlive, Disconnect, jobVars
  <1>2. \A t \in Streams \ {s} : reader'[t] = reader[t] /\ sent'[t] = sent[t]
    BY DEF Open, Stream, Deliver, Close, Await, KeepAlive, Disconnect, Goto, JobInv, TypeOK
  <1>3. reader'[s] = "closed" => Close(s)
    BY DEF Open, Stream, Deliver, Close, Await, KeepAlive, Disconnect, Goto, JobInv, TypeOK
  <1>4. ASSUME Close(s)
        PROVE  at[Follows[s]] \in {"notify", "report", "over"} /\ sent'[s] = lines[Follows[s]]
    <2>1. Follows[s] \in JobIds /\ status[Follows[s]] \in Terminal
      BY <1>4, Constant DEF Close
    <2>2. at[Follows[s]] \in {"notify", "report", "over"}
      BY <2>1 DEF JobInv, TypeOK, StatusFits, Terminal
    <2>3. sent' = sent /\ ~(sent[s] < lines[Follows[s]])
      BY <1>4 DEF Close, Unread
    <2> QED
      BY <2>1, <2>2, <2>3 DEF JobInv, TypeOK, Ended, NeverAhead
  <1>5. sent'[s] <= lines[Follows[s]]
    BY Constant DEF Open, Stream, Deliver, Close, Await, KeepAlive, Disconnect, Unread, Ended,
                    NeverAhead, JobInv, TypeOK
  <1>6. NeverAhead'
    BY <1>1, <1>2, <1>5 DEF Ended, NeverAhead
  <1>7. ClosedLate'
    BY <1>1, <1>2, <1>3, <1>4 DEF Ended, ClosedLate
  <1> QED
    BY <1>6, <1>7 DEF Ended

LEMMA EndedKept == JobInv /\ Ended /\ [Next]_vars => Ended'
  <1>1. ASSUME Ended, Tick \/ UNCHANGED vars PROVE Ended'
    BY <1>1, QuietEnds DEF Tick, vars, jobVars
  <1> QED
    BY <1>1, RunEnds, AbortEnds, StreamEnds DEF Next

LEMMA EndedHolds == Init => Ended
  BY Constant DEF Init, Ended, NeverAhead, ClosedLate

(* A stream that the server ended lacks no line of its job, but for the    *)
(* one of an abort that comes while the verdict is being notified.         *)
THEOREM StreamsKeepAll == Spec => []StreamsComplete
  <1>1. Ended => StreamsComplete
    BY DEF Ended, ClosedLate, StreamsComplete
  <1> QED
    BY <1>1, EndedHolds, EndedKept, AlwaysInv, PTL DEF Spec


-------------------------------------------------------------------------------
(* JobLifecycle *)

LifecycleSafety == Lifecycle!Init /\ [][Lifecycle!Next]_(Lifecycle!vars)

Settled == {j \in JobIds : at[j] = "over"}

LEMMA JobChanges ==
  ASSUME JobInv, NEW j \in JobIds, j \notin Settled,
         NEW label \in {"new", "run", "notify", "report"}, at' = [at EXCEPT ![j] = label]
  PROVE  Settled' = Settled
  BY DEF Settled, JobInv, TypeOK

LEMMA OverSettles ==
  ASSUME JobInv, NEW j \in JobIds, Over(j)
  PROVE  Settled' = Settled \cup {j}
  BY DEF Over, Settled, JobInv, TypeOK

LEMMA StatusStays == ASSUME UNCHANGED <<at, status>> PROVE UNCHANGED Lifecycle!vars
  BY DEF Lifecycle!vars

LEMMA ReturnRefines ==
  ASSUME JobInv, NEW j \in JobIds, NEW verdict \in {"done", "failed"}, Return(j, verdict)
  PROVE  Lifecycle!End(j)
  <1>1. /\ status[j] = "running" /\ j \notin Settled
        /\ Lifecycle!Become(j, verdict) /\ verdict \in Lifecycle!Terminal
    BY DEF Return, Become, Lifecycle!Become, Lifecycle!Terminal, JobInv, StatusFits, Settled
  <1>2. CASE Over(j)
    BY <1>1, <1>2, OverSettles DEF Lifecycle!End, Settled
  <1>3. CASE at' = [at EXCEPT ![j] = "notify"]
    <2>1. Settled' = Settled
      BY <1>1, <1>3, JobChanges
    <2> QED
      BY <1>1, <2>1 DEF Lifecycle!End, Settled
  <1> QED
    BY <1>2, <1>3 DEF Return

LEMMA RaiseRefines ==
  ASSUME JobInv, NEW j \in JobIds, Raise(j)
  PROVE  Lifecycle!End(j)
  <1>1. /\ status[j] = "running" /\ j \notin Settled
        /\ Lifecycle!Become(j, "failed") /\ "failed" \in Lifecycle!Terminal
    BY DEF Raise, Become, Lifecycle!Become, Lifecycle!Terminal, JobInv, StatusFits, Settled
  <1>2. CASE Over(j)
    BY <1>1, <1>2, OverSettles DEF Lifecycle!End, Settled
  <1>3. CASE at' = [at EXCEPT ![j] = "report"]
    <2>1. Settled' = Settled
      BY <1>1, <1>3, JobChanges
    <2> QED
      BY <1>1, <2>1 DEF Lifecycle!End, Settled
  <1> QED
    BY <1>2, <1>3 DEF Raise

LEMMA NotifiedRefines ==
  ASSUME JobInv, NEW j \in JobIds, Notified(j)
  PROVE  Lifecycle!Settle(j)
  <1>1. status[j] \in {"done", "failed"} /\ j \notin Settled /\ status' = status
    BY DEF Notified, JobInv, StatusFits, Settled
  <1> QED
    BY <1>1, OverSettles DEF Notified, Lifecycle!Settle, Settled

LEMMA CancelledRefines ==
  ASSUME JobInv, NEW k \in JobIds, Cancelled(k)
  PROVE  Lifecycle!End(k) \/ Lifecycle!Settle(k)
  <1>1. Settled' = Settled \cup {k} /\ k \notin Settled
    BY OverSettles DEF Cancelled, Settled
  <1>2. CASE at[k] = "run" /\ Become(k, "aborted")
    <2>1. status[k] = "running" /\ Lifecycle!Become(k, "aborted")
          /\ "aborted" \in Lifecycle!Terminal
      BY <1>2 DEF Become, Lifecycle!Become, Lifecycle!Terminal, JobInv, StatusFits
    <2> QED
      BY <1>1, <2>1 DEF Lifecycle!End, Settled
  <1>3. CASE at[k] = "notify" /\ Become(k, "aborted")
    BY <1>1, <1>3
       DEF Become, Lifecycle!Become, Lifecycle!Settle, JobInv, StatusFits, Settled
  <1>4. CASE at[k] = "report" /\ UNCHANGED status
    BY <1>1, <1>4 DEF Lifecycle!Settle, JobInv, StatusFits, Settled
  <1> QED
    BY <1>2, <1>3, <1>4 DEF Cancelled

LEMMA AddedRefines ==
  ASSUME JobInv, NEW j \in JobIds, NEW label \in {"new", "run"},
         NEW st \in {"pending", "running"}, Added(j, label, st)
  PROVE  Lifecycle!Create(j)
  <1>1. status[j] = "absent" /\ Lifecycle!Become(j, st) /\ j \notin Settled
    BY DEF Added, Become, Lifecycle!Become, JobInv, StatusFits, Settled
  <1>2. Settled' = Settled
    BY <1>1, JobChanges DEF Added
  <1> QED
    BY <1>1, <1>2 DEF Lifecycle!Create, Settled

LEMMA BeginRefines ==
  ASSUME JobInv, NEW j \in JobIds, Begin(j)
  PROVE  Lifecycle!Begin(j)
  <1>1. status[j] = "pending" /\ Lifecycle!Become(j, "running") /\ j \notin Settled
    BY DEF Begin, Become, Lifecycle!Become, JobInv, StatusFits, Settled
  <1>2. Settled' = Settled
    BY <1>1, JobChanges DEF Begin
  <1> QED
    BY <1>1, <1>2 DEF Lifecycle!Begin, Settled

LEMMA AbortRefines ==
  ASSUME JobInv, NEW j \in JobIds, Abort(j)
  PROVE  Lifecycle!Next \/ UNCHANGED Lifecycle!vars
  <1>1. CASE \E k \in Interrupted(j) : Cancelled(k)
    BY <1>1, InterruptedJobs, CancelledRefines DEF Lifecycle!Next
  <1>2. CASE UNCHANGED <<status, at>>
    BY <1>2, StatusStays
  <1> QED
    BY <1>1, <1>2 DEF Abort

(* Whatever is aborted when, the status of a job follows JobLifecycle: one *)
(* end, which only an abort may take back, and none once it is settled.    *)
THEOREM KeepsLifecycle == Spec => LifecycleSafety
  <1>1. Init => Lifecycle!Init
    BY DEF Init, Lifecycle!Init
  <1>2. JobInv /\ [Next]_vars => [Lifecycle!Next]_(Lifecycle!vars)
    <2> SUFFICES ASSUME JobInv, [Next]_vars
                 PROVE  Lifecycle!Next \/ UNCHANGED Lifecycle!vars
      OBVIOUS
    <2>1. ASSUME NEW j \in JobIds, Create(j) \/ Trigger(j) PROVE Lifecycle!Create(j)
      BY <2>1, AddedRefines DEF Create, Trigger
    <2>2. ASSUME NEW j \in JobIds, Emit(j) PROVE UNCHANGED Lifecycle!vars
      BY <2>2, StatusStays DEF Emit, jobVars
    <2>3. ASSUME NEW j \in JobIds, End(j) PROVE Lifecycle!End(j) \/ Lifecycle!Settle(j)
      BY <2>3, RaiseRefines, NotifiedRefines, ReturnRefines DEF End
    <2>4. ASSUME NEW s \in Streams, Open(s) \/ Stream(s) \/ KeepAlive(s) \/ Disconnect(s)
          PROVE  UNCHANGED Lifecycle!vars
      BY <2>4, StatusStays
         DEF Open, Stream, Deliver, Close, Await, KeepAlive, Disconnect, jobVars
    <2>5. CASE Tick \/ UNCHANGED vars
      BY <2>5, StatusStays DEF Tick, vars, jobVars
    <2> QED
      BY <2>1, <2>2, <2>3, <2>4, <2>5, BeginRefines, AbortRefines DEF Next, Lifecycle!Next
  <1> QED
    BY <1>1, <1>2, AlwaysInv, PTL DEF Spec, LifecycleSafety
===============================================================================
