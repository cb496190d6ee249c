------------------------------- MODULE Scheduler ------------------------------
(***************************************************************************)
(* The background loop of app/core/scheduler.py beside the schedule        *)
(* endpoints of app/api/router.py.  Both load schedules.json, change their *)
(* copy and save it; an endpoint does so in one atomic step, the loop may  *)
(* await a whole TrackerPing run between its load and its save.  A save    *)
(* may fail before or after the file is truncated; a truncated file reads  *)
(* as an empty list.                                                       *)
(*                                                                         *)
(* The list of schedules is a function on the places its entries took when *)
(* they were appended, so list order is numeric order; an entry's id is a  *)
(* field, for a POST may bring the id of another entry along.              *)
(***************************************************************************)
EXTENDS Integers, FiniteSets

CONSTANTS
  Calendars,       \* what a schedule may say (frequency, time, day, interval)
  Raising,         \* those compute_next_run raises for, as for time 25:00
  NextRun(_, _),   \* compute_next_run of the others: see ScheduleTime
  Bodies,          \* what POST and PUT requests may say
  Left,            \* what an earlier life of the process may have left on file
  MaxIds,          \* bound on the schedules ever created
  MaxClock,        \* bound on the clock
  MaxEdits,        \* bound on calls that create, update or delete
  MaxRestarts,     \* bound on restarts of the process
  MaxAborts,       \* bound on aborts of a scheduled job
  MaxFaults        \* bound on saves that fail

ASSUME SchedulerAssumption ==
  /\ MaxIds \in Nat /\ MaxClock \in Nat
  /\ MaxEdits \in Nat /\ MaxRestarts \in Nat /\ MaxAborts \in Nat /\ MaxFaults \in Nat
  /\ \A cal \in Calendars \ Raising, t \in 0..MaxClock :
       NextRun(cal, t) \in Nat /\ NextRun(cal, t) > t

VARIABLES
  clock,
  file,        \* schedules.json
  pc,          \* where the loop is suspended
  mem,         \* the loop's own copy of the list, while it fires
  checkedAt,   \* `now` of the current check
  cursor,      \* the schedule whose run the loop awaits
  abortable,   \* has this process run a scheduled job?
  created, edits, restarts, aborts, faults,   \* counters behind the bounds
  lastSlot,    \* ghost: the next_run at which each schedule last fired
  intent,      \* ghost: what the endpoints last acknowledged
  overwritten, \* ghost: has an edit come while the loop held its copy?
  damaged,     \* ghost: has a save that failed changed schedules.json?
  unsaved,     \* ghost: schedules run since the loop last saved next runs
  sent         \* ghost: schedules whose POST brought a next run of its own

disk == <<file, created, intent, sent>>
loop == <<pc, mem, checkedAt, cursor>>
ran == <<abortable, lastSlot, unsaved>>
faulty == <<faults, damaged>>
bounds == <<edits, restarts, aborts>>
vars == <<clock, disk, loop, bounds, faulty, ran, overwritten>>

-------------------------------------------------------------------------------
(* State *)

Ids == 1..MaxIds

NoTime == -1

Times == Nat \cup {NoTime}

Results == {"none", "success", "failed"}

Schedule ==
  [id : Ids, enabled : BOOLEAN, cal : Calendars, next : Times, last : Times,
   result : Results]

(* A body may set every field; its id is given apart.                      *)
Body ==
  [enabled : BOOLEAN, cal : Calendars, next : Times, last : Times, result : Results]

ASSUME BodiesAssumption ==
  /\ Bodies \subseteq Body
  /\ Left \subseteq Body
  /\ \A body \in Left : body.enabled <=> body.next # NoTime

IsList(f, S) == DOMAIN f \subseteq Ids /\ f \in [DOMAIN f -> S]

Empty == [i \in {} |-> NoTime]

TypeOK ==
  /\ clock \in 0..MaxClock
  /\ IsList(file, Schedule) /\ IsList(mem, Schedule)
  /\ pc \in {"boot", "waiting", "firing", "dead"}
  /\ checkedAt \in 0..MaxClock
  /\ cursor \in Ids \cup {0}
  /\ abortable \in BOOLEAN
  /\ created \in 0..MaxIds
  /\ edits \in 0..MaxEdits /\ restarts \in 0..MaxRestarts /\ aborts \in 0..MaxAborts
  /\ faults \in 0..MaxFaults
  /\ lastSlot \in [Ids -> Times]
  /\ IsList(intent, [enabled : BOOLEAN, cal : Calendars])
  /\ overwritten \in BOOLEAN /\ damaged \in BOOLEAN
  /\ unsaved \subseteq Ids /\ sent \subseteq Ids

Entry(id, body) ==
  [id |-> id, enabled |-> body.enabled, cal |-> body.cal, next |-> body.next,
   last |-> body.last, result |-> body.result]

Init ==
  /\ clock = 0
  /\ created \in 0..MaxIds
  /\ \E bodies \in [1..created -> Left] :
       /\ file = [i \in 1..created |-> Entry(i, bodies[i])]
       /\ intent = [i \in 1..created |-> [enabled |-> bodies[i].enabled,
                                         cal |-> bodies[i].cal]]
  /\ sent = {i \in 1..created : file[i].enabled /\ file[i].cal \in Raising}
  /\ pc = "boot" /\ mem = Empty /\ checkedAt = 0 /\ cursor = 0
  /\ edits = 0 /\ restarts = 0 /\ aborts = 0 /\ faults = 0
  /\ abortable = FALSE
  /\ lastSlot = [i \in Ids |-> NoTime]
  /\ overwritten = FALSE /\ damaged = FALSE /\ unsaved = {}

-------------------------------------------------------------------------------
(* Helpers *)

(* Faulty variant: disabled schedules get a next run like the others.      *)
RecalculateAll(list, now) ==
  [i \in DOMAIN list |->
     IF list[i].next > now THEN list[i]
     ELSE [list[i] EXCEPT !.next = NextRun(list[i].cal, now)]]

(* recalculate_next_runs: a run that is due is put off to the next slot.   *)
Recalculate(list, now) ==
  [i \in DOMAIN list |->
     IF ~list[i].enabled THEN [list[i] EXCEPT !.next = NoTime]
     ELSE IF list[i].next > now THEN list[i]
     ELSE [list[i] EXCEPT !.next = NextRun(list[i].cal, now)]]

(* Faulty variant: a time out of range is only found out when it is due.   *)
RecalculableLater(list, now) ==
  \A i \in DOMAIN list : list[i].next \in 0..now => list[i].cal \notin Raising

(* recalculate_next_runs raises when it comes to an enabled schedule whose *)
(* calendar has no next run.                                               *)
Recalculable(list, now) ==
  \A i \in DOMAIN list : list[i].enabled /\ ~(list[i].next > now) => list[i].cal \notin Raising

(* Faulty variant: only the enabled schedules are looked at, and saved.    *)
LoadedEnabled(now) ==
  [i \in {j \in DOMAIN file : file[j].enabled} |-> file[i]]

(* What a check works on: the file, with a missing next run filled in.     *)
(* EnabledIffNext shows that the files of this program never need that, so *)
(* a check raises nothing before its first run.                            *)
Loaded(now) ==
  [i \in DOMAIN file |->
     IF file[i].enabled /\ file[i].next = NoTime
     THEN [file[i] EXCEPT !.next = NextRun(file[i].cal, now)] ELSE file[i]]

(* Faulty variant: a schedule is due at its very instant only.             *)
DueNow(list, now) ==
  {i \in DOMAIN list : list[i].enabled /\ list[i].next = now}

Due(list, now) ==
  {i \in DOMAIN list : list[i].enabled /\ list[i].next \in 0..now}

IsFirst(i, S) == i \in S /\ \A j \in S : i <= j

With(list, i, entry) ==
  [j \in DOMAIN list \cup {i} |-> IF j = i THEN entry ELSE list[j]]

Without(list, S) == [j \in DOMAIN list \ S |-> list[j]]

(* The entries that share the id of entry i.                               *)
Namesakes(i) == {j \in DOMAIN file : file[j].id = file[i].id}

(* save_schedules raises.                                                  *)
SaveFails ==
  /\ faults < MaxFaults
  /\ faults' = faults + 1
  /\ file' \in {file, Empty}
  /\ damaged' = (damaged \/ file' # file)

-------------------------------------------------------------------------------
(* The loop *)

(* In start-up nothing catches what a next run or the save raises.  A list *)
(* that is saved holds no slot that was run.                               *)
Boot ==
  /\ pc = "boot"
  /\ \/ /\ Recalculable(file, clock)
        /\ pc' = "waiting" /\ file' = Recalculate(file, clock) /\ unsaved' = {}
        /\ UNCHANGED faulty
     \/ Recalculable(file, clock) /\ pc' = "dead" /\ SaveFails /\ UNCHANGED unsaved
     \/ ~Recalculable(file, clock) /\ pc' = "dead" /\ UNCHANGED <<file, faulty, unsaved>>
  /\ UNCHANGED <<clock, created, intent, sent, mem, checkedAt, cursor, bounds,
                 abortable, lastSlot, overwritten>>

(* The loop turns to schedule i of its list: last_run is set and the run   *)
(* starts.                                                                 *)
Fire(i, list, now) ==
  /\ pc' = "firing"
  /\ cursor' = i
  /\ mem' = [list EXCEPT ![i].last = now]
  /\ lastSlot' = [lastSlot EXCEPT ![i] = list[i].next]
  /\ unsaved' = unsaved \cup {i}
  /\ abortable' = TRUE

(* The check is over and the copy is dropped.                              *)
Drop ==
  /\ pc' = "waiting"
  /\ mem' = Empty
  /\ cursor' = 0

Save(list) == Drop /\ file' = list

CheckFires(i) ==
  /\ pc = "waiting"
  /\ IsFirst(i, Due(file, clock))
  /\ Fire(i, Loaded(clock), clock)
  /\ checkedAt' = clock
  /\ UNCHANGED <<clock, disk, bounds, faulty, overwritten>>

(* Only a list with a next run filled in is saved.                         *)
CheckFindsNothing ==
  /\ pc = "waiting"
  /\ Due(file, clock) = {}
  /\ Save(Loaded(clock))
  /\ checkedAt' = clock
  /\ UNCHANGED <<clock, created, intent, sent, bounds, faulty, ran, overwritten>>

(* Faulty variant: a run that failed is given a result of its own, one the *)
(* Scheduler page does not know.                                           *)
FiredUnknown(success) ==
  [mem EXCEPT ![cursor].result = IF success THEN "success" ELSE "error",
              ![cursor].next = NextRun(mem[cursor].cal, checkedAt)]

(* Faulty variant: a run that failed is due again at the next check.       *)
FiredRetries(success) ==
  [mem EXCEPT ![cursor].result = IF success THEN "success" ELSE "failed",
              ![cursor].next = IF success THEN NextRun(mem[cursor].cal, checkedAt)
                               ELSE mem[cursor].next]

(* The copy once the awaited run has ended; the rest of the list is next.  *)
Fired(success) ==
  [mem EXCEPT ![cursor].result = IF success THEN "success" ELSE "failed",
              ![cursor].next = NextRun(mem[cursor].cal, checkedAt)]

Remaining(list) == {i \in Due(list, checkedAt) : i > cursor}

RunEndsFiresNext(success, i) ==
  /\ pc = "firing"
  /\ mem[cursor].cal \notin Raising
  /\ IsFirst(i, Remaining(Fired(success)))
  /\ Fire(i, Fired(success), checkedAt)
  /\ UNCHANGED <<clock, disk, checkedAt, bounds, faulty, overwritten>>

RunEndsLast(success) ==
  /\ pc = "firing"
  /\ mem[cursor].cal \notin Raising
  /\ Remaining(Fired(success)) = {}
  /\ Save(Fired(success))
  /\ unsaved' = {}
  /\ UNCHANGED <<clock, created, intent, sent, checkedAt, bounds, faulty,
                 abortable, lastSlot, overwritten>>

(* The loop catches what a save raises, and goes on with its next check.   *)
RunEndsUnsaved(success) ==
  /\ pc = "firing"
  /\ mem[cursor].cal \notin Raising
  /\ Remaining(Fired(success)) = {}
  /\ Drop
  /\ SaveFails
  /\ UNCHANGED <<clock, created, intent, sent, checkedAt, bounds, ran, overwritten>>

(* The next run is computed outside the try around the run: what it raises *)
(* ends the check, with nothing saved and the rest of the list not looked  *)
(* at.                                                                     *)
RunEndsRaises ==
  /\ pc = "firing"
  /\ mem[cursor].cal \in Raising
  /\ Drop
  /\ UNCHANGED <<clock, disk, checkedAt, bounds, faulty, ran, overwritten>>

-------------------------------------------------------------------------------
(* The endpoints *)

(* Requests are served once start-up is over; the loop's first step comes  *)
(* before the first of them.                                               *)
Edited ==
  /\ pc # "boot"
  /\ edits < MaxEdits
  /\ edits' = edits + 1
  /\ UNCHANGED <<clock, loop, restarts, aborts, ran>>

(* The new list is saved, and the user told so.                            *)
Answered(list, wanted) ==
  /\ file' = list
  /\ intent' = wanted
  /\ overwritten' = (overwritten \/ pc = "firing")
  /\ UNCHANGED faulty

(* The answer is an error: the save failed, or a next run before it.       *)
Refused == SaveFails /\ UNCHANGED <<created, intent, sent, overwritten>>

Rejected(list) ==
  /\ ~Recalculable(list, clock)
  /\ UNCHANGED <<disk, faulty, overwritten>>

(* Puts an entry on the list and saves it, next runs recalculated.         *)
Saves(i, entry) ==
  LET list == With(file, i, entry)
  IN /\ Recalculable(list, clock)
     /\ Answered(Recalculate(list, clock),
                 With(intent, i, [enabled |-> entry.enabled, cal |-> entry.cal]))

Fails(list) == (Recalculable(list, clock) /\ Refused) \/ Rejected(list)

(* POST takes the body as it is: a next run that lies in the future is     *)
(* kept, and no other is computed.                                         *)
Create(id, body) ==
  LET i     == created + 1
      entry == Entry(id, body)
  IN /\ Edited
     /\ i \in Ids
     /\ id = i \/ id \in {file[j].id : j \in DOMAIN file}
     /\ \/ /\ Saves(i, entry)
           /\ created' = i
           /\ sent' = IF body.next > clock THEN sent \cup {i} ELSE sent
        \/ Fails(With(file, i, entry))

(* PUT replaces every field of the first entry with the id, which it keeps,*)
(* and drops a next run the body brings.  The GUI's toggle sends only      *)
(* `enabled`, so the calendar becomes the default one.                     *)
Update(i, body) ==
  LET entry == Entry(file[i].id, [body EXCEPT !.next = NoTime])
  IN /\ Edited
     /\ i \in DOMAIN file /\ IsFirst(i, Namesakes(i))
     /\ \/ Saves(i, entry) /\ UNCHANGED <<created, sent>>
        \/ Fails(With(file, i, entry))

Delete(i) ==
  /\ Edited
  /\ i \in DOMAIN file
  /\ \/ /\ Answered(Without(file, Namesakes(i)), Without(intent, Namesakes(i)))
        /\ UNCHANGED <<created, sent>>
     \/ Refused

-------------------------------------------------------------------------------
(* Around the loop *)

(* POST /api/jobs/{id}/abort of a scheduled job cancels the job's task,    *)
(* which is the loop's own: CancelledError is no Exception, so nothing in  *)
(* the loop catches it.  The job stays in the job table after it ended.    *)
Abort ==
  /\ pc \in {"waiting", "firing"}
  /\ abortable
  /\ aborts < MaxAborts
  /\ aborts' = aborts + 1
  /\ pc' = "dead"
  /\ mem' = Empty
  /\ cursor' = 0
  /\ UNCHANGED <<clock, disk, checkedAt, edits, restarts, faulty, ran, overwritten>>

Restart ==
  /\ restarts < MaxRestarts
  /\ restarts' = restarts + 1
  /\ pc' = "boot"
  /\ mem' = Empty
  /\ cursor' = 0
  /\ abortable' = FALSE
  /\ UNCHANGED <<clock, disk, checkedAt, edits, aborts, faulty, lastSlot, unsaved,
                 overwritten>>

Tick ==
  /\ clock < MaxClock
  /\ clock' = clock + 1
  /\ UNCHANGED <<disk, loop, bounds, faulty, ran, overwritten>>

Check == CheckFindsNothing \/ \E i \in Ids : CheckFires(i)

RunEnds ==
  \/ \E success \in BOOLEAN :
       \/ RunEndsLast(success)
       \/ RunEndsUnsaved(success)
       \/ \E i \in Ids : RunEndsFiresNext(success, i)
  \/ RunEndsRaises

Edit ==
  \E i \in Ids :
    \/ \E body \in Bodies : Create(i, body) \/ Update(i, body)
    \/ Delete(i)

Next == Boot \/ Check \/ RunEnds \/ Edit \/ Abort \/ Restart \/ Tick

Spec == Init /\ [][Next]_vars

(* The event loop resumes the task when its 30 seconds have passed, and    *)
(* every await of a run has a timeout.                                     *)
Fairness == WF_vars(Boot) /\ WF_vars(Check) /\ WF_vars(RunEnds)

FairSpec == Spec /\ Fairness

-------------------------------------------------------------------------------
(* Properties *)

(* A schedule has a next run exactly when it is enabled, on disk and in    *)
(* the copy the loop will save: the check can rely on it, and so can the   *)
(* Scheduler page.                                                         *)
EnabledIffNext ==
  /\ \A i \in DOMAIN file : file[i].enabled <=> file[i].next # NoTime
  /\ \A i \in DOMAIN mem : mem[i].enabled <=> mem[i].next # NoTime

(* The next run of an enabled schedule can be computed when it comes due,  *)
(* unless it came with the POST: recalculate_next_runs looks no further    *)
(* than a next run that lies in the future, so there, and nowhere else, a  *)
(* time no day has gets past the endpoints.                                *)
RaisesOnlyIfSent ==
  /\ \A i \in DOMAIN file : file[i].enabled /\ file[i].cal \in Raising => i \in sent
  /\ \A i \in DOMAIN mem : mem[i].enabled /\ mem[i].cal \in Raising => i \in sent

(* Its slot was not run yet, or the check that ran it saved nothing.       *)
Open(list, i) ==
  \/ list[i].next > lastSlot[i]
  \/ i \in unsaved /\ list[i].next = lastSlot[i]

(* No slot is run twice: whatever edits, aborts and restarts come between  *)
(* the load and the save, a slot that a check can still find due is later  *)
(* than every slot that fired.  Only a check that saved nothing after its  *)
(* runs makes the next one repeat them, and that takes a save that failed  *)
(* or a next run that came with a POST and was followed by none.           *)
AtMostOncePerSlot ==
  /\ pc = "waiting" => \A i \in DOMAIN file : file[i].enabled => Open(file, i)
  /\ pc = "firing" => \A i \in Remaining(mem) : Open(mem, i)
  /\ pc = "waiting" /\ unsaved # {} => faults > 0 \/ sent # {}

Visible(list) ==
  [i \in DOMAIN list |-> [enabled |-> list[i].enabled, cal |-> list[i].cal]]

(* The loop's own saves lose nothing the endpoints acknowledged, as long   *)
(* as no edit came while it awaited a run and no save cut the file off.    *)
EditsKept == ~overwritten /\ ~damaged => Visible(file) = intent

(* scheduler.py:128, "If next_run was already in the past (container was   *)
(* down), it stays due": recalculation does not put off a due schedule.    *)
StaysDue ==
  [][pc = "boot" /\ pc' = "waiting" =>
       \A i \in Due(file, clock) : file'[i].next = file[i].next]_vars

(* scheduler.py:5, "checks all enabled schedules, and fires any that are   *)
(* due": every slot that comes due is run.                                 *)
EachDueFires ==
  \A i \in Ids, t \in 0..MaxClock :
    (pc # "boot" /\ i \in Due(file, clock) /\ file[i].next = t)
      ~> (lastSlot[i] = t)

(* ... which the loop does as long as nobody edits the schedules, restarts *)
(* the process or aborts a scheduled job, no save fails, and no schedule   *)
(* that stands before it on the list ends the check.                       *)
EachDueFiresAlone ==
  \A i \in Ids, t \in 0..MaxClock :
    (pc \in {"waiting", "firing"} /\ i \in Due(file, clock) /\ file[i].next = t)
      ~> \/ lastSlot[i] = t
         \/ edits + restarts + aborts + faults > 0
         \/ \E j \in Due(file, clock) : j < i /\ file[j].cal \in Raising
===============================================================================
