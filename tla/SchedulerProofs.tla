---------------------------- MODULE SchedulerProofs ----------------------------
(***************************************************************************)
(* Whatever edits, aborts, restarts and failing saves come between the     *)
(* loop's load and its save, for every calendar whose next run, where it   *)
(* has one, lies in the future, and whatever next runs the clients send: a *)
(* schedule has a next run exactly when it is enabled, one that cannot be  *)
(* computed came with its POST, no slot is run twice unless a check ends   *)
(* without saving, and the loop's saves lose no edit made while it waited. *)
(***************************************************************************)
EXTENDS Scheduler, TLAPS

Consistent(list) == \A i \in DOMAIN list : list[i].enabled <=> list[i].next # NoTime

Orderly(list) == IsList(list, Schedule) /\ Consistent(list)

LEMMA NextRunLater ==
  ASSUME NEW cal \in Calendars \ Raising, NEW now \in 0..MaxClock
  PROVE  NextRun(cal, now) \in Nat /\ NextRun(cal, now) > now
                                   /\ NextRun(cal, now) # NoTime
  BY SchedulerAssumption DEF NoTime

LEMMA ClockNat == \A now \in 0..MaxClock : now \in Nat
  BY SchedulerAssumption

-------------------------------------------------------------------------------
(* What the helpers make of a list *)

LEMMA RecalculateOrderly ==
  ASSUME NEW list, IsList(list, Schedule), NEW now \in 0..MaxClock,
         Recalculable(list, now)
  PROVE  /\ Orderly(Recalculate(list, now))
         /\ \A i \in DOMAIN Recalculate(list, now) :
              Recalculate(list, now)[i].enabled => Recalculate(list, now)[i].next > now
         /\ Visible(Recalculate(list, now)) = Visible(list)
  <1> DEFINE new == Recalculate(list, now)
  <1>1. DOMAIN new = DOMAIN list
    BY DEF Recalculate
  <1>2. ASSUME NEW i \in DOMAIN list
        PROVE  /\ new[i] \in Schedule
               /\ new[i].enabled <=> new[i].next # NoTime
               /\ new[i].enabled => new[i].next > now
               /\ new[i].enabled = list[i].enabled /\ new[i].cal = list[i].cal
    <2>1. list[i] \in Schedule
      BY DEF IsList
    <2>3. CASE ~list[i].enabled
      <3>1. new[i] = [list[i] EXCEPT !.next = NoTime]
        BY <2>3 DEF Recalculate
      <3> QED
        BY <2>1, <2>3, <3>1 DEF Schedule, Times, Results
    <2>4. CASE list[i].enabled /\ list[i].next > now
      <3>1. new[i] = list[i]
        BY <2>4 DEF Recalculate
      <3>2. now \in Nat /\ list[i].next # NoTime
        BY <2>1, <2>4, ClockNat DEF Schedule, Times, Results, NoTime
      <3> HIDE DEF new
      <3> QED
        BY <2>1, <2>4, <3>1, <3>2
    <2>5. CASE list[i].enabled /\ ~(list[i].next > now)
      <3>1. new[i] = [list[i] EXCEPT !.next = NextRun(list[i].cal, now)]
        BY <2>5 DEF Recalculate
      <3>2. list[i].cal \in Calendars \ Raising
        BY <2>1, <2>5 DEF Schedule, Recalculable
      <3>3. /\ NextRun(list[i].cal, now) \in Nat /\ NextRun(list[i].cal, now) > now
            /\ NextRun(list[i].cal, now) # NoTime
        BY <3>2, NextRunLater
      <3>4. /\ new[i].next = NextRun(list[i].cal, now) /\ new[i].cal = list[i].cal
            /\ new[i].enabled = list[i].enabled
        BY <2>1, <3>1 DEF Schedule
      <3>5. new[i] \in Schedule
        BY <2>1, <3>1, <3>3 DEF Schedule, Times
      <3> HIDE DEF new
      <3> QED
        BY <2>5, <3>3, <3>4, <3>5
    <2> QED
      BY <2>3, <2>4, <2>5
  <1>3. new \in [DOMAIN new -> Schedule]
    BY <1>1, <1>2 DEF Recalculate
  <1> HIDE DEF new
  <1>4. IsList(new, Schedule) /\ Consistent(new)
    BY <1>1, <1>2, <1>3 DEF IsList, Consistent
  <1>5. \A i \in DOMAIN new : new[i].enabled => new[i].next > now
    BY <1>1, <1>2
  <1>6. Visible(new) = Visible(list)
    BY <1>1, <1>2 DEF Visible
  <1> QED
    BY <1>4, <1>5, <1>6 DEF Orderly, new

(* With next runs that are consistent, a check has none to fill in.        *)
LEMMA LoadedIsFile ==
  ASSUME Orderly(file), NEW now
  PROVE  Loaded(now) = file
  <1>1. file = [i \in DOMAIN file |-> file[i]]
    BY DEF Orderly, IsList
  <1>2. \A i \in DOMAIN file : ~(file[i].enabled /\ file[i].next = NoTime)
    BY DEF Orderly, Consistent
  <1>3. Loaded(now) = [i \in DOMAIN file |-> file[i]]
    BY <1>2 DEF Loaded
  <1> QED
    BY <1>1, <1>3

LEMMA FiredOrderly ==
  ASSUME Orderly(mem), cursor \in DOMAIN mem, mem[cursor].enabled,
         mem[cursor].cal \notin Raising, checkedAt \in 0..MaxClock, NEW success \in BOOLEAN
  PROVE  /\ Orderly(Fired(success))
         /\ DOMAIN Fired(success) = DOMAIN mem
         /\ \A i \in DOMAIN mem \ {cursor} : Fired(success)[i] = mem[i]
         /\ Fired(success)[cursor].enabled
         /\ Fired(success)[cursor].next > checkedAt
         /\ Visible(Fired(success)) = Visible(mem)
  <1> DEFINE new == Fired(success)
             result == IF success THEN "success" ELSE "failed"
  <1>1. mem[cursor] \in Schedule /\ mem[cursor].cal \in Calendars \ Raising
    BY DEF Orderly, IsList, Schedule
  <1>2. /\ NextRun(mem[cursor].cal, checkedAt) \in Nat
        /\ NextRun(mem[cursor].cal, checkedAt) > checkedAt
        /\ NextRun(mem[cursor].cal, checkedAt) # NoTime
    BY <1>1, NextRunLater
  <1>3. /\ DOMAIN new = DOMAIN mem
        /\ \A i \in DOMAIN mem \ {cursor} : new[i] = mem[i]
        /\ new[cursor] = [mem[cursor] EXCEPT !.result = result,
                            !.next = NextRun(mem[cursor].cal, checkedAt)]
        /\ new \in [DOMAIN mem -> {new[i] : i \in DOMAIN mem}]
    BY DEF Fired, Orderly, IsList
  <1> HIDE DEF new
  <1>4. /\ new[cursor] \in Schedule
        /\ new[cursor].enabled
        /\ new[cursor].next = NextRun(mem[cursor].cal, checkedAt)
        /\ new[cursor].cal = mem[cursor].cal
    BY <1>1, <1>2, <1>3 DEF Schedule, Times, Results
  <1>5. \A i \in DOMAIN mem : new[i] \in Schedule
    BY <1>3, <1>4 DEF Orderly, IsList
  <1>6. IsList(new, Schedule)
    BY <1>3, <1>5 DEF Orderly, IsList
  <1>7. Consistent(new)
    BY <1>1, <1>2, <1>3, <1>4 DEF Orderly, Consistent
  <1>8. \A i \in DOMAIN mem : new[i].enabled = mem[i].enabled /\ new[i].cal = mem[i].cal
    BY <1>1, <1>3, <1>4 DEF Schedule, Times, Results
  <1>9. Visible(new) = Visible(mem)
    BY <1>3, <1>8 DEF Visible
  <1> QED
    BY <1>2, <1>3, <1>4, <1>6, <1>7, <1>9 DEF Orderly, new

LEMMA EmptyOrderly == Orderly(Empty) /\ DOMAIN Empty = {}
  BY DEF Orderly, IsList, Consistent, Empty

LEMMA EntrySchedule ==
  ASSUME NEW id \in Ids, NEW body \in Body
  PROVE  /\ Entry(id, body) \in Schedule
         /\ Entry(id, body).enabled = body.enabled /\ Entry(id, body).cal = body.cal
         /\ Entry(id, body).next = body.next
         /\ [body EXCEPT !.next = NoTime] \in Body
  BY DEF Entry, Body, Schedule, Times

(* A list an endpoint is about to save.                                    *)
LEMMA WithList ==
  ASSUME Orderly(file), NEW i \in Ids, NEW entry \in Schedule
  PROVE  /\ IsList(With(file, i, entry), Schedule)
         /\ Visible(With(file, i, entry))
              = With(Visible(file), i, [enabled |-> entry.enabled, cal |-> entry.cal])
  <1>1. IsList(With(file, i, entry), Schedule)
    BY DEF With, IsList, Orderly
  <1>2. Visible(With(file, i, entry))
          = With(Visible(file), i, [enabled |-> entry.enabled, cal |-> entry.cal])
    BY DEF Visible, With
  <1> QED
    BY <1>1, <1>2

LEMMA WithoutList ==
  ASSUME Orderly(file), NEW S
  PROVE  /\ Orderly(Without(file, S))
         /\ DOMAIN Without(file, S) = DOMAIN file \ S
         /\ \A j \in DOMAIN file \ S : Without(file, S)[j] = file[j]
  <1> DEFINE new == Without(file, S)
  <1>1. /\ DOMAIN new = DOMAIN file \ S
        /\ \A j \in DOMAIN new : new[j] = file[j]
        /\ new \in [DOMAIN new -> {new[j] : j \in DOMAIN new}]
    BY DEF Without
  <1> HIDE DEF new
  <1>2. \A j \in DOMAIN new : new[j] \in Schedule
    BY <1>1 DEF Orderly, IsList
  <1>3. IsList(new, Schedule)
    BY <1>1, <1>2 DEF Orderly, IsList
  <1>4. Consistent(new)
    BY <1>1 DEF Orderly, Consistent
  <1> QED
    BY <1>1, <1>3, <1>4 DEF Orderly, new

-------------------------------------------------------------------------------
(* Types, and lists that can be relied on *)

(* While the loop awaits a run, its copy holds the schedule that runs.     *)
Typed ==
  /\ TypeOK
  /\ Orderly(file) /\ Orderly(mem)
  /\ pc = "firing" => cursor \in DOMAIN mem /\ mem[cursor].enabled

(* What an edit may do to the file, the identities and the intent.         *)
FileTyped ==
  /\ Orderly(file)
  /\ created \in 0..MaxIds /\ sent \subseteq Ids
  /\ IsList(intent, [enabled : BOOLEAN, cal : Calendars])
  /\ overwritten \in BOOLEAN /\ damaged \in BOOLEAN
  /\ faults \in 0..MaxFaults

LEMMA InitTyped == Init => Typed
  <1> SUFFICES ASSUME Init PROVE Typed
    OBVIOUS
  <1>1. created \in 0..MaxIds /\ 1..created \subseteq Ids
    BY SchedulerAssumption DEF Init, Ids
  <1>2. PICK bodies \in [1..created -> Left] :
          /\ file = [i \in 1..created |-> Entry(i, bodies[i])]
          /\ intent = [i \in 1..created |-> [enabled |-> bodies[i].enabled,
                                            cal |-> bodies[i].cal]]
    BY DEF Init
  <1>3. ASSUME NEW i \in 1..created
        PROVE  /\ file[i] \in Schedule /\ (file[i].enabled <=> file[i].next # NoTime)
               /\ intent[i] \in [enabled : BOOLEAN, cal : Calendars]
    <2>1. i \in Ids /\ bodies[i] \in Left /\ bodies[i] \in Body
      BY <1>1, BodiesAssumption
    <2>2. file[i] = Entry(i, bodies[i])
          /\ intent[i] = [enabled |-> bodies[i].enabled, cal |-> bodies[i].cal]
      BY <1>2
    <2>3. bodies[i].enabled <=> bodies[i].next # NoTime
      BY <2>1, BodiesAssumption
    <2>4. bodies[i].enabled \in BOOLEAN /\ bodies[i].cal \in Calendars
      BY <2>1 DEF Body
    <2>5. intent[i] \in [enabled : BOOLEAN, cal : Calendars]
      BY <2>2, <2>4
    <2>6. /\ Entry(i, bodies[i]) \in Schedule
          /\ Entry(i, bodies[i]).enabled = bodies[i].enabled
          /\ Entry(i, bodies[i]).next = bodies[i].next
      BY <2>1, EntrySchedule, Zenon
    <2> QED
      BY <2>2, <2>3, <2>5, <2>6, Zenon
  <1>4. Orderly(file)
    BY <1>1, <1>2, <1>3 DEF Orderly, IsList, Consistent
  <1>5. IsList(intent, [enabled : BOOLEAN, cal : Calendars]) /\ sent \subseteq Ids
    <2>1. sent \subseteq 1..created
      BY DEF Init
    <2> QED
      BY <1>1, <1>2, <1>3, <2>1 DEF IsList
  <1>6. lastSlot \in [Ids -> Times]
    BY DEF Init, Times
  <1>7. /\ clock = 0 /\ checkedAt = 0 /\ cursor = 0 /\ pc = "boot" /\ mem = Empty
        /\ edits = 0 /\ restarts = 0 /\ aborts = 0 /\ faults = 0 /\ unsaved = {}
        /\ abortable = FALSE /\ overwritten = FALSE /\ damaged = FALSE
    BY DEF Init
  <1>8. TypeOK
    <2>1. IsList(file, Schedule) /\ IsList(mem, Schedule)
      BY <1>4, <1>7, EmptyOrderly DEF Orderly
    <2>2. abortable \in BOOLEAN /\ overwritten \in BOOLEAN /\ damaged \in BOOLEAN
      BY <1>7
    <2>3. \A m \in Nat : 0 \in 0..m
      OBVIOUS
    <2>4. /\ clock \in 0..MaxClock /\ checkedAt \in 0..MaxClock /\ cursor \in Ids \cup {0}
          /\ edits \in 0..MaxEdits /\ restarts \in 0..MaxRestarts
          /\ aborts \in 0..MaxAborts /\ faults \in 0..MaxFaults /\ unsaved \subseteq Ids
      BY <1>7, <2>3, SchedulerAssumption
    <2> QED
      BY <1>1, <1>5, <1>6, <1>7, <2>1, <2>2, <2>4 DEF TypeOK
  <1> QED
    BY <1>4, <1>7, <1>8, EmptyOrderly DEF Typed

LEMMA SaveFailsTyped ==
  ASSUME Typed, SaveFails
  PROVE  /\ Orderly(file') /\ faults' \in 0..MaxFaults /\ damaged' \in BOOLEAN
         /\ file' = file \/ DOMAIN file' = {}
         /\ ~damaged' => ~damaged /\ file' = file
  <1>1. faults' \in 0..MaxFaults
    BY SchedulerAssumption DEF Typed, TypeOK, SaveFails
  <1>2. Orderly(file') /\ (file' = file \/ DOMAIN file' = {})
    <2>1. file' = file \/ file' = Empty
      BY DEF SaveFails
    <2>2. CASE file' = file
      BY <2>2 DEF Typed, Orderly, IsList, Consistent
    <2>3. CASE file' = Empty
      BY <2>3, EmptyOrderly
    <2> QED
      BY <2>1, <2>2, <2>3
  <1>3. damaged' = (damaged \/ file' # file)
    BY DEF SaveFails
  <1>4. damaged \in BOOLEAN
    BY DEF Typed, TypeOK
  <1>5. damaged' \in BOOLEAN /\ (~damaged' => ~damaged /\ file' = file)
    BY ONLY <1>3, <1>4, Zenon
  <1> QED
    BY <1>1, <1>2, <1>5

LEMMA BootTyped == Typed /\ Boot => Typed'
  <1> SUFFICES ASSUME Typed, Boot PROVE Typed'
    OBVIOUS
  <1> USE DEF Typed, TypeOK, bounds, faulty, Orderly, IsList, Consistent
  <1>1. CASE /\ Recalculable(file, clock)
             /\ pc' = "waiting" /\ file' = Recalculate(file, clock) /\ unsaved' = {}
             /\ UNCHANGED faulty
    <2>1. Orderly(file')
      BY <1>1, RecalculateOrderly
    <2> QED
      BY <1>1, <2>1 DEF Boot
  <1>2. CASE pc' = "dead" /\ SaveFails /\ UNCHANGED unsaved
    BY <1>2, SaveFailsTyped DEF Boot
  <1>3. CASE pc' = "dead" /\ UNCHANGED <<file, faulty, unsaved>>
    BY <1>3 DEF Boot
  <1> QED
    BY <1>1, <1>2, <1>3 DEF Boot

(* A schedule that fires stays what it was.                                *)
LEMMA FireList ==
  ASSUME NEW list, Orderly(list), NEW now \in 0..MaxClock, NEW i \in Due(list, now),
         Fire(i, list, now)
  PROVE  /\ i \in DOMAIN list /\ i \in Ids /\ list[i].enabled /\ list[i].next \in 0..now
         /\ Orderly(mem') /\ DOMAIN mem' = DOMAIN list
         /\ \A j \in DOMAIN list : mem'[j].enabled = list[j].enabled /\ mem'[j].next = list[j].next
         /\ \A j \in DOMAIN list \ {i} : mem'[j] = list[j]
         /\ unsaved' = unsaved \cup {i}
         /\ Visible(mem') = Visible(list)
         /\ pc' = "firing" /\ cursor' = i
  <1>1. /\ i \in DOMAIN list /\ i \in Ids /\ list[i] \in Schedule
        /\ list[i].enabled /\ list[i].next \in 0..now
    BY DEF Due, Orderly, IsList
  <1>2. /\ DOMAIN mem' = DOMAIN list
        /\ \A j \in DOMAIN list \ {i} : mem'[j] = list[j]
        /\ mem'[i] = [list[i] EXCEPT !.last = now]
        /\ mem' \in [DOMAIN list -> {mem'[j] : j \in DOMAIN list}]
    BY <1>1 DEF Fire, Orderly, IsList
  <1>3. /\ mem'[i] \in Schedule /\ mem'[i].enabled /\ mem'[i].next = list[i].next
        /\ mem'[i].cal = list[i].cal
    BY <1>1, <1>2, ClockNat DEF Schedule, Times, Results
  <1>4. \A j \in DOMAIN list : mem'[j] \in Schedule
    BY <1>2, <1>3 DEF Orderly, IsList
  <1>5. IsList(mem', Schedule)
    BY <1>2, <1>4 DEF Orderly, IsList
  <1>6. \A j \in DOMAIN list : /\ mem'[j].enabled = list[j].enabled
                               /\ mem'[j].next = list[j].next
                               /\ mem'[j].cal = list[j].cal
    <2>1. mem'[i].enabled = list[i].enabled
      BY <1>1, <1>2 DEF Schedule, Times, Results
    <2> QED
      BY <1>2, <1>3, <2>1
  <1>7. Consistent(mem')
    BY <1>2, <1>6 DEF Orderly, Consistent
  <1>8. Visible(mem') = Visible(list)
    BY <1>2, <1>6 DEF Visible
  <1> QED
    BY <1>1, <1>2, <1>3, <1>5, <1>6, <1>7, <1>8 DEF Orderly, Fire

LEMMA FireTyped ==
  ASSUME Typed, NEW list, Orderly(list), NEW now \in 0..MaxClock,
         NEW i \in Due(list, now), Fire(i, list, now), checkedAt' = now,
         UNCHANGED <<clock, disk, bounds, faulty, overwritten>>
  PROVE  Typed'
  <1>1. /\ i \in Ids /\ list[i].next \in 0..now /\ Orderly(mem') /\ i \in DOMAIN mem'
        /\ mem'[i].enabled /\ pc' = "firing" /\ cursor' = i
        /\ unsaved' = unsaved \cup {i}
    BY FireList
  <1>2. /\ lastSlot' = [lastSlot EXCEPT ![i] = list[i].next] /\ abortable' = TRUE
    BY DEF Fire
  <1>3. lastSlot' \in [Ids -> Times]
    BY <1>1, <1>2, ClockNat DEF Typed, TypeOK, Times
  <1> QED
    BY <1>1, <1>2, <1>3 DEF Typed, TypeOK, disk, bounds, faulty, Orderly, IsList,
       Consistent

LEMMA CheckTyped == Typed /\ Check => Typed'
  <1> SUFFICES ASSUME Typed, Check PROVE Typed'
    OBVIOUS
  <1>1. Loaded(clock) = file /\ clock \in 0..MaxClock /\ Orderly(file)
    BY LoadedIsFile DEF Typed, TypeOK
  <1>2. CASE CheckFindsNothing
    <2>1. /\ file' = file /\ mem' = Empty /\ cursor' = 0 /\ pc' = "waiting"
          /\ checkedAt' = clock
          /\ UNCHANGED <<clock, created, intent, sent, bounds, faulty, ran, overwritten>>
      BY <1>1, <1>2 DEF CheckFindsNothing, Save, Drop
    <2>2. Orderly(mem')
      BY <2>1, EmptyOrderly
    <2> QED
      BY <1>1, <2>1, <2>2 DEF Typed, TypeOK, bounds, faulty, ran, Orderly, IsList,
         Consistent
  <1>3. ASSUME NEW i \in Ids, CheckFires(i) PROVE Typed'
    BY <1>1, <1>3, FireTyped DEF CheckFires, IsFirst
  <1> QED
    BY <1>2, <1>3 DEF Check

LEMMA RunEndsTyped == Typed /\ RunEnds => Typed'
  <1> SUFFICES ASSUME Typed, RunEnds PROVE Typed'
    OBVIOUS
  <1>1. ASSUME NEW success \in BOOLEAN, mem[cursor].cal \notin Raising, pc = "firing"
        PROVE  checkedAt \in 0..MaxClock /\ Orderly(Fired(success))
    BY <1>1, FiredOrderly DEF Typed, TypeOK
  <1>2. ASSUME NEW success \in BOOLEAN, RunEndsLast(success) PROVE Typed'
    <2>1. /\ file' = Fired(success) /\ mem' = Empty /\ cursor' = 0 /\ pc' = "waiting"
          /\ unsaved' = {}
          /\ UNCHANGED <<clock, created, intent, sent, checkedAt, bounds, faulty,
                         abortable, lastSlot, overwritten>>
      BY <1>2 DEF RunEndsLast, Save, Drop
    <2>2. Orderly(mem') /\ Orderly(file')
      BY <1>1, <1>2, <2>1, EmptyOrderly DEF RunEndsLast
    <2> QED
      BY <2>1, <2>2 DEF Typed, TypeOK, bounds, faulty, Orderly, IsList, Consistent
  <1>3. ASSUME NEW success \in BOOLEAN, RunEndsUnsaved(success) PROVE Typed'
    <2>1. /\ mem' = Empty /\ cursor' = 0 /\ pc' = "waiting"
          /\ UNCHANGED <<clock, created, intent, sent, checkedAt, bounds, ran, overwritten>>
      BY <1>3 DEF RunEndsUnsaved, Drop
    <2>2. Orderly(mem')
      BY <2>1, EmptyOrderly
    <2>3. Orderly(file') /\ faults' \in 0..MaxFaults /\ damaged' \in BOOLEAN
      BY <1>3, SaveFailsTyped DEF RunEndsUnsaved
    <2> QED
      BY <2>1, <2>2, <2>3 DEF Typed, TypeOK, bounds, ran, Orderly, IsList, Consistent
  <1>4. ASSUME NEW success \in BOOLEAN, NEW i \in Ids, RunEndsFiresNext(success, i)
        PROVE  Typed'
    <2> DEFINE list == Fired(success)
    <2>1. /\ i \in Due(list, checkedAt) /\ Fire(i, list, checkedAt)
          /\ checkedAt' = checkedAt /\ UNCHANGED <<clock, disk, bounds, faulty, overwritten>>
          /\ checkedAt \in 0..MaxClock /\ Orderly(list)
      BY <1>1, <1>4 DEF RunEndsFiresNext, IsFirst, Remaining
    <2> HIDE DEF list
    <2> QED
      BY <2>1, FireTyped
  <1>5. CASE RunEndsRaises
    <2>1. /\ mem' = Empty /\ cursor' = 0 /\ pc' = "waiting"
          /\ UNCHANGED <<clock, disk, checkedAt, bounds, faulty, ran, overwritten>>
      BY <1>5 DEF RunEndsRaises, Drop
    <2>2. Orderly(mem')
      BY <2>1, EmptyOrderly
    <2> QED
      BY <2>1, <2>2 DEF Typed, TypeOK, disk, bounds, faulty, ran, Orderly, IsList, Consistent
  <1> QED
    BY <1>2, <1>3, <1>4, <1>5 DEF RunEnds

(* An edit leaves the loop alone.                                          *)
LEMMA EditedTyped ==
  ASSUME Typed, Edited, FileTyped'
  PROVE  Typed'
  <1>1. edits' \in 0..MaxEdits
    BY SchedulerAssumption DEF Typed, TypeOK, Edited
  <1> QED
    BY <1>1 DEF Typed, TypeOK, Edited, FileTyped, loop, ran, Orderly, IsList, Consistent

LEMMA AnsweredTyped ==
  ASSUME Typed, created' \in 0..MaxIds, sent' \subseteq Ids, NEW list, Orderly(list), NEW wanted,
         IsList(wanted, [enabled : BOOLEAN, cal : Calendars]), Answered(list, wanted)
  PROVE  FileTyped'
  <1>1. /\ file' = list /\ intent' = wanted /\ UNCHANGED faulty
        /\ overwritten' = (overwritten \/ pc = "firing")
    BY DEF Answered
  <1>2. Orderly(file') /\ IsList(intent', [enabled : BOOLEAN, cal : Calendars])
    BY <1>1
  <1>3. overwritten \in BOOLEAN
    BY DEF Typed, TypeOK
  <1>4. overwritten' \in BOOLEAN
    BY ONLY <1>1, <1>3, Zenon
  <1> QED
    BY <1>1, <1>2, <1>4
       DEF FileTyped, Typed, TypeOK, faulty, Orderly, IsList, Consistent

LEMMA FailsTyped ==
  ASSUME Typed, NEW list, Refused \/ Rejected(list)
  PROVE  FileTyped'
  <1>1. CASE Refused
    <2>1. Orderly(file') /\ faults' \in 0..MaxFaults /\ damaged' \in BOOLEAN
      BY <1>1, SaveFailsTyped DEF Refused
    <2> QED
      BY <1>1, <2>1 DEF Refused, FileTyped, Typed, TypeOK, Orderly, IsList, Consistent
  <1>2. CASE Rejected(list)
    BY <1>2 DEF Rejected, disk, faulty, FileTyped, Typed, TypeOK, Orderly, IsList, Consistent
  <1> QED
    BY <1>1, <1>2

LEMMA SavesTyped ==
  ASSUME Typed, created' \in 0..MaxIds, sent' \subseteq Ids, NEW i \in Ids,
         NEW entry \in Schedule, Saves(i, entry)
  PROVE  FileTyped'
  <1> DEFINE list == With(file, i, entry)
             wanted == With(intent, i, [enabled |-> entry.enabled, cal |-> entry.cal])
  <1>1. clock \in 0..MaxClock /\ Orderly(file) /\ Recalculable(list, clock)
    BY DEF Typed, TypeOK, Saves
  <1>2. IsList(list, Schedule)
    BY <1>1, WithList
  <1>3. IsList(wanted, [enabled : BOOLEAN, cal : Calendars])
    <2>1. entry.enabled \in BOOLEAN /\ entry.cal \in Calendars
      BY DEF Schedule
    <2>2. [enabled |-> entry.enabled, cal |-> entry.cal] \in [enabled : BOOLEAN, cal : Calendars]
      BY <2>1
    <2> QED
      BY <2>2 DEF With, IsList, Typed, TypeOK
  <1>4. Answered(Recalculate(list, clock), wanted)
    BY DEF Saves
  <1> HIDE DEF list, wanted
  <1>5. Orderly(Recalculate(list, clock))
    BY <1>1, <1>2, RecalculateOrderly
  <1> QED
    BY <1>3, <1>4, <1>5, AnsweredTyped

LEMMA DeleteTyped ==
  ASSUME Typed, NEW S, Answered(Without(file, S), Without(intent, S)),
         UNCHANGED <<created, sent>>
  PROVE  FileTyped'
  <1>1. IsList(Without(intent, S), [enabled : BOOLEAN, cal : Calendars])
    BY DEF Without, IsList, Typed, TypeOK
  <1>2. Orderly(Without(file, S)) /\ created' \in 0..MaxIds /\ sent' \subseteq Ids
    BY WithoutList DEF Typed, TypeOK
  <1> QED
    BY <1>1, <1>2, AnsweredTyped

(* What Create and Update come to, with the entry they put on the list.    *)
LEMMA CreateSaves ==
  ASSUME Typed, NEW id \in Ids, NEW body \in Bodies, Create(id, body)
  PROVE  /\ Edited
         /\ \E i \in Ids, entry \in Schedule :
              \/ /\ Saves(i, entry)
                 /\ created' \in 0..MaxIds /\ sent' \subseteq Ids /\ sent \subseteq sent'
                 /\ entry.next > clock => i \in sent'
              \/ Fails(With(file, i, entry))
  <1> DEFINE i == created + 1
             entry == Entry(id, body)
  <1>1. /\ Edited /\ i \in Ids
        /\ \/ /\ Saves(i, entry) /\ created' = i
              /\ sent' = IF body.next > clock THEN sent \cup {i} ELSE sent
           \/ Fails(With(file, i, entry))
    BY DEF Create
  <1>2. entry \in Schedule /\ entry.next = body.next
    BY EntrySchedule, BodiesAssumption
  <1>3. i \in 0..MaxIds
    BY <1>1, SchedulerAssumption DEF Ids
  <1> HIDE DEF i, entry
  <1> QED
    BY <1>1, <1>2, <1>3 DEF Typed, TypeOK

LEMMA UpdateSaves ==
  ASSUME Typed, NEW i \in Ids, NEW body \in Bodies, Update(i, body)
  PROVE  /\ Edited
         /\ \E entry \in Schedule :
              \/ /\ Saves(i, entry)
                 /\ created' \in 0..MaxIds /\ sent' \subseteq Ids /\ sent \subseteq sent'
                 /\ entry.next > clock => i \in sent'
              \/ Fails(With(file, i, entry))
  <1> DEFINE late == [body EXCEPT !.next = NoTime]
             entry == Entry(file[i].id, late)
  <1>1. /\ Edited /\ i \in DOMAIN file
        /\ (Saves(i, entry) /\ UNCHANGED <<created, sent>>) \/ Fails(With(file, i, entry))
    BY DEF Update
  <1>2. file[i].id \in Ids /\ body \in Body
    BY <1>1, BodiesAssumption DEF Typed, TypeOK, IsList, Schedule
  <1>3. late \in Body /\ late.next = NoTime
    BY <1>2 DEF Body, Times
  <1> HIDE DEF late
  <1>4. entry \in Schedule /\ entry.next = NoTime
    BY <1>2, <1>3, EntrySchedule
  <1>5. ~(entry.next > clock)
    BY <1>4, ClockNat DEF Typed, TypeOK, NoTime
  <1> HIDE DEF entry
  <1> QED
    BY <1>1, <1>4, <1>5 DEF Typed, TypeOK

LEMMA EditTyped == Typed /\ Edit => Typed'
  <1> SUFFICES ASSUME Typed, Edit PROVE Typed'
    OBVIOUS
  <1>1. ASSUME Edited, NEW i \in Ids, NEW entry \in Schedule,
               \/ Saves(i, entry) /\ created' \in 0..MaxIds /\ sent' \subseteq Ids
               \/ Fails(With(file, i, entry))
        PROVE  Typed'
    BY <1>1, SavesTyped, FailsTyped, EditedTyped DEF Fails
  <1>2. ASSUME NEW i \in Ids, NEW body \in Bodies, Create(i, body) \/ Update(i, body)
        PROVE  Typed'
    BY <1>1, <1>2, CreateSaves, UpdateSaves
  <1>3. ASSUME NEW i \in Ids, Delete(i) PROVE Typed'
    <2> DEFINE S == Namesakes(i)
    <2>1. /\ Edited
          /\ \/ Refused
             \/ Answered(Without(file, S), Without(intent, S)) /\ UNCHANGED <<created, sent>>
      BY <1>3 DEF Delete
    <2> HIDE DEF S
    <2> QED
      BY <2>1, DeleteTyped, FailsTyped, EditedTyped
  <1> QED
    BY <1>2, <1>3 DEF Edit

LEMMA NextTyped == Typed /\ [Next]_vars => Typed'
  <1> SUFFICES ASSUME Typed, [Next]_vars PROVE Typed'
    OBVIOUS
  <1>1. CASE Abort \/ Restart
    <2>1. /\ mem' = Empty /\ cursor' = 0 /\ pc' \in {"dead", "boot"}
          /\ UNCHANGED <<clock, disk, checkedAt, edits, faulty, lastSlot, unsaved, overwritten>>
          /\ abortable' \in BOOLEAN
      BY <1>1 DEF Abort, Restart, ran, Typed, TypeOK
    <2>2. restarts' \in 0..MaxRestarts /\ aborts' \in 0..MaxAborts
      BY <1>1, SchedulerAssumption DEF Abort, Restart, Typed, TypeOK
    <2>3. Orderly(mem')
      BY <2>1, EmptyOrderly
    <2> QED
      BY <2>1, <2>2, <2>3 DEF Typed, TypeOK, disk, faulty, Orderly, IsList, Consistent
  <1>2. CASE Tick
    <2>1. clock' \in 0..MaxClock /\ UNCHANGED <<disk, loop, bounds, faulty, ran, overwritten>>
      BY <1>2, SchedulerAssumption DEF Tick, Typed, TypeOK
    <2> QED
      BY <2>1 DEF Typed, TypeOK, disk, loop, bounds, faulty, ran, Orderly, IsList, Consistent
  <1>3. CASE UNCHANGED vars
    BY <1>3 DEF vars, Typed, TypeOK, disk, loop, bounds, faulty, ran, Orderly, IsList,
       Consistent
  <1> QED
    BY <1>1, <1>2, <1>3, BootTyped, CheckTyped, RunEndsTyped, EditTyped DEF Next

LEMMA AlwaysTyped == Spec => []Typed
  BY InitTyped, NextTyped, PTL DEF Spec

-------------------------------------------------------------------------------
(* Slots *)

(* All that the list still holds lies after the check.                     *)
Later(list, now) == \A i \in DOMAIN list : list[i].enabled => list[i].next > now

(* A check in progress.  What it passed in its copy is put off; what is    *)
(* still due in the file has either had its turn or waits for it.          *)
Halfway ==
  /\ \A i \in DOMAIN mem : mem[i].enabled /\ i # cursor => Open(mem, i)
  /\ \A i \in DOMAIN mem : mem[i].enabled /\ i < cursor => mem[i].next > checkedAt
  /\ \A i \in DOMAIN file :
       file[i].enabled /\ ~(file[i].next > checkedAt) =>
         /\ i \in DOMAIN mem
         /\ i > cursor => mem[i].enabled /\ mem[i].next = file[i].next
         /\ ~(i > cursor) => file[i].next = lastSlot[i] /\ i \in unsaved

(* Slots that fired lie no later than the last check, so whatever is put   *)
(* into the future is new; the rest of a list has to be kept open.         *)
Once ==
  /\ \A i \in Ids : lastSlot[i] <= checkedAt
  /\ checkedAt <= clock
  /\ pc = "waiting" => \A i \in DOMAIN file : file[i].enabled => Open(file, i)
  /\ pc = "firing" => Halfway

LEMMA Numbers ==
  ASSUME Typed
  PROVE  /\ clock \in Nat /\ checkedAt \in Nat
         /\ \A i \in Ids : i \in Nat /\ lastSlot[i] \in Int
         /\ \A i \in DOMAIN file : i \in Ids /\ file[i].next \in Int
         /\ \A i \in DOMAIN mem : i \in Ids /\ mem[i].next \in Int
         /\ cursor \in Int
  <1>1. \A i \in Ids : i \in Nat /\ lastSlot[i] \in Int
    BY DEF Typed, TypeOK, Ids, Times, NoTime
  <1>2. \A n \in Nat \cup {NoTime} : n \in Int
    BY DEF NoTime
  <1>3. \A i \in DOMAIN file : i \in Ids /\ file[i].next \in Int
    BY <1>2 DEF Typed, Orderly, IsList, Schedule, Times, Results
  <1>4. \A i \in DOMAIN mem : i \in Ids /\ mem[i].next \in Int
    BY <1>2 DEF Typed, Orderly, IsList, Schedule, Times, Results
  <1>5. clock \in Nat /\ checkedAt \in Nat
    BY ClockNat DEF Typed, TypeOK
  <1>6. cursor \in Int
    BY DEF Typed, TypeOK, Ids
  <1> QED
    BY <1>1, <1>3, <1>4, <1>5, <1>6

LEMMA LaterOpen ==
  ASSUME Typed, Once, NEW list, IsList(list, Schedule), NEW now \in Nat,
         checkedAt <= now, Later(list, now)
  PROVE  \A i \in DOMAIN list :
           list[i].enabled => list[i].next > lastSlot[i] /\ list[i].next > checkedAt
  <1>1. \A i \in DOMAIN list : i \in Ids /\ list[i].next \in Nat \cup {NoTime}
    BY DEF IsList, Schedule, Times, Results
  <1>2. \A i \in DOMAIN list : i \in Ids /\ list[i].next \in Int
    BY <1>1 DEF NoTime
  <1> QED
    BY <1>2, Numbers DEF Once, Later

LEMMA InitOnce == Init => Once
  <1> SUFFICES ASSUME Init PROVE Once
    OBVIOUS
  <1>1. /\ clock = 0 /\ checkedAt = 0 /\ pc = "boot"
        /\ \A i \in Ids : lastSlot[i] = NoTime
    BY DEF Init
  <1> QED
    BY <1>1 DEF Once, NoTime

LEMMA BootOnce == Typed /\ Once /\ Boot => Once'
  <1> SUFFICES ASSUME Typed, Once, Boot PROVE Once'
    OBVIOUS
  <1>1. UNCHANGED <<clock, checkedAt, lastSlot>>
    BY DEF Boot
  <1>2. CASE pc' = "waiting" /\ Recalculable(file, clock) /\ file' = Recalculate(file, clock)
    <2>1. /\ Orderly(file') /\ Later(file', clock)
      BY <1>2, RecalculateOrderly DEF Typed, TypeOK, Orderly, Later
    <2>2. \A i \in DOMAIN file' : file'[i].enabled => file'[i].next > lastSlot[i]
      BY <2>1, LaterOpen, Numbers DEF Once, Orderly
    <2> QED
      BY <1>1, <1>2, <2>2 DEF Once, Open
  <1>3. CASE pc' = "dead"
    BY <1>1, <1>3 DEF Once
  <1> QED
    BY <1>2, <1>3 DEF Boot

(* A schedule that fires had its slot no later than the check.             *)
LEMMA FireOnce ==
  ASSUME Typed, Once, NEW list, Orderly(list), NEW now \in 0..MaxClock, checkedAt <= now,
         now <= clock,
         NEW i \in Due(list, now), Fire(i, list, now), checkedAt' = now,
         UNCHANGED <<clock, file>>,
         \A j \in DOMAIN list \ {i} : list[j].enabled => Open(list, j),
         \A j \in DOMAIN list : list[j].enabled /\ j < i => list[j].next > now,
         \A j \in DOMAIN file :
           file[j].enabled /\ ~(file[j].next > now) =>
             /\ j \in DOMAIN list
             /\ ~(j < i) => list[j].enabled /\ list[j].next = file[j].next
             /\ j < i => file[j].next = lastSlot[j] /\ j \in unsaved
  PROVE  Once'
  <1>1. /\ i \in DOMAIN list /\ i \in Ids /\ list[i].enabled /\ list[i].next \in 0..now
        /\ DOMAIN mem' = DOMAIN list
        /\ \A j \in DOMAIN list : mem'[j].enabled = list[j].enabled /\ mem'[j].next = list[j].next
        /\ \A j \in DOMAIN list \ {i} : mem'[j] = list[j]
        /\ unsaved' = unsaved \cup {i}
        /\ pc' = "firing" /\ cursor' = i
    BY FireList
  <1>2. lastSlot' = [lastSlot EXCEPT ![i] = list[i].next]
    BY DEF Fire
  <1>3. lastSlot'[i] = list[i].next /\ \A j \in Ids \ {i} : lastSlot'[j] = lastSlot[j]
    BY <1>1, <1>2 DEF Typed, TypeOK
  <1>4. \A j \in DOMAIN list : j \in Ids /\ j \in Nat
    BY Numbers DEF Orderly, IsList
  <1>5. \A j \in DOMAIN file : j \in Ids /\ j \in Nat
    BY Numbers
  <1>6. \A j \in Ids : lastSlot'[j] <= now
    BY <1>1, <1>3, Numbers, ClockNat DEF Once
  <1>7. ASSUME NEW j \in DOMAIN mem', mem'[j].enabled, j # cursor' PROVE Open(mem, j)'
    BY <1>1, <1>3, <1>4, <1>7 DEF Open
  <1>8. ASSUME NEW j \in DOMAIN mem', mem'[j].enabled, j < cursor' PROVE mem'[j].next > now
    BY <1>1, <1>8
  <1>9. ASSUME NEW j \in DOMAIN file, file[j].enabled, ~(file[j].next > now)
        PROVE  /\ j \in DOMAIN mem'
               /\ j > i => mem'[j].enabled /\ mem'[j].next = file[j].next
               /\ ~(j > i) => file[j].next = lastSlot'[j] /\ j \in unsaved'
    <2>1. /\ j \in DOMAIN list
          /\ ~(j < i) => list[j].enabled /\ list[j].next = file[j].next
          /\ j < i => file[j].next = lastSlot[j] /\ j \in unsaved
      BY <1>9
    <2>2. i \in Nat /\ j \in Nat
      BY <1>1, <1>4, <1>5
    <2>3. CASE j < i
      BY <1>1, <1>3, <1>4, <2>1, <2>2, <2>3
    <2>4. CASE j = i
      BY <1>1, <1>3, <2>1, <2>2, <2>4
    <2>5. CASE j > i
      BY <1>1, <2>1, <2>2, <2>5
    <2> QED
      BY <2>2, <2>3, <2>4, <2>5
  <1>10. Halfway'
    BY <1>1, <1>7, <1>8, <1>9 DEF Halfway
  <1> QED
    BY <1>1, <1>6, <1>10 DEF Once

LEMMA CheckOnce == Typed /\ Once /\ Check => Once'
  <1> SUFFICES ASSUME Typed, Once, Check PROVE Once'
    OBVIOUS
  <1>1. Loaded(clock) = file /\ clock \in 0..MaxClock /\ Orderly(file) /\ checkedAt <= clock
    BY LoadedIsFile DEF Typed, TypeOK, Once
  <1>2. CASE CheckFindsNothing
    <2>1. /\ pc = "waiting" /\ pc' = "waiting" /\ file' = file /\ checkedAt' = clock
          /\ UNCHANGED <<clock, lastSlot, unsaved>>
      BY <1>1, <1>2 DEF CheckFindsNothing, Save, Drop, ran
    <2>2. \A i \in Ids : lastSlot[i] <= clock
      BY <1>1, Numbers DEF Once
    <2>3. clock <= clock
      BY Numbers
    <2> QED
      BY <2>1, <2>2, <2>3 DEF Once, Open
  <1>3. ASSUME NEW i \in Ids, CheckFires(i) PROVE Once'
    <2>1. /\ i \in Due(file, clock) /\ Fire(i, file, clock) /\ checkedAt' = clock
          /\ UNCHANGED <<clock, file>>
          /\ \A j \in Due(file, clock) : i <= j
          /\ \A j \in DOMAIN file : file[j].enabled => Open(file, j)
      BY <1>1, <1>3 DEF CheckFires, IsFirst, disk, Once
    <2>2. ASSUME NEW j \in DOMAIN file, file[j].enabled, ~(file[j].next > clock)
          PROVE  j \in Due(file, clock) /\ ~(j < i)
      <3>1. file[j].next \in Nat
        BY <2>2 DEF Typed, Orderly, IsList, Consistent, Schedule, Times, Results
      <3>2. j \in Due(file, clock)
        BY <2>2, <3>1, Numbers DEF Due
      <3> QED
        BY <2>1, <3>2, Numbers
    <2>3. \A j \in DOMAIN file : file[j].enabled /\ j < i => file[j].next > clock
      BY <2>2
    <2>4. clock <= clock
      BY Numbers
    <2> QED
      BY <1>1, <2>1, <2>2, <2>3, <2>4, FireOnce
  <1> QED
    BY <1>2, <1>3 DEF Check

(* The rest of the copy once a run has ended: what is not due is later.    *)
LEMMA FiredLater ==
  ASSUME Typed, Once, pc = "firing", mem[cursor].cal \notin Raising,
         NEW success \in BOOLEAN, NEW j \in DOMAIN mem,
         Fired(success)[j].enabled, j \notin Remaining(Fired(success))
  PROVE  Fired(success)[j].next > checkedAt
  <1> DEFINE list == Fired(success)
  <1>1. /\ Orderly(list) /\ DOMAIN list = DOMAIN mem
        /\ \A i \in DOMAIN mem \ {cursor} : list[i] = mem[i]
        /\ list[cursor].next > checkedAt
    BY FiredOrderly DEF Typed, TypeOK
  <1>2. j \in Nat /\ cursor \in Int /\ checkedAt \in Nat
    BY Numbers
  <1> HIDE DEF list
  <1>3. list[j].next \in Nat
    BY <1>1 DEF Orderly, IsList, Consistent, Schedule, Times, Results, list
  <1>4. CASE j < cursor
    <2>1. list[j] = mem[j]
      BY <1>1, <1>2, <1>4
    <2> QED
      BY <1>4, <2>1 DEF Once, Halfway, list
  <1>5. CASE j = cursor
    BY <1>1, <1>5 DEF list
  <1>6. CASE j > cursor
    <2>1. j \notin Due(list, checkedAt)
      BY <1>6 DEF Remaining, list
    <2> QED
      BY <1>1, <1>2, <1>3, <2>1 DEF Due, list
  <1> QED
    BY <1>2, <1>4, <1>5, <1>6 DEF list

(* A check that ends without a save leaves what it ran open.               *)
LEMMA UnsavedOnce ==
  ASSUME Typed, Once, pc = "firing", pc' = "waiting",
         file' = file \/ DOMAIN file' = {},
         UNCHANGED <<clock, checkedAt, lastSlot, unsaved>>
  PROVE  Once'
  <1>1. ASSUME file' = file, NEW j \in DOMAIN file, file[j].enabled PROVE Open(file, j)'
    <2>1. j \in Ids /\ j \in Nat /\ cursor \in Int /\ checkedAt \in Nat
          /\ file[j].next \in Int /\ lastSlot[j] \in Int /\ lastSlot[j] <= checkedAt
      BY Numbers DEF Once
    <2>2. CASE file[j].next > checkedAt
      BY <1>1, <2>1, <2>2 DEF Open
    <2>3. CASE ~(file[j].next > checkedAt) /\ j > cursor
      <3>1. j \in DOMAIN mem /\ mem[j].enabled /\ mem[j].next = file[j].next /\ j # cursor
        BY <1>1, <2>1, <2>3 DEF Once, Halfway
      <3>2. Open(mem, j)
        BY <3>1 DEF Once, Halfway
      <3> QED
        BY <1>1, <3>1, <3>2 DEF Open
    <2>4. CASE ~(file[j].next > checkedAt) /\ ~(j > cursor)
      BY <1>1, <2>4 DEF Once, Halfway, Open
    <2> QED
      BY <2>2, <2>3, <2>4
  <1> QED
    BY <1>1 DEF Once

(* A check that goes on or saves has computed the next run.               *)
LEMMA ComputedOnce ==
  ASSUME Typed, Once, NEW success \in BOOLEAN,
         \/ RunEndsLast(success)
         \/ \E i \in Ids : RunEndsFiresNext(success, i)
  PROVE  Once'
  <1> DEFINE list == Fired(success)
  <1>1. pc = "firing" /\ Halfway /\ mem[cursor].cal \notin Raising
    BY DEF RunEndsLast, RunEndsFiresNext, Once
  <1>2. /\ checkedAt \in 0..MaxClock /\ checkedAt <= clock /\ cursor \in DOMAIN mem
        /\ Orderly(list) /\ DOMAIN list = DOMAIN mem
        /\ \A i \in DOMAIN mem \ {cursor} : list[i] = mem[i]
        /\ list[cursor].enabled /\ list[cursor].next > checkedAt
    BY <1>1, FiredOrderly DEF Typed, TypeOK, Once
  <1>3. \A j \in DOMAIN list : list[j].enabled /\ j \notin Remaining(list) => list[j].next > checkedAt
    BY <1>1, <1>2, FiredLater
  <1>4. CASE RunEndsLast(success)
    <2>1. /\ file' = list /\ pc' = "waiting" /\ Remaining(list) = {}
          /\ UNCHANGED <<clock, checkedAt, lastSlot>>
      BY <1>4 DEF RunEndsLast, Save, Drop
    <2> HIDE DEF list
    <2>2. Later(list, checkedAt)
      BY <1>3, <2>1 DEF Later
    <2>3. \A j \in DOMAIN list : list[j].enabled => list[j].next > lastSlot[j]
      BY <1>2, <2>2, LaterOpen, Numbers DEF Orderly
    <2> QED
      BY <2>1, <2>3 DEF Once, Open
  <1>6. ASSUME NEW i \in Ids, RunEndsFiresNext(success, i) PROVE Once'
    <2>1. /\ i \in Remaining(list) /\ \A j \in Remaining(list) : i <= j
          /\ i \in Due(list, checkedAt) /\ i > cursor
          /\ Fire(i, list, checkedAt)
          /\ checkedAt' = checkedAt /\ UNCHANGED <<clock, file>>
      BY <1>6 DEF RunEndsFiresNext, IsFirst, Remaining, disk
    <2> HIDE DEF list
    <2>2. \A j \in DOMAIN list : list[j].enabled /\ j < i => list[j].next > checkedAt
      <3> SUFFICES ASSUME NEW j \in DOMAIN list, list[j].enabled, j < i
                   PROVE  list[j].next > checkedAt
        OBVIOUS
      <3>1. j \notin Remaining(list)
        BY <1>2, <2>1, Numbers
      <3> QED
        BY <1>3, <3>1
    <2>3. ASSUME NEW j \in DOMAIN list \ {i}, list[j].enabled PROVE Open(list, j)
      <3>1. CASE j = cursor
        <4>1. cursor \in Ids /\ lastSlot[cursor] <= checkedAt /\ list[cursor].next \in Int
              /\ lastSlot[cursor] \in Int /\ checkedAt \in Nat
          BY <1>2, Numbers DEF Once, Orderly, IsList, Schedule, Times, Results, NoTime
        <4> QED
          BY <1>2, <3>1, <4>1 DEF Open
      <3>2. CASE j # cursor
        BY <1>1, <1>2, <2>3, <3>2 DEF Halfway, Open
      <3> QED
        BY <3>1, <3>2
    <2>4. ASSUME NEW j \in DOMAIN file, file[j].enabled, ~(file[j].next > checkedAt)
          PROVE  /\ j \in DOMAIN list
                 /\ ~(j < i) => list[j].enabled /\ list[j].next = file[j].next
                 /\ j < i => file[j].next = lastSlot[j] /\ j \in unsaved
      <3>1. /\ j \in DOMAIN mem
            /\ j > cursor => mem[j].enabled /\ mem[j].next = file[j].next
            /\ ~(j > cursor) => file[j].next = lastSlot[j] /\ j \in unsaved
        BY <1>1, <2>4 DEF Halfway
      <3>2. j \in Nat /\ i \in Nat /\ cursor \in Int
        BY Numbers
      <3>3. CASE j > cursor
        <4>1. list[j] = mem[j]
          BY <1>2, <3>1, <3>2, <3>3
        <4> QED
          BY <1>2, <2>2, <2>4, <3>1, <3>3, <4>1
      <3>4. CASE ~(j > cursor)
        BY <1>2, <2>1, <3>1, <3>2, <3>4
      <3> QED
        BY <3>3, <3>4
    <2>5. checkedAt <= checkedAt
      BY Numbers
    <2> QED
      BY <1>2, <2>1, <2>2, <2>3, <2>4, <2>5, FireOnce
  <1> QED
    BY <1>4, <1>6

LEMMA RunEndsOnce == Typed /\ Once /\ RunEnds => Once'
  <1> SUFFICES ASSUME Typed, Once, RunEnds PROVE Once'
    OBVIOUS
  <1>1. CASE RunEndsRaises
    BY <1>1, UnsavedOnce DEF RunEndsRaises, Drop, disk, ran
  <1>2. ASSUME NEW success \in BOOLEAN, RunEndsUnsaved(success) PROVE Once'
    BY <1>2, SaveFailsTyped, UnsavedOnce DEF RunEndsUnsaved, Drop, ran
  <1>3. ASSUME NEW success \in BOOLEAN,
               \/ RunEndsLast(success)
               \/ \E i \in Ids : RunEndsFiresNext(success, i)
        PROVE  Once'
    BY <1>3, ComputedOnce
  <1> QED
    BY <1>1, <1>2, <1>3 DEF RunEnds

(* An edit puts all that is overdue off, while the loop waits or awaits a  *)
(* run ...                                                                 *)
LEMMA LaterOnce ==
  ASSUME Typed, Once, Edited, Orderly(file'), Later(file', clock)
  PROVE  Once'
  <1>1. UNCHANGED <<clock, pc, mem, checkedAt, cursor, lastSlot, unsaved>>
    BY DEF Edited, loop, ran
  <1>2. \A i \in DOMAIN file' :
          file'[i].enabled => file'[i].next > lastSlot[i] /\ file'[i].next > checkedAt
    BY LaterOpen, Numbers DEF Once, Orderly, Later
  <1>3. pc = "firing" => Halfway'
    BY <1>1, <1>2 DEF Once, Halfway, Open
  <1> QED
    BY <1>1, <1>2, <1>3 DEF Once, Open

(* ... or else takes schedules away and leaves the rest as it was.         *)
LEMMA FewerOnce ==
  ASSUME Typed, Once, Edited, DOMAIN file' \subseteq DOMAIN file,
         \A i \in DOMAIN file' : file'[i] = file[i]
  PROVE  Once'
  <1>1. UNCHANGED <<clock, pc, mem, checkedAt, cursor, lastSlot, unsaved>>
    BY DEF Edited, loop, ran
  <1>2. pc = "firing" => Halfway'
    BY <1>1 DEF Once, Halfway, Open
  <1> QED
    BY <1>1, <1>2 DEF Once, Open

LEMMA SavesLater ==
  ASSUME Typed, NEW i \in Ids, NEW entry \in Schedule, Saves(i, entry)
  PROVE  Orderly(file') /\ Later(file', clock)
  <1> DEFINE list == With(file, i, entry)
  <1>1. clock \in 0..MaxClock /\ Orderly(file) /\ Recalculable(list, clock)
    BY DEF Typed, TypeOK, Saves
  <1>2. IsList(list, Schedule)
    BY <1>1, WithList
  <1>3. file' = Recalculate(list, clock)
    BY DEF Saves, Answered
  <1> HIDE DEF list
  <1> QED
    BY <1>1, <1>2, <1>3, RecalculateOrderly DEF Later

LEMMA FailsOnce ==
  ASSUME Typed, Once, Edited, NEW list, Refused \/ Rejected(list)
  PROVE  Once'
  <1>1. file' = file \/ DOMAIN file' = {}
    BY SaveFailsTyped DEF Refused, Rejected, disk
  <1> QED
    BY <1>1, FewerOnce

LEMMA EditOnce == Typed /\ Once /\ Edit => Once'
  <1> SUFFICES ASSUME Typed, Once, Edit PROVE Once'
    OBVIOUS
  <1>1. ASSUME NEW i \in Ids, NEW entry \in Schedule, Edited,
               Saves(i, entry) \/ Fails(With(file, i, entry))
        PROVE  Once'
    BY <1>1, SavesLater, LaterOnce, FailsOnce DEF Fails
  <1>2. ASSUME NEW i \in Ids, NEW body \in Bodies, Create(i, body) \/ Update(i, body)
        PROVE  Once'
    BY <1>1, <1>2, CreateSaves, UpdateSaves
  <1>3. ASSUME NEW i \in Ids, Delete(i) PROVE Once'
    <2>1. Edited /\ (Refused \/ file' = Without(file, Namesakes(i)))
      BY <1>3 DEF Delete, Answered
    <2>2. CASE Refused
      BY <2>1, <2>2, FailsOnce
    <2>3. CASE file' = Without(file, Namesakes(i))
      BY <2>1, <2>3, WithoutList, FewerOnce DEF Typed
    <2> QED
      BY <2>1, <2>2, <2>3
  <1> QED
    BY <1>2, <1>3 DEF Edit

LEMMA NextOnce == Typed /\ Once /\ [Next]_vars => Once'
  <1> SUFFICES ASSUME Typed, Once, [Next]_vars PROVE Once'
    OBVIOUS
  <1>1. CASE Abort \/ Restart
    BY <1>1 DEF Abort, Restart, ran, Once
  <1>2. CASE Tick
    <2>1. clock' = clock + 1 /\ checkedAt <= clock'
      BY <1>2, Numbers DEF Tick, loop, Once
    <2>2. UNCHANGED <<file, pc, mem, checkedAt, cursor, lastSlot, unsaved>>
      BY <1>2 DEF Tick, disk, loop, ran
    <2> QED
      BY <2>1, <2>2 DEF Once, Halfway, Open
  <1>3. CASE UNCHANGED vars
    BY <1>3 DEF vars, disk, loop, ran, Once, Halfway, Open
  <1> QED
    BY <1>1, <1>2, <1>3, BootOnce, CheckOnce, RunEndsOnce, EditOnce DEF Next

LEMMA AlwaysOnce == Spec => []Once
  BY AlwaysTyped, InitOnce, NextOnce, PTL DEF Spec

-------------------------------------------------------------------------------
(* Next runs that came with a POST *)

Sound(list, S) ==
  \A i \in DOMAIN list : list[i].enabled /\ list[i].cal \in Raising => i \in S

(* A check that is over and has left runs unsaved had a reason.            *)
Caused == pc = "waiting" /\ unsaved # {} => faults > 0 \/ sent # {}

Known == Sound(file, sent) /\ Sound(mem, sent) /\ Caused

(* What is said of a list holds of every list that shows the same.         *)
LEMMA VisibleSound ==
  ASSUME NEW list, NEW new, Visible(new) = Visible(list), NEW S, Sound(list, S),
         NEW S1, S \subseteq S1
  PROVE  Sound(new, S1)
  <1>1. DOMAIN new = DOMAIN list
    <2>1. DOMAIN Visible(new) = DOMAIN new /\ DOMAIN Visible(list) = DOMAIN list
      BY DEF Visible
    <2> QED
      BY <2>1
  <1>2. ASSUME NEW i \in DOMAIN new
        PROVE  new[i].enabled = list[i].enabled /\ new[i].cal = list[i].cal
    <2>1. /\ Visible(new)[i] = [enabled |-> new[i].enabled, cal |-> new[i].cal]
          /\ Visible(list)[i] = [enabled |-> list[i].enabled, cal |-> list[i].cal]
      BY <1>1, <1>2 DEF Visible
    <2>2. [enabled |-> new[i].enabled, cal |-> new[i].cal]
            = [enabled |-> list[i].enabled, cal |-> list[i].cal]
      BY <2>1
    <2> QED
      BY ONLY <2>2, Zenon
  <1> QED
    BY <1>1, <1>2 DEF Sound

LEMMA EmptySound == \A S : Sound(Empty, S)
  BY EmptyOrderly DEF Sound

(* An endpoint computes every next run but those in the future.            *)
LEMMA SavesSound ==
  ASSUME Typed, Sound(file, sent), NEW i \in Ids, NEW entry \in Schedule, Saves(i, entry),
         sent \subseteq sent', entry.next > clock => i \in sent'
  PROVE  Sound(file', sent')
  <1> DEFINE list == With(file, i, entry)
  <1>1. clock \in 0..MaxClock /\ Orderly(file) /\ Recalculable(list, clock)
    BY DEF Typed, TypeOK, Saves
  <1>2. DOMAIN list = DOMAIN file \cup {i} /\ list[i] = entry
                                          /\ \A j \in DOMAIN file \ {i} : list[j] = file[j]
    BY DEF With
  <1>3. IsList(list, Schedule)
    BY <1>1, WithList
  <1>4. file' = Recalculate(list, clock)
    BY DEF Saves, Answered
  <1> HIDE DEF list
  <1>5. Sound(list, sent')
    <2>1. ASSUME list[i].enabled, list[i].cal \in Raising PROVE i \in sent'
      BY <1>1, <1>2, <2>1 DEF Recalculable
    <2> QED
      BY <1>2, <2>1 DEF Sound
  <1>6. Visible(file') = Visible(list)
    BY <1>1, <1>3, <1>4, RecalculateOrderly
  <1> QED
    BY <1>5, <1>6, VisibleSound

LEMMA InitKnown == Init => Known
  <1> SUFFICES ASSUME Init PROVE Known
    OBVIOUS
  <1>1. DOMAIN file = 1..created /\ mem = Empty /\ pc = "boot"
    BY DEF Init
  <1>2. sent = {i \in 1..created : file[i].enabled /\ file[i].cal \in Raising}
    BY DEF Init
  <1> QED
    BY <1>1, <1>2, EmptySound DEF Known, Sound, Caused

LEMMA FireKnown ==
  ASSUME Known, NEW list, Orderly(list), Sound(list, sent), NEW now \in 0..MaxClock,
         NEW i \in Due(list, now), Fire(i, list, now), UNCHANGED <<file, sent>>
  PROVE  Known'
  <1>1. Visible(mem') = Visible(list) /\ pc' = "firing"
    BY FireList
  <1>2. Sound(mem', sent)
    BY <1>1, VisibleSound
  <1> QED
    BY <1>1, <1>2 DEF Known, Caused

LEMMA LoopKnown == Typed /\ Known /\ (Boot \/ Check \/ RunEnds) => Known'
  <1> SUFFICES ASSUME Typed, Known, Boot \/ Check \/ RunEnds PROVE Known'
    OBVIOUS
  <1>1. clock \in 0..MaxClock /\ checkedAt \in 0..MaxClock /\ Orderly(file) /\ Orderly(mem)
    BY DEF Typed, TypeOK
  <1>2. CASE Boot
    <2>1. UNCHANGED <<mem, sent>> /\ pc' \in {"waiting", "dead"}
      BY <1>2 DEF Boot
    <2>2. CASE Recalculable(file, clock) /\ file' = Recalculate(file, clock) /\ unsaved' = {}
      <3>1. Visible(file') = Visible(file)
        BY <1>1, <2>2, RecalculateOrderly DEF Orderly
      <3>2. Sound(file', sent')
        BY <2>1, <3>1, VisibleSound DEF Known
      <3> QED
        BY <2>1, <2>2, <3>2 DEF Known, Caused
    <2>3. CASE pc' = "dead" /\ (SaveFails \/ UNCHANGED file)
      <3>1. Sound(file', sent')
        BY <2>1, <2>3, SaveFailsTyped DEF Known, Sound
      <3> QED
        BY <2>1, <2>3, <3>1 DEF Known, Caused
    <2> QED
      BY <1>2, <2>2, <2>3 DEF Boot
  <1>3. CASE CheckFindsNothing
    <2>1. file' = file /\ mem' = Empty /\ pc = "waiting" /\ UNCHANGED <<sent, faults, unsaved>>
      BY <1>1, <1>3, LoadedIsFile DEF CheckFindsNothing, Save, Drop, faulty, ran
    <2> QED
      BY <2>1, EmptySound DEF Known, Caused
  <1>4. ASSUME NEW i \in Ids, CheckFires(i) PROVE Known'
    <2>1. i \in Due(file, clock) /\ Fire(i, file, clock) /\ UNCHANGED <<file, sent>>
      BY <1>1, <1>4, LoadedIsFile DEF CheckFires, IsFirst, disk
    <2> QED
      BY <1>1, <2>1, FireKnown DEF Known
  <1>5. ASSUME NEW success \in BOOLEAN, pc = "firing", mem[cursor].cal \notin Raising
        PROVE  Orderly(Fired(success)) /\ Sound(Fired(success), sent)
    <2>1. Orderly(Fired(success)) /\ Visible(Fired(success)) = Visible(mem)
      BY <1>1, <1>5, FiredOrderly DEF Typed
    <2> QED
      BY <2>1, VisibleSound DEF Known
  <1>6. ASSUME NEW success \in BOOLEAN, RunEndsLast(success) PROVE Known'
    <2>1. file' = Fired(success) /\ mem' = Empty /\ unsaved' = {} /\ sent' = sent
      BY <1>6 DEF RunEndsLast, Save, Drop
    <2> QED
      BY <1>5, <1>6, <2>1, EmptySound DEF RunEndsLast, Known, Caused
  <1>7. ASSUME NEW success \in BOOLEAN, RunEndsUnsaved(success) PROVE Known'
    <2>1. mem' = Empty /\ sent' = sent /\ SaveFails
      BY <1>7 DEF RunEndsUnsaved, Drop
    <2>2. faults' > 0
      BY <2>1, SchedulerAssumption DEF SaveFails, Typed, TypeOK
    <2>3. Sound(file', sent')
      BY <2>1, SaveFailsTyped DEF Known, Sound
    <2> QED
      BY <2>1, <2>2, <2>3, EmptySound DEF Known, Caused
  <1>8. ASSUME NEW success \in BOOLEAN, NEW i \in Ids, RunEndsFiresNext(success, i)
        PROVE  Known'
    <2> DEFINE list == Fired(success)
    <2>1. /\ i \in Due(list, checkedAt) /\ Fire(i, list, checkedAt)
          /\ UNCHANGED <<file, sent>> /\ Orderly(list) /\ Sound(list, sent)
      BY <1>5, <1>8 DEF RunEndsFiresNext, IsFirst, Remaining, disk
    <2> HIDE DEF list
    <2> QED
      BY <1>1, <2>1, FireKnown
  <1>9. CASE RunEndsRaises
    <2>1. mem' = Empty /\ UNCHANGED <<file, sent>> /\ cursor \in sent
      BY <1>9 DEF RunEndsRaises, Drop, disk, Typed, Known, Sound
    <2> QED
      BY <2>1, EmptySound DEF Known, Caused
  <1> QED
    BY <1>2, <1>3, <1>4, <1>6, <1>7, <1>8, <1>9 DEF Check, RunEnds

LEMMA EditKnown == Typed /\ Known /\ Edit => Known'
  <1> SUFFICES ASSUME Typed, Known, Edit PROVE Known'
    OBVIOUS
  <1>1. ASSUME Edited, Sound(file', sent'), sent \subseteq sent', faults' \in Nat,
               faults' >= faults
        PROVE  Known'
    <2>1. UNCHANGED <<pc, mem, unsaved>> /\ faults \in Nat
      BY <1>1, SchedulerAssumption DEF Edited, loop, ran, Typed, TypeOK
    <2>2. Caused'
      BY <1>1, <2>1 DEF Known, Caused
    <2>3. Sound(mem', sent')
      BY <1>1, <2>1 DEF Known, Sound
    <2> QED
      BY <1>1, <2>2, <2>3 DEF Known
  <1>2. ASSUME Edited, NEW list, Refused \/ Rejected(list) PROVE Known'
    <2>1. sent' = sent /\ (file' = file \/ DOMAIN file' = {})
      BY <1>2, SaveFailsTyped DEF Refused, Rejected, disk
    <2>2. faults' \in Nat /\ faults' >= faults
      BY <1>2, SchedulerAssumption DEF Refused, Rejected, SaveFails, faulty, Typed, TypeOK
    <2> QED
      BY <1>1, <1>2, <2>1, <2>2 DEF Known, Sound
  <1>3. ASSUME NEW list, NEW wanted, Answered(list, wanted)
        PROVE  faults' \in Nat /\ faults' >= faults
    BY <1>3, SchedulerAssumption DEF Answered, faulty, Typed, TypeOK
  <1>4. ASSUME Edited, NEW i \in Ids, NEW entry \in Schedule,
               \/ /\ Saves(i, entry) /\ sent \subseteq sent'
                  /\ entry.next > clock => i \in sent'
               \/ Fails(With(file, i, entry))
        PROVE  Known'
    <2>1. CASE Fails(With(file, i, entry))
      BY <1>2, <1>4, <2>1 DEF Fails
    <2>2. CASE Saves(i, entry) /\ sent \subseteq sent' /\ (entry.next > clock => i \in sent')
      <3>1. Sound(file', sent')
        BY <2>2, SavesSound DEF Known
      <3>2. faults' \in Nat /\ faults' >= faults
        BY <1>3, <2>2 DEF Saves
      <3> QED
        BY <1>1, <1>4, <2>2, <3>1, <3>2
    <2> QED
      BY <1>4, <2>1, <2>2
  <1>5. ASSUME NEW i \in Ids, NEW body \in Bodies, Create(i, body) \/ Update(i, body)
        PROVE  Known'
    BY <1>4, <1>5, CreateSaves, UpdateSaves
  <1>6. ASSUME NEW i \in Ids, Delete(i) PROVE Known'
    <2> DEFINE S == Namesakes(i)
    <2>1. /\ Edited
          /\ \/ Refused
             \/ Answered(Without(file, S), Without(intent, S)) /\ sent' = sent
      BY <1>6 DEF Delete
    <2> HIDE DEF S
    <2>2. CASE Answered(Without(file, S), Without(intent, S)) /\ sent' = sent
      <3>1. Sound(file', sent')
        BY <2>2, WithoutList DEF Answered, Known, Sound, Typed
      <3>2. faults' \in Nat /\ faults' >= faults
        BY <1>3, <2>2
      <3> QED
        BY <1>1, <2>1, <2>2, <3>1, <3>2
    <2> QED
      BY <1>2, <2>1, <2>2
  <1> QED
    BY <1>5, <1>6 DEF Edit

LEMMA NextKnown == Typed /\ Known /\ [Next]_vars => Known'
  <1> SUFFICES ASSUME Typed, Known, [Next]_vars PROVE Known'
    OBVIOUS
  <1>1. CASE Abort \/ Restart
    <2>1. mem' = Empty /\ pc' \in {"dead", "boot"} /\ UNCHANGED <<file, sent>>
      BY <1>1 DEF Abort, Restart, disk
    <2> QED
      BY <2>1, EmptySound DEF Known, Caused
  <1>2. CASE Tick \/ UNCHANGED vars
    BY <1>2 DEF Tick, vars, disk, loop, faulty, ran, Known, Caused, Sound
  <1> QED
    BY <1>1, <1>2, LoopKnown, EditKnown DEF Next

LEMMA AlwaysKnown == Spec => []Known
  BY AlwaysTyped, InitKnown, NextKnown, PTL DEF Spec

-------------------------------------------------------------------------------
(* Edits *)

(* The copy, too, says what the endpoints acknowledged.                    *)
Kept ==
  ~overwritten /\ ~damaged =>
    Visible(file) = intent /\ (pc = "firing" => Visible(mem) = intent)

LEMMA InitKept == Init => Kept
  <1> SUFFICES ASSUME Init PROVE Kept
    OBVIOUS
  <1>1. PICK bodies \in [1..created -> Left] :
          /\ file = [i \in 1..created |-> Entry(i, bodies[i])]
          /\ intent = [i \in 1..created |-> [enabled |-> bodies[i].enabled,
                                            cal |-> bodies[i].cal]]
    BY DEF Init
  <1>2. ASSUME NEW i \in 1..created
        PROVE  [enabled |-> file[i].enabled, cal |-> file[i].cal]
                 = [enabled |-> bodies[i].enabled, cal |-> bodies[i].cal]
    BY <1>1 DEF Entry
  <1>3. Visible(file) = [i \in 1..created |-> [enabled |-> bodies[i].enabled,
                                              cal |-> bodies[i].cal]]
    BY <1>1, <1>2 DEF Visible
  <1>4. pc = "boot"
    BY DEF Init
  <1> QED
    BY <1>1, <1>3, <1>4 DEF Kept

LEMMA LoopKept == Typed /\ Kept /\ (Boot \/ Check \/ RunEnds) => Kept'
  <1> SUFFICES ASSUME Typed, Kept, Boot \/ Check \/ RunEnds, ~overwritten', ~damaged'
               PROVE  Visible(file') = intent' /\ (pc' = "firing" => Visible(mem') = intent')
    BY DEF Kept, Visible
  <1>1. clock \in 0..MaxClock /\ checkedAt \in 0..MaxClock /\ Orderly(file) /\ Orderly(mem)
    BY DEF Typed, TypeOK
  <1>2. CASE Boot
    <2>1. intent' = intent /\ ~overwritten /\ pc' # "firing"
      BY <1>2 DEF Boot
    <2>2. CASE Recalculable(file, clock) /\ file' = Recalculate(file, clock) /\ UNCHANGED faulty
      BY <1>1, <2>1, <2>2, RecalculateOrderly DEF Orderly, Kept, faulty
    <2>3. CASE SaveFails
      BY <2>1, <2>3, SaveFailsTyped DEF Kept
    <2>4. CASE UNCHANGED <<file, faulty>>
      BY <2>1, <2>4 DEF Kept, faulty
    <2> QED
      BY <1>2, <2>2, <2>3, <2>4 DEF Boot
  <1>3. CASE Check
    <2>1. intent' = intent /\ ~overwritten /\ ~damaged /\ Loaded(clock) = file
      BY <1>1, <1>3, LoadedIsFile DEF Check, CheckFindsNothing, CheckFires, disk, faulty
    <2>2. CASE CheckFindsNothing
      BY <2>1, <2>2 DEF CheckFindsNothing, Save, Drop, Kept
    <2>3. ASSUME NEW i \in Ids, CheckFires(i) PROVE Visible(file') = intent' /\ Visible(mem') = intent'
      <3>1. file' = file /\ i \in Due(file, clock) /\ Fire(i, file, clock)
        BY <2>1, <2>3 DEF CheckFires, IsFirst, disk
      <3> QED
        BY <1>1, <2>1, <3>1, FireList DEF Kept
    <2> QED
      BY <1>3, <2>2, <2>3 DEF Check
  <1>4. CASE RunEndsRaises
    BY <1>4 DEF RunEndsRaises, Drop, disk, faulty, Kept
  <1>5. ASSUME NEW success \in BOOLEAN,
               \/ RunEndsLast(success) \/ RunEndsUnsaved(success)
               \/ \E i \in Ids : RunEndsFiresNext(success, i)
        PROVE  Visible(file') = intent' /\ (pc' = "firing" => Visible(mem') = intent')
    <2> DEFINE list == Fired(success)
    <2>1. intent' = intent /\ ~overwritten /\ pc = "firing"
      BY <1>5 DEF RunEndsLast, RunEndsUnsaved, RunEndsFiresNext, disk
    <2>2. ASSUME mem[cursor].cal \notin Raising
          PROVE  Orderly(list) /\ Visible(list) = Visible(mem)
      BY <1>1, <2>1, <2>2, FiredOrderly DEF Typed
    <2>3. CASE RunEndsLast(success)
      BY <2>1, <2>2, <2>3 DEF RunEndsLast, Save, Drop, Kept, faulty
    <2>4. CASE RunEndsUnsaved(success)
      BY <2>1, <2>4, SaveFailsTyped DEF RunEndsUnsaved, Drop, Kept
    <2>5. ASSUME NEW i \in Ids, RunEndsFiresNext(success, i)
          PROVE  Visible(file') = intent' /\ Visible(mem') = intent'
      <3>1. /\ file' = file /\ ~damaged /\ i \in Due(list, checkedAt)
            /\ Fire(i, list, checkedAt)
        BY <2>5 DEF RunEndsFiresNext, IsFirst, Remaining, disk, faulty
      <3>2. Orderly(list) /\ Visible(list) = Visible(mem)
        BY <2>2, <2>5 DEF RunEndsFiresNext
      <3> HIDE DEF list
      <3> QED
        BY <1>1, <2>1, <3>1, <3>2, FireList DEF Kept
    <2> QED
      BY <1>5, <2>3, <2>4, <2>5
  <1> QED
    BY <1>2, <1>3, <1>4, <1>5 DEF RunEnds

LEMMA EditKept == Typed /\ Kept /\ Edit => Kept'
  <1> SUFFICES ASSUME Typed, Kept, Edit, ~overwritten', ~damaged'
               PROVE  Visible(file') = intent' /\ (pc' = "firing" => Visible(mem') = intent')
    BY DEF Kept, Visible
  <1>1. Orderly(file) /\ clock \in 0..MaxClock /\ UNCHANGED <<pc, mem>> /\ overwritten \in BOOLEAN
    BY DEF Typed, TypeOK, Edit, Create, Update, Delete, Edited, loop
  <1>2. ASSUME NEW list, NEW wanted, Answered(list, wanted)
        PROVE  ~overwritten /\ pc # "firing" /\ ~damaged
    <2>1. overwritten' = (overwritten \/ pc = "firing") /\ damaged' = damaged
      BY <1>2 DEF Answered, faulty
    <2> QED
      BY <1>1, <2>1, Zenon
  <1>3. ASSUME NEW i \in Ids, NEW entry \in Schedule, Saves(i, entry)
        PROVE  Visible(file') = intent' /\ pc' # "firing"
    <2> DEFINE list == With(file, i, entry)
    <2>1. /\ file' = Recalculate(list, clock)
          /\ intent' = With(intent, i, [enabled |-> entry.enabled, cal |-> entry.cal])
          /\ Recalculable(list, clock)
          /\ ~overwritten /\ pc # "firing" /\ ~damaged
      BY <1>2, <1>3 DEF Saves, Answered
    <2>2. /\ IsList(list, Schedule)
          /\ Visible(list) = With(Visible(file), i, [enabled |-> entry.enabled, cal |-> entry.cal])
      BY <1>1, WithList
    <2>3. Visible(file') = Visible(list)
      BY <1>1, <2>1, <2>2, RecalculateOrderly
    <2> QED
      BY <1>1, <2>1, <2>2, <2>3 DEF Kept
  <1>4. ASSUME NEW list, Refused \/ Rejected(list)
        PROVE  Visible(file') = intent' /\ (pc' = "firing" => Visible(mem') = intent')
    <2>1. CASE Refused
      BY <1>1, <2>1, SaveFailsTyped DEF Refused, Kept
    <2>2. CASE Rejected(list)
      BY <1>1, <2>2 DEF Rejected, disk, faulty, Kept
    <2> QED
      BY <1>4, <2>1, <2>2
  <1>5. ASSUME NEW i \in Ids, NEW body \in Bodies, Create(i, body) \/ Update(i, body)
        PROVE  Visible(file') = intent' /\ (pc' = "firing" => Visible(mem') = intent')
    BY <1>3, <1>4, <1>5, CreateSaves, UpdateSaves DEF Fails
  <1>6. ASSUME NEW i \in Ids, Delete(i)
        PROVE  Visible(file') = intent' /\ (pc' = "firing" => Visible(mem') = intent')
    <2> DEFINE S == Namesakes(i)
    <2>1. Answered(Without(file, S), Without(intent, S)) \/ Refused
      BY <1>6 DEF Delete
    <2> HIDE DEF S
    <2>2. CASE Answered(Without(file, S), Without(intent, S))
      <3>1. /\ file' = Without(file, S) /\ intent' = Without(intent, S)
            /\ ~overwritten /\ pc # "firing" /\ ~damaged
        BY <1>2, <2>2 DEF Answered
      <3>2. Visible(Without(file, S)) = Without(Visible(file), S)
        BY DEF Visible, Without
      <3> QED
        BY <1>1, <3>1, <3>2 DEF Kept
    <2> QED
      BY <1>4, <2>1, <2>2
  <1> QED
    BY <1>5, <1>6 DEF Edit

LEMMA NextKept == Typed /\ Kept /\ [Next]_vars => Kept'
  <1>1. Kept /\ (Abort \/ Restart \/ Tick) => Kept'
    BY DEF Abort, Restart, Tick, disk, loop, faulty, Kept, Visible
  <1>2. Kept /\ UNCHANGED vars => Kept'
    BY DEF vars, disk, loop, faulty, Kept, Visible
  <1> QED
    BY <1>1, <1>2, LoopKept, EditKept DEF Next

LEMMA AlwaysKept == Spec => []Kept
  BY AlwaysTyped, InitKept, NextKept, PTL DEF Spec

-------------------------------------------------------------------------------
(* Theorems *)

(* Every list the loop or an endpoint writes is a list of schedules, and   *)
(* every counter keeps its bound.                                          *)
THEOREM TypeCorrect == Spec => []TypeOK
  <1>1. Typed => TypeOK
    BY DEF Typed
  <1> QED
    BY <1>1, AlwaysTyped, PTL

(* Every list the loop or an endpoint writes is consistent.                *)
THEOREM NextRunsConsistent == Spec => []EnabledIffNext
  <1>1. Typed => EnabledIffNext
    BY DEF Typed, Orderly, Consistent, EnabledIffNext
  <1> QED
    BY <1>1, AlwaysTyped, PTL

(* Whatever the clients send, a check raises while it computes a next run  *)
(* only for a schedule whose POST brought the one that came due.           *)
THEOREM RaisingWasSent == Spec => []RaisesOnlyIfSent
  <1>1. Known => RaisesOnlyIfSent
    BY DEF Known, Sound, RaisesOnlyIfSent
  <1> QED
    BY <1>1, AlwaysKnown, PTL

(* No slot is run twice, unless a check saved nothing after its runs: then *)
(* a save failed, or a POST brought a next run.                            *)
THEOREM SlotsFireOnce == Spec => []AtMostOncePerSlot
  <1>1. Typed /\ Once /\ Known => AtMostOncePerSlot
    <2> SUFFICES ASSUME Typed, Once, Known PROVE AtMostOncePerSlot
      OBVIOUS
    <2>1. ASSUME pc = "firing", NEW i \in Remaining(mem)
          PROVE  Open(mem, i)
      <3>1. i \in DOMAIN mem /\ mem[i].enabled /\ i > cursor
        BY <2>1 DEF Remaining, Due
      <3>2. i # cursor
        BY <3>1, Numbers
      <3> QED
        BY <2>1, <3>1, <3>2 DEF Once, Halfway
    <2> QED
      BY <2>1 DEF Once, Known, Caused, AtMostOncePerSlot
  <1> QED
    BY <1>1, AlwaysTyped, AlwaysOnce, AlwaysKnown, PTL

(* What the endpoints acknowledged stays in schedules.json while no edit   *)
(* comes during a run and no save cuts the file off.                       *)
THEOREM EditsSurvive == Spec => []EditsKept
  <1>1. Kept => EditsKept
    BY DEF Kept, EditsKept
  <1> QED
    BY <1>1, AlwaysKept, PTL
===============================================================================
