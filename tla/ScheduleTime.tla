----------------------------- MODULE ScheduleTime -----------------------------
(***************************************************************************)
(* When a schedule fires next: compute_next_run of app/core/scheduler.py,  *)
(* over a calendar whose hour, day and week have any length.  Instants     *)
(* count from a midnight on weekday 0, in ticks shorter than a minute.     *)
(***************************************************************************)
EXTENDS Integers

CONSTANTS
  HourLen, DayLen,   \* in ticks
  DaysPerWeek,
  DefaultTime,       \* 03:00, in ticks after midnight
  Unparsable         \* a `time` that is not HH:MM

ASSUME CalendarAssumption ==
  /\ HourLen \in Nat \ {0}
  /\ DayLen \in Nat \ {0}
  /\ DaysPerWeek \in Nat \ {0}
  /\ DefaultTime \in 0..(DayLen - 1)
  /\ Unparsable \notin 0..(DayLen - 1)

WeekLen == DaysPerWeek * DayLen

(* What validate_frequency, clamp_day and clamp_interval let through.      *)
Calendar ==
  [frequency : {"daily", "weekly", "hourly", "interval"},
   time      : 0..(DayLen - 1) \cup {Unparsable},
   day       : 0..(DaysPerWeek - 1),
   interval  : Nat \ {0}]

TimeOf(s) == IF s.time = Unparsable THEN DefaultTime ELSE s.time

Midnight(t) == t - (t % DayLen)

Weekday(t) == (t \div DayLen) % DaysPerWeek

Weekly(s, now) ==
  LET today == Midnight(now) + TimeOf(s)
      ahead == (s.day - Weekday(today)) % DaysPerWeek
      slot  == today + ahead * DayLen
  IN  IF slot <= now THEN slot + WeekLen ELSE slot

(* Faulty variant: < for <=, so that the slot of this instant is its own   *)
(* successor.                                                              *)
DailyAgain(s, now) ==
  LET slot == Midnight(now) + TimeOf(s)
  IN  IF slot < now THEN slot + DayLen ELSE slot

Daily(s, now) ==
  LET slot == Midnight(now) + TimeOf(s)
  IN  IF slot <= now THEN slot + DayLen ELSE slot

Hourly(now) == now - (now % HourLen) + HourLen

ComputeNextRun(s, now) ==
  CASE s.frequency = "interval" -> now + s.interval
    [] s.frequency = "hourly"   -> Hourly(now)
    [] s.frequency = "daily"    -> Daily(s, now)
    [] s.frequency = "weekly"   -> Weekly(s, now)

(* The instants at which the module's docstring has a schedule fire.  An   *)
(* hourly one has a `minute` there (scheduler.py:11), one that no field of *)
(* Schedule holds and no request can set.                                  *)
IsSlot(s, minute, t) ==
  CASE s.frequency = "hourly" -> t % HourLen = minute
    [] s.frequency = "daily"  -> t % DayLen = TimeOf(s)
    [] s.frequency = "weekly" -> /\ t % DayLen = TimeOf(s)
                                 /\ Weekday(t) = s.day
    [] OTHER -> TRUE
===============================================================================
