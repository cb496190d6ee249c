----------------------------- MODULE MCScheduler ------------------------------
(***************************************************************************)
(* Scheduler over the calendar of ScheduleTime, with days of three ticks:  *)
(* one schedule every tick, one daily, and one at a time no day has.       *)
(***************************************************************************)
EXTENDS Scheduler

Time == INSTANCE ScheduleTime WITH
  HourLen <- 1, DayLen <- 3, DaysPerWeek <- 2, DefaultTime <- 0, Unparsable <- NoTime

EveryTick ==
  [frequency |-> "interval", time |-> NoTime, day |-> 0, interval |-> 1]

OnceADay == [frequency |-> "daily", time |-> 1, day |-> 0, interval |-> 1]

(* The module has no such time; 3 stands for 25:00.                        *)
NoSuchTime == [OnceADay EXCEPT !.time = 3]

MCRaising == {NoSuchTime}

MCCalendars == {EveryTick, OnceADay}

AnyTime == MCCalendars \cup MCRaising

MCNextRun(cal, now) == Time!ComputeNextRun(cal, now)

Said(enabled, cal, next) ==
  [enabled |-> enabled, cal |-> cal, next |-> next, last |-> NoTime, result |-> "none"]

(* Requests with every calendar, and with or without a next run.           *)
MCBodies ==
  {Said(enabled, cal, next) : enabled \in BOOLEAN, cal \in AnyTime, next \in {NoTime, 2}}

(* Schedules that are overdue when the process starts, one that is off,    *)
(* and those whose POST brought a next run along.                          *)
Overdue == {Said(TRUE, cal, 0) : cal \in MCCalendars}

MCLeft ==
  Overdue \cup {Said(FALSE, NoSuchTime, NoTime)}
          \cup {Said(TRUE, NoSuchTime, next) : next \in {0, 2}}
===============================================================================
