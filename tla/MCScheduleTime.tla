---------------------------- MODULE MCScheduleTime ----------------------------
(***************************************************************************)
(* One enabled schedule, fired again and again by a loop that may come up  *)
(* to MaxLate ticks late, over every schedule of a small calendar, beside  *)
(* every `minute` that somebody who read the docstring may have in mind.   *)
(***************************************************************************)
EXTENDS ScheduleTime

CONSTANTS
  Intervals,   \* the interval lengths tried
  MaxLate,     \* bound on how late a check comes
  Horizon      \* bound on the instants visited

VARIABLES
  sched, now, next,
  wanted       \* ghost: the minute at which an hourly schedule is wanted

vars == <<sched, now, next, wanted>>

Init ==
  /\ sched \in {s \in [frequency : {"daily", "weekly", "hourly", "interval"},
                       time      : 0..(DayLen - 1) \cup {Unparsable},
                       day       : 0..(DaysPerWeek - 1),
                       interval  : Intervals] : s \in Calendar}
  /\ now \in 0..DayLen
  /\ next = ComputeNextRun(sched, now)
  /\ wanted \in 0..(HourLen - 1)

Fire ==
  /\ now' \in next..(next + MaxLate)
  /\ now' <= Horizon
  /\ next' = ComputeNextRun(sched, now')
  /\ UNCHANGED <<sched, wanted>>

Spec == Init /\ [][Fire]_vars

(* compute_next_run skips no slot and repeats none: whenever the loop      *)
(* happens to look, the next run is the first slot strictly after now.  Of *)
(* an hourly schedule that holds at minute 0 only.  Wanted at another, it  *)
(* runs once an hour all the same, but never at that minute.               *)
NextIsFirstSlot ==
  /\ next > now
  /\ sched.frequency \in {"daily", "weekly"} \/ (sched.frequency = "hourly" /\ wanted = 0) =>
       /\ IsSlot(sched, wanted, next)
       /\ \A t \in (now + 1)..(next - 1) : ~IsSlot(sched, wanted, t)
  /\ sched.frequency = "hourly" =>
       /\ next <= now + HourLen
       /\ ComputeNextRun(sched, next) = next + HourLen
       /\ wanted # 0 => ~IsSlot(sched, wanted, next)
===============================================================================
