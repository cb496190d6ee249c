-------------------------- MODULE ScheduleTimeProofs --------------------------
(***************************************************************************)
(* compute_next_run returns the first slot after now, for hours, days and  *)
(* weeks of any length and a loop that looks as late as it likes; for an   *)
(* hourly schedule, whose minute it does not know, the next full hour.     *)
(*                                                                         *)
(* A slot is an instant with a given remainder, of its day for a daily     *)
(* schedule, and of its week (in days) as well for a weekly one.  Two      *)
(* instants with the same remainder are at least one divisor apart, so     *)
(* nothing that recurs with the period of a schedule fits between the last *)
(* slot that is over and the one the code computes.                        *)
(***************************************************************************)
EXTENDS MCScheduleTime, TLAPS

-----------------------------------------------------------------------------
(* Quotients and remainders.                                               *)

(* A number is made up of its quotient and its remainder.                  *)
LEMMA Division ==
  ASSUME NEW n \in Int, NEW d \in Nat \ {0}
  PROVE  /\ n \div d \in Int
         /\ n % d \in 0..(d - 1)
         /\ n = d * (n \div d) + (n % d)
  OBVIOUS

(* ... and they are the only numbers it is made up of in that way.         *)
LEMMA DivisionUnique ==
  ASSUME NEW q \in Int, NEW d \in Nat \ {0}, NEW r \in 0..(d - 1)
  PROVE  (d * q + r) % d = r /\ (d * q + r) \div d = q
  OBVIOUS

(* Multiples of d that differ are at least d apart.                        *)
LEMMA MultiplesApart ==
  ASSUME NEW j \in Int, NEW k \in Int, NEW d \in Nat \ {0}, j < k
  PROVE  d * j + d <= d * k
  OBVIOUS

(* Numbers with the same remainder that differ are at least d apart.       *)
LEMMA SameRemainderApart ==
  ASSUME NEW j \in Int, NEW k \in Int, NEW d \in Nat \ {0},
         j % d = k % d, j < k
  PROVE  j + d <= k
<1> DEFINE p == j \div d
           q == k \div d
           r == k % d
<1>1. /\ p \in Int /\ q \in Int /\ r \in 0..(d - 1)
      /\ j = d * p + r /\ k = d * q + r
  BY Division
<1>2. p < q
  <2>1. CASE q = p  BY <1>1, <2>1
  <2>2. CASE q < p  BY <1>1, <2>2, MultiplesApart
  <2> QED  BY <1>1, <2>1, <2>2
<1>3. d * p + d <= d * q
  BY <1>1, <1>2, MultiplesApart
<1>4. d * p \in Int /\ d * q \in Int
  BY <1>1
<1> QED  BY <1>1, <1>3, <1>4

(* Moving on by a whole divisor keeps the remainder and adds one to the    *)
(* quotient.                                                               *)
LEMMA NextPeriod ==
  ASSUME NEW n \in Int, NEW d \in Nat \ {0}
  PROVE  (n + d) % d = n % d /\ (n + d) \div d = (n \div d) + 1
<1> DEFINE q == n \div d
           r == n % d
<1>1. q \in Int /\ r \in 0..(d - 1) /\ n = d * q + r
  BY Division
<1>2. n + d = d * (q + 1) + r
  BY <1>1
<1> DEFINE m == q + 1
<1>3. m \in Int
  BY <1>1
<1>4. (d * m + r) % d = r /\ (d * m + r) \div d = m
  <2> HIDE DEF m, r, q
  <2> QED  BY <1>1, <1>3, DivisionUnique
<1> QED  BY <1>2, <1>4

(* The number of days ahead that Weekly computes leads to the day wanted.  *)
LEMMA DaysAhead ==
  ASSUME NEW q \in Int, NEW w \in Nat \ {0}, NEW day \in 0..(w - 1)
  PROVE  (q + ((day - (q % w)) % w)) % w = day
<1> DEFINE u == day - (q % w)
           i == q \div w
           j == u \div w
<1>1. i \in Int /\ q % w \in 0..(w - 1) /\ q = w * i + (q % w)
  BY Division
<1>2. u \in Int
  BY <1>1
<1>3. j \in Int /\ u % w \in 0..(w - 1) /\ u = w * j + (u % w)
  BY <1>2, Division
<1>4. w * (i - j) = w * i - w * j
  BY <1>1, <1>3
<1>5. w * i \in Int /\ w * j \in Int
  BY <1>1, <1>3
<1>6. q + (u % w) = w * (i - j) + day
  BY <1>1, <1>3, <1>4, <1>5
<1> DEFINE m == i - j
<1>7. m \in Int
  BY <1>1, <1>3
<1>8. (w * m + day) % w = day
  <2> HIDE DEF m
  <2> QED  BY <1>7, DivisionUnique
<1> QED  BY <1>6, <1>8
-----------------------------------------------------------------------------
(* The slots of a day.                                                     *)

(* A time of day, the default one included, is a remainder of the day.     *)
LEMMA TimeOfDay ==
  ASSUME NEW s \in Calendar
  PROVE  TimeOf(s) \in 0..(DayLen - 1)
  BY CalendarAssumption DEF Calendar, TimeOf

SlotToday(s, t) == Midnight(t) + TimeOf(s)

(* The slot of the present day is less than a day away.                    *)
LEMMA Today ==
  ASSUME NEW s \in Calendar, NEW t \in Int
  PROVE  /\ SlotToday(s, t) \in Int
         /\ SlotToday(s, t) % DayLen = TimeOf(s)
         /\ SlotToday(s, t) \div DayLen = t \div DayLen
         /\ SlotToday(s, t) - DayLen < t
         /\ t < SlotToday(s, t) + DayLen
<1> DEFINE q == t \div DayLen
           T == TimeOf(s)
<1>1. DayLen \in Nat \ {0} /\ T \in 0..(DayLen - 1)
  BY CalendarAssumption, TimeOfDay
<1>2. /\ q \in Int /\ t % DayLen \in 0..(DayLen - 1)
      /\ t = DayLen * q + (t % DayLen)
  BY <1>1, Division
<1>3. DayLen * q \in Int
  BY <1>1, <1>2
<1>4. Midnight(t) = DayLen * q
  BY <1>1, <1>2, <1>3 DEF Midnight
<1>5. (DayLen * q + T) % DayLen = T /\ (DayLen * q + T) \div DayLen = q
  <2> HIDE DEF q, T
  <2> QED  BY <1>1, <1>2, DivisionUnique
<1>6. /\ Midnight(t) + T \in Int
      /\ (Midnight(t) + T) - DayLen < t /\ t < Midnight(t) + T + DayLen
  <2> HIDE DEF q, T
  <2> QED  BY <1>1, <1>2, <1>3, <1>4
<1>7. /\ (Midnight(t) + T) % DayLen = T
      /\ (Midnight(t) + T) \div DayLen = t \div DayLen
  BY <1>4, <1>5, Zenon
<1> QED  BY <1>6, <1>7 DEF SlotToday

-----------------------------------------------------------------------------
(* The first slot after an instant, for each frequency.                    *)

FirstSlot(s, minute, t, n) ==
  /\ n \in Int
  /\ n > t
  /\ s.frequency \in {"daily", "weekly"} \/ (s.frequency = "hourly" /\ minute = 0) =>
       /\ IsSlot(s, minute, n)
       /\ \A x \in (t + 1)..(n - 1) : ~IsSlot(s, minute, x)

(* The next full hour is less than an hour away, and another is an hour    *)
(* after it.                                                               *)
LEMMA FullHour ==
  ASSUME NEW t \in Int
  PROVE  /\ Hourly(t) \in Int /\ t < Hourly(t) /\ Hourly(t) - HourLen <= t
         /\ Hourly(t) % HourLen = 0
         /\ Hourly(Hourly(t)) = Hourly(t) + HourLen
<1> DEFINE q == t \div HourLen
           n == Hourly(t)
<1>1. HourLen \in Nat \ {0} /\ 0 \in 0..(HourLen - 1)
  BY CalendarAssumption
<1>2. /\ q \in Int /\ t % HourLen \in 0..(HourLen - 1)
      /\ t = HourLen * q + (t % HourLen)
  BY <1>1, Division
<1>3. HourLen * q \in Int
  BY <1>1, <1>2
<1>4. (HourLen * q + 0) % HourLen = 0
  <2> HIDE DEF q
  <2> QED  BY <1>1, <1>2, DivisionUnique
<1>5. n = HourLen * q + HourLen /\ n \in Int /\ t < n /\ n - HourLen <= t
  BY <1>1, <1>2, <1>3 DEF Hourly
<1>6. n % HourLen = 0
  <2>1. (HourLen * q + HourLen) % HourLen = (HourLen * q) % HourLen
    BY <1>1, <1>3, NextPeriod
  <2>2. HourLen * q + 0 = HourLen * q
    BY <1>3
  <2> QED  BY <1>4, <1>5, <2>1, <2>2
<1>7. Hourly(n) = n + HourLen
  <2>1. Hourly(n) = n - (n % HourLen) + HourLen
    BY Zenon DEF Hourly
  <2> HIDE DEF n
  <2> QED  BY <1>1, <1>5, <1>6, <2>1
<1> QED  BY <1>5, <1>6, <1>7

(* An hourly schedule fires at the next full hour.                         *)
LEMMA HourlyFirst ==
  ASSUME NEW s \in Calendar, NEW minute, NEW t \in Int, s.frequency = "hourly"
  PROVE  FirstSlot(s, minute, t, ComputeNextRun(s, t))
<1> DEFINE n == Hourly(t)
<1>1. HourLen \in Nat \ {0}
  BY CalendarAssumption
<1>2. n \in Int /\ t < n /\ n - HourLen <= t /\ n % HourLen = 0
  BY FullHour
<1>3. ASSUME NEW x \in (t + 1)..(n - 1), x % HourLen = 0
      PROVE  FALSE
  <2>1. x \in Int /\ x < n /\ t < x
    BY <1>2
  <2>2. x + HourLen <= n
    <3> HIDE DEF n
    <3> QED  BY <1>1, <1>2, <1>3, <2>1, SameRemainderApart
  <2> QED  BY <1>1, <1>2, <2>1, <2>2
<1>4. ComputeNextRun(s, t) = n
  BY DEF ComputeNextRun
<1> HIDE DEF n
<1> QED  BY <1>2, <1>3, <1>4 DEF FirstSlot, IsSlot

(* A daily schedule fires at its time, today or tomorrow.                  *)
LEMMA DailyFirst ==
  ASSUME NEW s \in Calendar, NEW minute, NEW t \in Int, s.frequency = "daily"
  PROVE  FirstSlot(s, minute, t, ComputeNextRun(s, t))
<1> DEFINE slot == SlotToday(s, t)
           n == Daily(s, t)
<1>1. DayLen \in Nat \ {0}
  BY CalendarAssumption
<1>2. /\ slot \in Int /\ slot % DayLen = TimeOf(s)
      /\ slot - DayLen < t /\ t < slot + DayLen
  BY Today
<1>3. (slot + DayLen) % DayLen = TimeOf(s)
  <2> HIDE DEF slot
  <2> QED  BY <1>1, <1>2, NextPeriod
<1>4. /\ n \in Int /\ n > t /\ n - DayLen <= t
      /\ n % DayLen = TimeOf(s)
  BY <1>1, <1>2, <1>3 DEF Daily, SlotToday
<1>5. ASSUME NEW x \in (t + 1)..(n - 1), x % DayLen = TimeOf(s)
      PROVE  FALSE
  <2>1. x \in Int /\ x < n /\ t < x
    BY <1>4
  <2>2. x + DayLen <= n
    <3> HIDE DEF n
    <3> QED  BY <1>1, <1>4, <1>5, <2>1, SameRemainderApart
  <2> QED  BY <1>1, <1>4, <2>1, <2>2
<1> QED  BY <1>4, <1>5 DEF FirstSlot, IsSlot, ComputeNextRun

(* Slots of one weekly schedule are at least a week apart.                 *)
LEMMA WeekApart ==
  ASSUME NEW x \in Int, NEW y \in Int, x < y,
         x % DayLen = y % DayLen, Weekday(x) = Weekday(y)
  PROVE  x + WeekLen <= y
<1> DEFINE k == x \div DayLen
           m == y \div DayLen
           T == y % DayLen
<1>1. DayLen \in Nat \ {0} /\ DaysPerWeek \in Nat \ {0}
  BY CalendarAssumption
<1>2. /\ k \in Int /\ m \in Int /\ T \in 0..(DayLen - 1)
      /\ x = DayLen * k + T /\ y = DayLen * m + T
  BY <1>1, Division
<1>3. DayLen * k \in Int /\ DayLen * m \in Int
  BY <1>1, <1>2
<1>4. k < m
  <2>1. CASE k = m  BY <1>2, <1>3, <2>1
  <2>2. CASE m < k
    <3>1. DayLen * m + DayLen <= DayLen * k
      BY <1>1, <1>2, <2>2, MultiplesApart
    <3> QED  BY <1>1, <1>2, <1>3, <3>1
  <2> QED  BY <1>2, <2>1, <2>2
<1>5. k + DaysPerWeek <= m
  <2> k % DaysPerWeek = m % DaysPerWeek
    BY DEF Weekday
  <2> HIDE DEF k, m
  <2> QED  BY <1>1, <1>2, <1>4, SameRemainderApart
<1>6. DayLen * (k + DaysPerWeek) <= DayLen * m
  <2> DEFINE j == k + DaysPerWeek
  <2>1. j \in Int /\ (j = m \/ j < m)
    BY <1>1, <1>2, <1>5
  <2>2. CASE j = m  BY <1>3, <2>2
  <2>3. CASE j < m
    <3>1. DayLen * j + DayLen <= DayLen * m
      <4> HIDE DEF j, m
      <4> QED  BY <1>1, <1>2, <2>1, <2>3, MultiplesApart
    <3>2. DayLen * j \in Int
      BY <1>1, <2>1
    <3> QED  BY <1>1, <1>3, <3>1, <3>2
  <2> QED  BY <2>1, <2>2, <2>3
<1>7. DayLen * (k + DaysPerWeek) = DayLen * k + WeekLen /\ WeekLen \in Int
  BY <1>1, <1>2 DEF WeekLen
<1> QED  BY <1>2, <1>3, <1>6, <1>7

(* A weekly schedule fires at its time of its day, this week or the next.  *)
LEMMA WeeklyFirst ==
  ASSUME NEW s \in Calendar, NEW minute, NEW t \in Int, s.frequency = "weekly"
  PROVE  FirstSlot(s, minute, t, ComputeNextRun(s, t))
<1> DEFINE T     == TimeOf(s)
           q     == t \div DayLen
           today == SlotToday(s, t)
           ahead == (s.day - Weekday(today)) % DaysPerWeek
           slot  == today + ahead * DayLen
           n     == Weekly(s, t)
<1>1. /\ DayLen \in Nat \ {0} /\ DaysPerWeek \in Nat \ {0}
      /\ s.day \in 0..(DaysPerWeek - 1) /\ T \in 0..(DayLen - 1)
  BY CalendarAssumption, TimeOfDay DEF Calendar
<1>2. /\ today \in Int /\ today % DayLen = T /\ today \div DayLen = q
      /\ today - DayLen < t /\ t < today + DayLen
  BY Today
<1>3. /\ q \in Int /\ DayLen * q \in Int /\ today = DayLen * q + T
  <2>1. q \in Int
    BY <1>1, Division
  <2>2. today = DayLen * (today \div DayLen) + (today % DayLen)
    <3> HIDE DEF today
    <3> QED  BY <1>1, <1>2, Division
  <2> HIDE DEF today, q
  <2>3. today = DayLen * q + T
    BY <1>2, <2>2, Zenon
  <2> QED  BY <1>1, <2>1, <2>3
<1>4. Weekday(today) = q % DaysPerWeek /\ q % DaysPerWeek \in Int
  BY <1>1, <1>2, <1>3, Division DEF Weekday
<1>5. /\ ahead \in 0..(DaysPerWeek - 1)
      /\ (q + ahead) % DaysPerWeek = s.day
  <2>1. s.day - Weekday(today) \in Int
    BY <1>1, <1>4
  <2>2. ahead \in 0..(DaysPerWeek - 1)
    BY <1>1, <2>1, Division
  <2>3. (q + ((s.day - (q % DaysPerWeek)) % DaysPerWeek)) % DaysPerWeek = s.day
    <3> HIDE DEF q
    <3> QED  BY <1>1, <1>3, DaysAhead
  <2> QED  BY <1>4, <2>2, <2>3
<1> HIDE DEF ahead
<1>6. ahead * DayLen \in Int /\ 0 <= ahead * DayLen
  BY <1>1, <1>5
<1>7. /\ WeekLen \in Int /\ DayLen <= WeekLen
      /\ ahead * DayLen + DayLen <= WeekLen
  <2>1. DayLen * ahead + DayLen <= DayLen * DaysPerWeek
    BY <1>1, <1>5, MultiplesApart
  <2>2. DayLen * ahead = ahead * DayLen /\ WeekLen = DayLen * DaysPerWeek
    BY <1>1, <1>5 DEF WeekLen
  <2>3. WeekLen \in Int
    BY <1>1 DEF WeekLen
  <2> QED  BY <1>1, <1>6, <2>1, <2>2, <2>3
<1>8. slot \in Int /\ IsSlot(s, minute, slot)
  <2> DEFINE m == q + ahead
  <2>1. m \in Int
    BY <1>3, <1>5
  <2>2. slot = DayLen * m + T
    BY <1>1, <1>3, <1>5, <1>6
  <2>3. (DayLen * m + T) % DayLen = T /\ (DayLen * m + T) \div DayLen = m
    <3> HIDE DEF m, T
    <3> QED  BY <1>1, <2>1, DivisionUnique
  <2>4. slot \in Int
    BY <1>2, <1>6
  <2>5. slot % DayLen = T /\ Weekday(slot) = s.day
    BY <1>5, <2>2, <2>3, Zenon DEF Weekday
  <2> QED  BY <2>4, <2>5 DEF IsSlot
<1>9. IsSlot(s, minute, slot + WeekLen)
  <2> DEFINE m == q + ahead
             w == m + DaysPerWeek
  <2>1. m \in Int /\ w \in Int
    BY <1>1, <1>3, <1>5
  <2>2. slot + WeekLen = DayLen * w + T
    BY <1>1, <1>3, <1>5, <1>6 DEF WeekLen
  <2>3. (DayLen * w + T) % DayLen = T /\ (DayLen * w + T) \div DayLen = w
    <3> HIDE DEF w, T
    <3> QED  BY <1>1, <2>1, DivisionUnique
  <2>4. w % DaysPerWeek = s.day
    <3>1. (m + DaysPerWeek) % DaysPerWeek = m % DaysPerWeek
      <4> HIDE DEF m
      <4> QED  BY <1>1, <2>1, NextPeriod
    <3> QED  BY <1>5, <3>1
  <2>5. (slot + WeekLen) % DayLen = T /\ Weekday(slot + WeekLen) = s.day
    BY <2>2, <2>3, <2>4, Zenon DEF Weekday
  <2> QED  BY <2>5 DEF IsSlot
<1>10. n = IF slot <= t THEN slot + WeekLen ELSE slot
  BY Zenon DEF Weekly, ahead, SlotToday
<1>11. n \in Int /\ IsSlot(s, minute, n) /\ n > t /\ n - WeekLen <= t
  <2>1. CASE slot <= t
    <3>1. n = slot + WeekLen
      BY <1>10, <2>1
    <3>2. n \in Int /\ n > t /\ n - WeekLen <= t
      <4> HIDE DEF n
      <4> QED  BY <1>1, <1>2, <1>6, <1>7, <1>8, <2>1, <3>1
    <3> QED  BY <1>9, <3>1, <3>2, Zenon
  <2>2. CASE ~(slot <= t)
    <3>1. n = slot
      BY <1>10, <2>2
    <3>2. n \in Int /\ n > t /\ n - WeekLen <= t
      <4> HIDE DEF n
      <4> QED  BY <1>1, <1>2, <1>6, <1>7, <1>8, <2>2, <3>1
    <3> QED  BY <1>8, <3>1, <3>2, Zenon
  <2> QED  BY <2>1, <2>2
<1>12. ASSUME NEW x \in (t + 1)..(n - 1), IsSlot(s, minute, x)
       PROVE  FALSE
  <2>1. x \in Int /\ x < n /\ t < x
    BY <1>11
  <2>2. x % DayLen = n % DayLen /\ Weekday(x) = Weekday(n)
    BY <1>11, <1>12 DEF IsSlot
  <2>3. x + WeekLen <= n
    <3> HIDE DEF n
    <3> QED  BY <1>11, <2>1, <2>2, WeekApart
  <2> HIDE DEF n
  <2> QED  BY <1>7, <1>11, <2>1, <2>3
<1>13. ComputeNextRun(s, t) = n
  BY DEF ComputeNextRun
<1> QED  BY <1>11, <1>12, <1>13 DEF FirstSlot

(* Whatever the schedule, compute_next_run returns an instant after now,   *)
(* and no slot lies between the two.                                       *)
LEMMA ComputeNextRunFirst ==
  ASSUME NEW s \in Calendar, NEW minute, NEW t \in Int
  PROVE  FirstSlot(s, minute, t, ComputeNextRun(s, t))
<1>1. CASE s.frequency = "interval"
  BY <1>1 DEF FirstSlot, ComputeNextRun, Calendar
<1> QED  BY <1>1, HourlyFirst, DailyFirst, WeeklyFirst DEF Calendar

(* compute_next_run looks ahead, whatever the schedule: what Scheduler     *)
(* assumes of its constant NextRun holds of this one.                      *)
THEOREM NextRunLater ==
  ASSUME NEW s \in Calendar, NEW t \in Nat
  PROVE  ComputeNextRun(s, t) \in Nat /\ ComputeNextRun(s, t) > t
<1> DEFINE n == ComputeNextRun(s, t)
<1>1. n \in Int /\ n > t
  BY ComputeNextRunFirst DEF FirstSlot
<1> HIDE DEF n
<1>2. n \in Nat /\ n > t
  BY <1>1
<1> QED  BY <1>2 DEF n

-----------------------------------------------------------------------------
(* The schedule that is fired again and again.                             *)

IInv ==
  /\ sched \in Calendar
  /\ now \in Int
  /\ next = ComputeNextRun(sched, now)

LEMMA InitIInv == Init => IInv
  BY DEF Init, IInv

LEMMA NextIInv == IInv /\ [Fire]_vars => IInv'
  BY DEF IInv, Fire, vars

LEMMA IInvFirst == IInv => NextIsFirstSlot
<1> SUFFICES ASSUME IInv PROVE NextIsFirstSlot
  OBVIOUS
<1>1. FirstSlot(sched, wanted, now, next)
  BY ComputeNextRunFirst DEF IInv
<1>2. ASSUME sched.frequency = "hourly"
      PROVE  /\ next <= now + HourLen
             /\ ComputeNextRun(sched, next) = next + HourLen
             /\ wanted # 0 => ~IsSlot(sched, wanted, next)
  <2>1. next = Hourly(now) /\ ComputeNextRun(sched, next) = Hourly(next)
    BY <1>2 DEF IInv, ComputeNextRun
  <2>2. /\ next - HourLen <= now /\ next % HourLen = 0 /\ next \in Int
        /\ Hourly(next) = next + HourLen
    BY <2>1, FullHour DEF IInv
  <2>3. next <= now + HourLen
    BY <2>2, CalendarAssumption DEF IInv
  <2>4. wanted # 0 => ~IsSlot(sched, wanted, next)
    BY <1>2, <2>2 DEF IsSlot
  <2> QED  BY <2>1, <2>2, <2>3, <2>4
<1> QED  BY <1>1, <1>2 DEF FirstSlot, NextIsFirstSlot

(* However late each check comes, the next run is the first slot after it: *)
(* compute_next_run skips no slot and repeats none.  An hourly schedule    *)
(* runs once an hour, at no other minute than 0.                           *)
THEOREM FirstSlotAlways == Spec => []NextIsFirstSlot
  BY InitIInv, NextIInv, IInvFirst, PTL DEF Spec
===============================================================================
