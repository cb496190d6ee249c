------------------------------ MODULE SleepState ------------------------------
(***************************************************************************)
(* The sleep / hibernate bookkeeping of app/core/sleep.py: which trackers  *)
(* are skipped by a run because they kept failing, and for how long.       *)
(*                                                                         *)
(* The JSON file maps a URL to an entry and omits trackers that never      *)
(* failed.  Here a sleep state is a total function on Trackers, and Awake  *)
(* stands for "no entry".  Time is counted in abstract ticks; SleepSpan    *)
(* and HibernateSpan are the code's 48 and 168 hours.                      *)
(***************************************************************************)
EXTENDS Integers

CONSTANTS Trackers, SleepSpan, HibernateSpan

ASSUME SpanAssumption ==
  /\ SleepSpan \in Nat \ {0}
  /\ HibernateSpan \in Nat \ {0}
  /\ SleepSpan <= HibernateSpan

NoTime == -1                     \* sleep_until = None

SleepEntry ==
  [state    : {"awake", "watching", "sleep", "hibernate"},
   failures : Nat,
   until    : Nat \cup {NoTime}]

SleepStates == [Trackers -> SleepEntry]

Awake == [state |-> "awake", failures |-> 0, until |-> NoTime]

NoSleep == [x \in Trackers |-> Awake]

(* Faulty variant: the first failure already parks.                        *)
ClassifyFirst(failures) ==
  CASE failures = 0 -> "awake"
    [] failures \in 1..5 -> "sleep"
    [] OTHER -> "hibernate"

Classify(failures) ==
  CASE failures = 0 -> "awake"
    [] failures = 1 -> "watching"
    [] failures \in 2..5 -> "sleep"
    [] OTHER -> "hibernate"

Span(state) == IF state = "hibernate" THEN HibernateSpan ELSE SleepSpan

Parked(entry) == entry.state \in {"sleep", "hibernate"}

(* The entry written for a tracker that has now failed `failures` times.   *)
Backoff(failures, now) ==
  LET state == Classify(failures)
  IN  [state    |-> state,
       failures |-> failures,
       until    |-> IF state \in {"sleep", "hibernate"}
                    THEN now + Span(state) ELSE NoTime]

Dormant(sleep, now) ==
  {x \in Trackers : Parked(sleep[x]) /\ sleep[x].until > now}

PruneUnknown(sleep, known) ==
  [x \in Trackers |-> IF x \in known THEN sleep[x] ELSE Awake]

(* Faulty variant: a success only takes the tracker out of its nap.        *)
UpdateKeepsCount(sleep, tested, passed, now) ==
  [x \in Trackers |->
     CASE x \in tested \cap passed ->
            [sleep[x] EXCEPT !.state = "watching", !.until = NoTime]
       [] x \in tested \ passed -> Backoff(sleep[x].failures + 1, now)
       [] OTHER -> sleep[x]]

(* Faulty variant: a success takes one failure back instead of all.        *)
UpdateDecrements(sleep, tested, passed, now) ==
  [x \in Trackers |->
     CASE x \in tested \cap passed -> [sleep[x] EXCEPT !.failures = @ - 1]
       [] x \in tested \ passed -> Backoff(sleep[x].failures + 1, now)
       [] OTHER -> sleep[x]]

(* Faulty variant: every tracker that did not pass is charged a failure,   *)
(* the ones the run never pinged included.                                 *)
UpdateChargesUntested(sleep, tested, passed, now) ==
  [x \in Trackers |->
     IF x \in passed THEN Awake ELSE Backoff(sleep[x].failures + 1, now)]

UpdateAfterRun(sleep, tested, passed, now) ==
  [x \in Trackers |->
     CASE x \in tested \cap passed -> Awake
       [] x \in tested \ passed    -> Backoff(sleep[x].failures + 1, now)
       [] OTHER                    -> sleep[x]]
===============================================================================
