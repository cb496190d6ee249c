--------------------------- MODULE TrackerPingProofs --------------------------
(***************************************************************************)
(* What holds of the sleep state for any trackers, any number of runs and  *)
(* any interleaving of runs, wakes, aborts, restarts and failed writes.    *)
(***************************************************************************)
EXTENDS TrackerPing, FiniteSetTheorems, WellFoundedInduction, TLAPS

USE SpanAssumption, PipelineAssumption

-------------------------------------------------------------------------------
(* The operators of SleepState *)

(* An entry is what some failure at or before `now` wrote: it keeps the    *)
(* documented state for its count, and ends within the span of that state. *)
Sound(entry, now) ==
  /\ entry.state = Classify(entry.failures)
  /\ Parked(entry) => entry.until <= now + Span(entry.state)

(* Classify only yields the four states, and "sleep" or "hibernate" from   *)
(* the second failure on.                                                  *)
LEMMA ClassifyCases ==
  ASSUME NEW n \in Nat
  PROVE  /\ Classify(n) \in {"awake", "watching", "sleep", "hibernate"}
         /\ Classify(n) = "awake" <=> n = 0
         /\ Classify(n) = "watching" <=> n = 1
         /\ Classify(n) = "sleep" <=> n \in 2..5
         /\ Classify(n) = "hibernate" <=> n > 5
  BY DEF Classify

(* What Backoff writes is a sound entry with the given count.              *)
LEMMA BackoffSound ==
  ASSUME NEW n \in Nat, NEW now \in Nat
  PROVE  /\ Backoff(n, now) \in SleepEntry
         /\ Backoff(n, now).failures = n
         /\ Sound(Backoff(n, now), now)
  BY ClassifyCases DEF Backoff, SleepEntry, Sound, Parked, Span, NoTime

(* Awake is an entry without failures, sound at any time.                  *)
LEMMA AwakeSound ==
  /\ Awake \in SleepEntry
  /\ Awake.failures = 0
  /\ \A now \in Nat : Sound(Awake, now)
  BY ClassifyCases DEF Awake, SleepEntry, Sound, Parked, NoTime

LEMMA NoSleepType == NoSleep \in SleepStates
  BY AwakeSound DEF NoSleep, SleepStates

(* update_after_run keeps the shape of the state, and an entry either      *)
(* stays, is cleared by a pass, or is charged one failure by a test that   *)
(* did not pass.                                                           *)
LEMMA UpdateCases ==
  ASSUME NEW sleep \in SleepStates, NEW tested, NEW passed, NEW now \in Nat
  PROVE  /\ UpdateAfterRun(sleep, tested, passed, now) \in SleepStates
         /\ \A x \in Trackers :
              LET after == UpdateAfterRun(sleep, tested, passed, now)[x]
              IN  /\ x \in tested \cap passed => after = Awake
                  /\ x \in tested \ passed =>
                       after = Backoff(sleep[x].failures + 1, now)
                  /\ x \notin tested => after = sleep[x]
  <1>1. \A x \in Trackers : Backoff(sleep[x].failures + 1, now) \in SleepEntry
    BY BackoffSound DEF SleepStates, SleepEntry
  <1> QED
    BY <1>1, AwakeSound DEF UpdateAfterRun, SleepStates

(* Pruning keeps or clears each entry.                                     *)
LEMMA PruneCases ==
  ASSUME NEW sleep \in SleepStates, NEW known
  PROVE  /\ PruneUnknown(sleep, known) \in SleepStates
         /\ \A x \in Trackers :
              PruneUnknown(sleep, known)[x] \in {sleep[x], Awake}
  BY AwakeSound DEF PruneUnknown, SleepStates

(* Soundness is not lost as time passes.                                   *)
LEMMA SoundLater ==
  ASSUME NEW entry \in SleepEntry, NEW now \in Nat, NEW later \in Nat,
         now <= later, Sound(entry, now)
  PROVE  Sound(entry, later)
  BY ClassifyCases DEF Sound, Parked, Span, SleepEntry, NoTime

-------------------------------------------------------------------------------
(* Induction over the naturals, from first-order facts of the library *)

(* Sets of naturals have a least element: initial segments are finite sets,*)
(* and strict inclusion is well-founded on those.                          *)
LEMMA Least ==
  ASSUME NEW T \in SUBSET Nat, T # {}
  PROVE  \E n \in T : \A m \in T : n <= m
  <1> DEFINE segments == {1..n : n \in T}
             R == StrictSubsetOrdering(Nat)
  <1>1. segments \subseteq FiniteSubsetsOf(Nat)
    BY FS_Interval DEF FiniteSubsetsOf
  <1>2. IsWellFoundedOn(R, FiniteSubsetsOf(Nat))
    BY FS_StrictSubsetOrderingWellFounded
  <1>3. segments # {}
    OBVIOUS
  <1>4. \E x \in segments : \A y \in segments : ~(<<y, x>> \in R)
    <2> HIDE DEF segments, R
    <2> QED BY <1>1, <1>2, <1>3, WFMin
  <1>5. PICK n \in T : \A m \in T : <<1..m, 1..n>> \notin R
    BY <1>4
  <1>6. ASSUME NEW m \in T, m < n PROVE FALSE
    <2>1. 1..m \subseteq 1..n /\ 1..m # 1..n
      <3>1. n \in 1..n /\ n \notin 1..m
        BY <1>6
      <3> QED BY <1>6, <3>1
    <2>2. 1..m \in SUBSET Nat /\ 1..n \in SUBSET Nat
      OBVIOUS
    <2>3. <<1..m, 1..n>> \in R
      BY <2>1, <2>2 DEF StrictSubsetOrdering
    <2> QED BY <1>5, <2>3
  <1> QED BY <1>6

(* What holds of 0 and passes from n to n + 1 below m holds up to m.       *)
LEMMA Induction ==
  ASSUME NEW T, 0 \in T, NEW m \in Nat, \A n \in 0..(m-1) : n \in T => n + 1 \in T
  PROVE  0..m \subseteq T
  <1> DEFINE missing == {n \in 0..m : n \notin T}
  <1> SUFFICES ASSUME missing # {} PROVE FALSE
    OBVIOUS
  <1>0. missing \in SUBSET Nat
    OBVIOUS
  <1>1. PICK n \in missing : \A k \in missing : n <= k
    <2> HIDE DEF missing
    <2> QED BY <1>0, Least
  <1>2. n \in 1..m /\ n - 1 \in 0..m
    BY <1>1
  <1>3. n - 1 \in T
    BY <1>1, <1>2
  <1>4. n - 1 \in 0..(m - 1) /\ (n - 1) + 1 = n
    BY <1>2
  <1> QED BY <1>1, <1>3, <1>4

-------------------------------------------------------------------------------
(* The history *)

(* One step of the filter.                                                 *)
Add(runs, now, list, n) ==
  IF runs[n].ts > now - HistoryDays THEN Append(list, runs[n]) ELSE list

(* f[n]: what is kept of the first n results, for n up to m.               *)
Filter(runs, now, m, f) ==
  /\ f \in [0..m -> Seq(Result)]
  /\ f[0] = <<>>
  /\ \A n \in 1..m : f[n] = Add(runs, now, f[n - 1], n)

(* The filter of a list is defined: by induction on how far it was read.   *)
LEMMA FilterExists ==
  ASSUME NEW runs \in Seq(Result), NEW now \in Int
  PROVE  \E f : Filter(runs, now, Len(runs), f)
  <1> DEFINE T == {m \in 0..Len(runs) : \E f : Filter(runs, now, m, f)}
  <1>0. Len(runs) \in Nat
    OBVIOUS
  <1>1. 0 \in T
    <2>1. Filter(runs, now, 0, [n \in 0..0 |-> <<>>])
      BY DEF Filter
    <2> QED BY <1>0, <2>1
  <1>2. ASSUME NEW m \in 0..(Len(runs) - 1), m \in T PROVE m + 1 \in T
    <2>1. PICK f : Filter(runs, now, m, f)
      BY <1>2
    <2> DEFINE last == Add(runs, now, f[m], m + 1)
               g == [n \in 0..(m + 1) |-> IF n = m + 1 THEN last ELSE f[n]]
    <2>2. last \in Seq(Result)
      <3>1. runs[m + 1] \in Result /\ f[m] \in Seq(Result)
        BY <1>0, <2>1 DEF Filter
      <3> QED BY <3>1 DEF Add
    <2> HIDE DEF last
    <2>3. g \in [0..(m + 1) -> Seq(Result)] /\ g[0] = <<>>
      BY <1>0, <2>1, <2>2 DEF Filter
    <2>4. ASSUME NEW n \in 1..(m + 1) PROVE g[n] = Add(runs, now, g[n - 1], n)
      <3>1. CASE n = m + 1
        <4>1. g[n] = last /\ g[n - 1] = f[m]
          BY <3>1
        <4> QED BY <3>1, <4>1 DEF last
      <3>2. CASE n \in 1..m
        <4>1. g[n] = f[n] /\ g[n - 1] = f[n - 1]
          BY <3>2
        <4> QED BY <2>1, <3>2, <4>1 DEF Filter
      <3> QED BY <3>1, <3>2
    <2>5. Filter(runs, now, m + 1, g)
      <3> HIDE DEF g
      <3> QED BY <2>3, <2>4 DEF Filter
    <2> QED BY <1>0, <2>5
  <1>3. 0..Len(runs) \subseteq T
    <2> HIDE DEF T
    <2> QED BY <1>0, <1>1, <1>2, Induction
  <1>4. Len(runs) \in T
    BY <1>0, <1>3
  <1> QED BY <1>4

(* ... and it is what Recent computes.                                     *)
LEMMA RecentIsFilter ==
  ASSUME NEW runs \in Seq(Result), NEW now \in Int
  PROVE  \E f : Filter(runs, now, Len(runs), f) /\ Recent(runs, now) = f[Len(runs)]
  <1> DEFINE m == Len(runs)
             Kept(f) == [n \in 0..m |->
                           IF n = 0 THEN <<>>
                           ELSE IF runs[n].ts > now - HistoryDays
                           THEN Append(f[n - 1], runs[n]) ELSE f[n - 1]]
             k == CHOOSE f : f = Kept(f)
  <1>0. m \in Nat
    OBVIOUS
  <1>1. PICK g : Filter(runs, now, m, g)
    BY FilterExists
  <1>2. g = Kept(g)
    <2>1. ASSUME NEW n \in 0..m PROVE g[n] = Kept(g)[n]
      <3>1. CASE n \in 1..m
        BY <1>0, <1>1, <3>1 DEF Filter, Add
      <3>2. CASE n = 0
        BY <1>0, <1>1, <3>2 DEF Filter
      <3> QED BY <1>0, <3>1, <3>2
    <2>2. g = [n \in 0..m |-> g[n]]
      BY <1>1 DEF Filter
    <2>3. Kept(g) = [n \in 0..m |-> Kept(g)[n]]
      OBVIOUS
    <2> HIDE DEF Kept
    <2> QED BY <2>1, <2>2, <2>3, Zenon
  <1>3. k = Kept(k)
    BY <1>2
  <1>4. Recent(runs, now) = k[m]
    BY DEF Recent
  <1> DEFINE T == {n \in 0..m : k[n] = g[n]}
  <1> HIDE DEF k
  <1>5. 0 \in T
    BY <1>0, <1>1, <1>3 DEF Filter
  <1>6. ASSUME NEW n \in 0..(m - 1), n \in T PROVE n + 1 \in T
    <2>1. n + 1 \in 1..m /\ (n + 1) - 1 = n
      BY <1>0
    <2>2. k[n + 1] = Add(runs, now, k[n], n + 1)
      <3>1. k[n + 1] = Kept(k)[n + 1]
        BY <1>3, Zenon
      <3>2. n + 1 \in 0..m /\ n + 1 # 0
        BY <1>0
      <3>3. Kept(k)[n + 1] = Add(runs, now, k[(n + 1) - 1], n + 1)
        BY <3>2 DEF Add
      <3> QED BY <2>1, <3>1, <3>3, Zenon
    <2>3. g[n + 1] = Add(runs, now, g[n], n + 1)
      BY <1>1, <2>1 DEF Filter
    <2> QED BY <1>6, <2>1, <2>2, <2>3
  <1>7. 0..m \subseteq T
    <2> HIDE DEF T
    <2> QED BY <1>0, <1>5, <1>6, Induction
  <1> QED BY <1>0, <1>1, <1>4, <1>7

(* What is kept of results are results.                                    *)
LEMMA RecentType ==
  ASSUME NEW runs \in Seq(Result), NEW now \in Int
  PROVE  Recent(runs, now) \in Seq(Result)
  <1>1. Len(runs) \in 0..Len(runs)
    OBVIOUS
  <1> QED
    BY <1>1, RecentIsFilter DEF Filter

(* A first result that is not too old is kept, and first.                  *)
LEMMA RecentHead ==
  ASSUME NEW runs \in Seq(Result), NEW now \in Int, runs # <<>>,
         runs[1].ts > now - HistoryDays
  PROVE  /\ Recent(runs, now) # <<>>
         /\ Head(Recent(runs, now)) = runs[1]
  <1> DEFINE m == Len(runs)
  <1>0. m \in Nat \ {0}
    OBVIOUS
  <1>1. PICK f : Filter(runs, now, m, f) /\ Recent(runs, now) = f[m]
    BY RecentIsFilter
  <1> DEFINE Begins(list) == list # <<>> /\ Head(list) = runs[1]
             T == {n \in 0..m : n >= 1 => Begins(f[n])}
  <1>2. 0 \in T
    BY <1>0
  <1>3. ASSUME NEW n \in 0..(m - 1), n \in T PROVE n + 1 \in T
    <2>1. /\ n + 1 \in 1..m /\ (n + 1) - 1 = n
          /\ f[n] \in Seq(Result) /\ runs[n + 1] \in Result
      BY <1>0, <1>1 DEF Filter
    <2>2. f[n + 1] = Add(runs, now, f[n], n + 1)
      BY <1>1, <2>1 DEF Filter
    <2>3. CASE n = 0
      <3>1. f[n] = <<>>
        BY <1>1, <2>3 DEF Filter
      <3>2. f[n + 1] = <<runs[1]>>
        BY <2>2, <2>3, <3>1 DEF Add
      <3> QED
        BY <2>1, <3>2
    <2>4. CASE n >= 1
      <3>1. f[n] # <<>> /\ Head(f[n]) = runs[1]
        BY <1>3, <2>4
      <3>2. \A result \in Result : Begins(Append(f[n], result))
        BY <2>1, <3>1
      <3>3. Begins(f[n + 1])
        BY <2>1, <2>2, <3>1, <3>2 DEF Add
      <3> QED
        BY <2>1, <3>3
    <2> QED
      BY <2>3, <2>4
  <1>4. 0..m \subseteq T
    <2> HIDE DEF T
    <2> QED
      BY <1>0, <1>2, <1>3, Induction
  <1>5. m \in T
    BY <1>0, <1>4
  <1> QED
    BY <1>0, <1>1, <1>5

(* What record_run writes is a history again, and puts a tracker's result  *)
(* of this run first.                                                      *)
LEMMA RecordRunCases ==
  ASSUME NEW h \in [Trackers -> Seq(Result)], NEW tested, NEW passed, NEW pool,
         NEW now \in Nat
  PROVE  LET after == RecordRun(h, tested, passed, pool, now)
         IN  /\ after \in [Trackers -> Seq(Result)]
             /\ \A x \in tested \cap pool \cap Trackers :
                  after[x] # <<>> /\ Head(after[x]).up = (x \in passed)
  <1> DEFINE New(x) == IF x \in tested THEN <<[ts |-> now, up |-> x \in passed]>> ELSE <<>>
  <1>1. ASSUME NEW x \in Trackers PROVE New(x) \o h[x] \in Seq(Result)
    <2> DEFINE new == [ts |-> now, up |-> x \in passed]
    <2>1. new \in Result
      BY DEF Result
    <2>2. New(x) = IF x \in tested THEN <<new>> ELSE <<>>
      OBVIOUS
    <2> HIDE DEF new, New
    <2> QED
      BY <2>1, <2>2
  <1>2. ASSUME NEW x \in Trackers PROVE Recent(New(x) \o h[x], now) \in Seq(Result)
    <2>1. now \in Int
      OBVIOUS
    <2> HIDE DEF New
    <2> QED
      BY <1>1, <2>1, RecentType
  <1>3. RecordRun(h, tested, passed, pool, now) \in [Trackers -> Seq(Result)]
    <2> HIDE DEF New
    <2>1. RecordRun(h, tested, passed, pool, now)
            = [x \in Trackers |-> IF x \in pool THEN Recent(New(x) \o h[x], now) ELSE <<>>]
      BY DEF RecordRun, New
    <2> QED
      BY <1>2, <2>1
  <1>4. ASSUME NEW x \in tested \cap pool \cap Trackers
        PROVE  LET after == RecordRun(h, tested, passed, pool, now)
               IN  after[x] # <<>> /\ Head(after[x]).up = (x \in passed)
    <2> DEFINE new == [ts |-> now, up |-> x \in passed]
               runs == <<new>> \o h[x]
    <2>1. runs \in Seq(Result) /\ runs # <<>> /\ runs[1] = new
      <3>1. new \in Result /\ h[x] \in Seq(Result)
        BY DEF Result
      <3> HIDE DEF new
      <3> QED
        BY <3>1
    <2>2. new.ts > now - HistoryDays
      BY PipelineAssumption
    <2>3. RecordRun(h, tested, passed, pool, now)[x] = Recent(runs, now)
      BY DEF RecordRun
    <2>4. new.up = (x \in passed)
      OBVIOUS
    <2> HIDE DEF new, runs
    <2> QED
      BY <2>1, <2>2, <2>3, <2>4, RecentHead
  <1> QED
    BY <1>3, <1>4

-------------------------------------------------------------------------------
(* Types *)

LEMMA InitType == Init => CoreTypeOK
  <1> SUFFICES ASSUME Init PROVE CoreTypeOK
    OBVIOUS
  <1>1. PICK prior \in [Trackers -> PriorFailures] :
          /\ sleepFile = [x \in Trackers |-> Backoff(prior[x], 0)]
          /\ downs = prior /\ streak = prior /\ tally = prior
    BY DEF Init
  <1>2. prior \in [Trackers -> Nat]
    BY <1>1
  <1>3. sleepFile \in SleepStates
    BY <1>1, <1>2, BackoffSound DEF SleepStates
  <1>4. NoLocals \in Locals
    BY NoSleepType DEF NoLocals, Locals
  <1> QED
    BY <1>1, <1>2, <1>3, <1>4 DEF Init, CoreTypeOK

LEMMA ReckonType ==
  ASSUME CoreTypeOK, NEW undisturbed \in BOOLEAN,
         NEW counts \in [Trackers -> Nat \cup {Unknown}], Reckon(undisturbed, counts)
  PROVE  calm' \in BOOLEAN /\ tally' \in [Trackers -> Nat \cup {Unknown}]
  BY DEF CoreTypeOK, Reckon

(* Ending a run keeps the types of pc and loc.                             *)
LEMMA FinishType ==
  ASSUME CoreTypeOK, NEW r \in Runs, NEW verdict \in Over, Finish(r, verdict)
  PROVE  /\ pc' \in [Runs -> {"idle"} \cup InFlight \cup Over]
         /\ loc' \in [Runs -> Locals]
  <1>1. NoLocals \in Locals
    BY NoSleepType DEF NoLocals, Locals
  <1> QED
    BY <1>1 DEF CoreTypeOK, Finish, Goto, Over

LEMMA StartType ==
  ASSUME CoreTypeOK, NEW r \in Runs, Start(r)
  PROVE  CoreTypeOK'
  <1>1. PICK noUdp \in UdpBlocked :
          loc' = [loc EXCEPT ![r] = [NoLocals EXCEPT !.noUdp = noUdp]]
    BY DEF Start
  <1>2. noUdp \in BOOLEAN
    BY DEF UdpBlocked
  <1>3. [NoLocals EXCEPT !.noUdp = noUdp] \in Locals
    BY <1>2, NoSleepType DEF NoLocals, Locals
  <1>4. calm' \in BOOLEAN /\ tally' \in [Trackers -> Nat \cup {Unknown}]
    BY ReckonType DEF Start, CoreTypeOK
  <1> QED
    BY <1>1, <1>3, <1>4 DEF Start, CoreTypeOK, Goto, InFlight, files, charges

LEMMA CollectType ==
  ASSUME CoreTypeOK, NEW r \in Runs, NEW pool \in SUBSET Trackers, Collect(r, pool)
  PROVE  CoreTypeOK'
  <1> DEFINE snap == PruneUnknown(sleepFile, pool)
             active == pool \ Dormant(snap, clock)
  <1>1. snap \in SleepStates
    BY PruneCases DEF CoreTypeOK
  <1>2. knownFile' \subseteq Trackers
    BY DEF Collect, Saved, CoreTypeOK
  <1>3. CASE /\ loc' = [loc EXCEPT ![r].pool = pool, ![r].snap = snap,
                                   ![r].active = active]
             /\ Goto(r, "pinging")
             /\ UNCHANGED <<sleepFile, calm, tally>>
    <2>1. [loc[r] EXCEPT !.pool = pool, !.snap = snap, !.active = active] \in Locals
      BY <1>1 DEF CoreTypeOK, Locals
    <2>2. loc' \in [Runs -> Locals]
      BY <1>3, <2>1 DEF CoreTypeOK
    <2> QED
      BY <1>2, <1>3, <2>2 DEF Collect, CoreTypeOK, Goto, InFlight, charges
  <1> DEFINE counts == [x \in Trackers |-> IF x \in pool THEN tally[x] ELSE 0]
  <1>4. CASE /\ sleepFile' \in Saved(sleepFile, snap, NoSleep)
             /\ Reckon(sleepFile' = snap, counts)
             /\ Finish(r, "done")
    <2>1. sleepFile' \in SleepStates
      BY <1>1, <1>4, NoSleepType DEF CoreTypeOK, Saved
    <2>2. /\ pc' \in [Runs -> {"idle"} \cup InFlight \cup Over]
          /\ loc' \in [Runs -> Locals]
      BY <1>4, FinishType DEF Over
    <2>3. counts \in [Trackers -> Nat \cup {Unknown}]
      BY DEF CoreTypeOK
    <2> HIDE DEF counts, snap
    <2>4. calm' \in BOOLEAN /\ tally' \in [Trackers -> Nat \cup {Unknown}]
      BY <1>4, <2>3, ReckonType
    <2> QED
      BY <1>2, <2>1, <2>2, <2>4 DEF Collect, CoreTypeOK, charges
  <1> QED
    BY <1>3, <1>4 DEF Collect

LEMMA PingType ==
  ASSUME CoreTypeOK, NEW r \in Runs, NEW up \in SUBSET Trackers, Ping(r, up)
  PROVE  CoreTypeOK'
  <1>1. CASE /\ loc' = [loc EXCEPT ![r].passed = up]
             /\ Goto(r, "measuring")
    <2>1. [loc[r] EXCEPT !.passed = up] \in Locals
      BY DEF CoreTypeOK, Locals
    <2> QED
      BY <1>1, <2>1 DEF Ping, CoreTypeOK, Goto, InFlight, files, charges, ghosts
  <1>2. CASE Finish(r, "failed")
    BY <1>2, FinishType DEF Ping, CoreTypeOK, Over, files, charges, ghosts
  <1> QED
    BY <1>1, <1>2 DEF Ping

LEMMA RecordType ==
  ASSUME CoreTypeOK, NEW r \in Runs, Record(r)
  PROVE  CoreTypeOK'
  <1> DEFINE l == loc[r]
             after == UpdateAfterRun(l.snap, Tested(l), l.passed, clock)
  <1>1. after \in SleepStates
    <2> l.snap \in SleepStates /\ clock \in Nat
      BY DEF CoreTypeOK, Locals
    <2> QED
      BY UpdateCases
  <1>2. sleepFile' \in SleepStates
    BY <1>1, NoSleepType DEF Record, Saved, CoreTypeOK
  <1>3. totalRuns' \in Nat
    BY DEF Record, Saved, CoreTypeOK
  <1>4. downs' \in [Trackers -> Nat] /\ streak' \in [Trackers -> Nat]
    BY DEF Record, CoreTypeOK
  <1>5. calm' \in BOOLEAN /\ tally' \in [Trackers -> Nat \cup {Unknown}]
    <2>1. Tallied(l) \in [Trackers -> Nat \cup {Unknown}]
      BY DEF Tallied, CoreTypeOK, Unknown
    <2> QED
      BY <2>1, ReckonType DEF Record
  <1> QED
    BY <1>2, <1>3, <1>4, <1>5 DEF Record, CoreTypeOK, Goto, InFlight

(* The steps after Record move pc, and Apply replaces qbt.                 *)
LEMMA QbtType ==
  ASSUME CoreTypeOK, NEW r \in Runs,
         \/ Login(r) \/ LoginFails(r)
         \/ Apply(r) \/ Injected(r) \/ InjectFails(r) \/ Verify(r)
  PROVE  CoreTypeOK'
  <1>1. loc[r].passed \subseteq Trackers
    BY DEF CoreTypeOK, Locals
  <1>2. CASE Login(r)
    BY <1>2 DEF Login, CoreTypeOK, Goto, InFlight, files, charges, ghosts
  <1>3. CASE Apply(r) \/ Injected(r)
    BY <1>1, <1>3 DEF Apply, Injected, CoreTypeOK, Goto, InFlight, files, charges, ghosts
  <1>4. CASE LoginFails(r)
    BY <1>4, FinishType DEF LoginFails, CoreTypeOK, Over, files, charges, ghosts
  <1>5. CASE InjectFails(r)
    BY <1>5, FinishType DEF InjectFails, CoreTypeOK, Over, files, charges, ghosts
  <1>6. CASE Verify(r)
    BY <1>6, FinishType DEF Verify, CoreTypeOK, Over, files, charges, ghosts
  <1> QED
    BY <1>2, <1>3, <1>4, <1>5, <1>6

LEMMA RestartType == CoreTypeOK /\ Restart => CoreTypeOK'
  <1> SUFFICES ASSUME CoreTypeOK, Restart PROVE CoreTypeOK'
    OBVIOUS
  <1>1. loc' \in [Runs -> Locals]
    BY NoSleepType DEF Restart, NoLocals, Locals
  <1>2. pc' \in [Runs -> {"idle"} \cup InFlight \cup Over]
    BY DEF Restart, CoreTypeOK, Over
  <1> QED
    BY <1>1, <1>2 DEF Restart, CoreTypeOK, files, charges, ghosts

LEMMA NextType == CoreTypeOK /\ [Next]_vars => CoreTypeOK'
  <1> SUFFICES ASSUME CoreTypeOK, [Next]_vars PROVE CoreTypeOK'
    OBVIOUS
  <1>1. ASSUME NEW r \in Runs, Refuse(r) \/ CollectNone(r) PROVE CoreTypeOK'
    BY <1>1, FinishType DEF Refuse, CollectNone, CoreTypeOK, Over, files, charges, ghosts
  <1>2. ASSUME NEW r \in Runs, Abort(r) PROVE CoreTypeOK'
    BY <1>2, FinishType DEF Abort, CoreTypeOK, Over, files, charges, ghosts
  <1>3. ASSUME NEW x \in Trackers, Wake(x) PROVE CoreTypeOK'
    <2>1. [tally EXCEPT ![x] = AfterWake] \in [Trackers -> Nat \cup {Unknown}]
      BY DEF CoreTypeOK, AfterWake
    <2>2. calm' \in BOOLEAN /\ tally' \in [Trackers -> Nat \cup {Unknown}]
      BY <1>3, <2>1, ReckonType DEF Wake
    <2> QED
      BY <1>3, <2>2, AwakeSound, NoSleepType
         DEF Wake, Saved, CoreTypeOK, SleepStates, charges
  <1>4. CASE WakeAll
    <2>1. [x \in Trackers |-> AfterWake] \in [Trackers -> Nat \cup {Unknown}]
      BY DEF AfterWake
    <2>2. calm' \in BOOLEAN /\ tally' \in [Trackers -> Nat \cup {Unknown}]
      BY <1>4, <2>1, ReckonType DEF WakeAll
    <2> QED
      BY <1>4, <2>2, NoSleepType DEF WakeAll, Saved, CoreTypeOK, charges
  <1>5. CASE Tick
    BY <1>5 DEF Tick, CoreTypeOK, files, charges, ghosts
  <1>6. CASE UNCHANGED vars
    BY <1>6 DEF vars, files, charges, ghosts, CoreTypeOK
  <1> QED
    BY <1>1, <1>2, <1>3, <1>4, <1>5, <1>6, StartType, CollectType, PingType,
       RecordType, QbtType, RestartType DEF Next

(* Only Record and nothing else writes the history.                        *)
LEMMA HistoryKept ==
  ASSUME [Next]_vars, \A r \in Runs : ~Record(r)
  PROVE  history' = history
  <1>1. ASSUME NEW r \in Runs,
               \/ Refuse(r) \/ Start(r) \/ CollectNone(r)
               \/ Login(r) \/ LoginFails(r) \/ Apply(r) \/ Injected(r)
               \/ InjectFails(r) \/ Verify(r) \/ Abort(r)
        PROVE  history' = history
    BY <1>1 DEF Refuse, Start, CollectNone, Login, LoginFails, Apply, Injected,
                InjectFails, Verify, Abort, files
  <1>2. ASSUME NEW r \in Runs, NEW some \in SUBSET Trackers,
               Collect(r, some) \/ Ping(r, some)
        PROVE  history' = history
    BY <1>2 DEF Collect, Ping, files
  <1>3. ASSUME NEW x \in Trackers, Wake(x)
        PROVE  history' = history
    BY <1>3 DEF Wake
  <1>4. CASE WakeAll \/ Restart \/ Tick \/ UNCHANGED vars
    BY <1>4 DEF WakeAll, Restart, Tick, vars, files
  <1> QED
    BY <1>1, <1>2, <1>3, <1>4 DEF Next

LEMMA NextHistory == TypeOK /\ [Next]_vars => TypeOK'
  <1> SUFFICES ASSUME TypeOK, [Next]_vars PROVE TypeOK'
    OBVIOUS
  <1>1. CoreTypeOK'
    BY NextType DEF TypeOK
  <1>2. ASSUME NEW r \in Runs, Record(r) PROVE history' \in [Trackers -> Seq(Result)]
    <2> DEFINE l == loc[r]
               logged == RecordRun(history, Tested(l), l.passed, l.pool, clock)
    <2>1. clock \in Nat /\ history \in [Trackers -> Seq(Result)]
      BY DEF TypeOK, CoreTypeOK
    <2>2. logged \in [Trackers -> Seq(Result)]
      BY <2>1, RecordRunCases
    <2>3. NoHistory \in [Trackers -> Seq(Result)]
      BY DEF NoHistory
    <2>4. history' \in {history, logged, NoHistory}
      BY <1>2 DEF Record, Saved
    <2> HIDE DEF logged
    <2> QED
      BY <2>1, <2>2, <2>3, <2>4
  <1>3. history' \in [Trackers -> Seq(Result)]
    BY <1>2, HistoryKept DEF TypeOK
  <1> QED
    BY <1>1, <1>3 DEF TypeOK

(* Every variable keeps its type, the history that record_run filters      *)
(* included.                                                               *)
THEOREM TypeCorrect == Spec => []TypeOK
  <1>1. Init => TypeOK
    <2>1. NoHistory \in [Trackers -> Seq(Result)]
      BY DEF NoHistory
    <2> QED
      BY <2>1, InitType DEF Init, TypeOK
  <1> QED
    BY <1>1, NextHistory, PTL DEF Spec

-------------------------------------------------------------------------------
(* Failures are backed, and naps are bounded *)

AllSound ==
  /\ \A x \in Trackers : Sound(sleepFile[x], clock)
  /\ \A r \in Runs, x \in Trackers : Sound(loc[r].snap[x], clock)

(* The inductive invariant: what holds of the file must hold of every copy *)
(* of it a run carries, because that copy will replace the file.           *)
Backed == CoreTypeOK /\ FailuresBacked /\ AllSound

(* All steps but Record only copy entries between the file and the runs,   *)
(* or clear them, while the clock does not go back.                        *)
CopyStep ==
  /\ downs' = downs
  /\ clock <= clock'
  /\ \A x \in Trackers : sleepFile'[x] \in {sleepFile[x], Awake}
  /\ \A r \in Runs, x \in Trackers :
       loc'[r].snap[x] \in {loc[r].snap[x], sleepFile[x], Awake}

LEMMA InitBacked == Init => Backed
  <1> SUFFICES ASSUME Init PROVE Backed
    OBVIOUS
  <1>1. PICK prior \in [Trackers -> PriorFailures] :
          /\ sleepFile = [x \in Trackers |-> Backoff(prior[x], 0)]
          /\ downs = prior
    BY DEF Init
  <1>2. \A x \in Trackers : /\ sleepFile[x].failures = downs[x]
                            /\ Sound(sleepFile[x], 0)
    BY <1>1, BackoffSound
  <1>3. CoreTypeOK
    BY InitType
  <1>4. \A r \in Runs, x \in Trackers : loc[r].snap[x] = Awake
    BY DEF Init, NoLocals, NoSleep
  <1> QED
    BY <1>2, <1>3, <1>4, AwakeSound
       DEF Init, Backed, FailuresBacked, AllSound, CoreTypeOK

LEMMA CopyBacked ==
  ASSUME Backed, CoreTypeOK', CopyStep
  PROVE  Backed'
  <1>1. clock \in Nat /\ clock' \in Nat /\ clock <= clock'
    BY DEF Backed, CoreTypeOK, CopyStep
  <1>2. \A x \in Trackers : sleepFile[x] \in SleepEntry
    BY DEF Backed, CoreTypeOK, SleepStates
  <1>3. \A r \in Runs, x \in Trackers : loc[r].snap[x] \in SleepEntry
    BY DEF Backed, CoreTypeOK, Locals, SleepStates
  <1>4. \A x \in Trackers : downs[x] \in Nat /\ downs'[x] = downs[x]
    BY DEF Backed, CoreTypeOK, CopyStep
  <1>5. ASSUME NEW x \in Trackers
        PROVE  sleepFile'[x].failures <= downs'[x] /\ Sound(sleepFile'[x], clock')
    BY <1>1, <1>2, <1>4, AwakeSound, SoundLater
       DEF CopyStep, Backed, FailuresBacked, AllSound
  <1>6. ASSUME NEW r \in Runs, NEW x \in Trackers
        PROVE  loc'[r].snap[x].failures <= downs'[x] /\ Sound(loc'[r].snap[x], clock')
    BY <1>1, <1>2, <1>3, <1>4, AwakeSound, SoundLater
       DEF CopyStep, Backed, FailuresBacked, AllSound
  <1> QED
    BY <1>5, <1>6 DEF Backed, FailuresBacked, AllSound

(* The one step that writes new entries: each charges its tracker one more *)
(* failure than the copy had, and counts one more DOWN.                    *)
LEMMA RecordBacked ==
  ASSUME Backed, NEW r \in Runs, Record(r), CoreTypeOK'
  PROVE  Backed'
  <1> DEFINE l == loc[r]
             after == UpdateAfterRun(l.snap, Tested(l), l.passed, clock)
  <1>1. l.snap \in SleepStates /\ clock \in Nat /\ clock' = clock /\ loc' = loc
    BY DEF Backed, CoreTypeOK, Locals, Record
  <1>2. \A x \in Trackers :
          /\ downs[x] \in Nat
          /\ downs'[x] = IF x \in Tested(l) \ l.passed THEN downs[x] + 1 ELSE downs[x]
    BY DEF Backed, CoreTypeOK, Record
  <1>3. \A x \in Trackers : l.snap[x] \in SleepEntry /\ l.snap[x].failures \in Nat
    BY <1>1 DEF SleepStates, SleepEntry
  <1>4. ASSUME NEW x \in Trackers
        PROVE  after[x].failures <= downs'[x] /\ Sound(after[x], clock)
    <2>1. l.snap[x].failures <= downs[x] /\ Sound(l.snap[x], clock)
      BY DEF Backed, FailuresBacked, AllSound
    <2>2. CASE x \in Tested(l) \cap l.passed
      BY <1>1, <1>2, <2>2, UpdateCases, AwakeSound
    <2>3. CASE x \in Tested(l) \ l.passed
      <3>1. after[x] = Backoff(l.snap[x].failures + 1, clock)
        BY <1>1, <2>3, UpdateCases
      <3> QED
        BY <1>1, <1>2, <1>3, <2>1, <2>3, <3>1, BackoffSound
    <2>4. CASE x \notin Tested(l)
      <3>1. after[x] = l.snap[x]
        BY <1>1, <2>4, UpdateCases
      <3> QED
        BY <1>2, <2>1, <2>4, <3>1
    <2> QED
      BY <2>2, <2>3, <2>4
  <1>5. ASSUME NEW x \in Trackers
        PROVE  sleepFile'[x].failures <= downs'[x] /\ Sound(sleepFile'[x], clock)
    <2>1. sleepFile'[x] \in {sleepFile[x], after[x], Awake}
      BY DEF Record, Saved, NoSleep
    <2>2. sleepFile[x].failures \in Nat /\ sleepFile[x].failures <= downs[x]
      BY DEF Backed, CoreTypeOK, SleepStates, SleepEntry, FailuresBacked
    <2> QED
      BY <1>1, <1>2, <1>4, <2>1, <2>2, AwakeSound DEF Backed, AllSound
  <1>6. ASSUME NEW q \in Runs, NEW x \in Trackers
        PROVE  loc'[q].snap[x].failures <= downs'[x] /\ Sound(loc'[q].snap[x], clock)
    <2>1. loc[q].snap[x].failures \in Nat
      BY DEF Backed, CoreTypeOK, Locals, SleepStates, SleepEntry
    <2> QED
      BY <1>1, <1>2, <2>1 DEF Backed, FailuresBacked, AllSound
  <1> QED
    BY <1>1, <1>5, <1>6 DEF Backed, FailuresBacked, AllSound

(* Ending a run drops its copy.                                            *)
LEMMA FinishCopies ==
  ASSUME CoreTypeOK, NEW r \in Runs, NEW verdict, Finish(r, verdict)
  PROVE  \A q \in Runs, x \in Trackers : loc'[q].snap[x] \in {loc[q].snap[x], Awake}
  BY DEF CoreTypeOK, Finish, NoLocals, NoSleep

LEMMA OtherStepsCopy ==
  ASSUME CoreTypeOK, [Next]_vars, ~ \E r \in Runs : Record(r)
  PROVE  CopyStep
  <1>0. clock \in Nat
    BY DEF CoreTypeOK
  <1>1. ASSUME NEW r \in Runs,
               \/ Refuse(r) \/ CollectNone(r) \/ LoginFails(r) \/ InjectFails(r)
               \/ Verify(r) \/ Abort(r)
        PROVE  CopyStep
    BY <1>0, <1>1, FinishCopies
       DEF CopyStep, Refuse, CollectNone, LoginFails, InjectFails, Verify, Abort,
           files, charges, ghosts
  <1>2. ASSUME NEW r \in Runs, Start(r) PROVE CopyStep
    BY <1>0, <1>2
       DEF CopyStep, Start, CoreTypeOK, NoLocals, NoSleep, files, charges, ghosts
  <1>3. ASSUME NEW r \in Runs, NEW pool \in SUBSET Trackers, Collect(r, pool)
        PROVE  CopyStep
    <2> DEFINE snap == PruneUnknown(sleepFile, pool)
    <2>1. \A x \in Trackers : snap[x] \in {sleepFile[x], Awake}
      BY PruneCases DEF CoreTypeOK
    <2>2. CASE /\ sleepFile' \in Saved(sleepFile, snap, NoSleep)
               /\ Finish(r, "done")
      BY <1>0, <1>3, <2>1, <2>2, FinishCopies
         DEF CopyStep, Collect, Saved, NoSleep, charges, ghosts
    <2>3. CASE /\ loc' = [loc EXCEPT ![r].pool = pool, ![r].snap = snap,
                             ![r].active = pool \ Dormant(snap, clock)]
               /\ UNCHANGED sleepFile
      <3>1. \A q \in Runs : loc'[q].snap = IF q = r THEN snap ELSE loc[q].snap
        BY <2>3 DEF CoreTypeOK, Locals
      <3>2. downs' = downs /\ clock' = clock /\ sleepFile' = sleepFile
        BY <1>3, <2>3 DEF Collect, charges, ghosts
      <3>3. \A q \in Runs, x \in Trackers :
              loc'[q].snap[x] \in {loc[q].snap[x], sleepFile[x], Awake}
        BY <2>1, <3>1
      <3> QED
        BY <1>0, <3>2, <3>3 DEF CopyStep
    <2> QED
      BY <1>3, <2>2, <2>3 DEF Collect
  <1>4. ASSUME NEW r \in Runs, NEW up \in SUBSET Trackers, Ping(r, up)
        PROVE  CopyStep
    <2>1. CASE loc' = [loc EXCEPT ![r].passed = up]
      BY <1>0, <1>4, <2>1 DEF CopyStep, Ping, CoreTypeOK, Locals, files, charges, ghosts
    <2>2. CASE Finish(r, "failed")
      BY <1>0, <1>4, <2>2, FinishCopies DEF CopyStep, Ping, files, charges, ghosts
    <2> QED
      BY <1>4, <2>1, <2>2 DEF Ping
  <1>5. ASSUME NEW r \in Runs, Login(r) \/ Apply(r) \/ Injected(r) PROVE CopyStep
    BY <1>0, <1>5 DEF CopyStep, Login, Apply, Injected, files, charges, ghosts
  <1>6. ASSUME NEW x \in Trackers, Wake(x) PROVE CopyStep
    BY <1>0, <1>6 DEF CopyStep, Wake, Saved, NoSleep, CoreTypeOK, SleepStates, charges, ghosts
  <1>7. CASE WakeAll
    BY <1>0, <1>7 DEF CopyStep, WakeAll, Saved, NoSleep, charges, ghosts
  <1>8. CASE Restart
    BY <1>0, <1>8 DEF CopyStep, Restart, NoLocals, NoSleep, files, charges, ghosts
  <1>9. CASE Tick
    BY <1>0, <1>9 DEF CopyStep, Tick, files, charges, ghosts
  <1>10. CASE UNCHANGED vars
    BY <1>0, <1>10 DEF CopyStep, vars, files, charges, ghosts
  <1> QED
    BY <1>1, <1>2, <1>3, <1>4, <1>5, <1>6, <1>7, <1>8, <1>9, <1>10 DEF Next

LEMMA NextBacked == Backed /\ [Next]_vars => Backed'
  <1> SUFFICES ASSUME Backed, [Next]_vars PROVE Backed'
    OBVIOUS
  <1>1. CoreTypeOK'
    BY NextType DEF Backed
  <1>2. CASE \E r \in Runs : Record(r)
    BY <1>1, <1>2, RecordBacked
  <1>3. CASE ~ \E r \in Runs : Record(r)
    BY <1>1, <1>3, OtherStepsCopy, CopyBacked DEF Backed
  <1> QED
    BY <1>2, <1>3

(* No interleaving charges a tracker a failure no ping of it had.          *)
THEOREM FailuresAlwaysBacked == Spec => []FailuresBacked
  <1>1. Backed => FailuresBacked
    BY DEF Backed
  <1> QED
    BY <1>1, InitBacked, NextBacked, PTL DEF Spec

(* No stale copy written back keeps a tracker parked beyond its span.      *)
THEOREM ParkingBounded == Spec => []ParkedBounded
  <1>1. Backed => ParkedBounded
    <2> SUFFICES ASSUME Backed, NEW x \in Trackers, Parked(sleepFile[x])
                 PROVE  /\ sleepFile[x].failures >= 2
                        /\ sleepFile[x].until <=
                             clock + (IF sleepFile[x].failures > 5
                                      THEN HibernateSpan ELSE SleepSpan)
      BY DEF ParkedBounded
    <2>1. /\ sleepFile[x].failures \in Nat
          /\ Sound(sleepFile[x], clock)
      BY DEF Backed, CoreTypeOK, SleepStates, SleepEntry, AllSound
    <2> QED
      BY <2>1, ClassifyCases DEF Sound, Parked, Span
  <1> QED
    BY <1>1, InitBacked, NextBacked, PTL DEF Spec

-------------------------------------------------------------------------------
(* While runs do not overlap and no write fails: a pass clears for good *)

AloneInFlight ==
  \A r, q \in Runs : pc[r] \in InFlight /\ pc[q] \in InFlight => r = q

CopiesClear ==
  \A r \in Runs, x \in Trackers :
    r \in Holding => loc[r].snap[x].failures <= streak[x]

PassedWereTested ==
  \A r \in Runs : pc[r] = "measuring" => loc[r].passed \subseteq Tested(loc[r])

(* The inductive invariant: the copy a run will write back is as clear as  *)
(* the file, and there is no second run whose pass it could undo.          *)
Cleared ==
  /\ CoreTypeOK /\ PassedWereTested
  /\ calm => PassClears /\ AloneInFlight /\ CopiesClear

LEMMA InitCleared == Init => Cleared
  <1> SUFFICES ASSUME Init PROVE Cleared
    OBVIOUS
  <1>1. PICK prior \in [Trackers -> PriorFailures] :
          /\ sleepFile = [x \in Trackers |-> Backoff(prior[x], 0)]
          /\ streak = prior
    BY DEF Init
  <1>2. ASSUME NEW x \in Trackers PROVE sleepFile[x].failures <= streak[x]
    <2>1. prior[x] \in Nat
      BY PipelineAssumption
    <2>2. sleepFile[x].failures = prior[x] /\ streak[x] = prior[x]
      BY <1>1, <2>1, BackoffSound
    <2>3. prior[x] <= prior[x]
      BY <2>1
    <2> QED
      BY <2>2, <2>3
  <1>3. \A r \in Runs : pc[r] = "idle"
    BY DEF Init
  <1> QED
    BY <1>2, <1>3, InitType
       DEF Cleared, PassClears, AloneInFlight, CopiesClear, PassedWereTested, InFlight, Holding

(* What a step other than Start and Record does to one run: it moves on    *)
(* within its flight, and holds the copy it held or one just taken.        *)
Onward(q) ==
  /\ pc'[q] \in InFlight => pc[q] \in InFlight
  /\ q \in Holding' =>
       \A x \in Trackers :
         \/ loc'[q].snap[x] \in {sleepFile[x], Awake}
         \/ q \in Holding /\ loc'[q].snap[x] = loc[q].snap[x]
  /\ pc'[q] = "measuring" =>
       \/ loc'[q].passed \subseteq Tested(loc'[q])
       \/ pc[q] = "measuring" /\ loc'[q] = loc[q]

LEMMA FinishOnward ==
  ASSUME CoreTypeOK, NEW r \in Runs, NEW verdict \in Over, Finish(r, verdict),
         NEW q \in Runs
  PROVE  Onward(q)
  BY DEF CoreTypeOK, Finish, Goto, Onward, Over, InFlight, Holding

LEMMA CollectOnward ==
  ASSUME CoreTypeOK, NEW r \in Runs, NEW pool \in SUBSET Trackers,
         Collect(r, pool), NEW q \in Runs
  PROVE  Onward(q)
  <1> DEFINE snap == PruneUnknown(sleepFile, pool)
             active == pool \ Dormant(snap, clock)
  <1>1. \A x \in Trackers : snap[x] \in {sleepFile[x], Awake}
    BY PruneCases DEF CoreTypeOK
  <1>2. CASE Finish(r, "done")
    BY <1>2, FinishOnward DEF Over
  <1>3. CASE /\ loc' = [loc EXCEPT ![r].pool = pool, ![r].snap = snap,
                           ![r].active = active]
             /\ Goto(r, "pinging")
    <2>1. loc'[q] = IF q = r THEN [loc[r] EXCEPT !.pool = pool, !.snap = snap,
                                                !.active = active] ELSE loc[q]
      BY <1>3 DEF CoreTypeOK
    <2>2. q = r => loc'[q].snap = snap
      BY <2>1 DEF CoreTypeOK, Locals
    <2>3. pc'[q] = IF q = r THEN "pinging" ELSE pc[q]
      BY <1>3 DEF Goto, CoreTypeOK
    <2>4. pc[r] = "collecting"
      BY DEF Collect
    <2> HIDE DEF snap, active
    <2>5. CASE q = r
      BY <1>1, <2>2, <2>3, <2>4, <2>5 DEF Onward, InFlight
    <2>6. CASE q # r
      <3>1. loc'[q] = loc[q] /\ pc'[q] = pc[q]
        BY <2>1, <2>3, <2>6
      <3> QED
        BY <3>1 DEF Onward, Holding
    <2> QED
      BY <2>5, <2>6
  <1> QED
    BY <1>2, <1>3 DEF Collect

LEMMA PingOnward ==
  ASSUME CoreTypeOK, NEW r \in Runs, NEW up \in SUBSET Trackers, Ping(r, up),
         NEW q \in Runs
  PROVE  Onward(q)
  <1>1. CASE Finish(r, "failed")
    BY <1>1, FinishOnward DEF Over
  <1>2. CASE loc' = [loc EXCEPT ![r].passed = up] /\ Goto(r, "measuring")
    <2>1. /\ loc'[q] = IF q = r THEN [loc[r] EXCEPT !.passed = up] ELSE loc[q]
          /\ pc'[q] = IF q = r THEN "measuring" ELSE pc[q]
      BY <1>2 DEF CoreTypeOK, Goto
    <2>2. pc[r] = "pinging" /\ up \subseteq Tested(loc[r])
      BY DEF Ping
    <2>3. CASE q = r
      <3>1. /\ loc'[q].snap = loc[q].snap /\ loc'[q].passed = up
            /\ loc'[q].active = loc[q].active /\ loc'[q].noUdp = loc[q].noUdp
        BY <2>1, <2>3 DEF CoreTypeOK, Locals
      <3>2. Tested(loc'[q]) = Tested(loc[q])
        BY <3>1 DEF Tested, Skipped
      <3> QED
        BY <2>1, <2>2, <2>3, <3>1, <3>2 DEF Onward, InFlight, Holding
    <2>4. CASE q # r
      BY <2>1, <2>4 DEF Onward, Holding
    <2> QED
      BY <2>3, <2>4
  <1> QED
    BY <1>1, <1>2 DEF Ping

(* Every other step either leaves the run where it was or moves it on.     *)
LEMMA OthersOnward ==
  ASSUME CoreTypeOK, [Next]_vars,
         ~ \E r \in Runs : Start(r) \/ Record(r), NEW q \in Runs
  PROVE  Onward(q)
  <1>1. ASSUME NEW r \in Runs,
               \/ Refuse(r) \/ CollectNone(r) \/ LoginFails(r) \/ InjectFails(r)
               \/ Verify(r) \/ Abort(r)
        PROVE  Onward(q)
    BY <1>1, FinishOnward
       DEF Refuse, CollectNone, LoginFails, InjectFails, Verify, Abort, Over
  <1>2. ASSUME NEW r \in Runs, NEW pool \in SUBSET Trackers, Collect(r, pool)
        PROVE  Onward(q)
    BY <1>2, CollectOnward DEF Collect
  <1>3. ASSUME NEW r \in Runs, NEW up \in SUBSET Trackers, Ping(r, up)
        PROVE  Onward(q)
    BY <1>3, PingOnward DEF Ping
  <1>4. ASSUME NEW r \in Runs, Login(r) \/ Apply(r) \/ Injected(r)
        PROVE  Onward(q)
    BY <1>4 DEF Login, Apply, Injected, Goto, CoreTypeOK, Onward, InFlight, Holding
  <1>5. CASE \/ \E x \in Trackers : Wake(x)
             \/ WakeAll \/ Tick \/ UNCHANGED vars
    BY <1>5 DEF Wake, WakeAll, Tick, vars, Onward, Holding
  <1>6. CASE Restart
    BY <1>6 DEF Restart, CoreTypeOK, Onward, InFlight, Holding
  <1> QED
    BY <1>1, <1>2, <1>3, <1>4, <1>5, <1>6 DEF Next

(* Once disturbed, always disturbed.                                       *)
LEMMA CalmFalls == [Next]_vars => (calm' => calm)
  <1>1. ASSUME NEW r \in Runs,
               \/ Refuse(r) \/ Start(r) \/ CollectNone(r)
               \/ \E pool \in SUBSET Trackers : Collect(r, pool)
               \/ \E up \in SUBSET Trackers : Ping(r, up)
               \/ Record(r) \/ Login(r) \/ LoginFails(r) \/ Apply(r) \/ Injected(r)
               \/ InjectFails(r) \/ Verify(r) \/ Abort(r)
        PROVE  calm' => calm
    BY <1>1 DEF Refuse, Start, CollectNone, Collect, Ping, Record, Login, LoginFails,
                Apply, Injected, InjectFails, Verify, Abort, Reckon, charges, ghosts
  <1>2. CASE \/ \E x \in Trackers : Wake(x)
             \/ WakeAll \/ Restart \/ Tick \/ UNCHANGED vars
    BY <1>2 DEF Wake, WakeAll, Restart, Tick, Reckon, vars, charges, ghosts
  <1> QED
    BY <1>1, <1>2 DEF Next

LEMMA StreakKept ==
  ASSUME [Next]_vars, ~ \E r \in Runs : Record(r)
  PROVE  streak' = streak
  <1>1. ASSUME NEW r \in Runs,
               \/ Refuse(r) \/ Start(r) \/ CollectNone(r)
               \/ \E pool \in SUBSET Trackers : Collect(r, pool)
               \/ \E up \in SUBSET Trackers : Ping(r, up)
               \/ Login(r) \/ LoginFails(r) \/ Apply(r) \/ Injected(r) \/ InjectFails(r)
               \/ Verify(r) \/ Abort(r)
        PROVE  streak' = streak
    BY <1>1 DEF Refuse, Start, CollectNone, Collect, Ping, Login, LoginFails,
                Apply, Injected, InjectFails, Verify, Abort, charges, ghosts
  <1>2. CASE \/ \E x \in Trackers : Wake(x)
             \/ WakeAll \/ Restart \/ Tick \/ UNCHANGED vars
    BY <1>2 DEF Wake, WakeAll, Restart, Tick, vars, charges, ghosts
  <1> QED
    BY <1>1, <1>2 DEF Next

LEMMA StartCleared ==
  ASSUME Cleared, NEW r \in Runs, Start(r), CoreTypeOK'
  PROVE  Cleared'
  <1>1. calm' => calm /\ \A q \in Runs : pc[q] \notin InFlight
    BY DEF Start, Reckon, Busy
  <1>2. \A q \in Runs : pc'[q] = IF q = r THEN "collecting" ELSE pc[q]
    BY DEF Start, Goto, Cleared, CoreTypeOK
  <1>3. sleepFile' = sleepFile /\ streak' = streak
    BY DEF Start, files, charges
  <1>4. \A q \in Runs : pc'[q] = "measuring" => loc'[q] = loc[q] /\ pc[q] = "measuring"
    BY <1>2 DEF Start, Cleared, CoreTypeOK
  <1>5. PassedWereTested'
    BY <1>4 DEF Cleared, PassedWereTested
  <1> QED
    BY <1>1, <1>2, <1>3, <1>5
       DEF Cleared, PassClears, AloneInFlight, CopiesClear, PassedWereTested,
           InFlight, Holding

LEMMA RecordCleared ==
  ASSUME Cleared, NEW r \in Runs, Record(r), CoreTypeOK'
  PROVE  Cleared'
  <1> DEFINE l == loc[r]
             after == UpdateAfterRun(l.snap, Tested(l), l.passed, clock)
  <1>1. l.snap \in SleepStates /\ clock \in Nat
    BY DEF Cleared, CoreTypeOK, Locals
  <1>2. calm' => calm /\ sleepFile' = after
    BY DEF Record, Reckon
  <1>3. \A x \in Trackers :
          streak'[x] = IF x \in l.passed THEN 0
                       ELSE IF x \in Tested(l) THEN streak[x] + 1 ELSE streak[x]
    BY DEF Record
  <1>4. pc[r] = "measuring" /\ l.passed \subseteq Tested(l)
    BY DEF Record, Cleared, PassedWereTested
  <1>5. \A q \in Runs : pc'[q] = IF q = r THEN "login" ELSE pc[q]
    BY DEF Record, Goto, Cleared, CoreTypeOK
  <1>6. ASSUME calm' PROVE \A q \in Runs : q # r => pc[q] \notin InFlight
    BY <1>2, <1>4, <1>6 DEF Cleared, AloneInFlight, InFlight
  <1>7. ASSUME calm', NEW x \in Trackers PROVE sleepFile'[x].failures <= streak'[x]
    <2>1. /\ l.snap[x].failures \in Nat /\ streak[x] \in Nat
          /\ l.snap[x].failures <= streak[x]
      BY <1>1, <1>2, <1>4, <1>7 DEF Cleared, CoreTypeOK, CopiesClear, Holding, SleepStates, SleepEntry
    <2>2. CASE x \in l.passed
      BY <1>1, <1>2, <1>3, <1>4, <1>7, <2>2, UpdateCases, AwakeSound
    <2>3. CASE x \in Tested(l) \ l.passed
      <3>1. after[x] = Backoff(l.snap[x].failures + 1, clock)
        BY <1>1, <2>3, UpdateCases
      <3> QED
        BY <1>1, <1>2, <1>3, <1>7, <2>1, <2>3, <3>1, BackoffSound
    <2>4. CASE x \notin Tested(l)
      <3>1. after[x] = l.snap[x]
        BY <1>1, <2>4, UpdateCases
      <3> QED
        BY <1>2, <1>3, <1>4, <1>7, <2>1, <2>4, <3>1
    <2> QED
      BY <2>2, <2>3, <2>4
  <1>8. PassedWereTested'
    BY <1>5 DEF Record, Cleared, PassedWereTested
  <1> QED
    BY <1>2, <1>4, <1>5, <1>6, <1>7, <1>8
       DEF Cleared, PassClears, AloneInFlight, CopiesClear, PassedWereTested,
           InFlight, Holding

LEMMA NextCleared == Cleared /\ [Next]_vars => Cleared'
  <1> SUFFICES ASSUME Cleared, [Next]_vars PROVE Cleared'
    OBVIOUS
  <1>1. CoreTypeOK'
    BY NextType DEF Cleared
  <1>2. CASE \E r \in Runs : Start(r)
    BY <1>1, <1>2, StartCleared
  <1>3. CASE \E r \in Runs : Record(r)
    BY <1>1, <1>3, RecordCleared
  <1>4. CASE ~ \E r \in Runs : Start(r) \/ Record(r)
    <2>1. \A q \in Runs : Onward(q)
      BY <1>4, OthersOnward DEF Cleared
    <2>2. CopyStep
      BY <1>4, OtherStepsCopy DEF Cleared
    <2>3. \A x \in Trackers : streak[x] \in Nat
      BY DEF Cleared, CoreTypeOK
    <2>4. streak' = streak
      BY <1>4, StreakKept
    <2>5. PassedWereTested'
      BY <2>1 DEF Cleared, PassedWereTested, Onward
    <2>6. ASSUME calm' PROVE PassClears' /\ AloneInFlight' /\ CopiesClear'
      <3>1. PassClears /\ AloneInFlight /\ CopiesClear
        BY <2>6, CalmFalls DEF Cleared
      <3>2. PassClears'
        BY <2>2, <2>3, <2>4, <3>1, AwakeSound DEF PassClears, CopyStep
      <3>3. AloneInFlight'
        BY <2>1, <3>1 DEF AloneInFlight, Onward
      <3>4. CopiesClear'
        BY <2>1, <2>3, <2>4, <3>1, AwakeSound
           DEF PassClears, CopiesClear, Onward, Holding
      <3> QED
        BY <3>2, <3>3, <3>4
    <2> QED
      BY <1>1, <2>5, <2>6 DEF Cleared
  <1> QED
    BY <1>2, <1>3, <1>4

LEMMA AlwaysCleared == Spec => []Cleared
  BY InitCleared, NextCleared, PTL DEF Spec

(* sleep.py:9: until runs overlap or a write fails, a pass clears a        *)
(* tracker's failures, and nothing brings them back.                       *)
THEOREM PassesClear == Spec => []PassClearsCalm
  <1>1. Cleared => PassClearsCalm
    BY DEF Cleared, PassClearsCalm
  <1> QED
    BY <1>1, AlwaysCleared, PTL

-------------------------------------------------------------------------------
(* ... and the failures on file are exactly those recorded *)

ActiveInPool == \A r \in Holding : loc[r].active \subseteq loc[r].pool

(* A copy has what the file should, but for the trackers it pruned.        *)
CopiesExact ==
  \A r \in Holding, x \in Trackers :
    IF x \in loc[r].pool
    THEN tally[x] # Unknown => loc[r].snap[x].failures = tally[x]
    ELSE loc[r].snap[x].failures = 0

Disturbed == ~calm => \A x \in Trackers : tally[x] = Unknown

Exact == Cleared /\ FailuresExact /\ ActiveInPool /\ CopiesExact /\ Disturbed

(* A step that leaves the tally alone leaves the file alone, and each run  *)
(* keeps its copy, drops it, or takes one of the file.                     *)
ExactCopies(q) ==
  q \in Holding' =>
    /\ loc'[q].active \subseteq loc'[q].pool
    /\ \A x \in Trackers :
         IF x \in loc'[q].pool
         THEN \/ loc'[q].snap[x] = sleepFile[x]
              \/ q \in Holding /\ x \in loc[q].pool /\ loc'[q].snap[x] = loc[q].snap[x]
         ELSE \/ loc'[q].snap[x] = Awake
              \/ q \in Holding /\ x \notin loc[q].pool /\ loc'[q].snap[x] = loc[q].snap[x]

ExactStep ==
  /\ sleepFile' = sleepFile /\ tally' = tally /\ calm' = calm
  /\ \A q \in Runs : ExactCopies(q)

LEMMA InitExact == Init => Exact
  <1> SUFFICES ASSUME Init PROVE Exact
    OBVIOUS
  <1>1. PICK prior \in [Trackers -> PriorFailures] :
          /\ sleepFile = [x \in Trackers |-> Backoff(prior[x], 0)]
          /\ tally = prior
    BY DEF Init
  <1>2. ASSUME NEW x \in Trackers PROVE sleepFile[x].failures = tally[x]
    <2>1. prior[x] \in Nat
      BY PipelineAssumption
    <2> QED
      BY <1>1, <2>1, BackoffSound
  <1>3. Holding = {} /\ calm
    BY DEF Init, Holding
  <1> QED
    BY <1>2, <1>3, InitCleared DEF Exact, FailuresExact, ActiveInPool, CopiesExact, Disturbed

LEMMA ExactStepKeeps == ASSUME Exact, ExactStep, Cleared' PROVE Exact'
  <1>1. Holding' \subseteq Runs
    BY DEF Holding
  <1>2. FailuresExact' /\ Disturbed'
    BY DEF Exact, FailuresExact, Disturbed, ExactStep
  <1>3. ActiveInPool'
    BY <1>1 DEF ActiveInPool, ExactStep, ExactCopies
  <1>4. CopiesExact'
    <2> SUFFICES ASSUME NEW q \in Holding', NEW x \in Trackers
                 PROVE  IF x \in loc'[q].pool
                        THEN tally[x] # Unknown => loc'[q].snap[x].failures = tally[x]
                        ELSE loc'[q].snap[x].failures = 0
      BY DEF CopiesExact, ExactStep
    <2>1. q \in Runs
      BY <1>1
    <2> QED
      BY <2>1, AwakeSound DEF Exact, FailuresExact, CopiesExact, ExactStep, ExactCopies
  <1> QED
    BY <1>2, <1>3, <1>4 DEF Exact

LEMMA FinishExact ==
  ASSUME CoreTypeOK, ActiveInPool, NEW r \in Runs, NEW verdict \in Over, Finish(r, verdict)
  PROVE  \A q \in Runs : ExactCopies(q)
  BY DEF CoreTypeOK, ActiveInPool, Finish, Goto, ExactCopies, Over, Holding

(* A step that keeps every run's locals, and lets none start to hold.      *)
LEMMA IdleExact ==
  ASSUME ActiveInPool, loc' = loc, Holding' \subseteq Holding
  PROVE  \A q \in Runs : ExactCopies(q)
  BY DEF ActiveInPool, ExactCopies, Holding

LEMMA CollectExact ==
  ASSUME Exact, NEW r \in Runs, NEW pool \in SUBSET Trackers, Collect(r, pool), Cleared'
  PROVE  Exact'
  <1> DEFINE snap == PruneUnknown(sleepFile, pool)
             active == pool \ Dormant(snap, clock)
             counts == [x \in Trackers |-> IF x \in pool THEN tally[x] ELSE 0]
  <1>0. CoreTypeOK /\ ActiveInPool
    BY DEF Exact, Cleared
  <1>1. snap \in SleepStates
        /\ \A x \in Trackers : snap[x] = IF x \in pool THEN sleepFile[x] ELSE Awake
    BY <1>0, PruneCases DEF CoreTypeOK, PruneUnknown
  <1>2. CASE /\ loc' = [loc EXCEPT ![r].pool = pool, ![r].snap = snap, ![r].active = active]
             /\ Goto(r, "pinging")
             /\ UNCHANGED <<sleepFile, calm, tally>>
    <2>1. /\ loc'[r].pool = pool /\ loc'[r].snap = snap /\ loc'[r].active = active
          /\ \A q \in Runs \ {r} : loc'[q] = loc[q]
      BY <1>0, <1>2 DEF CoreTypeOK, Locals
    <2>2. \A q \in Runs \ {r} : q \in Holding' => q \in Holding
      BY <1>0, <1>2 DEF Goto, CoreTypeOK, Holding
    <2>3. active \subseteq pool
      OBVIOUS
    <2> HIDE DEF snap, active
    <2>4. ExactCopies(r)
      BY <1>1, <2>1, <2>3 DEF ExactCopies
    <2>5. \A q \in Runs \ {r} : ExactCopies(q)
      BY <1>0, <2>1, <2>2 DEF ExactCopies, ActiveInPool
    <2> QED
      BY <1>2, <2>4, <2>5, ExactStepKeeps DEF ExactStep
  <1>3. CASE Reckon(sleepFile' = snap, counts) /\ Finish(r, "done")
    <2>1. \A q \in Runs : q \in Holding' => q # r /\ q \in Holding /\ loc'[q] = loc[q]
      BY <1>0, <1>3 DEF Finish, Goto, CoreTypeOK, Holding
    <2>2. calm' => Holding' = {}
      BY <1>3, <2>1
         DEF Exact, Cleared, AloneInFlight, Collect, Reckon, InFlight, Holding
    <2>3. ~calm' => \A x \in Trackers : tally'[x] = Unknown
      BY <1>3 DEF Reckon
    <2>4. calm' => /\ sleepFile' = snap
                   /\ \A x \in Trackers : tally'[x] = IF x \in pool THEN tally[x] ELSE 0
      BY <1>3 DEF Reckon
    <2> HIDE DEF snap, active, counts
    <2>5. FailuresExact'
      BY <1>1, <2>3, <2>4, AwakeSound DEF Exact, FailuresExact
    <2>6. ActiveInPool'
      BY <1>0, <2>1 DEF ActiveInPool, Holding
    <2>7. CopiesExact'
      BY <2>1, <2>2, <2>3 DEF Exact, CopiesExact, Holding
    <2> QED
      BY <2>3, <2>5, <2>6, <2>7 DEF Exact, Disturbed
  <1> QED
    BY <1>2, <1>3 DEF Collect

LEMMA RecordExact ==
  ASSUME Exact, NEW r \in Runs, Record(r), Cleared'
  PROVE  Exact'
  <1> DEFINE l == loc[r]
             after == UpdateAfterRun(l.snap, Tested(l), l.passed, clock)
  <1>0. CoreTypeOK /\ pc[r] = "measuring" /\ r \in Holding
    BY DEF Exact, Cleared, Record, Holding
  <1>1. l.snap \in SleepStates /\ clock \in Nat
    BY <1>0 DEF CoreTypeOK, Locals
  <1>2. \A q \in Runs : q \in Holding' => q # r /\ q \in Holding /\ loc'[q] = loc[q]
    BY <1>0 DEF Record, Goto, CoreTypeOK, Holding
  <1>3. calm' => calm /\ sleepFile' = after /\ tally' = Tallied(l)
    BY DEF Record, Reckon
  <1>4. ~calm' => \A x \in Trackers : tally'[x] = Unknown
    BY DEF Record, Reckon
  <1>5. calm' => Holding' = {}
    BY <1>0, <1>2, <1>3 DEF Exact, Cleared, AloneInFlight, InFlight, Holding
  <1>6. l.passed \subseteq Tested(l) /\ Tested(l) \subseteq l.active /\ l.active \subseteq l.pool
    BY <1>0 DEF Exact, Cleared, PassedWereTested, ActiveInPool, Tested
  <1>7. ASSUME calm', NEW x \in Trackers, Tallied(l)[x] # Unknown
        PROVE  after[x].failures = Tallied(l)[x]
    <2>1. /\ x \notin l.pool => l.snap[x].failures = 0
          /\ x \in l.pool /\ tally[x] # Unknown => l.snap[x].failures = tally[x]
      BY <1>0 DEF Exact, CopiesExact
    <2>2. l.snap[x].failures \in Nat
      BY <1>1 DEF SleepStates, SleepEntry
    <2>3. CASE x \in l.passed
      <3>1. Tallied(l)[x] = 0
        BY <2>3 DEF Tallied
      <3>2. after[x] = Awake
        BY <1>1, <1>6, <2>3, UpdateCases
      <3> QED
        BY <3>1, <3>2, AwakeSound
    <2>4. CASE x \in Tested(l) \ l.passed
      <3>1. after[x] = Backoff(l.snap[x].failures + 1, clock)
        BY <1>1, <2>4, UpdateCases
      <3>2. after[x].failures = l.snap[x].failures + 1
        BY <1>1, <2>2, <3>1, BackoffSound
      <3>3. x \in l.pool
        BY <1>6, <2>4
      <3>4. tally[x] # Unknown /\ Tallied(l)[x] = tally[x] + 1
        BY <1>7, <2>4, <3>3 DEF Tallied
      <3> QED
        BY <2>1, <3>2, <3>3, <3>4
    <2>5. CASE x \notin Tested(l)
      <3>1. after[x] = l.snap[x]
        BY <1>1, <2>5, UpdateCases
      <3>2. Tallied(l)[x] = IF x \in l.pool THEN tally[x] ELSE 0
        BY <1>6, <2>5 DEF Tallied
      <3> QED
        BY <1>7, <2>1, <3>1, <3>2
    <2> QED
      BY <2>3, <2>4, <2>5
  <1> HIDE DEF l, after
  <1>8. FailuresExact'
    BY <1>3, <1>4, <1>7 DEF FailuresExact
  <1>9. ActiveInPool'
    BY <1>2 DEF Exact, ActiveInPool, Holding
  <1>10. CopiesExact'
    BY <1>2, <1>4, <1>5 DEF Exact, CopiesExact, Holding
  <1> QED
    BY <1>4, <1>8, <1>9, <1>10 DEF Exact, Disturbed

(* A wake clears entries; a tracker whose stale copy is about is unknown.  *)
LEMMA WakeExact ==
  ASSUME Exact, NEW woken \in SUBSET Trackers, Cleared',
         Reckon(sleepFile' = [x \in Trackers |-> IF x \in woken THEN Awake ELSE sleepFile[x]],
                [x \in Trackers |-> IF x \in woken THEN AfterWake ELSE tally[x]]),
         UNCHANGED <<pc, loc>>
  PROVE  Exact'
  <1>1. Holding' = Holding
    BY DEF Holding
  <1>2. ~calm' => \A x \in Trackers : tally'[x] = Unknown
    BY DEF Reckon
  <1>3. calm' => \A x \in Trackers :
                   /\ sleepFile'[x] = IF x \in woken THEN Awake ELSE sleepFile[x]
                   /\ tally'[x] = IF x \in woken THEN AfterWake ELSE tally[x]
    BY DEF Reckon
  <1>4. FailuresExact'
    BY <1>2, <1>3, AwakeSound DEF Exact, FailuresExact, AfterWake
  <1>5. ActiveInPool'
    BY <1>1 DEF Exact, ActiveInPool
  <1>6. CopiesExact'
    BY <1>1, <1>2, <1>3 DEF Exact, CopiesExact, AfterWake
  <1> QED
    BY <1>2, <1>4, <1>5, <1>6 DEF Exact, Disturbed

LEMMA StartExact ==
  ASSUME Exact, NEW r \in Runs, Start(r), Cleared'
  PROVE  Exact'
  <1>1. \A q \in Runs : q \in Holding' => q \in Holding /\ loc'[q] = loc[q]
    BY DEF Start, Goto, Exact, Cleared, CoreTypeOK, Holding
  <1>2. ~calm' => \A x \in Trackers : tally'[x] = Unknown
    BY DEF Start, Reckon
  <1>3. calm' => tally' = tally
    BY DEF Start, Reckon
  <1>4. sleepFile' = sleepFile
    BY DEF Start, files
  <1>5. FailuresExact'
    BY <1>2, <1>3, <1>4 DEF Exact, FailuresExact
  <1>6. ActiveInPool'
    BY <1>1 DEF Exact, ActiveInPool, Holding
  <1>7. CopiesExact'
    BY <1>1, <1>2, <1>3 DEF Exact, CopiesExact, Holding
  <1> QED
    BY <1>2, <1>5, <1>6, <1>7 DEF Exact, Disturbed

LEMMA PingExact ==
  ASSUME Exact, NEW r \in Runs, NEW up \in SUBSET Trackers, Ping(r, up), Cleared'
  PROVE  Exact'
  <1>0. CoreTypeOK /\ ActiveInPool
    BY DEF Exact, Cleared
  <1>1. CASE loc' = [loc EXCEPT ![r].passed = up] /\ Goto(r, "measuring")
    <2>1. \A q \in Runs : /\ loc'[q].pool = loc[q].pool /\ loc'[q].snap = loc[q].snap
                          /\ loc'[q].active = loc[q].active
      BY <1>0, <1>1 DEF CoreTypeOK, Locals
    <2>2. Holding' \subseteq Holding
      BY <1>0, <1>1 DEF Ping, Goto, CoreTypeOK, Holding
    <2>3. \A q \in Runs : ExactCopies(q)
      BY <1>0, <2>1, <2>2 DEF ExactCopies, ActiveInPool
    <2> QED
      BY <2>3, ExactStepKeeps DEF Ping, ExactStep, files, ghosts
  <1>2. CASE Finish(r, "failed")
    BY <1>0, <1>2, FinishExact, ExactStepKeeps DEF Ping, ExactStep, Over, files, ghosts
  <1> QED
    BY <1>1, <1>2 DEF Ping

LEMMA NextExact == Exact /\ [Next]_vars => Exact'
  <1> SUFFICES ASSUME Exact, [Next]_vars PROVE Exact'
    OBVIOUS
  <1>0. CoreTypeOK /\ ActiveInPool /\ Cleared'
    BY NextCleared DEF Exact, Cleared
  <1>1. ASSUME NEW r \in Runs,
               \/ Refuse(r) \/ CollectNone(r) \/ LoginFails(r) \/ InjectFails(r)
               \/ Verify(r) \/ Abort(r)
        PROVE  Exact'
    <2>1. \A q \in Runs : ExactCopies(q)
      BY <1>0, <1>1, FinishExact
         DEF Refuse, CollectNone, LoginFails, InjectFails, Verify, Abort, Over
    <2> QED
      BY <1>0, <1>1, <2>1, ExactStepKeeps
         DEF Refuse, CollectNone, LoginFails, InjectFails, Verify, Abort, ExactStep,
             files, ghosts
  <1>2. ASSUME NEW r \in Runs, Login(r) \/ Apply(r) \/ Injected(r) PROVE Exact'
    <2>1. loc' = loc /\ Holding' \subseteq Holding
      BY <1>0, <1>2 DEF Login, Apply, Injected, Goto, CoreTypeOK, Holding
    <2>2. \A q \in Runs : ExactCopies(q)
      BY <1>0, <2>1, IdleExact
    <2> QED
      BY <1>0, <1>2, <2>2, ExactStepKeeps DEF Login, Apply, Injected, ExactStep, files, ghosts
  <1>3. ASSUME NEW x \in Trackers, Wake(x) PROVE Exact'
    <2>1. [sleepFile EXCEPT ![x] = Awake]
            = [y \in Trackers |-> IF y \in {x} THEN Awake ELSE sleepFile[y]]
      BY <1>0 DEF CoreTypeOK, SleepStates
    <2>2. [tally EXCEPT ![x] = AfterWake]
            = [y \in Trackers |-> IF y \in {x} THEN AfterWake ELSE tally[y]]
      BY <1>0 DEF CoreTypeOK
    <2>3. Reckon(sleepFile' = [y \in Trackers |-> IF y \in {x} THEN Awake ELSE sleepFile[y]],
                 [y \in Trackers |-> IF y \in {x} THEN AfterWake ELSE tally[y]])
      BY <1>3, <2>1, <2>2 DEF Wake
    <2>4. {x} \in SUBSET Trackers /\ UNCHANGED <<pc, loc>>
      BY <1>3 DEF Wake
    <2> QED
      BY <1>0, <2>3, <2>4, WakeExact
  <1>4. CASE WakeAll
    <2>1. NoSleep = [y \in Trackers |-> IF y \in Trackers THEN Awake ELSE sleepFile[y]]
      BY DEF NoSleep
    <2>2. [x \in Trackers |-> AfterWake]
            = [y \in Trackers |-> IF y \in Trackers THEN AfterWake ELSE tally[y]]
      OBVIOUS
    <2> QED
      BY <1>0, <1>4, <2>1, <2>2, WakeExact DEF WakeAll
  <1>5. CASE Restart
    <2>1. Holding' = {}
      BY <1>0, <1>5 DEF Restart, CoreTypeOK, Holding, InFlight
    <2> QED
      BY <1>0, <1>5, <2>1, ExactStepKeeps
         DEF Restart, ExactStep, ExactCopies, files, ghosts
  <1>6. CASE Tick \/ UNCHANGED vars
    <2>1. loc' = loc /\ Holding' \subseteq Holding
      BY <1>6 DEF Tick, vars, Holding
    <2>2. \A q \in Runs : ExactCopies(q)
      BY <1>0, <2>1, IdleExact
    <2> QED
      BY <1>0, <1>6, <2>2, ExactStepKeeps DEF Tick, ExactStep, vars, files, ghosts
  <1> QED
    BY <1>0, <1>1, <1>2, <1>3, <1>4, <1>5, <1>6, StartExact, CollectExact, PingExact,
       RecordExact DEF Next

(* Until runs overlap or a write fails, the sleep file holds exactly the   *)
(* DOWNs recorded since a tracker's last UP, wake or absence: run.py:142   *)
(* clears what left the pool, and run.py:196 charges nobody for an outage. *)
THEOREM FailuresAccounted == Spec => []FailuresExact
  <1>1. Exact => FailuresExact
    BY DEF Exact
  <1> QED
    BY <1>1, InitExact, NextExact, PTL DEF Spec

-------------------------------------------------------------------------------
(* What is injected is on record as UP *)

(* A run that has recorded its results and may still inject them.          *)
Recorded(r) == pc[r] \in {"login", "inject", "injected"}

NewestUp(x) == history[x] # <<>> /\ Head(history[x]).up

(* The inductive invariant: undisturbed, no later record comes between a   *)
(* run's own and its injection.                                            *)
OnRecord ==
  /\ TypeOK /\ Exact
  /\ calm => \A r \in Runs : Recorded(r) => \A x \in loc[r].passed : NewestUp(x)

LEMMA InitOnRecord == Init => OnRecord
  <1> SUFFICES ASSUME Init PROVE OnRecord
    OBVIOUS
  <1>1. NoHistory \in [Trackers -> Seq(Result)]
    BY DEF NoHistory
  <1> QED
    BY <1>1, InitType, InitExact DEF Init, TypeOK, OnRecord, Recorded

(* A run's record is its own: other runs leave it and its locals alone.    *)
LEMMA RecordedKept ==
  ASSUME CoreTypeOK, [Next]_vars, NEW q \in Runs, ~Record(q), Recorded(q)'
  PROVE  Recorded(q) /\ loc'[q] = loc[q]
  <1>1. ASSUME NEW r \in Runs, NEW verdict \in Over, Finish(r, verdict)
        PROVE  Recorded(q) /\ loc'[q] = loc[q]
    BY <1>1 DEF CoreTypeOK, Finish, Goto, Recorded, Over
  <1>2. ASSUME NEW r \in Runs,
               \/ Refuse(r) \/ CollectNone(r) \/ LoginFails(r) \/ InjectFails(r)
               \/ Verify(r) \/ Abort(r)
        PROVE  Recorded(q) /\ loc'[q] = loc[q]
    BY <1>1, <1>2
       DEF Refuse, CollectNone, LoginFails, InjectFails, Verify, Abort, Over
  <1>3. ASSUME NEW r \in Runs, Start(r)
        PROVE  Recorded(q) /\ loc'[q] = loc[q]
    BY <1>3 DEF Start, Goto, CoreTypeOK, Recorded
  <1>4. ASSUME NEW r \in Runs, NEW pool \in SUBSET Trackers, Collect(r, pool)
        PROVE  Recorded(q) /\ loc'[q] = loc[q]
    BY <1>1, <1>4 DEF Collect, Goto, CoreTypeOK, Recorded, Over
  <1>5. ASSUME NEW r \in Runs, NEW up \in SUBSET Trackers, Ping(r, up)
        PROVE  Recorded(q) /\ loc'[q] = loc[q]
    BY <1>1, <1>5 DEF Ping, Goto, CoreTypeOK, Recorded, Over
  <1>6. ASSUME NEW r \in Runs, Record(r) \/ Login(r) \/ Apply(r) \/ Injected(r)
        PROVE  Recorded(q) /\ loc'[q] = loc[q]
    BY <1>6 DEF Record, Login, Apply, Injected, Goto, CoreTypeOK, Recorded
  <1>7. ASSUME NEW x \in Trackers, Wake(x)
        PROVE  Recorded(q) /\ loc'[q] = loc[q]
    BY <1>7 DEF Wake, Recorded
  <1>8. CASE Restart
    BY <1>8 DEF Restart, CoreTypeOK, Recorded, InFlight
  <1>9. CASE WakeAll \/ Tick \/ UNCHANGED vars
    BY <1>9 DEF WakeAll, Tick, vars, Recorded
  <1> QED
    BY <1>2, <1>3, <1>4, <1>5, <1>6, <1>7, <1>8, <1>9 DEF Next

LEMMA NextOnRecord == OnRecord /\ [Next]_vars => OnRecord'
  <1> SUFFICES ASSUME OnRecord, [Next]_vars PROVE OnRecord'
    OBVIOUS
  <1>1. TypeOK' /\ Exact' /\ CoreTypeOK
    BY NextHistory, NextExact DEF OnRecord, TypeOK
  <1>2. ASSUME calm', NEW q \in Runs, Recorded(q)', NEW x \in loc'[q].passed
        PROVE  NewestUp(x)'
    <2>1. calm /\ AloneInFlight /\ PassedWereTested /\ ActiveInPool
      BY <1>2, CalmFalls DEF OnRecord, Exact, Cleared
    <2>2. CASE Record(q)
      <3> DEFINE l == loc[q]
                 logged == RecordRun(history, Tested(l), l.passed, l.pool, clock)
      <3>1. /\ pc[q] = "measuring" /\ q \in Holding
            /\ loc' = loc /\ history' = logged
        BY <1>2, <2>2 DEF Record, Reckon, Holding
      <3>2. l.passed \subseteq Tested(l) /\ Tested(l) \subseteq l.active /\ l.active \subseteq l.pool
        BY <2>1, <3>1 DEF PassedWereTested, ActiveInPool, Tested
      <3>3. clock \in Nat /\ history \in [Trackers -> Seq(Result)] /\ l.pool \subseteq Trackers
        BY <1>1 DEF OnRecord, TypeOK, CoreTypeOK, Locals
      <3>4. x \in l.passed /\ x \in Tested(l) \cap l.pool \cap Trackers
        BY <1>2, <3>1, <3>2, <3>3
      <3>5. logged[x] # <<>> /\ Head(logged[x]).up
        <4>1. logged[x] # <<>> /\ Head(logged[x]).up = (x \in l.passed)
          BY <3>3, <3>4, RecordRunCases
        <4> QED
          BY <3>4, <4>1, Zenon
      <3> HIDE DEF logged
      <3> QED
        BY <3>1, <3>5 DEF NewestUp
    <2>3. CASE ~Record(q)
      <3>1. Recorded(q) /\ loc'[q] = loc[q]
        BY <1>1, <1>2, <2>3, RecordedKept
      <3>2. \A r \in Runs : ~Record(r)
        <4> SUFFICES ASSUME NEW r \in Runs, Record(r) PROVE FALSE
          OBVIOUS
        <4>1. pc[r] \in InFlight /\ pc[q] \in InFlight
          BY <3>1 DEF Record, Recorded, InFlight
        <4> QED
          BY <2>1, <2>3, <4>1 DEF AloneInFlight
      <3>3. history' = history
        BY <3>2, HistoryKept
      <3> QED
        BY <1>2, <2>1, <3>1, <3>3 DEF OnRecord, NewestUp
    <2> QED
      BY <2>2, <2>3
  <1> QED
    BY <1>1, <1>2 DEF OnRecord

(* Only qBittorrent's handling of a request changes its list.              *)
LEMMA QbtKept ==
  ASSUME [Next]_vars, qbt' # qbt
  PROVE  \E r \in Runs : Apply(r)
  <1>1. ASSUME NEW r \in Runs,
               \/ Refuse(r) \/ Start(r) \/ CollectNone(r) \/ Record(r)
               \/ Login(r) \/ LoginFails(r) \/ Injected(r)
               \/ InjectFails(r) \/ Verify(r) \/ Abort(r)
        PROVE  FALSE
    BY <1>1 DEF Refuse, Start, CollectNone, Record, Login, LoginFails, Injected,
                InjectFails, Verify, Abort
  <1>2. ASSUME NEW r \in Runs, NEW some \in SUBSET Trackers,
               Collect(r, some) \/ Ping(r, some)
        PROVE  FALSE
    BY <1>2 DEF Collect, Ping
  <1>3. ASSUME NEW x \in Trackers, Wake(x) PROVE FALSE
    BY <1>3 DEF Wake
  <1>4. ~(WakeAll \/ Restart \/ Tick \/ UNCHANGED vars)
    BY DEF WakeAll, Restart, Tick, vars
  <1> QED
    BY <1>1, <1>2, <1>3, <1>4 DEF Next

(* run.py:214-237 records a run's results before it injects them: until    *)
(* runs overlap or a write fails, qBittorrent's list only changes to       *)
(* trackers whose newest result on file is UP.                             *)
THEOREM InjectedOnRecord == Spec => InjectedAreUp
  <1>1. OnRecord /\ [Next]_vars =>
          [calm /\ qbt' # qbt => \A x \in qbt' : history[x] # <<>> /\ Head(history[x]).up]_vars
    <2> SUFFICES ASSUME OnRecord, [Next]_vars, calm, qbt' # qbt, NEW x \in qbt'
                 PROVE  NewestUp(x)
      BY DEF NewestUp
    <2>1. PICK r \in Runs : Apply(r)
      BY QbtKept
    <2> QED
      BY <2>1 DEF Apply, OnRecord, Recorded
  <1> QED
    BY <1>1, InitOnRecord, NextOnRecord, PTL DEF Spec, InjectedAreUp

-------------------------------------------------------------------------------
(* The contract with the client *)

(* A step of one run moves its stage alone.                                *)
LEMMA StageMoves ==
  ASSUME NEW r \in Runs, NEW from, NEW to,
         \A s \in Runs \ {r} : Stage(s)' = Stage(s),
         Stage(r) \in from, Stage(r)' = to
  PROVE  Contract!Move(r, from, to)
  BY DEF Contract!Move

(* A run that ends leaves nothing to inject.                               *)
LEMMA FinishMoves ==
  ASSUME CoreTypeOK, NEW r \in Runs, NEW verdict \in Over, Finish(r, verdict)
  PROVE  /\ \A from : Stage(r) \in from => Contract!Move(r, from, verdict)
         /\ Contract!Drop({r})
         /\ Stage(r) = "idle" => UNCHANGED [s \in Runs |-> Injecting(s)]
  <1>1. /\ pc'[r] = verdict
        /\ \A s \in Runs \ {r} : pc'[s] = pc[s] /\ loc'[s] = loc[s]
    BY DEF CoreTypeOK, Finish, Goto
  <1>2. Stage(r)' = verdict /\ \A s \in Runs \ {r} : Stage(s)' = Stage(s)
    BY <1>1 DEF Stage, Over
  <1>3. \A from : Stage(r) \in from => Contract!Move(r, from, verdict)
    BY <1>2, StageMoves
  <1>4. \A s \in Runs : Injecting(s)' = IF s \in {r} THEN {} ELSE Injecting(s)
    BY <1>1 DEF Injecting, Over
  <1>5. Contract!Drop({r})
    BY <1>4 DEF Contract!Drop
  <1>6. Stage(r) = "idle" => Injecting(r) = {}
    BY DEF Stage, Injecting
  <1> QED
    BY <1>3, <1>4, <1>5, <1>6

(* Before a run logs in, the contract does not see what it does.           *)
LEMMA PrepareStays ==
  ASSUME CoreTypeOK, NEW r \in Runs, NEW label \in {"collecting", "pinging", "measuring"},
         pc[r] \in {"idle", "collecting", "pinging"}, Goto(r, label), qbt' = qbt,
         \A s \in Runs \ {r} : loc'[s] = loc[s]
  PROVE  UNCHANGED Contract!vars
  <1>1. pc'[r] = label /\ \A s \in Runs \ {r} : pc'[s] = pc[s]
    BY DEF CoreTypeOK, Goto
  <1>2. \A s \in Runs : Stage(s)' = Stage(s) /\ Injecting(s)' = Injecting(s)
    BY <1>1 DEF Stage, Injecting
  <1> QED
    BY <1>2 DEF Contract!vars

LEMMA ContractPrepare ==
  ASSUME CoreTypeOK, NEW r \in Runs,
         \/ Refuse(r) \/ Start(r) \/ CollectNone(r)
         \/ \E pool \in SUBSET Trackers : Collect(r, pool)
         \/ \E up \in SUBSET Trackers : Ping(r, up)
  PROVE  Contract!Skip(r) \/ UNCHANGED Contract!vars
  <1>1. ASSUME NEW verdict \in {"done", "failed"}, Finish(r, verdict), qbt' = qbt,
               pc[r] \in {"idle", "collecting", "pinging"}
        PROVE  Contract!Skip(r)
    <2>1. Stage(r) = "idle" /\ verdict \in Over
      BY <1>1 DEF Stage, Over
    <2> QED
      BY <1>1, <2>1, FinishMoves DEF Contract!Skip
  <1>2. CASE Refuse(r) \/ CollectNone(r)
    BY <1>1, <1>2 DEF Refuse, CollectNone
  <1>3. CASE Start(r)
    BY <1>3, PrepareStays DEF Start, CoreTypeOK
  <1>4. ASSUME NEW pool \in SUBSET Trackers, Collect(r, pool)
        PROVE  Contract!Skip(r) \/ UNCHANGED Contract!vars
    <2>1. pc[r] = "collecting" /\ qbt' = qbt
      BY <1>4 DEF Collect
    <2>2. \/ Goto(r, "pinging") /\ \A s \in Runs \ {r} : loc'[s] = loc[s]
          \/ Finish(r, "done")
      BY <1>4 DEF Collect, CoreTypeOK
    <2> QED
      BY <1>1, <2>1, <2>2, PrepareStays
  <1>5. ASSUME NEW up \in SUBSET Trackers, Ping(r, up)
        PROVE  Contract!Skip(r) \/ UNCHANGED Contract!vars
    <2>1. pc[r] = "pinging" /\ qbt' = qbt
      BY <1>5 DEF Ping
    <2>2. \/ Goto(r, "measuring") /\ \A s \in Runs \ {r} : loc'[s] = loc[s]
          \/ Finish(r, "failed")
      BY <1>5 DEF Ping, CoreTypeOK
    <2> QED
      BY <1>1, <2>1, <2>2, PrepareStays
  <1> QED
    BY <1>2, <1>3, <1>4, <1>5

(* Record fixes the list a run will inject.                                *)
LEMMA ContractStart ==
  ASSUME CoreTypeOK, NEW r \in Runs, Record(r)
  PROVE  Contract!Start(r)
  <1>1. /\ pc[r] = "measuring" /\ pc'[r] = "login" /\ loc' = loc /\ qbt' = qbt
        /\ \A s \in Runs \ {r} : pc'[s] = pc[s]
    BY DEF CoreTypeOK, Record, Goto
  <1>2. Contract!Move(r, {"idle"}, "login")
    BY <1>1, StageMoves DEF Stage
  <1>3. \A s \in Runs : Injecting(s)' = IF s = r THEN loc[r].passed ELSE Injecting(s)
    BY <1>1 DEF Injecting
  <1>4. [s \in Runs |-> Injecting(s)]'
          = [[s \in Runs |-> Injecting(s)] EXCEPT ![r] = loc[r].passed]
    BY <1>3
  <1>5. loc[r].passed \in SUBSET Trackers
    BY DEF CoreTypeOK, Locals
  <1> QED
    BY <1>1, <1>2, <1>4, <1>5 DEF Contract!Start

LEMMA ContractInject ==
  ASSUME CoreTypeOK, NEW r \in Runs,
         Login(r) \/ Apply(r) \/ Injected(r) \/ LoginFails(r) \/ InjectFails(r) \/ Verify(r)
  PROVE  \/ Contract!Login(r) \/ Contract!Apply(r) \/ Contract!Injected(r)
         \/ Contract!LoginFails(r) \/ Contract!InjectFails(r) \/ Contract!Verify(r)
  <1>1. ASSUME NEW label \in {"inject", "injected", "verify"}, Goto(r, label), loc' = loc,
               pc[r] \in {"login", "inject", "injected"}
        PROVE  /\ UNCHANGED [s \in Runs |-> Injecting(s)]
               /\ Contract!Move(r, {pc[r]}, label)
    <2>1. pc'[r] = label /\ \A s \in Runs \ {r} : pc'[s] = pc[s]
      BY <1>1 DEF CoreTypeOK, Goto
    <2>2. \A s \in Runs : Injecting(s)' = Injecting(s)
      BY <1>1, <2>1 DEF Injecting
    <2>3. Contract!Move(r, {pc[r]}, label)
      BY <1>1, <2>1, StageMoves DEF Stage
    <2> QED
      BY <2>2, <2>3
  <1>2. CASE Login(r)
    BY <1>1, <1>2 DEF Login, Contract!Login
  <1>3. CASE Apply(r)
    <2>1. /\ UNCHANGED [s \in Runs |-> Injecting(s)]
          /\ Contract!Move(r, {pc[r]}, "injected")
      BY <1>1, <1>3 DEF Apply
    <2>2. Contract!Move(r, {"inject", "injected"}, "injected")
      BY <1>3, <2>1 DEF Apply, Contract!Move
    <2>3. qbt' = Injecting(r)
      BY <1>3 DEF Apply, Injecting
    <2> QED
      BY <2>1, <2>2, <2>3 DEF Contract!Apply
  <1>4. CASE Injected(r)
    BY <1>1, <1>4 DEF Injected, Contract!Injected
  <1>5. CASE LoginFails(r) \/ InjectFails(r) \/ Verify(r)
    <2>1. qbt' = qbt /\ Stage(r) = pc[r]
      BY <1>5 DEF LoginFails, InjectFails, Verify, Stage
    <2> QED
      BY <1>5, <2>1, FinishMoves
         DEF LoginFails, InjectFails, Verify, Over, Contract!LoginFails,
             Contract!InjectFails, Contract!Verify
  <1> QED
    BY <1>2, <1>3, <1>4, <1>5

(* An abort cuts one run, a restart all in flight.                         *)
LEMMA ContractCut ==
  ASSUME CoreTypeOK, NEW some \in SUBSET Runs, qbt' = qbt,
         \A s \in some : pc[s] \in InFlight,
         \A s \in Runs : pc'[s] = IF s \in some THEN "cut" ELSE pc[s],
         \A s \in Runs \ some : pc[s] \in InFlight => loc'[s] = loc[s]
  PROVE  Contract!Cut(some)
  <1>1. \A s \in some : Stage(s) \in {"idle", "login", "inject", "injected", "verify"}
    BY DEF Stage, InFlight
  <1>2. \A s \in Runs : Stage(s)' = IF s \in some THEN "cut" ELSE Stage(s)
    BY DEF Stage
  <1>3. \A s \in Runs : Injecting(s)' = IF s \in some THEN {} ELSE Injecting(s)
    BY DEF Injecting, InFlight
  <1> QED
    BY <1>1, <1>2, <1>3 DEF Contract!Cut, Contract!Drop

LEMMA ContractStep ==
  ASSUME CoreTypeOK, [Next]_vars
  PROVE  [Contract!Next]_(Contract!vars)
  <1>1. ASSUME NEW r \in Runs, Abort(r) PROVE Contract!Cut({r})
    <2>1. /\ pc[r] \in InFlight /\ qbt' = qbt
          /\ \A s \in Runs : pc'[s] = IF s \in {r} THEN "cut" ELSE pc[s]
          /\ \A s \in Runs \ {r} : loc'[s] = loc[s]
      BY <1>1 DEF Abort, Finish, Goto, CoreTypeOK
    <2>2. {r} \in SUBSET Runs
      OBVIOUS
    <2> QED
      BY <2>1, <2>2, ContractCut
  <1>2. CASE Restart
    <2>1. /\ qbt' = qbt /\ Busy \in SUBSET Runs
          /\ \A s \in Busy : pc[s] \in InFlight
          /\ \A s \in Runs \ Busy : pc[s] \notin InFlight
          /\ \A s \in Runs : pc'[s] = IF s \in Busy THEN "cut" ELSE pc[s]
      BY <1>2 DEF Restart, Busy
    <2>2. Contract!Cut(Busy)
      BY <2>1, ContractCut
    <2> QED
      BY <2>1, <2>2 DEF Contract!Next
  <1>3. CASE (\E x \in Trackers : Wake(x)) \/ WakeAll \/ Tick \/ UNCHANGED vars
    <2>1. UNCHANGED <<qbt, pc, loc>>
      BY <1>3 DEF Wake, WakeAll, Tick, vars
    <2> QED
      BY <2>1 DEF Stage, Injecting, Contract!vars
  <1>4. ASSUME NEW r \in Runs, Abort(r) PROVE Contract!Next
    <2>1. {r} \in SUBSET Runs
      OBVIOUS
    <2> QED
      BY <1>1, <1>4, <2>1 DEF Contract!Next
  <1>5. ASSUME NEW r \in Runs,
               \/ Refuse(r) \/ Start(r) \/ CollectNone(r)
               \/ \E pool \in SUBSET Trackers : Collect(r, pool)
               \/ \E up \in SUBSET Trackers : Ping(r, up)
        PROVE  [Contract!Next]_(Contract!vars)
    BY <1>5, ContractPrepare DEF Contract!Next
  <1>6. ASSUME NEW r \in Runs,
               \/ Record(r)
               \/ Login(r) \/ Apply(r) \/ Injected(r)
               \/ LoginFails(r) \/ InjectFails(r) \/ Verify(r)
        PROVE  Contract!Next
    BY <1>6, ContractStart, ContractInject DEF Contract!Next
  <1> QED
    BY <1>2, <1>3, <1>4, <1>5, <1>6 DEF Next

(* Runs, aborts, restarts and all, the pipeline changes qBittorrent's list *)
(* only as the contract says that Inject implements too.                   *)
THEOREM KeepsContract == Spec => ContractSpec
  <1>1. Init => Contract!Init
    BY DEF Init, Stage, Injecting, Contract!Init
  <1>2. CoreTypeOK /\ [Next]_vars => [Contract!Next]_(Contract!vars)
    BY ContractStep
  <1> QED
    BY <1>1, <1>2, InitType, NextType, PTL DEF Spec, ContractSpec, Contract!Spec
===============================================================================
