# Trackarr in TLA+

A verification project for Trackarr, the service that collects BitTorrent
tracker lists, pings the trackers, puts repeat offenders to sleep, and writes
the trackers that answered into qBittorrent. The modules model the decisions
and the shared state of `src/app`; TLC checks them on small instances; TLAPS
proves every safety property the runs check for every value of the constants.

Contents: [the system](#1-the-system) · [modules](#2-modules-and-the-code) ·
[runs](#3-what-tlc-checks) · [proofs](#4-what-is-proved) ·
[divergences](#5-where-code-and-documents-disagree) ·
[limits](#6-what-is-not-modelled) · [plan](#7-plan) · [usage](#8-running-it)

## 1. The system

### Execution model

One process, one asyncio thread. Code between two awaits that really suspend
is atomic. `await log(...)` never suspends (it appends to a list and sets an
event), and reading and writing the JSON files is synchronous, so the only
places where something else can come in between are the network awaits, the
subprocess of the ping container, the sleeps, and the waits of event streams.
Every action of the models is one such stretch of code. The image runs Python
3.12, in which `asyncio.wait_for` awaits its coroutine in the same task: an
abort arrives where the task is suspended, never in a helper task.

State survives a restart only in the JSON files of `/app/data`. No file is
locked and none is written atomically: `load -> change -> save` is safe exactly
when no await lies between the load and the save. Three components await in
between (the pipeline, the scheduler loop, discovery), and so do the passes
over the GitHub cache. Most of what can go wrong here comes from that.

### Components

| Component | State it keeps | Operations | What makes it correct |
|---|---|---|---|
| Sleep state (`core/sleep.py`) | per tracker: state, failures, sleep-until | load, save, prune, dormant set, update after a run | failures are never more than pings that failed; a pass clears them; nobody sleeps longer than his last failure warrants |
| Pipeline (`core/run.py`) | its locals, among them a *copy* of the sleep state | admit, collect, ping, measure, record, inject | only what answered is injected; results are recorded before; overlapping runs do not corrupt the files |
| History (`core/history.py`) | newest-first results per tracker, number of runs | record with retention | what was injected is on record as UP |
| qBittorrent client (`core/inject.py`) | attempts, the preference in qBittorrent | login, inject, verify, retry | success means the list was taken; retries end |
| Scheduler (`core/scheduler.py`, endpoints in `api/router.py`) | `schedules.json`, the loop's copy of it | boot, check, fire, save; create, update, delete | a due slot is run, once; edits are not lost; a next run can be computed when it is due |
| Schedule calendar (`compute_next_run`) | none | next run after an instant | the next slot, strictly later, none skipped |
| Jobs and streams (`api/jobs.py`) | job table, log lines, one event per job | create, run, abort, prune; stream | statuses follow the lifecycle; streams miss nothing and end; running jobs are not pruned |
| Sources (`core/sources.py`, endpoints) | `tracker-sources.json`, raw lists of `config.json` on disk and in memory | add, remove, approve, dismiss, clear | a candidate is listed once, and not while dismissed; what was answered with ok lasts |
| Discovery (`core/discovery.py`) | a copy of the sources, time of the last search | ask well-known sites, search GitHub | what was dismissed stays so; searches keep their interval |
| Collection (`core/collect.py`) | GitHub cache keyed by commit | raw lists, repositories, websites, manual entries | a listing is never older than the commit it is used for; a pass ends whatever fails |
| Ping (`core/ping.py`, `ping_worker.py`) | semaphore of a call, sockets, executor threads, containers | HTTP, UDP, in-process or in a VPN container | UP only for a tracker that answered this ping; one bad URL costs no other its verdict; permits come back; calls return, and what they started ends, also when they are cancelled |
| VPN check (`network.py`, `main.py`) | verdict of start-up | detect, guard of a run | no run while the check says leaking or unreachable |
| Notifications, configuration, latency, quality metrics and assessment, GUI, packaging | | | see [section 6](#6-what-is-not-modelled) |

### How they interact

```
 scheduler loop --awaits--> trigger_scheduled_run --+        POST /run/...
                                                    v             |
                              job (api/jobs.py) <---+-------------+
                                | runs                  ^ abort, event streams
                                v
     TrackerPing: collect -> sleep filter -> ping -> measure
                    |              |                    |
              github-cache    tracker-sleep   history + tracker-sleep
                                                        |
                                              login -> inject -> verify --> qBittorrent
 discovery job --load/ask/save--> tracker-sources <--load/save-- endpoints
```

Calls: the loop awaits a job, a job awaits the pipeline, the pipeline awaits
the client. Shared state: the files above, `app.state.config`, the job table.
Callbacks: log lines set a job's event, which its streams wait for.

### Hard behaviours

*Stale copies* (pipeline, loop, discovery and passes save what they loaded
before an await); *overlap* (nothing keeps a manual run from overlapping a
scheduled one); *cancellation* (an abort cancels the task a job runs in, which
for a scheduled job is the scheduler's own loop); *lost, late and repeated
requests* (injection) *and datagrams* (ping); *work that outlives its caller*
(threads, containers); *failed and torn writes*; *restarts*; *a shared event
that each stream clears*; *calendar arithmetic at slots*. `PROJECT.json` lists
each at its line, with the properties that cover it.

## 2. Modules and the code

| Module | Models | Built on |
|---|---|---|
| `SleepState` | `sleep.py`: entries, thresholds, spans, dormancy, prune, update | |
| `TrackerPing` | `run.py`, `history.py`, aborts, wakes, restarts, VPN guard | extends `SleepState`, implements `QbtList` |
| `QbtList` | abstract: the contract between the pipeline and the client | implemented by `TrackerPing` and by `Inject` |
| `Inject` | `inject.py` with attempts, requests and answers under way | implements `QbtList` |
| `ScheduleTime` | `compute_next_run` and what a slot is | |
| `Scheduler` | the loop beside the schedule endpoints | takes `ScheduleTime` as `NextRun` in `MCScheduler` |
| `JobLifecycle` | abstract: statuses of a job, and when they are final | |
| `Jobs` | `jobs.py`: jobs, abort, prune, log, event streams | implements `JobLifecycle` |
| `Sources` | `sources.py`, its endpoints and `discovery.py` | |
| `Collect` | `collect.py`: one pass, and the cache passes share | |
| `Ping` | `ping.py`, `ping_worker.py`: calls, pings, datagrams, threads, containers | its call is the action `Ping` of `TrackerPing` |
| `MC...` | small instances | extend the module they name |
| `...Proofs` | theorems and their proofs | extend the module they name |

Faulty variants of some definitions (each marked "Faulty variant") stand before
the definition they distort. Nothing uses them: with a variant in place of the
definition the property it was written against is violated, which shows that
the property depends on the code.

**TrackerPing.** A run is at one of its awaits: `collecting` (`collect_all`),
`pinging` (`ping_all`), `measuring` (latency), `login`, `inject`, `injected`
(the request was handled, the answer is not here yet), `verify`. `loc[r]` holds
the locals that outlive an await; `snap` is the copy of the sleep state loaded
at run.py:141. `Collect` prunes, filters and, when everybody sleeps, saves and
ends; `Ping` ends the run early when nothing is UP (run.py:196); `Record` is
the whole stretch run.py:205-230: history, sleep state. `Saved` is a file
write: with `TornSaves` it may fail (the helpers swallow the exception) or be
cut short (the loaders then read an empty file). Ghosts look on from outside:
`downs` and `streak` count failed pings; `calm` says that no run has started
beside another and no write has failed; `tally` is what the sleep file should
hold then: failures recorded since the tracker last passed, was woken or left
the pool, or `Unknown` where a wake came beside a run that holds a copy.

**QbtList.** Pipeline and client meet in three variables: qBittorrent's list, how
far each run has come (`stage`), and the list it set out to inject (`list`).
`TrackerPing` maps to it everything before a run's results are recorded to `idle`, and
`Inject` its attempts to `inject` or, once the list was taken, `injected`. With
`Late`, a request may be handled after its run left the step: `Inject` is checked
with such requests, `TrackerPing`, whose questions are about its files, leaves
them out (`Late <- FALSE`).

**Inject.** `Post` sends a request, `Apply` and `Refuse` are qBittorrent
handling it, `Injected` the client reading a good answer, `InjectFails` an
error or 45 seconds of silence, `Retry` the rest of `_with_retry`. A request is
not withdrawn when the client stops waiting: it may be handled beside the next
attempt or, with `Late`, after the run has left the step. `VerifySkipped` is the
`except` branch that returns success, `VerifyRaises` the answer that is JSON but no
object: `data.get` (inject.py:131) stands outside the `try`, what it raises passes
the handlers of run.py:239, and the run fails with its list in place. `QbtList` and
`TrackerPing` have both ends of `Verify` for that reason.

**Scheduler.** The file is a function on the places its entries took when they were
appended; an entry's `id` is a field, because a POST may bring any (`Namesakes`: an
update finds the first entry with an id, a delete takes them all). A POST is validated
whole and keeps the `next_run` it brings, while a PUT drops it (`Create`, `Update`,
inputs in `Bodies`). Recalculation computes a next run only where there is none in
the future, so a body whose time no day has is turned down (`Rejected`) unless it
brings a next run of its own; what such a POST of an earlier life left on file is
among the initial lists (`Left`). The loop is at `boot`, `waiting` (its 30-second sleep), `firing` (it
awaits a run, with `mem` the list it loaded) or `dead` (its task was cancelled).
`CheckFires`, `RunEndsFiresNext`, `RunEndsLast`, `CheckFindsNothing` are
`_check_and_fire` cut at its awaits; `RunEndsRaises` is the next run that cannot be
computed after the run it belongs to (scheduler.py:202): the check ends with nothing
saved and the rest of the list not looked at. Endpoints load, change, recalculate and
save in one step: the save succeeds (`Answered`), fails with the file as it was or
cut off (`Refused`), or is not reached because a next run cannot be computed
(`Rejected`, for calendars in `Raising`, like a time of 25:00). The loop's own save
may fail too: at start-up that, or a next run that cannot be computed, ends the loop
(`Boot`), after a check it is logged
and the loop goes on with a file that does not know of its runs
(`RunEndsUnsaved`). No edit comes at `boot`: requests are served once start-up is
over, and the loop's first step comes before the first of them. An abort needs
the id of a scheduled job, hence `abortable`.

**Jobs.** `at` is where a job's coroutine stands, `status` what the table shows:
they differ while the end is being notified. Whether a notification is sent is
the user's configuration at that moment, hence a choice. Aborting a pending job
is impossible: its id reaches the caller after its task's first step. Streams
follow `stream_job` from await to await; a set event makes the wait return at once.
A stream is `closed` when the server ended it and `gone` when its client left.

**Sources.** `copy` in `loc[d]` is what a discovery loaded. Answers of sites and of
GitHub are arbitrary. Lists count entries per URL, because adding a source twice
makes two entries. Raw lists are in `trackerUrls` (`app.state.config`) and
`stored` (`config.json`), which a restart reads. Any save may fail, with the file
as it was or cut off (`SaveFails`, `ConfigFails`); approving a raw list makes three
saves, and `ApproveRawFails` says what each of them leaves behind.

**Ping.** A ping is `queued` for the semaphore, at one of its awaits (`request`,
`resolve`, `lookup`, `open`, `sent`), or has its verdict. `stage` is where the caller
is, `engine` the in-process part, which under a VPN runs in its container and
survives its caller. Lookups and container clients take executor threads; a
cancelled ping's lookup keeps its thread (`ResolvedLate`). `Cancel` only marks an
in-process call (`unwinding`), as `gather` only cancels its children; each ping then
unwinds at the await it is suspended in, in any order and between other steps
(`Unwind`: from the semaphore's queue, or out of its request or socket and the
semaphore), and the caller has its `CancelledError` when the last of them has ended
(`Cut`). A ping that ended before it was reached keeps its verdict, which nobody
gets. A killed container takes its permits and lookups with it. `Pool` is the list of
trackers each call is given. `Emit` is the network: a
datagram is a proper answer to this ping or anything else, in any order, any
number of times. Latency is left out; it changes no verdict.

**Collect.** `head[r]` is the number of the newest commit; `Push` moves it between
any two requests. A cache entry is a commit and the commit whose tree is listed.
Pushes only move forward (no force-push). Which trackers a file yields is left out.

## 3. What TLC checks

Twelve runs; the properties are explained beside their definitions.

| Run | Question | Bounds | Distinct states |
|---|---|---|---|
| `TrackerPing` | Do overlapping runs, wakes, aborts, restarts and bad writes keep the sleep state honest, is only what is UP injected, and does the pipeline keep its side of the contract with the client? `TypeOK`, `FailuresBacked`, `ParkedBounded`, `PassClearsCalm`, `FailuresExact`, `InjectedAreUp`, `ContractSpec` | 2 trackers (HTTP, UDP), 2 runs, 0 or 5 earlier failures, spans 1 and 2, clock to 1, failing and torn writes, VPN off or leaking at each restart | 1.6 M |
| `ScheduleTime` | Is the next run the first slot after now, and what becomes of an hourly schedule's `minute`? `NextIsFirstSlot` | hours of 2, days of 6 ticks, weeks of 7 days, all schedules, every wanted minute, up to 7 ticks late, horizon 60 | 39 k |
| `Scheduler` | Are next runs consistent, slots fired once, edits kept, and does each due slot fire? `TypeOK`, `EnabledIffNext`, `RaisesOnlyIfSent`, `AtMostOncePerSlot`, `EditsKept`, `EachDueFiresAlone` | 2 schedules, every-tick, daily and at a time no day has, bodies with and without a next run, clock to 3, 1 each of edits, restarts, aborts and failing saves | 434 k |
| `Jobs` | Do streams see everything and end; does the table keep the lifecycle and prune only the old? `TypeOK`, `NoLostWakeup`, `StreamsComplete`, `StreamsEnd`, `LifecycleSpec`, `PrunedWhenOld` | 1 API job with 2 streams, 1 scheduled job, 1 line and the error line, age 1, clock to 2 | 483 k |
| `Inject` | Does the retrying client keep its contract, and end? `TypeOK`, `DoneMeansApplied`, `ContractSpec`, `RunsEnd` | 2 runs, 4 attempts at a step (3 retries, as in the code), late requests | 594 k |
| `Sources` | Is every version of the file in order; do dismissals, approvals and the interval last when nobody interferes? `TypeOK`, `UniqueCandidates`, `DismissedNotPending`, `RefusedStays`, `ApprovedStays`, `RateLimited` | 1 raw list, 1 repository, 2 discoveries, 3 edits, 1 abort or restart, 1 failing save, interval 2, clock to 3 | 3.6 M |
| `Ping` | Are verdicts earned and permits returned; does every call return, and what it started end? `TypeOK`, `UpMeansAnswered`, `OwnVerdicts`, `PermitsKept`, `NothingLeft`, `CallReturns`, `EngineStops` | 2 calls of 3 trackers each: both have the UDP one; HTTP, a port out of range, an unmatched bracket and an unknown scheme are shared out; 2 permits, 1 thread | 201 k |
| `Collect` | Is a listing ever older than its commit; does a pass end? `TypeOK`, `CurrentListing`, `PassEnds` | 2 repositories, 2 passes, 2 pushes to each | 1.3 M |
| `TrackerPingStaleCopy`, `SchedulerMissed`, `SchedulerKilled`, `InjectVerified` | the divergences of section 5 | the smallest instance that shows them | |

**Why these bounds.** A stale copy needs two actors and one file: two runs, two
discoveries, two passes, the loop and one edit. Two trackers let one pass while
the other fails or is skipped. A tracker that starts with five failures is at the
last count that naps: one more, which the clock leaves room for, makes it hibernate
(states with a hibernating tracker are reached), and one that starts from none
naps after two. Spans of 1 and 2 ticks let an entry expire within the clock. Two schedules make
the loop fire one while the other waits. One edit, beside initial lists of every
kind, meets the loop at each of its awaits; longer sequences are the proofs'
concern, and the liveness property speaks of executions without edits. One
thread and two permits are fewer than what wants them: calls, lookups and pings
have to wait for one another. The two calls of `Ping` share no variable but the
threads, so each has the one tracker that needs them and its own share of the others. Two streams are needed because they
share one event. Three ticks and an interval of two leave room for a search that
comes too early and one that does not. Two pushes separate "newer than filed"
from "newest". Bounds are conjuncts of the actions and are named in the CONSTANTS.
`Scheduler` and `ScheduleTime` scale the calendar: the arithmetic is that of the
code with the lengths of hour, day and week as parameters.

**Symmetry** is declared for runs in `MCTrackerPing`, which only index `pc` and
`loc`, and not used where liveness is checked.

`Jobs` has one scheduled job: with two, the run exceeds its time even with a single
stream. That an abort of an old scheduled job hits the one that runs is therefore not
seen by TLC; the theorem `KeepsLifecycle` covers any number, but only says that the
job hit is aborted in an orderly way.

**Deadlock** is switched off in every run but the TrackerPing ones and the
smallest: jobs, runs, calls, discoveries and passes are each started once, so the
bounded instances do come to rest.

**Fairness.** `RunsEnd`, `StreamsEnd`, `PassEnds`, `EachDueFires`, `CallReturns`,
`EngineStops` and the liveness part of `LifecycleSpec` assume weak fairness of one
run's, stream's, pass's, loop's, ping's or call's next step, nothing else; a cancelled
ping's `Unwind` and its caller's `Cut` are among them, for the event loop runs the
tasks it has cancelled and nothing they await on the way out can suspend them for
good. The code justifies it: the event loop
resumes what can go on, and each await has a limit: 45 s for qBittorrent, 10-15 s
for the other requests, 10 s for each wait of a ping, 300 s for the ping
container's client, 30 s for the check interval. Two things end without a timeout of
Trackarr's: a lookup in its thread, which the resolver gives up by itself, and a
container whose client is gone, whose pings have their timeouts. The environment (qBittorrent, GitHub, users, aborts, the clock) is under no
fairness, and the 30-second keepalive of the streams is not relied on.

**Conditions in properties.** Some properties hold only while nobody comes
between a load and a save, or no save fails, and say so: `PassClearsCalm`,
`FailuresExact` and `InjectedAreUp` (ghosts `calm`, `tally`), `EditsKept` and
`RefusedStays` (`overwritten`, `damaged`), `ApprovedStays` (`slipped`),
`AtMostOncePerSlot` (`unsaved`: only schedules whose check saved nothing may
repeat their slot, and only until a save succeeds), `RaisesOnlyIfSent` (`sent`),
`RateLimited` (`disturbed`, `damaged`), `EachDueFiresAlone` (no edit, restart, abort or
failing save, and no schedule before it on the list that ends the check). These
conditions exclude the very disturbance: such a property does not object to it, it
shows that there is no other way to the damage. Likewise `FailuresExact` counts as the
code does where a run ends early (run.py:196) or the pool shrinks (run.py:142), and
shows that nothing else is lost or charged. The
ghosts are observed, not assumed: executions in which they stay FALSE are
explored next to all others.

## 4. What is proved

Each theorem holds for every value of the constants that satisfies the module's
ASSUME (naturals, subsets, non-empty spans): any number of trackers, runs,
schedules, repositories, any clock bound. TLC checked each invariant first.

| Module | Theorem | Argument |
|---|---|---|
| `TrackerPingProofs` | `FailuresAlwaysBacked`, `ParkingBounded` | `Backed`: every entry, on file *and in every run's copy*, has at most as many failures as pings that failed, and a wake-up time its failures warrant. Every step but `Record` only copies entries or clears them (`CopyStep`); `Record` adds a failure to the ghost whenever it adds one to an entry. |
| | `PassesClear` | while `calm`, at most one run is in flight, and its copy has no more failures than came since the last UP. The condition is needed: `TrackerPingStaleCopy` is the counterexample without it. |
| | `FailuresAccounted` | the same with equality, against `tally`: what a run that holds a copy will write is what the file should hold after it |
| | `TypeCorrect` | all of `TypeOK`. What `record_run` keeps of a tracker's results is a recursive function of how far the list was read (`Recent`); lemmas by induction on that show that it is again a list of results, and that it begins with the run's own result, which is younger than any retention (`RecentType`, `RecentHead`) |
| | `InjectedOnRecord` | `OnRecord`: while `calm`, what a run between `Record` and its end is to inject is on file with an UP as the newest result. Only `Record` writes the history, and then of the one run in flight |
| | `KeepsContract` | `Init` maps to `QbtList`'s; every action maps to one of its steps or to a stutter: the stages up to `Record` to `idle` (`PrepareStays`), `Record` to `Start`, the early ends to `Skip`, an abort and a restart to `Cut` |
| `SchedulerProofs` | `TypeCorrect`, `NextRunsConsistent` | `Typed`: what holds of the file holds of the copy the loop takes, and recalculation, which looks at every schedule before anything is saved, restores it after an edit |
| | `RaisingWasSent` | `Known`: recalculation lets an enabled schedule with a time no day has through only where a next run lies in the future, and a next run that is not computed came with the POST (`sent`); a check that ends with runs unsaved met a failed save or such a schedule |
| | `SlotsFireOnce` | `Once`: fired slots lie no later than the last check, so whatever recalculation puts in the future is new. `Halfway`: what the loop passed in its copy is put off; what is still due in the file has had its turn in this check or waits for it, so that a check that saves nothing forgets only its own runs (`unsaved`) |
| | `EditsSurvive` | `Kept`: the loop's copy, too, says what the endpoints acknowledged |
| | | `SchedulerProofs` assumes of `NextRun` only that it lies strictly in the future for the calendars it can be computed for, which `NextRunLater` proves of `compute_next_run`; and of the lists an earlier life left on file that they give a next run to the enabled schedules, as every save of this program does (`NextRunsConsistent`) |
| `ScheduleTimeProofs` | `FirstSlotAlways`, `NextRunLater` | hours, days and weeks of any length, a loop that is late by any time. Instants that recur with a period are at least a period apart (`SameRemainderApart`, `WeekApart`), and the code's slot is less than a period after now, so none lies between. For hourly schedules that is minute 0 (`FullHour`), hence at no other wanted minute |
| `JobsProofs` | `TypeCorrect`, `WakeupsKept`, `PrunedLate`, `KeepsLifecycle` | a stream that waits on a clear event has been sent all lines: every log and every end sets the event, and each stream reads before it clears. `KeepsLifecycle` maps each step to a step of `JobLifecycle` or a stutter |
| | `StreamsKeepAll` | lines are complete but for the last one of a job that ended as aborted. `Ended`: no stream is ahead of its job; one the server ended follows a job with a verdict, and from the verdict on only the abort of a notification logs, which ends the job |
| `InjectProofs` | `TypeCorrect`, `SuccessMeansApplied` | `Honest`: a good answer is on its way only if the list was taken, and nothing is asked for a run before its login |
| | `MeetsContract` | every step of the client maps to a step of `QbtList` or a stutter, late requests included; together with `KeepsContract` the two models fit |
| | `StepsRunOut` | a measure (`Left`): attempts left at this step, and at those to come, each of which begins with all its attempts |
| `SourcesProofs` | `TypeCorrect`, `CandidatesUnique`, `DismissedApart` | `InOrder`: what holds of the file holds of the copy a discovery takes, survives its proposals, and so holds of the file again when it is saved |
| | `DismissalsLast`, `ApprovalsLast` | while no edit came beside a discovery, every copy dismisses all that was refused; every list in memory is on disk but for what a save failed to keep |
| | `SearchesSpaced` | `Dated`: while undisturbed and undamaged, one discovery is at work at most, and the time of the last search is on file, in its copy, or is its own start |
| `PingProofs` | `TypeCorrect`, `PermitsAlwaysKept` | free and held permits add up after every way a ping ends, its unwinding included; which is why a permit that is taken is there |
| | `UpAnswered`, `VerdictsOwn`, `QuietWhenOver` | a datagram that says "answer" was sent by the tracker to this ping; verdicts do not change once reached, so the list gather returns holds each ping's own. `Callers` ties an in-process caller to its engine, and `Engines` says that one that is over has only pings that ended: by `Return`, with verdicts; by `Cut`, after each has unwound |
| `CollectProofs` | `TypeCorrect`, `ListingCurrent` | `Fresh`: no cache, on file or in a pass, files a listing under a commit newer than it; a commit once learned is never ahead of its repository |
| | `PassesRunOut` | `OnList`: the repository a pass is busy with is on its list of those to serve, so that each download makes the list shorter; a measure over its cardinality |

The pattern is the same throughout: an invariant of a file that actors copy
is not inductive until it is also stated of the copies.

Only model-checked: liveness (`RunsEnd`, `StreamsEnd`, `PassEnds`,
`EachDueFiresAlone`, `CallReturns`, `EngineStops`) and anything that needs
ENABLED, so the liveness part of `LifecycleSpec`. Of `RunsEnd` and `PassEnds` the
safety half is proved: `RunsRunDown` and `PassRunsDown`, stated in the proof modules,
leave a run or a pass only so many steps, and what TLC adds is that fairness makes
it take them. The library's
induction theorems take an operator as their parameter, which the installed
provers cannot instantiate; the two induction lemmas of `TrackerPingProofs` (`Least`,
`Induction`) speak of a set of numbers instead and rest on well-founded minima.
No module declares a recursive operator.

## 5. Where code and documents disagree

Shown by a run that violates the documented statement:

- **`TrackerPingStaleCopy`** - sleep.py:9, "A successful ping clears the
  tracker's failure count entirely". With two overlapping runs the later writer
  brings the failures back (run.py:141 and 220).
- **`SchedulerMissed`** - scheduler.py:128, a `next_run` in the past "stays due".
  `recalculate_next_runs` replaces it at start-up, so a slot missed while the
  container was down is skipped.
- **`SchedulerKilled`** - scheduler.py:5, the loop "fires any that are due". A
  scheduled job's task is the loop itself; aborting the job, even one long over,
  cancels the loop until the next restart.
- **`InjectVerified`** - inject.py:5, the module "verifies the update took
  effect". An exception while asking is logged as "Verification PASSED".

Shown by what a passing property says:

- scheduler.py:11, an hourly schedule "fires once an hour at `minute` (0-59)". No
  field of `Schedule` holds a `minute`, and `compute_next_run` (scheduler.py:91-93)
  takes the full hour. `IsSlot` has the docstring's slots, and `NextIsFirstSlot` says
  what is left of them: an hourly schedule runs once an hour, at minute 0; wanted at
  any other minute, it never runs at it.
- A time of `25:00` passes the validators of `Schedule` (scheduler.py:42), and no next
  run can be computed for it (scheduler.py:101). A disabled schedule keeps it; enabling
  it, or a POST without a next run, is answered with an internal error (`Rejected`).
  But a POST that brings a `next_run` in the future keeps both (router.py:328-335,
  scheduler.py:137-138), and the schedule is saved enabled. When it comes due, its run
  is started, what `compute_next_run` raises after it ends the check with nothing
  saved (`RunEndsRaises`), and so it is run again at every check; schedules after it
  on the list are not reached, every edit that does not remove or change it fails, and
  the next start-up ends the loop (`Boot`). `RaisesOnlyIfSent`,
  `AtMostOncePerSlot` and the last disjunct of `EachDueFiresAlone` say that nothing but
  such a POST leads there.

Met while modelling, and visible in the actions named:

- A run in which nothing is UP ends before its results are recorded (`Ping`);
  history.py:4 says "Stores results from every run".
- A wake is undone by a run in flight (`Record` writes the old copy).
- Edits of schedules made while the loop awaits a run are lost (`RunEndsLast`);
  the condition of `EditsKept` is exactly that. Likewise a dismissal during a
  discovery (`RefusedStays`), and the time of a search by a discovery that is cut short
  (`RateLimited`).
- An abort during the notification turns a finished job into an aborted one
  (`Settle` in `JobLifecycle`); jobs.py:7 draws these states as final.
- Aborting an old scheduled job aborts the one that runs (`Interrupted`; no property
  excludes it, see the bounds of `Jobs`).
- An answer to the verification that is JSON but no object fails a run whose list was
  set, with an error no handler expects (`VerifyRaises`).
- An aborted run leaves the lookups of its pings in the executor's threads, which the
  next call may have to wait for (`ResolvedLate`, the exception in `NothingLeft`).
- A job that is still notifying has no `ended_at`; pruning then goes by its
  start and may take it early (`PrunedWhenOld` says when).
- A save of `config.json` that fails in `approve_candidate` leaves the list in
  memory; the retry answers ok and saves nothing (router.py:285), and the next
  restart drops the list (`Listed`; the ghost `slipped` of `ApprovedStays`). When
  the third save fails instead, the approved URL stays dismissed
  (`ApproveRawFails`).
- A save that fails in the scheduler's start-up ends the loop without a word
  (`Boot`), while the same failure after a check is logged and survived.
- The pool that shrinks with an unreachable source takes failures and history
  with it (`Collect` and `Tallied`: a tracker outside the pool starts from 0).
- README.md:48-50 of the repository describes a deployment without an ephemeral
  ping container; with `VPN_CONTAINER` set every run starts one (`Launch`), it is
  not told of the proxy mode (`Call`), and it goes on when its run is aborted.
- An "unchecked" VPN (no IP to compare with) is admitted like a verified one
  (`Admitted`), and a tunnel that fails after start-up is not noticed.
- Outside the models: quality_assessment.py says get_assessment never raises, but a
  reply of the model that is JSON and no object does; quality_metrics.py reads
  `p.port`, which raises for a port out of range, so one such line fails a whole
  preview; the preview of a website hands raw HTML (router.py:241) to metrics that
  expect a list of trackers (quality_metrics.py:85).
- The tree is HEAD's, asked for after the commit: a newer listing may be filed
  under an older commit (`TreeRead`); collect.py:7 says "cached by commit SHA".
- collect.py:10 promises case-insensitive deduplication; the sources are joined
  as they are spelled.

## 6. What is not modelled

- **Bytes of a ping**: a datagram is an answer or it is not; what parses the
  reply of an HTTP tracker is its status.
- **A VPN that changes after start-up** (`network.py`): the code reads its verdict
  once, so `TrackerPing` has the verdict of the last start-up and a property about
  the tunnel itself would speak of something no action looks at.
- **Failing writes of the GitHub cache**, which are swallowed and leave the pass's
  own copy in use.
- **Latency, quality metrics, quality assessment**: numbers for display; no state
  or decision depends on them.
- **Notifications**: their await is in `Jobs`; what they send is not.
- **Settings** other than the raw lists: inputs of the pipeline, clamped by
  validators when they are read.
- **Trackers as text**: normalisation, regular expressions, spellings.
- **GUI, packaging, static files, logging.**

## 7. Plan

Order: what corrupts shared state first, then what talks to the outside, then
display. Done: sections 2 to 4. What is left, by worth:

1. The safety half of `CallReturns` and `EngineStops`: a measure over the pings of a
   call, the permits it has and the threads it waits for; of `StreamsEnd`, over the
   lines a stream has yet to deliver.
2. `Ping` against a contract of its own, as `Inject` is against `QbtList`.
3. The page of settings overwriting `config.json` from a stale load.
4. Quality metrics as operators against reference definitions.

## 8. Running it

```
tlc -workers 2 -config Scheduler.cfg MCScheduler.tla   # a run: see PROJECT.json
tlapm SchedulerProofs.tla                              # the proofs of a module
```

`PROJECT.json` names for every definition the source lines it stands for.
