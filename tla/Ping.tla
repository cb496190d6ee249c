--------------------------------- MODULE Ping ---------------------------------
(***************************************************************************)
(* ping_all of app/core/ping.py: what one call makes of every tracker URL. *)
(*                                                                         *)
(* In-process, the pings of a call are coroutines under one semaphore; the *)
(* host names of UDP trackers are looked up in the threads that all calls  *)
(* of the process share.  With a VPN container, the call waits in such a   *)
(* thread for the client of an ephemeral container, in which ping_worker   *)
(* makes the same in-process call; the container goes on when its caller   *)
(* is cancelled or the client's time is up.  A cancelled in-process call   *)
(* has its caller back when each of its pings has unwound.                 *)
(*                                                                         *)
(* TrackerPing's action Ping is the return of a call.                      *)
(***************************************************************************)
EXTENDS Integers, FiniteSets

CONSTANTS
  Urls,            \* trackers
  Scheme,          \* "http" (https, ws, wss), "udp", "other", or "none":
                   \* urlparse(url) raises (a bracket without its pair)
  BadPort,         \* those urlparse(url).port raises for
  Calls,           \* calls of ping_all, one for each run that comes to it
  Pool,            \* the trackers each call is given
  MaxConcurrency,  \* permits of a call's semaphore
  MaxThreads       \* threads of a process's default executor

ASSUME PingAssumption ==
  /\ Scheme \in [Urls -> {"http", "udp", "other", "none"}]
  /\ BadPort \subseteq Urls
  /\ Pool \in [Calls -> SUBSET Urls]
  /\ IsFiniteSet(Urls) /\ IsFiniteSet(Calls)
  /\ MaxConcurrency \in Nat \ {0}
  /\ MaxThreads \in Nat \ {0}

VARIABLES
  vpn,        \* VPN_CONTAINER is set
  stage,      \* where the caller of each call is
  engine,     \* gather and its pings, in the call's container under VPN
  noUdp,      \* UDP trackers are to be skipped
  permits,    \* free permits of the call's semaphore
  ping,       \* where each ping is, its verdict, or "gone": cancelled
  lookups,    \* the pings whose host name a thread looks up
  clients,    \* the calls whose container client a thread waits for
  wire,       \* datagrams on their way to the socket of a ping
  heard,      \* ghost: the pings whose tracker gave a good answer
  returned    \* what the callers got

local == <<noUdp, permits, ping, lookups, wire, heard>>
vars == <<vpn, stage, engine, clients, returned, local>>

-------------------------------------------------------------------------------
(* State *)

Pings == {p \in Calls \X Urls : p[2] \in Pool[p[1]]}

Of(c) == {p \in Pings : p[1] = c}

Verdicts == {"up", "down", "skipped", "raised"}

Ended == Verdicts \cup {"gone"}

(* Pings that hold a permit.                                               *)
Inside == {"request", "resolve", "lookup", "open", "sent"}

(* A datagram has action 0 and the transaction id of the ping, or it is    *)
(* anything else, fewer than 16 bytes included.                            *)
Datagram == [ping : Pings, kind : {"answer", "stray"}]

TypeOK ==
  /\ vpn \in BOOLEAN
  /\ stage \in [Calls -> {"idle", "thread", "waiting", "done", "failed", "cut"}]
  /\ engine \in [Calls -> {"off", "on", "unwinding", "over", "killed"}]
  /\ noUdp \in [Calls -> BOOLEAN]
  /\ permits \in [Calls -> 0..MaxConcurrency]
  /\ ping \in [Pings -> {"new", "queued"} \cup Inside \cup Ended]
  /\ lookups \subseteq Pings
  /\ clients \subseteq Calls
  /\ wire \subseteq Datagram
  /\ heard \subseteq Pings
  /\ returned \in [Pings -> Verdicts \cup {"none"}]

Init ==
  /\ vpn \in BOOLEAN
  /\ stage = [c \in Calls |-> "idle"]
  /\ engine = [c \in Calls |-> "off"]
  /\ noUdp = [c \in Calls |-> FALSE]
  /\ permits = [c \in Calls |-> MaxConcurrency]
  /\ ping = [p \in Pings |-> "new"]
  /\ lookups = {}
  /\ clients = {}
  /\ wire = {}
  /\ heard = {}
  /\ returned = [p \in Pings |-> "none"]

-------------------------------------------------------------------------------
(* Helpers *)

Goto(p, label) == ping' = [ping EXCEPT ![p] = label]

(* A ping whose task is not cancelled.                                     *)
At(p, label) == engine[p[1]] = "on" /\ ping[p] = label

(* A container has the threads of its own process.                         *)
Beside(c) == {p \in lookups : vpn => p[1] = c}

InsideOf(c) == {p \in Of(c) : ping[p] \in Inside}

(* Faulty variant: the semaphore is not taken.                             *)
TakeNone(p, label) == Goto(p, label) /\ UNCHANGED permits

(* A ping goes on under the semaphore, ...                                 *)
Take(p, label) ==
  /\ Goto(p, label)
  /\ permits' = [permits EXCEPT ![p[1]] = @ - 1]

(* ... or takes a permit and gives it back without an await between them.  *)
Pass(p, verdict) == Goto(p, verdict) /\ UNCHANGED permits

(* Faulty variant: a permit is only given back when the ping succeeded.    *)
EndLeaks(p, verdict) ==
  /\ Goto(p, verdict)
  /\ permits' = [permits EXCEPT ![p[1]] = IF verdict = "up" THEN @ + 1 ELSE @]
  /\ wire' = {m \in wire : m.ping # p}

(* A ping is over: its permit is free, its socket is closed.               *)
End(p, verdict) ==
  /\ Goto(p, verdict)
  /\ permits' = [permits EXCEPT ![p[1]] = @ + 1]
  /\ wire' = {m \in wire : m.ping # p}

Engaged(c) ==
  ping' = [p \in Pings |-> IF p[1] = c THEN "queued" ELSE ping[p]]

Unmoved == UNCHANGED <<vpn, stage, engine, clients, returned>>

-------------------------------------------------------------------------------
(* One ping: _ping_one *)

(* Past the semaphore, up to the first await.                              *)
Enter(p) ==
  LET scheme == Scheme[p[2]]
      skip   == noUdp[p[1]]
  IN /\ At(p, "queued")
     /\ permits[p[1]] > 0
     /\ \/ scheme = "http" /\ Take(p, "request")
        \/ scheme = "udp" /\ ~skip /\ p[2] \notin BadPort /\ Take(p, "resolve")
        \/ scheme = "udp" /\ ~skip /\ p[2] \in BadPort /\ Pass(p, "raised")
        \/ scheme = "udp" /\ skip /\ Pass(p, "skipped")
        \/ scheme = "other" /\ Pass(p, "down")
        \/ scheme = "none" /\ Pass(p, "raised")
     /\ Unmoved /\ UNCHANGED <<noUdp, lookups, wire, heard>>

(* GET .../announce: a status below 500 is an answer, all else is DOWN.    *)
Respond(p) ==
  /\ At(p, "request")
  /\ heard' = heard \cup {p}
  /\ End(p, "up")
  /\ Unmoved /\ UNCHANGED <<noUdp, lookups>>

RequestFails(p) ==
  /\ At(p, "request")
  /\ End(p, "down")
  /\ Unmoved /\ UNCHANGED <<noUdp, lookups, heard>>

(* getaddrinfo waits for a thread, and has no timeout of its own.          *)
LookUp(p) ==
  /\ At(p, "resolve")
  /\ Cardinality(Beside(p[1])) < MaxThreads
  /\ Goto(p, "lookup")
  /\ lookups' = lookups \cup {p}
  /\ Unmoved /\ UNCHANGED <<noUdp, permits, wire, heard>>

Resolved(p) ==
  /\ p \in lookups
  /\ At(p, "lookup")
  /\ lookups' = lookups \ {p}
  /\ \/ /\ Goto(p, "open")
        /\ UNCHANGED <<permits, wire>>
     \/ End(p, "down")
  /\ Unmoved /\ UNCHANGED <<noUdp, heard>>

(* The lookup of a cancelled ping keeps its thread until it ends.          *)
ResolvedLate(p) ==
  /\ p \in lookups
  /\ ~At(p, "lookup")
  /\ lookups' = lookups \ {p}
  /\ Unmoved /\ UNCHANGED <<noUdp, permits, ping, wire, heard>>

(* The socket is made and the connect request sent; or it failed.          *)
Send(p) ==
  /\ At(p, "open")
  /\ Goto(p, "sent")
  /\ Unmoved /\ UNCHANGED <<noUdp, permits, lookups, wire, heard>>

(* No endpoint, an ICMP error, or no datagram within the timeout.          *)
GiveUp(p) ==
  /\ At(p, "open") \/ At(p, "sent")
  /\ End(p, "down")
  /\ Unmoved /\ UNCHANGED <<noUdp, lookups, heard>>

(* The tracker, or the network, sends something to the ping's socket.  It  *)
(* may come in any order with others, after the timeout, or never.         *)
Emit(p, kind) ==
  /\ At(p, "sent")
  /\ wire' = wire \cup {[ping |-> p, kind |-> kind]}
  /\ heard' = IF kind = "answer" THEN heard \cup {p} ELSE heard
  /\ Unmoved /\ UNCHANGED <<noUdp, permits, ping, lookups>>

(* Faulty variant: any datagram is an answer.                              *)
ReceiveAny(m) ==
  /\ m \in wire
  /\ End(m.ping, "up")
  /\ Unmoved /\ UNCHANGED <<noUdp, lookups, heard>>

(* datagram_received: the first datagram decides, unless a cancellation    *)
(* came first.                                                             *)
Receive(m) ==
  /\ m \in wire
  /\ At(m.ping, "sent")
  /\ End(m.ping, IF m.kind = "answer" THEN "up" ELSE "down")
  /\ Unmoved /\ UNCHANGED <<noUdp, lookups, heard>>

-------------------------------------------------------------------------------
(* One call *)

(* In-process: gather starts the pings, unless the proxy URL is unusable.  *)
(* A container is not told of the proxy mode.                              *)
Call(c) ==
  /\ stage[c] = "idle"
  /\ \/ /\ ~vpn
        /\ stage' = [stage EXCEPT ![c] = "failed"]
        /\ UNCHANGED <<engine, noUdp, ping>>
     \/ /\ ~vpn
        /\ stage' = [stage EXCEPT ![c] = "waiting"]
        /\ engine' = [engine EXCEPT ![c] = "on"]
        /\ \E skip \in BOOLEAN : noUdp' = [noUdp EXCEPT ![c] = skip]
        /\ Engaged(c)
     \/ /\ vpn
        /\ stage' = [stage EXCEPT ![c] = "thread"]
        /\ UNCHANGED <<engine, noUdp, ping>>
  /\ UNCHANGED <<vpn, clients, returned, permits, lookups, wire, heard>>

(* docker run ... python3 -m app.ping_worker, in a thread.                 *)
Launch(c) ==
  /\ stage[c] = "thread"
  /\ Cardinality(clients) < MaxThreads
  /\ stage' = [stage EXCEPT ![c] = "waiting"]
  /\ engine' = [engine EXCEPT ![c] = "on"]
  /\ clients' = clients \cup {c}
  /\ Engaged(c)
  /\ UNCHANGED <<vpn, returned, noUdp, permits, lookups, wire, heard>>

PingsOver(c) == engine[c] = "on" /\ \A p \in Of(c) : ping[p] \in Verdicts

(* Faulty variant: gather raises what one ping raised.                     *)
CleanOrNothing(p) ==
  IF \E q \in Of(p[1]) : ping[q] = "raised" THEN "down" ELSE ping[p]

(* _ping_all_inprocess: an exception of one ping is a DOWN of its tracker. *)
Clean(p) == IF ping[p] = "raised" THEN "down" ELSE ping[p]

(* gather is complete: in-process the caller has its list; a container     *)
(* prints it and stops, for a client that may be gone.                     *)
Return(c) ==
  /\ PingsOver(c)
  /\ engine' = [engine EXCEPT ![c] = "over"]
  /\ IF stage[c] = "waiting"
     THEN /\ stage' = [stage EXCEPT ![c] = "done"]
          /\ returned' = [p \in Pings |-> IF p[1] = c THEN Clean(p) ELSE returned[p]]
     ELSE UNCHANGED <<stage, returned>>
  /\ clients' = clients \ {c}
  /\ UNCHANGED <<vpn, local>>

(* The client ends without a result: its 300 seconds are up while the      *)
(* container goes on, or the container's process is gone, its pings and    *)
(* threads with it, or it printed nothing usable.                          *)
ContainerFails(c) ==
  /\ c \in clients
  /\ clients' = clients \ {c}
  /\ IF stage[c] = "waiting"
     THEN /\ stage' = [stage EXCEPT ![c] = "done"]
          /\ returned' = [p \in Pings |-> IF p[1] = c THEN "down" ELSE returned[p]]
     ELSE UNCHANGED <<stage, returned>>
  /\ \/ /\ engine' = [engine EXCEPT ![c] = "killed"]
        /\ ping' = [p \in Pings |-> IF p[1] = c /\ ping[p] \notin Verdicts THEN "gone" ELSE ping[p]]
        /\ wire' = {m \in wire : m.ping[1] # c}
        /\ lookups' = {p \in lookups : p[1] # c}
     \/ UNCHANGED <<engine, ping, wire, lookups>>
  /\ UNCHANGED <<vpn, permits, noUdp, heard>>

(* The run is aborted while it awaits the call.  A thread that waits for a *)
(* container is not interrupted: its caller goes at once.  In-process,     *)
(* gather cancels the pings that have not ended, and waits for them.       *)
Cancel(c) ==
  /\ IF vpn
     THEN /\ stage[c] \in {"thread", "waiting"}
          /\ stage' = [stage EXCEPT ![c] = "cut"]
          /\ UNCHANGED engine
     ELSE /\ stage[c] = "waiting" /\ engine[c] = "on"
          /\ engine' = [engine EXCEPT ![c] = "unwinding"]
          /\ UNCHANGED stage
  /\ UNCHANGED <<vpn, clients, returned, local>>

(* CancelledError at the await a ping is suspended in: in the queue of the *)
(* semaphore, or inside, past every `except Exception`, out of the request *)
(* or socket and the semaphore.  The thread of a lookup goes on.           *)
Unwind(p) ==
  /\ engine[p[1]] = "unwinding"
  /\ \/ ping[p] = "queued" /\ Pass(p, "gone") /\ UNCHANGED wire
     \/ ping[p] \in Inside /\ End(p, "gone")
  /\ Unmoved /\ UNCHANGED <<noUdp, lookups, heard>>

(* Faulty variant: the caller does not wait for the cancelled pings.       *)
CutAtOnce(c) ==
  /\ engine[c] = "unwinding"
  /\ engine' = [engine EXCEPT ![c] = "over"]
  /\ stage' = [stage EXCEPT ![c] = "cut"]
  /\ UNCHANGED <<vpn, clients, returned, local>>

(* gather raises CancelledError when the last of its pings has ended.      *)
Cut(c) ==
  /\ engine[c] = "unwinding"
  /\ \A p \in Of(c) : ping[p] \in Ended
  /\ engine' = [engine EXCEPT ![c] = "over"]
  /\ stage' = [stage EXCEPT ![c] = "cut"]
  /\ UNCHANGED <<vpn, clients, returned, local>>

-------------------------------------------------------------------------------

Network(p) ==
  \/ Respond(p)
  \/ \E kind \in {"answer", "stray"} : Emit(p, kind)

(* What goes on by itself: every wait but a lookup's has a timeout, and a  *)
(* resolver gives up by itself.                                            *)
Proceed(p) ==
  Enter(p) \/ RequestFails(p) \/ LookUp(p) \/ Resolved(p) \/ Send(p) \/ GiveUp(p)
  \/ Unwind(p)

Next ==
  \/ \E p \in Pings : Proceed(p) \/ ResolvedLate(p) \/ Network(p)
  \/ \E m \in wire : Receive(m)
  \/ \E c \in Calls : \/ Call(c) \/ Launch(c) \/ Return(c) \/ ContainerFails(c)
                     \/ Cancel(c) \/ Cut(c)

Spec == Init /\ [][Next]_vars

(* A container ends its pings whoever waits for it, subprocess.run ends    *)
(* its wait for a container that hangs, and the event loop runs the tasks  *)
(* it cancelled.                                                           *)
Fairness ==
  /\ \A p \in Pings : WF_vars(Proceed(p)) /\ WF_vars(ResolvedLate(p))
  /\ \A c \in Calls : WF_vars(Launch(c)) /\ WF_vars(Return(c)) /\ WF_vars(ContainerFails(c))
                    /\ WF_vars(Cut(c))

FairSpec == Spec /\ Fairness

-------------------------------------------------------------------------------
(* Properties *)

(* Whatever was lost, stray, late or cancelled, a tracker only counts as   *)
(* UP when it answered this very ping.                                     *)
UpMeansAnswered == \A p \in Pings : returned[p] = "up" => p \in heard

(* A URL that makes a ping raise costs no other tracker its verdict: in    *)
(* what a call returns, each has its own, unless a container failed.       *)
OwnVerdicts ==
  \A p \in Pings :
    ~vpn /\ stage[p[1]] = "done" =>
      /\ returned[p] \in {"up", "down", "skipped"}
      /\ returned[p] = "skipped" <=> Scheme[p[2]] = "udp" /\ noUdp[p[1]]
      /\ ping[p] = "up" => returned[p] = "up"

(* The semaphore bounds the sockets of a call, and no way a ping can end,  *)
(* a cancellation at any of its awaits among them, loses a permit or gives *)
(* one back twice.                                                         *)
PermitsKept ==
  \A c \in Calls :
    engine[c] # "killed" => permits[c] + Cardinality(InsideOf(c)) = MaxConcurrency

(* When an in-process caller has its list or its cancellation, no ping of  *)
(* the call waits for a permit, holds one or has a socket a datagram can   *)
(* still reach.  What an abort may leave at work are threads that look up  *)
(* host names for pings it cancelled; a call that returned leaves none.    *)
NothingLeft ==
  \A c \in Calls :
    ~vpn /\ stage[c] \in {"done", "cut"} =>
      /\ permits[c] = MaxConcurrency
      /\ \A p \in Of(c) :
           /\ ping[p] \in Ended
           /\ p \in lookups => stage[c] = "cut" /\ ping[p] = "gone"
           /\ \A m \in wire : m.ping # p

(* Every call returns or is cut short, whatever shares its threads, and a  *)
(* container stops, also when its run was aborted or did not wait for it   *)
(* to the end.                                                             *)
CallReturns ==
  \A c \in Calls : stage[c] \in {"thread", "waiting"} ~> stage[c] \in {"done", "cut"}

EngineStops ==
  \A c \in Calls : engine[c] \in {"on", "unwinding"} ~> engine[c] \in {"over", "killed"}
===============================================================================
