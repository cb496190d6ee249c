------------------------------ MODULE PingProofs -------------------------------
(***************************************************************************)
(* For any trackers, calls, permits and threads: a call of ping_all keeps  *)
(* its permits, leaves no ping behind in its process, and gives each       *)
(* tracker its own verdict, which is UP only for one that answered.        *)
(***************************************************************************)
EXTENDS Ping, FiniteSetTheorems, TLAPS

USE PingAssumption

-------------------------------------------------------------------------------
(* The inductive invariant *)

(* A call's pings are new before its engine runs, and settled or cancelled *)
(* after it.                                                               *)
Engines ==
  \A p \in Pings :
    /\ engine[p[1]] = "off" => ping[p] = "new"
    /\ engine[p[1]] = "on" => ping[p] \notin {"new", "gone"}
    /\ engine[p[1]] = "unwinding" => ping[p] # "new"
    /\ engine[p[1]] \in {"over", "killed"} => ping[p] \in Ended

(* In-process, the engine is the caller's own await.                       *)
Callers ==
  \A c \in Calls :
    /\ stage[c] \in {"idle", "thread"} => engine[c] = "off"
    /\ c \in clients => vpn /\ engine[c] = "on"
    /\ vpn => engine[c] # "unwinding"
    /\ ~vpn => /\ engine[c] # "killed" /\ stage[c] # "thread"
               /\ stage[c] = "waiting" <=> engine[c] \in {"on", "unwinding"}
               /\ stage[c] \in {"done", "cut"} <=> engine[c] = "over"

(* What a ping is at says what it may end as.                              *)
Routes ==
  \A p \in Pings :
    /\ ping[p] = "skipped" => Scheme[p[2]] = "udp" /\ noUdp[p[1]]
    /\ ping[p] \in Inside \cup (Verdicts \ {"skipped"}) =>
         ~(Scheme[p[2]] = "udp" /\ noUdp[p[1]])

(* Datagrams go to pings that sent, threads look up hosts of pings that    *)
(* wait for them or were cancelled.                                        *)
Answers ==
  /\ \A m \in wire : /\ ping[m.ping] = "sent"
                     /\ m.kind = "answer" => m.ping \in heard
  /\ \A p \in Pings : ping[p] = "up" => p \in heard
  /\ \A p \in lookups : ping[p] \in {"lookup", "gone"}

(* A call only returns with all its verdicts.                              *)
Settled ==
  \A p \in Pings : ~vpn /\ stage[p[1]] = "done" => ping[p] \in Verdicts

PingInv ==
  /\ TypeOK
  /\ Engines /\ Callers /\ Routes /\ Answers /\ Settled
  /\ PermitsKept /\ UpMeansAnswered /\ OwnVerdicts

LEMMA Pairs == \A p \in Pings : p[1] \in Calls /\ p[2] \in Urls
  BY DEF Pings

LEMMA InsideFinite ==
  \A c \in Calls : IsFiniteSet(InsideOf(c)) /\ Cardinality(InsideOf(c)) \in Nat
  <1>1. IsFiniteSet(Calls \X Urls)
    BY FS_Product
  <1>2. \A c \in Calls : InsideOf(c) \subseteq Calls \X Urls
    BY DEF InsideOf, Of, Pings
  <1> QED
    BY <1>1, <1>2, FS_Subset, FS_CardinalityType

-------------------------------------------------------------------------------
(* One ping moves *)

LEMMA InsideMoves ==
  ASSUME TypeOK, NEW p \in Pings, NEW label, ping' = [ping EXCEPT ![p] = label]
  PROVE  /\ \A c \in Calls \ {p[1]} : InsideOf(c)' = InsideOf(c)
         /\ InsideOf(p[1])' = IF label \in Inside THEN InsideOf(p[1]) \cup {p}
                              ELSE InsideOf(p[1]) \ {p}
         /\ p \in InsideOf(p[1]) <=> ping[p] \in Inside
  <1>1. \A q \in Pings : ping'[q] = IF q = p THEN label ELSE ping[q]
    BY DEF TypeOK
  <1>2. \A c \in Calls \ {p[1]} : InsideOf(c)' = InsideOf(c)
    BY <1>1 DEF InsideOf, Of
  <1>3. InsideOf(p[1])' = IF label \in Inside THEN InsideOf(p[1]) \cup {p}
                          ELSE InsideOf(p[1]) \ {p}
    BY <1>1 DEF InsideOf, Of
  <1>4. p \in InsideOf(p[1]) <=> ping[p] \in Inside
    BY DEF InsideOf, Of
  <1> QED
    BY <1>2, <1>3, <1>4

(* A ping moves among labels that hold a permit, or among those that do    *)
(* not.                                                                    *)
LEMMA SameInside ==
  ASSUME TypeOK, PermitsKept, NEW p \in Pings, NEW label,
         ping' = [ping EXCEPT ![p] = label], label \in Inside <=> ping[p] \in Inside,
         permits' = permits, engine' = engine
  PROVE  PermitsKept'
  <1>1. InsideOf(p[1])' = InsideOf(p[1])
    <2> DEFINE S == InsideOf(p[1])
               T == InsideOf(p[1])'
    <2>1. T = (IF label \in Inside THEN S \cup {p} ELSE S \ {p}) /\ (p \in S <=> label \in Inside)
      BY InsideMoves
    <2> HIDE DEF S, T
    <2>2. T = S
      BY <2>1
    <2> QED
      BY <2>2 DEF S, T
  <1>2. \A c \in Calls : InsideOf(c)' = InsideOf(c)
    BY <1>1, InsideMoves
  <1> QED
    BY <1>2 DEF PermitsKept

LEMMA TakeKeeps ==
  ASSUME TypeOK, PermitsKept, NEW p \in Pings, NEW label \in Inside, Take(p, label),
         ping[p] \notin Inside, permits[p[1]] > 0, engine' = engine
  PROVE  PermitsKept' /\ permits' \in [Calls -> 0..MaxConcurrency]
  <1>1. p[1] \in Calls
    BY Pairs
  <1>2. InsideOf(p[1])' = InsideOf(p[1]) \cup {p} /\ p \notin InsideOf(p[1])
    BY InsideMoves DEF Take, Goto
  <1>3. \A c \in Calls \ {p[1]} : InsideOf(c)' = InsideOf(c)
    BY InsideMoves DEF Take, Goto
  <1>4. Cardinality(InsideOf(p[1])') = Cardinality(InsideOf(p[1])) + 1
    <2> DEFINE S == InsideOf(p[1])
    <2>1. IsFiniteSet(S)
      BY <1>1, InsideFinite
    <2> HIDE DEF S
    <2>2. p \notin S => Cardinality(S \cup {p}) = Cardinality(S) + 1
      BY <2>1, FS_AddElement
    <2> QED
      BY <1>2, <2>2 DEF S
  <1>5. permits' = [permits EXCEPT ![p[1]] = permits[p[1]] - 1]
        /\ permits[p[1]] \in 0..MaxConcurrency /\ MaxConcurrency \in Nat
    BY <1>1 DEF Take, TypeOK
  <1>6. permits' \in [Calls -> 0..MaxConcurrency]
    BY <1>1, <1>5 DEF TypeOK
  <1>7. \A c \in Calls : permits'[c] = IF c = p[1] THEN permits[c] - 1 ELSE permits[c]
    BY <1>1, <1>5 DEF TypeOK
  <1> QED
    BY <1>1, <1>3, <1>4, <1>5, <1>6, <1>7, InsideFinite DEF PermitsKept

LEMMA EndKeeps ==
  ASSUME TypeOK, PermitsKept, NEW p \in Pings, NEW verdict \in Ended,
         End(p, verdict), ping[p] \in Inside, engine' = engine, engine[p[1]] # "killed"
  PROVE  PermitsKept' /\ permits' \in [Calls -> 0..MaxConcurrency]
  <1>1. p[1] \in Calls
    BY Pairs
  <1>0. verdict \notin Inside
    BY DEF Ended, Verdicts, Inside
  <1>2. InsideOf(p[1])' = InsideOf(p[1]) \ {p} /\ p \in InsideOf(p[1])
    BY <1>0, InsideMoves DEF End, Goto
  <1>3. \A c \in Calls \ {p[1]} : InsideOf(c)' = InsideOf(c)
    BY InsideMoves DEF End, Goto
  <1>4. /\ Cardinality(InsideOf(p[1])') = Cardinality(InsideOf(p[1])) - 1
        /\ Cardinality(InsideOf(p[1])') \in Nat
    <2> DEFINE S == InsideOf(p[1])
    <2>1. IsFiniteSet(S)
      BY <1>1, InsideFinite
    <2> HIDE DEF S
    <2>2. p \in S => Cardinality(S \ {p}) = Cardinality(S) - 1
      BY <2>1, FS_RemoveElement
    <2>3. Cardinality(S \ {p}) \in Nat
      BY <2>1, FS_RemoveElement, FS_CardinalityType
    <2> QED
      BY <1>2, <2>2, <2>3 DEF S
  <1>5. permits' = [permits EXCEPT ![p[1]] = permits[p[1]] + 1]
        /\ permits[p[1]] \in 0..MaxConcurrency /\ MaxConcurrency \in Nat
    BY <1>1 DEF End, TypeOK
  <1>6. permits[p[1]] + Cardinality(InsideOf(p[1])) = MaxConcurrency
    BY <1>1 DEF PermitsKept
  <1>7. permits[p[1]] + 1 <= MaxConcurrency
    BY <1>1, <1>4, <1>5, <1>6, InsideFinite
  <1>8. permits' \in [Calls -> 0..MaxConcurrency]
    BY <1>1, <1>5, <1>7 DEF TypeOK
  <1>9. \A c \in Calls : permits'[c] = IF c = p[1] THEN permits[c] + 1 ELSE permits[c]
    BY <1>1, <1>5 DEF TypeOK
  <1> QED
    BY <1>1, <1>3, <1>4, <1>5, <1>8, <1>9, InsideFinite DEF PermitsKept

Labels == {"new", "queued"} \cup Inside \cup Ended

Engine == {"off", "on", "unwinding", "over", "killed"}

(* What a step of the ping p must show; everything of other pings stays.   *)
Moves(p, label) ==
  /\ engine[p[1]] = IF label = "gone" THEN "unwinding" ELSE "on"
  /\ label \in Labels \ {"new"}
  /\ ping' = [ping EXCEPT ![p] = label]
  /\ PermitsKept' /\ permits' \in [Calls -> 0..MaxConcurrency]
  /\ lookups' \subseteq Pings /\ wire' \subseteq Datagram
  /\ heard \subseteq heard' /\ heard' \subseteq Pings
  /\ Unmoved /\ noUdp' = noUdp
  /\ label = "skipped" => Scheme[p[2]] = "udp" /\ noUdp[p[1]]
  /\ label \in Inside \cup (Verdicts \ {"skipped"}) => ~(Scheme[p[2]] = "udp" /\ noUdp[p[1]])
  /\ label = "up" => p \in heard'
  /\ \A q \in lookups' : (q \in lookups /\ q # p) \/ (q = p /\ label \in {"lookup", "gone"})
  /\ \A m \in wire' : /\ (m \in wire /\ m.ping # p) \/ (m.ping = p /\ label = "sent")
                      /\ m.kind = "answer" => m.ping \in heard'

LEMMA PingMoves ==
  ASSUME PingInv, NEW p \in Pings, NEW label, Moves(p, label)
  PROVE  PingInv'
  <1> USE DEF Moves
  <1>1. /\ p[1] \in Calls
        /\ \A q \in Pings : ping'[q] = IF q = p THEN label ELSE ping[q]
    BY Pairs DEF PingInv, TypeOK
  <1>2. engine[p[1]] \in {"on", "unwinding"}
    OBVIOUS
  <1>3. TypeOK'
    <2>1. label \in {"new", "queued"} \cup Inside \cup Ended
      BY DEF Labels
    <2> QED
      BY <2>1 DEF PingInv, TypeOK, Unmoved
  <1>4. Engines' /\ Callers'
    <2>1. \A q \in Pings : q[1] = p[1] => engine[q[1]] = engine[p[1]]
      OBVIOUS
    <2> QED
      BY <1>1, <1>2, <2>1 DEF PingInv, Engines, Callers, Unmoved
  <1>5. Routes'
    BY <1>1 DEF PingInv, Routes
  <1>6. Answers'
    <2>1. ASSUME NEW m \in wire'
          PROVE  ping'[m.ping] = "sent" /\ (m.kind = "answer" => m.ping \in heard')
      <3>1. m.ping \in Pings
        BY <2>1 DEF Datagram
      <3> QED
        BY <1>1, <2>1, <3>1 DEF PingInv, Answers
    <2>2. \A q \in Pings : ping'[q] = "up" => q \in heard'
      BY <1>1 DEF PingInv, Answers
    <2>3. \A q \in lookups' : ping'[q] \in {"lookup", "gone"}
      BY <1>1 DEF PingInv, Answers
    <2> QED
      BY <2>1, <2>2, <2>3 DEF Answers
  <1>7. ~vpn => stage[p[1]] # "done"
    BY <1>1, <1>2 DEF PingInv, Callers
  <1>8. \A q \in Pings : ~vpn /\ stage[q[1]] = "done" => ping'[q] = ping[q]
    BY <1>1, <1>7
  <1>9. Settled'
    BY <1>8 DEF PingInv, Settled, Unmoved
  <1>10. OwnVerdicts' /\ UpMeansAnswered'
    BY <1>8 DEF PingInv, OwnVerdicts, UpMeansAnswered, Unmoved
  <1>11. PermitsKept'
    OBVIOUS
  <1> QED
    BY <1>3, <1>4, <1>5, <1>6, <1>9, <1>10, <1>11 DEF PingInv

(* Threads at work for other pings, or for one that was cancelled.         *)
Threads(p, label) ==
  \A q \in lookups' : (q \in lookups /\ q # p) \/ (q = p /\ label \in {"lookup", "gone"})

(* Ending a ping.                                                          *)
LEMMA PingEnds ==
  ASSUME PingInv, NEW p \in Pings, NEW verdict \in {"up", "down", "gone"}, ping[p] \in Inside,
         engine[p[1]] = IF verdict = "gone" THEN "unwinding" ELSE "on",
         End(p, verdict), Unmoved, noUdp' = noUdp,
         lookups' \subseteq Pings, Threads(p, verdict),
         heard \subseteq heard', heard' \subseteq Pings,
         verdict = "up" => p \in heard'
  PROVE  PingInv'
  <1>1. PermitsKept' /\ permits' \in [Calls -> 0..MaxConcurrency]
    <2>1. engine' = engine /\ engine[p[1]] # "killed" /\ verdict \in Ended
      BY DEF Unmoved, Ended, Verdicts
    <2> QED
      BY <2>1, EndKeeps DEF PingInv
  <1>2. wire' \subseteq Datagram
    BY DEF End, PingInv, TypeOK
  <1>3. \A m \in wire' : m \in wire /\ m.ping # p /\ (m.kind = "answer" => m.ping \in heard')
    BY DEF End, PingInv, Answers
  <1>4. verdict \in Labels \ {"new"} /\ verdict # "skipped" /\ verdict # "sent"
    BY DEF Labels, Ended, Verdicts
  <1>5. ~(Scheme[p[2]] = "udp" /\ noUdp[p[1]])
    BY DEF PingInv, Routes
  <1>6. ping' = [ping EXCEPT ![p] = verdict]
    BY DEF End, Goto
  <1>7. Moves(p, verdict)
    BY <1>1, <1>2, <1>3, <1>4, <1>5, <1>6 DEF Moves, Threads
  <1> QED
    BY <1>7, PingMoves

(* A ping that holds a permit goes on with it.                             *)
Stays(p, label) ==
  /\ engine[p[1]] = "on" /\ ping[p] \in Inside
  /\ label \in {"lookup", "open", "sent"}
  /\ Goto(p, label)
  /\ Unmoved /\ UNCHANGED <<noUdp, permits>>
  /\ lookups' \subseteq Pings /\ Threads(p, label)
  /\ wire' \subseteq Datagram
  /\ heard \subseteq heard' /\ heard' \subseteq Pings
  /\ \A m \in wire' : /\ (m \in wire /\ m.ping # p) \/ (m.ping = p /\ label = "sent")
                      /\ m.kind = "answer" => m.ping \in heard'

LEMMA PingStays ==
  ASSUME PingInv, NEW p \in Pings, NEW label, Stays(p, label)
  PROVE  PingInv'
  <1>1. /\ label \in Labels \ {"new"} /\ label # "skipped" /\ label # "up" /\ label # "gone"
        /\ label \in Inside
    BY DEF Labels, Inside, Stays
  <1>2. ping' = [ping EXCEPT ![p] = label] /\ permits' = permits /\ ping[p] \in Inside
        /\ engine' = engine
    BY DEF Goto, Stays, Unmoved
  <1>3. PermitsKept'
    BY <1>1, <1>2, SameInside DEF PingInv
  <1>4. permits' \in [Calls -> 0..MaxConcurrency]
    BY <1>2 DEF PingInv, TypeOK
  <1>5. ~(Scheme[p[2]] = "udp" /\ noUdp[p[1]])
    BY <1>2 DEF PingInv, Routes
  <1>6. Moves(p, label)
    BY <1>1, <1>2, <1>3, <1>4, <1>5 DEF Moves, Stays, Threads
  <1> QED
    BY <1>6, PingMoves

(* No datagram is under way to a ping that has not sent, and no thread     *)
(* looks up a host for one that did not ask.                               *)
LEMMA OnlyToSent ==
  ASSUME PingInv, NEW p \in Pings, ping[p] # "sent"
  PROVE  \A m \in wire : m.ping # p /\ (m.kind = "answer" => m.ping \in heard)
  BY DEF PingInv, Answers

LEMMA OnlyLookups ==
  ASSUME PingInv, NEW p \in Pings, ping[p] \notin {"lookup", "gone"}, lookups' = lookups
  PROVE  \A label : Threads(p, label)
  BY DEF PingInv, Answers, Threads

LEMMA Types == PingInv => /\ lookups \subseteq Pings /\ wire \subseteq Datagram
                          /\ heard \subseteq Pings
                          /\ permits \in [Calls -> 0..MaxConcurrency]
  BY DEF PingInv, TypeOK

LEMMA EnterKeeps == ASSUME PingInv, NEW p \in Pings, Enter(p) PROVE PingInv'
  <1>1. /\ ping[p] = "queued" /\ permits[p[1]] > 0 /\ ping[p] \notin Inside
        /\ engine[p[1]] = "on" /\ engine' = engine
        /\ Unmoved /\ UNCHANGED <<noUdp, lookups, wire, heard>>
    BY DEF Enter, At, Inside, Unmoved
  <1>2. \A m \in wire' : m \in wire /\ m.ping # p /\ (m.kind = "answer" => m.ping \in heard')
    BY <1>1, OnlyToSent
  <1>3. p[2] \in Urls /\ Scheme[p[2]] \in {"http", "udp", "other", "none"}
    BY Pairs
  <1>t. \A label : Threads(p, label)
    BY <1>1, OnlyLookups
  <1>4. ASSUME NEW label \in {"request", "resolve"}, Take(p, label),
               ~(Scheme[p[2]] = "udp" /\ noUdp[p[1]])
        PROVE  PingInv'
    <2>1. label \in Inside /\ label \in Labels \ {"new"} /\ label \notin Ended
      BY DEF Labels, Inside, Ended, Verdicts
    <2>2. PermitsKept' /\ permits' \in [Calls -> 0..MaxConcurrency]
      BY <1>1, <1>4, <2>1, TakeKeeps DEF PingInv
    <2>3. ping' = [ping EXCEPT ![p] = label]
      BY <1>4 DEF Take, Goto
    <2>4. Moves(p, label)
      BY <1>1, <1>2, <1>4, <1>t, <2>1, <2>2, <2>3, Types DEF Moves, Ended, Verdicts, Threads
    <2> QED
      BY <2>4, PingMoves
  <1>5. ASSUME NEW verdict \in {"raised", "skipped", "down"}, Pass(p, verdict),
               verdict = "skipped" <=> Scheme[p[2]] = "udp" /\ noUdp[p[1]]
        PROVE  PingInv'
    <2>1. verdict \notin Inside /\ verdict \in Labels \ {"new"} /\ verdict \notin {"up", "gone"}
      BY DEF Labels, Inside, Ended, Verdicts
    <2>2. ping' = [ping EXCEPT ![p] = verdict] /\ permits' = permits
      BY <1>5 DEF Pass, Goto
    <2>3. PermitsKept'
      BY <1>1, <2>1, <2>2, SameInside DEF PingInv
    <2>4. permits' \in [Calls -> 0..MaxConcurrency]
      BY <2>2, Types
    <2>5. Moves(p, verdict)
      BY <1>1, <1>2, <1>5, <1>t, <2>1, <2>2, <2>3, <2>4, Types DEF Moves, Threads
    <2> QED
      BY <2>5, PingMoves
  <1>6. CASE Scheme[p[2]] = "http" /\ Take(p, "request")
    BY <1>4, <1>6
  <1>7. CASE Scheme[p[2]] = "udp" /\ ~noUdp[p[1]] /\ Take(p, "resolve")
    BY <1>4, <1>7
  <1>8. CASE Scheme[p[2]] = "udp" /\ ~noUdp[p[1]] /\ Pass(p, "raised")
    BY <1>5, <1>8
  <1>9. CASE Scheme[p[2]] = "udp" /\ noUdp[p[1]] /\ Pass(p, "skipped")
    BY <1>5, <1>9
  <1>10. CASE Scheme[p[2]] = "other" /\ Pass(p, "down")
    BY <1>5, <1>10
  <1>11. CASE Scheme[p[2]] = "none" /\ Pass(p, "raised")
    BY <1>5, <1>11
  <1> QED
    BY <1>6, <1>7, <1>8, <1>9, <1>10, <1>11 DEF Enter

LEMMA UnwindKeeps == ASSUME PingInv, NEW p \in Pings, Unwind(p) PROVE PingInv'
  <1>1. /\ engine[p[1]] = "unwinding" /\ engine' = engine
        /\ Unmoved /\ UNCHANGED <<noUdp, lookups, heard>>
    BY DEF Unwind, Unmoved
  <1>t. Threads(p, "gone") /\ lookups' \subseteq Pings
    BY <1>1, Types DEF Threads
  <1>2. CASE ping[p] \in Inside /\ End(p, "gone")
    BY <1>1, <1>2, <1>t, PingEnds, Types
  <1>3. CASE ping[p] = "queued" /\ Pass(p, "gone") /\ UNCHANGED wire
    <2>1. "gone" \notin Inside \cup Verdicts /\ "gone" \in Labels \ {"new"}
          /\ ping[p] \notin Inside
      BY <1>3 DEF Labels, Inside, Ended, Verdicts
    <2>2. ping' = [ping EXCEPT ![p] = "gone"] /\ permits' = permits
      BY <1>3 DEF Pass, Goto
    <2>3. PermitsKept'
      BY <1>1, <2>1, <2>2, SameInside DEF PingInv
    <2>4. permits' \in [Calls -> 0..MaxConcurrency]
      BY <2>2, Types
    <2>5. \A m \in wire' : m \in wire /\ m.ping # p /\ (m.kind = "answer" => m.ping \in heard')
      BY <1>1, <1>3, OnlyToSent
    <2>6. Moves(p, "gone")
      BY <1>1, <1>3, <1>t, <2>1, <2>2, <2>3, <2>4, <2>5, Types DEF Moves, Threads
    <2> QED
      BY <2>6, PingMoves
  <1> QED
    BY <1>2, <1>3 DEF Unwind

LEMMA ProceedKeeps ==
  ASSUME PingInv, NEW p \in Pings, Proceed(p) \/ ResolvedLate(p) \/ Network(p)
  PROVE  PingInv'
  <1>1. CASE RequestFails(p) \/ GiveUp(p)
    <2>1. /\ ping[p] \in Inside /\ ping[p] \notin {"lookup", "gone"} /\ engine[p[1]] = "on"
          /\ End(p, "down") /\ Unmoved /\ UNCHANGED <<noUdp, lookups, heard>>
      BY <1>1 DEF RequestFails, GiveUp, At, Inside
    <2> QED
      BY <2>1, OnlyLookups, PingEnds, Types
  <1>2. CASE Respond(p)
    <2>1. /\ ping[p] \in Inside /\ ping[p] \notin {"lookup", "gone"} /\ engine[p[1]] = "on"
          /\ End(p, "up") /\ Unmoved /\ UNCHANGED <<noUdp, lookups>>
          /\ heard' = heard \cup {p}
      BY <1>2 DEF Respond, At, Inside
    <2> QED
      BY <2>1, OnlyLookups, PingEnds, Types
  <1>3. CASE LookUp(p)
    <2>0. ping[p] = "resolve" /\ engine[p[1]] = "on" /\ lookups' = lookups \cup {p}
          /\ Goto(p, "lookup") /\ Unmoved /\ UNCHANGED <<noUdp, permits, wire, heard>>
      BY <1>3 DEF LookUp, At
    <2>1. \A m \in wire' : m \in wire /\ m.ping # p /\ (m.kind = "answer" => m.ping \in heard')
      BY <2>0, OnlyToSent
    <2>2. Threads(p, "lookup")
      BY <2>0 DEF Threads
    <2>3. Stays(p, "lookup")
      BY <2>0, <2>1, <2>2, Types DEF Stays, Inside
    <2> QED
      BY <2>3, PingStays
  <1>4. CASE Resolved(p)
    <2>0. ping[p] = "lookup" /\ engine[p[1]] = "on" /\ lookups' = lookups \ {p}
          /\ heard' = heard /\ Unmoved /\ noUdp' = noUdp /\ ping[p] \in Inside
      BY <1>4 DEF Resolved, At, Inside
    <2>1. \A m \in wire : m.ping # p /\ (m.kind = "answer" => m.ping \in heard)
      BY <2>0, OnlyToSent
    <2>2. lookups' \subseteq Pings /\ \A label : Threads(p, label)
      BY <2>0, Types DEF Threads
    <2>3. CASE End(p, "down")
      BY <2>0, <2>2, <2>3, PingEnds, Types
    <2>4. CASE Goto(p, "open") /\ UNCHANGED <<permits, wire>>
      <3>1. Stays(p, "open")
        BY <2>0, <2>1, <2>2, <2>4, Types DEF Stays
      <3> QED
        BY <3>1, PingStays
    <2> QED
      BY <1>4, <2>3, <2>4 DEF Resolved
  <1>5. CASE Send(p)
    <2>0. ping[p] = "open" /\ engine[p[1]] = "on" /\ Goto(p, "sent")
          /\ Unmoved /\ UNCHANGED <<noUdp, permits, lookups, wire, heard>>
      BY <1>5 DEF Send, At
    <2>1. \A m \in wire' : m \in wire /\ m.ping # p /\ (m.kind = "answer" => m.ping \in heard')
      BY <2>0, OnlyToSent
    <2>2. Threads(p, "sent")
      BY <2>0, OnlyLookups
    <2>3. Stays(p, "sent")
      BY <2>0, <2>1, <2>2, Types DEF Stays, Inside
    <2> QED
      BY <2>3, PingStays
  <1>6. CASE ResolvedLate(p)
    <2>0. lookups' \subseteq lookups
          /\ UNCHANGED <<vpn, stage, engine, clients, returned, noUdp, permits, ping, wire, heard>>
      BY <1>6 DEF ResolvedLate, Unmoved
    <2>1. TypeOK'
      BY <2>0 DEF PingInv, TypeOK
    <2>2. Engines' /\ Callers' /\ Routes' /\ Answers' /\ Settled'
      BY <2>0 DEF PingInv, Engines, Callers, Routes, Answers, Settled
    <2>3. PermitsKept' /\ UpMeansAnswered' /\ OwnVerdicts'
      BY <2>0 DEF PingInv, PermitsKept, UpMeansAnswered, OwnVerdicts, InsideOf
    <2> QED
      BY <2>1, <2>2, <2>3 DEF PingInv
  <1>7. ASSUME NEW kind \in {"answer", "stray"}, Emit(p, kind) PROVE PingInv'
    <2> DEFINE new == [ping |-> p, kind |-> kind]
    <2>1. new \in Datagram /\ new.ping = p /\ new.kind = kind
      BY DEF Datagram
    <2>2. wire' = wire \cup {new}
      BY <1>7 DEF Emit
    <2>3. heard \subseteq heard' /\ heard' \subseteq Pings /\ (kind = "answer" => p \in heard')
      BY <1>7, Types DEF Emit
    <2> HIDE DEF new
    <2>4. \A m \in wire' : /\ m \in Datagram
                           /\ (m \in wire /\ m.ping # p) \/ m.ping = p
                           /\ m.kind = "answer" => m.ping \in heard'
      BY <2>1, <2>2, <2>3, Types DEF PingInv, Answers
    <2>5. ping[p] = "sent" /\ engine[p[1]] = "on" /\ Goto(p, "sent")
      BY <1>7 DEF Emit, At, Goto, PingInv, TypeOK
    <2>6. Unmoved /\ UNCHANGED <<noUdp, permits, lookups>>
      BY <1>7 DEF Emit
    <2>7. Threads(p, "sent")
      BY <2>5, <2>6, OnlyLookups
    <2>8. Stays(p, "sent")
      BY <2>3, <2>4, <2>5, <2>6, <2>7, Types DEF Stays, Inside
    <2> QED
      BY <2>8, PingStays
  <1> QED
    BY <1>1, <1>2, <1>3, <1>4, <1>5, <1>6, <1>7, EnterKeeps, UnwindKeeps DEF Proceed, Network

LEMMA ReceiveKeeps == ASSUME PingInv, NEW m \in wire, Receive(m) PROVE PingInv'
  <1>1. m.ping \in Pings /\ ping[m.ping] = "sent" /\ ping[m.ping] \in Inside
        /\ engine[m.ping[1]] = "on" /\ (m.kind = "answer" => m.ping \in heard)
    BY Types DEF Datagram, PingInv, Answers, Inside, Receive, At
  <1>2. PICK verdict \in {"up", "down"} :
          End(m.ping, verdict) /\ (verdict = "up" => m.kind = "answer")
    BY DEF Receive
  <1>3. Unmoved /\ UNCHANGED <<noUdp, lookups, heard>>
    BY DEF Receive
  <1>4. \A label : Threads(m.ping, label)
    BY <1>1, <1>3, OnlyLookups
  <1> QED
    BY <1>1, <1>2, <1>3, <1>4, PingEnds, Types

-------------------------------------------------------------------------------
(* A call moves *)

(* No ping takes or frees a permit.                                        *)
LEMMA SameHolders ==
  ASSUME PermitsKept, permits' = permits,
         \A c \in Calls : engine'[c] # "killed" => engine[c] # "killed",
         \A p \in Pings : engine'[p[1]] # "killed" =>
           (ping'[p] \in Inside <=> ping[p] \in Inside)
  PROVE  PermitsKept'
  <1>1. \A c \in Calls : engine'[c] # "killed" => InsideOf(c)' = InsideOf(c)
    BY Pairs DEF InsideOf, Of
  <1> QED
    BY <1>1 DEF PermitsKept

(* What a call's step leaves of its pings.                                 *)
LEMMA SameWires ==
  ASSUME PingInv, UNCHANGED <<ping, lookups, wire, heard, noUdp>>
  PROVE  Routes' /\ Answers'
  BY DEF PingInv, Routes, Answers

LEMMA EngagedKeeps ==
  ASSUME PingInv, NEW c \in Calls, engine[c] = "off", Engaged(c), permits' = permits,
         engine' = [engine EXCEPT ![c] = "on"], UNCHANGED <<lookups, wire, heard>>,
         \A d \in Calls \ {c} : noUdp'[d] = noUdp[d]
  PROVE  /\ PermitsKept' /\ Routes' /\ Answers' /\ Engines'
         /\ ping' \in [Pings -> Labels]
         /\ \A p \in Pings : p[1] # c => ping'[p] = ping[p]
  <1>1. \A p \in Pings : ping'[p] = IF p[1] = c THEN "queued" ELSE ping[p]
    BY DEF Engaged
  <1>2. \A p \in Pings : p[1] = c => ping[p] = "new"
    BY DEF PingInv, Engines
  <1>3. "queued" \notin Inside \cup Verdicts /\ "new" \notin Inside \cup Verdicts
    BY DEF Inside, Verdicts
  <1>4. \A d \in Calls : engine'[d] = IF d = c THEN "on" ELSE engine[d]
    BY DEF PingInv, TypeOK
  <1>5. PermitsKept'
    <2>1. \A p \in Pings : ping'[p] \in Inside <=> ping[p] \in Inside
      BY <1>1, <1>2, <1>3
    <2>2. \A d \in Calls : engine'[d] # "killed" => engine[d] # "killed"
      BY <1>4
    <2> QED
      BY <2>1, <2>2, SameHolders DEF PingInv
  <1>6. Routes'
    BY <1>1, <1>3, Pairs DEF PingInv, Routes
  <1>7. Answers'
    <2>1. \A m \in wire : m.ping \in Pings /\ m.ping[1] # c
      BY <1>2, Types DEF PingInv, Answers, Datagram
    <2>2. \A p \in lookups : p \in Pings /\ p[1] # c
      BY <1>2, Types DEF PingInv, Answers
    <2> QED
      BY <1>1, <2>1, <2>2 DEF PingInv, Answers
  <1>8. Engines'
    BY <1>1, <1>4, Pairs DEF PingInv, Engines
  <1>9. ping' \in [Pings -> Labels]
    BY DEF Engaged, PingInv, TypeOK, Labels
  <1> QED
    BY <1>1, <1>5, <1>6, <1>7, <1>8, <1>9

LEMMA CallKeeps == ASSUME PingInv, NEW c \in Calls, Call(c) PROVE PingInv'
  <1>1. engine[c] = "off" /\ stage[c] = "idle"
        /\ UNCHANGED <<vpn, clients, returned, permits, lookups, wire, heard>>
    BY DEF Call, PingInv, Callers
  <1>2. CASE UNCHANGED <<engine, noUdp, ping>>
             /\ \/ ~vpn /\ stage' = [stage EXCEPT ![c] = "failed"]
                \/ vpn /\ stage' = [stage EXCEPT ![c] = "thread"]
    <2>1. TypeOK' /\ Engines'
      BY <1>1, <1>2 DEF PingInv, TypeOK, Engines
    <2>2. \A d \in Calls : d # c => stage'[d] = stage[d]
      BY <1>2 DEF PingInv, TypeOK
    <2>3. stage'[c] = IF vpn THEN "thread" ELSE "failed"
      BY <1>2 DEF PingInv, TypeOK
    <2>4. Callers'
      BY <1>1, <1>2, <2>2, <2>3 DEF PingInv, Callers
    <2>5. Settled' /\ OwnVerdicts' /\ UpMeansAnswered'
      BY <1>1, <1>2, <2>2, <2>3, Pairs DEF PingInv, Settled, OwnVerdicts, UpMeansAnswered
    <2>6. PermitsKept'
      BY <1>1, <1>2, SameHolders DEF PingInv
    <2> QED
      BY <1>1, <1>2, <2>1, <2>4, <2>5, <2>6, SameWires DEF PingInv
  <1>3. CASE /\ ~vpn /\ stage' = [stage EXCEPT ![c] = "waiting"]
             /\ engine' = [engine EXCEPT ![c] = "on"]
             /\ \E skip \in BOOLEAN : noUdp' = [noUdp EXCEPT ![c] = skip]
             /\ Engaged(c)
    <2>1. /\ \A d \in Calls : stage'[d] = IF d = c THEN "waiting" ELSE stage[d]
          /\ \A d \in Calls : engine'[d] = IF d = c THEN "on" ELSE engine[d]
          /\ \A d \in Calls \ {c} : noUdp'[d] = noUdp[d]
      BY <1>3 DEF PingInv, TypeOK
    <2>2. /\ PermitsKept' /\ Routes' /\ Answers' /\ Engines'
          /\ ping' \in [Pings -> Labels]
          /\ \A p \in Pings : p[1] # c => ping'[p] = ping[p]
      BY <1>1, <1>3, <2>1, EngagedKeeps
    <2>3. TypeOK'
      BY <1>1, <1>3, <2>2 DEF PingInv, TypeOK, Labels
    <2>4. Callers'
      BY <1>1, <1>3, <2>1 DEF PingInv, Callers
    <2>5. Settled' /\ OwnVerdicts' /\ UpMeansAnswered'
      BY <1>1, <2>1, <2>2, Pairs DEF PingInv, Settled, OwnVerdicts, UpMeansAnswered
    <2> QED
      BY <2>2, <2>3, <2>4, <2>5 DEF PingInv
  <1> QED
    BY <1>2, <1>3 DEF Call

LEMMA LaunchKeeps == ASSUME PingInv, NEW c \in Calls, Launch(c) PROVE PingInv'
  <1>1. engine[c] = "off" /\ stage[c] = "thread" /\ vpn
        /\ UNCHANGED <<vpn, returned, noUdp, permits, lookups, wire, heard>>
    BY DEF Launch, PingInv, Callers, TypeOK
  <1>2. /\ PermitsKept' /\ Routes' /\ Answers' /\ Engines'
        /\ ping' \in [Pings -> Labels]
    BY <1>1, EngagedKeeps DEF Launch
  <1>3. TypeOK'
    BY <1>1, <1>2 DEF Launch, PingInv, TypeOK, Labels
  <1>4. /\ \A d \in Calls : stage'[d] = IF d = c THEN "waiting" ELSE stage[d]
        /\ \A d \in Calls : engine'[d] = IF d = c THEN "on" ELSE engine[d]
        /\ clients' = clients \cup {c}
    BY DEF Launch, PingInv, TypeOK
  <1>5. Callers'
    BY <1>1, <1>4 DEF PingInv, Callers
  <1>6. Settled' /\ OwnVerdicts' /\ UpMeansAnswered'
    BY <1>1 DEF PingInv, Settled, OwnVerdicts, UpMeansAnswered
  <1> QED
    BY <1>2, <1>3, <1>5, <1>6 DEF PingInv

LEMMA CleanVerdict ==
  ASSUME PingInv, NEW p \in Pings, ping[p] \in Verdicts
  PROVE  /\ Clean(p) \in {"up", "down", "skipped"}
         /\ Clean(p) = "skipped" <=> Scheme[p[2]] = "udp" /\ noUdp[p[1]]
         /\ ping[p] = "up" <=> Clean(p) = "up"
  <1>1. ping[p] \in {"up", "down", "skipped", "raised"}
    BY DEF Verdicts
  <1>2. ping[p] = "skipped" <=> Scheme[p[2]] = "udp" /\ noUdp[p[1]]
    BY <1>1 DEF PingInv, Routes, Verdicts
  <1> QED
    BY <1>1, <1>2 DEF Clean

LEMMA ReturnKeeps == ASSUME PingInv, NEW c \in Calls, Return(c) PROVE PingInv'
  <1>1. /\ PingsOver(c) /\ engine[c] = "on" /\ clients' = clients \ {c}
        /\ vpn' = vpn /\ UNCHANGED <<noUdp, permits, ping, lookups, wire, heard>>
        /\ \A d \in Calls : engine'[d] = IF d = c THEN "over" ELSE engine[d]
    BY DEF Return, PingsOver, local, PingInv, TypeOK
  <1>2. \A p \in Pings : p[1] = c => ping[p] \in Verdicts
    BY <1>1 DEF PingsOver, Of
  <1>3. /\ \A d \in Calls : d # c => stage'[d] = stage[d]
        /\ stage[c] = "waiting" => stage'[c] = "done"
        /\ stage[c] # "waiting" => stage'[c] = stage[c]
    BY DEF Return, PingInv, TypeOK
  <1>4. /\ \A p \in Pings : p[1] # c => returned'[p] = returned[p]
        /\ \A p \in Pings : p[1] = c =>
             returned'[p] = IF stage[c] = "waiting" THEN Clean(p) ELSE returned[p]
    BY DEF Return
  <1>5. TypeOK'
    <2>1. stage' \in [Calls -> {"idle", "thread", "waiting", "done", "failed", "cut"}]
      BY DEF Return, PingInv, TypeOK
    <2>2. returned' \in [Pings -> Verdicts \cup {"none"}]
      <3>1. \A p \in Pings : p[1] = c => Clean(p) \in Verdicts
        BY <1>2, CleanVerdict DEF Verdicts
      <3>2. \/ returned' = returned
            \/ returned' = [p \in Pings |-> IF p[1] = c THEN Clean(p) ELSE returned[p]]
        BY DEF Return
      <3> QED
        BY <3>1, <3>2 DEF PingInv, TypeOK
    <2>3. engine' \in [Calls -> Engine]
      BY DEF Return, PingInv, TypeOK, Engine
    <2> QED
      BY <1>1, <2>1, <2>2, <2>3 DEF PingInv, TypeOK, Engine
  <1>6. Engines'
    BY <1>1, <1>2, Pairs DEF PingInv, Engines, Ended
  <1>7. Callers'
    BY <1>1, <1>3 DEF PingInv, Callers
  <1>8. Settled'
    BY <1>1, <1>2, <1>3, Pairs DEF PingInv, Settled
  <1>9. PermitsKept'
    BY <1>1, Pairs, SameHolders DEF PingInv
  <1>10. UpMeansAnswered'
    BY <1>1, <1>2, <1>4, CleanVerdict DEF PingInv, UpMeansAnswered, Answers
  <1>11. OwnVerdicts'
    <2>1. ~vpn /\ stage'[c] = "done" => stage[c] = "waiting"
      BY <1>1, <1>3 DEF PingInv, Callers
    <2>2. ASSUME NEW p \in Pings, ~vpn, stage'[p[1]] = "done"
          PROVE  /\ returned'[p] \in {"up", "down", "skipped"}
                 /\ returned'[p] = "skipped" <=> Scheme[p[2]] = "udp" /\ noUdp[p[1]]
                 /\ ping[p] = "up" => returned'[p] = "up"
      <3>1. CASE p[1] = c
        BY <1>2, <1>4, <2>1, <2>2, <3>1, CleanVerdict
      <3>2. CASE p[1] # c
        BY <1>3, <1>4, <2>2, <3>2, Pairs DEF PingInv, OwnVerdicts
      <3> QED
        BY <3>1, <3>2
    <2> QED
      BY <1>1, <2>2 DEF OwnVerdicts
  <1> QED
    BY <1>1, <1>5, <1>6, <1>7, <1>8, <1>9, <1>10, <1>11, SameWires DEF PingInv

LEMMA ContainerFailsKeeps ==
  ASSUME PingInv, NEW c \in Calls, ContainerFails(c)
  PROVE  PingInv'
  <1>1. /\ vpn /\ UNCHANGED <<vpn, permits, noUdp, heard>> /\ clients' = clients \ {c}
        /\ engine[c] = "on" /\ stage[c] \notin {"idle", "thread"}
    BY DEF ContainerFails, PingInv, Callers, TypeOK
  <1>2. /\ stage' \in [Calls -> {"idle", "thread", "waiting", "done", "failed", "cut"}]
        /\ \A d \in Calls : d # c => stage'[d] = stage[d]
        /\ stage'[c] = stage[c] \/ stage'[c] = "done"
    BY DEF ContainerFails, PingInv, TypeOK
  <1>3. /\ returned' \in [Pings -> Verdicts \cup {"none"}]
        /\ \A p \in Pings : returned'[p] \in {returned[p], "down"}
    BY DEF ContainerFails, PingInv, TypeOK, Verdicts
  <1>4. UpMeansAnswered'
    BY <1>1, <1>3 DEF PingInv, UpMeansAnswered
  <1>5. Settled' /\ OwnVerdicts'
    BY <1>1 DEF Settled, OwnVerdicts
  <1>6. CASE /\ engine' = [engine EXCEPT ![c] = "killed"]
             /\ ping' = [p \in Pings |-> IF p[1] = c /\ ping[p] \notin Verdicts THEN "gone" ELSE ping[p]]
             /\ wire' = {m \in wire : m.ping[1] # c}
             /\ lookups' = {p \in lookups : p[1] # c}
    <2>1. \A d \in Calls : engine'[d] = IF d = c THEN "killed" ELSE engine[d]
      BY <1>6 DEF PingInv, TypeOK
    <2>2. \A p \in Pings : /\ p[1] # c => ping'[p] = ping[p]
                           /\ p[1] = c => ping'[p] \in Ended
                           /\ ping'[p] \in {"gone", ping[p]}
      BY <1>6 DEF Ended
    <2>3. "gone" \notin Inside \cup Verdicts
      BY DEF Inside, Verdicts
    <2>4. Engines'
      BY <2>1, <2>2, Pairs DEF PingInv, Engines
    <2>5. Routes'
      BY <1>1, <2>2, <2>3 DEF PingInv, Routes, Verdicts
    <2>6. Answers'
      <3>1. \A m \in wire' : m \in wire /\ m.ping \in Pings /\ ping'[m.ping] = ping[m.ping]
        BY <1>6, <2>2, Types DEF Datagram
      <3>2. \A p \in lookups' : p \in lookups /\ p \in Pings
        BY <1>6, Types
      <3> QED
        BY <1>1, <2>2, <3>1, <3>2 DEF PingInv, Answers
    <2>7. PermitsKept'
      <3>1. \A d \in Calls : engine'[d] # "killed" => engine[d] # "killed"
        BY <2>1
      <3>2. \A p \in Pings : engine'[p[1]] # "killed" => ping'[p] = ping[p]
        BY <2>1, <2>2, Pairs
      <3> QED
        BY <1>1, <3>1, <3>2, SameHolders DEF PingInv
    <2>8. TypeOK'
      <3>1. ping' \in [Pings -> Labels] /\ engine' \in [Calls -> Engine]
        BY <1>6 DEF PingInv, TypeOK, Labels, Engine, Ended
      <3>2. wire' \subseteq Datagram /\ lookups' \subseteq Pings
        BY <1>6, Types
      <3> QED
        BY <1>1, <1>2, <1>3, <3>1, <3>2 DEF PingInv, TypeOK, Labels, Engine
    <2>9. Callers'
      BY <1>1, <1>2, <2>1 DEF PingInv, Callers
    <2> QED
      BY <1>4, <1>5, <2>4, <2>5, <2>6, <2>7, <2>8, <2>9 DEF PingInv
  <1>7. CASE UNCHANGED <<engine, ping, wire, lookups>>
    <2>1. TypeOK' /\ Engines'
      BY <1>1, <1>2, <1>3, <1>7 DEF PingInv, TypeOK, Engines
    <2>2. PermitsKept'
      BY <1>1, <1>7, SameHolders DEF PingInv
    <2>3. Callers'
      BY <1>1, <1>2, <1>7 DEF PingInv, Callers
    <2> QED
      BY <1>1, <1>4, <1>5, <1>7, <2>1, <2>2, <2>3, SameWires DEF PingInv
  <1> QED
    BY <1>6, <1>7 DEF ContainerFails

LEMMA CancelKeeps == ASSUME PingInv, NEW c \in Calls, Cancel(c) PROVE PingInv'
  <1>1. UNCHANGED <<vpn, clients, returned, noUdp, permits, ping, lookups, wire, heard>>
    BY DEF Cancel, local
  <1>2. UpMeansAnswered'
    BY <1>1 DEF PingInv, UpMeansAnswered
  <1>3. CASE vpn /\ stage[c] \in {"thread", "waiting"}
             /\ stage' = [stage EXCEPT ![c] = "cut"] /\ engine' = engine
    <2>1. TypeOK' /\ Engines'
      BY <1>1, <1>3 DEF PingInv, TypeOK, Engines
    <2>2. \A d \in Calls : stage'[d] = IF d = c THEN "cut" ELSE stage[d]
      BY <1>3 DEF PingInv, TypeOK
    <2>3. Callers' /\ Settled' /\ OwnVerdicts'
      BY <1>1, <1>3, <2>2 DEF PingInv, Callers, Settled, OwnVerdicts
    <2>4. PermitsKept'
      BY <1>1, <1>3, SameHolders DEF PingInv
    <2> QED
      BY <1>1, <1>2, <2>1, <2>3, <2>4, SameWires DEF PingInv
  <1>4. CASE ~vpn /\ stage[c] = "waiting" /\ engine[c] = "on"
             /\ engine' = [engine EXCEPT ![c] = "unwinding"] /\ stage' = stage
    <2>1. \A d \in Calls : engine'[d] = IF d = c THEN "unwinding" ELSE engine[d]
      BY <1>4 DEF PingInv, TypeOK
    <2>2. TypeOK'
      BY <1>1, <1>4 DEF PingInv, TypeOK
    <2>3. Engines'
      BY <1>1, <1>4, <2>1, Pairs DEF PingInv, Engines
    <2>4. Callers'
      BY <1>1, <1>4, <2>1 DEF PingInv, Callers
    <2>5. Settled' /\ OwnVerdicts'
      BY <1>1, <1>4 DEF PingInv, Settled, OwnVerdicts
    <2>6. PermitsKept'
      BY <1>1, <1>4, <2>1, SameHolders DEF PingInv
    <2> QED
      BY <1>1, <1>2, <2>2, <2>3, <2>4, <2>5, <2>6, SameWires DEF PingInv
  <1> QED
    BY <1>3, <1>4 DEF Cancel

LEMMA CutKeeps == ASSUME PingInv, NEW c \in Calls, Cut(c) PROVE PingInv'
  <1>1. /\ UNCHANGED <<vpn, clients, returned, noUdp, permits, ping, lookups, wire, heard>>
        /\ engine[c] = "unwinding" /\ \A p \in Pings : p[1] = c => ping[p] \in Ended
    BY DEF Cut, local, Of
  <1>2. /\ \A d \in Calls : engine'[d] = IF d = c THEN "over" ELSE engine[d]
        /\ \A d \in Calls : stage'[d] = IF d = c THEN "cut" ELSE stage[d]
    BY DEF Cut, PingInv, TypeOK
  <1>3. TypeOK'
    BY <1>1 DEF Cut, PingInv, TypeOK
  <1>4. Engines'
    BY <1>1, <1>2, Pairs DEF PingInv, Engines
  <1>5. Callers'
    BY <1>1, <1>2 DEF PingInv, Callers
  <1>6. Settled' /\ OwnVerdicts' /\ UpMeansAnswered'
    BY <1>1, <1>2, Pairs DEF PingInv, Settled, OwnVerdicts, UpMeansAnswered
  <1>7. PermitsKept'
    BY <1>1, <1>2, SameHolders DEF PingInv
  <1> QED
    BY <1>1, <1>3, <1>4, <1>5, <1>6, <1>7, SameWires DEF PingInv

-------------------------------------------------------------------------------
(* Theorems *)

LEMMA PingInvInit == Init => PingInv
  <1> SUFFICES ASSUME Init PROVE PingInv
    OBVIOUS
  <1>0. MaxConcurrency \in Nat
    OBVIOUS
  <1>1. TypeOK
    BY <1>0 DEF Init, TypeOK, Inside, Ended, Verdicts
  <1>2. Engines /\ Callers /\ Routes /\ Answers /\ Settled
    BY Pairs DEF Init, Engines, Callers, Routes, Answers, Settled, Inside, Verdicts
  <1>3. \A c \in Calls : InsideOf(c) = {}
    BY DEF Init, InsideOf, Of, Inside
  <1>4. PermitsKept
    BY <1>0, <1>3, FS_EmptySet DEF Init, PermitsKept
  <1>5. UpMeansAnswered /\ OwnVerdicts
    BY Pairs DEF Init, UpMeansAnswered, OwnVerdicts
  <1> QED
    BY <1>1, <1>2, <1>4, <1>5 DEF PingInv

LEMMA PingInvStutters == PingInv /\ UNCHANGED vars => PingInv'
  <1> SUFFICES ASSUME PingInv, UNCHANGED vars PROVE PingInv'
    OBVIOUS
  <1>0. UNCHANGED <<vpn, stage, engine, clients, returned, noUdp, permits, ping, lookups,
                    wire, heard>>
    BY DEF vars, local
  <1>1. TypeOK' /\ Engines' /\ Callers' /\ Routes' /\ Answers' /\ Settled'
    BY <1>0 DEF PingInv, TypeOK, Engines, Callers, Routes, Answers, Settled
  <1>2. PermitsKept'
    BY <1>0, SameHolders DEF PingInv
  <1>3. UpMeansAnswered' /\ OwnVerdicts'
    BY <1>0 DEF PingInv, UpMeansAnswered, OwnVerdicts
  <1> QED
    BY <1>1, <1>2, <1>3 DEF PingInv

LEMMA PingInvStep == PingInv /\ [Next]_vars => PingInv'
  <1> SUFFICES ASSUME PingInv, [Next]_vars PROVE PingInv'
    OBVIOUS
  <1>1. CASE \E p \in Pings : Proceed(p) \/ ResolvedLate(p) \/ Network(p)
    BY <1>1, ProceedKeeps
  <1>2. CASE \E m \in wire : Receive(m)
    BY <1>2, ReceiveKeeps
  <1>3. CASE \E c \in Calls : \/ Call(c) \/ Launch(c) \/ Return(c) \/ ContainerFails(c)
                             \/ Cancel(c) \/ Cut(c)
    BY <1>3, CallKeeps, LaunchKeeps, ReturnKeeps, ContainerFailsKeeps, CancelKeeps, CutKeeps
  <1>4. CASE UNCHANGED vars
    BY <1>4, PingInvStutters
  <1> QED
    BY <1>1, <1>2, <1>3, <1>4 DEF Next

LEMMA PingInvAlways == Spec => []PingInv
  BY PingInvInit, PingInvStep, PTL DEF Spec

(* Every variable keeps its type, whatever is called, sent or cancelled.   *)
THEOREM TypeCorrect == Spec => []TypeOK
  <1>1. PingInv => TypeOK
    BY DEF PingInv
  <1> QED
    BY <1>1, PingInvAlways, PTL

(* No way a ping can end, cancellation at any await among them, loses a    *)
(* permit of the semaphore of its call, and none gives one back twice.     *)
THEOREM PermitsAlwaysKept == Spec => []PermitsKept
  <1>1. PingInv => PermitsKept
    BY DEF PingInv
  <1> QED
    BY <1>1, PingInvAlways, PTL

(* A tracker only counts as UP when it answered the ping of this very      *)
(* call, in whatever order datagrams, timeouts and aborts come.            *)
THEOREM UpAnswered == Spec => []UpMeansAnswered
  <1>1. PingInv => UpMeansAnswered
    BY DEF PingInv
  <1> QED
    BY <1>1, PingInvAlways, PTL

(* In-process, what one ping raises costs no other tracker its verdict.    *)
THEOREM VerdictsOwn == Spec => []OwnVerdicts
  <1>1. PingInv => OwnVerdicts
    BY DEF PingInv
  <1> QED
    BY <1>1, PingInvAlways, PTL

(* An in-process caller that has its list or its cancellation has no ping  *)
(* at work, however the pings unwound: every permit is back and no socket  *)
(* is open; an abort may leave lookups of cancelled pings, a return none.  *)
THEOREM QuietWhenOver == Spec => []NothingLeft
  <1>1. ASSUME PingInv, NEW c \in Calls, ~vpn, stage[c] \in {"done", "cut"}
        PROVE  /\ permits[c] = MaxConcurrency
               /\ \A p \in Of(c) :
                    /\ ping[p] \in Ended
                    /\ p \in lookups => stage[c] = "cut" /\ ping[p] = "gone"
                    /\ \A m \in wire : m.ping # p
    <2>1. engine[c] = "over"
      BY <1>1 DEF PingInv, Callers
    <2>2. \A p \in Of(c) : p \in Pings /\ p[1] = c /\ ping[p] \in Ended
      BY <2>1, <1>1 DEF PingInv, Engines, Of
    <2>3. \A p \in Of(c) : ping[p] \notin Inside /\ ping[p] # "lookup" /\ ping[p] # "sent"
      BY <2>2 DEF Ended, Inside, Verdicts
    <2>4. permits[c] = MaxConcurrency
      <3>1. InsideOf(c) = {}
        BY <2>3 DEF InsideOf
      <3>2. permits[c] + 0 = MaxConcurrency /\ permits[c] \in 0..MaxConcurrency
        BY <1>1, <2>1, <3>1, FS_EmptySet DEF PingInv, PermitsKept, TypeOK
      <3> QED
        BY <3>2
    <2>5. \A p \in Of(c) : p \in lookups => ping[p] = "gone"
      BY <1>1, <2>3 DEF PingInv, Answers
    <2>6. \A p \in Of(c) : stage[c] = "done" => ping[p] # "gone"
      BY <1>1, <2>2 DEF PingInv, Settled, Verdicts
    <2>7. \A p \in Of(c) : \A m \in wire : m.ping # p
      BY <1>1, <2>3 DEF PingInv, Answers
    <2> QED
      BY <1>1, <2>2, <2>4, <2>5, <2>6, <2>7
  <1>2. PingInv => NothingLeft
    BY <1>1 DEF NothingLeft
  <1> QED
    BY <1>2, PingInvAlways, PTL
===============================================================================
