----------------------------- MODULE InjectProofs ------------------------------
(***************************************************************************)
(* What Inject.tla promises for any number of runs, attempts and trackers: *)
(* a run that ends well was applied, and the client implements the         *)
(* contract it has with TrackerPing.  A run makes only so many steps.      *)
(***************************************************************************)
EXTENDS Inject, TLAPS

(* Any list a run may have to inject is a set of trackers.                 *)
LEMMA ListType == ASSUME NEW r \in Runs PROVE List[r] \subseteq Trackers
  BY InjectAssumption

LEMMA RetryType ==
  ASSUME TypeOK, NEW r \in Runs, NEW label \in InFlight, Retry(r, label)
  PROVE  /\ pc' \in [Runs -> {"idle", "done", "failed", "cut"} \cup InFlight]
         /\ attempt' \in [Runs -> 0..MaxRetries]
  BY InjectAssumption DEF TypeOK, Retry, Goto, InFlight

LEMMA AdvanceType ==
  ASSUME TypeOK, NEW r \in Runs, NEW label \in InFlight, Advance(r, label)
  PROVE  /\ pc' \in [Runs -> {"idle", "done", "failed", "cut"} \cup InFlight]
         /\ attempt' \in [Runs -> 0..MaxRetries]
  BY InjectAssumption DEF TypeOK, Advance, Goto, InFlight

LEMMA NextType == TypeOK /\ [Next]_vars => TypeOK'
  <1> SUFFICES ASSUME TypeOK, [Next]_vars PROVE TypeOK'
    OBVIOUS
  <1> USE InjectAssumption
  <1> "login" \in InFlight /\ "inject" \in InFlight /\ "verify" \in InFlight
    BY DEF InFlight
  <1>1. ASSUME NEW r \in Runs, Start(r) \/ Login(r) \/ Injected(r) PROVE TypeOK'
    BY <1>1, AdvanceType DEF Start, Login, Injected, TypeOK, external
  <1>2. ASSUME NEW r \in Runs, LoginRejected(r) \/ Abort(r) PROVE TypeOK'
    BY <1>2 DEF LoginRejected, Abort, Goto, TypeOK, InFlight, external
  <1>3. ASSUME NEW r \in Runs, LoginUnreachable(r) \/ InjectFails(r) PROVE TypeOK'
    BY <1>3, RetryType DEF LoginUnreachable, InjectFails, TypeOK, external
  <1>4. ASSUME NEW r \in Runs, Post(r) PROVE TypeOK'
    <2>1. Sent(r) \in Request
      BY DEF Sent, Request, TypeOK
    <2> QED
      BY <1>4, <2>1 DEF Post, Goto, TypeOK, InFlight
  <1>5. ASSUME NEW r \in Runs, Verify(r) \/ VerifySkipped(r) \/ VerifyRaises(r) PROVE TypeOK'
    BY <1>5 DEF Verify, VerifySkipped, VerifyRaises, Goto, TypeOK, InFlight, external
  <1>6. ASSUME NEW m \in wire, Apply(m) \/ Refuse(m) PROVE TypeOK'
    <2>1. m.run \in Runs /\ m.attempt \in 0..MaxRetries
      BY DEF TypeOK, Request
    <2>2. \A good \in BOOLEAN :
            [run |-> m.run, attempt |-> m.attempt, good |-> good] \in Answer
      BY <2>1 DEF Answer
    <2> QED
      BY <1>6, <2>1, <2>2, ListType DEF Apply, Refuse, Reply, TypeOK
  <1>7. CASE UNCHANGED vars
    BY <1>7 DEF vars, external, TypeOK
  <1> QED
    BY <1>1, <1>2, <1>3, <1>4, <1>5, <1>6, <1>7 DEF Next, Step

(* Every variable keeps its type; in particular no run makes more than     *)
(* MaxRetries + 1 attempts at a step.                                      *)
THEOREM TypeCorrect == Spec => []TypeOK
  <1>1. Init => TypeOK
    BY InjectAssumption DEF Init, TypeOK, InFlight
  <1> QED
    BY <1>1, NextType, PTL DEF Spec

-------------------------------------------------------------------------------
(* A run that ends well was applied *)

(* A good answer is on its way only if the list was taken.                 *)
GoodMeansApplied == \A a \in answers : a.good => a.run \in applied

(* Nothing was asked of qBittorrent for a run that is not logged in yet.   *)
NothingEarly ==
  /\ \A m \in wire : pc[m.run] \notin {"idle", "login"}
  /\ \A r \in applied : pc[r] \notin {"idle", "login"}

Honest == TypeOK /\ GoodMeansApplied /\ NothingEarly /\ DoneMeansApplied

(* Neither requests, answers nor lists taken change, and r moves without   *)
(* going back before its login or claiming to be through.                  *)
QuietStep(r) ==
  /\ UNCHANGED <<wire, answers, applied>>
  /\ \A s \in Runs \ {r} : pc'[s] = pc[s]
  /\ \/ pc'[r] = pc[r]
     \/ pc'[r] \in {"login", "inject"} /\ pc[r] \in {"idle", "login", "posted"}
        /\ (pc'[r] = "login" => pc[r] # "posted")
     \/ pc'[r] \in {"failed", "cut"}
     \/ pc'[r] = "done" /\ pc[r] = "verify"
     \/ pc'[r] = "verify" /\ r \in applied

LEMMA QuietHonest ==
  ASSUME Honest, TypeOK', NEW r \in Runs, QuietStep(r)
  PROVE  Honest'
  <1>1. \A m \in wire : m.run \in Runs
    BY DEF Honest, TypeOK, Request
  <1>2. \A s \in applied : s \in Runs
    BY DEF Honest, TypeOK
  <1>3. GoodMeansApplied'
    BY DEF Honest, GoodMeansApplied, QuietStep
  <1>4. NothingEarly'
    BY <1>1, <1>2 DEF Honest, NothingEarly, QuietStep
  <1>5. DoneMeansApplied'
    BY DEF Honest, DoneMeansApplied, QuietStep
  <1> QED
    BY <1>3, <1>4, <1>5 DEF Honest

LEMMA NextHonest == Honest /\ [Next]_vars => Honest'
  <1> SUFFICES ASSUME Honest, [Next]_vars PROVE Honest'
    OBVIOUS
  <1>0. TypeOK /\ TypeOK'
    BY NextType DEF Honest
  <1>1. ASSUME NEW r \in Runs, \/ Start(r) \/ Login(r)
                               \/ LoginRejected(r) \/ LoginUnreachable(r)
                               \/ InjectFails(r) \/ Abort(r)
                               \/ Verify(r) \/ VerifySkipped(r) \/ VerifyRaises(r)
        PROVE  QuietStep(r)
    BY <1>0, <1>1 DEF Start, Login, LoginRejected, LoginUnreachable, InjectFails,
       Abort, Verify, VerifySkipped, VerifyRaises, Advance, Retry, Goto, QuietStep, external,
       TypeOK
  <1>2. ASSUME NEW r \in Runs, Injected(r) PROVE QuietStep(r)
    <2>1. r \in applied
      BY <1>2 DEF Injected, Came, Honest, GoodMeansApplied
    <2> QED
      BY <1>0, <1>2, <2>1 DEF Injected, Advance, Goto, QuietStep, external, TypeOK
  <1>3. ASSUME NEW r \in Runs, Post(r) PROVE Honest'
    <2>1. pc'[r] = "posted" /\ \A s \in Runs \ {r} : pc'[s] = pc[s]
      BY <1>0, <1>3 DEF Post, Goto, TypeOK
    <2>2. \A m \in wire' : m \in wire \/ m.run = r
      BY <1>3 DEF Post, Sent
    <2>3. \A m \in wire : m.run \in Runs
      BY <1>0 DEF TypeOK, Request
    <2>4. applied' = applied /\ answers' = answers /\ applied \subseteq Runs
      BY <1>0, <1>3 DEF Post, TypeOK
    <2> QED
      BY <1>0, <2>1, <2>2, <2>3, <2>4
         DEF Honest, GoodMeansApplied, NothingEarly, DoneMeansApplied
  <1>4. ASSUME NEW m \in wire, Apply(m) \/ Refuse(m) PROVE Honest'
    <2>1. pc' = pc /\ wire' \subseteq wire /\ applied \subseteq applied'
      BY <1>4 DEF Apply, Refuse, Reply
    <2>2. \A r \in applied' : r \in applied \/ r = m.run
      BY <1>4 DEF Apply, Refuse
    <2>3. \A a \in answers' : a.good => a \in answers \/ a.run \in applied'
      BY <1>4 DEF Apply, Refuse, Reply
    <2> QED
      BY <1>0, <2>1, <2>2, <2>3
         DEF Honest, GoodMeansApplied, NothingEarly, DoneMeansApplied
  <1>5. CASE UNCHANGED vars
    BY <1>0, <1>5 DEF vars, external, Honest, GoodMeansApplied, NothingEarly,
       DoneMeansApplied
  <1> QED
    BY <1>0, <1>1, <1>2, <1>3, <1>4, <1>5, QuietHonest DEF Next, Step

LEMMA InitHonest == Init => Honest
  BY InjectAssumption
     DEF Init, Honest, TypeOK, InFlight, GoodMeansApplied, NothingEarly,
         DoneMeansApplied

LEMMA AlwaysHonest == Spec => []Honest
  BY InitHonest, NextHonest, PTL DEF Spec

(* However requests and answers are delayed, lost or reordered, a run that *)
(* reports success had its list taken by qBittorrent.                      *)
THEOREM SuccessMeansApplied == Spec => []DoneMeansApplied
  <1>1. Honest => DoneMeansApplied
    BY DEF Honest
  <1> QED
    BY <1>1, AlwaysHonest, PTL

-------------------------------------------------------------------------------
(* The contract *)

(* A step of one run, or of one of its requests, moves its stage alone.    *)
LEMMA StageMoves ==
  ASSUME NEW r \in Runs, NEW from, NEW to,
         \A s \in Runs \ {r} : pc'[s] = pc[s] /\ (s \in applied' <=> s \in applied),
         Stage(r) \in from, Stage(r)' = to
  PROVE  Contract!Move(r, from, to)
  <1>1. \A s \in Runs \ {r} : Stage(s)' = Stage(s)
    BY DEF Stage
  <1> QED
    BY <1>1 DEF Contract!Move

(* ... or leaves it, in which case the step is a stutter of the contract.  *)
LEMMA StageStays ==
  ASSUME NEW r \in Runs,
         \A s \in Runs \ {r} : pc'[s] = pc[s] /\ (s \in applied' <=> s \in applied),
         Stage(r)' = Stage(r), UNCHANGED <<qbt, [s \in Runs |-> Chosen(s)]>>
  PROVE  UNCHANGED Contract!vars
  <1>1. \A s \in Runs : Stage(s)' = Stage(s)
    BY DEF Stage
  <1> QED
    BY <1>1 DEF Contract!vars

(* The other runs keep their lists; the list of a run that is not over     *)
(* stays, and that of one that ends is dropped.                            *)
LEMMA ListMoves ==
  ASSUME NEW r \in Runs, \A s \in Runs \ {r} : pc'[s] = pc[s], pc[r] \in InFlight
  PROVE  /\ pc'[r] \in InFlight => UNCHANGED [s \in Runs |-> Chosen(s)]
         /\ pc'[r] \in {"done", "failed", "cut"} => Contract!Drop({r})
  <1>1. \A s \in Runs \ {r} : Chosen(s)' = Chosen(s)
    BY DEF Chosen
  <1>2. CASE pc'[r] \in InFlight
    BY <1>1, <1>2 DEF Chosen, InFlight
  <1>3. CASE pc'[r] \in {"done", "failed", "cut"} /\ Late
    <2>1. \A s \in Runs : Chosen(s)' = Chosen(s)
      BY <1>1, <1>3 DEF Chosen, InFlight
    <2> QED
      BY <1>3, <2>1 DEF Contract!Drop, InFlight
  <1>4. CASE pc'[r] \in {"done", "failed", "cut"} /\ ~Late
    <2>1. \A s \in Runs : Chosen(s)' = IF s \in {r} THEN {} ELSE Chosen(s)
      BY <1>1, <1>4 DEF Chosen
    <2> QED
      BY <1>4, <2>1 DEF Contract!Drop, InFlight
  <1> QED
    BY <1>2, <1>3, <1>4 DEF InFlight

LEMMA ContractStep ==
  ASSUME Honest, [Next]_vars
  PROVE  [Contract!Next]_(Contract!vars)
  <1>0. TypeOK
    BY DEF Honest
  <1>1. ASSUME NEW r \in Runs, Start(r) PROVE Contract!Start(r)
    <2>1. Stage(r) = "idle" /\ Stage(r)' = "login" /\ \A s \in Runs \ {r} : pc'[s] = pc[s]
      BY <1>0, <1>1 DEF Start, Advance, Goto, Stage, TypeOK
    <2>2. \A s \in Runs : Chosen(s)' = IF s = r THEN List[r] ELSE Chosen(s)
      BY <2>1 DEF Chosen, Stage
    <2>3. [s \in Runs |-> Chosen(s)]' = [[s \in Runs |-> Chosen(s)] EXCEPT ![r] = List[r]]
      BY <2>2
    <2> QED
      BY <1>1, <2>1, <2>3, ListType, StageMoves
         DEF Start, Advance, external, Contract!Start
  <1>2. ASSUME NEW r \in Runs, Login(r) PROVE Contract!Login(r)
    <2>1. r \notin applied
      BY <1>2 DEF Login, Honest, NothingEarly
    <2>2. /\ pc[r] = "login" /\ pc'[r] = "inject" /\ \A s \in Runs \ {r} : pc'[s] = pc[s]
          /\ applied' = applied /\ qbt' = qbt
      BY <1>0, <1>2 DEF Login, Advance, Goto, TypeOK, external
    <2>3. Stage(r) = "login" /\ Stage(r)' = "inject"
      BY <2>1, <2>2 DEF Stage
    <2>4. UNCHANGED [s \in Runs |-> Chosen(s)]
      BY <2>2, ListMoves DEF InFlight
    <2> QED
      BY <2>2, <2>3, <2>4, StageMoves DEF Contract!Login
  <1>3. ASSUME NEW r \in Runs, LoginRejected(r) PROVE Contract!LoginFails(r)
    <2>1. /\ pc[r] = "login" /\ pc'[r] = "failed" /\ \A s \in Runs \ {r} : pc'[s] = pc[s]
          /\ applied' = applied /\ qbt' = qbt
      BY <1>0, <1>3 DEF LoginRejected, Goto, TypeOK, external
    <2>2. Stage(r) = "login" /\ Stage(r)' = "failed"
      BY <2>1 DEF Stage
    <2>3. Contract!Drop({r})
      BY <2>1, ListMoves DEF InFlight
    <2> QED
      BY <2>1, <2>2, <2>3, StageMoves DEF Contract!LoginFails
  <1>4. ASSUME NEW r \in Runs, LoginUnreachable(r)
        PROVE  Contract!LoginFails(r) \/ UNCHANGED Contract!vars
    <2>1. /\ \A s \in Runs \ {r} : pc'[s] = pc[s]
          /\ applied' = applied /\ qbt' = qbt
          /\ pc[r] = "login" /\ pc'[r] \in {"login", "failed"}
      BY <1>0, <1>4 DEF LoginUnreachable, Retry, Goto, TypeOK, external
    <2>2. Stage(r) = "login" /\ Stage(r)' = pc'[r]
      BY <2>1 DEF Stage
    <2>3. /\ pc'[r] = "login" => UNCHANGED [s \in Runs |-> Chosen(s)]
          /\ pc'[r] = "failed" => Contract!Drop({r})
      BY <2>1, ListMoves DEF InFlight
    <2> QED
      BY <2>1, <2>2, <2>3, StageMoves, StageStays DEF Contract!LoginFails
  <1>5. ASSUME NEW r \in Runs, Post(r) PROVE UNCHANGED Contract!vars
    <2>1. /\ pc[r] = "inject" /\ pc'[r] = "posted" /\ \A s \in Runs \ {r} : pc'[s] = pc[s]
          /\ applied' = applied /\ qbt' = qbt
      BY <1>0, <1>5 DEF Post, Goto, TypeOK
    <2>2. UNCHANGED [s \in Runs |-> Chosen(s)]
      BY <2>1, ListMoves DEF InFlight
    <2> QED
      BY <2>1, <2>2, StageStays DEF Stage
  <1>6. ASSUME NEW r \in Runs, Injected(r) PROVE Contract!Injected(r)
    <2>1. r \in applied
      BY <1>6 DEF Injected, Came, Honest, GoodMeansApplied
    <2>2. /\ pc[r] = "posted" /\ pc'[r] = "verify" /\ \A s \in Runs \ {r} : pc'[s] = pc[s]
          /\ applied' = applied /\ qbt' = qbt
      BY <1>0, <1>6 DEF Injected, Advance, Goto, TypeOK, external
    <2>3. Stage(r) = "injected" /\ Stage(r)' = "verify"
      BY <2>1, <2>2 DEF Stage
    <2>4. UNCHANGED [s \in Runs |-> Chosen(s)]
      BY <2>2, ListMoves DEF InFlight
    <2> QED
      BY <2>2, <2>3, <2>4, StageMoves DEF Contract!Injected
  <1>7. ASSUME NEW r \in Runs, InjectFails(r)
        PROVE  Contract!InjectFails(r) \/ UNCHANGED Contract!vars
    <2>1. /\ \A s \in Runs \ {r} : pc'[s] = pc[s]
          /\ applied' = applied /\ qbt' = qbt
          /\ pc[r] = "posted" /\ pc'[r] \in {"inject", "failed"}
      BY <1>0, <1>7 DEF InjectFails, Retry, Goto, TypeOK, external
    <2>2. /\ Stage(r) \in {"inject", "injected"}
          /\ pc'[r] = "inject" => Stage(r)' = Stage(r)
          /\ pc'[r] = "failed" => Stage(r)' = "failed"
      BY <2>1 DEF Stage
    <2>3. /\ pc'[r] = "inject" => UNCHANGED [s \in Runs |-> Chosen(s)]
          /\ pc'[r] = "failed" => Contract!Drop({r})
      BY <2>1, ListMoves DEF InFlight
    <2> QED
      BY <2>1, <2>2, <2>3, StageMoves, StageStays DEF Contract!InjectFails
  <1>8. ASSUME NEW r \in Runs, Verify(r) \/ VerifySkipped(r) \/ VerifyRaises(r) PROVE Contract!Verify(r)
    <2>1. /\ pc[r] = "verify" /\ pc'[r] \in {"done", "failed"}
          /\ \A s \in Runs \ {r} : pc'[s] = pc[s]
          /\ applied' = applied /\ qbt' = qbt
      BY <1>0, <1>8 DEF Verify, VerifySkipped, VerifyRaises, Goto, TypeOK, external
    <2>2. Stage(r) = "verify" /\ Stage(r)' = pc'[r]
      BY <2>1 DEF Stage
    <2>3. Contract!Drop({r})
      BY <2>1, ListMoves DEF InFlight
    <2> QED
      BY <2>1, <2>2, <2>3, StageMoves DEF Contract!Verify
  <1>9. ASSUME NEW r \in Runs, Abort(r) PROVE Contract!Cut({r})
    <2>1. /\ pc[r] \in InFlight /\ pc'[r] = "cut" /\ \A s \in Runs \ {r} : pc'[s] = pc[s]
          /\ applied' = applied /\ qbt' = qbt
      BY <1>0, <1>9 DEF Abort, Goto, TypeOK, external
    <2>2. /\ Stage(r) \in {"login", "inject", "injected", "verify"}
          /\ \A s \in Runs : Stage(s)' = IF s \in {r} THEN "cut" ELSE Stage(s)
      BY <2>1 DEF Stage, InFlight
    <2>3. Contract!Drop({r})
      BY <2>1, ListMoves
    <2> QED
      BY <2>1, <2>2, <2>3 DEF Contract!Cut
  <1>10. ASSUME NEW m \in wire, Apply(m)
         PROVE  /\ m.run \in Runs
                /\ Contract!Apply(m.run) \/ Contract!ApplyLate(m.run)
    <2>1. m.run \in Runs /\ pc' = pc
      BY <1>0, <1>10 DEF Apply, Reply, TypeOK, Request
    <2>2. applied' = applied \cup {m.run} /\ qbt' = List[m.run]
      BY <1>10 DEF Apply
    <2>3. UNCHANGED [s \in Runs |-> Chosen(s)]
      BY <2>1 DEF Chosen
    <2>4. CASE pc[m.run] \in {"inject", "posted"}
      <3>1. Stage(m.run) \in {"inject", "injected"} /\ Stage(m.run)' = "injected"
        BY <2>1, <2>2, <2>4 DEF Stage
      <3>2. Chosen(m.run) = List[m.run]
        BY <2>4 DEF Chosen
      <3> QED
        BY <2>1, <2>2, <2>3, <3>1, <3>2, StageMoves DEF Contract!Apply
    <2>5. CASE pc[m.run] \notin {"inject", "posted"}
      <3>1. Late
        BY <1>10, <2>5 DEF Apply, Reaches
      <3>2. pc[m.run] \in {"verify", "done", "failed", "cut"}
        BY <1>0, <2>1, <2>5 DEF Honest, NothingEarly, TypeOK, InFlight
      <3>3. Stage(m.run) = pc[m.run] /\ Chosen(m.run) = List[m.run]
        BY <2>5, <3>1, <3>2 DEF Stage, Chosen
      <3>4. \A r \in Runs : Stage(r)' = Stage(r)
        BY <2>1, <2>2, <2>5 DEF Stage
      <3> QED
        BY <2>1, <2>2, <2>3, <3>1, <3>2, <3>3, <3>4 DEF Contract!ApplyLate
    <2> QED
      BY <2>1, <2>4, <2>5
  <1>11. ASSUME NEW m \in wire, Refuse(m) PROVE UNCHANGED Contract!vars
    BY <1>11 DEF Refuse, Reply, Stage, Chosen, Contract!vars
  <1>12. CASE UNCHANGED vars
    BY <1>12 DEF vars, external, Stage, Chosen, Contract!vars
  <1>13. \A m \in wire : m.run \in Runs
    BY <1>0 DEF TypeOK, Request
  <1>14. \A r \in Runs : Contract!Cut({r}) => Contract!Next
    BY DEF Contract!Next
  <1> QED
    BY <1>1, <1>2, <1>3, <1>4, <1>5, <1>6, <1>7, <1>8, <1>9, <1>10, <1>11, <1>12, <1>14
       DEF Next, Step, Contract!Next

LEMMA ContractInit == Init => Contract!Init
  BY DEF Init, Stage, Chosen, Contract!Init

(* Whether or not requests outlive their run's attempts, the client        *)
(* implements the contract TrackerPing relies on.                          *)
THEOREM MeetsContract == Spec => ContractSpec
  <1>1. Honest /\ [Next]_vars => [Contract!Next]_(Contract!vars)
    BY ContractStep
  <1> QED
    BY <1>1, ContractInit, AlwaysHonest, PTL DEF Spec, ContractSpec, Contract!Spec

-------------------------------------------------------------------------------
(* Runs run down *)

(* How many steps a run can still make.                                    *)
Left(r) ==
  LET more == MaxRetries - attempt[r]
  IN  CASE pc[r] = "idle"   -> 3 * MaxRetries + 5
        [] pc[r] = "login"  -> 2 * MaxRetries + more + 4
        [] pc[r] = "inject" -> 2 * more + 3
        [] pc[r] = "posted" -> 2 * more + 2
        [] pc[r] = "verify" -> 1
        [] OTHER            -> 0

(* Why runs end: whatever is answered, lost or late, each step of a run    *)
(* takes it nearer to its end, the attempts at the injection that begin    *)
(* anew after the login included.                                          *)
RunsRunDown ==
  [][\A r \in Runs :
       pc'[r] # pc[r] \/ attempt'[r] # attempt[r] => Left(r)' \in 0..(Left(r) - 1)]_vars

LEMMA LeftCases ==
  ASSUME TypeOK, NEW r \in Runs
  PROVE  /\ attempt[r] \in 0..MaxRetries
         /\ Left(r) \in Nat
         /\ pc[r] \in InFlight => Left(r) >= 1
  BY InjectAssumption DEF TypeOK, Left, InFlight

(* What the actions do to the step count of the run they are of.           *)
LEMMA StepRunsDown ==
  ASSUME TypeOK, TypeOK', NEW r \in Runs, Start(r) \/ Step(r) \/ Abort(r)
  PROVE  /\ Left(r)' \in 0..(Left(r) - 1)
         /\ \A q \in Runs \ {r} : pc'[q] = pc[q] /\ attempt'[q] = attempt[q]
  <1>1. attempt[r] \in 0..MaxRetries /\ MaxRetries \in Nat
    BY InjectAssumption DEF TypeOK
  <1>2. ASSUME NEW label \in InFlight, Retry(r, label)
        PROVE  /\ \/ pc'[r] = label /\ attempt'[r] = attempt[r] + 1 /\ attempt[r] < MaxRetries
                  \/ pc'[r] = "failed"
               /\ \A q \in Runs \ {r} : pc'[q] = pc[q] /\ attempt'[q] = attempt[q]
    BY <1>2 DEF Retry, Goto, TypeOK
  <1>3. ASSUME NEW label \in InFlight, Advance(r, label)
        PROVE  /\ pc'[r] = label /\ attempt'[r] = 0
               /\ \A q \in Runs \ {r} : pc'[q] = pc[q] /\ attempt'[q] = attempt[q]
    BY <1>3 DEF Advance, Goto, TypeOK
  <1>4. ASSUME NEW label, Goto(r, label), attempt' = attempt
        PROVE  /\ pc'[r] = label /\ attempt'[r] = attempt[r]
               /\ \A q \in Runs \ {r} : pc'[q] = pc[q] /\ attempt'[q] = attempt[q]
    BY <1>4 DEF Goto, TypeOK
  <1>5. CASE Start(r) \/ Login(r) \/ Injected(r)
    <2>1. CASE Start(r)
      BY <1>1, <1>3, <2>1 DEF Start, Left, InFlight
    <2>2. CASE Login(r)
      BY <1>1, <1>3, <2>2 DEF Login, Left, InFlight
    <2>3. CASE Injected(r)
      BY <1>1, <1>3, <2>3 DEF Injected, Left, InFlight
    <2> QED
      BY <1>5, <2>1, <2>2, <2>3
  <1>6. CASE LoginUnreachable(r) \/ InjectFails(r)
    <2>1. CASE LoginUnreachable(r)
      BY <1>1, <1>2, <2>1 DEF LoginUnreachable, Left, InFlight
    <2>2. CASE InjectFails(r)
      BY <1>1, <1>2, <2>2 DEF InjectFails, Left, InFlight
    <2> QED
      BY <1>6, <2>1, <2>2
  <1>7. CASE LoginRejected(r) \/ Post(r) \/ Verify(r) \/ VerifySkipped(r) \/ VerifyRaises(r)
    BY <1>1, <1>4, <1>7 DEF LoginRejected, Post, Verify, VerifySkipped, VerifyRaises, Left
  <1>8. CASE Abort(r)
    BY <1>1, <1>4, <1>8, LeftCases DEF Abort, Left, InFlight
  <1> QED
    BY <1>5, <1>6, <1>7, <1>8 DEF Step

(* Why every run ends, for any MAX_RETRIES and any behaviour of the        *)
(* network: a run makes at most 3 * MAX_RETRIES + 5 steps.                 *)
THEOREM StepsRunOut == Spec => RunsRunDown
  <1>1. Honest /\ Honest' /\ [Next]_vars =>
          [\A r \in Runs : pc'[r] # pc[r] \/ attempt'[r] # attempt[r]
                            => Left(r)' \in 0..(Left(r) - 1)]_vars
    <2> SUFFICES ASSUME Honest, Honest', Next, NEW r \in Runs,
                        pc'[r] # pc[r] \/ attempt'[r] # attempt[r]
                 PROVE  Left(r)' \in 0..(Left(r) - 1)
      BY DEF vars
    <2>1. TypeOK /\ TypeOK'
      BY DEF Honest
    <2>2. ASSUME NEW m \in wire, Apply(m) \/ Refuse(m) PROVE FALSE
      BY <2>2 DEF Apply, Refuse, Reply
    <2>3. PICK q \in Runs : Start(q) \/ Step(q) \/ Abort(q)
      BY <2>2 DEF Next
    <2> QED
      BY <2>1, <2>3, StepRunsDown
  <1> QED
    BY <1>1, AlwaysHonest, PTL DEF Spec, RunsRunDown
===============================================================================
