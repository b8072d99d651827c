---------------------------- MODULE JourneysProofs ----------------------------
(***************************************************************************)
(* What Journeys promises of closed journeys and their reports, for any    *)
(* users, delays, readings of the car, invocations and troubles.           *)
(***************************************************************************)
EXTENDS MCJourneys, LivePathProofs, TLAPS

(* What an invocation is, beyond its shape: the schedule only closes, and  *)
(* nobody is to be told before a journey is closed.                        *)
Proper(r) ==
  /\ r.stage \in {"update-read", "update-put"} \/ r.phase = "resumed" => r.task \in Reading
  /\ r.stage \notin {"reserve", "publish"} => r.todo = {}
Runs == {Idle} \cup {r \in Running : Proper(r)}

Bare(j) == [NoJourney EXCEPT !.lastSpeed = j.lastSpeed, !.signalAt = j.signalAt]

ShapeInv ==
  /\ now \in Time /\ now > 0 /\ toReport \in Seq(Kinds) /\ troubles \in 0..MaxTroubles
  /\ journey \in Journey /\ (journey.id = 0 => journey = Bare(journey))
  /\ journey.trigger # "telemetry_timeout"
  /\ inbox \subseteq Reading
  /\ run \in [Invocations -> Runs]
  /\ events \subseteq [id: Time, user: Users]
  /\ closed \in Seq(Journey) /\ reported \subseteq Time
  /\ broken \in BOOLEAN /\ late \in BOOLEAN

(* No reading is newer than the clock.                                     *)
TimeInv ==
  /\ \A t \in inbox : t.at <= now
  /\ \A i \in Invocations : run[i] # Idle => run[i].task.at <= now

(* A put that still succeeds closes a journey that is over.                *)
Over(j, time) ==
  /\ j.id # 0 /\ j.stoppedAt # 0
  /\ ~j.charging => time >= j.stoppedAt + StopDelay
TimeOf(r) == IF r.task = Schedule THEN now ELSE r.task.at
SealedFor(r) == ApplyInactivityTimeout(journey, TimeOf(r))
FreshRun(r) == r.stage = "close-put" /\ r.fresh => Over(SealedFor(r), TimeOf(r))
FreshInv == \A i \in Invocations : FreshRun(run[i])

(* The row remembers a speed as new as any movement of a closed journey,   *)
(* and a journey under way started after all of them.                      *)
ClosedInv ==
  /\ journey.lastMoving <= journey.lastSpeed
  /\ \A n \in DOMAIN closed :
       /\ closed[n].lastMoving <= journey.lastSpeed
       /\ journey.id # 0 => journey.id > closed[n].lastMoving
  /\ ClosedOnce

(* A journey is closed when its stop has lasted, on the clock.             *)
StopInv ==
  /\ \A n \in DOMAIN closed : ~closed[n].charging => now >= closed[n].stoppedAt + StopDelay
  /\ ShortStopDoesNotSplit

(* An event is mailed or being mailed; a closed journey is recorded for a  *)
(* user or some invocation still has to do so.                             *)
EventOf(id, u) == [id |-> id, user |-> u]
Mailed(e) ==
  e \in mails \/ \E i \in Invocations : /\ At(i, "publish") /\ run[i].id = e.id
                                        /\ e.user \in run[i].user
Recorded(id, u) ==
  EventOf(id, u) \in events \/ \E i \in Invocations : /\ run[i].stage \in {"reserve", "publish"}
                                                 /\ run[i].id = id /\ u \in run[i].todo
ReportInv ==
  /\ mails \subseteq events
  /\ \A i \in Invocations : At(i, "publish") =>
       \A u \in run[i].user : EventOf(run[i].id, u) \in events
  /\ ~broken => /\ \A e \in events : e.user \in WantsJourney => Mailed(e)
                /\ \A id \in reported, u \in Users : Recorded(id, u)

Inv == ShapeInv /\ TimeInv /\ FreshInv /\ ClosedInv /\ StopInv /\ ReportInv

-----------------------------------------------------------------------------
(* Helpers of the model.                                                   *)

LEMMA Times == /\ Time \subseteq Nat /\ {0, 1, 2} \subseteq Time
               /\ {StopDelay, Inactivity, MinMoving, MovementGuard, CounterGrace, CounterWait} \subseteq Nat
BY JourneyAssumption DEF JourneyAssumption, Time

(* The empty row, written out.                                             *)
LEMMA BareRow ==
  ASSUME NEW j
  PROVE  Bare(j) = [id |-> 0, lastMoving |-> 0, stoppedAt |-> 0, trigger |-> "none",
                    charging |-> FALSE, waitUntil |-> 0, far |-> FALSE, counterAt |-> 0,
                    lastSpeed |-> j.lastSpeed, signalAt |-> j.signalAt]
<1>1. PICK b : b = Bare(j)
  OBVIOUS
<1>2. b = [id |-> 0, lastMoving |-> 0, stoppedAt |-> 0, trigger |-> "none",
           charging |-> FALSE, waitUntil |-> 0, far |-> FALSE, counterAt |-> 0,
           lastSpeed |-> j.lastSpeed, signalAt |-> j.signalAt]
  BY <1>1 DEF Bare, NoJourney
<1> QED  BY <1>1, <1>2

LEMMA BareIsClear ==
  ASSUME NEW j
  PROVE  ClearJourney(j) = Bare(j)
BY DEF ClearJourney, Bare

LEMMA BareFields ==
  ASSUME NEW j, j.lastSpeed \in Time, j.signalAt \in Time
  PROVE  LET b == Bare(j)
         IN /\ b \in Journey /\ b.id = 0 /\ b.lastMoving = 0 /\ b.trigger = "none"
            /\ b.lastSpeed = j.lastSpeed /\ b.signalAt = j.signalAt
            /\ b = Bare(b)
<1>1. /\ Bare(j).id = 0 /\ Bare(j).lastMoving = 0 /\ Bare(j).trigger = "none"
      /\ Bare(j).lastSpeed = j.lastSpeed /\ Bare(j).signalAt = j.signalAt
  BY BareRow
<1>2. Bare(j) \in Journey
  BY BareRow, Times DEF Journey
<1>3. Bare(Bare(j)) = Bare(j)
  BY <1>1 DEF Bare
<1> QED  BY <1>1, <1>2, <1>3

(* A row keeps its shape under a reading, never loses the time of a speed, *)
(* and starts a journey only by a newer movement.                          *)
LEMMA Moving ==
  ASSUME NEW j \in Journey, NEW at \in Time, at > j.lastSpeed, j.lastMoving <= j.lastSpeed,
         j.trigger # "telemetry_timeout"
  PROVE  LET k == Moves(j, at)
         IN /\ k \in Journey /\ k.trigger # "telemetry_timeout" /\ k.id # 0
            /\ k.lastMoving <= k.lastSpeed /\ j.lastSpeed <= k.lastSpeed
            /\ j.id # 0 => k.id = j.id
            /\ j.id = 0 => k.id = at
<1>0. /\ j.lastSpeed \in Nat /\ j.lastMoving \in Nat /\ at \in Nat /\ j.signalAt \in Time
      /\ j.lastSpeed \in Time
  BY Times DEF Journey
<1>1. /\ j.lastSpeed \in Nat /\ j.lastMoving \in Nat /\ at \in Nat /\ j.signalAt \in Time
      /\ at # 0
  BY <1>0
<1>2. CASE j.id = 0
  <2>1. Moves(j, at) = [id |-> at, lastMoving |-> at, stoppedAt |-> 0, trigger |-> "none",
                        charging |-> FALSE, waitUntil |-> 0, far |-> FALSE, counterAt |-> 0,
                        lastSpeed |-> at, signalAt |-> j.signalAt]
    BY <1>2 DEF Moves, Start, NoJourney
  <2> QED  BY <1>1, <1>2, <2>1, Times DEF Journey
<1>3. CASE j.id # 0 /\ j.charging
  <2>1. Moves(j, at) = [j EXCEPT !.lastSpeed = at]
    BY <1>3 DEF Moves
  <2> QED  BY <1>1, <1>3, <2>1, Times DEF Journey
<1>4. CASE j.id # 0 /\ ~j.charging /\ j.stoppedAt = 0 /\ at < j.lastSpeed + MinMoving
  <2>1. Moves(j, at) = j
    BY <1>4 DEF Moves
  <2> QED  BY <1>1, <1>4, <2>1
<1>5. CASE j.id # 0 /\ ~j.charging /\ ~(j.stoppedAt = 0 /\ at < j.lastSpeed + MinMoving)
  <2>1. Moves(j, at) = [j EXCEPT !.lastSpeed = at, !.lastMoving = at, !.stoppedAt = 0,
                                 !.trigger = "none"]
    BY <1>5 DEF Moves
  <2>2. LET k == Moves(j, at)
        IN /\ k \in Journey /\ k.id = j.id /\ k.lastSpeed = at /\ k.lastMoving = at
           /\ k.trigger = "none"
    BY <2>1, Times DEF Journey
  <2> QED  BY <1>1, <1>5, <2>2
<1> QED  BY <1>2, <1>3, <1>4, <1>5

Keeps(j, k) ==
  /\ k \in Journey /\ k.trigger # "telemetry_timeout" /\ k.id = j.id
  /\ k.lastMoving <= k.lastSpeed /\ j.lastSpeed <= k.lastSpeed
  /\ k.id = 0 => k = Bare(k)

LEMMA Standing ==
  ASSUME NEW j \in Journey, NEW at \in Time, at > j.lastSpeed, j.lastMoving <= j.lastSpeed,
         j.trigger # "telemetry_timeout", j.id = 0 => j = Bare(j)
  PROVE  Keeps(j, Stands(j, at))
<1>1. j.lastSpeed \in Nat /\ j.lastMoving \in Nat /\ at \in Nat
  BY Times DEF Journey
<1>2. CASE j.id # 0 /\ j.stoppedAt = 0
  <2>1. Stands(j, at) = [j EXCEPT !.lastSpeed = at, !.stoppedAt = at, !.trigger = "speed_zero"]
    BY <1>2 DEF Stands
  <2>2. LET k == Stands(j, at)
        IN /\ k \in Journey /\ k.id = j.id /\ k.lastSpeed = at /\ k.lastMoving = j.lastMoving
           /\ k.trigger = "speed_zero"
    BY <2>1 DEF Journey
  <2> QED  BY <1>1, <1>2, <2>2 DEF Keeps
<1>3. CASE ~(j.id # 0 /\ j.stoppedAt = 0)
  <2>1. Stands(j, at) = [j EXCEPT !.lastSpeed = at]
    BY <1>3 DEF Stands
  <2>2. ASSUME j.id = 0
        PROVE  Stands(j, at) = Bare(Stands(j, at))
    <3>1. Stands(j, at) = [Bare(j) EXCEPT !.lastSpeed = at]
      BY <2>1, <2>2
    <3>2. Stands(j, at).lastSpeed = at /\ Stands(j, at).signalAt = j.signalAt
      BY <2>1 DEF Journey
    <3> QED  BY <3>1, <3>2, BareRow
  <2>3. /\ Stands(j, at) \in Journey /\ Stands(j, at).lastSpeed = at /\ Stands(j, at).id = j.id
        /\ Stands(j, at).lastMoving = j.lastMoving /\ Stands(j, at).trigger = j.trigger
    BY <2>1 DEF Journey
  <2> QED  BY <1>1, <2>2, <2>3 DEF Keeps
<1> QED  BY <1>2, <1>3

LEMMA Charging ==
  ASSUME NEW j \in Journey, NEW at \in Time, j.lastMoving <= j.lastSpeed,
         j.trigger # "telemetry_timeout", j.id = 0 => j = Bare(j)
  PROVE  Keeps(j, Charges(j, at))
<1>1. j.lastSpeed \in Nat /\ j.lastMoving \in Nat /\ at \in Nat /\ CounterGrace \in Nat
  BY Times DEF Journey
<1>2. CASE j.id = 0 \/ j.charging \/ SeemsToMove(j, at)
  BY <1>1, <1>2 DEF Charges, Keeps
<1>3. CASE ~(j.id = 0 \/ j.charging \/ SeemsToMove(j, at))
  <2>1. PICK stoppedAt \in Time, trigger \in {j.trigger, "standard_can_charging"}, wait \in Nat :
          Charges(j, at) = [j EXCEPT !.stoppedAt = stoppedAt, !.trigger = trigger,
                                     !.charging = TRUE, !.waitUntil = wait]
    <3>1. (IF j.stoppedAt # 0 THEN j.stoppedAt ELSE at) \in Time
      BY DEF Journey
    <3>2. at + CounterGrace \in Nat
      BY <1>1
    <3>3. Charges(j, at) = [j EXCEPT !.stoppedAt = IF j.stoppedAt # 0 THEN j.stoppedAt ELSE at,
                               !.trigger = IF j.trigger # "none" THEN j.trigger ELSE "standard_can_charging",
                               !.charging = TRUE, !.waitUntil = at + CounterGrace]
      BY <1>3 DEF Charges
    <3> QED  BY <3>1, <3>2, <3>3
  <2>2. /\ Charges(j, at) \in Journey /\ Charges(j, at).id = j.id
        /\ Charges(j, at).trigger = trigger /\ Charges(j, at).lastSpeed = j.lastSpeed
        /\ Charges(j, at).lastMoving = j.lastMoving
    BY <2>1 DEF Journey
  <2> QED  BY <1>1, <1>3, <2>1, <2>2 DEF Keeps
<1> QED  BY <1>2, <1>3

LEMMA Progressing ==
  ASSUME NEW j \in Journey, NEW at \in Time, j.lastMoving <= j.lastSpeed,
         j.trigger # "telemetry_timeout", j.id = 0 => j = Bare(j)
  PROVE  Keeps(j, Progresses(j, at))
<1>1. j.lastSpeed \in Nat /\ j.lastMoving \in Nat
  BY Times DEF Journey
<1>2. CASE at <= j.signalAt
  BY <1>1, <1>2 DEF Progresses, Keeps
<1>3. CASE ~(at <= j.signalAt)
  <2> DEFINE k == Progresses(j, at)
  <2>1. k = [j EXCEPT !.signalAt = at, !.far = j.id # 0]
    BY <1>3 DEF Progresses
  <2>2. PICK far \in BOOLEAN : k = [j EXCEPT !.signalAt = at, !.far = far] /\ (j.id = 0 => ~far)
    <3>1. (j.id # 0) \in BOOLEAN
      OBVIOUS
    <3> QED  BY <2>1, <3>1
  <2> HIDE DEF k
  <2>3. /\ k \in Journey /\ k.id = j.id /\ k.trigger = j.trigger /\ k.lastSpeed = j.lastSpeed
        /\ k.lastMoving = j.lastMoving /\ k.signalAt = at
    BY <2>2 DEF Journey
  <2>4. ASSUME j.id = 0
        PROVE  k = Bare(k)
    <3>1. k = [Bare(j) EXCEPT !.signalAt = at, !.far = FALSE]
      BY <2>2, <2>4
    <3> QED  BY <2>3, <3>1, BareRow
  <2> QED  BY <1>1, <2>3, <2>4 DEF Keeps, k
<1> QED  BY <1>2, <1>3

LEMMA Updating ==
  ASSUME NEW j \in Journey, NEW t \in Reading, j.lastMoving <= j.lastSpeed,
         j.trigger # "telemetry_timeout", j.id = 0 => j = Bare(j)
  PROVE  LET k == ApplyJourneyUpdate(j, t)
         IN /\ k \in Journey /\ k.trigger # "telemetry_timeout"
            /\ k.lastMoving <= k.lastSpeed /\ j.lastSpeed <= k.lastSpeed
            /\ k.id = 0 => k = Bare(k)
            /\ k.id # j.id => j.id = 0 /\ k.id = t.at /\ t.at > j.lastSpeed
<1> DEFINE k == ApplyJourneyUpdate(j, t)
<1>1. t.at \in Time /\ t.at \in Nat /\ j.lastSpeed \in Nat /\ j.lastMoving \in Nat
  BY Times DEF Reading, Journey
<1>2. Keeps(j, j)
  BY <1>1 DEF Keeps
<1>3. CASE t.kind = "moving" /\ t.at > j.lastSpeed
  <2>1. k = Moves(j, t.at)
    BY <1>1, <1>3 DEF ApplyJourneyUpdate
  <2> QED  BY <1>1, <1>3, <2>1, Moving
<1>4. CASE ~(t.kind = "moving" /\ t.at > j.lastSpeed)
  <2>1. CASE t.kind = "moving"
    BY <1>1, <1>2, <1>4, <2>1 DEF ApplyJourneyUpdate, Keeps
  <2>2. CASE t.kind = "zero"
    BY <1>1, <1>2, <2>2, Standing DEF ApplyJourneyUpdate, Keeps
  <2>3. CASE t.kind = "charge"
    BY <1>1, <2>3, Charging DEF ApplyJourneyUpdate, Keeps
  <2>4. CASE t.kind = "progress"
    BY <1>1, <2>4, Progressing DEF ApplyJourneyUpdate, Keeps
  <2>5. CASE t.kind = "counter"
    <3>1. CASE j.id = 0
      BY <1>2, <2>5, <3>1 DEF ApplyJourneyUpdate, Keeps
    <3>2. CASE j.id # 0
      <4>1. k = [j EXCEPT !.counterAt = t.at]
        BY <2>5, <3>2 DEF ApplyJourneyUpdate
      <4> QED  BY <1>1, <3>2, <4>1 DEF Journey
    <3> QED  BY <3>1, <3>2
  <2> QED  BY <2>1, <2>2, <2>3, <2>4, <2>5 DEF Reading, Kinds
<1> QED  BY <1>3, <1>4

(* The last sign of a car: the newest of three times.                      *)
Signs(j) == {j.lastMoving, j.lastSpeed, j.signalAt}
LastSign(j) == CHOOSE t \in Signs(j) : \A u \in Signs(j) : u <= t

LEMMA LastSignIsATime ==
  ASSUME NEW j \in Journey
  PROVE  LastSign(j) \in Time
<1>1. Signs(j) \subseteq Time /\ \A t \in Signs(j) : t \in Nat
  BY Times DEF Signs, Journey
<1>2. \E t \in Signs(j) : \A u \in Signs(j) : u <= t
  BY <1>1 DEF Signs
<1>3. LastSign(j) \in Signs(j)
  BY <1>2 DEF LastSign
<1> QED  BY <1>1, <1>3

(* What a closing sees: the row, or the row as silence has ended it.       *)
LEMMA Sealing ==
  ASSUME NEW j \in Journey, NEW time
  PROVE  LET s == ApplyInactivityTimeout(j, time)
             silent == j.id # 0 /\ j.stoppedAt = 0 /\ ~(time < LastSign(j) + Inactivity)
         IN /\ ~silent => s = j
            /\ silent => /\ s = [j EXCEPT !.stoppedAt = LastSign(j), !.trigger = "telemetry_timeout"]
                         /\ s.stoppedAt = LastSign(j)
            /\ s \in Journey /\ s.id = j.id /\ s.lastMoving = j.lastMoving
            /\ s.lastSpeed = j.lastSpeed /\ s.signalAt = j.signalAt
<1> DEFINE s == ApplyInactivityTimeout(j, time)
           silent == j.id # 0 /\ j.stoppedAt = 0 /\ ~(time < LastSign(j) + Inactivity)
<1>1. s = IF j.id = 0 \/ j.stoppedAt # 0 \/ time < LastSign(j) + Inactivity THEN j
          ELSE [j EXCEPT !.stoppedAt = LastSign(j), !.trigger = "telemetry_timeout"]
  BY DEF ApplyInactivityTimeout, LastSign, Signs
<1> HIDE DEF s
<1>2. CASE silent
  <2>1. s = [j EXCEPT !.stoppedAt = LastSign(j), !.trigger = "telemetry_timeout"]
    BY <1>1, <1>2
  <2>2. /\ s \in Journey /\ s.id = j.id /\ s.lastMoving = j.lastMoving /\ s.stoppedAt = LastSign(j)
        /\ s.lastSpeed = j.lastSpeed /\ s.signalAt = j.signalAt
    BY <2>1, LastSignIsATime DEF Journey
  <2> QED  BY <1>2, <2>1, <2>2 DEF s
<1>3. CASE ~silent
  BY <1>1, <1>3 DEF s
<1> QED  BY <1>2, <1>3

(* A journey that is due is over, and stays so as time goes on.            *)
LEMMA DueIsOver ==
  ASSUME NEW j \in Journey, j.trigger # "telemetry_timeout", NEW time \in Nat, NEW stable,
         Due(ApplyInactivityTimeout(j, time), time, stable)
  PROVE  Over(ApplyInactivityTimeout(j, time), time)
<1>1. PICK s : s = ApplyInactivityTimeout(j, time)
  OBVIOUS
<1>2. s \in Journey /\ s.id # 0 /\ s.stoppedAt # 0
      /\ (s.charging \/ s.trigger = "telemetry_timeout" \/ time >= s.stoppedAt + StopDelay)
  BY <1>1, Sealing DEF Due
<1>3. CASE s.trigger # "telemetry_timeout"
  BY <1>1, <1>2, <1>3 DEF Over
<1>4. CASE s.trigger = "telemetry_timeout"
  <2>1. s.stoppedAt = LastSign(j) /\ ~(time < LastSign(j) + Inactivity)
    BY <1>1, <1>4, Sealing
  <2>2. LastSign(j) \in Nat /\ StopDelay <= Inactivity
    BY LastSignIsATime, Times, JourneyAssumption DEF JourneyAssumption
  <2>3. time >= s.stoppedAt + StopDelay
    BY <2>1, <2>2, Times
  <2> QED  BY <1>1, <1>2, <2>3 DEF Over
<1> QED  BY <1>3, <1>4

LEMMA OverStays ==
  ASSUME NEW j \in Journey, NEW time \in Nat, NEW later \in Nat, time <= later,
         Over(ApplyInactivityTimeout(j, time), time)
  PROVE  Over(ApplyInactivityTimeout(j, later), later)
<1> DEFINE silent(at) == j.id # 0 /\ j.stoppedAt = 0 /\ ~(at < LastSign(j) + Inactivity)
<1>1. PICK s : s = ApplyInactivityTimeout(j, time)
  OBVIOUS
<1>2. s \in Journey /\ Over(s, time)
  BY <1>1, Sealing
<1>3. ApplyInactivityTimeout(j, later) = s
  <2>1. CASE silent(time)
    <3>1. LastSign(j) \in Nat /\ Inactivity \in Nat
      BY LastSignIsATime, Times
    <3>2. silent(later)
      BY <2>1, <3>1
    <3> DEFINE sealed == [j EXCEPT !.stoppedAt = LastSign(j), !.trigger = "telemetry_timeout"]
    <3>3. s = sealed
      BY <1>1, <2>1, Sealing
    <3>4. ApplyInactivityTimeout(j, later) = sealed
      BY <3>2, Sealing
    <3> QED  BY <3>3, <3>4
  <2>2. CASE ~silent(time)
    <3>1. s = j
      BY <1>1, <2>2, Sealing
    <3>2. j.stoppedAt # 0
      BY <1>2, <3>1 DEF Over
    <3> QED  BY <3>1, <3>2, Sealing
  <2> QED  BY <2>1, <2>2
<1>4. s.stoppedAt \in Nat /\ StopDelay \in Nat
  BY <1>2, Times DEF Journey
<1>5. Over(s, later)
  BY <1>2, <1>4 DEF Over
<1> QED  BY <1>3, <1>5

-----------------------------------------------------------------------------
(* Invocations.                                                            *)

LEMMA IdleIsARun == Idle \in Runs /\ Idle.stage = "idle"
BY DEF Idle, Runs

LEMMA RunFields ==
  ASSUME NEW r \in Runs, r.stage # "idle"
  PROVE  /\ r \in Running /\ Proper(r) /\ r.task \in Reading \cup {Schedule}
         /\ r.tries \in 1..UpdateAttempts /\ r.fresh \in BOOLEAN /\ r.id \in Time
         /\ r.todo \subseteq Users /\ r.user \subseteq Users
         /\ r.phase \in {"first", "resumed", "last"}
BY IdleIsARun DEF Runs, Running

LEMMA IdleOrNot ==
  ASSUME NEW r \in Runs
  PROVE  /\ r = Idle <=> r.stage = "idle"
         /\ r # Idle => r \in Running
BY DEF Runs, Running, Idle

Stages == {"update-read", "update-put", "close-read", "close-put", "reserve", "publish"}

(* An invocation that goes on with another call keeps what it reports.     *)
LEMMA Onwards ==
  ASSUME NEW i, run[i] \in Running, NEW stage \in Stages, NEW phase \in {"first", "resumed", "last"}
  PROVE  LET q == Onward(i, stage, phase)
         IN /\ q \in Running /\ q.stage = stage /\ q.phase = phase /\ q.task = run[i].task
            /\ q.id = run[i].id /\ q.todo = run[i].todo /\ q.user = run[i].user /\ ~q.fresh
<1>1. 1 \in 1..UpdateAttempts
  BY JourneyAssumption DEF JourneyAssumption
<1> QED  BY <1>1 DEF Onward, Running, Stages

LEMMA Puts ==
  ASSUME NEW r \in Running, NEW stage \in {"update-put", "close-put"}
  PROVE  LET q == [r EXCEPT !.stage = stage, !.fresh = TRUE]
         IN /\ q \in Running /\ q.stage = stage /\ q.phase = r.phase /\ q.task = r.task
            /\ q.id = r.id /\ q.todo = r.todo
BY DEF Running

LEMMA Stale ==
  ASSUME NEW r \in Runs, r # Idle
  PROVE  LET q == [r EXCEPT !.fresh = FALSE]
         IN /\ q \in Runs /\ q.stage = r.stage /\ q.task = r.task /\ q.id = r.id
            /\ q.todo = r.todo /\ q.user = r.user /\ q.phase = r.phase /\ ~q.fresh
            /\ q # Idle
<1> DEFINE q == [r EXCEPT !.fresh = FALSE]
<1>1. r \in Running /\ Proper(r)
  BY IdleOrNot, RunFields, IdleIsARun
<1>2. /\ q \in Running /\ q.stage = r.stage /\ q.task = r.task /\ q.id = r.id
      /\ q.todo = r.todo /\ q.user = r.user /\ q.phase = r.phase /\ ~q.fresh
  BY <1>1 DEF Running
<1> HIDE DEF q
<1>3. q \in Runs
  BY <1>1, <1>2 DEF Runs, Proper
<1>4. q # Idle
  BY <1>2, IdleIsARun DEF Running
<1> QED  BY <1>2, <1>3, <1>4 DEF q

LEMMA Others ==
  ASSUME run \in [Invocations -> Runs], NEW k \in Invocations
  PROVE  /\ Outdated[k] \in Runs /\ Outdated[k].stage = run[k].stage
         /\ Outdated[k] = Idle <=> run[k] = Idle
         /\ run[k] # Idle => /\ Outdated[k].task = run[k].task /\ Outdated[k].id = run[k].id
                             /\ Outdated[k].todo = run[k].todo /\ Outdated[k].user = run[k].user
                             /\ ~Outdated[k].fresh
<1>1. CASE run[k] = Idle
  BY <1>1, IdleIsARun DEF Outdated
<1>2. CASE run[k] # Idle
  BY <1>2, Stale DEF Outdated
<1> QED  BY <1>1, <1>2

LEMMA Timed ==
  ASSUME NEW i
  PROVE  ClosingTime(i) = TimeOf(run[i]) /\ Sealed(i) = SealedFor(run[i])
BY DEF ClosingTime, TimeOf, Sealed, SealedFor

LEMMA Timely ==
  ASSUME Inv, NEW i \in Invocations, run[i] # Idle
  PROVE  TimeOf(run[i]) \in Nat /\ TimeOf(run[i]) <= now
<1>1. now \in Nat /\ run[i].task \in Reading \cup {Schedule} /\ run[i].task.at <= now
  BY Times, IdleOrNot, RunFields DEF Inv, ShapeInv, TimeInv
<1>2. CASE run[i].task = Schedule
  BY <1>1, <1>2 DEF TimeOf
<1>3. CASE run[i].task # Schedule
  <2>1. run[i].task.at \in Time
    BY <1>1, <1>3 DEF Reading
  <2> QED  BY <1>1, <1>3, <2>1, Times DEF TimeOf
<1> QED  BY <1>2, <1>3

-----------------------------------------------------------------------------
(* Steps of one invocation that store nothing and have nothing to report.  *)

LEMMA OneRun ==
  ASSUME Inv, NEW i \in Invocations, NEW q \in Runs, run' = [run EXCEPT ![i] = q],
         UNCHANGED <<now, toReport, journey, events, mails, closed, reported, late>>,
         inbox' \subseteq Reading, \A t \in inbox' : t.at <= now,
         troubles' \in 0..MaxTroubles, broken' \in BOOLEAN,
         q # Idle => q.task.at <= now, FreshRun(q), q.stage # "publish",
         ~broken' => /\ ~broken /\ run[i].stage # "publish"
                     /\ run[i].stage = "reserve" => run[i].todo = {}
  PROVE  Inv'
<1>1. run'[i] = q /\ \A k \in Invocations \ {i} : run'[k] = run[k]
  BY DEF Inv, ShapeInv
<1>2. ShapeInv'
  BY DEF Inv, ShapeInv, Bare
<1>3. TimeInv'
  BY <1>1 DEF Inv, TimeInv
<1>4. FreshInv'
  <2>1. ASSUME NEW k \in Invocations
        PROVE  FreshRun(run[k])'
    <3>1. PICK r : r = run'[k] /\ FreshRun(r)
      BY <1>1 DEF Inv, FreshInv
    <3> QED  BY <3>1 DEF FreshRun, SealedFor, TimeOf
  <2> QED  BY <2>1 DEF FreshInv
<1>5. ClosedInv'
  BY DEF Inv, ClosedInv, ClosedOnce
<1>6. StopInv'
  BY DEF Inv, StopInv, ShortStopDoesNotSplit
<1>7. ReportInv'
  <2>1. mails' \subseteq events'
    BY DEF Inv, ReportInv
  <2>2. \A k \in Invocations : At(k, "publish")' =>
          \A u \in run'[k].user : EventOf(run'[k].id, u) \in events'
    BY <1>1 DEF Inv, ReportInv, At
  <2>3. ASSUME ~broken', NEW e \in events', e.user \in WantsJourney
        PROVE  Mailed(e)'
    <3>1. Mailed(e)
      BY <2>3 DEF Inv, ReportInv
    <3> QED  BY <1>1, <2>3, <3>1 DEF Mailed, At
  <2>4. ASSUME ~broken', NEW id \in reported', NEW u \in Users
        PROVE  Recorded(id, u)'
    <3>1. Recorded(id, u)
      BY <2>4 DEF Inv, ReportInv
    <3>2. \A k \in Invocations : run[k].stage \in {"reserve", "publish"} /\ u \in run[k].todo => k # i
      BY <2>4
    <3> QED  BY <1>1, <3>1, <3>2 DEF Recorded, EventOf
  <2> QED  BY <2>1, <2>2, <2>3, <2>4 DEF ReportInv
<1> QED  BY <1>2, <1>3, <1>4, <1>5, <1>6, <1>7 DEF Inv

LEMMA Troubles ==
  ASSUME Inv, Trouble
  PROVE  troubles' \in 0..MaxTroubles
BY JourneyAssumption DEF JourneyAssumption, Trouble, Inv, ShapeInv

LEMMA BeginKeeps ==
  ASSUME Inv, NEW i \in Invocations, Begin(i) \/ ScheduleFires(i)
  PROVE  Inv'
<1>1. PICK t : /\ t \in Reading \cup {Schedule} /\ t.at <= now /\ run' = [run EXCEPT ![i] = Started(t)]
  <2>1. CASE Begin(i)
    BY <2>1 DEF Begin, Becomes, Inv, ShapeInv, TimeInv
  <2>2. CASE ScheduleFires(i)
    <3>1. Schedule.at <= now
      BY Times DEF Schedule, Inv, ShapeInv
    <3> QED  BY <2>2, <3>1 DEF ScheduleFires, Becomes
  <2> QED  BY <2>1, <2>2
<1>2. PICK q : q = Started(t)
  OBVIOUS
<1>3. q \in Running /\ q.stage \in {"close-read", "update-read"} /\ q.task = t /\ q.todo = {}
      /\ (q.stage = "update-read" => t # Schedule) /\ q.phase # "resumed"
  <2>1. 1 \in 1..UpdateAttempts /\ 0 \in Time
    BY JourneyAssumption, Times DEF JourneyAssumption
  <2> QED  BY <1>1, <1>2, <2>1 DEF Started, Running
<1>4. q \in Runs
  BY <1>1, <1>3 DEF Runs, Proper
<1>5. run[i].stage = "idle"
  BY IdleIsARun DEF Begin, ScheduleFires
<1>6. troubles' \in 0..MaxTroubles
  BY Troubles DEF Begin, ScheduleFires, ghosts, Inv, ShapeInv
<1>7. FreshRun(q)
  BY <1>3 DEF FreshRun
<1>8. /\ UNCHANGED <<now, toReport, journey, inbox, events, mails, closed, reported, broken, late>>
  BY DEF Begin, ScheduleFires, ghosts
<1> QED  BY <1>1, <1>2, <1>3, <1>4, <1>5, <1>6, <1>7, <1>8, OneRun DEF Inv, ShapeInv, TimeInv

(* What a run has while it reads or puts.                                  *)
LEMMA Working ==
  ASSUME Inv, NEW i \in Invocations, run[i].stage \in Stages
  PROVE  /\ run[i] # Idle /\ run[i] \in Runs /\ run[i] \in Running /\ Proper(run[i])
         /\ run[i].task \in Reading \cup {Schedule} /\ run[i].task.at <= now
         /\ run[i].phase \in {"first", "resumed", "last"} /\ run[i].id \in Time
         /\ run[i].todo \subseteq Users /\ run[i].user \subseteq Users
         /\ run[i].tries \in 1..UpdateAttempts
BY IdleIsARun, IdleOrNot, RunFields DEF Stages, Inv, ShapeInv, TimeInv

LEMMA NextTry ==
  ASSUME NEW tries \in 1..UpdateAttempts, tries < UpdateAttempts
  PROVE  tries + 1 \in 1..UpdateAttempts
<1>1. UpdateAttempts \in Nat
  BY JourneyAssumption DEF JourneyAssumption
<1> QED  BY <1>1

(* A call that leaves an invocation another one, with nothing to report.   *)
LEMMA Goes ==
  ASSUME Inv, NEW i \in Invocations, run[i].stage \in Stages \ {"reserve", "publish"},
         NEW q \in Running, run' = [run EXCEPT ![i] = q],
         q.task = run[i].task, q.todo = {}, q.stage # "publish", FreshRun(q),
         q.stage \in {"update-read", "update-put"} \/ q.phase = "resumed" => q.task \in Reading,
         UNCHANGED <<now, toReport, journey, inbox, events, mails, ghosts>>
  PROVE  Inv'
<1>1. q \in Runs
  BY DEF Runs, Proper
<1>2. run[i].task.at <= now
  BY Working
<1>3. UNCHANGED <<now, toReport, journey, inbox, events, mails, closed, reported, late, broken, troubles>>
  BY DEF ghosts
<1> QED  BY <1>1, <1>2, <1>3, OneRun DEF Inv, ShapeInv, TimeInv, Stages

LEMMA UpdateReadsKeeps ==
  ASSUME Inv, NEW i \in Invocations, UpdateReads(i)
  PROVE  Inv'
<1>1. /\ run[i].stage = "update-read" /\ run[i] \in Running /\ run[i].task \in Reading
      /\ run[i].todo = {}
  BY Working DEF UpdateReads, At, Stages, Proper
<1>2. ASSUME NEW stage \in {"close-read", "reserve"}, NEW phase \in {"resumed", "last"},
             run' = [run EXCEPT ![i] = Onward(i, stage, phase)]
      PROVE  Inv'
  <2>1. PICK q : q = Onward(i, stage, phase)
    OBVIOUS
  <2>2. /\ q \in Running /\ q.stage = stage /\ q.phase = phase /\ q.task = run[i].task /\ q.todo = {}
    BY <1>1, <2>1, Onwards DEF Stages
  <2>3. FreshRun(q)
    BY <2>2 DEF FreshRun
  <2>4. UNCHANGED <<now, toReport, journey, inbox, events, mails, ghosts>>
    BY DEF UpdateReads
  <2> QED  BY <1>1, <1>2, <2>1, <2>2, <2>3, <2>4, Goes DEF Stages
<1>3. CASE run' = [run EXCEPT ![i] = [run[i] EXCEPT !.stage = "update-put", !.fresh = TRUE]]
  <2>1. PICK q : q = [run[i] EXCEPT !.stage = "update-put", !.fresh = TRUE]
    OBVIOUS
  <2>2. q \in Running /\ q.stage = "update-put" /\ q.task = run[i].task /\ q.todo = {}
    BY <1>1, <2>1, Puts
  <2>3. FreshRun(q)
    BY <2>2 DEF FreshRun
  <2>4. UNCHANGED <<now, toReport, journey, inbox, events, mails, ghosts>>
    BY DEF UpdateReads
  <2> QED  BY <1>1, <1>3, <2>1, <2>2, <2>3, <2>4, Goes DEF Stages
<1>4. \A j : AfterUpdate(i, j) \in {Onward(i, "close-read", "last"), Onward(i, "reserve", "last")}
  BY DEF AfterUpdate
<1>5. \/ run' = [run EXCEPT ![i] = [run[i] EXCEPT !.stage = "update-put", !.fresh = TRUE]]
      \/ run' = [run EXCEPT ![i] = Onward(i, "close-read", "resumed")]
      \/ run' = [run EXCEPT ![i] = Onward(i, "close-read", "last")]
      \/ run' = [run EXCEPT ![i] = Onward(i, "reserve", "last")]
  BY <1>4 DEF UpdateReads, Becomes
<1> QED  BY <1>2, <1>3, <1>5

LEMMA AfterClosings ==
  ASSUME Inv, NEW i \in Invocations, run[i].stage \in {"close-read", "close-put"}
  PROVE  LET q == AfterClosing(i)
         IN /\ q \in Running /\ q.stage \in {"update-read", "reserve"} /\ q.phase = "last"
            /\ q.task = run[i].task /\ q.todo = {} /\ q.id = run[i].id /\ q.user = run[i].user
            /\ q.stage = "update-read" => q.task \in Reading
<1>1. /\ run[i] \in Running /\ run[i].todo = {}
      /\ run[i].phase = "resumed" => run[i].task \in Reading
  BY Working DEF Stages, Proper
<1>2. CASE run[i].phase = "resumed"
  BY <1>1, <1>2, Onwards DEF AfterClosing, Stages
<1>3. CASE run[i].phase # "resumed"
  BY <1>1, <1>3, Onwards DEF AfterClosing, Stages
<1> QED  BY <1>2, <1>3

LEMMA CloseReadsKeeps ==
  ASSUME Inv, NEW i \in Invocations, CloseReads(i)
  PROVE  Inv'
<1>1. /\ run[i].stage = "close-read" /\ run[i] \in Running /\ run[i] # Idle
      /\ run[i].todo = {}
      /\ run[i].phase = "resumed" => run[i].task \in Reading
  BY Working DEF CloseReads, At, Stages, Proper
<1>2. UNCHANGED <<now, toReport, journey, inbox, events, mails, ghosts>>
  BY DEF CloseReads
<1>3. CASE run' = [run EXCEPT ![i] = AfterClosing(i)]
  <2>1. PICK q : q = AfterClosing(i)
    OBVIOUS
  <2>2. /\ q \in Running /\ q.stage \in {"update-read", "reserve"} /\ q.phase = "last"
        /\ q.task = run[i].task /\ q.todo = {} /\ (q.stage = "update-read" => q.task \in Reading)
    BY <1>1, <2>1, AfterClosings
  <2>3. FreshRun(q)
    BY <2>2 DEF FreshRun
  <2> QED  BY <1>1, <1>2, <1>3, <2>1, <2>2, <2>3, Goes DEF Stages
<1>4. CASE /\ Due(Sealed(i), ClosingTime(i), run[i].phase = "resumed")
           /\ run' = [run EXCEPT ![i] = [run[i] EXCEPT !.stage = "close-put", !.fresh = TRUE]]
  <2>1. PICK q : q = [run[i] EXCEPT !.stage = "close-put", !.fresh = TRUE]
    OBVIOUS
  <2>2. /\ q \in Running /\ q.stage = "close-put" /\ q.task = run[i].task /\ q.todo = {}
        /\ q.phase = run[i].phase
    BY <1>1, <2>1, Puts
  <2>3. Over(SealedFor(run[i]), TimeOf(run[i]))
    BY <1>1, <1>4, Timed, Timely, DueIsOver DEF SealedFor, Inv, ShapeInv
  <2>4. FreshRun(q)
    BY <2>2, <2>3 DEF FreshRun, SealedFor, TimeOf
  <2> QED  BY <1>1, <1>2, <1>4, <2>1, <2>2, <2>4, Goes DEF Stages
<1> QED  BY <1>3, <1>4 DEF CloseReads, Becomes

LEMMA CollidesKeeps ==
  ASSUME Inv, NEW i \in Invocations, Collides(i)
  PROVE  Inv'
<1>1. /\ run[i].stage \in {"update-put", "close-put"} /\ run[i] \in Running
      /\ run[i].todo = {}
      /\ run[i].phase = "resumed" => run[i].task \in Reading
      /\ run[i].stage = "update-put" => run[i].task \in Reading
      /\ run[i].tries \in 1..UpdateAttempts
  BY Working DEF Collides, Stages, Proper
<1>2. PICK stage \in {"update-read", "close-read"}, tries \in 1..UpdateAttempts :
        /\ run' = [run EXCEPT ![i] = [run[i] EXCEPT !.stage = stage, !.tries = tries]]
        /\ stage = "update-read" => run[i].stage = "update-put"
  <2>1. run[i].tries + 1 \in 1..UpdateAttempts
    <3>1. run[i].tries < UpdateAttempts
      BY DEF Collides
    <3> QED  BY <1>1, <3>1, NextTry
  <2> QED  BY <1>1, <2>1 DEF Collides, Becomes
<1>3. PICK q : q = [run[i] EXCEPT !.stage = stage, !.tries = tries]
  OBVIOUS
<1>4. q \in Running /\ q.stage = stage /\ q.task = run[i].task /\ q.todo = {} /\ q.phase = run[i].phase
  BY <1>1, <1>3 DEF Running
<1>5. FreshRun(q)
  BY <1>4 DEF FreshRun
<1>6. UNCHANGED <<now, toReport, journey, inbox, events, mails, ghosts>>
  BY DEF Collides
<1> QED  BY <1>1, <1>2, <1>3, <1>4, <1>5, <1>6, Goes DEF Stages

LEMMA BreaksKeeps ==
  ASSUME Inv, NEW i \in Invocations, Contention(i) \/ InvocationFails(i)
  PROVE  Inv'
<1>1. run[i] # Idle /\ Breaks(i) /\ troubles' \in 0..MaxTroubles
  BY IdleIsARun, Troubles DEF Contention, InvocationFails, Inv, ShapeInv
<1>2. run[i].task \in Reading \cup {Schedule} /\ run[i].task.at <= now
  BY <1>1, IdleOrNot, RunFields DEF Inv, ShapeInv, TimeInv
<1>3. inbox' \subseteq Reading /\ \A t \in inbox' : t.at <= now
  BY <1>1, <1>2 DEF Breaks, Inv, ShapeInv, TimeInv
<1>4. FreshRun(Idle)
  BY IdleIsARun DEF FreshRun
<1>5. broken' \in BOOLEAN /\ broken'
  BY <1>1 DEF Breaks
<1> QED  BY <1>1, <1>3, <1>4, <1>5, IdleIsARun, OneRun DEF Breaks, Becomes

LEMMA EndsKeeps ==
  ASSUME Inv, NEW i \in Invocations, Ends(i)
  PROVE  Inv'
<1>1. /\ run[i].stage = "reserve" /\ run[i] \in Running /\ run[i].todo = {}
      /\ run[i].phase = "resumed" => run[i].task \in Reading
      /\ run[i].task.at <= now
  BY Working DEF Ends, At, Stages, Proper
<1>2. /\ UNCHANGED <<now, toReport, journey, events, mails, closed, reported, broken, late>>
      /\ inbox' \subseteq inbox /\ troubles' \in 0..MaxTroubles
  BY Troubles DEF Ends, Inv, ShapeInv
<1>3. CASE run[i].phase = "resumed"
  <2>1. PICK p : p = Onward(i, "update-read", "last")
    OBVIOUS
  <2>2. /\ p \in Running /\ p.stage = "update-read" /\ p.phase = "last" /\ p.task = run[i].task
        /\ p.todo = {}
    BY <1>1, <2>1, Onwards DEF Stages
  <2>3. PICK q : q = [p EXCEPT !.id = 0]
    OBVIOUS
  <2>4. /\ q \in Running /\ q.stage = "update-read" /\ q.phase = "last" /\ q.task = run[i].task
        /\ q.todo = {}
    BY <2>2, <2>3, Times DEF Running
  <2>5. run' = [run EXCEPT ![i] = q]
    BY <1>3, <2>1, <2>3 DEF Ends, Becomes
  <2>6. q \in Runs /\ FreshRun(q)
    BY <1>1, <1>3, <2>4 DEF Runs, Proper, FreshRun
  <2> QED  BY <1>1, <1>2, <2>4, <2>5, <2>6, OneRun DEF Inv, ShapeInv, TimeInv
<1>4. CASE run[i].phase # "resumed"
  <2>1. run' = [run EXCEPT ![i] = Idle]
    BY <1>4 DEF Ends, Becomes
  <2>2. FreshRun(Idle)
    BY IdleIsARun DEF FreshRun
  <2> QED  BY <1>1, <1>2, <2>1, <2>2, IdleIsARun, OneRun DEF Inv, ShapeInv, TimeInv
<1> QED  BY <1>3, <1>4

-----------------------------------------------------------------------------
(* Events and mails.                                                       *)

LEMMA ReservesKeeps ==
  ASSUME Inv, NEW i \in Invocations, NEW u \in Users, Reserves(i, u)
  PROVE  Inv'
<1>1. /\ run[i].stage = "reserve" /\ run[i] \in Running /\ run[i] # Idle /\ u \in run[i].todo
      /\ run[i].id \in Time /\ run[i].todo \subseteq Users /\ Proper(run[i])
      /\ run[i].task.at <= now
  BY Working DEF Reserves, At, Stages
<1>2. PICK e : e = EventOf(run[i].id, u)
  OBVIOUS
<1>3. /\ events' = events \cup {e} /\ e \in [id: Time, user: Users]
      /\ e.id = run[i].id /\ e.user = u
  BY <1>1, <1>2 DEF Reserves, EventOf
<1>4. PICK q : q = IF e \notin events /\ u \in WantsJourney
                    THEN [run[i] EXCEPT !.stage = "publish", !.todo = @ \ {u}, !.user = {u}]
                    ELSE [run[i] EXCEPT !.todo = @ \ {u}]
  OBVIOUS
<1>5. run' = [run EXCEPT ![i] = q]
  BY <1>2, <1>4 DEF Reserves, Becomes, EventOf
<1>6. /\ q \in Running /\ q.task = run[i].task /\ q.id = run[i].id /\ q.phase = run[i].phase
      /\ q.stage \in {"reserve", "publish"} /\ q.todo = run[i].todo \ {u}
      /\ q.stage = "publish" => q.user = {u}
      /\ e \notin events /\ u \in WantsJourney => q.stage = "publish"
  BY <1>1, <1>4 DEF Running
<1>7. q \in Runs /\ FreshRun(q) /\ q # Idle
  BY <1>1, <1>6, IdleIsARun DEF Runs, Proper, FreshRun
<1>8. UNCHANGED <<now, toReport, journey, inbox, mails, closed, reported, troubles, broken, late>>
  BY DEF Reserves, ghosts
<1>9. run'[i] = q /\ \A k \in Invocations \ {i} : run'[k] = run[k]
  BY <1>5 DEF Inv, ShapeInv
<1>10. ShapeInv'
  BY <1>3, <1>5, <1>7, <1>8 DEF Inv, ShapeInv, Bare
<1>11. TimeInv'
  BY <1>1, <1>6, <1>8, <1>9 DEF Inv, TimeInv
<1>12. FreshInv'
  <2>1. ASSUME NEW k \in Invocations
        PROVE  FreshRun(run[k])'
    <3>1. PICK r : r = run'[k] /\ FreshRun(r)
      BY <1>7, <1>9 DEF Inv, FreshInv
    <3> QED  BY <1>8, <3>1 DEF FreshRun, SealedFor, TimeOf
  <2> QED  BY <2>1 DEF FreshInv
<1>13. ClosedInv' /\ StopInv'
  BY <1>8 DEF Inv, ClosedInv, ClosedOnce, StopInv, ShortStopDoesNotSplit
<1>14. ReportInv'
  <2>1. mails' \subseteq events'
    BY <1>3, <1>8 DEF Inv, ReportInv
  <2>2. ASSUME NEW k \in Invocations, At(k, "publish")', NEW w \in run'[k].user
        PROVE  EventOf(run'[k].id, w) \in events'
    BY <1>2, <1>3, <1>6, <1>9, <2>2 DEF Inv, ReportInv, At
  <2>3. ASSUME ~broken', NEW x \in events', x.user \in WantsJourney
        PROVE  Mailed(x)'
    <3>1. CASE x \in events
      <4>1. Mailed(x)
        BY <1>8, <2>3, <3>1 DEF Inv, ReportInv
      <4>2. \A k \in Invocations : At(k, "publish") => k # i
        BY <1>1 DEF At
      <4> QED  BY <1>8, <1>9, <4>1, <4>2 DEF Mailed, At
    <3>2. CASE x \notin events
      <4>1. x = e
        BY <1>3, <3>2
      <4>2. q.stage = "publish" /\ q.id = x.id /\ x.user \in q.user
        BY <1>3, <1>6, <2>3, <3>2, <4>1
      <4> QED  BY <1>9, <4>2 DEF Mailed, At
    <3> QED  BY <3>1, <3>2
  <2>4. ASSUME ~broken', NEW id \in reported', NEW w \in Users
        PROVE  Recorded(id, w)'
    <3>1. Recorded(id, w)
      BY <1>8, <2>4 DEF Inv, ReportInv
    <3>2. CASE EventOf(id, w) \in events
      BY <1>3, <3>2 DEF Recorded, EventOf
    <3>3. ASSUME NEW k \in Invocations, run[k].stage \in {"reserve", "publish"},
                 run[k].id = id, w \in run[k].todo
          PROVE  Recorded(id, w)'
      <4>1. CASE k = i /\ w = u
        BY <1>2, <1>3, <3>3, <4>1 DEF Recorded, EventOf
      <4>2. CASE k = i /\ w # u
        BY <1>6, <1>9, <3>3, <4>2 DEF Recorded
      <4>3. CASE k # i
        BY <1>9, <3>3, <4>3 DEF Recorded
      <4> QED  BY <4>1, <4>2, <4>3
    <3> QED  BY <3>1, <3>2, <3>3 DEF Recorded
  <2> QED  BY <2>1, <2>2, <2>3, <2>4 DEF ReportInv
<1> QED  BY <1>10, <1>11, <1>12, <1>13, <1>14 DEF Inv

LEMMA PublishesKeeps ==
  ASSUME Inv, NEW i \in Invocations, Publishes(i)
  PROVE  Inv'
<1>1. /\ run[i].stage = "publish" /\ run[i] \in Running /\ run[i] # Idle
      /\ Proper(run[i]) /\ run[i].task.at <= now
  BY Working DEF Publishes, At, Stages
<1>2. PICK q : q = [run[i] EXCEPT !.stage = "reserve", !.user = {}]
  OBVIOUS
<1>3. /\ q \in Running /\ q.task = run[i].task /\ q.id = run[i].id /\ q.phase = run[i].phase
      /\ q.stage = "reserve" /\ q.todo = run[i].todo
  BY <1>1, <1>2 DEF Running
<1>4. q \in Runs /\ FreshRun(q) /\ q # Idle
  BY <1>1, <1>3, IdleIsARun DEF Runs, Proper, FreshRun
<1>5. /\ UNCHANGED <<now, toReport, journey, inbox, events, closed, reported, troubles, broken, late>>
      /\ run' = [run EXCEPT ![i] = q]
  BY <1>2 DEF Publishes, Becomes, ghosts
<1>6. run'[i] = q /\ \A k \in Invocations \ {i} : run'[k] = run[k]
  BY <1>5 DEF Inv, ShapeInv
<1>7. mails' = mails \cup {EventOf(run[i].id, u) : u \in run[i].user}
  BY DEF Publishes, EventOf
<1>8. ShapeInv'
  BY <1>4, <1>5 DEF Inv, ShapeInv, Bare
<1>9. TimeInv'
  BY <1>1, <1>3, <1>5, <1>6 DEF Inv, TimeInv
<1>10. FreshInv'
  <2>1. ASSUME NEW k \in Invocations
        PROVE  FreshRun(run[k])'
    <3>1. PICK r : r = run'[k] /\ FreshRun(r)
      BY <1>4, <1>6 DEF Inv, FreshInv
    <3> QED  BY <1>5, <3>1 DEF FreshRun, SealedFor, TimeOf
  <2> QED  BY <2>1 DEF FreshInv
<1>11. ClosedInv' /\ StopInv'
  BY <1>5 DEF Inv, ClosedInv, ClosedOnce, StopInv, ShortStopDoesNotSplit
<1>12. ReportInv'
  <2>1. mails' \subseteq events'
    BY <1>1, <1>5, <1>7 DEF Inv, ReportInv, At
  <2>2. ASSUME NEW k \in Invocations, At(k, "publish")', NEW w \in run'[k].user
        PROVE  EventOf(run'[k].id, w) \in events'
    BY <1>3, <1>5, <1>6, <2>2 DEF Inv, ReportInv, At
  <2>3. ASSUME ~broken', NEW x \in events', x.user \in WantsJourney
        PROVE  Mailed(x)'
    <3>1. Mailed(x)
      BY <1>5, <2>3 DEF Inv, ReportInv
    <3>2. CASE x \in mails
      BY <1>7, <3>2 DEF Mailed
    <3>3. ASSUME NEW k \in Invocations, At(k, "publish"), run[k].id = x.id, x.user \in run[k].user
          PROVE  Mailed(x)'
      <4>1. CASE k = i
        <5>1. x \in [id: Time, user: Users]
          BY <1>5, <2>3 DEF Inv, ShapeInv
        <5>2. x = EventOf(run[i].id, x.user)
          BY <3>3, <4>1, <5>1 DEF EventOf
        <5> QED  BY <1>7, <3>3, <4>1, <5>2 DEF Mailed
      <4>2. CASE k # i
        BY <1>6, <3>3, <4>2 DEF Mailed, At
      <4> QED  BY <4>1, <4>2
    <3> QED  BY <3>1, <3>2, <3>3 DEF Mailed
  <2>4. ASSUME ~broken', NEW id \in reported', NEW w \in Users
        PROVE  Recorded(id, w)'
    <3>1. Recorded(id, w)
      BY <1>5, <2>4 DEF Inv, ReportInv
    <3>2. \A k \in Invocations : run[k].stage \in {"reserve", "publish"} =>
            /\ run'[k].stage \in {"reserve", "publish"} /\ run'[k].id = run[k].id
            /\ run'[k].todo = run[k].todo
      BY <1>3, <1>6
    <3> QED  BY <1>5, <3>1, <3>2 DEF Recorded, EventOf
  <2> QED  BY <2>1, <2>2, <2>3, <2>4 DEF ReportInv
<1> QED  BY <1>8, <1>9, <1>10, <1>11, <1>12 DEF Inv

-----------------------------------------------------------------------------
(* Puts: every other invocation has then read a row that is out of date.   *)

LEMMA PutRuns ==
  ASSUME Inv, NEW i \in Invocations, run[i] # Idle, NEW q \in Runs, q # Idle,
         q.task = run[i].task, q.stage # "close-put", run' = [Outdated EXCEPT ![i] = q], now' = now
  PROVE  /\ run'[i] = q /\ \A k \in Invocations \ {i} : run'[k] = Outdated[k]
         /\ run' \in [Invocations -> Runs] /\ FreshInv'
         /\ \A k \in Invocations : run'[k] # Idle => run'[k].task.at <= now
<1>1. \A k \in Invocations : Outdated[k] \in Runs
  BY Others DEF Inv, ShapeInv
<1>2. /\ run'[i] = q /\ \A k \in Invocations \ {i} : run'[k] = Outdated[k]
      /\ run' \in [Invocations -> Runs]
  BY <1>1 DEF Outdated
<1>3. FreshInv'
  <2>1. ASSUME NEW k \in Invocations, run'[k].stage = "close-put", run'[k].fresh
        PROVE  FALSE
    <3>1. k # i /\ run'[k] = Outdated[k]
      BY <1>2, <2>1
    <3>2. run[k] # Idle /\ ~Outdated[k].fresh
      BY <2>1, <3>1, Others, IdleIsARun DEF Inv, ShapeInv
    <3> QED  BY <2>1, <3>1, <3>2
  <2> QED  BY <2>1 DEF FreshInv, FreshRun
<1>4. \A k \in Invocations : run'[k] # Idle => run'[k].task.at <= now
  <2>1. \A k \in Invocations \ {i} : Outdated[k] # Idle => Outdated[k].task.at <= now
    BY Others DEF Inv, ShapeInv, TimeInv
  <2> QED  BY <1>2, <2>1 DEF Inv, TimeInv
<1> QED  BY <1>2, <1>3, <1>4

LEMMA UpdatePutsKeeps ==
  ASSUME Inv, NEW i \in Invocations, UpdatePuts(i)
  PROVE  Inv'
<1>1. /\ run[i].stage = "update-put" /\ run[i] \in Running /\ run[i] # Idle
      /\ run[i].task \in Reading /\ run[i].todo = {} /\ run[i].task.at <= now
  BY Working DEF UpdatePuts, At, Stages, Proper
<1>2. PICK t \in Reading : t = run[i].task
  BY <1>1
<1>3. PICK k : k = ApplyJourneyUpdate(journey, t)
  OBVIOUS
<1>4. journey' = k
  BY <1>2, <1>3 DEF UpdatePuts
<1>5. /\ k \in Journey /\ k.trigger # "telemetry_timeout"
      /\ k.lastMoving <= k.lastSpeed /\ journey.lastSpeed <= k.lastSpeed
      /\ k.id = 0 => k = Bare(k)
      /\ k.id # journey.id => journey.id = 0 /\ k.id = t.at /\ t.at > journey.lastSpeed
  BY <1>3, Updating DEF Inv, ShapeInv, ClosedInv
<1>6. PICK q : q = AfterUpdate(i, k)
  OBVIOUS
<1>7. /\ q \in Running /\ q.stage \in {"close-read", "reserve"} /\ q.phase = "last"
      /\ q.task = run[i].task /\ q.todo = {} /\ q.id = run[i].id
  <2>1. q \in {Onward(i, "close-read", "last"), Onward(i, "reserve", "last")}
    BY <1>6 DEF AfterUpdate
  <2> QED  BY <1>1, <2>1, Onwards DEF Stages
<1>8. q \in Runs /\ q # Idle
  BY <1>7, IdleIsARun DEF Runs, Proper
<1>9. run' = [Outdated EXCEPT ![i] = q]
  BY <1>4, <1>6 DEF UpdatePuts
<1>10. /\ UNCHANGED <<now, toReport, inbox, events, mails, closed, reported, troubles, broken>>
       /\ late' \in BOOLEAN
       /\ ~late' => ~late /\ ~(run[i].task.at < now)
  BY DEF UpdatePuts
<1>11. /\ run'[i] = q /\ \A x \in Invocations \ {i} : run'[x] = Outdated[x]
       /\ run' \in [Invocations -> Runs] /\ FreshInv'
       /\ \A x \in Invocations : run'[x] # Idle => run'[x].task.at <= now
  BY <1>1, <1>7, <1>8, <1>9, <1>10, PutRuns
<1>12. ShapeInv'
  BY <1>4, <1>5, <1>10, <1>11 DEF Inv, ShapeInv, Bare
<1>13. TimeInv'
  BY <1>10, <1>11 DEF Inv, TimeInv
<1>14. /\ closed \in Seq(Journey) /\ \A n \in DOMAIN closed : closed[n] \in Journey
       /\ journey.lastSpeed \in Nat /\ k.lastSpeed \in Nat /\ k.id \in Nat /\ t.at \in Nat /\ now \in Nat
       /\ \A n \in DOMAIN closed : closed[n].lastMoving \in Nat /\ closed[n].stoppedAt \in Nat
       /\ StopDelay \in Nat
  <2>1. closed \in Seq(Journey) /\ \A n \in DOMAIN closed : closed[n] \in Journey
    BY DEF Inv, ShapeInv
  <2>2. journey \in Journey /\ now \in Nat
    BY Times DEF Inv, ShapeInv
  <2>3. \A j \in Journey : j.lastSpeed \in Nat /\ j.id \in Nat /\ j.lastMoving \in Nat /\ j.stoppedAt \in Nat
    BY Times DEF Journey
  <2>4. t.at \in Nat
    BY Times DEF Reading
  <2> QED  BY <1>5, <2>1, <2>2, <2>3, <2>4, Times
<1>15. ClosedInv'
  <2>1. ASSUME NEW n \in DOMAIN closed
        PROVE  /\ closed[n].lastMoving <= k.lastSpeed
               /\ k.id # 0 => k.id > closed[n].lastMoving
    BY <1>5, <1>14 DEF Inv, ClosedInv
  <2> QED  BY <1>4, <1>5, <1>10, <2>1 DEF Inv, ClosedInv, ClosedOnce
<1>16. StopInv'
  <2>1. \A n \in DOMAIN closed' : ~closed'[n].charging => now' >= closed'[n].stoppedAt + StopDelay
    BY <1>10 DEF Inv, StopInv
  <2>2. ASSUME ~late', NEW n \in DOMAIN closed, ~closed[n].charging,
               NEW next, next = IF n < Len(closed) THEN closed[n + 1].id ELSE k.id, next # 0
        PROVE  next >= closed[n].stoppedAt + StopDelay
    <3>1. t.at = now /\ ~late
      BY <1>1, <1>2, <1>10, <1>14, <2>2
    <3>2. CASE n < Len(closed) \/ k.id = journey.id
      BY <2>2, <3>1, <3>2 DEF Inv, StopInv, ShortStopDoesNotSplit
    <3>3. CASE ~(n < Len(closed)) /\ k.id # journey.id
      BY <1>5, <2>2, <3>1, <3>3 DEF Inv, StopInv
    <3> QED  BY <3>2, <3>3
  <2>3. ShortStopDoesNotSplit'
    BY <1>4, <1>10, <2>2 DEF ShortStopDoesNotSplit
  <2> QED  BY <2>1, <2>3 DEF StopInv
<1>17. ReportInv'
  <2>1. \A x \in Invocations : At(x, "publish")' => At(x, "publish") /\ run'[x].id = run[x].id
                                                    /\ run'[x].user = run[x].user
    BY <1>7, <1>11, Others, IdleIsARun DEF At, Inv, ShapeInv
  <2>2. \A x \in Invocations : At(x, "publish") => /\ At(x, "publish")' /\ run'[x].id = run[x].id
                                                   /\ run'[x].user = run[x].user
    BY <1>1, <1>11, Others, IdleIsARun DEF At, Inv, ShapeInv
  <2>3. \A x \in Invocations : run[x].stage \in {"reserve", "publish"} =>
          /\ run'[x].stage \in {"reserve", "publish"} /\ run'[x].id = run[x].id
          /\ run'[x].todo = run[x].todo
    BY <1>1, <1>11, Others, IdleIsARun DEF Inv, ShapeInv
  <2>4. mails' = mails /\ events' = events /\ broken' = broken /\ reported' = reported
    BY <1>10
  <2>5. \A e : Mailed(e) => Mailed(e)'
    BY <2>2, <2>4 DEF Mailed
  <2>6. \A id, u : Recorded(id, u) => Recorded(id, u)'
    BY <2>3, <2>4 DEF Recorded, EventOf
  <2>7. \A x \in Invocations : At(x, "publish")' =>
          \A u \in run'[x].user : EventOf(run'[x].id, u) \in events'
    BY <2>1, <2>4 DEF Inv, ReportInv
  <2> QED  BY <2>4, <2>5, <2>6, <2>7 DEF Inv, ReportInv
<1> QED  BY <1>11, <1>12, <1>13, <1>15, <1>16, <1>17 DEF Inv

LEMMA ClosePutsKeeps ==
  ASSUME Inv, NEW i \in Invocations, ClosePuts(i)
  PROVE  Inv'
<1>1. /\ run[i].stage = "close-put" /\ run[i] \in Running /\ run[i] # Idle
      /\ run[i].todo = {} /\ run[i].task.at <= now /\ run[i].id \in Time
      /\ run[i].phase \in {"first", "resumed", "last"}
      /\ run[i].phase = "resumed" => run[i].task \in Reading
  BY Working DEF ClosePuts, At, Stages, Proper
<1>2. PICK j : j = Sealed(i)
  OBVIOUS
<1>3. /\ j \in Journey /\ j.id = journey.id /\ j.lastMoving = journey.lastMoving
      /\ j.lastSpeed = journey.lastSpeed
  <2>1. journey \in Journey
    BY DEF Inv, ShapeInv
  <2>2. j = ApplyInactivityTimeout(journey, TimeOf(run[i]))
    BY <1>2, Timed DEF SealedFor
  <2> QED  BY <2>1, <2>2, Sealing
<1>4. Over(j, TimeOf(run[i]))
  BY <1>1, <1>2, Timed DEF ClosePuts, Inv, FreshInv, FreshRun
<1>5. PICK k : k = Bare(j)
  OBVIOUS
<1>6. /\ k \in Journey /\ k.id = 0 /\ k.lastMoving = 0 /\ k.trigger = "none"
      /\ k.lastSpeed = j.lastSpeed /\ k = Bare(k)
  BY <1>3, <1>5, BareFields DEF Journey
<1>7. journey' = k /\ closed' = Append(closed, j)
  BY <1>2, <1>5, BareIsClear DEF ClosePuts
<1>8. PICK far \in BOOLEAN :
        /\ far <=> j.far
        /\ reported' = IF far THEN reported \cup {j.id} ELSE reported
        /\ run' = [Outdated EXCEPT ![i] =
             IF far THEN [Onward(i, "reserve", run[i].phase) EXCEPT !.id = j.id, !.todo = Users]
             ELSE AfterClosing(i)]
  <2>1. j.far \in BOOLEAN /\ Recipients = Users
    BY <1>3 DEF Journey, Recipients, Users
  <2> QED  BY <1>2, <2>1 DEF ClosePuts
<1>9. PICK q : q = IF far THEN [Onward(i, "reserve", run[i].phase) EXCEPT !.id = j.id, !.todo = Users]
                   ELSE AfterClosing(i)
  OBVIOUS
<1>10. /\ q \in Running /\ q.task = run[i].task /\ q.stage \in {"update-read", "reserve"}
       /\ Proper(q)
       /\ far => q.stage = "reserve" /\ q.id = j.id /\ q.todo = Users
  <2>1. CASE far
    <3>1. PICK p : p = Onward(i, "reserve", run[i].phase)
      OBVIOUS
    <3>2. p \in Running /\ p.stage = "reserve" /\ p.phase = run[i].phase /\ p.task = run[i].task
      BY <1>1, <3>1, Onwards DEF Stages
    <3>3. q = [p EXCEPT !.id = j.id, !.todo = Users] /\ j.id \in Time
      BY <1>3, <1>9, <2>1, <3>1 DEF Journey
    <3>4. /\ q \in Running /\ q.stage = "reserve" /\ q.phase = run[i].phase /\ q.task = run[i].task
          /\ q.id = j.id /\ q.todo = Users
      BY <3>2, <3>3 DEF Running
    <3> QED  BY <1>1, <3>4 DEF Proper
  <2>2. CASE ~far
    <3>1. /\ q \in Running /\ q.stage \in {"update-read", "reserve"} /\ q.phase = "last"
          /\ q.task = run[i].task /\ q.todo = {} /\ (q.stage = "update-read" => q.task \in Reading)
      BY <1>1, <1>9, <2>2, AfterClosings
    <3> QED  BY <2>2, <3>1 DEF Proper
  <2> QED  BY <2>1, <2>2
<1>11. q \in Runs /\ q # Idle
  BY <1>10, IdleIsARun DEF Runs
<1>12. /\ UNCHANGED <<now, toReport, inbox, events, mails, troubles, broken>>
       /\ late' \in BOOLEAN /\ (~late' => ~late)
  BY DEF ClosePuts, Inv, ShapeInv
<1>13. /\ run'[i] = q /\ \A x \in Invocations \ {i} : run'[x] = Outdated[x]
       /\ run' \in [Invocations -> Runs] /\ FreshInv'
       /\ \A x \in Invocations : run'[x] # Idle => run'[x].task.at <= now
  <2>1. run' = [Outdated EXCEPT ![i] = q]
    BY <1>8, <1>9
  <2> QED  BY <1>1, <1>10, <1>11, <1>12, <2>1, PutRuns
<1>14. /\ closed \in Seq(Journey) /\ closed' \in Seq(Journey) /\ Len(closed) \in Nat
       /\ DOMAIN closed' = 1..(Len(closed) + 1) /\ DOMAIN closed = 1..Len(closed)
       /\ Len(closed') = Len(closed) + 1
       /\ \A n \in 1..Len(closed) : closed'[n] = closed[n]
       /\ closed'[Len(closed) + 1] = j
  BY <1>3, <1>7 DEF Inv, ShapeInv
<1>15. ShapeInv'
  <2>1. reported' \subseteq Time
    BY <1>3, <1>8 DEF Inv, ShapeInv, Journey
  <2> QED  BY <1>6, <1>7, <1>12, <1>13, <1>14, <2>1 DEF Inv, ShapeInv, Bare
<1>16. TimeInv'
  BY <1>12, <1>13 DEF Inv, TimeInv
<1>17. /\ journey.lastMoving \in Nat /\ journey.lastSpeed \in Nat /\ journey.id \in Nat /\ journey.id # 0
       /\ j.stoppedAt \in Nat /\ now \in Nat /\ StopDelay \in Nat
  BY <1>3, <1>4, Times DEF Inv, ShapeInv, Journey, Over
<1>18. ClosedInv'
  <2>1. \A n \in 1..Len(closed) : journey.id > closed[n].lastMoving /\ closed[n].lastMoving <= journey.lastSpeed
    BY <1>14, <1>17 DEF Inv, ClosedInv
  <2>2. journey'.lastMoving <= journey'.lastSpeed
    BY <1>3, <1>6, <1>7, <1>17
  <2>3. \A n \in DOMAIN closed' : /\ closed'[n].lastMoving <= journey'.lastSpeed
                                  /\ journey'.id # 0 => journey'.id > closed'[n].lastMoving
    <3> SUFFICES ASSUME NEW n \in 1..(Len(closed) + 1)
                 PROVE  closed'[n].lastMoving <= journey.lastSpeed
      BY <1>3, <1>6, <1>7, <1>14
    <3>1. CASE n = Len(closed) + 1
      BY <1>3, <1>14, <3>1 DEF Inv, ClosedInv
    <3>2. CASE n # Len(closed) + 1
      <4>1. n \in 1..Len(closed)
        BY <1>14, <3>2
      <4> QED  BY <1>14, <2>1, <4>1
    <3> QED  BY <3>1, <3>2
  <2>4. ClosedOnce'
    <3> SUFFICES ASSUME NEW m \in 1..(Len(closed) + 1), NEW n \in 1..(Len(closed) + 1), m < n
                 PROVE  closed'[n].id > closed'[m].lastMoving
      BY <1>14 DEF ClosedOnce
    <3>1. m \in 1..Len(closed)
      BY <1>14
    <3>2. CASE n = Len(closed) + 1
      BY <1>3, <1>14, <2>1, <3>1, <3>2
    <3>3. CASE n # Len(closed) + 1
      <4>1. n \in 1..Len(closed)
        BY <1>14, <3>3
      <4> QED  BY <1>14, <3>1, <4>1 DEF Inv, ClosedInv, ClosedOnce
    <3> QED  BY <3>2, <3>3
  <2> QED  BY <2>2, <2>3, <2>4 DEF ClosedInv
<1>19. StopInv'
  <2>1. ~j.charging => now >= j.stoppedAt + StopDelay
    BY <1>1, <1>4, <1>17, Timely DEF Over
  <2>2. ASSUME NEW n \in 1..(Len(closed) + 1), ~closed'[n].charging
        PROVE  now >= closed'[n].stoppedAt + StopDelay
    <3>1. CASE n = Len(closed) + 1
      BY <1>14, <2>1, <2>2, <3>1
    <3>2. CASE n # Len(closed) + 1
      <4>1. n \in 1..Len(closed)
        BY <1>14, <3>2
      <4> QED  BY <1>14, <2>2, <4>1 DEF Inv, StopInv
    <3> QED  BY <3>1, <3>2
  <2>3. ASSUME ~late', NEW n \in 1..(Len(closed) + 1), ~closed'[n].charging,
               NEW next, next = IF n < Len(closed) + 1 THEN closed'[n + 1].id ELSE k.id, next # 0
        PROVE  next >= closed'[n].stoppedAt + StopDelay
    <3>1. n \in 1..Len(closed) /\ ~late
      BY <1>6, <1>12, <1>14, <2>3
    <3>2. next = IF n < Len(closed) THEN closed[n + 1].id ELSE journey.id
      <4>1. CASE n < Len(closed)
        <5>1. n + 1 \in 1..Len(closed)
          BY <1>14, <3>1, <4>1
        <5> QED  BY <1>14, <2>3, <3>1, <4>1, <5>1
      <4>2. CASE n = Len(closed)
        BY <1>3, <1>14, <2>3, <3>1, <4>2
      <4>3. n < Len(closed) \/ n = Len(closed)
        <5>1. n \in 1..Len(closed) /\ Len(closed) \in Nat
          BY <1>14, <3>1
        <5> QED  BY <5>1
      <4> QED  BY <4>1, <4>2, <4>3
    <3>3. ~closed[n].charging /\ closed'[n].stoppedAt = closed[n].stoppedAt
      BY <1>14, <2>3, <3>1
    <3> QED  BY <1>14, <2>3, <3>1, <3>2, <3>3 DEF Inv, StopInv, ShortStopDoesNotSplit
  <2>4. ShortStopDoesNotSplit'
    BY <1>7, <1>14, <2>3 DEF ShortStopDoesNotSplit
  <2>5. \A n \in DOMAIN closed' : ~closed'[n].charging => now' >= closed'[n].stoppedAt + StopDelay
    BY <1>12, <1>14, <2>2
  <2> QED  BY <2>4, <2>5 DEF StopInv
<1>20. ReportInv'
  <2>1. \A x \in Invocations : At(x, "publish")' => /\ At(x, "publish") /\ run'[x].id = run[x].id
                                                    /\ run'[x].user = run[x].user
    BY <1>10, <1>13, Others, IdleIsARun DEF At, Inv, ShapeInv
  <2>2. \A x \in Invocations : At(x, "publish") => /\ At(x, "publish")' /\ run'[x].id = run[x].id
                                                   /\ run'[x].user = run[x].user
    BY <1>1, <1>13, Others, IdleIsARun DEF At, Inv, ShapeInv
  <2>3. \A x \in Invocations : run[x].stage \in {"reserve", "publish"} =>
          /\ run'[x].stage \in {"reserve", "publish"} /\ run'[x].id = run[x].id
          /\ run'[x].todo = run[x].todo
    BY <1>1, <1>13, Others, IdleIsARun DEF Inv, ShapeInv
  <2>4. mails' = mails /\ events' = events /\ (broken' <=> broken)
    BY <1>12
  <2>5. \A e : Mailed(e) => Mailed(e)'
    BY <2>2, <2>4 DEF Mailed
  <2>6. \A id, u : Recorded(id, u) => Recorded(id, u)'
    BY <2>3, <2>4 DEF Recorded, EventOf
  <2>7. \A x \in Invocations : At(x, "publish")' =>
          \A u \in run'[x].user : EventOf(run'[x].id, u) \in events'
    BY <2>1, <2>4 DEF Inv, ReportInv
  <2>8. ASSUME NEW id \in reported', NEW u \in Users, ~broken
        PROVE  Recorded(id, u)'
    <3>1. CASE id \in reported
      BY <2>6, <2>8, <3>1 DEF Inv, ReportInv
    <3>2. CASE id \notin reported
      <4>1. far /\ id = j.id
        BY <1>8, <2>8, <3>2
      <4> QED  BY <1>10, <1>13, <4>1 DEF Recorded
    <3> QED  BY <3>1, <3>2
  <2> QED  BY <2>4, <2>5, <2>7, <2>8 DEF Inv, ReportInv
<1> QED  BY <1>13, <1>15, <1>16, <1>18, <1>19, <1>20 DEF Inv

-----------------------------------------------------------------------------
(* The inductive invariant.                                                *)

LEMMA InvStart ==
  ASSUME Init
  PROVE  Inv
<1>1. PICK script \in Scripts :
        /\ toReport = script.readings
        /\ journey = IF script.driving THEN Start(NoJourney, 1) ELSE NoJourney
  BY DEF Init
<1>2. journey \in Journey /\ journey.trigger # "telemetry_timeout" /\ journey.lastMoving <= journey.lastSpeed
      /\ (journey.id = 0 => journey = Bare(journey))
  <2>1. CASE script.driving
    <3>1. journey = [id |-> 1, lastMoving |-> 1, stoppedAt |-> 0, trigger |-> "none",
                     charging |-> FALSE, waitUntil |-> 0, far |-> FALSE, counterAt |-> 0,
                     lastSpeed |-> 1, signalAt |-> 0]
      BY <1>1, <2>1 DEF Start, NoJourney
    <3> QED  BY <3>1, Times DEF Journey
  <2>2. CASE ~script.driving
    <3>1. journey = NoJourney
      BY <1>1, <2>2
    <3>2. NoJourney.lastSpeed = 0 /\ NoJourney.signalAt = 0 /\ NoJourney.lastMoving = 0
          /\ NoJourney.trigger = "none"
      BY DEF NoJourney
    <3>3. Bare(NoJourney) = NoJourney
      BY <3>2, BareRow DEF NoJourney
    <3>4. NoJourney \in Journey
      BY Times DEF NoJourney, Journey
    <3> QED  BY <3>1, <3>2, <3>3, <3>4
  <2> QED  BY <2>1, <2>2
<1>3. troubles \in 0..MaxTroubles /\ toReport \in Seq(Kinds)
  BY <1>1, JourneyAssumption DEF JourneyAssumption, Init
<1>4. ShapeInv
  <2>1. /\ now = 2 /\ closed = <<>> /\ reported = {} /\ events = {} /\ inbox = {}
        /\ run = [i \in Invocations |-> Idle]
    BY DEF Init
  <2>2. broken \in BOOLEAN /\ late \in BOOLEAN
    BY DEF Init
  <2>3. now \in Time /\ now > 0
    BY <2>1, Times
  <2>4. run \in [Invocations -> Runs] /\ closed \in Seq(Journey)
    BY <2>1, IdleIsARun
  <2> QED  BY <1>2, <1>3, <2>1, <2>2, <2>3, <2>4 DEF ShapeInv
<1>5. TimeInv /\ FreshInv
  BY IdleIsARun DEF Init, TimeInv, FreshInv, FreshRun
<1>6. ClosedInv /\ StopInv
  BY <1>2 DEF Init, ClosedInv, ClosedOnce, StopInv, ShortStopDoesNotSplit
<1>7. ReportInv
  BY IdleIsARun DEF Init, ReportInv, At
<1> QED  BY <1>4, <1>5, <1>6, <1>7 DEF Inv

LEMMA TickKeeps ==
  ASSUME Inv, Tick
  PROVE  Inv'
<1>1. /\ now' = now + 1 /\ now \in Nat /\ now' \in Time
      /\ UNCHANGED <<toReport, journey, inbox, run, events, mails, ghosts>>
  BY Times, JourneyAssumption DEF Tick, Inv, ShapeInv, Time, JourneyAssumption
<1>2. ShapeInv' /\ ReportInv' /\ ClosedInv'
  BY <1>1 DEF Inv, ShapeInv, ReportInv, ClosedInv, ClosedOnce, Bare, Mailed, Recorded, At, EventOf, ghosts
<1>3. TimeInv'
  <2>1. \A t \in Reading \cup {Schedule} : t.at \in Nat
    <3>1. \A t \in Reading : t.at \in Nat
      BY Times DEF Reading
    <3>2. Schedule.at \in Nat
      BY DEF Schedule
    <3> QED  BY <3>1, <3>2
  <2>2. \A i \in Invocations : run[i] # Idle => run[i].task \in Reading \cup {Schedule}
    BY IdleOrNot, RunFields DEF Inv, ShapeInv
  <2>3. \A t \in Reading \cup {Schedule} : t.at <= now => t.at <= now'
    BY <1>1, <2>1
  <2> QED  BY <1>1, <2>2, <2>3 DEF Inv, ShapeInv, TimeInv
<1>4. FreshInv'
  <2> SUFFICES ASSUME NEW i \in Invocations, run[i].stage = "close-put", run[i].fresh
               PROVE  Over(SealedFor(run[i])', TimeOf(run[i])')
    BY <1>1 DEF FreshInv, FreshRun, Over
  <2>1. Over(SealedFor(run[i]), TimeOf(run[i]))
    BY DEF Inv, FreshInv, FreshRun
  <2>2. run[i] # Idle /\ TimeOf(run[i]) \in Nat
    BY IdleIsARun, Timely
  <2>3. TimeOf(run[i])' \in Nat /\ TimeOf(run[i]) <= TimeOf(run[i])'
    BY <1>1, <2>2 DEF TimeOf
  <2>4. journey' = journey /\ journey \in Journey
    BY <1>1 DEF Inv, ShapeInv
  <2> QED  BY <2>1, <2>2, <2>3, <2>4, OverStays DEF SealedFor
<1>5. StopInv'
  <2>1. \A n \in DOMAIN closed : closed[n].stoppedAt \in Nat
    <3>1. \A n \in DOMAIN closed : closed[n] \in Journey
      BY DEF Inv, ShapeInv
    <3>2. \A j \in Journey : j.stoppedAt \in Nat
      BY Times DEF Journey
    <3> QED  BY <3>1, <3>2
  <2>2. ASSUME NEW n \in DOMAIN closed, ~closed[n].charging
        PROVE  now' >= closed[n].stoppedAt + StopDelay
    <3>1. now >= closed[n].stoppedAt + StopDelay
      BY <2>2 DEF Inv, StopInv
    <3> QED  BY <1>1, <2>1, <2>2, <3>1, Times
  <2> QED  BY <1>1, <2>2 DEF Inv, StopInv, ShortStopDoesNotSplit, ghosts
<1> QED  BY <1>2, <1>3, <1>4, <1>5 DEF Inv

LEMMA QuietSteps ==
  ASSUME Inv, CarReports \/ UNCHANGED vars
  PROVE  Inv'
<1>1. /\ UNCHANGED <<now, journey, run, events, mails, ghosts>>
      /\ inbox' \subseteq Reading /\ \A t \in inbox' : t.at <= now
      /\ toReport' \in Seq(Kinds)
  <2>1. CASE CarReports
    <3>1. toReport \in Seq(Kinds) /\ toReport # <<>>
      BY <2>1 DEF CarReports, Inv, ShapeInv
    <3>2. Head(toReport) \in Kinds /\ Tail(toReport) \in Seq(Kinds)
      BY <3>1
    <3>3. now \in Time /\ now \in Nat
      BY Times DEF Inv, ShapeInv
    <3>4. PICK t : t = [kind |-> Head(toReport), at |-> now]
      OBVIOUS
    <3>5. t \in Reading /\ t.at <= now
      BY <3>2, <3>3, <3>4 DEF Reading
    <3>6. inbox' = inbox \cup {t}
      BY <2>1, <3>4 DEF CarReports
    <3> QED  BY <2>1, <3>2, <3>5, <3>6 DEF CarReports, Inv, ShapeInv, TimeInv
  <2>2. CASE UNCHANGED vars
    BY <2>2 DEF vars, Inv, ShapeInv, TimeInv
  <2> QED  BY <2>1, <2>2
<1>2. ShapeInv' /\ TimeInv' /\ ReportInv'
  BY <1>1 DEF Inv, ShapeInv, TimeInv, ReportInv, Bare, Mailed, Recorded, At, EventOf, ghosts
<1>3. FreshInv'
  BY <1>1 DEF Inv, FreshInv, FreshRun, SealedFor, TimeOf
<1>4. ClosedInv' /\ StopInv'
  BY <1>1 DEF Inv, ClosedInv, ClosedOnce, StopInv, ShortStopDoesNotSplit, ghosts
<1> QED  BY <1>2, <1>3, <1>4 DEF Inv

LEMMA InvKept ==
  ASSUME Inv, [Next]_vars
  PROVE  Inv'
<1>1. ASSUME NEW i \in Invocations, Works(i) \/ Contention(i) \/ InvocationFails(i)
      PROVE  Inv'
  BY <1>1, UpdateReadsKeeps, UpdatePutsKeeps, CloseReadsKeeps, ClosePutsKeeps, CollidesKeeps,
     PublishesKeeps, EndsKeeps, ReservesKeeps, BreaksKeeps DEF Works
<1>2. Readers \subseteq Invocations /\ Closers \subseteq Invocations
  BY DEF Invocations
<1> QED  BY <1>1, <1>2, BeginKeeps, TickKeeps, QuietSteps DEF Next

THEOREM Invariance == Spec => []Inv
BY InvStart, InvKept, PTL DEF Spec

(* Rows, tasks and invocations have their shape, and a row without a       *)
(* journey holds nothing of one.                                           *)
THEOREM TypeCorrect == Spec => []TypeOK
<1>1. Inv => TypeOK
  BY DEF Inv, ShapeInv, ReportInv, TypeOK, Runs, Bare
<1> QED  BY <1>1, Invariance, PTL

(* A journey starts after the last movement of every journey closed before.*)
THEOREM JourneysApart == Spec => []ClosedOnce
<1>1. Inv => ClosedOnce
  BY DEF Inv, ClosedInv
<1> QED  BY <1>1, Invariance, PTL

(* While readings are stored in time, only a stop of StopDelay splits.     *)
THEOREM NoSplit == Spec => []ShortStopDoesNotSplit
<1>1. Inv => ShortStopDoesNotSplit
  BY DEF Inv, StopInv
<1> QED  BY <1>1, Invariance, PTL

(* Without a failure every closed journey is recorded for its users, and   *)
(* mailed to those who want that, once all that was delivered is handled.  *)
THEOREM JourneyRecorded == Spec => []JourneyIsRecorded
<1>1. ASSUME Inv, run = [i \in Invocations |-> Idle], ~broken
      PROVE  /\ reported \X Users \subseteq {<<e.id, e.user>> : e \in events}
             /\ reported \X WantsJourney \subseteq {<<m.id, m.user>> : m \in mails}
  <2>1. \A i \in Invocations : run[i].stage = "idle"
    BY <1>1, IdleIsARun
  <2>2. \A id \in reported, u \in Users : EventOf(id, u) \in events
    BY <1>1, <2>1 DEF Inv, ReportInv, Recorded
  <2>3. \A id \in reported, u \in WantsJourney : EventOf(id, u) \in mails
    <3> SUFFICES ASSUME NEW id \in reported, NEW u \in WantsJourney
                 PROVE  EventOf(id, u) \in mails
      OBVIOUS
    <3>1. EventOf(id, u) \in events /\ EventOf(id, u).user = u
      BY <2>2 DEF Users, EventOf
    <3> QED  BY <1>1, <2>1, <3>1 DEF Inv, ReportInv, Mailed, At
  <2>4. \A id, u : EventOf(id, u).id = id /\ EventOf(id, u).user = u
    BY DEF EventOf
  <2> QED  BY <2>2, <2>3, <2>4
<1>2. Inv => JourneyIsRecorded
  BY <1>1 DEF JourneyIsRecorded
<1> QED  BY <1>2, Invariance, PTL

-----------------------------------------------------------------------------
(* The composition that TLC runs.                                          *)

(* Each of its behaviours is one of the journeys, fairness apart, and one  *)
(* of the page.                                                            *)
THEOREM Composition == MCSpec => Init /\ [][Next]_vars /\ PageSpec
<1>1. MCInit => Init /\ PageInit
  BY DEF MCInit
<1>2. [MCNext]_<<subject, vars, pageVars>> => [Next]_vars /\ [PageNext]_pageVars
  BY DEF MCNext
<1> QED  BY <1>1, <1>2, PTL DEF MCSpec, PageSpec

(* The row, the tasks and the invocations, the page and its clients keep   *)
(* their shape there.                                                      *)
THEOREM JourneysTyped == MCSpec => []TypesOK
<1>1. Inv => TypeOK
  BY DEF Inv, ShapeInv, ReportInv, TypeOK, Runs, Bare
<1>2. TypeOK /\ PageTypeOK => TypesOK
  BY DEF TypesOK
<1> QED  BY <1>1, <1>2, InvStart, InvKept, Composition, PageTyped, PTL
=============================================================================
