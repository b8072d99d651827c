------------------------------- MODULE Journeys -------------------------------
(***************************************************************************)
(* How the notification Lambda finds journeys: one row per vehicle, moved  *)
(* on by readings that may be late, repeated or out of order, and closed   *)
(* by a reading or by the schedule, whichever puts first.                  *)
(*                                                                         *)
(* A put is conditional on the version that was read, so it succeeds       *)
(* exactly if nobody has put since: an invocation remembers whether its    *)
(* reading is fresh.  Distance, SOC and power are one reading "progress":  *)
(* what matters is when it came and that the journey is then long enough   *)
(* to be reported.  A journey is its id, the time it started.              *)
(*                                                                         *)
(* Left out: status/online, the seeding of the row from the older layout,  *)
(* implausible energy, which closes without a report like a short journey, *)
(* and the diagnostics kept of the last completion.                        *)
(***************************************************************************)
EXTENDS Naturals, Sequences, FiniteSets, TLC

CONSTANTS
  WantsJourney,      \* users with emailEnabled and journeyEmailEnabled
  WantsDaily,        \* ... with emailEnabled and dailySummaryEmailEnabled
  Readers,           \* invocations for readings that may run at the same time
  Closers,           \* ... and for the schedule
  StopDelay, Inactivity, MinMoving, MovementGuard, CounterGrace, CounterWait,
                     \* the delays of journey_state.py, in ticks
  UpdateAttempts,    \* JOURNEY_UPDATE_ATTEMPTS
  Scripts,           \* bound: the readings of the car, in its order, and
                     \* whether it was driving and this was stored before
  LastReport,        \* bound on the time of the last of them
  LastTick,          \* bound on the clock
  MaxBacklog,        \* bound on the tasks AWS has when the car reports another
  MaxTroubles        \* bound on failures and repeated deliveries

Kinds == {"moving", "zero", "charge", "progress", "counter"}

ASSUME JourneyAssumption ==
  /\ {StopDelay, Inactivity, MinMoving, MovementGuard, CounterGrace, CounterWait,
      LastReport, LastTick, MaxBacklog, MaxTroubles} \subseteq Nat
  /\ StopDelay > 0 /\ StopDelay <= Inactivity /\ UpdateAttempts \in Nat \ {0}
  /\ LastTick > 1
  /\ \A s \in Scripts : s.driving \in BOOLEAN /\ s.readings \in Seq(Kinds)

VARIABLES
  now,        \* time
  toReport,   \* what the car has still to report
  journey,    \* the fields of JourneyState in the row journey#<vehicle>
  inbox,      \* readings AWS still delivers
  run,        \* the invocations
  events,     \* EVENT_TABLE: a journey and a user
  mails,      \* the journey mails published
  closed,     \* ghost: the journeys closed so far, as they were
  reported,   \* ghost: those of them with a summary
  troubles,   \* ghost: how many troubles there were so far,
  broken,     \* ghost: whether an invocation ended in an error,
  late        \* ... and whether a reading was stored in a later tick

Invocations == Readers \cup Closers
ghosts == <<closed, reported, troubles, broken, late>>
vars == <<now, toReport, journey, inbox, run, events, mails, ghosts>>

Users == WantsJourney \cup WantsDaily
Time == 0..LastTick            \* 0 stands for "never" and "none"
Reading == [kind: Kinds, at: Time]
Schedule == [kind |-> "schedule", at |-> 0]   \* the rule's event, every five minutes

Journey == [id: Time, lastMoving: Time, stoppedAt: Time,
            trigger: {"none", "speed_zero", "standard_can_charging", "telemetry_timeout"},
            charging: BOOLEAN, waitUntil: Nat, far: BOOLEAN, counterAt: Time,
            lastSpeed: Time, signalAt: Time]
NoJourney == [id |-> 0, lastMoving |-> 0, stoppedAt |-> 0, trigger |-> "none",
              charging |-> FALSE, waitUntil |-> 0, far |-> FALSE, counterAt |-> 0,
              lastSpeed |-> 0, signalAt |-> 0]

-----------------------------------------------------------------------------
(* apply_journey_update()                                                  *)

(* _start(), for a row without a journey.                                  *)
Start(j, at) ==
  [NoJourney EXCEPT !.id = at, !.lastMoving = at, !.lastSpeed = at, !.signalAt = j.signalAt]

Moves(j, at) ==
  IF j.id = 0 THEN Start(j, at)
  ELSE IF j.charging THEN [j EXCEPT !.lastSpeed = at]   \* sealed: noise
  ELSE IF j.stoppedAt = 0 /\ at < j.lastSpeed + MinMoving THEN j
  ELSE [j EXCEPT !.lastSpeed = at, !.lastMoving = at, !.stoppedAt = 0, !.trigger = "none"]

Stands(j, at) ==
  IF j.id # 0 /\ j.stoppedAt = 0
    THEN [j EXCEPT !.lastSpeed = at, !.stoppedAt = at, !.trigger = "speed_zero"]
    ELSE [j EXCEPT !.lastSpeed = at]

(* A charge seals the journey, unless the car seems to move: this is the   *)
(* one reading whose time is not compared with an earlier one of its kind. *)
SeemsToMove(j, at) ==
  j.stoppedAt = 0 /\ at >= j.lastMoving /\ at < j.lastMoving + MovementGuard

(* Mutant: a charge seals a row without a journey.                         *)
ChargesAnyway(j, at) ==
  IF j.charging \/ SeemsToMove(j, at) THEN j
  ELSE [j EXCEPT
    !.stoppedAt = IF @ # 0 THEN @ ELSE at,
    !.trigger = IF @ # "none" THEN @ ELSE "standard_can_charging",
    !.charging = TRUE, !.waitUntil = at + CounterGrace]

Charges(j, at) ==
  IF j.id = 0 \/ j.charging \/ SeemsToMove(j, at) THEN j
  ELSE [j EXCEPT
    !.stoppedAt = IF @ # 0 THEN @ ELSE at,
    !.trigger = IF @ # "none" THEN @ ELSE "standard_can_charging",
    !.charging = TRUE, !.waitUntil = at + CounterGrace]

(* _apply_power(), and the branches of SOC and odometer like it: a reading *)
(* that is not newer is dropped, one during a journey adds to it.          *)
Progresses(j, at) ==
  IF at <= j.signalAt THEN j ELSE [j EXCEPT !.signalAt = at, !.far = j.id # 0]

ApplyJourneyUpdate(j, t) ==
  CASE t.kind = "moving" -> IF t.at <= j.lastSpeed THEN j ELSE Moves(j, t.at)
    [] t.kind = "zero" -> IF t.at <= j.lastSpeed THEN j ELSE Stands(j, t.at)
    [] t.kind = "charge" -> Charges(j, t.at)
    [] t.kind = "progress" -> Progresses(j, t.at)
    [] t.kind = "counter" -> IF j.id = 0 THEN j ELSE [j EXCEPT !.counterAt = t.at]

(* The test at the head of update_journey(): the car moves on after a stop *)
(* that is long enough to have ended the journey.                          *)
ResumedAfterStableStop(j, t) ==
  /\ t.kind = "moving" /\ j.id # 0 /\ j.stoppedAt # 0 /\ ~j.charging
  /\ t.at >= j.stoppedAt + StopDelay

(* Mutant: silence never ends a journey.                                   *)
NeverTimesOut(j, time) == j

(* apply_inactivity_timeout()                                              *)
ApplyInactivityTimeout(j, time) ==
  LET last == CHOOSE t \in {j.lastMoving, j.lastSpeed, j.signalAt} :
                \A u \in {j.lastMoving, j.lastSpeed, j.signalAt} : u <= t
  IN IF j.id = 0 \/ j.stoppedAt # 0 \/ time < last + Inactivity THEN j
     ELSE [j EXCEPT !.stoppedAt = last, !.trigger = "telemetry_timeout"]

(* summarize_journey(): when a stopped journey is due.  One that is too    *)
(* short to be reported does not wait for the firmware's counter.          *)
CounterReady(j) == j.counterAt # 0 /\ j.counterAt >= j.lastMoving

(* Mutant: a stop need not last.                                           *)
DueAtOnce(j, time, finalizeStableStop) ==
  /\ j.id # 0 /\ j.stoppedAt # 0
  /\ ~j.far \/ CounterReady(j) \/ j.trigger = "telemetry_timeout" \/ finalizeStableStop

Due(j, time, finalizeStableStop) ==
  /\ j.id # 0 /\ j.stoppedAt # 0
  /\ j.charging \/ j.trigger = "telemetry_timeout" \/ time >= j.stoppedAt + StopDelay
  /\ \/ ~j.far \/ CounterReady(j)
     \/ j.charging /\ time >= j.waitUntil
     \/ ~j.charging /\ (\/ j.trigger = "telemetry_timeout" \/ finalizeStableStop
                        \/ time >= j.stoppedAt + StopDelay + CounterWait)

(* Mutant: the closed row forgets the time of the last speed.              *)
ForgetsSpeed(j) == [NoJourney EXCEPT !.signalAt = j.signalAt]

(* clear_journey()                                                         *)
ClearJourney(j) == [NoJourney EXCEPT !.lastSpeed = j.lastSpeed, !.signalAt = j.signalAt]

-----------------------------------------------------------------------------
Idle == [stage |-> "idle"]

(* An invocation: the call it makes next, its task, its tries, whether its *)
(* reading of the row is fresh, whether it closes a journey the car has    *)
(* moved on from ("resumed") or did so ("last"), and what it still has to  *)
(* report to whom, and to whom it does so now.                             *)
Running == [stage: {"update-read", "update-put", "close-read", "close-put", "reserve", "publish"},
            task: Reading \cup {Schedule}, tries: 1..UpdateAttempts, fresh: BOOLEAN,
            phase: {"first", "resumed", "last"}, id: Time, todo: SUBSET Users, user: SUBSET Users]

Started(t) ==
  [stage |-> IF t = Schedule THEN "close-read" ELSE "update-read", task |-> t, tries |-> 1,
   fresh |-> FALSE, phase |-> IF t = Schedule THEN "last" ELSE "first", id |-> 0, todo |-> {}, user |-> {}]

Init ==
  /\ now = 2
  /\ \E script \in Scripts :
       /\ toReport = script.readings
       /\ journey = IF script.driving THEN Start(NoJourney, 1) ELSE NoJourney
  /\ inbox = {} /\ run = [i \in Invocations |-> Idle]
  /\ events = {} /\ mails = {}
  /\ closed = <<>> /\ reported = {} /\ troubles = 0
  /\ broken = FALSE /\ late = FALSE

At(i, stage) == run[i].stage = stage
Becomes(i, r) == run' = [run EXCEPT ![i] = r]
Onward(i, stage, phase) ==
  [run[i] EXCEPT !.stage = stage, !.phase = phase, !.tries = 1, !.fresh = FALSE]
Outdated == [k \in Invocations |-> IF run[k] = Idle THEN Idle ELSE [run[k] EXCEPT !.fresh = FALSE]]
Trouble == troubles < MaxTroubles /\ troubles' = troubles + 1

CarReports ==
  /\ toReport # <<>> /\ now <= LastReport /\ Cardinality(inbox) < MaxBacklog
  /\ toReport' = Tail(toReport)
  /\ inbox' = inbox \cup {[kind |-> Head(toReport), at |-> now]}
  /\ UNCHANGED <<now, journey, run, events, mails, ghosts>>

Begin(i) ==
  /\ run[i] = Idle
  /\ \E t \in inbox :
       /\ IF \E k \in Invocations : run[k] # Idle /\ run[k].task = t
            THEN Trouble ELSE UNCHANGED troubles           \* delivered twice at once
       /\ Becomes(i, Started(t))
  /\ UNCHANGED <<now, toReport, journey, inbox, events, mails, closed, reported, broken, late>>

(* finalize_due_journeys(): the scan finds the vehicle's journey active.   *)
ScheduleFires(i) ==
  /\ run[i] = Idle /\ journey.id # 0
  /\ Becomes(i, Started(Schedule))
  /\ UNCHANGED <<now, toReport, journey, inbox, events, mails, ghosts>>

(* What the handler does with the state that update_journey() returned.    *)
AfterUpdate(i, j) ==
  IF /\ j.id # 0 /\ j.stoppedAt # 0
     /\ j.charging \/ run[i].task.at >= j.stoppedAt + StopDelay
    THEN Onward(i, "close-read", "last")
    ELSE Onward(i, "reserve", "last")

(* update_journey(), the second time with the other result ignored.        *)
UpdateReads(i) ==
  /\ At(i, "update-read")
  /\ LET t == run[i].task
         resumed == ResumedAfterStableStop(journey, t)
     IN Becomes(i,
          IF resumed /\ run[i].phase = "first" THEN Onward(i, "close-read", "resumed")
          ELSE IF resumed \/ ApplyJourneyUpdate(journey, t) = journey THEN AfterUpdate(i, journey)
          ELSE [run[i] EXCEPT !.stage = "update-put", !.fresh = TRUE])
  /\ UNCHANGED <<now, toReport, journey, inbox, events, mails, ghosts>>

UpdatePuts(i) ==
  /\ At(i, "update-put") /\ run[i].fresh
  /\ journey' = ApplyJourneyUpdate(journey, run[i].task)
  /\ run' = [Outdated EXCEPT ![i] = AfterUpdate(i, journey')]
  /\ late' = (late \/ run[i].task.at < now)
  /\ UNCHANGED <<now, toReport, inbox, events, mails, closed, reported, troubles, broken>>

(* finalize_journey(): a reading closes by its own time, the schedule by   *)
(* the clock.                                                              *)
ClosingTime(i) == IF run[i].task = Schedule THEN now ELSE run[i].task.at
Sealed(i) == ApplyInactivityTimeout(journey, ClosingTime(i))

AfterClosing(i) ==
  IF run[i].phase = "resumed" THEN Onward(i, "update-read", "last")
  ELSE Onward(i, "reserve", "last")

CloseReads(i) ==
  /\ At(i, "close-read")
  /\ Becomes(i, IF Due(Sealed(i), ClosingTime(i), run[i].phase = "resumed")
                  THEN [run[i] EXCEPT !.stage = "close-put", !.fresh = TRUE]
                  ELSE AfterClosing(i))
  /\ UNCHANGED <<now, toReport, journey, inbox, events, mails, ghosts>>

(* Mutant: daily users are forgotten.                                      *)
OnlyJourneyUsers == WantsJourney

(* Whom the event is recorded for.                                         *)
Recipients == WantsJourney \cup WantsDaily

(* Mutant: the row is put whatever happened to it.                         *)
ClosesAnyway(i) ==
  /\ At(i, "close-put")
  /\ LET j == Sealed(i) IN
     /\ journey' = ClearJourney(j)
     /\ closed' = Append(closed, j)
     /\ reported' = IF j.far THEN reported \cup {j.id} ELSE reported
     /\ run' = [Outdated EXCEPT ![i] =
          IF j.far THEN [Onward(i, "reserve", run[i].phase) EXCEPT !.id = j.id, !.todo = Recipients]
          ELSE AfterClosing(i)]
     /\ late' = (late \/ (run[i].task # Schedule /\ run[i].task.at < now))
  /\ UNCHANGED <<now, toReport, inbox, events, mails, troubles, broken>>

ClosePuts(i) ==
  /\ At(i, "close-put") /\ run[i].fresh
  /\ LET j == Sealed(i) IN
     /\ journey' = ClearJourney(j)
     /\ closed' = Append(closed, j)
     /\ reported' = IF j.far THEN reported \cup {j.id} ELSE reported
     /\ run' = [Outdated EXCEPT ![i] =
          IF j.far THEN [Onward(i, "reserve", run[i].phase) EXCEPT !.id = j.id, !.todo = Recipients]
          ELSE AfterClosing(i)]
     /\ late' = (late \/ (run[i].task # Schedule /\ run[i].task.at < now))
  /\ UNCHANGED <<now, toReport, inbox, events, mails, troubles, broken>>

Collides(i) ==
  /\ run[i].stage \in {"update-put", "close-put"}
  /\ ~run[i].fresh /\ run[i].tries < UpdateAttempts
  /\ Becomes(i, [run[i] EXCEPT
       !.stage = IF @ = "update-put" THEN "update-read" ELSE "close-read", !.tries = @ + 1])
  /\ UNCHANGED <<now, toReport, journey, inbox, events, mails, ghosts>>

(* An invocation ends in an error.  A reading may be delivered again; the  *)
(* schedule comes again anyway.                                            *)
Breaks(i) ==
  /\ Becomes(i, Idle)
  /\ IF run[i].task = Schedule THEN UNCHANGED inbox
     ELSE inbox' \in {inbox \cup {run[i].task}, inbox \ {run[i].task}}
  /\ broken' = TRUE
  /\ UNCHANGED <<now, toReport, journey, events, mails, closed, reported, late>>

(* Both loops end in an error after their last attempt.                    *)
Contention(i) ==
  /\ run[i].stage \in {"update-put", "close-put"}
  /\ ~run[i].fresh /\ run[i].tries = UpdateAttempts
  /\ Breaks(i) /\ UNCHANGED troubles

InvocationFails(i) == run[i] # Idle /\ Breaks(i) /\ Trouble

(* reserve_journey_event() and dispatch_journey(), user by user.           *)
Reserves(i, u) ==
  /\ At(i, "reserve") /\ u \in run[i].todo
  /\ LET e == [id |-> run[i].id, user |-> u] IN
     /\ events' = events \cup {e}
     /\ Becomes(i, IF e \notin events /\ u \in WantsJourney
          THEN [run[i] EXCEPT !.stage = "publish", !.todo = @ \ {u}, !.user = {u}]
          ELSE [run[i] EXCEPT !.todo = @ \ {u}])
  /\ UNCHANGED <<now, toReport, journey, inbox, mails, ghosts>>

Publishes(i) ==
  /\ At(i, "publish")
  /\ mails' = mails \cup {[id |-> run[i].id, user |-> u] : u \in run[i].user}
  /\ Becomes(i, [run[i] EXCEPT !.stage = "reserve", !.user = {}])
  /\ UNCHANGED <<now, toReport, journey, inbox, events, ghosts>>

Ends(i) ==
  /\ At(i, "reserve") /\ run[i].todo = {}
  /\ IF run[i].phase = "resumed"
       THEN /\ Becomes(i, [Onward(i, "update-read", "last") EXCEPT !.id = 0])
            /\ UNCHANGED <<inbox, troubles>>
       ELSE /\ Becomes(i, Idle)
            /\ \/ inbox' = inbox \ {run[i].task} /\ UNCHANGED troubles
               \/ run[i].task # Schedule /\ inbox' = inbox /\ Trouble
  /\ UNCHANGED <<now, toReport, journey, events, mails, closed, reported, broken, late>>

Tick ==
  /\ now < LastTick
  /\ now' = now + 1
  /\ UNCHANGED <<toReport, journey, inbox, run, events, mails, ghosts>>

Works(i) ==
  \/ UpdateReads(i) \/ UpdatePuts(i) \/ CloseReads(i) \/ ClosePuts(i) \/ Collides(i)
  \/ Publishes(i) \/ Ends(i) \/ \E u \in Users : Reserves(i, u)

Next ==
  \/ CarReports \/ Tick
  \/ \E i \in Readers : Begin(i)
  \/ \E i \in Closers : ScheduleFires(i)
  \/ \E i \in Invocations : Works(i) \/ Contention(i) \/ InvocationFails(i)

(* Time goes on, readings that were delivered are handled, an invocation   *)
(* that runs ends, and the rule of the schedule fires again and again.     *)
Fairness ==
  /\ WF_vars(Tick)
  /\ \A i \in Readers : WF_vars(Begin(i))
  /\ \A i \in Closers : WF_vars(ScheduleFires(i))
  /\ \A i \in Invocations : WF_vars(Works(i) \/ Contention(i))

Spec == Init /\ [][Next]_vars /\ Fairness
-----------------------------------------------------------------------------
(* Rows, tasks and invocations have their shape; a row without a journey   *)
(* holds nothing of one.                                                   *)
TypeOK ==
  /\ now \in Time /\ Len(toReport) \in Nat /\ troubles \in 0..MaxTroubles
  /\ journey \in Journey
  /\ journey.id = 0 =>
       journey = [NoJourney EXCEPT !.lastSpeed = journey.lastSpeed, !.signalAt = journey.signalAt]
  /\ inbox \subseteq Reading
  /\ run \in [Invocations -> {Idle} \cup Running]
  /\ events \subseteq [id: Time, user: Users] /\ mails \subseteq events
  /\ reported \subseteq Time

(* Every journey is closed once and starts after the movement of the one   *)
(* before it: late and repeated readings do not bring a journey back, and  *)
(* of several invocations that want to close it one does.                  *)
ClosedOnce ==
  \A m, n \in DOMAIN closed : m < n => closed[n].id > closed[m].lastMoving

(* If the readings were stored in time, a stop shorter than ten minutes    *)
(* does not split a journey, unless the car was charged.                   *)
ShortStopDoesNotSplit ==
  ~late =>
    \A n \in DOMAIN closed :
      LET next == IF n < Len(closed) THEN closed[n + 1].id ELSE journey.id IN
      next # 0 /\ ~closed[n].charging => next >= closed[n].stoppedAt + StopDelay

(* If no invocation failed, a journey with a summary is recorded for every *)
(* user who wants it by mail or in the daily summary, and mailed to the    *)
(* first, whichever invocation closed it.                                  *)
JourneyIsRecorded ==
  inbox = {} /\ run = [i \in Invocations |-> Idle] /\ ~broken =>
    /\ reported \X Users \subseteq {<<e.id, e.user>> : e \in events}
    /\ reported \X WantsJourney \subseteq {<<m.id, m.user>> : m \in mails}

(* Every journey comes to an end: by a reading, by the schedule after a    *)
(* stop, or half an hour after the last sign of the car.                   *)
JourneyEnds == journey.id # 0 ~> journey.id = 0
=============================================================================
