------------------------ MODULE ChargingNotifications ------------------------
(***************************************************************************)
(* The charging half of the notification Lambda (handler()): one session   *)
(* row per vehicle, updated by whatever invocations run at the moment,     *)
(* delayed SQS messages that come back to confirm a stop or a pause, and   *)
(* events that are reserved before a mail goes out.                        *)
(*                                                                         *)
(* AWS delivers a reading or a message at least once and in any order, may *)
(* cut an invocation off between two calls and gives up after some tries.  *)
(* A put is conditional on the version that was read: it succeeds exactly  *)
(* if nobody else has put since, so an invocation remembers whether its    *)
(* reading is still fresh instead of a version number.                     *)
(*                                                                         *)
(* Left out: energy and SOC totals, texts, names, the SMS beside a mail    *)
(* (module NotificationPreferences), and the status of an event, which is  *)
(* never read.  Preferences are constants here.                            *)
(***************************************************************************)
EXTENDS Naturals, Sequences, FiniteSets, Bags, TLC

CONSTANTS
  Users,
  SocThreshold, StopThreshold,  \* threshold and chargingStopThreshold, by user
  WantsSoc,          \* users with enabled
  WantsStop,         \* ... with chargingStopEmailEnabled
  WantsSummary,      \* ... with emailEnabled and chargingSummaryEmailEnabled
  WantsDaily,        \* ... with emailEnabled and dailySummaryEmailEnabled
  Invocations,       \* invocations that may run at the same time
  Levels, NoSoc,     \* values of display/soc, and none so far
  Qualification,     \* 45 s in ticks: CHARGING_START_QUALIFICATION_MS
  StopDelay,         \* 60 s: CHARGING_STOP_DELAY_MS
  SummaryDelay,      \* 10 min: SUMMARY_DELAY_MS
  SocRefresh,        \* 5 min: UNCHANGED_SOC_REFRESH_MS
  UpdateAttempts,    \* 4 in update_session() and update_charging_summary()
  LastTick,          \* bound on the clock
  MaxBacklog,        \* bound on the unfinished tasks when the car reports another
  Scripts,           \* bound: what the car may report, in its order, and
                     \* whether it was plugged in and this was stored before
  MaxTroubles        \* bound on failures, repeated deliveries and puts of other values

ASSUME ChargingAssumption ==
  /\ SocThreshold \in [Users -> Nat] /\ StopThreshold \in [Users -> Nat]
  /\ WantsSoc \cup WantsStop \cup WantsSummary \cup WantsDaily \subseteq Users
  /\ Levels \subseteq Nat /\ NoSoc \notin Levels
  /\ {Qualification, StopDelay, SummaryDelay, SocRefresh, LastTick, MaxBacklog, MaxTroubles} \subseteq Nat
  /\ \A s \in Scripts : s.plugged \in BOOLEAN /\ s.reports \in Seq([kind: {"plugged", "charging"}, value: BOOLEAN]
                                   \cup [kind: {"soc"}, value: Levels])
  /\ UpdateAttempts \in Nat \ {0} /\ LastTick > 0

VARIABLES
  now,        \* time, as receivedAt and time.time() give it
  toReport,   \* what the car has still to report
  session,    \* the fields of ChargingSessionState in the vehicle's row
  summary,    \* chargingSummary in the same row
  inbox,      \* readings and SQS messages AWS has to deliver
  run,        \* the invocations
  events,     \* EVENT_TABLE: the reserved or recorded event ids
  mails,      \* a mail for every time one was sent for an event id
  troubles,   \* how many troubles there were so far
  harm,       \* ghost: "none", "retried" or "dropped", the worst so far
  reached,    \* ghost: thresholds the stored SOC has crossed
  unplugged,  \* ghost: sessions a stored unplugging has closed
  resumedAt   \* ghost: the newest start of charging in the stored session

row == <<session, summary>>
ghosts == <<harm, reached, unplugged, resumedAt>>
vars == <<now, toReport, row, inbox, run, events, mails, troubles, ghosts>>

Time == 0..LastTick            \* 0 stands for "never" and "none"
Flag == {"unknown", "yes", "no"}

Session == [id: Time, plugged: BOOLEAN, observed: BOOLEAN, charging: Flag,
            startedAt: Time, stopAt: Time, soc: Levels \cup {NoSoc},
            pluggedAt: Time, chargingAt: Time, socAt: Time]
NewSession(id, plugged, at) ==
  [id |-> id, plugged |-> plugged, observed |-> FALSE, charging |-> "unknown",
   startedAt |-> 0, stopAt |-> 0, soc |-> NoSoc,
   pluggedAt |-> at, chargingAt |-> 0, socAt |-> 0]

Summary == [id: Time, plugged: BOOLEAN, charging: Flag, candidate: Time,
            active: BOOLEAN, stopAt: Time]
NewSummary(id, plugged) ==
  [id |-> id, plugged |-> plugged, charging |-> "unknown", candidate |-> 0,
   active |-> FALSE, stopAt |-> 0]

Reading == [kind: {"plugged", "charging"}, value: BOOLEAN, at: Time]
             \cup [kind: {"soc"}, value: Levels, at: Time]
Message == [kind: {"stop", "summary"}, id: Time, stopAt: Time]
EventId == [kind: {"soc", "stop", "summary"}, user: Users, id: Time]

Summarised == WantsSummary \cup WantsDaily
IsReading(t) == t.kind \in {"plugged", "charging", "soc"}

-----------------------------------------------------------------------------
(* apply_update() of notification_state.py                                 *)

ApplyPlugged(s, t) ==
  IF t.at <= s.pluggedAt THEN s
  ELSE IF ~t.value THEN NewSession(0, FALSE, t.at)
  ELSE IF s.plugged THEN [s EXCEPT !.pluggedAt = t.at]
  ELSE NewSession(t.at, TRUE, t.at)

(* A stop that is a candidate ended a charge long enough to count.         *)
EndsCharge(s, at) ==
  /\ s.plugged /\ s.observed /\ s.charging = "yes"
  /\ s.startedAt > 0 /\ at - s.startedAt >= Qualification

ChargingStarts(s, at) ==
  [s EXCEPT !.observed = s.observed \/ s.plugged, !.charging = "yes",
            !.startedAt = IF s.charging = "yes" /\ s.startedAt > 0 THEN @ ELSE at,
            !.stopAt = 0, !.chargingAt = at]

ApplyCharging(s, t) ==
  IF t.at <= s.chargingAt THEN s
  ELSE IF t.value THEN ChargingStarts(s, t.at)
  ELSE [s EXCEPT !.charging = "no", !.startedAt = 0, !.chargingAt = t.at,
                 !.stopAt = IF EndsCharge(s, t.at) THEN t.at ELSE @]

ApplySoc(s, t) ==
  IF \/ t.at <= s.socAt
     \/ s.soc = t.value /\ t.at - s.socAt < SocRefresh
    THEN s
    ELSE [s EXCEPT !.soc = t.value, !.socAt = t.at]

ApplyUpdate(s, t) ==
  CASE t.kind = "plugged" -> ApplyPlugged(s, t)
    [] t.kind = "charging" -> ApplyCharging(s, t)
    [] t.kind = "soc" -> ApplySoc(s, t)

(* Mutant: a level exactly at the threshold is not a crossing.             *)
CrossedStrictly(s, t, threshold) ==
  /\ s.plugged /\ s.observed /\ s.id # 0 /\ s.soc # NoSoc
  /\ s.soc < threshold /\ t.value > threshold

(* crossed_threshold(), for a reading t stored over s.                     *)
CrossedThreshold(s, t, threshold) ==
  /\ s.plugged /\ s.observed /\ s.id # 0 /\ s.soc # NoSoc
  /\ s.soc < threshold /\ t.value >= threshold

(* Mutant: the message is believed about the candidate.                    *)
BelievesMessage(s, m, threshold) ==
  /\ m.id # 0 /\ m.stopAt > 0 /\ s.id = m.id
  /\ s.plugged /\ s.soc # NoSoc /\ s.soc < threshold
  /\ now >= m.stopAt + StopDelay

(* charging_stop_due(): only the candidate that still stands.              *)
ChargingStopDue(s, m, threshold) ==
  /\ m.id # 0 /\ m.stopAt > 0 /\ s.id = m.id /\ s.stopAt = m.stopAt
  /\ s.plugged /\ s.charging = "no"
  /\ s.soc # NoSoc /\ s.soc < threshold
  /\ now >= m.stopAt + StopDelay

-----------------------------------------------------------------------------
(* apply() of charging_summary_state.py: no reading is compared in time.   *)

(* Mutant: a stop is noted without a charge.                               *)
NotesEveryStop(c, t) ==
  LET candidate == IF c.candidate # 0 THEN c.candidate ELSE t.at IN
  IF t.value
    THEN [c EXCEPT !.charging = "yes", !.candidate = candidate, !.stopAt = 0,
                   !.active = @ \/ (c.plugged /\ t.at >= candidate + Qualification)]
    ELSE [c EXCEPT !.charging = "no", !.candidate = 0, !.stopAt = t.at]

SummaryCharging(c, t) ==
  LET candidate == IF c.candidate # 0 THEN c.candidate ELSE t.at IN
  IF t.value
    THEN [c EXCEPT !.charging = "yes", !.candidate = candidate, !.stopAt = 0,
                   !.active = @ \/ (c.plugged /\ t.at >= candidate + Qualification)]
    ELSE [c EXCEPT !.charging = "no", !.candidate = 0,
                   !.stopAt = IF c.active /\ c.charging = "yes" THEN t.at ELSE @]

ApplySummary(c, t) ==
  CASE t.kind = "plugged" /\ t.value /\ ~c.plugged -> NewSummary(t.at, TRUE)
    [] t.kind = "plugged" /\ ~t.value -> NewSummary(0, FALSE)
    [] t.kind = "charging" -> SummaryCharging(c, t)
    [] OTHER -> c

DelayedDue(c, m) ==
  /\ c.active /\ c.plugged /\ c.charging = "no"
  /\ c.id = m.id /\ c.stopAt = m.stopAt
  /\ now >= m.stopAt + SummaryDelay

-----------------------------------------------------------------------------
Idle == [stage |-> "idle"]

(* An invocation: the call it makes next, its task, its tries in the loop  *)
(* it is in, whether nobody has put since it read, and what it found out:  *)
(* the session to announce and the users still to be told.                 *)
Running ==
  [stage: {"session-read", "session-put", "stop-enqueue", "summary-read", "summary-put",
           "summary-enqueue", "validate", "reserve"},
   task: Reading \cup Message, tries: 1..UpdateAttempts, fresh: BOOLEAN,
   id: Time, todo: SUBSET Users]
  \cup
  [stage: {"publish"}, task: Reading \cup Message, tries: 1..UpdateAttempts,
   fresh: BOOLEAN, id: Time, todo: SUBSET Users, user: Users]

Started(t) ==
  [stage |-> IF IsReading(t) THEN "session-read" ELSE "validate", task |-> t,
   tries |-> 1, fresh |-> FALSE, id |-> 0, todo |-> {}]

Init ==
  /\ now = 1
  /\ \E script \in Scripts :
       /\ toReport = script.reports
       /\ session = IF script.plugged THEN NewSession(1, TRUE, 1) ELSE NewSession(0, FALSE, 0)
       /\ summary = IF script.plugged THEN NewSummary(1, TRUE) ELSE NewSummary(0, FALSE)
  /\ inbox = {} /\ run = [i \in Invocations |-> Idle]
  /\ events = {} /\ mails = EmptyBag
  /\ troubles = 0 /\ harm = "none" /\ reached = {} /\ unplugged = {} /\ resumedAt = 0

At(i, stage) == run[i].stage = stage
Becomes(i, r) == run' = [run EXCEPT ![i] = r]
Onward(i, stage, id, todo) ==
  [stage |-> stage, task |-> run[i].task, tries |-> 1, fresh |-> FALSE, id |-> id, todo |-> todo]
Trouble == troubles < MaxTroubles /\ troubles' = troubles + 1
Outdated == [j \in Invocations |-> IF run[j] = Idle THEN Idle ELSE [run[j] EXCEPT !.fresh = FALSE]]

(* The invocation ends in an error: AWS delivers the task again, or gives  *)
(* it up.                                                                  *)
Breaks(i) ==
  /\ Becomes(i, Idle)
  /\ \/ inbox' = inbox \cup {run[i].task} /\ harm' = IF harm = "dropped" THEN harm ELSE "retried"
     \/ inbox' = inbox /\ harm' = "dropped"

-----------------------------------------------------------------------------
(* The car reports something; the IoT rule stamps it and invokes handler().*)
CarReports ==
  /\ toReport # <<>>
  /\ Cardinality(inbox \cup {run[i].task : i \in {j \in Invocations : run[j] # Idle}}) < MaxBacklog
  /\ toReport' = Tail(toReport)
  /\ LET r == Head(toReport) IN
     inbox' = inbox \cup {[kind |-> r.kind, value |-> r.value, at |-> now]}
  /\ UNCHANGED <<now, row, run, events, mails, troubles, ghosts>>

Begin(i) ==
  /\ run[i] = Idle
  /\ \E t \in inbox :
       /\ t.kind = "stop" => now >= t.stopAt + StopDelay         \* DelaySeconds
       /\ t.kind = "summary" => now >= t.stopAt + SummaryDelay
       /\ \/ inbox' = inbox \ {t} /\ UNCHANGED troubles
          \/ inbox' = inbox /\ Trouble              \* it is delivered twice
       /\ Becomes(i, Started(t))
  /\ UNCHANGED <<now, toReport, row, events, mails, ghosts>>

(* update_session()                                                        *)
AfterSession(i, s, crossing) ==
  LET t == run[i].task
      stops == t.kind = "charging" /\ ~t.value /\ s.stopAt = t.at
  IN Onward(i, IF stops THEN "stop-enqueue" ELSE "summary-read",
            IF stops \/ crossing # {} THEN s.id ELSE 0, crossing)

SessionReads(i) ==
  /\ At(i, "session-read")
  /\ Becomes(i, IF ApplyUpdate(session, run[i].task) = session
                  THEN AfterSession(i, session, {})
                  ELSE [run[i] EXCEPT !.stage = "session-put", !.fresh = TRUE])
  /\ UNCHANGED <<now, toReport, row, inbox, events, mails, troubles, ghosts>>

SessionPuts(i) ==
  /\ At(i, "session-put") /\ run[i].fresh
  /\ LET t == run[i].task
         after == ApplyUpdate(session, t)
         crossing == {u \in WantsSoc :
                        t.kind = "soc" /\ CrossedThreshold(session, t, SocThreshold[u])}
     IN /\ session' = after
        /\ run' = [Outdated EXCEPT ![i] = AfterSession(i, after, crossing)]
        /\ reached' = reached \cup
             IF t.kind = "soc" /\ session.observed /\ session.soc # NoSoc
               THEN {[user |-> u, id |-> session.id] :
                       u \in {w \in WantsSoc : SocThreshold[w] \in (session.soc + 1)..t.value}}
               ELSE {}
        /\ resumedAt' = IF t.kind = "charging" /\ t.value THEN t.at
                        ELSE IF after.id # session.id THEN 0 ELSE resumedAt
  /\ UNCHANGED <<now, toReport, summary, inbox, events, mails, troubles, harm, unplugged>>

SessionCollides(i) ==
  /\ At(i, "session-put") /\ ~run[i].fresh /\ run[i].tries < UpdateAttempts
  /\ Becomes(i, [run[i] EXCEPT !.stage = "session-read", !.tries = @ + 1])
  /\ UNCHANGED <<now, toReport, row, inbox, events, mails, troubles, ghosts>>

(* enqueue_charging_stop()                                                 *)
StopEnqueued(i) ==
  /\ At(i, "stop-enqueue")
  /\ inbox' = IF run[i].id = 0 THEN inbox ELSE
       inbox \cup {[kind |-> "stop", id |-> run[i].id, stopAt |-> run[i].task.at]}
  /\ Becomes(i, Onward(i, "summary-read", 0, {}))
  /\ UNCHANGED <<now, toReport, row, events, mails, troubles, ghosts>>

(* Mutant: the state after the unplugging is asked for a charge.           *)
AsksAfterwards(i, before, after) ==
  LET t == run[i].task IN
  IF t.kind = "plugged" /\ ~t.value /\ after.active
    THEN Onward(i, "reserve", before.id, Summarised)
  ELSE IF t.kind = "charging" /\ ~t.value /\ after.stopAt = t.at
    THEN Onward(i, "summary-enqueue", after.id, {})
  ELSE Onward(i, "reserve", run[i].id, run[i].todo)

(* update_charging_summary(); what follows it depends on the reading.      *)
AfterSummary(i, before, after) ==
  LET t == run[i].task IN
  IF t.kind = "plugged" /\ ~t.value /\ before.active
    THEN Onward(i, "reserve", before.id, Summarised)
  ELSE IF t.kind = "charging" /\ ~t.value /\ after.stopAt = t.at
    THEN Onward(i, "summary-enqueue", after.id, {})
  ELSE Onward(i, "reserve", run[i].id, run[i].todo)

SummaryReads(i) ==
  /\ At(i, "summary-read")
  /\ Becomes(i, IF ApplySummary(summary, run[i].task) = summary
                  THEN AfterSummary(i, summary, summary)
                  ELSE [run[i] EXCEPT !.stage = "summary-put", !.fresh = TRUE])
  /\ UNCHANGED <<now, toReport, row, inbox, events, mails, troubles, ghosts>>

SummaryPuts(i) ==
  /\ At(i, "summary-put") /\ run[i].fresh
  /\ LET t == run[i].task
         after == ApplySummary(summary, t)
     IN /\ summary' = after
        /\ run' = [Outdated EXCEPT ![i] = AfterSummary(i, summary, after)]
        /\ unplugged' = unplugged \cup
             IF t.kind = "plugged" /\ ~t.value /\ summary.active THEN {summary.id} ELSE {}
  /\ UNCHANGED <<now, toReport, session, inbox, events, mails, troubles, harm, reached, resumedAt>>

SummaryCollides(i) ==
  /\ At(i, "summary-put") /\ ~run[i].fresh /\ run[i].tries < UpdateAttempts
  /\ Becomes(i, [run[i] EXCEPT !.stage = "summary-read", !.tries = @ + 1])
  /\ UNCHANGED <<now, toReport, row, inbox, events, mails, troubles, ghosts>>

(* Both loops end in an error after their last attempt.                    *)
Contention(i) ==
  /\ run[i].stage \in {"session-put", "summary-put"}
  /\ ~run[i].fresh /\ run[i].tries = UpdateAttempts
  /\ Breaks(i)
  /\ UNCHANGED <<now, toReport, row, events, mails, troubles, reached, unplugged, resumedAt>>

(* enqueue_charging_summary()                                              *)
SummaryEnqueued(i) ==
  /\ At(i, "summary-enqueue")
  /\ inbox' = IF run[i].id = 0 THEN inbox ELSE
       inbox \cup {[kind |-> "summary", id |-> run[i].id, stopAt |-> run[i].task.at]}
  /\ Becomes(i, Onward(i, "reserve", 0, {}))
  /\ UNCHANGED <<now, toReport, row, events, mails, troubles, ghosts>>

(* validate_charging_stop(): whose target the stopped charge has missed.   *)
ValidatesStop(i) ==
  /\ At(i, "validate") /\ run[i].task.kind = "stop"
  /\ LET m == run[i].task IN
     Becomes(i, Onward(i, "reserve", m.id,
       {u \in WantsStop : ChargingStopDue(session, m, StopThreshold[u])}))
  /\ UNCHANGED <<now, toReport, row, inbox, events, mails, troubles, ghosts>>

(* validate_charging_summary()                                             *)
ValidatesSummary(i) ==
  /\ At(i, "validate") /\ run[i].task.kind = "summary"
  /\ LET m == run[i].task IN
     Becomes(i, Onward(i, "reserve", m.id, IF DelayedDue(summary, m) THEN Summarised ELSE {}))
  /\ UNCHANGED <<now, toReport, row, inbox, events, mails, troubles, ghosts>>

-----------------------------------------------------------------------------
(* What an invocation tells its users of: a threshold, a stop or a summary,*)
(* which an unplugging or a message of a pause leads to.                   *)
Tells(i) ==
  IF run[i].task.kind \in {"soc", "stop"} THEN run[i].task.kind ELSE "summary"
Event(i, u) == [kind |-> Tells(i), user |-> u, id |-> run[i].id]
Publisher(i, u) ==
  [stage |-> "publish", task |-> run[i].task, tries |-> 1, fresh |-> FALSE,
   id |-> run[i].id, todo |-> run[i].todo, user |-> u]

(* Mutant: the put of the event is unconditional.                          *)
ReservesAgain(i, u, mailed) ==
  /\ events' = events \cup {Event(i, u)}
  /\ Becomes(i, IF mailed
       THEN Publisher(i, u)
       ELSE [run[i] EXCEPT !.todo = @ \ {u}])
  /\ UNCHANGED <<now, toReport, row, inbox, mails, troubles, ghosts>>

(* The put of an event, on the condition that it does not exist.           *)
Reserving(i, u, mailed) ==
  /\ events' = events \cup {Event(i, u)}
  /\ Becomes(i, IF Event(i, u) \notin events /\ mailed
       THEN Publisher(i, u)
       ELSE [run[i] EXCEPT !.todo = @ \ {u}])
  /\ UNCHANGED <<now, toReport, row, inbox, mails, troubles, ghosts>>

(* reserve_event()                                                         *)
SocReserves(i, u) ==
  /\ At(i, "reserve") /\ u \in run[i].todo /\ Tells(i) = "soc"
  /\ Reserving(i, u, TRUE)

(* reserve_charging_stop_event()                                           *)
StopReserves(i, u) ==
  /\ At(i, "reserve") /\ u \in run[i].todo /\ Tells(i) = "stop"
  /\ Reserving(i, u, TRUE)

(* dispatch_charging_summary(): it is recorded for the daily mail too, and *)
(* then not sent itself.                                                   *)
SummaryReserves(i, u) ==
  /\ At(i, "reserve") /\ u \in run[i].todo /\ Tells(i) = "summary"
  /\ Reserving(i, u, u \in WantsSummary)

(* sns.publish() and record_deliveries()                                   *)
Publishing(i) ==
  /\ LET r == run[i] IN
     /\ mails' = mails (+) SetToBag({Event(i, r.user)})
     /\ Becomes(i, Onward(i, "reserve", r.id, r.todo \ {r.user}))
  /\ UNCHANGED <<now, toReport, row, inbox, events, troubles, ghosts>>

(* dispatch()                                                              *)
SocPublishes(i) == At(i, "publish") /\ Tells(i) = "soc" /\ Publishing(i)

(* dispatch_charging_stop()                                                *)
StopPublishes(i) == At(i, "publish") /\ Tells(i) = "stop" /\ Publishing(i)

(* the rest of dispatch_charging_summary()                                 *)
SummaryPublishes(i) == At(i, "publish") /\ Tells(i) = "summary" /\ Publishing(i)

Ends(i) ==
  /\ At(i, "reserve") /\ run[i].todo = {}
  /\ Becomes(i, Idle)
  /\ UNCHANGED <<now, toReport, row, inbox, events, mails, troubles, ghosts>>

InvocationFails(i) ==
  /\ run[i] # Idle
  /\ Breaks(i) /\ Trouble
  /\ UNCHANGED <<now, toReport, row, events, mails, reached, unplugged, resumedAt>>

(* A power reading adds to the energy in the row, an SOC reading to its    *)
(* last SOC: neither changes what is modelled, but the version goes on.    *)
OtherPut ==
  /\ run' = Outdated /\ Trouble
  /\ UNCHANGED <<now, toReport, row, inbox, events, mails, ghosts>>

Tick ==
  /\ now < LastTick
  /\ now' = now + 1
  /\ UNCHANGED <<toReport, row, inbox, run, events, mails, troubles, ghosts>>

Handler(i) ==
  \/ SessionReads(i) \/ SessionPuts(i) \/ SessionCollides(i) \/ StopEnqueued(i)
  \/ SummaryReads(i) \/ SummaryPuts(i) \/ SummaryCollides(i) \/ SummaryEnqueued(i)
  \/ ValidatesStop(i) \/ ValidatesSummary(i)
  \/ \E u \in Users : SocReserves(i, u) \/ StopReserves(i, u) \/ SummaryReserves(i, u)
  \/ SocPublishes(i) \/ StopPublishes(i) \/ SummaryPublishes(i)
  \/ Contention(i) \/ Ends(i) \/ InvocationFails(i)

Next ==
  \/ CarReports
  \/ \E i \in Invocations : Begin(i) \/ Handler(i)
  \/ OtherPut \/ Tick

Spec == Init /\ [][Next]_vars

-----------------------------------------------------------------------------
(* Everything delivered has been handled to its end.                       *)
Quiet == inbox = {} /\ run = [i \in Invocations |-> Idle]

Copies(e) == IF BagIn(e, mails) THEN mails[e] ELSE 0

(* Rows, tasks and invocations have their shape; the two halves of the row *)
(* never hold a stop without the charge it ended.                          *)
TypeOK ==
  /\ now \in Time /\ Len(toReport) \in Nat /\ troubles \in 0..MaxTroubles
  /\ session \in Session /\ summary \in Summary
  /\ inbox \subseteq Reading \cup Message
  /\ run \in [Invocations -> {Idle} \cup Running]
  /\ events \subseteq EventId /\ IsABag(mails) /\ BagToSet(mails) \subseteq events
  /\ harm \in {"none", "retried", "dropped"}
  /\ summary.stopAt # 0 => summary.active

(* One mail for a user, a kind and a plugged session: neither a repeated   *)
(* delivery nor a retry after a failure nor two invocations side by side   *)
(* send a second one, because the event is put on a condition first.       *)
AtMostOneMail == \A e \in events : Copies(e) <= 1

(* If no invocation failed, every threshold the stored SOC has crossed in  *)
(* a charge was mailed to the users who asked for it, whichever invocation *)
(* stored the readings, and in whatever order they came.                   *)
CrossingIsMailed ==
  Quiet /\ harm = "none" =>
    \A r \in reached : Copies([kind |-> "soc", user |-> r.user, id |-> r.id]) = 1

(* A charge that has paused for ten minutes has its summary, even if       *)
(* invocations failed, as long as AWS did not give a task up: reading the  *)
(* stop again queues the message again.  One that ended by unplugging has  *)
(* it only if no invocation failed.                                        *)
EndedChargeIsSummarised ==
  LET Told(id) == \A u \in Summarised : [kind |-> "summary", user |-> u, id |-> id] \in events
  IN Quiet => /\ harm # "dropped" /\ summary.active /\ summary.charging = "no" => Told(summary.id)
              /\ harm = "none" => \A id \in unplugged : Told(id)

(* A stop is only confirmed if the stored session has not charged again    *)
(* since: the delayed message finds its candidate withdrawn or replaced.   *)
StopIsConfirmed ==
  [][\A i \in Invocations :
       At(i, "validate") /\ run'[i] # Idle /\ run[i].task.kind = "stop" /\ run'[i].todo # {}
         => resumedAt <= run[i].task.stopAt]_vars
=============================================================================
