----------------------------- MODULE DailySummary -----------------------------
(***************************************************************************)
(* The daily mail of one user and vehicle: send_daily_summaries() runs     *)
(* every hour from midnight to eight, scans the events, looks whether a    *)
(* journey or a charge is in progress, and then sends one mail for the day *)
(* before.  Charges and journeys go on meanwhile.  Of them only what the   *)
(* daily run can see is kept: the two rows, and the events.                *)
(*                                                                         *)
(* A tick is an hour.  The ten minutes after which a pause or a stop       *)
(* becomes an event may lie before or after its end; the schedule delivers *)
(* its event at least once, so two runs may meet.                          *)
(***************************************************************************)
EXTENDS Naturals, Sequences, FiniteSets

CONSTANTS
  DailyRuns,     \* invocations that may run at the same time
  DayHours,      \* length of a local day
  ForceHour,     \* FORCE_SEND_HOUR
  LastHour,      \* bound on the clock
  MaxActivities  \* bound on the number of charges and journeys

VARIABLES
  hour,          \* local time
  charge,        \* the charge in the session row: its number, and whether it runs
  drive,         \* the journey row: its number, and when it stopped
  activities,    \* how many charges and journeys there were
  unrecorded,    \* activities that are over and have no event yet
  recorded,      \* CHARGING_SUMMARY and JOURNEY_SUMMARY events
  daily,         \* the invocations
  reserved,      \* days with a DAILY_SUMMARY event
  dailyMails,    \* the mails, in their order
  forcedDays,    \* ghost: days a forced run with something to tell has ended for
  dailyFailed    \* ghost: whether a run was cut off

dailyVars == <<hour, charge, drive, activities, unrecorded, recorded,
               daily, reserved, dailyMails, forcedDays, dailyFailed>>
mailVars == <<daily, reserved, dailyMails, forcedDays, dailyFailed>>

Hours == 0..LastHour
NoCharge == [n |-> 0, state |-> "none", stopAt |-> 0]
NoDrive == [n |-> 0, state |-> "none", stopAt |-> 0]
DayEvent == [n: 1..MaxActivities, receivedAt: Hours]

DayOf(t) == t \div DayHours
HourOf(t) == t % DayHours

NotRunning == [at |-> "idle"]
DailyRun ==
  [at: {"check", "reserve", "publish"}, day: Nat, force: BOOLEAN, found: SUBSET DayEvent]

DailyInit ==
  /\ hour = DayHours - 1
  /\ charge = NoCharge /\ drive = NoDrive /\ activities = 0
  /\ unrecorded = {} /\ recorded = {}
  /\ daily = [r \in DailyRuns |-> NotRunning]
  /\ reserved = {} /\ dailyMails = <<>> /\ forcedDays = {} /\ dailyFailed = FALSE

-----------------------------------------------------------------------------
(* The charge in the session row.  One that pauses stays in the row with   *)
(* its stop_candidate_at until the plug is pulled.                         *)
ChargeStarts ==
  /\ charge.state = "none" /\ activities < MaxActivities
  /\ charge' = [n |-> activities + 1, state |-> "charging", stopAt |-> 0]
  /\ activities' = activities + 1
  /\ UNCHANGED <<hour, drive, unrecorded, recorded, mailVars>>

ChargePauses ==
  /\ charge.state = "charging"
  /\ charge' = [charge EXCEPT !.state = "paused", !.stopAt = hour]
  /\ UNCHANGED <<hour, drive, activities, unrecorded, recorded, mailVars>>

ChargeResumes ==
  /\ charge.state = "paused"
  /\ charge' = [charge EXCEPT !.state = "charging", !.stopAt = 0]
  /\ UNCHANGED <<hour, drive, activities, unrecorded, recorded, mailVars>>

HasEvent(n) == \E e \in recorded \cup unrecorded : e.n = n

(* validate_charging_summary(), ten minutes after the stop candidate.      *)
PauseIsConfirmed ==
  /\ charge.state = "paused" /\ ~HasEvent(charge.n)
  /\ unrecorded' = unrecorded \cup {[n |-> charge.n, receivedAt |-> charge.stopAt]}
  /\ UNCHANGED <<hour, charge, drive, activities, recorded, mailVars>>

(* The unplugging clears the row before its event is put.                  *)
ChargeUnplugged ==
  /\ charge.state # "none"
  /\ charge' = NoCharge
  /\ unrecorded' = IF HasEvent(charge.n) THEN unrecorded
                   ELSE unrecorded \cup {[n |-> charge.n, receivedAt |-> hour]}
  /\ UNCHANGED <<hour, drive, activities, recorded, mailVars>>

DriveStarts ==
  /\ drive.state = "none" /\ activities < MaxActivities
  /\ drive' = [n |-> activities + 1, state |-> "moving", stopAt |-> 0]
  /\ activities' = activities + 1
  /\ UNCHANGED <<hour, charge, unrecorded, recorded, mailVars>>

DriveStops ==
  /\ drive.state = "moving"
  /\ drive' = [drive EXCEPT !.state = "stopped", !.stopAt = hour]
  /\ UNCHANGED <<hour, charge, activities, unrecorded, recorded, mailVars>>

DriveResumes ==
  /\ drive.state = "stopped"
  /\ drive' = [drive EXCEPT !.state = "moving", !.stopAt = 0]
  /\ UNCHANGED <<hour, charge, activities, unrecorded, recorded, mailVars>>

(* finalize_journey() clears the row before its event is put.              *)
DriveCleared ==
  /\ drive.state = "stopped"
  /\ drive' = NoDrive
  /\ unrecorded' = unrecorded \cup {[n |-> drive.n, receivedAt |-> drive.stopAt]}
  /\ UNCHANGED <<hour, charge, activities, recorded, mailVars>>

(* The put of the event; without it the invocation was cut off before.     *)
EventRecorded(e) ==
  /\ e \in unrecorded
  /\ unrecorded' = unrecorded \ {e} /\ recorded' = recorded \cup {e}
  /\ UNCHANGED <<hour, charge, drive, activities, mailVars>>

-----------------------------------------------------------------------------
(* Mutant: the end of the window belongs to it.                            *)
WindowWithEnd(e, day) == e.receivedAt >= day * DayHours /\ e.receivedAt <= (day + 1) * DayHours

(* aggregate(): the events of the day.                                     *)
InWindow(e, day) == e.receivedAt >= day * DayHours /\ e.receivedAt < (day + 1) * DayHours

RowsAndClock == <<hour, charge, drive, activities, unrecorded, recorded>>
DailyBecomes(r, s) == daily' = [daily EXCEPT ![r] = s]

(* report_window(): the day before, and whether this is the last run.      *)
ReportWindow == [day |-> DayOf(hour) - 1, force |-> HourOf(hour) >= ForceHour]

(* The scan of all events.                                                 *)
DailyBegins(r) ==
  /\ daily[r] = NotRunning
  /\ HourOf(hour) <= ForceHour /\ DayOf(hour) > 0
  /\ LET day == ReportWindow.day IN
     DailyBecomes(r, [at |-> "check", day |-> day, force |-> ReportWindow.force,
                      found |-> {e \in recorded : InWindow(e, day)}])
  /\ UNCHANGED <<RowsAndClock, reserved, dailyMails, forcedDays, dailyFailed>>

(* _daily_activity_in_progress()                                           *)
ActivityInProgress == charge.state = "charging" \/ drive.state # "none"

(* Mutant: the last run waits as well.                                     *)
AlwaysWaits(r) ==
  /\ daily[r].at = "check"
  /\ LET run == daily[r]
         ends == ActivityInProgress \/ run.found = {}
     IN /\ DailyBecomes(r, IF ends THEN NotRunning ELSE [run EXCEPT !.at = "reserve"])
        /\ forcedDays' = IF ends /\ run.force /\ run.found # {} THEN forcedDays \cup {run.day}
                         ELSE forcedDays
  /\ UNCHANGED <<RowsAndClock, reserved, dailyMails, dailyFailed>>

(* has_activity()                                                          *)
HasActivity(found) == found # {}

(* The run is put off, has nothing to tell, or goes on.                    *)
DailyChecks(r) ==
  /\ daily[r].at = "check"
  /\ LET run == daily[r]
         ends == (ActivityInProgress /\ ~run.force) \/ ~HasActivity(run.found)
     IN /\ DailyBecomes(r, IF ends THEN NotRunning ELSE [run EXCEPT !.at = "reserve"])
        /\ forcedDays' = IF ends /\ run.force /\ run.found # {} THEN forcedDays \cup {run.day}
                         ELSE forcedDays
  /\ UNCHANGED <<RowsAndClock, reserved, dailyMails, dailyFailed>>

(* _reserve_daily_event()                                                  *)
DailyReserves(r) ==
  /\ daily[r].at = "reserve"
  /\ LET run == daily[r] IN
     IF run.day \in reserved
       THEN /\ DailyBecomes(r, NotRunning)
            /\ forcedDays' = IF run.force THEN forcedDays \cup {run.day} ELSE forcedDays
            /\ UNCHANGED reserved
       ELSE /\ DailyBecomes(r, [run EXCEPT !.at = "publish"])
            /\ reserved' = reserved \cup {run.day}
            /\ UNCHANGED forcedDays
  /\ UNCHANGED <<RowsAndClock, dailyMails, dailyFailed>>

(* _daily_text(): what the mail tells of, in sums.                         *)
DailyText(run) == [day |-> run.day, content |-> run.found]

DailyPublishes(r) ==
  /\ daily[r].at = "publish"
  /\ LET run == daily[r] IN
     /\ dailyMails' = Append(dailyMails, DailyText(run))
     /\ forcedDays' = IF run.force THEN forcedDays \cup {run.day} ELSE forcedDays
  /\ DailyBecomes(r, NotRunning)
  /\ UNCHANGED <<RowsAndClock, reserved, dailyFailed>>

DailyFails(r) ==
  /\ daily[r] # NotRunning
  /\ DailyBecomes(r, NotRunning)
  /\ dailyFailed' = TRUE
  /\ UNCHANGED <<RowsAndClock, reserved, dailyMails, forcedDays>>

HourPasses ==
  /\ hour < LastHour
  /\ hour' = hour + 1
  /\ UNCHANGED <<charge, drive, activities, unrecorded, recorded, mailVars>>

Activity ==
  \/ ChargeStarts \/ ChargePauses \/ ChargeResumes \/ PauseIsConfirmed \/ ChargeUnplugged
  \/ DriveStarts \/ DriveStops \/ DriveResumes \/ DriveCleared
  \/ \E e \in DayEvent : EventRecorded(e)

DailyNext ==
  \/ Activity \/ HourPasses
  \/ \E r \in DailyRuns :
       DailyBegins(r) \/ DailyChecks(r) \/ DailyReserves(r) \/ DailyPublishes(r) \/ DailyFails(r)

DailySpec == DailyInit /\ [][DailyNext]_dailyVars

-----------------------------------------------------------------------------
(* One mail for a day, in spite of hourly runs, repeated events of the     *)
(* schedule and failures between the reservation and the mail.             *)
OneMailPerDay ==
  \A m, n \in DOMAIN dailyMails : m # n => dailyMails[m].day # dailyMails[n].day

(* No charge and no journey is told of in two mails: the windows of two    *)
(* days meet and do not overlap.                                           *)
CountedOnce ==
  \A m, n \in DOMAIN dailyMails : m # n => dailyMails[m].content \cap dailyMails[n].content = {}

(* An activity is told of once: in one mail, of one day.                   *)
ToldOnce == OneMailPerDay /\ CountedOnce

(* If no run was cut off, a day with events has its mail once the last run *)
(* of the morning is over, even if something is in progress all morning.   *)
SentAtEight ==
  (daily = [r \in DailyRuns |-> NotRunning]) /\ ~dailyFailed =>
    \A day \in forcedDays : \E m \in DOMAIN dailyMails : dailyMails[m].day = day

(* A journey or charge belongs to the day it ends on and, once that day    *)
(* was mailed, is in its mail.                                             *)
EveryEventIsCounted ==
  \A m \in DOMAIN dailyMails, e \in recorded :
    DayOf(e.receivedAt) = dailyMails[m].day => e \in dailyMails[m].content
=============================================================================
