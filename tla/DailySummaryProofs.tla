-------------------------- MODULE DailySummaryProofs --------------------------
(***************************************************************************)
(* What DailySummary promises of the daily mail, for any number of         *)
(* overlapping runs, any length of a day and any number of activities.     *)
(***************************************************************************)
EXTENDS DailySummary, TLAPS

(* A day has hours.                                                        *)
DayAssumption == DayHours \in Nat \ {0}

-----------------------------------------------------------------------------
(* Types, as far as the properties need them.                              *)

Timed == [n: Nat, state: {"none", "charging", "paused", "moving", "stopped"}, stopAt: Nat]
TimedEvent == [n: Nat, receivedAt: Nat]
Window(day) == {e \in TimedEvent : InWindow(e, day)}

ActivityTypeOK ==
  /\ hour \in Nat /\ activities \in Nat
  /\ charge \in Timed /\ drive \in Timed
  /\ recorded \subseteq TimedEvent /\ unrecorded \subseteq TimedEvent

Working == [at: {"check", "reserve", "publish"}, day: Nat, force: BOOLEAN,
            found: SUBSET TimedEvent]
Mail == [day: Nat, content: SUBSET TimedEvent]

RunTypeOK ==
  /\ daily \in [DailyRuns -> {NotRunning} \cup Working]
  /\ dailyMails \in Seq(Mail)
  /\ dailyFailed \in BOOLEAN

DailyTypeOK == ActivityTypeOK /\ RunTypeOK

(* Every mail is of a reserved day; a run that is about to publish has     *)
(* reserved its day alone, and the day has no mail yet.                    *)
Mailed == {dailyMails[m].day : m \in DOMAIN dailyMails}
Publishing(r) == daily[r].at = "publish"

ReservationInv ==
  /\ Mailed \subseteq reserved
  /\ \A r \in DailyRuns : Publishing(r) => daily[r].day \in reserved \ Mailed
  /\ \A r, q \in DailyRuns :
       Publishing(r) /\ Publishing(q) /\ daily[r].day = daily[q].day => r = q
  /\ OneMailPerDay

(* A run has found events of its day, and a mail tells of such.            *)
ContentInv ==
  /\ \A r \in DailyRuns : daily[r] # NotRunning => daily[r].found \subseteq Window(daily[r].day)
  /\ \A m \in DOMAIN dailyMails : dailyMails[m].content \subseteq Window(dailyMails[m].day)

(* A reserved day is mailed or about to be, if no run was cut off, and a   *)
(* forced run only ends with its day reserved.                             *)
ForcedInv ==
  /\ forcedDays \subseteq reserved
  /\ ~dailyFailed =>
       \A day \in reserved : day \in Mailed \/ \E r \in DailyRuns :
                                                 Publishing(r) /\ daily[r].day = day

-----------------------------------------------------------------------------
LEMMA ActivityTypes ==
  ASSUME DayAssumption, DailyInit
  PROVE  ActivityTypeOK
<1>1. DayHours - 1 \in Nat
  BY DEF DayAssumption
<1>2. NoCharge \in Timed /\ NoDrive \in Timed
  BY DEF Timed, NoCharge, NoDrive
<1> QED
  BY <1>1, <1>2 DEF DailyInit, ActivityTypeOK

LEMMA ActivityTypesKept ==
  ASSUME ActivityTypeOK, [DailyNext]_dailyVars
  PROVE  ActivityTypeOK'
<1> USE DEF ActivityTypeOK, Timed, TimedEvent
<1>1. CASE ChargeStarts
  BY <1>1 DEF ChargeStarts
<1>2. CASE ChargePauses
  BY <1>2 DEF ChargePauses
<1>3. CASE ChargeResumes
  BY <1>3 DEF ChargeResumes
<1>4. CASE PauseIsConfirmed
  BY <1>4 DEF PauseIsConfirmed
<1>5. CASE ChargeUnplugged
  BY <1>5 DEF ChargeUnplugged, NoCharge
<1>6. CASE DriveStarts
  BY <1>6 DEF DriveStarts
<1>7. CASE DriveStops
  BY <1>7 DEF DriveStops
<1>8. CASE DriveResumes
  BY <1>8 DEF DriveResumes
<1>9. CASE DriveCleared
  BY <1>9 DEF DriveCleared, NoDrive
<1>10. ASSUME NEW e \in DayEvent, EventRecorded(e)
       PROVE  ActivityTypeOK'
  BY <1>10 DEF EventRecorded
<1>11. CASE HourPasses
  BY <1>11 DEF HourPasses
<1>12. ASSUME NEW r \in DailyRuns,
              DailyBegins(r) \/ DailyChecks(r) \/ DailyReserves(r) \/ DailyPublishes(r)
                \/ DailyFails(r)
       PROVE  ActivityTypeOK'
  BY <1>12 DEF DailyBegins, DailyChecks, DailyReserves, DailyPublishes, DailyFails,
    RowsAndClock
<1>13. CASE UNCHANGED dailyVars
  BY <1>13 DEF dailyVars
<1> QED
  BY <1>1, <1>2, <1>3, <1>4, <1>5, <1>6, <1>7, <1>8, <1>9, <1>10, <1>11, <1>12, <1>13
  DEF DailyNext, Activity

(* Only the daily run touches what it keeps.                               *)
LEMMA OnlyRuns ==
  ASSUME [DailyNext]_dailyVars,
         \A r \in DailyRuns : ~(DailyBegins(r) \/ DailyChecks(r) \/ DailyReserves(r)
                                  \/ DailyPublishes(r) \/ DailyFails(r))
  PROVE  UNCHANGED mailVars
BY DEF DailyNext, Activity, ChargeStarts, ChargePauses, ChargeResumes, PauseIsConfirmed,
  ChargeUnplugged, DriveStarts, DriveStops, DriveResumes, DriveCleared, EventRecorded,
  HourPasses, dailyVars, mailVars

LEMMA DayIsNat ==
  ASSUME DayAssumption, hour \in Nat
  PROVE  DayOf(hour) \in Nat
BY DEF DayAssumption, DayOf

(* The windows of two days have no moment in common.                       *)
LEMMA WindowsAreDisjoint ==
  ASSUME DayAssumption, NEW d1 \in Nat, NEW d2 \in Nat, NEW e \in TimedEvent,
         InWindow(e, d1), InWindow(e, d2)
  PROVE  d1 = d2
<1> DEFINE H == DayHours
           t == e.receivedAt
<1>1. H \in Nat /\ H > 0 /\ t \in Nat
  BY DEF DayAssumption, TimedEvent
<1>2. ASSUME NEW a \in Nat, NEW b \in Nat, a < b
      PROVE  (a + 1) * H <= b * H
  <2>1. PICK k \in Nat : b = a + 1 + k
    <3>1. b - (a + 1) \in Nat /\ b = a + 1 + (b - (a + 1))
      BY <1>2
    <3> QED  BY <3>1
  <2>2. (a + 1 + k) * H = (a + 1) * H + k * H
    BY <1>1
  <2>3. k * H >= 0 /\ (a + 1) * H \in Nat /\ k * H \in Nat
    BY <1>1
  <2> QED  BY <2>1, <2>2, <2>3
<1>3. d1 * H <= t /\ t < (d1 + 1) * H /\ d2 * H <= t /\ t < (d2 + 1) * H
  BY DEF InWindow
<1>4. d1 * H \in Nat /\ d2 * H \in Nat /\ (d1 + 1) * H \in Nat /\ (d2 + 1) * H \in Nat
  BY <1>1
<1>5. ~(d1 < d2)
  BY <1>1, <1>2, <1>3, <1>4
<1>6. ~(d2 < d1)
  BY <1>1, <1>2, <1>3, <1>4
<1> QED  BY <1>5, <1>6

-----------------------------------------------------------------------------
LEMMA RunTypes ==
  ASSUME DailyInit
  PROVE  RunTypeOK
<1>1. dailyMails \in Seq(Mail)
  BY DEF DailyInit
<1>2. daily \in [DailyRuns -> {NotRunning} \cup Working]
  BY DEF DailyInit
<1> QED
  BY <1>1, <1>2 DEF DailyInit, RunTypeOK

LEMMA RunTypesKept ==
  ASSUME DayAssumption, DailyTypeOK, [DailyNext]_dailyVars
  PROVE  RunTypeOK'
<1> USE DEF DailyTypeOK
<1> SUFFICES ASSUME NEW r \in DailyRuns,
                    DailyBegins(r) \/ DailyChecks(r) \/ DailyReserves(r)
                      \/ DailyPublishes(r) \/ DailyFails(r)
             PROVE  RunTypeOK'
  BY OnlyRuns DEF RunTypeOK, mailVars
<1>0. daily[r] \in {NotRunning} \cup Working /\ daily \in [DailyRuns -> {NotRunning} \cup Working]
  BY DEF RunTypeOK
<1>1. CASE DailyBegins(r)
  <2>1. DayOf(hour) - 1 \in Nat
    BY <1>1, DayIsNat DEF DailyBegins, ActivityTypeOK
  <2>2. (HourOf(hour) >= ForceHour) \in BOOLEAN
    OBVIOUS
  <2>3. ReportWindow.day \in Nat /\ ReportWindow.force \in BOOLEAN
    BY <2>1, <2>2 DEF ReportWindow
  <2>4. [at |-> "check", day |-> ReportWindow.day, force |-> ReportWindow.force,
         found |-> {e \in recorded : InWindow(e, ReportWindow.day)}] \in Working
    BY <2>3 DEF Working, ActivityTypeOK
  <2>5. daily' \in [DailyRuns -> {NotRunning} \cup Working]
    BY <1>0, <1>1, <2>4 DEF DailyBegins, DailyBecomes
  <2> QED
    BY <1>1, <2>5 DEF DailyBegins, RunTypeOK
<1>2. CASE DailyChecks(r)
  <2>1. daily[r] \in Working
    BY <1>0, <1>2 DEF DailyChecks, NotRunning
  <2>2. [daily[r] EXCEPT !.at = "reserve"] \in Working
    BY <2>1 DEF Working
  <2> QED
    BY <1>0, <1>2, <2>2 DEF DailyChecks, DailyBecomes, RunTypeOK
<1>3. CASE DailyReserves(r)
  <2>1. daily[r] \in Working
    BY <1>0, <1>3 DEF DailyReserves, NotRunning
  <2>2. [daily[r] EXCEPT !.at = "publish"] \in Working
    BY <2>1 DEF Working
  <2> QED
    BY <1>0, <1>3, <2>2 DEF DailyReserves, DailyBecomes, RunTypeOK
<1>4. CASE DailyPublishes(r)
  <2>1. daily[r] \in Working
    BY <1>0, <1>4 DEF DailyPublishes, NotRunning
  <2>2. DailyText(daily[r]) \in Mail
    BY <2>1 DEF DailyText, Mail, Working
  <2> QED
    BY <1>0, <1>4, <2>2 DEF DailyPublishes, DailyBecomes, RunTypeOK
<1>5. CASE DailyFails(r)
  BY <1>0, <1>5 DEF DailyFails, DailyBecomes, RunTypeOK
<1> QED
  BY <1>1, <1>2, <1>3, <1>4, <1>5

-----------------------------------------------------------------------------
(* One mail for a day.                                                     *)

(* A mail more.                                                            *)
LEMMA AnotherMail ==
  ASSUME RunTypeOK, NEW mail \in Mail, dailyMails' = Append(dailyMails, mail)
  PROVE  /\ Mailed' = Mailed \cup {mail.day}
         /\ \A m \in DOMAIN dailyMails' :
              \/ m \in DOMAIN dailyMails /\ dailyMails'[m] = dailyMails[m]
              \/ m = Len(dailyMails) + 1 /\ dailyMails'[m] = mail
<1>1. dailyMails \in Seq(Mail)
  BY DEF RunTypeOK
<1>2. /\ DOMAIN dailyMails = 1..Len(dailyMails) /\ Len(dailyMails) \in Nat
      /\ DOMAIN dailyMails' = 1..(Len(dailyMails) + 1)
      /\ \A m \in 1..Len(dailyMails) : dailyMails'[m] = dailyMails[m]
      /\ dailyMails'[Len(dailyMails) + 1] = mail
  BY <1>1
<1>3. \A m \in DOMAIN dailyMails' :
        \/ m \in DOMAIN dailyMails /\ dailyMails'[m] = dailyMails[m]
        \/ m = Len(dailyMails) + 1 /\ dailyMails'[m] = mail
  BY <1>2
<1>4. Mailed' \subseteq Mailed \cup {mail.day}
  BY <1>3 DEF Mailed
<1>5. Mailed \cup {mail.day} \subseteq Mailed'
  <2>1. ASSUME NEW m \in DOMAIN dailyMails
        PROVE  m \in DOMAIN dailyMails' /\ dailyMails'[m] = dailyMails[m]
    BY <1>2
  <2>2. Len(dailyMails) + 1 \in DOMAIN dailyMails'
    BY <1>2
  <2> QED  BY <1>2, <2>1, <2>2 DEF Mailed
<1> QED  BY <1>3, <1>4, <1>5

LEMMA ReservationsKept ==
  ASSUME DayAssumption, DailyTypeOK, ReservationInv, [DailyNext]_dailyVars
  PROVE  ReservationInv'
<1> SUFFICES ASSUME NEW r \in DailyRuns,
                    DailyBegins(r) \/ DailyChecks(r) \/ DailyReserves(r)
                      \/ DailyPublishes(r) \/ DailyFails(r)
             PROVE  ReservationInv'
  BY OnlyRuns DEF ReservationInv, mailVars, Mailed, Publishing, OneMailPerDay
<1>0. daily \in [DailyRuns -> {NotRunning} \cup Working] /\ dailyMails \in Seq(Mail)
  BY DEF DailyTypeOK, RunTypeOK
<1>1. ASSUME NEW s, s.at # "publish", daily' = [daily EXCEPT ![r] = s],
             UNCHANGED <<reserved, dailyMails>>
      PROVE  ReservationInv'
  <2>1. \A q \in DailyRuns : Publishing(q)' => q # r /\ daily'[q] = daily[q] /\ Publishing(q)
    BY <1>0, <1>1 DEF Publishing
  <2> QED
    BY <1>1, <2>1 DEF ReservationInv, Mailed, OneMailPerDay
<1>2. NotRunning.at # "publish"
  BY DEF NotRunning
<1>3. CASE DailyBegins(r)
  BY <1>1, <1>3 DEF DailyBegins, DailyBecomes
<1>4. CASE DailyChecks(r)
  <2>1. daily[r] \in Working
    BY <1>0, <1>4 DEF DailyChecks, NotRunning
  <2>2. [daily[r] EXCEPT !.at = "reserve"].at # "publish"
    BY <2>1 DEF Working
  <2> QED
    BY <1>1, <1>2, <1>4, <2>2 DEF DailyChecks, DailyBecomes
<1>5. CASE DailyReserves(r)
  <2>1. CASE daily[r].day \in reserved
    BY <1>1, <1>2, <1>5, <2>1 DEF DailyReserves, DailyBecomes
  <2>2. CASE daily[r].day \notin reserved
    <3>1. daily[r] \in Working
      BY <1>0, <1>5 DEF DailyReserves, NotRunning
    <3>2. /\ daily' = [daily EXCEPT ![r] = [daily[r] EXCEPT !.at = "publish"]]
          /\ reserved' = reserved \cup {daily[r].day} /\ UNCHANGED dailyMails
      BY <1>5, <2>2 DEF DailyReserves, DailyBecomes
    <3>3. daily'[r].day = daily[r].day /\ \A q \in DailyRuns \ {r} : daily'[q] = daily[q]
      BY <1>0, <3>1, <3>2 DEF Working
    <3>4. daily[r].day \notin Mailed /\ Mailed' = Mailed
      BY <2>2, <3>2 DEF ReservationInv, Mailed
    <3>5. \A q \in DailyRuns \ {r} : Publishing(q) => daily[q].day # daily[r].day
      BY <2>2 DEF ReservationInv
    <3> QED
      BY <3>2, <3>3, <3>4, <3>5 DEF ReservationInv, Publishing, OneMailPerDay
  <2> QED  BY <2>1, <2>2
<1>6. CASE DailyPublishes(r)
  <2>1. daily[r] \in Working /\ Publishing(r)
    BY <1>0, <1>6 DEF DailyPublishes, NotRunning, Publishing
  <2>2. DailyText(daily[r]) \in Mail /\ DailyText(daily[r]).day = daily[r].day
    BY <2>1 DEF DailyText, Mail, Working
  <2>3. /\ dailyMails' = Append(dailyMails, DailyText(daily[r]))
        /\ daily' = [daily EXCEPT ![r] = NotRunning] /\ UNCHANGED reserved
    BY <1>6 DEF DailyPublishes, DailyBecomes
  <2>4. /\ Mailed' = Mailed \cup {daily[r].day}
        /\ \A m \in DOMAIN dailyMails' :
             \/ m \in DOMAIN dailyMails /\ dailyMails'[m] = dailyMails[m]
             \/ m = Len(dailyMails) + 1 /\ dailyMails'[m].day = daily[r].day
    BY <2>2, <2>3, AnotherMail DEF DailyTypeOK
  <2>5. \A q \in DailyRuns : Publishing(q)' => q # r /\ daily'[q] = daily[q] /\ Publishing(q)
    BY <1>0, <1>2, <2>3 DEF Publishing
  <2>6. \A m \in DOMAIN dailyMails : dailyMails[m].day # daily[r].day
    BY <2>1 DEF ReservationInv, Mailed
  <2>7. OneMailPerDay'
    BY <2>4, <2>6 DEF ReservationInv, OneMailPerDay
  <2>8. \A q \in DailyRuns : Publishing(q)' => daily'[q].day \in reserved' \ Mailed'
    BY <2>1, <2>3, <2>4, <2>5 DEF ReservationInv
  <2>9. Mailed' \subseteq reserved'
    BY <2>1, <2>3, <2>4 DEF ReservationInv
  <2> QED
    BY <2>5, <2>7, <2>8, <2>9 DEF ReservationInv
<1>7. CASE DailyFails(r)
  BY <1>1, <1>2, <1>7 DEF DailyFails, DailyBecomes
<1> QED
  BY <1>3, <1>4, <1>5, <1>6, <1>7

-----------------------------------------------------------------------------
(* What a mail tells of.                                                   *)

LEMMA ContentsKept ==
  ASSUME DayAssumption, DailyTypeOK, ContentInv, [DailyNext]_dailyVars
  PROVE  ContentInv'
<1> SUFFICES ASSUME NEW r \in DailyRuns,
                    DailyBegins(r) \/ DailyChecks(r) \/ DailyReserves(r)
                      \/ DailyPublishes(r) \/ DailyFails(r)
             PROVE  ContentInv'
  BY OnlyRuns DEF ContentInv, mailVars, Window, InWindow
<1>0. daily \in [DailyRuns -> {NotRunning} \cup Working]
  BY DEF DailyTypeOK, RunTypeOK
<1>1. ASSUME NEW s, s # NotRunning => s.found \subseteq Window(s.day),
             daily' = [daily EXCEPT ![r] = s], UNCHANGED dailyMails
      PROVE  ContentInv'
  BY <1>0, <1>1 DEF ContentInv, Window, InWindow
<1>2. CASE DailyBegins(r)
  <2>1. {e \in recorded : InWindow(e, ReportWindow.day)} \subseteq Window(ReportWindow.day)
    BY DEF DailyTypeOK, ActivityTypeOK, Window
  <2> DEFINE s == [at |-> "check", day |-> ReportWindow.day, force |-> ReportWindow.force,
                   found |-> {e \in recorded : InWindow(e, ReportWindow.day)}]
  <2>2. s.found \subseteq Window(s.day)
    BY <2>1
  <2>3. daily' = [daily EXCEPT ![r] = s] /\ UNCHANGED dailyMails
    BY <1>2 DEF DailyBegins, DailyBecomes
  <2> HIDE DEF s
  <2> QED  BY <1>1, <2>2, <2>3
<1>3. ASSUME NEW at \in {"reserve", "publish"}, daily[r] # NotRunning,
             daily' = [daily EXCEPT ![r] = [daily[r] EXCEPT !.at = at]], UNCHANGED dailyMails
      PROVE  ContentInv'
  <2>1. daily[r] \in Working /\ daily[r].found \subseteq Window(daily[r].day)
    BY <1>0, <1>3 DEF ContentInv
  <2> DEFINE s == [daily[r] EXCEPT !.at = at]
  <2>2. s.found = daily[r].found /\ s.day = daily[r].day
    BY <2>1 DEF Working
  <2>3. s.found \subseteq Window(s.day)
    BY <2>1, <2>2
  <2>4. daily' = [daily EXCEPT ![r] = s]
    BY <1>3
  <2> HIDE DEF s
  <2> QED  BY <1>1, <1>3, <2>3, <2>4
<1>4. CASE DailyChecks(r)
  <2>1. daily[r] # NotRunning /\ UNCHANGED dailyMails
    BY <1>4 DEF DailyChecks, NotRunning
  <2>2. \/ daily' = [daily EXCEPT ![r] = NotRunning]
        \/ daily' = [daily EXCEPT ![r] = [daily[r] EXCEPT !.at = "reserve"]]
    BY <1>4 DEF DailyChecks, DailyBecomes
  <2> QED  BY <1>1, <1>3, <2>1, <2>2
<1>5. CASE DailyReserves(r)
  BY <1>1, <1>3, <1>5 DEF DailyReserves, DailyBecomes, NotRunning
<1>6. CASE DailyPublishes(r)
  <2>1. daily[r] \in Working /\ daily[r].found \subseteq Window(daily[r].day)
    BY <1>0, <1>6 DEF DailyPublishes, NotRunning, ContentInv
  <2>2. /\ DailyText(daily[r]) \in Mail /\ DailyText(daily[r]).day = daily[r].day
        /\ DailyText(daily[r]).content = daily[r].found
    BY <2>1 DEF DailyText, Mail, Working
  <2>3. /\ dailyMails' = Append(dailyMails, DailyText(daily[r]))
        /\ daily' = [daily EXCEPT ![r] = NotRunning]
    BY <1>6 DEF DailyPublishes, DailyBecomes
  <2>4. \A m \in DOMAIN dailyMails' :
             \/ m \in DOMAIN dailyMails /\ dailyMails'[m] = dailyMails[m]
             \/ dailyMails'[m] = DailyText(daily[r])
    BY <2>2, <2>3, AnotherMail DEF DailyTypeOK
  <2>5. \A m \in DOMAIN dailyMails' : dailyMails'[m].content \subseteq Window(dailyMails'[m].day)
    BY <2>1, <2>2, <2>4 DEF ContentInv
  <2>6. \A q \in DailyRuns : daily'[q] # NotRunning => daily'[q] = daily[q]
    BY <1>0, <2>3
  <2> QED
    BY <2>5, <2>6 DEF ContentInv, Window, InWindow
<1>7. CASE DailyFails(r)
  BY <1>1, <1>7 DEF DailyFails, DailyBecomes
<1> QED
  BY <1>2, <1>4, <1>5, <1>6, <1>7

LEMMA ContentsAreDisjoint ==
  ASSUME DayAssumption, DailyTypeOK, ReservationInv, ContentInv
  PROVE  CountedOnce
<1> SUFFICES ASSUME NEW m \in DOMAIN dailyMails, NEW n \in DOMAIN dailyMails, m # n,
                    NEW e \in dailyMails[m].content, e \in dailyMails[n].content
             PROVE  FALSE
  BY DEF CountedOnce
<1>1. dailyMails[m] \in Mail /\ dailyMails[n] \in Mail
  BY DEF DailyTypeOK, RunTypeOK
<1>2. dailyMails[m].day \in Nat /\ dailyMails[n].day \in Nat
  BY <1>1 DEF Mail
<1>3. /\ e \in TimedEvent
      /\ InWindow(e, dailyMails[m].day) /\ InWindow(e, dailyMails[n].day)
  BY DEF ContentInv, Window
<1>4. dailyMails[m].day = dailyMails[n].day
  BY <1>2, <1>3, WindowsAreDisjoint
<1> QED
  BY <1>4 DEF ReservationInv, OneMailPerDay

-----------------------------------------------------------------------------
(* The last run of the morning.                                            *)

LEMMA ForcedKept ==
  ASSUME DayAssumption, DailyTypeOK, ReservationInv, ForcedInv, [DailyNext]_dailyVars
  PROVE  ForcedInv'
<1> SUFFICES ASSUME NEW r \in DailyRuns,
                    DailyBegins(r) \/ DailyChecks(r) \/ DailyReserves(r)
                      \/ DailyPublishes(r) \/ DailyFails(r)
             PROVE  ForcedInv'
  BY OnlyRuns DEF ForcedInv, mailVars, Mailed, Publishing
<1>0. daily \in [DailyRuns -> {NotRunning} \cup Working]
  BY DEF DailyTypeOK, RunTypeOK
<1>1. ASSUME NEW s, daily' = [daily EXCEPT ![r] = s], ~Publishing(r),
             UNCHANGED <<reserved, dailyMails, dailyFailed>>,
             forcedDays' \subseteq reserved
      PROVE  ForcedInv'
  <2>1. \A q \in DailyRuns : Publishing(q) => daily'[q] = daily[q]
    BY <1>0, <1>1
  <2> QED
    BY <1>1, <2>1 DEF ForcedInv, Mailed, Publishing
<1>2. CASE DailyBegins(r)
  BY <1>1, <1>2 DEF DailyBegins, DailyBecomes, NotRunning, Publishing, ForcedInv
<1>3. CASE DailyChecks(r)
  <2>1. ~Publishing(r)
    BY <1>3 DEF DailyChecks, Publishing
  <2>2. forcedDays' = forcedDays
    BY <1>3 DEF DailyChecks, HasActivity
  <2> QED
    BY <1>1, <1>3, <2>1, <2>2 DEF DailyChecks, DailyBecomes, ForcedInv
<1>4. CASE DailyReserves(r)
  <2>1. ~Publishing(r) /\ daily[r] \in Working
    BY <1>0, <1>4 DEF DailyReserves, Publishing, NotRunning
  <2>2. CASE daily[r].day \in reserved
    BY <1>1, <1>4, <2>1, <2>2 DEF DailyReserves, DailyBecomes, ForcedInv
  <2>3. CASE daily[r].day \notin reserved
    <3>1. /\ daily' = [daily EXCEPT ![r] = [daily[r] EXCEPT !.at = "publish"]]
          /\ reserved' = reserved \cup {daily[r].day}
          /\ UNCHANGED <<dailyMails, dailyFailed, forcedDays>>
      BY <1>4, <2>3 DEF DailyReserves, DailyBecomes
    <3>2. daily'[r].at = "publish" /\ daily'[r].day = daily[r].day
      BY <1>0, <2>1, <3>1 DEF Working
    <3>3. \A q \in DailyRuns : Publishing(q) => daily'[q] = daily[q]
      BY <1>0, <2>1, <3>1
    <3> QED
      BY <3>1, <3>2, <3>3 DEF ForcedInv, Mailed, Publishing
  <2> QED  BY <2>2, <2>3
<1>5. CASE DailyPublishes(r)
  <2>1. daily[r] \in Working /\ Publishing(r)
    BY <1>0, <1>5 DEF DailyPublishes, NotRunning, Publishing
  <2>2. DailyText(daily[r]) \in Mail /\ DailyText(daily[r]).day = daily[r].day
    BY <2>1 DEF DailyText, Mail, Working
  <2>3. /\ dailyMails' = Append(dailyMails, DailyText(daily[r]))
        /\ daily' = [daily EXCEPT ![r] = NotRunning] /\ UNCHANGED <<reserved, dailyFailed>>
    BY <1>5 DEF DailyPublishes, DailyBecomes
  <2>4. Mailed' = Mailed \cup {daily[r].day}
    BY <2>2, <2>3, AnotherMail DEF DailyTypeOK
  <2>5. \A q \in DailyRuns : q # r => daily'[q] = daily[q]
    BY <1>0, <2>3
  <2>6. ~dailyFailed' => \A day \in reserved' :
          day \in Mailed' \/ \E q \in DailyRuns : Publishing(q)' /\ daily'[q].day = day
    BY <2>3, <2>4, <2>5 DEF ForcedInv, Publishing
  <2>7. forcedDays' \subseteq reserved'
    BY <1>5, <2>1, <2>3 DEF DailyPublishes, ForcedInv, ReservationInv
  <2> QED
    BY <2>6, <2>7 DEF ForcedInv
<1>6. CASE DailyFails(r)
  BY <1>6 DEF DailyFails, ForcedInv
<1> QED
  BY <1>2, <1>3, <1>4, <1>5, <1>6

LEMMA ForcedAreSent ==
  ASSUME ForcedInv
  PROVE  SentAtEight
<1> SUFFICES ASSUME daily = [r \in DailyRuns |-> NotRunning], ~dailyFailed,
                    NEW day \in forcedDays
             PROVE  \E m \in DOMAIN dailyMails : dailyMails[m].day = day
  BY DEF SentAtEight
<1>1. \A r \in DailyRuns : ~Publishing(r)
  BY DEF Publishing, NotRunning
<1>2. day \in Mailed
  BY <1>1 DEF ForcedInv
<1> QED
  BY <1>2 DEF Mailed

-----------------------------------------------------------------------------
DailyInv == DailyTypeOK /\ ReservationInv /\ ContentInv /\ ForcedInv

LEMMA DailyInvStarts ==
  ASSUME DayAssumption, DailyInit
  PROVE  DailyInv
<1>1. DailyTypeOK
  BY ActivityTypes, RunTypes DEF DailyTypeOK
<1>2. \A r \in DailyRuns : daily[r] = NotRunning /\ ~Publishing(r)
  BY DEF DailyInit, Publishing, NotRunning
<1>3. DOMAIN dailyMails = {} /\ reserved = {} /\ forcedDays = {}
  BY DEF DailyInit
<1>4. Mailed = {}
  BY <1>3 DEF Mailed
<1>5. ReservationInv
  BY <1>2, <1>3, <1>4 DEF ReservationInv, OneMailPerDay
<1>6. ContentInv /\ ForcedInv
  BY <1>2, <1>3 DEF ContentInv, ForcedInv
<1> QED
  BY <1>1, <1>5, <1>6 DEF DailyInv

LEMMA DailyInvKept ==
  ASSUME DayAssumption, DailyInv, [DailyNext]_dailyVars
  PROVE  DailyInv'
BY ActivityTypesKept, RunTypesKept, ReservationsKept, ContentsKept, ForcedKept
DEF DailyInv, DailyTypeOK

(* For any number of runs that overlap, are repeated and fail, a user gets *)
(* one daily mail for a vehicle and day: _reserve_daily_event() decides.   *)
THEOREM OneMail ==
  ASSUME DayAssumption
  PROVE  DailySpec => []OneMailPerDay
<1>1. DailyInv => OneMailPerDay
  BY DEF DailyInv, ReservationInv
<1> QED
  BY <1>1, DailyInvStarts, DailyInvKept, PTL DEF DailySpec

(* For a day of any length no charge and no journey is told of in two      *)
(* mails: report_window() gives windows that do not overlap.               *)
THEOREM CountedInOneMail ==
  ASSUME DayAssumption
  PROVE  DailySpec => []CountedOnce
<1>1. DailyInv => CountedOnce
  BY ContentsAreDisjoint DEF DailyInv
<1> QED
  BY <1>1, DailyInvStarts, DailyInvKept, PTL DEF DailySpec

(* The two together: in spite of hourly, overlapping and failing runs an   *)
(* activity is told of once.                                               *)
THEOREM ToldInOneMail ==
  ASSUME DayAssumption
  PROVE  DailySpec => []ToldOnce
<1>1. OneMailPerDay /\ CountedOnce => ToldOnce
  BY DEF ToldOnce
<1> QED
  BY <1>1, OneMail, CountedInOneMail, PTL

(* If no run was cut off, a forced run that found events has left a mail   *)
(* of its day once all runs are over, its own or that of a run it met.     *)
THEOREM LastRunSends ==
  ASSUME DayAssumption
  PROVE  DailySpec => []SentAtEight
<1>1. DailyInv => SentAtEight
  BY ForcedAreSent DEF DailyInv
<1> QED
  BY <1>1, DailyInvStarts, DailyInvKept, PTL DEF DailySpec
=============================================================================
