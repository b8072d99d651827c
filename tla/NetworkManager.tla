---------------------------- MODULE NetworkManager ----------------------------
(***************************************************************************)
(* The C6 network manager (c6_network.cpp): one cooperative loop decides   *)
(* which of two WiFi profiles the station joins, and whether the fallback  *)
(* access point is up.  Its timers are differences of a millisecond        *)
(* counter that wraps.  The radio joins, loses and scans on its own.       *)
(*                                                                         *)
(* The WiFi library is external: disconnect() and begin() take the address *)
(* away at once, so stationOnline() is false from then on.  Left out: RSSI *)
(* (a weak link only shows in the diagnostics), the counters, mDNS, SNTP.  *)
(***************************************************************************)
EXTENDS Naturals

CONSTANTS
  ClockWidth,          \* values of millis()
  ConnectTimeout,      \* CONNECT_TIMEOUT_MS, 15 s, in ticks
  RetryInterval,       \* RETRY_INTERVAL_MS, 30 s
  HomeScanInterval,    \* HOME_SCAN_INTERVAL_MS, 60 s
  StableInterval,      \* STABLE_INTERVAL_MS, 10 s
  JoinTime, ScanTime,  \* what the radio takes at most to join and to scan
  Configurations,      \* bound: the sets of profiles there may be,
  Surroundings         \* ... and what may be around

ASSUME NetworkAssumption ==
  /\ {ClockWidth, ConnectTimeout, RetryInterval, HomeScanInterval, StableInterval,
      JoinTime, ScanTime} \subseteq Nat
  /\ JoinTime < ConnectTimeout /\ ConnectTimeout < ClockWidth /\ ClockWidth > 3
  /\ 2 * RetryInterval < ClockWidth /\ HomeScanInterval < ClockWidth
  /\ Configurations \subseteq SUBSET {"home", "mobile"}
  /\ Surroundings \subseteq SUBSET {"home", "mobile", "visible"}

VARIABLES
  millis,      \* millis()
  passed,      \* whether c6NetworkLoop() ran since the last tick
  profiles,    \* the profiles with an SSID
  onboarded,   \* c6Config.onboardingComplete
  around,      \* "visible": home's SSID is in a scan; a network's name: it lets us join
  wifi,        \* the manager's variables
  radio,       \* what the WiFi library does meanwhile
  offlineFor,  \* ghost: ticks the station has been without a network
  calmFor      \* ghost: ticks since anything outside the manager changed

networkVars == <<millis, passed, profiles, onboarded, around, wifi, radio, offlineFor, calmFor>>

Profiles == {"home", "mobile"}
Millis == 0..(ClockWidth - 1)
Wifi == [target: Profiles \cup {"none"}, active: Profiles \cup {"none"}, attempting: BOOLEAN,
         attemptStarted: Millis, connectedSince: Millis, nextRetry: Millis,
         lastHomeScan: Millis, scanRunning: BOOLEAN, ap: BOOLEAN, apFailed: BOOLEAN,
         wasOnline: BOOLEAN]
Radio == [joined: Profiles \cup {"none"}, joining: Profiles \cup {"none"},
          scan: {"none", "running", "seen", "unseen"}, age: Nat]

-----------------------------------------------------------------------------
(* The helpers of the loop, from one pair of manager and radio to the next.*)

Elapsed(t) == (millis + ClockWidth - t) % ClockWidth
At(age) == (millis + age) % ClockWidth
Reached(t) == Elapsed(t) < ClockWidth \div 2     \* static_cast<int32_t>(now - t) >= 0

Online == radio.joined # "none"
Quiet == [joined |-> "none", joining |-> "none", scan |-> "none", age |-> 0]

(* startFallbackAp(); softAP() may fail.  Without a profile the station is *)
(* turned off.                                                             *)
WithAp(w, starts) == IF w.ap THEN w ELSE [w EXCEPT !.ap = starts, !.apFailed = ~starts]
WithStation(r) == IF profiles = {} THEN [r EXCEPT !.joined = "none", !.joining = "none"] ELSE r

(* beginProfile() of a profile with an SSID.                               *)
BeginProfile(w, p) ==
  /\ wifi' = [w EXCEPT !.scanRunning = FALSE, !.target = p, !.active = "none",
                       !.attempting = TRUE, !.attemptStarted = millis,
                       !.connectedSince = 0, !.wasOnline = FALSE]
  /\ radio' = [Quiet EXCEPT !.joining = p]

(* Mutant: the retry is scheduled without an access point.                 *)
RetriesSilently(w) ==
  /\ wifi' = [w EXCEPT !.attempting = FALSE, !.target = "none", !.active = "none",
                       !.nextRetry = At(RetryInterval)]
  /\ radio' = [Quiet EXCEPT !.scan = radio.scan, !.age = radio.age]

(* scheduleRetry()                                                         *)
ScheduleRetry(w) ==
  /\ \E starts \in BOOLEAN :
       wifi' = WithAp([w EXCEPT !.attempting = FALSE, !.target = "none", !.active = "none",
                                !.nextRetry = At(RetryInterval)], starts)
  /\ radio' = [Quiet EXCEPT !.scan = radio.scan, !.age = radio.age]

(* tryPreferred()                                                          *)
TryPreferred(w) ==
  \/ "home" \in profiles /\ BeginProfile(w, "home")
  \/ profiles = {"mobile"} /\ BeginProfile(w, "mobile")
  \/ profiles = {} /\ ScheduleRetry(w)

-----------------------------------------------------------------------------
(* c6NetworkLoop()                                                         *)

(* A new connection is noted; a stable one needs no access point.          *)
Noted(w) ==
  IF w.wasOnline THEN w
  ELSE [w EXCEPT !.active = w.target, !.attempting = FALSE, !.connectedSince = millis,
                 !.wasOnline = TRUE]
Connected(w) ==
  IF onboarded /\ Elapsed(w.connectedSince) >= StableInterval THEN [w EXCEPT !.ap = FALSE] ELSE w

(* pollHomeScan()                                                          *)
MayScan(w) == w.active = "mobile" /\ "home" \in profiles
ScanDue(w) == MayScan(w) /\ ~w.scanRunning /\ Elapsed(w.lastHomeScan) >= HomeScanInterval
ScanOver(w) == MayScan(w) /\ w.scanRunning /\ radio.scan # "running"

ScanBegins(w) ==
  /\ ScanDue(w)
  /\ wifi' = [w EXCEPT !.lastHomeScan = millis, !.scanRunning = TRUE]
  /\ radio' = [radio EXCEPT !.scan = "running", !.age = 0]
  /\ UNCHANGED calmFor

ScanNotStarted(w) ==
  /\ ScanDue(w)
  /\ wifi' = [w EXCEPT !.lastHomeScan = millis]
  /\ calmFor' = 0
  /\ UNCHANGED radio

ScanEnds(w) ==
  /\ ScanOver(w)
  /\ LET v == [w EXCEPT !.scanRunning = FALSE] IN
     \/ radio.scan = "seen" /\ BeginProfile(v, "home")
     \/ /\ radio.scan # "seen"
        /\ wifi' = v /\ radio' = [radio EXCEPT !.scan = "none", !.age = 0]
  /\ UNCHANGED calmFor

StaysOnline(w) ==
  /\ ~ScanDue(w) /\ ~ScanOver(w)
  /\ wifi' = w
  /\ UNCHANGED <<radio, calmFor>>

OnlinePass ==
  /\ Online
  /\ LET w == Connected(Noted(wifi)) IN
     ScanBegins(w) \/ ScanNotStarted(w) \/ ScanEnds(w) \/ StaysOnline(w)

(* A lost connection is tried again in the same pass.                      *)
Lost(w) ==
  IF w.wasOnline
    THEN [w EXCEPT !.active = "none", !.attempting = FALSE, !.nextRetry = millis,
                   !.wasOnline = FALSE]
    ELSE w

AttemptGoesOn(w) ==
  /\ w.attempting /\ Elapsed(w.attemptStarted) < ConnectTimeout
  /\ wifi' = w /\ UNCHANGED radio

(* Mutant: home is given up without trying mobile.                         *)
GivesUp(w) ==
  /\ w.attempting /\ Elapsed(w.attemptStarted) >= ConnectTimeout
  /\ ScheduleRetry(w)

AttemptTimesOut(w) ==
  /\ w.attempting /\ Elapsed(w.attemptStarted) >= ConnectTimeout
  /\ IF w.target = "home" /\ "mobile" \in profiles THEN BeginProfile(w, "mobile")
     ELSE ScheduleRetry(w)

RetryWaits(w) ==
  /\ ~w.attempting /\ ~Reached(w.nextRetry)
  /\ wifi' = w /\ UNCHANGED radio

Retries(w) ==
  /\ ~w.attempting /\ Reached(w.nextRetry)
  /\ TryPreferred(w)

OfflinePass ==
  /\ ~Online
  /\ LET w == Lost(wifi) IN
     AttemptGoesOn(w) \/ AttemptTimesOut(w) \/ RetryWaits(w) \/ Retries(w)
  /\ UNCHANGED calmFor

Pass ==
  /\ OnlinePass \/ OfflinePass
  /\ passed' = TRUE
  /\ UNCHANGED <<millis, profiles, onboarded, around, offlineFor>>

-----------------------------------------------------------------------------
(* The radio.                                                              *)

Joins ==
  /\ radio.joining \in around
  /\ radio' = [radio EXCEPT !.joined = radio.joining, !.joining = "none", !.age = 0]
  /\ offlineFor' = 0
  /\ UNCHANGED <<millis, passed, profiles, onboarded, around, wifi, calmFor>>

ScanCompletes ==
  /\ radio.scan = "running"
  /\ radio' = [radio EXCEPT !.scan = IF "visible" \in around THEN "seen" ELSE "unseen", !.age = 0]
  /\ UNCHANGED <<millis, passed, profiles, onboarded, around, wifi, offlineFor, calmFor>>

(* A network comes or goes; the station loses one that goes.               *)
SurroundingsChange(a) ==
  /\ around' = a /\ a # around
  /\ radio' = [radio EXCEPT !.joined = IF radio.joined \in a THEN radio.joined ELSE "none"]
  /\ calmFor' = 0
  /\ UNCHANGED <<millis, passed, profiles, onboarded, wifi, offlineFor>>

LinkLost ==
  /\ Online
  /\ radio' = [radio EXCEPT !.joined = "none"]
  /\ calmFor' = 0
  /\ UNCHANGED <<millis, passed, profiles, onboarded, around, wifi, offlineFor>>

-----------------------------------------------------------------------------
(* The owner.  Profiles are set or cleared on the console or in the web    *)
(* pages, which ask for a restart; the loop sees them at once.             *)

ProfilesChange(ps) ==
  /\ profiles' = ps /\ ps # profiles
  /\ calmFor' = 0
  /\ UNCHANGED <<millis, passed, onboarded, around, wifi, radio, offlineFor>>

OnboardingCompletes ==
  /\ ~onboarded /\ onboarded' = TRUE
  /\ UNCHANGED <<millis, passed, profiles, around, wifi, radio, offlineFor, calmFor>>

(* onboardingRestart() with c6NetworkEnsureOnboardingAp()                  *)
OnboardingRestarts ==
  /\ onboarded /\ onboarded' = FALSE
  /\ \E starts \in BOOLEAN : wifi' = WithAp(wifi, starts)
  /\ radio' = IF wifi.ap THEN radio ELSE WithStation(radio)
  /\ calmFor' = 0
  /\ UNCHANGED <<millis, passed, profiles, around, offlineFor>>

(* c6NetworkSetup()                                                        *)
Booted(starts) ==
  LET ap == profiles = {} \/ ~onboarded
      first == IF "home" \in profiles THEN "home"
               ELSE IF "mobile" \in profiles THEN "mobile" ELSE "none"
  IN [target |-> first, active |-> "none", attempting |-> first # "none",
      attemptStarted |-> 0, connectedSince |-> 0, nextRetry |-> 0, lastHomeScan |-> 0,
      scanRunning |-> FALSE, ap |-> ap /\ starts, apFailed |-> ap /\ ~starts,
      wasOnline |-> FALSE]

Reboots ==
  /\ millis' = 0 /\ passed' = TRUE
  /\ \E starts \in BOOLEAN : wifi' = Booted(starts)
  /\ radio' = [Quiet EXCEPT !.joining = Booted(TRUE).target]
  /\ offlineFor' = 0 /\ calmFor' = 0
  /\ UNCHANGED <<profiles, onboarded, around>>

-----------------------------------------------------------------------------
NetworkInit ==
  /\ millis = 0 /\ passed = TRUE
  /\ profiles \in Configurations /\ onboarded \in BOOLEAN
  /\ around \in Surroundings
  /\ \E starts \in BOOLEAN : wifi = Booted(starts)
  /\ radio = [Quiet EXCEPT !.joining = Booted(TRUE).target]
  /\ offlineFor = 0 /\ calmFor = 0

(* The ghosts count as far as the properties ask: both attempts, and what  *)
(* may lie between a change and the connection, which is both attempts,    *)
(* the wait for the next try or scan, and joining.                         *)
Longest(a, b) == IF a > b THEN a ELSE b
Attempts == 2 * ConnectTimeout + 2
Recovery == Attempts + Longest(RetryInterval, HomeScanInterval + ScanTime) + JoinTime

Older(age, limit) == IF age < limit THEN age + 1 ELSE limit

(* Time passes if the loop had its turn and the radio is not late.         *)
MillisTick ==
  /\ passed
  /\ radio.joining \in around => radio.age < JoinTime
  /\ radio.scan = "running" => radio.age < ScanTime
  /\ millis' = (millis + 1) % ClockWidth
  /\ passed' = FALSE
  /\ radio' = IF radio.joining \in around \/ radio.scan = "running"
                THEN [radio EXCEPT !.age = radio.age + 1] ELSE radio
  /\ offlineFor' = IF Online THEN 0 ELSE Older(offlineFor, Attempts)
  /\ calmFor' = Older(calmFor, Recovery)
  /\ UNCHANGED <<profiles, onboarded, around, wifi>>

NetworkNext ==
  \/ Pass \/ MillisTick \/ Joins \/ ScanCompletes \/ LinkLost
  \/ \E a \in Surroundings : SurroundingsChange(a)
  \/ \E ps \in Configurations : ProfilesChange(ps)
  \/ OnboardingCompletes \/ OnboardingRestarts \/ Reboots

NetworkSpec == NetworkInit /\ [][NetworkNext]_networkVars

(* What later steps depend on: how long ago the times are that are still   *)
(* looked at, instead of the times.                                        *)
LiveNetwork ==
  <<passed, profiles, onboarded, around, radio, offlineFor, calmFor,
    [wifi EXCEPT
       !.attemptStarted = IF wifi.attempting THEN Elapsed(@) ELSE 0,
       !.connectedSince = IF wifi.wasOnline THEN Elapsed(@) ELSE 0,
       !.nextRetry = IF wifi.attempting \/ wifi.wasOnline THEN 0 ELSE Elapsed(@),
       !.lastHomeScan = Elapsed(@)]>>

-----------------------------------------------------------------------------
NetworkTypeOK ==
  /\ millis \in Millis /\ passed \in BOOLEAN
  /\ profiles \subseteq Profiles /\ onboarded \in BOOLEAN
  /\ wifi \in Wifi /\ radio \in Radio
  /\ offlineFor \in 0..Attempts /\ calmFor \in 0..Recovery

(* Without a network the owner reaches the adapter by its access point     *)
(* after two attempts at the latest, and all the time until the setup is   *)
(* complete, whatever comes and goes and whatever is reconfigured; unless  *)
(* the radio refused to start one.                                         *)
SetupIsReachable ==
  (offlineFor = Attempts \/ ~onboarded) /\ ~wifi.apFailed => wifi.ap

(* If nothing outside changes for so long, the station is on the home      *)
(* network if it can be seen and joined, and on any network if one can be  *)
(* joined, unless the home network is in sight and refuses.                *)
ConnectsInTime ==
  calmFor = Recovery =>
    /\ "home" \in profiles /\ {"home", "visible"} \subseteq around => radio.joined = "home"
    /\ profiles \cap around # {} /\ ~("home" \in profiles \ around /\ "visible" \in around)
         => Online
=============================================================================
