# Microlino Open Telemetry: formal models

TLA+ models, TLC runs and TLAPS proofs for the code of this repository. Paths
are relative to the repository's root.

## 1. The system

An adapter in the car (ESP32-C6, LilyGO T-A7670 or ESP32-WROOM firmware) reads
CAN frames, publishes telemetry over MQTT to AWS IoT and buffers History samples
while it has no cloud. Lambdas ingest the messages into DynamoDB (State,
History), fan them out to dashboards over a WebSocket, send notifications and
handle onboarding.

| Component | State it keeps | Operations | Talks to | Hard behaviour | What makes it correct |
|---|---|---|---|---|---|
| C6 offline cache (`firmware/esp32-c6/src/c6_offline_cache.cpp`) | `history.bin`, `history.next` on LittleFS; `CacheState` in RAM | setup (recover, scan, repair), sample, append, publish batch, handle acknowledgement, purge | AWS loop, LittleFS, configuration | power loss between any two file operations, failing calls, capacity, late and repeated acknowledgements | no sample lost unless purged; oldest first; capacity; the journal drains |
| Speed sampler and History keys (`sampleOffline()`, `store_history()`, `_store()`) | `speedWasActive`, `lastSpeedBucket`; State row, History rows | sample offline, publish live, replay | cache, State ingest, backfill | two paths write one table under keys of a minute or a second; handover inside a drive | rows tell the truth; a drive ends in zero; standstill is silent |
| C6 AWS loop (`c6_aws.cpp`) and `MotAwsIotClient` (`firmware/shared-libs/MotAwsIot`) | MQTT socket, back-off, `freshLivePublished` | connect, read, publish, hang up | network manager, broker, cache | a session lost and reopened inside one pass | fresh live state before replay |
| C6 configuration (`c6_config.cpp`) | NVS settings | set the cache switch, import, factory reset | cache purge | NVS write and purge are two steps | disabling purges |
| Backfill Lambda (`cloud/aws/cache-test/handler.py`; production twin in `cloud/aws/foundation/template.yaml`) | History rows | validate, conditional puts, acknowledge or reject | broker, DynamoDB | repeated and overlapping invocations, failure between two puts | no duplicate row, acknowledgement only after all rows |
| State ingest, live History (`foundation/template.yaml`) | State and History rows | conditional update, bucketed sample, fan-out | broker, DynamoDB, WebSocket API | reordered and repeated messages, partial failure | newest value wins; a drive's History ends in zero |
| Live WebSocket path (live handler in `foundation/template.yaml`) | connection records and their index | connect, subscribe, disconnect, fan-out | State ingest, browser | stale connections, tokens and authorisations | no live data to a viewer without access |
| Dashboard page (`build/dashboard/current/js`: AWS provider, WebSocket client, `app.js`) | selected and active vehicle, values, one poll, clients | list, poll, select, reconnect, stop | vehicle API, live path | answers and messages that come after the user has gone on | values under the right name; catches up |
| Charging notifications (`cloud/aws/notifications/handler.py`) | session row, events, delayed messages | optimistic update, reserve, dispatch, delayed stop and pause | DynamoDB, SNS, SQS | contention, retry after partial failure | at most one mail per event; none forgotten |
| Journeys (`journey_state.py`) | journey row | update, close by a reading or on a schedule | DynamoDB, SNS | late telemetry against the schedule | closed once, recorded, not split |
| Daily summary (`daily_summary.py`) | reservations in the event table | scan, wait, reserve, mail, every hour until eight | rows of charges and journeys, SNS | repeated and overlapping runs | one mail a day, every activity in one |
| Preferences, SMS verification (`preference_api.py`, `sms_verification_api.py`, `tools/aws/admin_sms_approval.py`) | preference row, destinations, approval with audit, rate | read-modify-write, request and confirm a code, approve, deliver | DynamoDB, SNS, SMS provider | lost updates across slow calls | confirmed means proved; approval is audited |
| Onboarding claims (`cloud/aws/onboarding/src/handler.py`, `tools/aws/admin_onboard_beta_user.py`) | claims, ownership, access, audit | issue, consume, assign | DynamoDB transactions | two users, expiry, failed attempts | one owner per vehicle, bounded attempts |
| Firmware grants (the same handler) | grants, audit trail | grant, revoke, download, recover | DynamoDB transactions, deployments | reads spread over a request | nothing without its grant; ambiguity fails closed |
| Demo refresh (`tools/aws/refresh_demo_portal_data.py`) | State and History of the demo vehicle | copy, shift, replace in batches | DynamoDB, Cognito | partial batches, failure in the middle | a refresh leaves one whole copy |
| C6 network manager (`c6_network.cpp`) | WiFi state, timers | scan, connect, fail over, access point | AWS loop, web UI | timers of a counter that wraps, against events of the radio | reachable without a network; connected when it can be |
| LilyGO firmware, ESP32-WROOM, decoders, GPS, ABRP, OTA, web UI, scripts | see `PROJECT.json` | | | | not modelled, with reasons there |

`PROJECT.json` lists every component with its status, every hazard with the line
where it bites, and for every definition the lines it models.

## 2. Plan

1. **Done: store and forward** (`OfflineJournal`, `HistoryBackfill`,
   `OfflineReplay`, with the abstract `StoreAndForward`): the only part of the
   system that can lose the owner's data, and the one where crashes, lossy
   messages and concurrent invocations meet.
2. **Done: the sampler and the History keys** (`SpeedHistory`): what of a drive
   reaches History, through both the live and the offline path.
3. **Done: `ChargingNotifications`**: session and summary in one row, the
   delayed messages, reservation and dispatch.
4. **Done: `Journeys`, `DailySummary`**: what ends a journey, and the mail of the
   day that counts charges and journeys.
5. **Done: `OnboardingClaims`, `FirmwareGrants`, `NotificationPreferences`,
   `DemoRefresh`**: everything a user or an administrator does to the tables.
6. **Done: `StateIngest`, `LiveDashboard`**: a report's way to the row and to
   the screen.
7. **Done: `NetworkManager`**: the transport under `OfflineReplay`.
8. **Done: proofs** of the types and of every safety property the runs check
   of `OfflineReplay`, `SpeedHistory`, `NetworkManager`,
   `ChargingNotifications`, `Journeys`, `DailySummary`, the four modules of the
   portal, `StateIngest` and `LiveDashboard`; and that `OfflineReplay` implements
   `StoreAndForward`, with `copy` and `remove` failing; and of the types of the
   four compositions.
9. Left to model: two overlapping lists of the page with their liveness, SOC
   through the sampler and the ingest, the LilyGO twin if it comes to differ.

## 3. The models

### OfflineJournal
`history.bin` and `history.next` are `cacheFile` and `nextFile`: a file is the
records of its valid prefix and whether anything damaged follows, because every
reader (`scanJournal`, `readBatch`) stops at the first bad record. Records are
numbers; the checksum's work is to tell valid from damaged, which `torn` states.
Every file-system call is one step (`step` is the program counter inside
`recoverJournal`, `scanJournal`, `keepJournalPrefix` and `removeAcknowledged`),
so `JournalDown`, the power loss, falls between any two of them, in the middle of
the copy loop (`CopyPart`) or inside `append()` (a fragment). `IoFaults` says
which calls may fail while the power stays on.

### HistoryBackfill
`uplink` is what the adapter has published and the rule has not consumed, `work`
the invocations of the Lambda with how many samples each has put, `history` the
rows, `acks` what the broker has for the adapter's session. The rule may invoke
again for the same batch, an invocation may fail after any put, and messages may
be lost or, at QoS 1, delivered twice. A row is identified by its sample: the key
function itself is the subject of `SpeedHistory`. Whether validation accepts a
batch depends on the clocks of both sides and is nondeterministic.

### OfflineReplay
Composes the two with the adapter's cooperative loop. `pc` walks through
`MotAwsIotClient::loop()` ("client"), the rest of `c6AwsLoop()` ("live") and
`c6OfflineCacheLoop()` ("cache"); local commands ("purge", "disabled") run between
two rounds, as `handleSerialCommand` does in `main.cpp`. The RAM variables have
the names of `CacheState`'s fields. `taken` and `purged` are ghosts: samples are
numbered as `append()` stores them, and a purge records what it erased.
`LoopReconnects` does not tell the cache that the session is another one, exactly
as in the code.

### StoreAndForward
The promise: a sample, once taken, is held until History has it or the owner
purges it. `OfflineReplay` implements it under `held <- Recoverable` (what the
next boot would find) and `delivered <- history`.

### ReplaySession, CalmReplay
`ReplaySession` adds one history variable, whether the open session has carried a
live value. `CalmReplay` adds a moment from which nothing goes wrong any more,
for the liveness property.

### SpeedHistory
What the sampler puts into the journal and under which key it becomes a row.
`now` is the clock of adapter and cloud in seconds, advanced by `Tick`; `Minute`
and `MotionInterval` are the two intervals the code rounds to. The speed has the
three levels the code's comparisons tell apart: 0, above 0 up to 1 km/h
(`Crawl`: standing for the sampler's `> 1.0f`, moving for the ingest's
`value != 0`), and above (`Drive`). `OfflineRound` is a pass of `c6AwsLoop()` that
calls `sampleOffline()`, `OnlineRound` one that does not; `Publishes` is a live
reading with the ingest's State update and `store_history()`, `BackfillStores` the
arrival of the oldest record with the key `_store()` gives it. `Put` is
`attribute_not_exists(sampleKey)`, for both paths. `seen`, `zeros` and `lastSample`
are ghosts.

Left to `OfflineReplay`: how a record travels; here it arrives once and in order
(again would change nothing: a row that exists is not written). A live reading is
ingested in its second or lost. Cache and motion history are enabled, the clock is
set, and no two readings are ingested in one second, because `publishIntervalMs` is
at least 1000. The SOC half of `sampleOffline()`, and State of other signals, are
not modelled.

### NetworkManager
`c6NetworkLoop()` is one action, `Pass`, as it is one call in the code; between
two of them the radio joins, loses or scans, networks come and go (`around`), the
owner changes the profiles and the adapter boots. `wifi` has the names of the
file's static variables; `millis` wraps at `ClockWidth` as the counter does at
2^32, and every timer is the unsigned difference of two of its values. The loop
runs at least once a tick (`passed`). The WiFi library is external: `radio` is what
the code can tell of it. `offlineFor` and `calmFor` are ghosts that measure how
long a state has lasted.

### The Lambdas: what is common to their models
A Lambda's invocation is a record with its place and what it has read; every call
to DynamoDB, SNS, SQS or the gateway is a step of its own, so that any other
invocation may run between two calls. A put on the condition of a version
succeeds exactly if nobody has put since the read; the invocation therefore
carries whether its reading is still fresh, and a put makes the others' stale. A
transaction is one step with all its conditions. AWS delivers at least once and in
any order, may cut an invocation off at any call, delivers its event again and
may give up; `MaxTroubles` bounds how often.

### ChargingNotifications
`session` and `summary` are the two states in a vehicle's row
(`ChargingSessionState`, `chargingSummary`). An invocation goes through
`update_session()` with its attempts, the summary's update, the queueing of a
delayed message, and for every event and user `reserve_event()`
and the publish. A delayed message is a task like a reading, delivered by AWS when
due, validated against the row, and judged there. `inbox` holds the tasks AWS still
delivers: an invocation takes its task out, or leaves it for a second delivery, and
puts it back when it breaks off, unless AWS gives it up. `mails` is a bag: sending twice
would show. The ghosts record which thresholds were crossed, which sessions were
closed by unplugging, and the worst that has happened to an invocation (`harm`).

### Journeys
`journey` is the row of `JourneyState`; a journey is named by the time it started.
The readings that matter are movement, standstill, a charge, progress (distance,
SOC and power are one reading here), and the firmware's own counter of the journey,
for which a report waits a while. An invocation reads the row, applies its reading
(`ApplyJourneyUpdate`) and puts on the version; then it reads again, closes what
is due (`ApplyInactivityTimeout`, `Due`), and records and mails what it has
closed. The schedule (`Closers`) does the second half without a reading.

### DailySummary
The daily run of one user and vehicle: `DailyBegins` is the scan of the events
with the window of the day, `DailyChecks` the look at the two rows,
`DailyReserves` the conditional put, `DailyPublishes` the mail. Charges and
journeys are reduced to what this run can see: a row, and an event which is
put some time after the row says that nothing is in progress. A tick is an hour.

### OnboardingClaims, FirmwareGrants
The tables are functions from their keys, the audit table is kept as what each
event says. In `OnboardingClaims` issuing, consuming and assigning each look at
the tables one call after the other and end in one transaction; wrong proofs raise
the counter under a condition. Claims expire and are deleted by the table's TTL.
Two ghosts tell when the older tool defeats the scans: `overlapped` has the vehicles at
which the tool and another request were under way at the same time, which the data
model's document forbids; `outstanding` the claims that were still usable when the tool
assigned their vehicle. `OneActiveOwner` excuses the first, and a vehicle for which
a claim of the second kind was consumed later: nobody checks that case, even
when the requests come strictly one after the other, and the vehicle then has two
ACTIVE users. Dropping either excuse, TLC finds such a vehicle in the `portal` run.
In `FirmwareGrants` a request takes the time and its Lambda's releases first
(`since` is the length of the trail at that moment), then reads one grant after
another in the order of the catalogue; the authorisation is one transaction with
its audit event. The trail is a sequence in the order of the transactions, so that
properties can speak of what came between. A result may be reported at any time: the
code checks the syntax of the operation's id, not that there was one.

### NotificationPreferences
One preference row, its SNS subscription, two addresses and two numbers, the
destination and approval rows and the day's counter. GET with its reconciliation,
PUT, the two verification calls, the administrator's tool and `sms_delivery()` are
invocations at a next call. A cut-off invocation is one that takes no further step.
The owner of an address may confirm its subscription at any time, the TTL may
delete the approval.

### DemoRefresh
The tool's run as a record: reads of State and History, the transformation
(`NewState`, `NewHistory`, with the excluded topics, the fixed place, the window
and the buckets, of which the last sample stands for the average), batches of
deletes and puts which DynamoDB may leave partly unprocessed up to `MaxRetries`
times, user and access. The source goes on reporting, and any call may end the
tool.

### StateIngest
One user's connections and the reports of vehicles. An invocation updates State on
the condition of `receivedAt`, queries the index of connections once, then reads a
row and the access table and posts, connection by connection. The index is
eventually consistent: it may still show what it has ever shown. `$connect`,
subscribe, `$disconnect` are requests in any order; tokens expire, access is
revoked and given back, connections close without a word. The update of
`subscribe` is unconditional, as in the code, so that it may bring a deleted row
back.

### LiveDashboard
The page's callbacks are actions, and an answer is a step of its own: the API reads
access and row at one moment (`PollAuthorised`, `PollAnswered`), and the page acts on
it at another (`PollArrives`). `active` is the provider's vehicle, `selected` the one
whose name is shown, and a client keeps the vehicle it was made for, its
token's request, its socket and its failures. One signal stands for the values. A
hidden page does nothing, which is a page whose timer has not fired.

### The MC modules
`MCAdapter`, `MCPortal`, `MCCharging` and `MCJourneys` each put several of these
modules into one run. The modules share no variables, because the code they
model shares nothing that one of them changes and another reads: the network is to
the sampler a link that comes and goes, the daily run has rows and events of
its own instead of those of a whole charge, the portal's requests have
tables of their own (of access, the preferences only ask whether it is there,
which is fixed here). A product of independent machines would show nothing more,
so each behaviour is one of them (`subject`) and the variables of the others stay.

## 4. The runs

| Run | Instance | Shows |
|---|---|---|
| `replay_safety` | 3 samples, capacity 3, batches of 2, one message in flight, one invocation at a time, `copy` and `remove` may fail | `NoUnacknowledgedLoss`, `PendingIsHead`, `OldestFirst`, `CountMatchesJournal`, and that the cache implements `StoreAndForward` |
| `replay_capacity` | 3 samples, capacity 2, batches of 2, `copy` and `remove` may fail | `TypeOK` (the capacity), and the inductive invariant `IInv` of the proofs, `RemovedAreStored` among its parts |
| `replay_drains` | 2 samples, batches of 1, no failing call | `JournalDrains` under fairness |
| `replay_before_live` | 1 sample | `LiveBeforeReplay` is violated: a finding |
| `speed_history` | three seconds over two-second intervals, journal of 2, `store_history()` may fail; the network manager on a clock of 8 values | `ReplayedRowsAreTrue`, `ZeroIsKept`, `OpenDriveIsRemembered`; `SetupIsReachable`, `ConnectsInTime`; types |
| `drive_left_open` | four seconds, journal of 3, no failing put | `DriveEndsInZero` is violated: a finding |
| `standstill_zero` | the same | `StandstillIsSuppressed` is violated: a finding |
| `portal` | one vehicle, two users, two claims and two requests; two targets and one request; two addresses and numbers and two invocations; a source of four samples | `AuditIsTrue`, `ExhaustedClaimIsDead`, `OneActiveOwner`; `OperationIsGranted`, `AmbiguityFailsClosed`; `ConfirmedWasProved`, `TextIsAllowed`, `ApprovalIsExplained`; `RefreshIsWhole`; types |
| `confirmed_address` | the same, one request at a time | `ConfirmedAddressIsMailed` is violated: a finding |
| `charging` | four stories of a car, two invocations, one trouble; two daily runs over two days; two reports of one vehicle, three invocations, a connection | `AtMostOneMail`, `CrossingIsMailed`, `EndedChargeIsSummarised`, `StopIsConfirmed`; `ToldOnce`, `SentAtEight`; `NewestIsKept`, `OnlyViewersAreSent`; types |
| `journeys` | five stories of a car, one reader and the schedule, one trouble; a page with two vehicles and two clients | `ClosedOnce`, `ShortStopDoesNotSplit`, `JourneyIsRecorded`, `JourneyEnds`; `PageShowsSelected`, `PageCatchesUp`; types |
| `late_event` | one daily run, two days | `EveryEventIsCounted` is violated: a finding |

**Bounds.** Three samples and batches of two give a batch that is the whole
journal, one that is a proper prefix, and a remainder that becomes the next head,
so that a wrong skip, a wrong head and a gap in the middle are all visible; two
records of capacity are reached while a batch is in wait. One message in flight
and one invocation at a time do not make the cloud sequential: a message stays
after the rule has consumed it (a retry), so an old and a new batch do meet in
turn. Every bound is a CONSTANT; the theorems hold for all of them.
`LiveState`, the VIEW of the safety runs, merges states that differ only in
values nobody reads again.

In `SpeedHistory` seconds 3 to 5 hold the end of one interval and the whole
next, so that a drive enters a minute, is sampled in it, and ends on its first
second or inside it, and a journal of 2 is full while a drive is open. A minute of two
seconds is enough because the code only ever asks whether two seconds have the
same bucket and whether a second is its own; the theorems hold for every interval.

The network manager's clock has 8 values, more than twice every interval, which is
what its differences need; the intervals keep their order (connect < retry <= home
scan), and 15 s, 30 s and 60 s are 2, 3 and 3 ticks. `MCView` (through
`LiveNetwork`) merges states that differ only by when the counter started: what the
code reads of a time is its age. Home and mobile each may be absent, refuse, or
accept, and home may accept without showing itself.

In `portal` two requests are what a race needs; one attempt and a lifetime of one
second make a claim exhausted or expired while a request holds it. The grants need
one call at a time: a request only appends to the trail, and grants, revocations
and deployments, which need no invocation of their own, fall between its
reads; three events hold a grant, what invalidates it, and the operation. Each
behaviour of the preferences uses one of three sets of calls (mail, SMS, the
tool), because calls of two sets meet only in the rows one of them leaves; four
calls hold a race and what it leads to. The demo's source has any of its samples
at three past moments, so that some are out of the window, and a chunk
of two makes several chunks of which one can be half processed.

In `charging` the car's reports are one of four stories: it reaches a target, it
pauses, it is unplugged, it charges on after a stop. Readings arrive at any later
time and in any order, two at a time; one trouble (a failure, a repetition, another
writer of the row) is enough to retry any step, and two update attempts to lose a
race and win one, or to lose both. The delays of 45 s, 60 s, 10 min and 5 min
become 1, 1, 1 and 2 ticks, since the code only compares them with the age of a
field they do not share. Two days of two hours, the second forced, hold everything
the daily run distinguishes. Two reports delivered three times give every order
and one repetition.

In `journeys` the stories hold a short stop, a long one, a charge, a silent car
and a drive too short to report. Inactivity is longer than the stop delay, as in the
code. One reader and the schedule race for the row. The page's first vehicle reports
twice, so that one message can be late, the second once; two clients are
one that is stopped and its successor; one change is a selection or a change of
access. One list at a time is under way: two make the state space of the
liveness check too large, see the hazards.

**The violated statements.** `LiveBeforeReplay`: see `ReplaySession` and the
finding. `DriveEndsInZero`: the zero that ends
a drive has two possible writers and each relies on the other. The ingest writes it
only if the State row it replaces says moving, the sampler only in a disconnected
round that sees the car stand. A car that moves offline, whose moving sample is
journalled, and that stops while the link is up again before a moving reading has
been ingested, gets its zero from neither until the next disconnection.
`StandstillIsSuppressed`: `speedWasActive` keeps its value through an online session,
so the next disconnection journals a zero of that moment although the live path has
already written the one that ended the drive.
`EveryEventIsCounted`: the daily run scans the events first and looks at the rows
later. A charge that pauses is not in progress, and its event comes ten minutes
later; a journey is cleared before its event is put. A run in between sees neither,
mails the day without it, and the day is closed by its reservation.
`ConfirmedAddressIsMailed`: a PUT that changes the address while mail is off does
not subscribe it and leaves the subscription of the old address in the row, whose
confirmation the next GET reports as the new address's.

**Deadlock** is checked in the runs of `OfflineReplay` and in the two about drives:
the adapter's loop can always take another round. The other instances end where
their clock, their story, or the calls they may make are used up; what must not stop
is stated as liveness or as a bound (`ConnectsInTime`).

**Fairness.** `CalmReplay`: each part of the cooperative loop runs again
and again (weak fairness of the part, not of a choice inside it), and so do the
journal's steps and the Lambda. Strong fairness is assumed of two actions: that a
reconnect attempt, which the back-off makes due now and then and which may be
interrupted by idle rounds, succeeds, and that a live value, due every
`publishIntervalMs`, goes out. The calm begins in a round that saw the client
disconnected. That is the code's own assumption: there is no acknowledgement
timeout, and only `c6OfflineCacheLoop()` with `awsConnected == false` ends a wait.
A rejected batch blocks the replay (`replayBlocked`) until the next boot, which is
what the code does, so the property excludes it.
`Journeys`: time goes on, a delivered reading is taken up, an invocation that runs
makes its next step or loses its race, and the rule fires: Lambda's own promises
and the five-minute schedule. Nothing is assumed of the readings: a car that is
never heard of again is the interesting case.
`LiveDashboard`: at some time no more changes come (`Calms`), the timer of the page
fires and its list and poll proceed (each as a whole: an answer or a failure,
not the answer), and a message on an open socket arrives or is dropped with the socket.
Nothing is assumed of reconnects: the polls alone have to correct the page.
`MCJourneys` states the same of the behaviours each is about.

**Faults left out.** With `append`, `rename` or `repair` in `IoFaults` samples are
lost by the design of the code (see the hazards): a failed rename leaves the
journal only in `history.next`, which the next boot removes if an append has
created a new `history.bin`; a fragment of a short write cuts off what was
appended behind it. The models contain these failures; the runs and theorems
state which they exclude (`TypeCorrect`, `PendingStaysHead` and `RemovalsAreStored`
exclude none). A purge's removals are assumed to succeed. Left out of the
cloud's models: demo refreshes that overlap (the tool is run by hand), a user
whose access is revoked and who still gets mails (`list_preferences()` does not
look, so that a property would only repeat it), and lists of the page that overlap.
Failures that are in the models and that a property has to except, because the
code does not cover them: an invocation that dies between the row and the event
costs the event; a late `plugged=false` resets the summary of the charge
after it; a late charge reading splits a journey; a later subscribe may be handled before
an earlier one.

**Mutants.** Next to the definitions stand broken variants (a counter that is not
refreshed, an acknowledgement matched by its count only, a scratch file always
taken for finished, ...). Each property is violated when its mutant replaces the
definition.

## 5. The proofs

The eight proof modules are checked by TLAPS for every value of the constants that
satisfies the ASSUMEs of the modules they extend. Each result on a state is
`Init => Inv`, `Inv /\ [Next]_vars => Inv'`, `Inv => property`; what is said of each
below is what `Inv` has to add to the property, and why.

### OfflineReplayProofs

Under `JournalAssumption`, `BackfillAssumption` and `ReplayAssumption` (positive
capacity, batch size and bounds):

* `TypeCorrect`: `Spec => []TypeOK`, whatever calls fail. The capacity needs more
  than types: `scanJournal()` counts `recordCount` anew from a file, so the
  invariant `LenInv` bounds both files and relates them to `recordCount` at each
  step of a rewrite, and `PurgeInv` says that the journal is gone between the two
  removals of a purge.
* `PendingStaysHead`: `Spec => []PendingIsHead`, whatever calls fail: an operation that
  changes the journal either ends the wait or runs while the adapter boots, when it
  waits for nothing (`HeadInv`). An append is at the other end.
* `RemovalsAreStored`: `Spec => []RemovedAreStored`, whatever calls fail: the records a
  removal leaves out have their rows. `PendingIsHead` says that the id of the batch
  in wait is that of the head; what is missing is that an accepted id speaks of every
  record of the head, although it names only its first and its last. `ProtocolInv`
  says why: every file is ascending (`Ascending`, `TakenOnly`), a scratch file, however
  it was left behind, fills no gap of the journal (`FilesInv`), so a batch, when sent, leaves
  out no sample of either file between its first and its last (`Covers`), and what
  comes on flash later is younger than all that was sent (`SentInv`). So once the
  Lambda has put the batch, all that is on flash between its ends has rows (`Stored`,
  `CloudInv`). With faults outside the next assumption samples can be lost, but never
  because an acknowledgement was taken for another.
* `NoLoss`: `Spec => []NoUnacknowledgedLoss` if `IoFaults \subseteq {"copy", "remove"}`.
  `NoUnacknowledgedLoss` is not inductive. What is deleted is chosen by count, so the
  proof needs that the count stands for the acknowledged samples. The journal is not
  an interval of sample numbers: if the removal of `history.next` fails, the stale
  file stays beside the journal, and a power loss between the two removals of a later
  purge makes it the journal again, without the samples that were taken after it and
  before the next. `IInv` therefore adds to `ProtocolInv` above what holds of the files
  when only these two calls fail: a stale scratch file has nothing the journal lacks
  and is alone only when a rewrite has finished it (`ScratchInv`), and a damaged tail
  exists only between a power loss and the end of the repair (`TailInv`), so that
  `recoverJournal()`'s two cases are right.

  The other faults stay outside the theorem because the statement is false for them: a
  `rename` that fails while the power stays on is followed by an `append()` that starts
  a new journal, and the next boot throws `history.next` away (hazard at `c6_offline_cache.cpp:298`). In
  the model a purge's own removals succeed; the code ignores their results.
* `CountIsRight`: `Spec => []CountMatchesJournal`, under that assumption and at
  any capacity, full journal included.
* `Refinement`: under the same assumption, `Spec => ImplementsStoreAndForward`. A step
  that stores is `Take`, a row written is `Deliver`, a purge's erasing steps are
  `Purge`, a journal step that drops acknowledged records is `Release`, everything
  else stutters. `SentInv`, that
  whatever the cloud has in hand was taken, gives that a row never appears for a
  sample that never existed.
* `RowsInOrder`: `Spec => []OldestFirst`, under the same assumption. Order is a
  consequence of no loss: what is
  older than the head of the journal is not on flash, hence in History or purged
  (`HeadIsNext`), and stays so while the batch is in flight; inside a batch the
  Lambda puts front to back (`PutInOrder`). So `OrderInv` says of every batch in
  flight that what is older than its first sample is settled.

`IInv`, the conjunction of the state invariants (`CountInv` and `OrderInv`, which
only their theorem needs, apart), is also checked by TLC (`replay_capacity`), and
`Inductive` states `Spec => []IInv`.

### DailySummaryProofs

For any number of daily runs and activities, under `DayAssumption` (a day has
hours):

* `OneMail`: `DailySpec => []OneMailPerDay`. Two runs may both have decided to mail.
  `ReservationInv`: a run about to publish and the mails published all belong to
  different reserved days, since the put is conditional.
* `CountedInOneMail`: `DailySpec => []CountedOnce`. `ContentInv`: what a run has found
  and what a mail tells lies in the window of its day; `WindowsAreDisjoint` is
  arithmetic on the half-open windows; the mails' days differ by `ReservationInv`.
* `ToldInOneMail`: the two together, `ToldOnce` as it is run.
* `LastRunSends`: `DailySpec => []SentAtEight`. `ForcedInv`: as long as no run was cut
  off, the day of a forced run that has ended with something to tell is reserved,
  and a reserved day has a mail or a run about to publish it. With no run left, it
  has the mail.

`DailyInv` is the conjunction of the types and these three; it is inductive, the
properties are not, because nothing in a mail says that its day is closed.

### AdapterProofs

`SpeedHistory`, under `SpeedAssumption` (positive intervals, a clock that starts past
its first interval):

* `TypeCorrect`: `Spec => []TypeOK`, with the capacity of the journal.
* `DriveStaysOpen`: `Spec => []OpenDriveIsRemembered`, which is inductive.
* `ReplayIsTrue`: `Spec => []ReplayedRowsAreTrue`, over `SamplesAreTrue` (what is
  journalled was shown in that second) and `BucketBounds` (a bucket begins less than
  an interval before its second).
* `ZeroSurvives`: `Spec => []ZeroIsKept`, over `MotionKeysAreBuckets`: a row of motion
  has the first second of an interval as its key, so a zero that is not the first
  second of one can only meet another zero.

`NetworkManager`, under `NetworkAssumption`: the counter is wider than every interval
and than two retries, and the radio joins within an attempt (2^32 ms, about 49 days,
against 15, 30 and 60 s in `c6_network.cpp`).

* `NetworkTyped`: `NetworkSpec => []NetworkTypeOK`. Types rest on `LinkInv`, what the
  manager's variables and the radio know of each other: the radio joins what
  the manager tries, an attempt is never older than its time-out, and the moment of the
  next retry lies at most one interval ahead, so that the half of the counter's
  range that means "past" is never reached while waiting.
* `SetupStaysReachable`: `NetworkSpec => []SetupIsReachable`. `ReachInv`: as long as
  there is no access point, the ticks without a network are those of the
  attempt under way, and of one before it.
* `ConnectedInTime`: `NetworkSpec => []ConnectsInTime`, a bound on time proved as an
  invariant. `HomeLeft` and `AnyLeft` give for each state on the way (trying, waiting,
  dropped, scanning) what is at most left to wait, so that `calmFor` and the rest
  together stay below `Recovery`; an attempt that could succeed cannot time out,
  because the radio is as old as the attempt (`Joinable`).

### ChargingNotificationsProofs

Under `ChargingAssumption` (thresholds and delays are numbers, at least one update
attempt, the time 0 that stands for "never" is not a time):

* `TypeCorrect`: `Spec => []TypeOK`.
* `OneMail`: `Spec => []AtMostOneMail`. `MailInv`: an event that was reserved and is not
  mailed is owed by exactly one invocation, the one whose put succeeded; whoever
  dies owing it leaves it unmailed for good.
* `CrossingMailed`: `Spec => []CrossingIsMailed`. `CrossingInv`: unless an invocation
  failed or ran out of attempts, each crossing of a target stored in the row has its
  event or an invocation that carries it, and each event about a level its
  mail or an invocation that owes it.
* `StopConfirmed`: `Spec => StopIsConfirmed`, an action property: the step that
  reserves a stop does so in a session that has not charged since. `SessionInv` relates
  the row's `chargingAt` and `stopAt` to the ghost `resumedAt`.
* `ChargeSummarised`: `Spec => []EndedChargeIsSummarised`. The property is about a
  quiet system; `PauseInv` says what holds before: unless AWS gave a task up, a pause in
  the row has each user's event, or the reading of the stop or the message it queued is
  still delivered, or an invocation has one of them and has not passed the call that
  leads to the next (`Tackles`). `UnpluggedInv` says it of an unplugging, whose events
  only the invocation that stored it can put, so that one failure loses them.
  `StampInv` (a plugged session has an id, readings have a time) makes the
  message's id one that `enqueue_charging_summary()` does queue.

`FreshInv` (a put that will succeed changes the session) is what lets the version
stand for the value.

### JourneysProofs

Under `JourneyAssumption`: `0 < StopDelay <= Inactivity` (10 and 30 minutes in
`journey_state.py:7-8`), at least one update attempt, and a time 0 that stands for
"never".

* `TypeCorrect`: `Spec => []TypeOK`.
* `JourneysApart`: `Spec => []ClosedOnce`. `ClosedInv`: the row remembers a speed
  reading (`lastSpeed`) at least as new as any movement of a journey it has closed, and
  a journey starts only with a newer one; so a late reading of a closed journey starts
  nothing.
* `NoSplit`: `Spec => []ShortStopDoesNotSplit`. `StopInv`: a journey is closed without
  a charge only when its stop has lasted on the clock, whichever of reading and
  schedule closes it (`FreshInv`), and no reading is newer than the clock (`TimeInv`).
* `JourneyRecorded`: `Spec => []JourneyIsRecorded`. `ReportInv`: unless an invocation
  broke off, a closed journey has for each user its event or an invocation that
  has still to put it, and each wanted event its mail or an invocation about to send it.

### OnboardingClaimsProofs

Under `OnboardingAssumption` (at least one attempt, a positive lifetime, finitely many
users):

* `TypeCorrect`: `Spec => []TypeOK`.
* `AuditStaysTrue`: `Spec => []AuditIsTrue`, with `FreshInv`: what has not been issued has
  left no trace.
* `OneOwner`: `Spec => []OneActiveOwner`. The issue, the consumption and the older
  tool each look before they write, so what they have seen must still hold when
  they do: `OwnerInv` says it of a request about to issue (`IssuesAreSettled`), of
  an issued claim someone may still consume (`ClaimsAreSettled`), and of a
  run of the tool past its scan (`AssignsAreAlone`). Two kinds of vehicle are excused
  (`Excused`): one at which the tool and another request were under way at the same
  time (the ghost `overlapped`), and one for which a claim was consumed that had been
  out when the tool assigned it (`outstanding`, `Outrun`); the ghosts and the trail
  only grow, so a vehicle not excused after a step was not excused before it.
* `DeadStaysDead`: `Spec => ExhaustedClaimIsDead`, an action property: the counter in
  the table is the audited one, and the transaction checks it again.

### PortalProofs

`FirmwareGrants`, under `GrantsAssumption` (a catalogue that is a non-empty sequence of
targets and does not contain the recovery):

* `GrantsTyped`, `OperationsGranted` (`GrantsSpec => []OperationIsGranted`) and
  `AmbiguityRefused` (`GrantsSpec => []AmbiguityFailsClosed`). The properties speak of the
  trail, the code of the rows. `RowsInv` relates them: the row of a target is the newest
  grant of it in the trail that nothing replaced or revoked, or DynamoDB has deleted an
  expired one. `ReadsInv` follows a request through the catalogue: what it has found was
  granted and not revoked before it came, and a target it has passed without
  finding has no grant that stood throughout. `TrailIsKept`: the trail only grows.

`NotificationPreferences`, under `PreferencesAssumption` (the calls of the portal carry a
body of the right form; finitely many invocations, to count them):

* `PreferencesTyped`, `ConfirmedIsProved` (`ConfirmedWasProved`), `ApprovalExplained`
  (`ApprovalIsExplained`), `TextsAllowed` (`TextIsAllowed`). A row is read, changed and
  written calls later, so `StepsInv` repeats for what an invocation carries what `ProofsInv`
  says of the tables; `RateInv` counts the texts sent and those about to be sent below the
  day's counter.

`DemoRefresh`, under `DemoAssumption` (the fixed place is no topic that is copied or
excluded; no sample is newer than the first moment):

* `RefreshStaysWhole`: `DemoSpec => []RefreshIsWhole`. `RunInv` says of each step of the tool
  how much of the old rows is gone and of the new ones there (`RowsOf`), which is the set
  that is still to be processed and what DynamoDB left over; `Copy` that what the
  tool holds has the fixed place and no excluded topic.

### LivePathProofs

`StateIngest`, under `ReportsAreOfVehicles`:

* `IngestTyped`, `NewestStays` (`IngestSpec => []NewestIsKept`, over `NewestInv`: the row is
  the newest of the reports that were brought, in whatever order).
* `OnlyViewers`: `IngestSpec => []OnlyViewersAreSent`. `ViewersInv`: an invocation that has
  seen access at some moment since its fan-out began knows so (`viewed`), and the
  connection it serves was one whose token was valid then.

`LiveDashboard`, under `PageAssumption` (bounds are numbers, there is a vehicle):

* `PageTyped`, `ShowsSelected` (`PageSpec => []PageShowsSelected`). `Agreed`: the provider's
  vehicle is the selected one whenever it has one; every callback compares with it
  before it writes.

### The compositions

The runs check several machines in one MC module. `Composition`, in `AdapterProofs`,
`PortalProofs`, `ChargingNotificationsProofs` and `JourneysProofs`, states that each
behaviour of the module TLC runs is a behaviour of every part (`MCSpec => Spec /\
NetworkSpec`, and so on; of `Journeys` without its fairness), because a step of one
part is a stutter of the others. What is proved of a part so holds in what the run
explores. `AdapterTyped`, `TablesTyped`, `ChargingTyped` and `JourneysTyped` are the
type invariants of the compositions.

### Only model-checked

* The statements that are violated, and the liveness properties (`JournalDrains`,
  `JourneyEnds`, `PageCatchesUp`): liveness under fairness is out of the prover's
  reach, like ENABLED and inductions over data.

## 6. Not modelled

See the components of `PROJECT.json`, each with its reason.

* **Firmware:** a LittleFS that does not mount (the cache is then off), the status
  counters, credentials and TLS, the growth of the reconnect back-off, flash wear
  and bytes inside a record. The LilyGO cache is a twin of the one modelled; its
  modem code is device I/O. The ESP32-WROOM adapter, decoders, GPS, ABRP, OTA and the
  web UI have no state they share with a concurrent actor.
* **Cloud:** what a message says and the energy and distance in it; the debug
  capture; signed URLs, token validation, routes and field checks that refuse before
  a table is read; History and forecast queries, which are stateless reads.
* **Dashboard:** charts, maps, the notification and onboarding pages, the session
  refresh, and the providers other than AWS.
* **Scripts:** source patches and deployment.
