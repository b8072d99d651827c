----------------------------- MODULE SpeedHistory -----------------------------
(***************************************************************************)
(* What of a drive reaches History.  While it has no cloud the adapter     *)
(* samples Speed into its journal (sampleOffline()), once a minute and     *)
(* with a zero at the end; while it has, it publishes the reading and the  *)
(* ingest Lambda samples (store_history()).  Both write the same table     *)
(* under keys made of a minute or a second.                                *)
(*                                                                         *)
(* How a journalled sample gets to the backfill Lambda is the subject of   *)
(* OfflineReplay; here it arrives once, in order.  Arriving again changes  *)
(* nothing, since a row that exists is never written.  A live reading is   *)
(* ingested in the second it is published or not at all; the clocks of the *)
(* adapter and of the cloud agree; cache and motion history are enabled.   *)
(***************************************************************************)
EXTENDS Integers, Sequences

CONSTANTS
  Minute,         \* SPEED_INTERVAL_SECONDS and the backfill's interval
  MotionInterval, \* history_motion_interval of the ingest, in seconds
  FirstSecond,    \* the clock at the start ...
  LastSecond,     \* ... and the bound on it
  MaxRecords,     \* the journal's capacity
  PutsFail        \* whether the ingest may fail between its two writes

ASSUME SpeedAssumption ==
  /\ Minute \in Nat \ {0} /\ MotionInterval \in Nat \ {0}
  /\ FirstSecond \in Nat /\ FirstSecond >= Minute /\ LastSecond \in Nat
  /\ MaxRecords \in Nat /\ PutsFail \in BOOLEAN

VARIABLES
  now,              \* UTC, in seconds
  speed,            \* telemetry.display.speedKmh: 0, Crawl or Drive
  link,             \* client.connected() after client.loop()
  freshLive,        \* freshLivePublished
  speedWasActive,   \* the fields of CacheState
  lastSpeedBucket,
  dropped,          \* droppedCount # 0
  journal,          \* the Speed records: second, and moving or zero
  stateAt,          \* State row of display/speed_kmh: receivedAt, in seconds
  stateMoving,      \* ... and whether its value is a number other than zero
  rows,             \* History rows of the signal
  seen,             \* ghost: what the display showed, second by second
  zeros,            \* ghost: the seconds of the zeros journalled
  lastSample        \* ghost: the newest record of this boot

car == <<now, speed, seen>>
cloud == <<stateAt, stateMoving, rows>>
cache == <<speedWasActive, lastSpeedBucket, dropped, journal, zeros, lastSample>>
vars == <<car, cloud, cache, link, freshLive>>

Crawl == 1   \* above 0, at most 1 km/h
Drive == 2   \* above 1 km/h

(* speedKmh > 1.0f                                                         *)
Moving == speed > Crawl

Bucket(second, interval) == second - (second % interval)

Init ==
  /\ now = FirstSecond /\ speed = 0 /\ seen = {<<FirstSecond, FALSE>>}
  /\ link = FALSE /\ freshLive = FALSE
  /\ speedWasActive = FALSE /\ lastSpeedBucket = 0 /\ dropped = FALSE
  /\ journal = <<>> /\ zeros = {} /\ lastSample = "none"
  /\ stateAt = 0 /\ stateMoving = FALSE /\ rows = {}

-----------------------------------------------------------------------------
(* The car and the clock.                                                  *)

Tick ==
  /\ now < LastSecond
  /\ now' = now + 1
  /\ seen' = seen \cup {<<now', Moving>>}
  /\ UNCHANGED <<speed, cloud, cache, link, freshLive>>

CarChanges(reading) ==
  /\ reading # speed
  /\ speed' = reading
  /\ seen' = seen \cup {<<now, Moving'>>}
  /\ UNCHANGED <<now, cloud, cache, link, freshLive>>

-----------------------------------------------------------------------------
(* The adapter without a cloud.                                            *)

(* Mutant: append() without its check of the capacity.                     *)
StoresUnchecked(moving) ==
  /\ journal' = Append(journal, [at |-> now, moving |-> moving])
  /\ zeros' = IF moving THEN zeros ELSE zeros \cup {now}
  /\ lastSample' = IF moving THEN "moving" ELSE "zero"
  /\ UNCHANGED dropped

(* append() stores a Speed record.                                         *)
Stores(moving) ==
  /\ Len(journal) < MaxRecords
  /\ journal' = Append(journal, [at |-> now, moving |-> moving])
  /\ zeros' = IF moving THEN zeros ELSE zeros \cup {now}
  /\ lastSample' = IF moving THEN "moving" ELSE "zero"
  /\ UNCHANGED dropped

(* append() returns false: the journal is full, or the file cannot be      *)
(* written.                                                                *)
Drops ==
  /\ dropped' = TRUE
  /\ UNCHANGED <<journal, zeros, lastSample>>

Keeps == UNCHANGED <<journal, zeros, lastSample, dropped>>

MinuteIsNew == Bucket(now, Minute) # lastSpeedBucket

(* The Speed half of sampleOffline(); telemetry.display is valid.          *)
SampleSpeed ==
  /\ \/ /\ Moving /\ MinuteIsNew
        /\ \/ Stores(TRUE) /\ lastSpeedBucket' = Bucket(now, Minute)
           \/ Drops /\ UNCHANGED lastSpeedBucket
     \/ /\ ~Moving /\ speedWasActive
        /\ Stores(FALSE) \/ Drops
        /\ UNCHANGED lastSpeedBucket
     \/ /\ ~(Moving /\ MinuteIsNew) /\ ~(~Moving /\ speedWasActive)
        /\ Keeps /\ UNCHANGED lastSpeedBucket
  /\ speedWasActive' = Moving

(* A round of c6AwsLoop() that finds the client disconnected.              *)
OfflineRound ==
  /\ ~link
  /\ freshLive' = FALSE
  /\ SampleSpeed
  /\ UNCHANGED <<car, cloud, link>>

-----------------------------------------------------------------------------
(* put_item with attribute_not_exists(sampleKey).                          *)
Put(key, moving, replayed) ==
  IF \E row \in rows : row.key = key
  THEN UNCHANGED rows
  ELSE rows' = rows \cup {[key |-> key, moving |-> moving, replayed |-> replayed]}

(* store_history() of a live reading, given the row before the update.     *)
StoreHistory(moving) ==
  \/ ~moving /\ ~stateMoving /\ UNCHANGED rows
  \/ ~moving /\ stateMoving /\ Put(now, FALSE, FALSE)
  \/ /\ moving /\ Bucket(stateAt, MotionInterval) = Bucket(now, MotionInterval)
     /\ UNCHANGED rows
  \/ /\ moving /\ Bucket(stateAt, MotionInterval) # Bucket(now, MotionInterval)
     /\ Put(Bucket(now, MotionInterval), TRUE, FALSE)
  \/ PutsFail /\ UNCHANGED rows

(* The State ingest of a live reading: update the row, then History, whose *)
(* failure is only logged.  Readings go out at QoS 0: one may be lost; and *)
(* no two in one second, for publishIntervalMs is at least 1000.           *)
Publishes ==
  \/ /\ stateAt < now
     /\ stateAt' = now /\ stateMoving' = (speed # 0)
     /\ StoreHistory(speed # 0)
  \/ UNCHANGED cloud

-----------------------------------------------------------------------------
(* Mutant: an online round also forgets that the car was moving.           *)
OnlineRoundForgets ==
  /\ link' = TRUE
  /\ \/ freshLive' = TRUE /\ Publishes
     \/ UNCHANGED <<freshLive, cloud>>
  /\ speedWasActive' = FALSE
  /\ UNCHANGED <<car, lastSpeedBucket, dropped, journal, zeros, lastSample>>

(* A round that finds the client connected, perhaps by connecting it, with *)
(* a live reading if publishIntervalMs is over.                            *)
OnlineRound ==
  /\ link' = TRUE
  /\ \/ freshLive' = TRUE /\ Publishes
     \/ UNCHANGED <<freshLive, cloud>>
  /\ UNCHANGED <<car, cache>>

(* The socket is lost.                                                     *)
LinkDrops ==
  /\ link /\ link' = FALSE
  /\ UNCHANGED <<car, cloud, cache, freshLive>>

(* The journal survives.  Until the clock is set sampleOffline() returns   *)
(* early; those rounds are left out, for a boot has nothing to forget.     *)
Reboot ==
  /\ link' = FALSE /\ freshLive' = FALSE
  /\ speedWasActive' = FALSE /\ lastSpeedBucket' = 0 /\ dropped' = FALSE
  /\ lastSample' = "none"
  /\ UNCHANGED <<car, cloud, journal, zeros>>

(* Mutant: a zero is stored under the key of its minute.                   *)
ZeroHasMinuteKey(sample) == Bucket(sample.at, Minute)

(* The key _store() makes of a sample.                                     *)
SampleKey(sample) ==
  IF sample.moving THEN Bucket(sample.at, Minute) ELSE sample.at

(* The oldest sample of the journal reaches the backfill Lambda.           *)
BackfillStores ==
  /\ link /\ freshLive /\ journal # <<>>
  /\ Put(SampleKey(Head(journal)), Head(journal).moving, TRUE)
  /\ journal' = Tail(journal)
  /\ UNCHANGED <<car, stateAt, stateMoving, speedWasActive, lastSpeedBucket,
                 dropped, zeros, lastSample, link, freshLive>>

Next ==
  \/ Tick \/ (\E reading \in {0, Crawl, Drive} : CarChanges(reading))
  \/ OfflineRound \/ OnlineRound \/ LinkDrops
  \/ Reboot \/ BackfillStores

Spec == Init /\ [][Next]_vars

-----------------------------------------------------------------------------
CarTypeOK ==
  now \in Nat /\ speed \in {0, Crawl, Drive} /\ seen \subseteq Nat \X BOOLEAN

CacheTypeOK ==
  /\ journal \in Seq([at : Nat, moving : BOOLEAN]) /\ Len(journal) <= MaxRecords
  /\ speedWasActive \in BOOLEAN /\ dropped \in BOOLEAN /\ lastSpeedBucket \in Nat
  /\ zeros \subseteq Nat /\ lastSample \in {"none", "moving", "zero"}

CloudTypeOK ==
  /\ stateAt \in Nat /\ stateMoving \in BOOLEAN
  /\ rows \subseteq [key : Nat, moving : BOOLEAN, replayed : BOOLEAN]

(* Types, and the capacity of the journal.                                 *)
TypeOK ==
  /\ CarTypeOK /\ CacheTypeOK /\ CloudTypeOK
  /\ link \in BOOLEAN /\ freshLive \in BOOLEAN

(* History does not invent: behind a replayed zero is a reading of at most *)
(* 1 km/h in that very second, behind a replayed moving row one of more    *)
(* than 1 km/h in that minute, wherever the rest of the minute came from.  *)
ReplayedRowsAreTrue ==
  \A row \in rows : row.replayed =>
    IF row.moving
    THEN \E second \in row.key..(row.key + Minute - 1) : <<second, TRUE>> \in seen
    ELSE <<row.key, FALSE>> \in seen

(* A terminal zero is never lost to a row of its minute ("Preserve the     *)
(* terminal zero inside an already sampled active minute", handler.py)     *)
(* except when it falls on the first second of an interval: there the two  *)
(* keys are the same.                                                      *)
ZeroIsKept ==
  \A second \in zeros :
    \/ \E i \in DOMAIN journal : journal[i] = [at |-> second, moving |-> FALSE]
    \/ \E row \in rows : row.key = second /\ ~row.moving
    \/ Bucket(second, Minute) = second
    \/ Bucket(second, MotionInterval) = second

(* Why: what is journalled was shown, and a row of motion has the key of   *)
(* an interval.                                                            *)
SamplesAreTrue ==
  /\ <<now, Moving>> \in seen
  /\ \A i \in DOMAIN journal : <<journal[i].at, journal[i].moving>> \in seen

MotionKeysAreBuckets ==
  \A row \in rows : row.moving =>
    \/ Bucket(row.key, Minute) = row.key
    \/ Bucket(row.key, MotionInterval) = row.key

(* A drive that was sampled is never left open: as long as the newest      *)
(* record says moving, the cache remembers that a zero is still to come,   *)
(* through any number of sessions, unless it has counted a drop.           *)
OpenDriveIsRemembered == lastSample = "moving" => speedWasActive \/ dropped

(* "continuous standstill zeroes are suppressed" (CACHE-001.md:37): no zero *)
(* is journalled while History has one from after the last motion.         *)
StandstillIsSuppressed ==
  [][zeros' # zeros =>
       ~\E row \in rows : /\ ~row.moving
                          /\ \A reading \in seen : reading[2] => reading[1] < row.key]_vars

(* "records a terminal zero when movement ends" (CACHE-001.md:37) and "The *)
(* first transition to zero is stored immediately" (docs/architecture/     *)
(* telemetry-history.md:55): once the journal is replayed and the cloud    *)
(* has been told that the car stands, no moving row is the last word.      *)
Settled ==
  /\ link /\ journal = <<>> /\ speed = 0 /\ ~dropped
  /\ ~stateMoving /\ \A reading \in seen : reading[2] => reading[1] < stateAt

DriveEndsInZero ==
  Settled => \A row \in rows : row.moving =>
               \E zero \in rows : ~zero.moving /\ zero.key >= row.key
=============================================================================
