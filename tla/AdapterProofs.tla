---------------------------- MODULE AdapterProofs ----------------------------
(***************************************************************************)
(* Theorems about the parts of the C6 that run on its clock: SpeedHistory, *)
(* for every interval, clock and capacity, and NetworkManager, for every   *)
(* counter, timeout, interval and radio.                                   *)
(***************************************************************************)
EXTENDS MCAdapter, Integers, SequenceTheorems, TLAPS

-----------------------------------------------------------------------------
(* SpeedHistory: buckets, the sampler and the keys of the History.         *)

(* A bucket begins at most interval - 1 seconds before the second it is    *)
(* the bucket of, and is its own bucket.                                   *)
LEMMA BucketBounds ==
  ASSUME NEW second \in Nat, NEW interval \in Nat \ {0}
  PROVE  /\ Bucket(second, interval) \in Nat
         /\ second \in Bucket(second, interval)..(Bucket(second, interval) + interval - 1)
<1>1. second % interval \in 0..(interval - 1)
  OBVIOUS
<1>2. second % interval <= second
  BY SMTT(30)
<1> QED  BY <1>1, <1>2 DEF Bucket

LEMMA BucketIdempotent ==
  ASSUME NEW second \in Nat, NEW interval \in Nat \ {0}
  PROVE  Bucket(Bucket(second, interval), interval) = Bucket(second, interval)
<1> DEFINE q == second \div interval
           r == second % interval
<1>1. second = q * interval + r /\ q \in Int /\ r \in Int
  BY SMTT(30)
<1>2. (q * interval) % interval = 0
  <2>1. ASSUME NEW n \in Int PROVE (n * interval) % interval = 0
    BY SMTT(30)
  <2> QED  BY <1>1, <2>1
<1>3. second - r = q * interval
  <2>1. ASSUME NEW n \in Int, second = n + r PROVE second - r = n
    BY <1>1, <2>1
  <2>2. q * interval \in Int
    BY <1>1
  <2> QED  BY <1>1, <2>1, <2>2
<1> QED  BY <1>2, <1>3 DEF Bucket

-----------------------------------------------------------------------------
(* TypeOK is inductive.                                                    *)
LEMMA CarTypes == CarTypeOK /\ [Next]_vars => CarTypeOK'
<1> SUFFICES ASSUME CarTypeOK, [Next]_vars PROVE CarTypeOK'
  OBVIOUS
<1> DEFINE Readings == Nat \X BOOLEAN
<1>1. CASE Tick
  <2>1. Moving \in BOOLEAN
    BY DEF Moving
  <2>2. <<now', Moving>> \in Readings
    BY <1>1, <2>1 DEF Tick, CarTypeOK
  <2> HIDE DEF Readings
  <2>3. seen \subseteq Readings
    BY DEF CarTypeOK, Readings
  <2>4. seen' \subseteq Readings /\ now' \in Nat /\ speed' = speed
    BY <1>1, <2>2, <2>3 DEF Tick, CarTypeOK
  <2> QED  BY <2>4 DEF CarTypeOK, Readings
<1>2. ASSUME NEW reading \in {0, Crawl, Drive}, CarChanges(reading) PROVE CarTypeOK'
  <2>1. Moving' \in BOOLEAN
    BY DEF Moving
  <2>2. <<now, Moving'>> \in Readings
    BY <2>1 DEF CarTypeOK
  <2> HIDE DEF Readings
  <2>3. seen \subseteq Readings
    BY DEF CarTypeOK, Readings
  <2>4. seen' \subseteq Readings /\ now' = now /\ speed' = reading
    BY <1>2, <2>2, <2>3 DEF CarChanges
  <2> QED  BY <2>4 DEF CarTypeOK, Readings
<1>3. CASE UNCHANGED car
  BY <1>3 DEF car, CarTypeOK
<1> QED
  BY <1>1, <1>2, <1>3 DEF Next, vars, OfflineRound, OnlineRound, LinkDrops, Reboot,
     BackfillStores

LEMMA SampleTypes ==
  ASSUME CarTypeOK, CacheTypeOK, SampleSpeed
  PROVE  CacheTypeOK'
<1>1. Moving \in BOOLEAN /\ Bucket(now, Minute) \in Nat
  BY SpeedAssumption, BucketBounds DEF CarTypeOK, Moving, Crawl, Drive
<1>2. ASSUME NEW moving \in BOOLEAN, Stores(moving)
      PROVE  /\ journal' \in Seq([at : Nat, moving : BOOLEAN]) /\ Len(journal') <= MaxRecords
             /\ zeros' \subseteq Nat /\ lastSample' \in {"none", "moving", "zero"}
             /\ dropped' \in BOOLEAN
  <2>1. [at |-> now, moving |-> moving] \in [at : Nat, moving : BOOLEAN]
    BY DEF CarTypeOK
  <2>2. /\ journal' \in Seq([at : Nat, moving : BOOLEAN])
        /\ Len(journal') = Len(journal) + 1
    BY <1>2, <2>1 DEF Stores, CacheTypeOK
  <2> QED  BY <1>2, <2>2, SpeedAssumption DEF Stores, CacheTypeOK, CarTypeOK
<1>3. Drops \/ Keeps => /\ journal' = journal /\ zeros' = zeros
                        /\ lastSample' = lastSample /\ dropped' \in BOOLEAN
  BY DEF Drops, Keeps, CacheTypeOK
<1>4. speedWasActive' \in BOOLEAN /\ lastSpeedBucket' \in Nat
  BY <1>1 DEF SampleSpeed, CacheTypeOK
<1>5. Stores(TRUE) \/ Stores(FALSE) \/ Drops \/ Keeps
  BY DEF SampleSpeed
<1> QED  BY <1>2, <1>3, <1>4, <1>5 DEF CacheTypeOK

LEMMA CacheTypes == CarTypeOK /\ CacheTypeOK /\ [Next]_vars => CacheTypeOK'
<1> SUFFICES ASSUME CarTypeOK, CacheTypeOK, [Next]_vars PROVE CacheTypeOK'
  OBVIOUS
<1>1. CASE OfflineRound
  BY <1>1, SampleTypes DEF OfflineRound
<1>2. CASE Reboot
  BY <1>2 DEF Reboot, CacheTypeOK
<1>3. CASE BackfillStores
  <2>1. Tail(journal) \in Seq([at : Nat, moving : BOOLEAN])
        /\ Len(Tail(journal)) = Len(journal) - 1
    BY <1>3 DEF BackfillStores, CacheTypeOK
  <2> QED  BY <1>3, <2>1, SpeedAssumption DEF BackfillStores, CacheTypeOK
<1>4. CASE UNCHANGED cache
  BY <1>4 DEF cache, CacheTypeOK
<1> QED
  BY <1>1, <1>2, <1>3, <1>4 DEF Next, vars, Tick, CarChanges, OnlineRound, LinkDrops

LEMMA PutTypes ==
  ASSUME CloudTypeOK, NEW key \in Nat, NEW moving \in BOOLEAN, NEW replayed \in BOOLEAN,
         Put(key, moving, replayed)
  PROVE  rows' \subseteq [key : Nat, moving : BOOLEAN, replayed : BOOLEAN]
BY DEF Put, CloudTypeOK

LEMMA CloudTypes ==
  CarTypeOK /\ CacheTypeOK /\ CloudTypeOK /\ [Next]_vars => CloudTypeOK'
<1> SUFFICES ASSUME CarTypeOK, CacheTypeOK, CloudTypeOK, [Next]_vars PROVE CloudTypeOK'
  OBVIOUS
<1>1. CASE OnlineRound
  <2>1. ASSUME NEW moving \in BOOLEAN, StoreHistory(moving)
        PROVE  rows' \subseteq [key : Nat, moving : BOOLEAN, replayed : BOOLEAN]
    <3>1. now \in Nat /\ Bucket(now, MotionInterval) \in Nat
      BY SpeedAssumption, BucketBounds DEF CarTypeOK
    <3>2. \/ UNCHANGED rows
          \/ Put(now, FALSE, FALSE)
          \/ Put(Bucket(now, MotionInterval), TRUE, FALSE)
      BY <2>1 DEF StoreHistory
    <3> QED  BY <3>1, <3>2, PutTypes DEF CloudTypeOK
  <2>2. CASE UNCHANGED cloud
    BY <2>2 DEF cloud, CloudTypeOK
  <2>3. CASE stateAt' = now /\ stateMoving' = (speed # 0) /\ StoreHistory(speed # 0)
    BY <2>1, <2>3 DEF CloudTypeOK, CarTypeOK
  <2> QED  BY <1>1, <2>2, <2>3 DEF OnlineRound, Publishes, cloud
<1>2. CASE BackfillStores
  <2>1. Head(journal) \in [at : Nat, moving : BOOLEAN]
    BY <1>2, HeadTailProperties DEF BackfillStores, CacheTypeOK
  <2>2. SampleKey(Head(journal)) \in Nat
    BY <2>1, BucketBounds, SpeedAssumption DEF SampleKey
  <2> QED  BY <1>2, <2>1, <2>2, PutTypes DEF BackfillStores, CloudTypeOK
<1>3. CASE UNCHANGED cloud
  BY <1>3 DEF cloud, CloudTypeOK
<1> QED
  BY <1>1, <1>2, <1>3 DEF Next, vars, Tick, CarChanges, OfflineRound, LinkDrops, Reboot

LEMMA LoopTypes ==
  link \in BOOLEAN /\ freshLive \in BOOLEAN /\ [Next]_vars
    => link' \in BOOLEAN /\ freshLive' \in BOOLEAN
BY DEF Next, vars, Tick, CarChanges, OfflineRound, OnlineRound, Publishes, cloud,
       LinkDrops, Reboot, BackfillStores

(* Every variable keeps its type, and the journal its capacity.            *)
THEOREM TypeCorrect == Spec => []TypeOK
<1>1. Init => TypeOK
  <2> SUFFICES ASSUME Init PROVE TypeOK
    OBVIOUS
  <2>1. CarTypeOK
    <3>1. <<FirstSecond, FALSE>> \in Nat \X BOOLEAN
      BY SpeedAssumption
    <3> QED  BY <3>1, SpeedAssumption DEF Init, CarTypeOK
  <2>2. CacheTypeOK
    <3>1. journal \in Seq([at : Nat, moving : BOOLEAN]) /\ Len(journal) = 0
      BY EmptySeq DEF Init
    <3>2. speedWasActive = FALSE /\ dropped = FALSE /\ lastSpeedBucket = 0
          /\ zeros = {} /\ lastSample = "none"
      BY DEF Init
    <3>3. Len(journal) <= MaxRecords
      BY <3>1, SpeedAssumption
    <3> QED  BY <3>1, <3>2, <3>3 DEF CacheTypeOK
  <2>3. CloudTypeOK /\ link \in BOOLEAN /\ freshLive \in BOOLEAN
    BY DEF Init, CloudTypeOK
  <2> QED  BY <2>1, <2>2, <2>3 DEF TypeOK
<1>2. TypeOK /\ [Next]_vars => TypeOK'
  BY CarTypes, CacheTypes, CloudTypes, LoopTypes DEF TypeOK
<1> QED  BY <1>1, <1>2, PTL DEF Spec

-----------------------------------------------------------------------------
(* The zero still to come is remembered through every session: only a      *)
(* stored zero, a counted drop or a boot ends the wait for it.             *)
THEOREM DriveStaysOpen == Spec => []OpenDriveIsRemembered
<1>1. Init => OpenDriveIsRemembered
  BY DEF Init, OpenDriveIsRemembered
<1>2. TypeOK /\ OpenDriveIsRemembered /\ [Next]_vars => OpenDriveIsRemembered'
  <2> SUFFICES ASSUME TypeOK, OpenDriveIsRemembered, [Next]_vars
               PROVE  OpenDriveIsRemembered'
    OBVIOUS
  <2>1. CASE OfflineRound
    <3>1. CASE Moving
      BY <2>1, <3>1 DEF OfflineRound, SampleSpeed, OpenDriveIsRemembered
    <3>2. CASE ~Moving /\ speedWasActive
      BY <2>1, <3>2 DEF OfflineRound, SampleSpeed, Stores, Drops, OpenDriveIsRemembered
    <3>3. CASE ~Moving /\ ~speedWasActive
      <4>1. Keeps
        BY <2>1, <3>3 DEF OfflineRound, SampleSpeed
      <4> QED  BY <3>3, <4>1 DEF Keeps, OpenDriveIsRemembered
    <3> QED  BY <3>1, <3>2, <3>3
  <2>2. CASE Reboot
    BY <2>2 DEF Reboot, OpenDriveIsRemembered
  <2>3. CASE UNCHANGED <<lastSample, speedWasActive, dropped>>
    BY <2>3 DEF OpenDriveIsRemembered
  <2> QED
    BY <2>1, <2>2, <2>3 DEF Next, vars, cache, Tick, CarChanges, OnlineRound, LinkDrops,
       BackfillStores
<1> QED  BY <1>1, <1>2, TypeCorrect, PTL DEF Spec

-----------------------------------------------------------------------------
(* What changes the journal: a sample of this second at its end, or the    *)
(* backfill at its head.                                                   *)
LEMMA JournalSteps ==
  ASSUME TypeOK, [Next]_vars
  PROVE  \/ UNCHANGED <<journal, zeros>>
         \/ /\ OfflineRound /\ UNCHANGED <<now, speed, seen, rows>>
            /\ \E moving \in BOOLEAN : moving = Moving /\ Stores(moving)
         \/ BackfillStores
<1>1. CASE OfflineRound
  <2>1. \/ Stores(TRUE) /\ Moving
        \/ Stores(FALSE) /\ ~Moving
        \/ Drops \/ Keeps
    <3>1. CASE Moving
      <4>1. Stores(TRUE) \/ Drops \/ Keeps
        BY <1>1, <3>1 DEF OfflineRound, SampleSpeed
      <4> QED  BY <3>1, <4>1
    <3>2. CASE ~Moving
      BY <1>1, <3>2 DEF OfflineRound, SampleSpeed
    <3> QED  BY <3>1, <3>2
  <2>2. CASE Stores(TRUE) /\ Moving
    <3>1. Moving = TRUE
      BY <2>2 DEF Moving
    <3> QED  BY <1>1, <2>2, <3>1 DEF OfflineRound, car, cloud
  <2>3. CASE Stores(FALSE) /\ ~Moving
    <3>1. Moving = FALSE
      BY <2>3 DEF Moving
    <3> QED  BY <1>1, <2>3, <3>1 DEF OfflineRound, car, cloud
  <2>4. CASE Drops \/ Keeps
    BY <2>4 DEF Drops, Keeps
  <2> QED  BY <2>1, <2>2, <2>3, <2>4
<1> QED
  BY <1>1 DEF Next, vars, cache, Tick, CarChanges, OnlineRound, LinkDrops, Reboot

LEMMA TrueSamplesKept == TypeOK /\ SamplesAreTrue /\ [Next]_vars => SamplesAreTrue'
<1> SUFFICES ASSUME TypeOK, SamplesAreTrue, [Next]_vars PROVE SamplesAreTrue'
  OBVIOUS
<1>1. seen \subseteq seen'
  BY DEF Next, vars, car, Tick, CarChanges, OfflineRound, OnlineRound, LinkDrops, Reboot,
     BackfillStores
<1>2. <<now, Moving>>' \in seen'
  <2>1. CASE Tick
    BY <2>1 DEF Tick, Moving
  <2>2. ASSUME NEW reading \in {0, Crawl, Drive}, CarChanges(reading)
        PROVE  <<now, Moving>>' \in seen'
    BY <2>2 DEF CarChanges
  <2>3. CASE UNCHANGED car
    BY <2>3 DEF car, SamplesAreTrue, Moving
  <2> QED
    BY <2>1, <2>2, <2>3 DEF Next, vars, OfflineRound, OnlineRound, LinkDrops, Reboot,
       BackfillStores
<1>3. ASSUME NEW i \in DOMAIN journal'
      PROVE  <<journal'[i].at, journal'[i].moving>> \in seen'
  <2>1. CASE UNCHANGED <<journal, zeros>>
    BY <1>1, <1>3, <2>1 DEF SamplesAreTrue
  <2>2. ASSUME NEW moving \in BOOLEAN, moving = Moving, Stores(moving)
        PROVE  <<journal'[i].at, journal'[i].moving>> \in seen'
    <3>1. CASE i \in DOMAIN journal
      BY <1>1, <2>2, <3>1 DEF Stores, TypeOK, CacheTypeOK, SamplesAreTrue
    <3>2. CASE i \notin DOMAIN journal
      <4>1. journal'[i] = [at |-> now, moving |-> moving]
        BY <1>3, <2>2, <3>2 DEF Stores, TypeOK, CacheTypeOK
      <4> QED  BY <1>1, <2>2, <4>1 DEF SamplesAreTrue
    <3> QED  BY <3>1, <3>2
  <2>3. CASE BackfillStores
    <3>1. i + 1 \in DOMAIN journal /\ journal'[i] = journal[i + 1]
      BY <1>3, <2>3 DEF BackfillStores, TypeOK, CacheTypeOK
    <3> QED  BY <1>1, <3>1 DEF SamplesAreTrue
  <2> QED  BY <2>1, <2>2, <2>3, JournalSteps
<1> QED  BY <1>2, <1>3 DEF SamplesAreTrue

LEMMA TrueSamples == Spec => []SamplesAreTrue
<1>1. Init => SamplesAreTrue
  <2> SUFFICES ASSUME Init PROVE SamplesAreTrue
    OBVIOUS
  <2>1. Moving = FALSE /\ DOMAIN journal = {}
    BY DEF Init, Moving, Crawl
  <2> QED  BY <2>1 DEF Init, SamplesAreTrue
<1> QED  BY <1>1, TrueSamplesKept, TypeCorrect, PTL DEF Spec

(* A row the backfill writes carries its sample under the sample's key.    *)
LEMMA BackfillRow ==
  ASSUME TypeOK, BackfillStores, NEW row \in rows', row \notin rows
  PROVE  /\ 1 \in DOMAIN journal /\ Head(journal) = journal[1]
         /\ row = [key |-> SampleKey(journal[1]), moving |-> journal[1].moving,
                   replayed |-> TRUE]
<1>1. 1 \in DOMAIN journal /\ Head(journal) = journal[1]
  BY DEF BackfillStores, TypeOK, CacheTypeOK
<1> QED  BY <1>1 DEF BackfillStores, Put

(* A row the ingest writes is not marked as replayed.                      *)
LEMMA LiveRow ==
  ASSUME TypeOK, [Next]_vars, ~BackfillStores, NEW row \in rows', row \notin rows
  PROVE  /\ row.replayed = FALSE
         /\ row.moving => row.key = Bucket(now, MotionInterval)
<1>1. OnlineRound
  BY DEF Next, vars, cloud, Tick, CarChanges, OfflineRound, LinkDrops, Reboot
<1>2. StoreHistory(speed # 0)
  BY <1>1 DEF OnlineRound, Publishes, cloud
<1>3. Put(now, FALSE, FALSE) \/ Put(Bucket(now, MotionInterval), TRUE, FALSE)
  BY <1>2 DEF StoreHistory
<1>4. \/ row = [key |-> now, moving |-> FALSE, replayed |-> FALSE]
      \/ row = [key |-> Bucket(now, MotionInterval), moving |-> TRUE, replayed |-> FALSE]
  BY <1>3 DEF Put
<1> QED  BY <1>4

LEMMA RowsStay == [Next]_vars => rows \subseteq rows' /\ seen \subseteq seen'
BY DEF Next, vars, car, cloud, Tick, CarChanges, OfflineRound, OnlineRound, Publishes,
       StoreHistory, LinkDrops, Reboot, BackfillStores, Put

(* History does not invent motion or standstill.                           *)
THEOREM ReplayIsTrue == Spec => []ReplayedRowsAreTrue
<1>1. Init => ReplayedRowsAreTrue
  BY DEF Init, ReplayedRowsAreTrue
<1>2. TypeOK /\ SamplesAreTrue /\ ReplayedRowsAreTrue /\ [Next]_vars
        => ReplayedRowsAreTrue'
  <2> SUFFICES ASSUME TypeOK, SamplesAreTrue, ReplayedRowsAreTrue, [Next]_vars,
                      NEW row \in rows', row.replayed
               PROVE  IF row.moving
                      THEN \E second \in row.key..(row.key + Minute - 1) :
                             <<second, TRUE>> \in seen'
                      ELSE <<row.key, FALSE>> \in seen'
    BY DEF ReplayedRowsAreTrue
  <2>1. CASE row \in rows
    BY <2>1, RowsStay DEF ReplayedRowsAreTrue
  <2>2. CASE row \notin rows
    <3>1. BackfillStores
      BY <2>2, LiveRow
    <3> DEFINE sample == journal[1]
    <3>2. /\ 1 \in DOMAIN journal /\ Head(journal) = sample
          /\ row.key = SampleKey(sample)
          /\ row.moving = sample.moving
      BY <2>2, <3>1, BackfillRow
    <3>3. sample.at \in Nat /\ sample.moving \in BOOLEAN
      <4>1. journal \in Seq([at : Nat, moving : BOOLEAN])
        BY DEF TypeOK, CacheTypeOK
      <4>2. journal[1] \in [at : Nat, moving : BOOLEAN]
        BY <3>1, <3>2, <4>1, HeadTailProperties DEF BackfillStores
      <4> QED  BY <4>2
    <3>4. <<sample.at, sample.moving>> \in seen'
      BY <3>2, RowsStay DEF SamplesAreTrue
    <3> HIDE DEF sample
    <3>5. CASE sample.moving = TRUE
      <4>1. sample.at \in row.key..(row.key + Minute - 1)
        BY <3>2, <3>3, <3>5, BucketBounds, SpeedAssumption DEF SampleKey
      <4> QED  BY <3>2, <3>4, <3>5, <4>1
    <3>6. CASE sample.moving = FALSE
      <4>1. row.key = sample.at
        BY <3>2, <3>6 DEF SampleKey
      <4> QED  BY <3>2, <3>4, <3>6, <4>1
    <3> QED  BY <3>3, <3>5, <3>6
  <2> QED  BY <2>1, <2>2
<1> QED  BY <1>1, <1>2, TypeCorrect, TrueSamples, PTL DEF Spec

LEMMA MotionKeys == TypeOK /\ MotionKeysAreBuckets /\ [Next]_vars => MotionKeysAreBuckets'
<1> SUFFICES ASSUME TypeOK, MotionKeysAreBuckets, [Next]_vars,
                    NEW row \in rows', row.moving
             PROVE  \/ Bucket(row.key, Minute) = row.key
                    \/ Bucket(row.key, MotionInterval) = row.key
  BY DEF MotionKeysAreBuckets, Bucket
<1>1. CASE row \in rows
  BY <1>1 DEF MotionKeysAreBuckets
<1>2. CASE row \notin rows /\ ~BackfillStores
  <2>1. row.key = Bucket(now, MotionInterval) /\ now \in Nat
    BY <1>2, LiveRow DEF TypeOK, CarTypeOK
  <2> QED  BY <2>1, BucketIdempotent, SpeedAssumption
<1>3. CASE row \notin rows /\ BackfillStores
  <2>1. /\ 1 \in DOMAIN journal /\ Head(journal) = journal[1]
        /\ row.key = SampleKey(journal[1]) /\ row.moving = journal[1].moving
    <3>1. /\ 1 \in DOMAIN journal /\ Head(journal) = journal[1]
          /\ row = [key |-> SampleKey(journal[1]), moving |-> journal[1].moving,
                    replayed |-> TRUE]
      BY <1>3, BackfillRow
    <3> QED  BY <3>1
  <2>2. journal \in Seq([at : Nat, moving : BOOLEAN])
    BY DEF TypeOK, CacheTypeOK
  <2>3. Head(journal) \in [at : Nat, moving : BOOLEAN]
    BY <1>3, <2>2, HeadTailProperties DEF BackfillStores
  <2>4. row.key = Bucket(Head(journal).at, Minute) /\ Head(journal).at \in Nat
    <3> DEFINE sample == journal[1]
    <3>1. row.key = SampleKey(sample) /\ sample.moving /\ sample.at \in Nat
      BY <2>1, <2>3
    <3> QED  BY <2>1, <3>1 DEF SampleKey
  <2> QED  BY <2>4, BucketIdempotent, SpeedAssumption
<1> QED  BY <1>1, <1>2, <1>3

LEMMA ZeroKept ==
  TypeOK /\ MotionKeysAreBuckets /\ ZeroIsKept /\ [Next]_vars => ZeroIsKept'
<1> SUFFICES ASSUME TypeOK, MotionKeysAreBuckets, ZeroIsKept, [Next]_vars,
                    NEW second \in zeros'
             PROVE  \/ \E i \in DOMAIN journal' :
                         journal'[i] = [at |-> second, moving |-> FALSE]
                    \/ \E row \in rows' : row.key = second /\ ~row.moving
                    \/ Bucket(second, Minute) = second
                    \/ Bucket(second, MotionInterval) = second
  BY DEF ZeroIsKept, Bucket
<1> DEFINE zero == [at |-> second, moving |-> FALSE]
<1>1. CASE UNCHANGED <<journal, zeros>>
  BY <1>1, RowsStay DEF ZeroIsKept
<1>2. ASSUME OfflineRound, UNCHANGED rows,
             NEW moving \in BOOLEAN, moving = Moving, Stores(moving)
      PROVE  \/ \E i \in DOMAIN journal' : journal'[i] = zero
             \/ \E row \in rows' : row.key = second /\ ~row.moving
             \/ Bucket(second, Minute) = second
             \/ Bucket(second, MotionInterval) = second
  <2>1. /\ DOMAIN journal \subseteq DOMAIN journal'
        /\ \A i \in DOMAIN journal : journal'[i] = journal[i]
        /\ Len(journal') \in DOMAIN journal'
        /\ journal'[Len(journal')] = [at |-> now, moving |-> moving]
    BY <1>2 DEF Stores, TypeOK, CacheTypeOK
  <2>2. CASE second \in zeros
    BY <1>2, <2>1, <2>2 DEF ZeroIsKept
  <2>3. CASE second \notin zeros
    <3>1. second = now /\ moving = FALSE
      BY <1>2, <2>3 DEF Stores
    <3> QED  BY <2>1, <3>1
  <2> QED  BY <2>2, <2>3
<1>3. CASE BackfillStores
  <2>1. second \in zeros
    BY <1>3 DEF BackfillStores
  <2>2. ASSUME NEW i \in DOMAIN journal, journal[i] = zero, i # 1
        PROVE  \E j \in DOMAIN journal' : journal'[j] = zero
    <3>1. i - 1 \in DOMAIN journal' /\ journal'[i - 1] = journal[i]
      <4>1. i \in 2..Len(journal) /\ Len(journal') = Len(journal) - 1
        BY <1>3, <2>2 DEF BackfillStores, TypeOK, CacheTypeOK
      <4>2. i - 1 \in 1..Len(Tail(journal))
        BY <1>3, <4>1 DEF BackfillStores
      <4> QED  BY <1>3, <4>1, <4>2 DEF BackfillStores, TypeOK, CacheTypeOK
    <3> QED  BY <2>2, <3>1
  <2>3. ASSUME journal[1] = zero
        PROVE  \/ \E row \in rows' : row.key = second /\ ~row.moving
               \/ Bucket(second, Minute) = second
               \/ Bucket(second, MotionInterval) = second
    <3>1. Head(journal) = zero
      BY <1>3, <2>3 DEF BackfillStores, TypeOK, CacheTypeOK
    <3>2. Put(second, FALSE, TRUE)
      <4>1. SampleKey(zero) = second /\ zero.moving = FALSE
        BY DEF SampleKey
      <4> QED  BY <1>3, <3>1, <4>1 DEF BackfillStores
    <3>3. CASE \E row \in rows : row.key = second
      BY <3>3, RowsStay DEF MotionKeysAreBuckets
    <3>4. CASE ~\E row \in rows : row.key = second
      <4>1. [key |-> second, moving |-> FALSE, replayed |-> TRUE] \in rows'
        BY <3>2, <3>4 DEF Put
      <4> QED  BY <4>1
    <3> QED  BY <3>3, <3>4
  <2> QED  BY <2>1, <2>2, <2>3, RowsStay DEF ZeroIsKept
<1> QED  BY <1>1, <1>2, <1>3, JournalSteps

(* A terminal zero is lost only where the key of an interval and the key   *)
(* of its first second are the same.                                       *)
THEOREM ZeroSurvives == Spec => []ZeroIsKept
<1>1. Init => MotionKeysAreBuckets /\ ZeroIsKept
  BY DEF Init, MotionKeysAreBuckets, ZeroIsKept
<1> QED  BY <1>1, MotionKeys, ZeroKept, TypeCorrect, PTL DEF Spec

-----------------------------------------------------------------------------
(* The clock of the network manager: what a difference of a counter that   *)
(* wraps says of the times it is asked about.                              *)

LEMMA ClockConstants ==
  /\ ClockWidth \in Nat \ {0} /\ ConnectTimeout \in Nat \ {0} /\ RetryInterval \in Nat
  /\ HomeScanInterval \in Nat /\ StableInterval \in Nat /\ JoinTime \in Nat /\ ScanTime \in Nat
  /\ JoinTime < ConnectTimeout /\ ConnectTimeout < ClockWidth
  /\ 2 * RetryInterval < ClockWidth /\ HomeScanInterval < ClockWidth /\ ClockWidth > 3
  /\ 0 \in Millis
BY NetworkAssumption DEF NetworkAssumption, Millis

LEMMA Wrapped ==
  ASSUME NEW n \in Nat, n < 2 * ClockWidth
  PROVE  n % ClockWidth = IF n < ClockWidth THEN n ELSE n - ClockWidth
<1> DEFINE q == n \div ClockWidth
           r == n % ClockWidth
<1>1. r \in 0..(ClockWidth - 1) /\ q \in Int
  BY ClockConstants
<1>2. n = ClockWidth * q + r
  BY ClockConstants, SMTT(30)
<1>3. q \in {0, 1}
  <2>1. q >= 0
    BY ClockConstants, SMTT(30)
  <2>2. CASE q >= 2
    <3>1. ClockWidth * q >= ClockWidth * 2
      BY <1>1, <2>2, ClockConstants, SMTT(30)
    <3> QED  BY <1>1, <1>2, <3>1, ClockConstants
  <2> QED  BY <1>1, <2>1, <2>2
<1> HIDE DEF q, r
<1>4. CASE q = 0
  BY <1>1, <1>2, <1>4, ClockConstants DEF q, r
<1>5. CASE q = 1
  BY <1>1, <1>2, <1>5, ClockConstants DEF q, r
<1> QED  BY <1>3, <1>4, <1>5

LEMMA ElapsedIs ==
  ASSUME millis \in Millis, NEW t \in Millis
  PROVE  Elapsed(t) = IF t <= millis THEN millis - t ELSE millis + ClockWidth - t
BY ClockConstants, Wrapped DEF Elapsed, Millis

LEMMA ElapsedRuns ==
  ASSUME millis \in Millis, NEW t \in Millis, millis' = (millis + 1) % ClockWidth
  PROVE  /\ millis' \in Millis
         /\ Elapsed(t)' = IF Elapsed(t) = ClockWidth - 1 THEN 0 ELSE Elapsed(t) + 1
<1>1. millis' = IF millis = ClockWidth - 1 THEN 0 ELSE millis + 1
  BY ClockConstants, Wrapped DEF Millis
<1>2. millis' \in Millis
  BY <1>1, ClockConstants DEF Millis
<1>3. Elapsed(t)' = IF t <= millis' THEN millis' - t ELSE millis' + ClockWidth - t
  <2>1. PICK m \in Millis : m = millis'
    BY <1>2
  <2>2. (m + ClockWidth - t) % ClockWidth = IF t <= m THEN m - t ELSE m + ClockWidth - t
    BY ClockConstants, Wrapped DEF Millis
  <2> QED  BY <2>1, <2>2 DEF Elapsed
<1> QED  BY <1>1, <1>2, <1>3, ElapsedIs, ClockConstants DEF Millis

LEMMA ElapsedStarts ==
  ASSUME millis \in Millis
  PROVE  Elapsed(millis) = 0
BY ElapsedIs DEF Millis

(* The next try is RetryInterval ahead.                                    *)
LEMMA RetryIsAhead ==
  ASSUME millis \in Millis
  PROVE  /\ At(RetryInterval) \in Millis
         /\ Elapsed(At(RetryInterval)) = IF RetryInterval = 0 THEN 0 ELSE ClockWidth - RetryInterval
<1>1. At(RetryInterval) = IF millis + RetryInterval < ClockWidth THEN millis + RetryInterval
                          ELSE millis + RetryInterval - ClockWidth
  BY ClockConstants, Wrapped DEF At, Millis
<1>2. At(RetryInterval) \in Millis
  BY <1>1, ClockConstants DEF Millis
<1> QED  BY <1>1, <1>2, ElapsedIs, ClockConstants DEF Millis

-----------------------------------------------------------------------------
(* Manager and radio.                                                      *)

Tried == Elapsed(wifi.attemptStarted)
Since == Elapsed(wifi.lastHomeScan)

Waiting == ~Online /\ ~wifi.attempting /\ ~wifi.wasOnline
Dropped == ~Online /\ wifi.wasOnline
Trying(p) == ~Online /\ wifi.attempting /\ wifi.target = p

(* Ticks until a waiting manager tries again: a retry that was due on a    *)
(* boot without profiles is seen by the first pass after it.               *)
RetryDue == Elapsed(wifi.nextRetry) <= 1
UntilRetry ==
  IF RetryDue THEN (IF passed THEN 1 ELSE 0) ELSE ClockWidth - Elapsed(wifi.nextRetry)

NetworkTypes == NetworkTypeOK /\ around \in Surroundings

(* The radio joins what the manager tries, and scans for it; an attempt is *)
(* not older than the time it has, nor the radio late.                     *)
AttemptInv ==
  wifi.attempting =>
    /\ ~wifi.wasOnline /\ wifi.target \in Profiles /\ Tried <= ConnectTimeout
    /\ passed => Tried < ConnectTimeout
JoiningInv ==
  radio.joining # "none" =>
    /\ wifi.attempting /\ wifi.target = radio.joining
    /\ ~Online /\ radio.scan = "none" /\ radio.age <= JoinTime
OnlineInv ==
  Online =>
    /\ IF wifi.wasOnline THEN wifi.active = radio.joined
       ELSE wifi.attempting /\ wifi.target = radio.joined
    /\ radio.scan # "none" => wifi.wasOnline /\ wifi.active = "mobile"
    /\ offlineFor = 0
ScanInv ==
  /\ wifi.scanRunning <=> radio.scan # "none"
  /\ radio.scan = "running" => radio.age <= ScanTime
WaitInv ==
  ~wifi.attempting /\ ~wifi.wasOnline =>
    /\ wifi.ap \/ wifi.apFailed
    /\ IF RetryDue THEN passed => Elapsed(wifi.nextRetry) = 0
       ELSE Elapsed(wifi.nextRetry) >= ClockWidth - RetryInterval

LinkInv == NetworkTypes /\ AttemptInv /\ JoiningInv /\ OnlineInv /\ ScanInv /\ WaitInv

(* Until there is an access point, two attempts account for the time       *)
(* without a network.                                                      *)
ReachInv ==
  /\ ~onboarded => wifi.ap \/ wifi.apFailed
  /\ ~wifi.ap /\ ~wifi.apFailed =>
       /\ wifi.wasOnline => offlineFor <= (IF passed THEN 0 ELSE 1)
       /\ wifi.attempting =>
            offlineFor <= 1 + Tried + (IF wifi.target = "home" THEN 0 ELSE ConnectTimeout)

-----------------------------------------------------------------------------
(* What a pass of the loop does, by what it finds.                         *)

ApKept ==
  /\ wifi'.apFailed <=> wifi.apFailed
  /\ (wifi'.ap <=> wifi.ap) \/ (onboarded /\ Online)

Tries(p) ==
  /\ wifi' \in Wifi /\ radio' \in Radio /\ ApKept
  /\ wifi'.attempting /\ ~wifi'.wasOnline /\ wifi'.target = p /\ wifi'.attemptStarted = millis
  /\ ~wifi'.scanRunning
  /\ radio'.joined = "none" /\ radio'.joining = p /\ radio'.scan = "none" /\ radio'.age = 0

Schedules ==
  /\ wifi' \in Wifi /\ radio' \in Radio
  /\ ~wifi'.attempting /\ ~wifi'.wasOnline /\ wifi'.nextRetry = At(RetryInterval)
  /\ wifi'.scanRunning <=> wifi.scanRunning
  /\ wifi'.ap \/ wifi'.apFailed
  /\ radio'.joined = "none" /\ radio'.joining = "none"
  /\ radio'.scan = radio.scan /\ radio'.age = radio.age

Serves ==
  /\ Online /\ wifi' \in Wifi /\ radio' \in Radio /\ ApKept
  /\ wifi'.wasOnline /\ ~wifi'.attempting /\ wifi'.active = radio.joined
  /\ radio'.joined = radio.joined /\ radio'.joining = radio.joining

RetriesNow == Dropped \/ (Waiting /\ Reached(wifi.nextRetry))
TimesOut(p) == Trying(p) /\ Tried >= ConnectTimeout
Scans == radio.joined = "mobile" /\ "home" \in profiles
Looks == Scans /\ radio.scan = "none" /\ Since >= HomeScanInterval

Preferred == IF "home" \in profiles THEN "home" ELSE "mobile"

PassTries ==
  /\ calmFor' = calmFor
  /\ \/ RetriesNow /\ Preferred \in profiles /\ Tries(Preferred)
     \/ TimesOut("home") /\ "mobile" \in profiles /\ Tries("mobile")
     \/ Scans /\ radio.scan = "seen" /\ Tries("home")
PassSchedules ==
  /\ calmFor' = calmFor /\ Schedules
  /\ \/ RetriesNow /\ profiles = {}
     \/ TimesOut("home") /\ "mobile" \notin profiles
     \/ TimesOut("mobile")
PassRests ==
  /\ UNCHANGED <<wifi, radio, calmFor>> /\ ~Online
  /\ \/ wifi.attempting /\ Tried < ConnectTimeout
     \/ Waiting /\ ~Reached(wifi.nextRetry)
PassServes ==
  /\ Serves
  /\ \/ /\ Looks /\ wifi'.lastHomeScan = millis /\ wifi'.scanRunning
        /\ radio'.scan = "running" /\ radio'.age = 0 /\ calmFor' = calmFor
     \/ /\ Looks /\ wifi'.lastHomeScan = millis /\ (wifi'.scanRunning <=> wifi.scanRunning)
        /\ radio' = radio /\ calmFor' = 0
     \/ /\ Scans /\ radio.scan = "unseen" /\ wifi'.lastHomeScan = wifi.lastHomeScan
        /\ ~wifi'.scanRunning
        /\ radio'.scan = "none" /\ radio'.age = 0 /\ calmFor' = calmFor
     \/ /\ ~Looks /\ ~(Scans /\ radio.scan \in {"seen", "unseen"})
        /\ wifi'.lastHomeScan = wifi.lastHomeScan /\ (wifi'.scanRunning <=> wifi.scanRunning)
        /\ radio' = radio /\ calmFor' = calmFor

LEMMA WifiFields ==
  ASSUME NEW w \in Wifi
  PROVE  /\ w.target \in Profiles \cup {"none"} /\ w.active \in Profiles \cup {"none"}
         /\ w.attempting \in BOOLEAN /\ w.scanRunning \in BOOLEAN /\ w.ap \in BOOLEAN
         /\ w.apFailed \in BOOLEAN /\ w.wasOnline \in BOOLEAN
         /\ w.attemptStarted \in Millis /\ w.connectedSince \in Millis
         /\ w.nextRetry \in Millis /\ w.lastHomeScan \in Millis
BY DEF Wifi

LEMMA BeginTries ==
  ASSUME LinkInv, NEW w \in Wifi, NEW p \in Profiles, BeginProfile(w, p),
         w.apFailed <=> wifi.apFailed, (w.ap <=> wifi.ap) \/ (onboarded /\ Online)
  PROVE  Tries(p)
<1>1. millis \in Millis /\ 0 \in Millis
  BY ClockConstants DEF LinkInv, NetworkTypes, NetworkTypeOK
<1>2. wifi' \in Wifi
  BY <1>1 DEF BeginProfile, Wifi
<1>3. radio' \in Radio /\ radio'.joined = "none" /\ radio'.joining = p
      /\ radio'.scan = "none" /\ radio'.age = 0
  BY DEF BeginProfile, Quiet, Radio
<1>4. /\ wifi'.attempting /\ ~wifi'.wasOnline /\ wifi'.target = p
      /\ wifi'.attemptStarted = millis /\ ~wifi'.scanRunning
      /\ (wifi'.ap <=> w.ap) /\ (wifi'.apFailed <=> w.apFailed)
  BY DEF BeginProfile, Wifi
<1> QED  BY <1>2, <1>3, <1>4 DEF Tries, ApKept

LEMMA RetrySchedules ==
  ASSUME LinkInv, NEW w \in Wifi, ScheduleRetry(w), ~w.wasOnline,
         w.scanRunning <=> wifi.scanRunning
  PROVE  Schedules
<1>1. At(RetryInterval) \in Millis
  BY RetryIsAhead DEF LinkInv, NetworkTypes, NetworkTypeOK
<1>2. PICK starts \in BOOLEAN :
        wifi' = WithAp([w EXCEPT !.attempting = FALSE, !.target = "none", !.active = "none",
                                 !.nextRetry = At(RetryInterval)], starts)
  BY DEF ScheduleRetry
<1>3. PICK v : v = [w EXCEPT !.attempting = FALSE, !.target = "none", !.active = "none",
                             !.nextRetry = At(RetryInterval)]
  OBVIOUS
<1>4. /\ v \in Wifi /\ ~v.attempting /\ ~v.wasOnline /\ v.nextRetry = At(RetryInterval)
      /\ v.scanRunning <=> w.scanRunning
  BY <1>1, <1>3 DEF Wifi
<1>7. /\ wifi' \in Wifi /\ ~wifi'.attempting /\ ~wifi'.wasOnline
      /\ wifi'.nextRetry = At(RetryInterval) /\ (wifi'.scanRunning <=> w.scanRunning)
      /\ wifi'.ap \/ wifi'.apFailed
  <2>1. CASE v.ap
    BY <1>2, <1>3, <1>4, <2>1 DEF WithAp
  <2>2. CASE ~v.ap
    <3>1. wifi' = [v EXCEPT !.ap = starts, !.apFailed = ~starts]
      BY <1>2, <1>3, <2>2 DEF WithAp
    <3>2. /\ wifi' \in Wifi /\ ~wifi'.attempting /\ ~wifi'.wasOnline
          /\ wifi'.nextRetry = At(RetryInterval) /\ (wifi'.scanRunning <=> w.scanRunning)
      BY <1>4, <3>1 DEF Wifi
    <3>3. wifi'.ap = starts /\ wifi'.apFailed = ~starts
      BY <1>4, <3>1 DEF Wifi
    <3> QED  BY <3>2, <3>3
  <2> QED  BY <2>1, <2>2
<1>8. /\ radio' \in Radio /\ radio'.joined = "none" /\ radio'.joining = "none"
      /\ radio'.scan = radio.scan /\ radio'.age = radio.age
  <2>1. radio \in Radio
    BY DEF LinkInv, NetworkTypes, NetworkTypeOK
  <2> QED  BY <2>1 DEF ScheduleRetry, Quiet, Radio
<1> QED  BY <1>7, <1>8 DEF Schedules

LEMMA RetryAtOnce == millis \in Millis => Reached(millis)
BY ElapsedStarts, ClockConstants DEF Reached

LEMMA OfflineDoes ==
  ASSUME LinkInv, OfflinePass
  PROVE  PassTries \/ PassSchedules \/ PassRests
<1>0. wifi \in Wifi /\ millis \in Millis /\ ~Online /\ calmFor' = calmFor /\ profiles \subseteq Profiles
  BY DEF LinkInv, NetworkTypes, NetworkTypeOK, OfflinePass
<1>1. PICK w : w = Lost(wifi)
  OBVIOUS
<1>2. /\ w \in Wifi /\ ~w.wasOnline /\ (w.apFailed <=> wifi.apFailed) /\ (w.ap <=> wifi.ap)
      /\ w.scanRunning <=> wifi.scanRunning
      /\ wifi.wasOnline => ~w.attempting /\ w.nextRetry = millis
      /\ ~wifi.wasOnline => w = wifi
  BY <1>0, <1>1 DEF Lost, Wifi
<1>3. AttemptGoesOn(w) \/ AttemptTimesOut(w) \/ RetryWaits(w) \/ Retries(w)
  BY <1>1 DEF OfflinePass
<1>4. ASSUME w.attempting
      PROVE  w = wifi /\ wifi.target \in Profiles /\ wifi.attempting
  BY <1>2, <1>4 DEF LinkInv, AttemptInv
<1>5. ASSUME ~w.attempting, Reached(w.nextRetry)
      PROVE  RetriesNow
  BY <1>0, <1>2, <1>5 DEF RetriesNow, Dropped, Waiting
<1>6. ASSUME ~w.attempting, ~Reached(w.nextRetry)
      PROVE  w = wifi /\ Waiting
  BY <1>0, <1>2, <1>6, RetryAtOnce DEF Waiting
<1>7. CASE AttemptGoesOn(w)
  BY <1>0, <1>4, <1>7 DEF AttemptGoesOn, PassRests, Tried
<1>8. CASE RetryWaits(w)
  BY <1>0, <1>6, <1>8 DEF RetryWaits, PassRests
<1>9. CASE AttemptTimesOut(w)
  <2>1. w = wifi /\ TimesOut(wifi.target) /\ wifi.target \in Profiles
    BY <1>0, <1>4, <1>9 DEF AttemptTimesOut, TimesOut, Trying, Tried
  <2>2. CASE wifi.target = "home" /\ "mobile" \in profiles
    <3>1. BeginProfile(w, "mobile")
      BY <1>9, <2>1, <2>2 DEF AttemptTimesOut
    <3>2. Tries("mobile")
      BY <1>2, <3>1, BeginTries DEF Profiles
    <3> QED  BY <1>0, <2>1, <2>2, <3>2 DEF PassTries
  <2>3. CASE ~(wifi.target = "home" /\ "mobile" \in profiles)
    <3>1. ScheduleRetry(w)
      BY <1>9, <2>1, <2>3 DEF AttemptTimesOut
    <3>2. Schedules
      BY <1>2, <3>1, RetrySchedules
    <3> QED  BY <1>0, <2>1, <2>3, <3>2 DEF PassSchedules, Profiles
  <2> QED  BY <2>2, <2>3
<1>10. CASE Retries(w)
  <2>1. RetriesNow /\ TryPreferred(w)
    BY <1>5, <1>10 DEF Retries
  <2>2. CASE profiles = {}
    <3>1. ScheduleRetry(w)
      BY <2>1, <2>2 DEF TryPreferred
    <3> QED  BY <1>0, <1>2, <2>1, <2>2, <3>1, RetrySchedules DEF PassSchedules
  <2>3. CASE profiles # {}
    <3>1. Preferred \in profiles /\ Preferred \in Profiles /\ BeginProfile(w, Preferred)
      BY <1>0, <2>1, <2>3 DEF TryPreferred, Preferred, Profiles
    <3>2. Tries(Preferred)
      BY <1>2, <3>1, BeginTries
    <3> QED  BY <1>0, <2>1, <3>1, <3>2 DEF PassTries
  <2> QED  BY <2>2, <2>3
<1> QED  BY <1>3, <1>7, <1>8, <1>9, <1>10

LEMMA OnlineDoes ==
  ASSUME LinkInv, OnlinePass
  PROVE  PassTries \/ PassServes
<1>0. wifi \in Wifi /\ radio \in Radio /\ millis \in Millis /\ Online
  BY DEF LinkInv, NetworkTypes, NetworkTypeOK, OnlinePass
<1>1. PICK v : v = Noted(wifi)
  OBVIOUS
<1>2. /\ v \in Wifi /\ v.wasOnline /\ ~v.attempting /\ v.active = radio.joined
      /\ (v.apFailed <=> wifi.apFailed) /\ (v.ap <=> wifi.ap)
      /\ (v.scanRunning <=> wifi.scanRunning) /\ v.lastHomeScan = wifi.lastHomeScan
  <2>1. CASE wifi.wasOnline
    BY <1>0, <1>1, <2>1 DEF Noted, LinkInv, OnlineInv, AttemptInv
  <2>2. CASE ~wifi.wasOnline
    <3>1. v = [wifi EXCEPT !.active = wifi.target, !.attempting = FALSE,
                           !.connectedSince = millis, !.wasOnline = TRUE]
      BY <1>1, <2>2 DEF Noted
    <3>2. wifi.target = radio.joined
      BY <1>0, <2>2 DEF LinkInv, OnlineInv
    <3> QED  BY <1>0, <3>1, <3>2 DEF Wifi
  <2> QED  BY <2>1, <2>2
<1>3. PICK w : w = Connected(v)
  OBVIOUS
<1>4. /\ w \in Wifi /\ w.wasOnline /\ ~w.attempting /\ w.active = radio.joined
      /\ (w.apFailed <=> wifi.apFailed) /\ ((w.ap <=> wifi.ap) \/ onboarded)
      /\ (w.scanRunning <=> wifi.scanRunning) /\ w.lastHomeScan = wifi.lastHomeScan
  BY <1>2, <1>3 DEF Connected, Wifi
<1>5. /\ MayScan(w) <=> Scans
      /\ ScanDue(w) <=> Looks
      /\ ScanOver(w) <=> Scans /\ radio.scan \in {"seen", "unseen"}
  BY <1>0, <1>4 DEF MayScan, ScanDue, ScanOver, Scans, Looks, Since, LinkInv, ScanInv, Radio
<1>6. ScanBegins(w) \/ ScanNotStarted(w) \/ ScanEnds(w) \/ StaysOnline(w)
  BY <1>1, <1>3 DEF OnlinePass
<1>7. CASE ScanBegins(w)
  <2>1. wifi' = [w EXCEPT !.lastHomeScan = millis, !.scanRunning = TRUE]
    BY <1>7 DEF ScanBegins
  <2>2. radio' = [radio EXCEPT !.scan = "running", !.age = 0] /\ calmFor' = calmFor /\ Looks
    BY <1>5, <1>7 DEF ScanBegins
  <2>3. /\ wifi' \in Wifi /\ wifi'.wasOnline /\ ~wifi'.attempting /\ wifi'.active = radio.joined
        /\ (wifi'.apFailed <=> w.apFailed) /\ (wifi'.ap <=> w.ap)
        /\ wifi'.scanRunning /\ wifi'.lastHomeScan = millis
    BY <1>0, <1>4, <2>1 DEF Wifi
  <2>4. /\ radio' \in Radio /\ radio'.joined = radio.joined /\ radio'.joining = radio.joining
        /\ radio'.scan = "running" /\ radio'.age = 0
    BY <1>0, <2>2 DEF Radio
  <2> QED  BY <1>0, <1>4, <2>2, <2>3, <2>4 DEF PassServes, Serves, ApKept
<1>8. CASE ScanNotStarted(w)
  <2>1. wifi' = [w EXCEPT !.lastHomeScan = millis]
    BY <1>8 DEF ScanNotStarted
  <2>2. radio' = radio /\ calmFor' = 0 /\ Looks
    BY <1>5, <1>8 DEF ScanNotStarted
  <2>3. /\ wifi' \in Wifi /\ wifi'.wasOnline /\ ~wifi'.attempting /\ wifi'.active = radio.joined
        /\ (wifi'.apFailed <=> w.apFailed) /\ (wifi'.ap <=> w.ap)
        /\ (wifi'.scanRunning <=> w.scanRunning) /\ wifi'.lastHomeScan = millis
    BY <1>0, <1>4, <2>1 DEF Wifi
  <2> QED  BY <1>0, <1>4, <2>2, <2>3 DEF PassServes, Serves, ApKept
<1>9. CASE ScanEnds(w)
  <2>1. PICK u : u = [w EXCEPT !.scanRunning = FALSE]
    OBVIOUS
  <2>2. /\ u \in Wifi /\ u.wasOnline /\ ~u.attempting /\ u.active = radio.joined
        /\ (u.apFailed <=> wifi.apFailed) /\ ((u.ap <=> wifi.ap) \/ onboarded)
        /\ ~u.scanRunning /\ u.lastHomeScan = wifi.lastHomeScan
    BY <1>4, <2>1 DEF Wifi
  <2>3. Scans /\ radio.scan \in {"seen", "unseen"} /\ calmFor' = calmFor
    BY <1>5, <1>9 DEF ScanEnds
  <2>4. CASE radio.scan = "seen"
    <3>1. BeginProfile(u, "home")
      BY <1>9, <2>1, <2>4 DEF ScanEnds
    <3>2. Tries("home")
      BY <1>0, <2>2, <3>1, BeginTries DEF Profiles
    <3> QED  BY <2>3, <2>4, <3>2 DEF PassTries
  <2>5. CASE radio.scan # "seen"
    <3>1. wifi' = u /\ radio' = [radio EXCEPT !.scan = "none", !.age = 0]
      BY <1>9, <2>1, <2>5 DEF ScanEnds
    <3>2. /\ radio' \in Radio /\ radio'.joined = radio.joined /\ radio'.joining = radio.joining
          /\ radio'.scan = "none" /\ radio'.age = 0
      BY <1>0, <3>1 DEF Radio
    <3> QED  BY <1>0, <2>2, <2>3, <2>5, <3>1, <3>2 DEF PassServes, Serves, ApKept
  <2> QED  BY <2>4, <2>5
<1>10. CASE StaysOnline(w)
  BY <1>0, <1>4, <1>5, <1>10 DEF StaysOnline, PassServes, Serves, ApKept
<1> QED  BY <1>6, <1>7, <1>8, <1>9, <1>10

LEMMA PassDoes ==
  ASSUME LinkInv, Pass
  PROVE  PassTries \/ PassSchedules \/ PassRests \/ PassServes
BY OnlineDoes, OfflineDoes DEF Pass

-----------------------------------------------------------------------------
(* LinkInv holds.                                                          *)

LEMMA NetworkShape ==
  ASSUME LinkInv
  PROVE  /\ millis \in Millis /\ passed \in BOOLEAN /\ profiles \subseteq Profiles
         /\ onboarded \in BOOLEAN /\ wifi \in Wifi /\ radio \in Radio
         /\ around \in Surroundings /\ around \subseteq {"home", "mobile", "visible"}
         /\ offlineFor \in Nat /\ calmFor \in Nat
         /\ Tried \in Nat /\ Since \in Nat /\ Elapsed(wifi.nextRetry) \in 0..(ClockWidth - 1)
         /\ Since < ClockWidth /\ Tried < ClockWidth
BY WifiFields, ElapsedIs, ClockConstants, NetworkAssumption
   DEF LinkInv, NetworkTypes, NetworkTypeOK, Tried, Since, Millis, NetworkAssumption, Attempts,
       Recovery

LEMMA Bounds ==
  /\ Attempts = 2 * ConnectTimeout + 2 /\ Attempts \in Nat /\ Recovery \in Nat
  /\ \E most \in Nat : /\ Recovery = Attempts + most + JoinTime
                       /\ most >= RetryInterval /\ most >= HomeScanInterval + ScanTime
BY ClockConstants DEF Attempts, Recovery, Longest

LEMMA TypesStay ==
  ASSUME LinkInv, millis' \in Millis, passed' \in BOOLEAN, profiles' \subseteq Profiles,
         onboarded' \in BOOLEAN, wifi' \in Wifi, radio' \in Radio, around' \in Surroundings,
         offlineFor' \in 0..Attempts, calmFor' \in 0..Recovery
  PROVE  NetworkTypes'
BY DEF NetworkTypes, NetworkTypeOK

(* A pass changes neither the clock nor what is around.                    *)
LEMMA PassFrame ==
  ASSUME LinkInv, Pass
  PROVE  /\ millis' = millis /\ passed' /\ profiles' = profiles
         /\ onboarded' = onboarded /\ around' = around /\ offlineFor' = offlineFor
         /\ calmFor' = calmFor \/ calmFor' = 0
         /\ wifi' \in Wifi /\ radio' \in Radio => NetworkTypes'
<1>1. /\ millis' = millis /\ passed' /\ passed' \in BOOLEAN /\ profiles' = profiles
      /\ onboarded' = onboarded /\ around' = around /\ offlineFor' = offlineFor
      /\ calmFor' = calmFor \/ calmFor' = 0
  BY PassDoes DEF Pass, PassTries, PassSchedules, PassRests, PassServes
<1>2. calmFor \in 0..Recovery /\ Recovery \in Nat /\ offlineFor \in 0..Attempts
  BY Bounds DEF LinkInv, NetworkTypes, NetworkTypeOK
<1>3. calmFor' \in 0..Recovery
  BY <1>1, <1>2
<1> QED  BY <1>1, <1>2, <1>3, TypesStay, NetworkShape

LEMMA TriesLink ==
  ASSUME LinkInv, NEW p \in Profiles, Tries(p), Pass
  PROVE  LinkInv'
<1>1. NetworkTypes'
  BY PassFrame DEF Tries
<1>2. Tried' = 0
  BY NetworkShape, PassFrame, ElapsedStarts DEF Tries, Tried, Elapsed
<1>3. ~Online' /\ radio'.joining = p /\ p # "none"
  BY DEF Tries, Online, Profiles
<1> QED  BY <1>1, <1>2, <1>3, ClockConstants
            DEF Tries, LinkInv, AttemptInv, JoiningInv, OnlineInv, ScanInv, WaitInv

LEMMA SchedulesLink ==
  ASSUME LinkInv, Schedules, Pass
  PROVE  LinkInv'
<1>1. NetworkTypes'
  BY PassFrame DEF Schedules
<1>2. Elapsed(wifi.nextRetry)' = IF RetryInterval = 0 THEN 0 ELSE ClockWidth - RetryInterval
  BY NetworkShape, PassFrame, RetryIsAhead DEF Schedules, Elapsed
<1>3. WaitInv'
  BY <1>2, ClockConstants DEF Schedules, WaitInv, RetryDue
<1>4. ~Online'
  BY DEF Schedules, Online
<1> QED  BY <1>1, <1>3, <1>4
            DEF Schedules, LinkInv, AttemptInv, JoiningInv, OnlineInv, ScanInv

LEMMA ServesLink ==
  ASSUME LinkInv, PassServes, Pass
  PROVE  LinkInv'
<1>1. NetworkTypes'
  BY PassFrame DEF PassServes, Serves
<1>2. Online /\ Online' /\ radio.joining = "none" /\ offlineFor' = 0
  BY PassFrame DEF PassServes, Serves, Online, LinkInv, JoiningInv, OnlineInv
<1>3. (wifi'.scanRunning <=> radio'.scan # "none") /\ (radio'.scan = "running" => radio'.age <= ScanTime)
  BY ClockConstants DEF PassServes, LinkInv, ScanInv, Looks
<1>4. radio'.scan # "none" => radio.joined = "mobile"
  BY <1>2 DEF PassServes, Looks, Scans, LinkInv, OnlineInv
<1> QED  BY <1>1, <1>2, <1>3, <1>4
            DEF PassServes, Serves, LinkInv, AttemptInv, JoiningInv, OnlineInv, ScanInv, WaitInv

LEMMA RestsLink ==
  ASSUME LinkInv, PassRests, Pass
  PROVE  LinkInv'
<1>1. NetworkTypes'
  BY NetworkShape, PassFrame DEF PassRests
<1>2. /\ Tried' = Tried /\ Elapsed(wifi.nextRetry)' = Elapsed(wifi.nextRetry)
      /\ wifi' = wifi /\ radio' = radio
  BY PassFrame DEF PassRests, Tried, Elapsed
<1>3. ~Online /\ ~Online'
  BY <1>2 DEF PassRests, Online
<1>4. AttemptInv'
  BY <1>2, <1>3, PassFrame DEF PassRests, LinkInv, AttemptInv, Waiting
<1>5. WaitInv'
  <2>1. CASE wifi.attempting
    BY <1>2, <2>1 DEF WaitInv
  <2>2. CASE Waiting /\ ~Reached(wifi.nextRetry)
    <3>1. Elapsed(wifi.nextRetry) > 1
      BY <2>2, NetworkShape, ClockConstants DEF Reached
    <3> QED  BY <1>2, <2>2, <3>1, NetworkShape DEF LinkInv, WaitInv, RetryDue
  <2> QED  BY <2>1, <2>2 DEF PassRests
<1> QED  BY <1>1, <1>2, <1>3, <1>4, <1>5, PassFrame
            DEF LinkInv, JoiningInv, OnlineInv, ScanInv

LEMMA PassLink ==
  ASSUME LinkInv, Pass
  PROVE  LinkInv'
<1>1. Preferred \in Profiles /\ "home" \in Profiles /\ "mobile" \in Profiles
  BY DEF Preferred, Profiles
<1> QED  BY <1>1, PassDoes, TriesLink, SchedulesLink, ServesLink, RestsLink
            DEF PassTries, PassSchedules

(* Time.                                                                   *)
LEMMA TickDoes ==
  ASSUME LinkInv, MillisTick
  PROVE  /\ passed /\ ~passed' /\ millis' \in Millis /\ NetworkTypes'
         /\ UNCHANGED <<profiles, onboarded, around, wifi>>
         /\ radio' \in Radio /\ radio'.joined = radio.joined /\ radio'.joining = radio.joining
         /\ radio'.scan = radio.scan
         /\ IF radio.joining \in around \/ radio.scan = "running" THEN radio'.age = radio.age + 1
            ELSE radio'.age = radio.age
         /\ radio.joining \in around => radio.age < JoinTime
         /\ radio.scan = "running" => radio.age < ScanTime
         /\ offlineFor' = (IF Online THEN 0 ELSE IF offlineFor < Attempts THEN offlineFor + 1 ELSE Attempts)
         /\ calmFor' = IF calmFor < Recovery THEN calmFor + 1 ELSE Recovery
         /\ \A t \in Millis :
              Elapsed(t)' = IF Elapsed(t) = ClockWidth - 1 THEN 0 ELSE Elapsed(t) + 1
<1>1. radio \in Radio /\ radio.age \in Nat /\ millis \in Millis
  BY NetworkShape DEF Radio
<1>2. /\ radio' \in Radio /\ radio'.joined = radio.joined /\ radio'.joining = radio.joining
      /\ radio'.scan = radio.scan
      /\ IF radio.joining \in around \/ radio.scan = "running" THEN radio'.age = radio.age + 1
         ELSE radio'.age = radio.age
  BY <1>1 DEF MillisTick, Radio
<1>3. millis' \in Millis /\ \A t \in Millis :
        Elapsed(t)' = IF Elapsed(t) = ClockWidth - 1 THEN 0 ELSE Elapsed(t) + 1
  BY <1>1, ElapsedRuns, ClockConstants DEF MillisTick
<1>4. /\ offlineFor' = (IF Online THEN 0 ELSE IF offlineFor < Attempts THEN offlineFor + 1 ELSE Attempts)
      /\ calmFor' = IF calmFor < Recovery THEN calmFor + 1 ELSE Recovery
  BY DEF MillisTick, Older
<1>5. offlineFor' \in 0..Attempts /\ calmFor' \in 0..Recovery
  BY <1>4, NetworkShape, Bounds
<1>6. ~passed' /\ passed' \in BOOLEAN
  BY DEF MillisTick
<1>7. NetworkTypes'
  BY <1>2, <1>3, <1>5, <1>6, TypesStay, NetworkShape DEF MillisTick
<1> QED  BY <1>2, <1>3, <1>4, <1>6, <1>7 DEF MillisTick

LEMMA TickLink ==
  ASSUME LinkInv, MillisTick
  PROVE  LinkInv'
<1>1. NetworkTypes'
  BY TickDoes
<1>2. Online' = Online
  BY TickDoes DEF Online
<1>3. AttemptInv'
  <2>1. wifi.attempting => Tried < ConnectTimeout
    BY TickDoes DEF LinkInv, AttemptInv
  <2>2. wifi.attempting => Tried' = Tried + 1
    BY <2>1, TickDoes, NetworkShape, WifiFields, ClockConstants DEF Tried
  <2> QED  BY <2>1, <2>2, NetworkShape, ClockConstants, TickDoes DEF LinkInv, AttemptInv
<1>4. JoiningInv'
  <2>1. radio.joining # "none" => radio.age <= JoinTime /\ radio.scan = "none"
    BY DEF LinkInv, JoiningInv
  <2>2. radio.joining # "none" => radio'.age <= JoinTime
    BY <2>1, TickDoes, NetworkShape, ClockConstants DEF Radio
  <2> QED  BY <1>2, <2>2, TickDoes DEF LinkInv, JoiningInv
<1>5. OnlineInv'
  BY <1>2, TickDoes DEF LinkInv, OnlineInv
<1>6. ScanInv'
  BY TickDoes, NetworkShape, ClockConstants DEF LinkInv, ScanInv, Radio
<1>7. WaitInv'
  <2>1. Elapsed(wifi.nextRetry)' = IF Elapsed(wifi.nextRetry) = ClockWidth - 1 THEN 0
                                   ELSE Elapsed(wifi.nextRetry) + 1
    BY TickDoes, NetworkShape, WifiFields DEF Elapsed
  <2> QED  BY <2>1, TickDoes, NetworkShape, ClockConstants DEF LinkInv, WaitInv, RetryDue
<1> QED  BY <1>1, <1>3, <1>4, <1>5, <1>6, <1>7 DEF LinkInv

(* The radio and the surroundings.                                         *)
LEMMA TimesStay ==
  ASSUME UNCHANGED <<millis, wifi>>
  PROVE  /\ Tried' = Tried /\ Since' = Since
         /\ Elapsed(wifi.nextRetry)' = Elapsed(wifi.nextRetry)
BY DEF Tried, Since, Elapsed

LEMMA JoinsDoes ==
  ASSUME LinkInv, Joins
  PROVE  /\ LinkInv' /\ Trying(radio.joining) /\ radio.joining \in Profiles \cap around
         /\ radio'.joined = radio.joining /\ radio'.joining = "none" /\ radio'.scan = "none"
         /\ UNCHANGED <<millis, passed, profiles, onboarded, around, wifi, calmFor>>
         /\ offlineFor' = 0
<1>1. /\ UNCHANGED <<millis, passed, profiles, onboarded, around, wifi, calmFor>>
      /\ offlineFor' = 0 /\ radio.joining \in around
  BY DEF Joins
<1>2. radio.joining \in Profiles /\ Trying(radio.joining) /\ radio.scan = "none"
  BY <1>1, NetworkShape DEF LinkInv, JoiningInv, Trying, Radio, Profiles
<1>3. /\ radio' \in Radio /\ radio'.joined = radio.joining /\ radio'.joining = "none"
      /\ radio'.scan = radio.scan
  BY NetworkShape DEF Joins, Radio
<1>4. NetworkTypes'
  <2>1. calmFor \in 0..Recovery /\ offlineFor' \in 0..Attempts
    BY <1>1, Bounds DEF LinkInv, NetworkTypes, NetworkTypeOK
  <2> QED  BY <1>1, <1>3, <2>1, TypesStay, NetworkShape
<1>5. AttemptInv' /\ WaitInv'
  BY <1>1, TimesStay DEF LinkInv, AttemptInv, WaitInv, RetryDue
<1>6. JoiningInv' /\ ScanInv'
  BY <1>1, <1>2, <1>3 DEF LinkInv, JoiningInv, ScanInv
<1>7. OnlineInv'
  BY <1>1, <1>2, <1>3 DEF LinkInv, AttemptInv, OnlineInv, Trying
<1> QED  BY <1>1, <1>2, <1>3, <1>4, <1>5, <1>6, <1>7 DEF LinkInv

LEMMA CompletesDoes ==
  ASSUME LinkInv, ScanCompletes
  PROVE  /\ LinkInv' /\ radio.scan = "running"
         /\ radio'.scan = (IF "visible" \in around THEN "seen" ELSE "unseen")
         /\ radio'.joined = radio.joined /\ radio'.joining = radio.joining
         /\ radio.joining = "none"
         /\ UNCHANGED <<millis, passed, profiles, onboarded, around, wifi, calmFor, offlineFor>>
<1>1. /\ UNCHANGED <<millis, passed, profiles, onboarded, around, wifi, calmFor, offlineFor>>
      /\ radio.scan = "running"
  BY DEF ScanCompletes
<1>2. /\ radio' \in Radio /\ radio'.joined = radio.joined /\ radio'.joining = radio.joining
      /\ radio'.scan = (IF "visible" \in around THEN "seen" ELSE "unseen")
  BY NetworkShape DEF ScanCompletes, Radio
<1>3. radio.joining = "none"
  BY <1>1 DEF LinkInv, JoiningInv
<1>4. NetworkTypes'
  <2>1. calmFor \in 0..Recovery /\ offlineFor \in 0..Attempts
    BY DEF LinkInv, NetworkTypes, NetworkTypeOK
  <2> QED  BY <1>1, <1>2, <2>1, TypesStay, NetworkShape
<1>5. AttemptInv' /\ WaitInv'
  BY <1>1, TimesStay DEF LinkInv, AttemptInv, WaitInv, RetryDue
<1>6. JoiningInv' /\ ScanInv' /\ OnlineInv'
  BY <1>1, <1>2, <1>3 DEF LinkInv, JoiningInv, ScanInv, OnlineInv, Online
<1> QED  BY <1>1, <1>2, <1>3, <1>4, <1>5, <1>6 DEF LinkInv

(* Changes from outside leave the manager as it is, but for the access     *)
(* point, and can only end a connection or an attempt to make one.         *)
LEMMA DisturbedLink ==
  ASSUME LinkInv, NetworkTypes', calmFor' = 0,
         UNCHANGED <<millis, passed, offlineFor>>,
         wifi' = wifi \/ \E starts \in BOOLEAN : wifi' = WithAp(wifi, starts),
         radio'.joined \in {radio.joined, "none"}, radio'.joining \in {radio.joining, "none"},
         radio'.scan = radio.scan, radio'.age = radio.age
  PROVE  LinkInv' /\ Tried' = Tried
<1>1. wifi' = wifi \/ \E starts \in BOOLEAN : wifi' = [wifi EXCEPT !.ap = starts, !.apFailed = ~starts]
  BY DEF WithAp
<1>2. /\ wifi'.attempting <=> wifi.attempting
      /\ wifi'.wasOnline <=> wifi.wasOnline
      /\ wifi'.scanRunning <=> wifi.scanRunning
      /\ wifi'.target = wifi.target /\ wifi'.active = wifi.active
      /\ wifi'.attemptStarted = wifi.attemptStarted /\ wifi'.nextRetry = wifi.nextRetry
  BY <1>1, NetworkShape DEF Wifi
<1>3. wifi.ap \/ wifi.apFailed => wifi'.ap \/ wifi'.apFailed
  <2>1. ASSUME NEW starts \in BOOLEAN, wifi' = [wifi EXCEPT !.ap = starts, !.apFailed = ~starts]
        PROVE  wifi'.ap \/ wifi'.apFailed
    <3>1. wifi'.ap = starts /\ wifi'.apFailed = ~starts
      BY <2>1, NetworkShape DEF Wifi
    <3> QED  BY <3>1
  <2> QED  BY <1>1, <2>1
<1>4. Tried' = Tried /\ Elapsed(wifi.nextRetry)' = Elapsed(wifi.nextRetry)
  BY <1>2 DEF Tried, Elapsed
<1>5. AttemptInv' /\ WaitInv'
  BY <1>2, <1>3, <1>4 DEF LinkInv, AttemptInv, WaitInv, RetryDue
<1>6. JoiningInv' /\ ScanInv' /\ OnlineInv'
  BY <1>2 DEF LinkInv, JoiningInv, ScanInv, OnlineInv, Online
<1> QED  BY <1>4, <1>5, <1>6 DEF LinkInv

Outside ==
  \/ LinkLost \/ OnboardingRestarts
  \/ \E a \in Surroundings : SurroundingsChange(a)
  \/ \E ps \in Configurations : ProfilesChange(ps)

LEMMA OutsideLink ==
  ASSUME LinkInv, Outside
  PROVE  LinkInv' /\ calmFor' = 0
<1>0. radio \in Radio /\ wifi \in Wifi /\ offlineFor \in 0..Attempts /\ 0 \in 0..Recovery
  BY NetworkShape, Bounds DEF LinkInv, NetworkTypes, NetworkTypeOK
<1>1. CASE LinkLost
  <2>1. radio' \in Radio /\ radio'.joined = "none" /\ radio'.joining = radio.joining
        /\ radio'.scan = radio.scan /\ radio'.age = radio.age
    BY <1>0, <1>1 DEF LinkLost, Radio
  <2>2. NetworkTypes'
    BY <1>0, <1>1, <2>1, TypesStay, NetworkShape DEF LinkLost
  <2> QED  BY <1>1, <2>1, <2>2, DisturbedLink DEF LinkLost
<1>2. CASE OnboardingRestarts
  <2>1. PICK starts \in BOOLEAN : wifi' = WithAp(wifi, starts)
    BY <1>2 DEF OnboardingRestarts
  <2>2. wifi' \in Wifi
    BY <1>0, <2>1 DEF WithAp, Wifi
  <2>3. /\ radio' \in Radio /\ radio'.joined \in {radio.joined, "none"}
        /\ radio'.joining \in {radio.joining, "none"}
        /\ radio'.scan = radio.scan /\ radio'.age = radio.age
    BY <1>0, <1>2 DEF OnboardingRestarts, WithStation, Radio
  <2>4. /\ UNCHANGED <<millis, passed, profiles, around, offlineFor>>
        /\ onboarded' \in BOOLEAN /\ calmFor' = 0
    BY <1>2 DEF OnboardingRestarts
  <2>5. NetworkTypes'
    BY <1>0, <2>2, <2>3, <2>4, TypesStay, NetworkShape
  <2> QED  BY <2>1, <2>3, <2>4, <2>5, DisturbedLink
<1>3. ASSUME NEW a \in Surroundings, SurroundingsChange(a)
      PROVE  LinkInv' /\ calmFor' = 0
  <2>1. /\ radio' \in Radio /\ radio'.joined \in {radio.joined, "none"}
        /\ radio'.joining = radio.joining /\ radio'.scan = radio.scan /\ radio'.age = radio.age
    BY <1>0, <1>3 DEF SurroundingsChange, Radio
  <2>2. NetworkTypes'
    BY <1>0, <1>3, <2>1, TypesStay, NetworkShape DEF SurroundingsChange
  <2> QED  BY <1>3, <2>1, <2>2, DisturbedLink DEF SurroundingsChange
<1>4. ASSUME NEW ps \in Configurations, ProfilesChange(ps)
      PROVE  LinkInv' /\ calmFor' = 0
  <2>1. ps \subseteq Profiles
    BY NetworkAssumption DEF NetworkAssumption, Profiles
  <2>2. NetworkTypes'
    BY <1>0, <1>4, <2>1, TypesStay, NetworkShape DEF ProfilesChange
  <2> QED  BY <1>4, <2>2, DisturbedLink DEF ProfilesChange
<1> QED  BY <1>1, <1>2, <1>3, <1>4 DEF Outside

(* A boot.                                                                 *)
LEMMA BootFields ==
  ASSUME profiles \subseteq Profiles, NEW starts \in BOOLEAN, NEW w, w = Booted(starts)
  PROVE  /\ w \in Wifi /\ (w.attempting <=> profiles # {})
         /\ w.target = (IF profiles = {} THEN "none" ELSE Preferred)
         /\ profiles # {} => w.target \in profiles
         /\ w.attemptStarted = 0 /\ w.nextRetry = 0 /\ ~w.scanRunning /\ ~w.wasOnline
         /\ profiles = {} \/ ~onboarded => w.ap \/ w.apFailed
<1>1. PICK ap \in BOOLEAN : ap <=> profiles = {} \/ ~onboarded
  OBVIOUS
<1>2. PICK first : first = IF profiles = {} THEN "none" ELSE Preferred
  OBVIOUS
<1>3. first \in Profiles \cup {"none"} /\ (profiles # {} => first \in profiles)
      /\ (first # "none" <=> profiles # {})
  BY <1>2 DEF Preferred, Profiles
<1>4. PICK up \in BOOLEAN : up <=> ap /\ starts
  OBVIOUS
<1>5. PICK failed \in BOOLEAN : failed <=> ap /\ ~starts
  OBVIOUS
<1>6. PICK tries \in BOOLEAN : tries <=> profiles # {}
  OBVIOUS
<1>7. /\ w.target = first /\ w.active = "none" /\ (w.attempting <=> first # "none")
      /\ w.attemptStarted = 0 /\ w.connectedSince = 0 /\ w.nextRetry = 0 /\ w.lastHomeScan = 0
      /\ w.scanRunning = FALSE /\ w.wasOnline = FALSE
      /\ (w.ap <=> (profiles = {} \/ ~onboarded) /\ starts)
      /\ (w.apFailed <=> (profiles = {} \/ ~onboarded) /\ ~starts)
  BY <1>2 DEF Booted, Preferred, Profiles
<1>8. w \in Wifi
  <2>1. w = [target |-> first, active |-> "none", attempting |-> tries,
             attemptStarted |-> 0, connectedSince |-> 0, nextRetry |-> 0, lastHomeScan |-> 0,
             scanRunning |-> FALSE, ap |-> up, apFailed |-> failed, wasOnline |-> FALSE]
    <3>1. first = IF "home" \in profiles THEN "home"
                  ELSE IF "mobile" \in profiles THEN "mobile" ELSE "none"
      BY <1>2 DEF Preferred, Profiles
    <3>2. /\ tries = (first # "none") /\ up = ((profiles = {} \/ ~onboarded) /\ starts)
          /\ failed = ((profiles = {} \/ ~onboarded) /\ ~starts)
      BY <1>1, <1>3, <1>4, <1>5, <1>6
    <3> QED  BY <3>1, <3>2, Zenon DEF Booted
  <2> QED  BY <1>3, <2>1, ClockConstants DEF Wifi
<1> QED  BY <1>2, <1>3, <1>7, <1>8

LEMMA QuietJoins ==
  ASSUME NEW p \in {"home", "mobile", "none"}
  PROVE  [Quiet EXCEPT !.joining = p] \in Radio
BY DEF Quiet, Radio, Profiles

LEMMA BootRadio ==
  ASSUME profiles \subseteq Profiles, NEW r, r = [Quiet EXCEPT !.joining = Booted(TRUE).target]
  PROVE  /\ r \in Radio /\ r.joined = "none" /\ r.scan = "none" /\ r.age = 0
         /\ r.joining = IF profiles = {} THEN "none" ELSE Preferred
<1>1. PICK w : w = Booted(TRUE)
  OBVIOUS
<1>2. /\ w.target = (IF profiles = {} THEN "none" ELSE Preferred)
      /\ profiles # {} => w.target \in profiles
  BY <1>1, BootFields
<1>3. PICK first : first = w.target
  OBVIOUS
<1>4. first = (IF profiles = {} THEN "none" ELSE Preferred)
  BY <1>2, <1>3
<1>5. r = [Quiet EXCEPT !.joining = first]
  BY <1>1, <1>3
<1>6. /\ r.joined = "none" /\ r.scan = "none" /\ r.age = 0 /\ r.joining = first
  BY <1>5 DEF Quiet
<1>7. first \in {"home", "mobile", "none"}
  BY <1>2, <1>3 DEF Profiles
<1>8. r \in Radio
  BY <1>5, <1>7, QuietJoins
<1> QED  BY <1>4, <1>6, <1>8

LEMMA BootLink ==
  /\ NetworkInit => LinkInv
  /\ LinkInv /\ Reboots => LinkInv'
<1>1. ASSUME NetworkInit PROVE LinkInv
  <2>1. profiles \subseteq Profiles /\ around \in Surroundings
    BY <1>1, NetworkAssumption DEF NetworkInit, NetworkAssumption, Profiles
  <2>2. PICK starts \in BOOLEAN : wifi = Booted(starts)
    BY <1>1 DEF NetworkInit
  <2>3. /\ wifi \in Wifi /\ radio \in Radio /\ radio.joined = "none" /\ radio.age = 0
        /\ radio.scan = "none" /\ radio.joining = (IF profiles = {} THEN "none" ELSE Preferred)
    BY <1>1, <2>1, <2>2, BootFields, BootRadio DEF NetworkInit
  <2>4. NetworkTypes
    BY <1>1, <2>1, <2>3, ClockConstants, Bounds DEF NetworkInit, NetworkTypes, NetworkTypeOK
  <2>5. Elapsed(0) = 0
    BY <1>1, ElapsedStarts, ClockConstants DEF NetworkInit
  <2>6. Tried = 0 /\ Elapsed(wifi.nextRetry) = 0
    BY <1>1, <2>1, <2>2, <2>5, BootFields DEF Tried
  <2>7. AttemptInv /\ WaitInv
    BY <2>1, <2>2, <2>6, BootFields, ClockConstants DEF AttemptInv, WaitInv, RetryDue
  <2>8. JoiningInv /\ ScanInv /\ OnlineInv
    <3>1. ~wifi.scanRunning /\ (radio.joining # "none" => wifi.attempting /\ wifi.target = radio.joining)
      BY <2>1, <2>2, <2>3, BootFields
    <3> QED  BY <2>3, <3>1, ClockConstants DEF JoiningInv, ScanInv, OnlineInv, Online
  <2> QED  BY <2>4, <2>7, <2>8 DEF LinkInv
<1>2. ASSUME LinkInv, Reboots PROVE LinkInv'
  <2>1. /\ profiles \subseteq Profiles /\ millis' = 0 /\ passed' /\ passed' \in BOOLEAN
        /\ offlineFor' = 0 /\ calmFor' = 0 /\ UNCHANGED <<profiles, onboarded, around>>
    BY <1>2, NetworkShape DEF Reboots
  <2>2. PICK starts \in BOOLEAN : wifi' = Booted(starts)
    BY <1>2 DEF Reboots
  <2>3. PICK w : w = wifi'
    OBVIOUS
  <2>4. PICK r : r = radio'
    OBVIOUS
  <2>5. /\ w \in Wifi /\ (w.attempting <=> profiles # {})
        /\ w.target = (IF profiles = {} THEN "none" ELSE Preferred)
        /\ profiles # {} => w.target \in profiles
        /\ w.attemptStarted = 0 /\ w.nextRetry = 0 /\ ~w.scanRunning /\ ~w.wasOnline
        /\ profiles = {} \/ ~onboarded => w.ap \/ w.apFailed
    BY <2>1, <2>2, <2>3, BootFields
  <2>6. /\ r \in Radio /\ r.joined = "none" /\ r.scan = "none" /\ r.age = 0
        /\ r.joining = IF profiles = {} THEN "none" ELSE Preferred
    BY <1>2, <2>1, <2>4, BootRadio DEF Reboots
  <2>7. NetworkTypes'
    <3>1. 0 \in Millis /\ 0 \in 0..Attempts /\ 0 \in 0..Recovery
      BY ClockConstants, Bounds
    <3> QED  BY <1>2, <2>1, <2>3, <2>4, <2>5, <2>6, <3>1, TypesStay, NetworkShape
  <2>8. (0 + ClockWidth - 0) % ClockWidth = 0
    BY ClockConstants, Wrapped
  <2>9. Tried' = 0 /\ Elapsed(wifi.nextRetry)' = 0
    BY <2>1, <2>3, <2>5, <2>8 DEF Tried, Elapsed
  <2>10. AttemptInv' /\ WaitInv'
    BY <2>1, <2>3, <2>5, <2>9, ClockConstants DEF AttemptInv, WaitInv, RetryDue
  <2>11. JoiningInv' /\ ScanInv' /\ OnlineInv'
    BY <2>1, <2>3, <2>4, <2>5, <2>6, ClockConstants DEF JoiningInv, ScanInv, OnlineInv, Online
  <2> QED  BY <2>7, <2>10, <2>11 DEF LinkInv
<1> QED  BY <1>1, <1>2

LEMMA LinkKept ==
  ASSUME LinkInv, [NetworkNext]_networkVars
  PROVE  LinkInv'
<1>1. CASE UNCHANGED networkVars
  BY <1>1, TimesStay DEF networkVars, LinkInv, NetworkTypes, NetworkTypeOK, AttemptInv, JoiningInv,
     OnlineInv, ScanInv, WaitInv, RetryDue, Online
<1>2. CASE OnboardingCompletes
  <2>1. /\ UNCHANGED <<millis, passed, profiles, around, wifi, radio, offlineFor, calmFor>>
        /\ onboarded' \in BOOLEAN
    BY <1>2 DEF OnboardingCompletes
  <2>2. NetworkTypes'
    <3>1. calmFor \in 0..Recovery /\ offlineFor \in 0..Attempts
      BY DEF LinkInv, NetworkTypes, NetworkTypeOK
    <3> QED  BY <2>1, <3>1, TypesStay, NetworkShape
  <2> QED  BY <2>1, <2>2, TimesStay
              DEF LinkInv, AttemptInv, JoiningInv, OnlineInv, ScanInv, WaitInv, RetryDue, Online
<1> QED  BY <1>1, <1>2, PassLink, TickLink, JoinsDoes, CompletesDoes, OutsideLink, BootLink
            DEF NetworkNext, Outside

THEOREM NetworkTyped == NetworkSpec => []NetworkTypeOK
<1>1. NetworkInit => LinkInv
  BY BootLink
<1>2. LinkInv /\ [NetworkNext]_networkVars => LinkInv'
  BY LinkKept
<1>3. LinkInv => NetworkTypeOK
  BY DEF LinkInv, NetworkTypes
<1> QED  BY <1>1, <1>2, <1>3, PTL DEF NetworkSpec

-----------------------------------------------------------------------------
(* The access point.                                                       *)

LEMMA TriesTimes ==
  ASSUME LinkInv, NEW p \in Profiles, Tries(p), Pass
  PROVE  Tried' = 0
BY NetworkShape, PassFrame, ElapsedStarts DEF Tries, Tried, Elapsed

LEMMA PassReach ==
  ASSUME LinkInv, ReachInv, Pass
  PROVE  ReachInv'
<1>0. offlineFor' = offlineFor /\ onboarded' = onboarded /\ passed' /\ offlineFor \in Nat /\ Tried \in Nat
  BY PassFrame, NetworkShape
<1>1. ASSUME NEW p \in Profiles, Tries(p),
             offlineFor <= 1 + (IF p = "home" THEN 0 ELSE ConnectTimeout) \/ wifi.ap \/ wifi.apFailed,
             Online => offlineFor = 0
      PROVE  ReachInv'
  <2>1. Tried' = 0 /\ ~wifi'.wasOnline /\ wifi'.target = p /\ ApKept
    BY <1>1, TriesTimes DEF Tries
  <2> QED  BY <1>0, <1>1, <2>1, ClockConstants DEF ReachInv, ApKept
<1>2. Online => offlineFor = 0
  BY DEF LinkInv, OnlineInv
<1>3. CASE PassTries
  <2>1. CASE RetriesNow /\ Preferred \in profiles /\ Tries(Preferred)
    <3>1. Preferred \in Profiles
      BY DEF Preferred, Profiles
    <3>2. wifi.ap \/ wifi.apFailed \/ offlineFor <= 1
      <4>1. CASE wifi.wasOnline
        <5>1. (IF passed THEN 0 ELSE 1) \in {0, 1}
          OBVIOUS
        <5>2. \/ wifi.ap \/ wifi.apFailed
              \/ offlineFor <= (IF passed THEN 0 ELSE 1)
          BY <4>1 DEF ReachInv
        <5> QED  BY <1>0, <5>1, <5>2
      <4>2. CASE ~wifi.wasOnline
        BY <2>1, <4>2 DEF RetriesNow, Dropped, Waiting, LinkInv, WaitInv
      <4> QED  BY <4>1, <4>2
    <3> QED  BY <1>0, <1>1, <1>2, <2>1, <3>1, <3>2, ClockConstants
  <2>2. CASE TimesOut("home") /\ "mobile" \in profiles /\ Tries("mobile")
    <3>1. Tried <= ConnectTimeout /\ wifi.attempting /\ wifi.target = "home"
      BY <2>2 DEF TimesOut, Trying, LinkInv, AttemptInv
    <3>2. wifi.ap \/ wifi.apFailed \/ offlineFor <= 1 + ConnectTimeout
      BY <1>0, <3>1, ClockConstants DEF ReachInv
    <3> QED  BY <1>1, <1>2, <2>2, <3>2, "mobile" \in Profiles DEF Profiles
  <2>3. CASE Scans /\ radio.scan = "seen" /\ Tries("home")
    <3>1. offlineFor = 0
      BY <1>2, <2>3 DEF Scans, Online
    <3> QED  BY <1>1, <1>2, <2>3, <3>1 DEF Profiles
  <2> QED  BY <1>3, <2>1, <2>2, <2>3 DEF PassTries
<1>4. CASE PassSchedules
  BY <1>4 DEF PassSchedules, Schedules, ReachInv
<1>5. CASE PassRests
  <2>1. wifi' = wifi /\ Tried' = Tried /\ ~wifi.wasOnline
    BY <1>5, PassFrame DEF PassRests, Tried, Elapsed, LinkInv, AttemptInv, Waiting
  <2> QED  BY <1>0, <2>1 DEF ReachInv
<1>6. CASE PassServes
  BY <1>0, <1>2, <1>6 DEF PassServes, Serves, ApKept, ReachInv
<1> QED  BY <1>3, <1>4, <1>5, <1>6, PassDoes

LEMMA TickReach ==
  ASSUME LinkInv, ReachInv, MillisTick
  PROVE  ReachInv'
<1>1. /\ wifi' = wifi /\ onboarded' = onboarded /\ passed /\ ~passed'
      /\ offlineFor' <= offlineFor + 1
      /\ Online => offlineFor' = 0
  BY TickDoes, NetworkShape, Bounds
<1>2. wifi.attempting => Tried' = Tried + 1
  <2>1. wifi.attempting => Tried < ConnectTimeout
    BY <1>1 DEF LinkInv, AttemptInv
  <2> QED  BY <2>1, TickDoes, NetworkShape, WifiFields, ClockConstants DEF Tried
<1>3. offlineFor \in Nat /\ offlineFor' \in Nat /\ Tried \in Nat
  BY TickLink, NetworkShape, TickDoes, Bounds
<1> QED  BY <1>1, <1>2, <1>3, ClockConstants DEF ReachInv

LEMMA ReachKept ==
  ASSUME LinkInv, ReachInv, [NetworkNext]_networkVars
  PROVE  ReachInv'
<1>1. CASE UNCHANGED networkVars \/ OnboardingCompletes \/ ScanCompletes \/ LinkLost
  <2>1. UNCHANGED <<millis, passed, wifi, offlineFor>> /\ (onboarded => onboarded')
    BY <1>1 DEF networkVars, OnboardingCompletes, ScanCompletes, LinkLost
  <2> QED  BY <2>1, TimesStay DEF ReachInv
<1>2. CASE \/ \E a \in Surroundings : SurroundingsChange(a)
           \/ \E ps \in Configurations : ProfilesChange(ps)
  <2>1. UNCHANGED <<millis, passed, onboarded, wifi, offlineFor>>
    BY <1>2 DEF SurroundingsChange, ProfilesChange
  <2> QED  BY <2>1, TimesStay DEF ReachInv
<1>3. CASE Joins
  <2>1. UNCHANGED <<millis, passed, onboarded, wifi>> /\ offlineFor' = 0
    BY <1>3 DEF Joins
  <2> QED  BY <2>1, TimesStay, NetworkShape, ClockConstants DEF ReachInv
<1>4. CASE OnboardingRestarts
  <2>1. PICK starts \in BOOLEAN : wifi' = WithAp(wifi, starts)
    BY <1>4 DEF OnboardingRestarts
  <2>2. wifi'.ap \/ wifi'.apFailed
    <3>1. CASE wifi.ap
      BY <2>1, <3>1 DEF WithAp
    <3>2. CASE ~wifi.ap
      <4>1. wifi' = [wifi EXCEPT !.ap = starts, !.apFailed = ~starts]
        BY <2>1, <3>2 DEF WithAp
      <4>2. wifi'.ap = starts /\ wifi'.apFailed = ~starts
        BY <4>1, NetworkShape DEF Wifi
      <4> QED  BY <4>2
    <3> QED  BY <3>1, <3>2
  <2> QED  BY <2>2 DEF ReachInv
<1>5. CASE Reboots
  <2>1. PICK starts \in BOOLEAN : wifi' = Booted(starts)
    BY <1>5 DEF Reboots
  <2>2. PICK w : w = wifi'
    OBVIOUS
  <2>3. /\ w.attemptStarted = 0 /\ ~w.wasOnline
        /\ profiles = {} \/ ~onboarded => w.ap \/ w.apFailed
    BY <2>1, <2>2, BootFields, NetworkShape
  <2>4. /\ millis' = 0 /\ offlineFor' = 0 /\ onboarded' = onboarded
    BY <1>5 DEF Reboots
  <2>5. Tried' = 0
    <3>1. (0 + ClockWidth - 0) % ClockWidth = 0
      BY ClockConstants, Wrapped
    <3> QED  BY <2>2, <2>3, <2>4, <3>1 DEF Tried, Elapsed
  <2> QED  BY <2>2, <2>3, <2>4, <2>5, ClockConstants DEF ReachInv
<1> QED  BY <1>1, <1>2, <1>3, <1>4, <1>5, PassReach, TickReach DEF NetworkNext

LEMMA ReachStart ==
  ASSUME NetworkInit
  PROVE  ReachInv
<1>1. profiles \subseteq Profiles
  BY NetworkAssumption DEF NetworkInit, NetworkAssumption, Profiles
<1>2. PICK starts \in BOOLEAN : wifi = Booted(starts)
  BY DEF NetworkInit
<1>3. ~wifi.wasOnline /\ (profiles = {} \/ ~onboarded => wifi.ap \/ wifi.apFailed)
  BY <1>1, <1>2, BootFields
<1>4. Tried \in Nat /\ offlineFor = 0
  BY BootLink, NetworkShape DEF NetworkInit
<1> QED  BY <1>3, <1>4, ClockConstants DEF ReachInv

(* Two attempts are over before the ghost is at its limit, and nothing     *)
(* else is waited for without an access point.                             *)
THEOREM SetupStaysReachable == NetworkSpec => []SetupIsReachable
<1>1. NetworkInit => LinkInv /\ ReachInv
  BY BootLink, ReachStart
<1>2. LinkInv /\ ReachInv /\ [NetworkNext]_networkVars => LinkInv' /\ ReachInv'
  BY LinkKept, ReachKept
<1>3. LinkInv /\ ReachInv => SetupIsReachable
  <2> SUFFICES ASSUME LinkInv, ReachInv, offlineFor = Attempts \/ ~onboarded, ~wifi.apFailed, ~wifi.ap
               PROVE  FALSE
    BY NetworkShape, WifiFields DEF SetupIsReachable
  <2>1. offlineFor = 2 * ConnectTimeout + 2
    BY Bounds DEF ReachInv
  <2>2. CASE wifi.wasOnline
    BY <2>1, <2>2, ClockConstants DEF ReachInv
  <2>3. CASE wifi.attempting
    BY <2>1, <2>3, ClockConstants, NetworkShape DEF LinkInv, AttemptInv, ReachInv
  <2>4. CASE ~wifi.wasOnline /\ ~wifi.attempting
    BY <2>4 DEF LinkInv, WaitInv
  <2> QED  BY <2>2, <2>3, <2>4
<1> QED  BY <1>1, <1>2, <1>3, PTL DEF NetworkSpec

-----------------------------------------------------------------------------
(* Connecting in time.  Of every state on the way there is a bound on what *)
(* is left to wait, so that the time since the last change and the time    *)
(* left are together less than Recovery.                                   *)

Pending == IF passed THEN 1 ELSE 0
Joinable(p) ==
  /\ radio.joining = p /\ p \in around
  /\ radio.age >= Tried /\ calmFor + JoinTime < Recovery + radio.age

(* To the home network: by way of the mobile one, and a scan, at worst.    *)
HomeGood == "home" \in profiles /\ {"home", "visible"} \subseteq around

UntilScan ==
  IF Since < HomeScanInterval THEN HomeScanInterval - Since
  ELSE IF passed THEN HomeScanInterval + 1 ELSE 0

HomeLeft ==
  /\ Trying("home") => calmFor <= Tried \/ Joinable("home")
  /\ Trying("mobile") => calmFor <= ConnectTimeout + Tried
  /\ Waiting => calmFor + UntilRetry + JoinTime < Recovery
  /\ Dropped => calmFor + Pending + JoinTime < Recovery
  /\ radio.joined = "mobile" =>
       /\ radio.scan = "none" => calmFor + UntilScan + ScanTime + 1 + JoinTime < Recovery
       /\ radio.scan = "running" => calmFor + ScanTime + 1 + JoinTime < Recovery + radio.age
       /\ radio.scan = "seen" => calmFor + Pending + JoinTime < Recovery
       /\ radio.scan = "unseen" =>
            calmFor + Pending + HomeScanInterval + 1 + ScanTime + 1 + JoinTime < Recovery

(* To any network, if home is not in sight or lets the station join.       *)
AnyGood == profiles \cap around # {} /\ ("home" \in profiles => "visible" \notin around)

ToJoin == JoinTime + (IF "home" \in profiles \ around THEN ConnectTimeout ELSE 0)

AfterHome ==
  IF "mobile" \in profiles \cap around THEN 0
  ELSE RetryInterval + 1 + (IF "mobile" \in profiles THEN ConnectTimeout ELSE 0)

AnyLeft ==
  /\ Trying("home") =>
       \/ Joinable("home")
       \/ calmFor + ConnectTimeout + JoinTime + AfterHome < Recovery + Tried
  /\ Trying("mobile") =>
       \/ Joinable("mobile")
       \/ calmFor + ConnectTimeout + RetryInterval + 1 + ToJoin < Recovery + Tried
  /\ Waiting => calmFor + UntilRetry + ToJoin < Recovery
  /\ Dropped => calmFor + Pending + ToJoin < Recovery
  /\ Online /\ radio.scan = "seen" /\ "home" \in profiles => calmFor + Pending + ToJoin < Recovery

CalmInv == calmFor > 0 => (HomeGood => HomeLeft) /\ (AnyGood => AnyLeft)

(* What is left is bounded, whatever the state.                            *)
LEMMA Waits ==
  ASSUME LinkInv
  PROVE  /\ Pending \in {0, 1}
         /\ UntilScan \in 0..(HomeScanInterval + Pending)
         /\ ToJoin \in {JoinTime, JoinTime + ConnectTimeout}
         /\ AfterHome \in 0..(RetryInterval + 1 + ConnectTimeout)
         /\ radio.age \in Nat /\ (wifi.attempting => Tried <= ConnectTimeout - Pending)
         /\ Waiting => UntilRetry \in 0..(RetryInterval + 1)
<1>1. Pending \in {0, 1} /\ (passed => Pending = 1) /\ (~passed => Pending = 0)
  BY DEF Pending
<1>2. UntilScan \in 0..(HomeScanInterval + Pending)
  BY <1>1, NetworkShape, ClockConstants DEF UntilScan
<1>3. ToJoin \in {JoinTime, JoinTime + ConnectTimeout}
  BY ClockConstants DEF ToJoin
<1>4. AfterHome \in 0..(RetryInterval + 1 + ConnectTimeout)
  BY ClockConstants DEF AfterHome
<1>5. wifi.attempting => Tried <= ConnectTimeout - Pending
  BY <1>1, NetworkShape, ClockConstants DEF LinkInv, AttemptInv
<1>6. Waiting => UntilRetry \in 0..(RetryInterval + 1)
  BY NetworkShape, ClockConstants DEF LinkInv, WaitInv, Waiting, UntilRetry, RetryDue
<1> QED  BY <1>1, <1>2, <1>3, <1>4, <1>5, <1>6, NetworkShape DEF Radio

LEMMA FreshLeft ==
  ASSUME LinkInv, calmFor = 0
  PROVE  HomeLeft /\ AnyLeft
<1>1. PICK most \in Nat : /\ Recovery = 2 * ConnectTimeout + 2 + most + JoinTime
                        /\ most >= RetryInterval /\ most >= HomeScanInterval + ScanTime
  BY Bounds
<1>2. HomeLeft
  BY <1>1, Waits, NetworkShape, ClockConstants DEF HomeLeft
<1>3. AnyLeft
  BY <1>1, Waits, NetworkShape, ClockConstants DEF AnyLeft
<1> QED  BY <1>2, <1>3

LEMMA LeftIsConnected ==
  ASSUME LinkInv, calmFor = Recovery
  PROVE  /\ HomeLeft => radio.joined = "home"
         /\ AnyLeft => Online
<1>1. Recovery \in Nat /\ Recovery > ConnectTimeout + ConnectTimeout
  BY Bounds, ClockConstants
<1>2. ASSUME NEW p \in Profiles, Trying(p) PROVE ~Joinable(p)
  BY <1>1, <1>2, Waits, ClockConstants, NetworkShape DEF Joinable, LinkInv, JoiningInv, Profiles
<1>3. ~Online => Waiting \/ Dropped \/ Trying("home") \/ Trying("mobile")
  BY DEF Waiting, Dropped, Trying, LinkInv, AttemptInv, Profiles
<1>4. Trying("home") \/ Trying("mobile") => Tried <= ConnectTimeout
  BY DEF Trying, LinkInv, AttemptInv
<1>5. ASSUME AnyLeft, ~Online PROVE FALSE
  BY <1>1, <1>2, <1>3, <1>4, <1>5, Waits, NetworkShape, ClockConstants DEF AnyLeft, Profiles
<1>6. ASSUME HomeLeft, radio.joined # "home" PROVE FALSE
  <2>1. CASE ~Online
    BY <1>1, <1>2, <1>3, <1>4, <1>6, <2>1, Waits, NetworkShape, ClockConstants DEF HomeLeft, Profiles
  <2>2. CASE Online
    <3>1. radio.joined = "mobile" /\ radio.scan \in {"none", "running", "seen", "unseen"}
      BY <1>6, <2>2, NetworkShape DEF Online, Radio, Profiles
    <3>2. radio.scan = "running" => radio.age <= ScanTime
      BY DEF LinkInv, ScanInv
    <3> QED  BY <1>1, <1>6, <3>1, <3>2, Waits, NetworkShape, ClockConstants DEF HomeLeft
  <2> QED  BY <2>1, <2>2
<1> QED  BY <1>5, <1>6

LEMMA CalmIsConnected ==
  ASSUME LinkInv, CalmInv
  PROVE  ConnectsInTime
<1> SUFFICES ASSUME calmFor = Recovery
             PROVE  /\ HomeGood => radio.joined = "home"
                    /\ AnyGood => Online
  BY DEF ConnectsInTime, HomeGood, AnyGood, Online
<1>1. calmFor > 0
  BY Bounds, ClockConstants
<1> QED  BY <1>1, LeftIsConnected DEF CalmInv

(* A pass of the loop.                                                     *)
LEMMA TriesModes ==
  ASSUME LinkInv, NEW p \in Profiles, Tries(p), Pass
  PROVE  /\ Trying(p)' /\ ~Waiting' /\ ~Dropped' /\ ~Online' /\ Tried' = 0
         /\ radio'.joining = p /\ radio'.age = 0 /\ radio'.joined = "none"
         /\ \A q \in Profiles : Trying(q)' => q = p
         /\ calmFor + JoinTime < Recovery /\ calmFor' = calmFor /\ p \in around => Joinable(p)'
<1>1. Tried' = 0 /\ around' = around
  BY TriesTimes, PassFrame
<1>2. /\ ~Online' /\ wifi'.attempting /\ ~wifi'.wasOnline /\ wifi'.target = p
      /\ radio'.joining = p /\ radio'.age = 0 /\ radio'.joined = "none"
  BY DEF Tries, Online
<1> QED  BY <1>1, <1>2, ClockConstants, NetworkShape, Bounds
            DEF Trying, Waiting, Dropped, Joinable

LEMMA SchedulesModes ==
  ASSUME LinkInv, Schedules, Pass
  PROVE  /\ Waiting' /\ ~Dropped' /\ ~Online' /\ ~wifi'.attempting /\ radio'.joined = "none"
         /\ UntilRetry' \in 0..(RetryInterval + 1)
<1>1. /\ Waiting' /\ ~Dropped' /\ ~Online' /\ ~wifi'.attempting /\ radio'.joined = "none"
  BY DEF Schedules, Waiting, Dropped, Online
<1>2. Elapsed(wifi.nextRetry)' = IF RetryInterval = 0 THEN 0 ELSE ClockWidth - RetryInterval
  BY NetworkShape, PassFrame, RetryIsAhead DEF Schedules, Elapsed
<1> QED  BY <1>1, <1>2, PassFrame, ClockConstants DEF UntilRetry, RetryDue

LEMMA RetryLeft ==
  ASSUME LinkInv, RetriesNow, Waiting \/ Dropped
  PROVE  /\ HomeLeft => calmFor + JoinTime < Recovery
         /\ AnyLeft => calmFor + ToJoin < Recovery
BY Waits, NetworkShape, ClockConstants, Bounds DEF HomeLeft, AnyLeft

(* An attempt that times out was not one that could have succeeded.        *)
LEMMA LateIsHopeless ==
  ASSUME LinkInv, NEW p \in Profiles, TimesOut(p)
  PROVE  Tried = ConnectTimeout /\ ~Joinable(p) /\ Trying(p)
<1>1. Trying(p) /\ Tried = ConnectTimeout
  BY NetworkShape, ClockConstants DEF TimesOut, Trying, LinkInv, AttemptInv
<1> QED  BY <1>1, Waits, ClockConstants, NetworkShape DEF Joinable, LinkInv, JoiningInv, Profiles

LEMMA PassHome ==
  ASSUME LinkInv, HomeGood, HomeLeft, Pass, calmFor' = calmFor, calmFor > 0
  PROVE  HomeLeft'
<1>0. PICK most \in Nat : /\ Recovery = 2 * ConnectTimeout + 2 + most + JoinTime
                        /\ most >= RetryInterval /\ most >= HomeScanInterval + ScanTime
  BY Bounds
<1>1. /\ "home" \in profiles /\ "home" \in around /\ Preferred = "home"
      /\ "home" \in Profiles /\ "mobile" \in Profiles
  BY DEF HomeGood, Preferred, Profiles
<1>2. RetriesNow => Waiting \/ Dropped
  BY DEF RetriesNow
<1>3. ASSUME Tries("home"), calmFor + JoinTime < Recovery
      PROVE  HomeLeft'
  BY <1>1, <1>3, TriesModes DEF HomeLeft, Profiles
<1>4. CASE PassTries
  <2>1. CASE RetriesNow /\ Preferred \in profiles /\ Tries(Preferred)
    BY <1>1, <1>2, <1>3, <2>1, RetryLeft
  <2>2. CASE TimesOut("home") /\ "mobile" \in profiles /\ Tries("mobile")
    <3>1. calmFor <= ConnectTimeout
      BY <1>1, <2>2, LateIsHopeless DEF HomeLeft
    <3> QED  BY <1>1, <2>2, <3>1, TriesModes, ClockConstants, NetworkShape DEF HomeLeft, Profiles
  <2>3. CASE Scans /\ radio.scan = "seen" /\ Tries("home")
    <3>1. calmFor + JoinTime < Recovery
      BY <2>3, Waits, NetworkShape, ClockConstants, Bounds DEF HomeLeft, Scans
    <3> QED  BY <1>3, <2>3, <3>1
  <2> QED  BY <1>4, <2>1, <2>2, <2>3 DEF PassTries
<1>5. CASE PassSchedules
  <2>1. calmFor <= 2 * ConnectTimeout
    <3>1. CASE TimesOut("home")
      BY <1>1, <3>1, LateIsHopeless, ClockConstants, NetworkShape DEF HomeLeft
    <3>2. CASE TimesOut("mobile")
      BY <1>1, <3>2, LateIsHopeless, ClockConstants, NetworkShape DEF HomeLeft
    <3> QED  BY <1>1, <1>5, <3>1, <3>2 DEF PassSchedules
  <2>2. /\ Waiting' /\ ~Dropped' /\ ~Online' /\ ~wifi'.attempting /\ radio'.joined = "none"
        /\ UntilRetry' \in 0..(RetryInterval + 1)
    BY <1>5, SchedulesModes DEF PassSchedules
  <2>3. ~Trying("home")' /\ ~Trying("mobile")'
    BY <2>2 DEF Trying
  <2>4. calmFor' + UntilRetry' + JoinTime < Recovery
    BY <1>0, <2>1, <2>2, ClockConstants, NetworkShape
  <2> QED  BY <2>2, <2>3, <2>4 DEF HomeLeft
<1>6. CASE PassRests
  <2>1. /\ ~Online /\ ~Online' /\ wifi' = wifi /\ radio' = radio /\ Tried' = Tried
        /\ Elapsed(wifi.nextRetry)' = Elapsed(wifi.nextRetry) /\ around' = around
    BY <1>6, PassFrame DEF PassRests, Tried, Elapsed, Online
  <2>2. /\ Trying("home")' <=> Trying("home")
        /\ Trying("mobile")' <=> Trying("mobile")
        /\ Joinable("home")' <=> Joinable("home")
    BY <2>1 DEF Trying, Joinable
  <2>3. ~Dropped'
    BY <1>6, <2>1 DEF Dropped, PassRests, Waiting, LinkInv, AttemptInv
  <2>4. Waiting' => Waiting /\ UntilRetry' = UntilRetry
    <3>1. Waiting' => Waiting /\ ~Reached(wifi.nextRetry)
      BY <1>6, <2>1 DEF PassRests, Waiting
    <3>2. Waiting' => Elapsed(wifi.nextRetry) > 1
      BY <3>1, NetworkShape, ClockConstants DEF Reached
    <3> QED  BY <2>1, <3>1, <3>2, NetworkShape DEF UntilRetry, RetryDue
  <2>5. radio'.joined = "none"
    BY <2>1 DEF Online
  <2> QED  BY <2>1, <2>2, <2>3, <2>4, <2>5 DEF HomeLeft
<1>7. CASE PassServes
  <2>1. /\ Online /\ radio'.joined = radio.joined /\ passed' /\ profiles' = profiles
        /\ ~Trying("home")' /\ ~Trying("mobile")' /\ ~Waiting' /\ ~Dropped'
    BY <1>7, PassFrame DEF PassServes, Serves, Trying, Waiting, Dropped, Online
  <2>2. ASSUME radio.joined = "mobile"
        PROVE  /\ radio'.scan = "none" => calmFor + UntilScan' + ScanTime + 1 + JoinTime < Recovery
               /\ radio'.scan = "running" =>
                    calmFor + ScanTime + 1 + JoinTime < Recovery + radio'.age
               /\ radio'.scan \notin {"seen", "unseen"}
    <3>1. Scans
      BY <1>1, <2>2 DEF Scans
    <3>2. CASE Looks /\ radio'.scan = "running" /\ radio'.age = 0
      BY <2>2, <3>2, Waits, ClockConstants, NetworkShape, Bounds DEF Looks, HomeLeft
    <3>3. CASE calmFor' = 0
      BY <3>3, NetworkShape
    <3>4. CASE /\ radio.scan = "unseen" /\ wifi'.lastHomeScan = wifi.lastHomeScan
               /\ radio'.scan = "none"
      <4>1. Since' = Since
        BY <3>4, PassFrame DEF Since, Elapsed
      <4>2. UntilScan' <= HomeScanInterval + 1 /\ UntilScan' \in Nat
        BY <4>1, ClockConstants, NetworkShape DEF UntilScan
      <4> QED  BY <2>2, <3>4, <4>2, Waits, ClockConstants, NetworkShape, Bounds DEF HomeLeft
    <3>5. CASE /\ ~Looks /\ radio.scan \notin {"seen", "unseen"}
               /\ wifi'.lastHomeScan = wifi.lastHomeScan /\ radio' = radio
      <4>1. Since' = Since
        BY <3>5, PassFrame DEF Since, Elapsed
      <4>2. radio.scan = "none" => Since < HomeScanInterval
        BY <3>1, <3>5, NetworkShape, ClockConstants DEF Looks
      <4>3. radio.scan = "none" => UntilScan' = UntilScan
        BY <4>1, <4>2 DEF UntilScan
      <4> QED  BY <2>2, <3>5, <4>3 DEF HomeLeft
    <3> QED  BY <1>7, <3>1, <3>2, <3>3, <3>4, <3>5 DEF PassServes
  <2> QED  BY <2>1, <2>2 DEF HomeLeft
<1> QED  BY <1>4, <1>5, <1>6, <1>7, PassDoes

LEMMA PassAny ==
  ASSUME LinkInv, AnyGood, AnyLeft, Pass, calmFor' = calmFor
  PROVE  AnyLeft'
<1>0. PICK most \in Nat : /\ Recovery = 2 * ConnectTimeout + 2 + most + JoinTime
                        /\ most >= RetryInterval /\ most >= HomeScanInterval + ScanTime
  BY Bounds
<1>1. /\ "home" \in Profiles /\ "mobile" \in Profiles /\ profiles # {}
      /\ profiles' = profiles /\ around' = around
      /\ "home" \in profiles \cap around \/ "mobile" \in profiles \cap around
  BY PassFrame, NetworkShape DEF AnyGood, Profiles
<1>2. ToJoin' = ToJoin /\ AfterHome' = AfterHome
  BY <1>1 DEF ToJoin, AfterHome
<1>3. ASSUME Preferred \in profiles, Tries(Preferred), calmFor + ToJoin < Recovery
      PROVE  AnyLeft'
  <2>1. Preferred \in Profiles /\ ~(Preferred = "home" /\ Preferred = "mobile")
    BY DEF Preferred, Profiles
  <2>2. CASE Preferred \in around
    <3>1. ToJoin = JoinTime
      BY <2>2, ClockConstants DEF ToJoin, Preferred
    <3> QED  BY <1>1, <1>3, <2>1, <2>2, <3>1, TriesModes DEF AnyLeft
  <2>3. CASE Preferred \notin around
    <3>1. Preferred = "home" /\ ToJoin = JoinTime + ConnectTimeout /\ AfterHome = 0
      BY <1>1, <2>3 DEF ToJoin, Preferred, AfterHome
    <3>2. Tries("home") /\ calmFor + ConnectTimeout + JoinTime + AfterHome < Recovery
      BY <1>3, <3>1, ClockConstants, NetworkShape, Bounds
    <3> QED  BY <1>1, <1>2, <3>2, TriesModes, ClockConstants, NetworkShape, Bounds DEF AnyLeft
  <2> QED  BY <2>2, <2>3
<1>4. CASE PassTries
  <2>1. CASE RetriesNow /\ Preferred \in profiles /\ Tries(Preferred)
    BY <1>3, <2>1, RetryLeft DEF RetriesNow
  <2>2. CASE TimesOut("home") /\ "mobile" \in profiles /\ Tries("mobile")
    <3>1. calmFor + JoinTime + AfterHome < Recovery
      BY <1>1, <2>2, LateIsHopeless, Waits, NetworkShape, ClockConstants, Bounds DEF AnyLeft
    <3>2. CASE "mobile" \in around
      <4>1. calmFor + JoinTime < Recovery
        BY <3>1, Waits, NetworkShape, ClockConstants, Bounds
      <4> QED  BY <1>1, <2>2, <3>2, <4>1, TriesModes DEF AnyLeft
    <3>3. CASE "mobile" \notin around
      <4>1. ToJoin = JoinTime /\ AfterHome = RetryInterval + 1 + ConnectTimeout
        BY <1>1, <2>2, <3>3, ClockConstants DEF ToJoin, AfterHome
      <4>2. calmFor + ConnectTimeout + RetryInterval + 1 + ToJoin < Recovery
        BY <3>1, <4>1, NetworkShape, ClockConstants, Bounds
      <4> QED  BY <1>1, <1>2, <2>2, <4>2, TriesModes, NetworkShape, ClockConstants, Bounds, Waits
               DEF AnyLeft
    <3> QED  BY <3>2, <3>3
  <2>3. CASE Scans /\ radio.scan = "seen" /\ Tries("home")
    <3>1. Preferred = "home" /\ Preferred \in profiles /\ Online
      BY <2>3 DEF Scans, Preferred, Online
    <3>2. calmFor + ToJoin < Recovery
      BY <2>3, <3>1, Waits, NetworkShape, ClockConstants, Bounds DEF AnyLeft
    <3> QED  BY <1>3, <2>3, <3>1, <3>2
  <2> QED  BY <1>4, <2>1, <2>2, <2>3 DEF PassTries
<1>5. CASE PassSchedules
  <2>1. /\ Waiting' /\ ~Dropped' /\ ~Online' /\ ~wifi'.attempting
        /\ UntilRetry' \in 0..(RetryInterval + 1)
    BY <1>5, SchedulesModes DEF PassSchedules
  <2>2. calmFor + RetryInterval + 1 + ToJoin < Recovery
    <3>1. CASE TimesOut("home") /\ "mobile" \notin profiles
      <4>1. ToJoin = JoinTime /\ AfterHome = RetryInterval + 1
        BY <1>1, <3>1, ClockConstants DEF ToJoin, AfterHome
      <4> QED  BY <1>1, <3>1, <4>1, LateIsHopeless, NetworkShape, ClockConstants, Bounds DEF AnyLeft
    <3>2. CASE TimesOut("mobile")
      BY <1>1, <3>2, LateIsHopeless, Waits, NetworkShape, ClockConstants, Bounds DEF AnyLeft
    <3> QED  BY <1>1, <1>5, <3>1, <3>2 DEF PassSchedules
  <2>3. ~Trying("home")' /\ ~Trying("mobile")'
    BY <2>1 DEF Trying
  <2>4. calmFor' + UntilRetry' + ToJoin' < Recovery
    BY <1>2, <2>1, <2>2, Waits, ClockConstants, NetworkShape, Bounds
  <2> QED  BY <2>1, <2>3, <2>4 DEF AnyLeft
<1>6. CASE PassRests
  <2>1. /\ ~Online /\ ~Online' /\ wifi' = wifi /\ radio' = radio /\ Tried' = Tried
        /\ Elapsed(wifi.nextRetry)' = Elapsed(wifi.nextRetry)
    BY <1>6, PassFrame DEF PassRests, Tried, Elapsed, Online
  <2>2. /\ Trying("home")' <=> Trying("home")
        /\ Trying("mobile")' <=> Trying("mobile")
        /\ Joinable("home")' <=> Joinable("home")
        /\ Joinable("mobile")' <=> Joinable("mobile")
    BY <1>1, <2>1 DEF Trying, Joinable
  <2>3. ~Dropped'
    BY <1>6, <2>1 DEF Dropped, PassRests, Waiting, LinkInv, AttemptInv
  <2>4. Waiting' => Waiting /\ UntilRetry' = UntilRetry
    <3>1. Waiting' => Waiting /\ ~Reached(wifi.nextRetry)
      BY <1>6, <2>1 DEF PassRests, Waiting
    <3>2. Waiting' => Elapsed(wifi.nextRetry) > 1
      BY <3>1, NetworkShape, ClockConstants DEF Reached
    <3> QED  BY <2>1, <3>1, <3>2, NetworkShape DEF UntilRetry, RetryDue
  <2> QED  BY <1>2, <2>1, <2>2, <2>3, <2>4 DEF AnyLeft
<1>7. CASE PassServes
  <2>1. /\ Online /\ radio'.joined = radio.joined
        /\ ~Trying("home")' /\ ~Trying("mobile")' /\ ~Waiting' /\ ~Dropped'
    BY <1>7 DEF PassServes, Serves, Trying, Waiting, Dropped, Online
  <2>2. radio.scan = "seen" => radio.joined = "mobile"
    BY <2>1 DEF LinkInv, OnlineInv
  <2>3. ~(radio'.scan = "seen" /\ "home" \in profiles)
    BY <1>7, <2>2 DEF PassServes, Scans, Looks
  <2> QED  BY <1>1, <2>1, <2>3 DEF AnyLeft
<1> QED  BY <1>4, <1>5, <1>6, <1>7, PassDoes

(* Time passes: what is left shrinks by what has passed.                   *)
LEMMA TickModes ==
  ASSUME LinkInv, MillisTick, calmFor < Recovery
  PROVE  /\ calmFor' = calmFor + 1 /\ Pending = 1 /\ Pending' = 0
         /\ Trying("home")' => Trying("home") /\ Tried' = Tried + 1
         /\ Trying("mobile")' => Trying("mobile") /\ Tried' = Tried + 1
         /\ Trying("home") /\ Joinable("home") => Joinable("home")'
         /\ Trying("mobile") /\ Joinable("mobile") => Joinable("mobile")'
         /\ Waiting' => Waiting /\ UntilRetry' + 1 <= UntilRetry /\ UntilRetry' \in Nat
         /\ Dropped' => Dropped
         /\ UntilScan' + 1 <= UntilScan /\ UntilScan' \in Nat
<1>1. /\ passed /\ ~passed' /\ wifi' = wifi /\ around' = around
      /\ radio'.joined = radio.joined /\ radio'.joining = radio.joining
      /\ (Online' <=> Online) /\ calmFor' = calmFor + 1
  BY TickDoes DEF Online
<1>2. Pending = 1 /\ Pending' = 0
  BY <1>1 DEF Pending
<1>3. wifi.attempting => Tried' = Tried + 1
  <2>1. wifi.attempting => Tried < ConnectTimeout
    BY <1>1 DEF LinkInv, AttemptInv
  <2> QED  BY <1>1, <2>1, TickDoes, NetworkShape, WifiFields, ClockConstants DEF Tried
<1>4. ASSUME NEW p \in Profiles
      PROVE  /\ Trying(p)' => Trying(p) /\ Tried' = Tried + 1
             /\ Trying(p) /\ Joinable(p) => Joinable(p)'
  <2>1. Trying(p)' => Trying(p) /\ Tried' = Tried + 1
    BY <1>1, <1>3 DEF Trying
  <2>2. ASSUME Trying(p), Joinable(p) PROVE Joinable(p)'
    <3>1. radio'.age = radio.age + 1 /\ Tried' = Tried + 1
      BY <1>1, <1>3, <2>2, TickDoes DEF Trying, Joinable
    <3> QED  BY <1>1, <2>2, <3>1, Waits, NetworkShape, ClockConstants, Bounds DEF Joinable
  <2> QED  BY <2>1, <2>2
<1>5. ASSUME Waiting'
      PROVE  Waiting /\ UntilRetry' + 1 <= UntilRetry /\ UntilRetry' \in Nat
  <2>1. Waiting
    BY <1>1, <1>5 DEF Waiting
  <2>2. Elapsed(wifi.nextRetry)' = IF Elapsed(wifi.nextRetry) = ClockWidth - 1 THEN 0
                                   ELSE Elapsed(wifi.nextRetry) + 1
    BY <1>1, TickDoes, NetworkShape, WifiFields DEF Elapsed
  <2> QED  BY <1>1, <2>1, <2>2, NetworkShape, ClockConstants
           DEF LinkInv, WaitInv, Waiting, UntilRetry, RetryDue
<1>6. Dropped' => Dropped
  BY <1>1 DEF Dropped
<1>7. UntilScan' + 1 <= UntilScan /\ UntilScan' \in Nat
  <2>1. Since' = IF Since = ClockWidth - 1 THEN 0 ELSE Since + 1
    BY <1>1, TickDoes, NetworkShape, WifiFields DEF Since, Elapsed
  <2> QED  BY <1>1, <2>1, NetworkShape, ClockConstants DEF UntilScan
<1>8. "home" \in Profiles /\ "mobile" \in Profiles
  BY DEF Profiles
<1> QED  BY <1>1, <1>2, <1>4, <1>5, <1>6, <1>7, <1>8

LEMMA TickHome ==
  ASSUME LinkInv, HomeLeft, MillisTick, calmFor < Recovery
  PROVE  HomeLeft'
<1>0. /\ "home" \in Profiles /\ "mobile" \in Profiles /\ Recovery \in Nat
      /\ calmFor \in Nat /\ Tried \in Nat
  BY NetworkShape, Bounds DEF Profiles
<1>1. Trying("home")' => calmFor' <= Tried' \/ Joinable("home")'
  BY <1>0, TickModes DEF HomeLeft
<1>2. Trying("mobile")' => calmFor' <= ConnectTimeout + Tried'
  BY <1>0, TickModes, ClockConstants DEF HomeLeft
<1>3. Waiting' => calmFor' + UntilRetry' + JoinTime < Recovery
  BY <1>0, TickModes, ClockConstants, Waits DEF HomeLeft
<1>4. Dropped' => calmFor' + Pending' + JoinTime < Recovery
  BY <1>0, TickModes, ClockConstants DEF HomeLeft
<1>5. ASSUME radio'.joined = "mobile"
      PROVE  /\ radio'.scan = "none" => calmFor' + UntilScan' + ScanTime + 1 + JoinTime < Recovery
             /\ radio'.scan = "running" => calmFor' + ScanTime + 1 + JoinTime < Recovery + radio'.age
             /\ radio'.scan = "seen" => calmFor' + Pending' + JoinTime < Recovery
             /\ radio'.scan = "unseen" =>
                  calmFor' + Pending' + HomeScanInterval + 1 + ScanTime + 1 + JoinTime < Recovery
  <2>1. /\ radio.joined = "mobile" /\ radio'.scan = radio.scan
        /\ radio.scan = "running" => radio'.age = radio.age + 1
    BY <1>5, TickDoes
  <2> QED  BY <1>0, <2>1, TickModes, ClockConstants, Waits DEF HomeLeft
<1> QED  BY <1>1, <1>2, <1>3, <1>4, <1>5 DEF HomeLeft

LEMMA TickAny ==
  ASSUME LinkInv, AnyLeft, MillisTick, calmFor < Recovery
  PROVE  AnyLeft'
<1>0. /\ "home" \in Profiles /\ "mobile" \in Profiles /\ Recovery \in Nat
      /\ calmFor \in Nat /\ Tried \in Nat /\ ToJoin \in Nat /\ AfterHome \in Nat
  BY NetworkShape, Bounds, Waits, ClockConstants DEF Profiles
<1>1. ToJoin' = ToJoin /\ AfterHome' = AfterHome
  BY TickDoes DEF ToJoin, AfterHome
<1>2. ASSUME Trying("home")'
      PROVE  \/ Joinable("home")'
             \/ calmFor' + ConnectTimeout + JoinTime + AfterHome' < Recovery + Tried'
  <2>1. /\ Trying("home") /\ Tried' = Tried + 1 /\ calmFor' = calmFor + 1
        /\ Joinable("home") => Joinable("home")'
    BY <1>0, <1>2, TickModes
  <2> QED  BY <1>0, <1>1, <2>1, ClockConstants DEF AnyLeft
<1>3. ASSUME Trying("mobile")'
      PROVE  \/ Joinable("mobile")'
             \/ calmFor' + ConnectTimeout + RetryInterval + 1 + ToJoin' < Recovery + Tried'
  <2>1. /\ Trying("mobile") /\ Tried' = Tried + 1 /\ calmFor' = calmFor + 1
        /\ Joinable("mobile") => Joinable("mobile")'
    BY <1>0, <1>3, TickModes
  <2> QED  BY <1>0, <1>1, <2>1, ClockConstants DEF AnyLeft
<1>4. Waiting' => calmFor' + UntilRetry' + ToJoin' < Recovery
  BY <1>0, <1>1, TickModes, ClockConstants, Waits DEF AnyLeft
<1>5. Dropped' => calmFor' + Pending' + ToJoin' < Recovery
  BY <1>0, <1>1, TickModes, ClockConstants DEF AnyLeft
<1>6. Online' /\ radio'.scan = "seen" /\ "home" \in profiles' => calmFor' + Pending' + ToJoin' < Recovery
  BY <1>0, <1>1, TickModes, TickDoes, ClockConstants DEF AnyLeft, Online
<1> QED  BY <1>2, <1>3, <1>4, <1>5, <1>6 DEF AnyLeft

LEMMA JoinsLeft ==
  ASSUME LinkInv, Joins, calmFor' > 0
  PROVE  /\ HomeLeft => HomeLeft'
         /\ AnyLeft'
<1>1. /\ radio'.joined = radio.joining /\ radio.joining \in Profiles /\ radio'.scan = "none"
      /\ calmFor' = calmFor /\ passed' = passed /\ Trying(radio.joining)
  BY JoinsDoes
<1>2. Online' /\ ~Waiting' /\ ~Dropped' /\ ~Trying("home")' /\ ~Trying("mobile")'
  <2>1. Online'
    BY <1>1 DEF Online, Profiles
  <2> QED  BY <2>1 DEF Waiting, Dropped, Trying
<1>3. ASSUME HomeLeft, radio'.joined = "mobile"
      PROVE  calmFor' + UntilScan' + ScanTime + 1 + JoinTime < Recovery
  <2>1. PICK most \in Nat : /\ Recovery = 2 * ConnectTimeout + 2 + most + JoinTime
                          /\ most >= RetryInterval /\ most >= HomeScanInterval + ScanTime
    BY Bounds
  <2>2. calmFor <= ConnectTimeout + Tried
    BY <1>1, <1>3 DEF HomeLeft
  <2>3. Tried <= ConnectTimeout - Pending
    BY <1>1, Waits DEF Trying
  <2>4. UntilScan' = UntilScan
    BY JoinsDoes, TimesStay DEF UntilScan
  <2>5. PICK u \in Nat, k \in {0, 1} : u = UntilScan /\ k = Pending /\ u <= HomeScanInterval + k
    BY Waits
  <2>6. calmFor + u + ScanTime + 1 + JoinTime <= 2 * ConnectTimeout + 1 + most + JoinTime
    BY <2>1, <2>2, <2>3, <2>5, ClockConstants, NetworkShape
  <2> QED  BY <1>1, <2>1, <2>4, <2>5, <2>6, ClockConstants, NetworkShape
<1> QED  BY <1>1, <1>2, <1>3 DEF HomeLeft, AnyLeft

LEMMA CompletesLeft ==
  ASSUME LinkInv, ScanCompletes
  PROVE  /\ HomeGood /\ HomeLeft => HomeLeft'
         /\ AnyGood /\ AnyLeft => AnyLeft'
<1>1. /\ Tried' = Tried /\ Elapsed(wifi.nextRetry)' = Elapsed(wifi.nextRetry) /\ wifi' = wifi
      /\ passed' = passed /\ profiles' = profiles /\ around' = around /\ calmFor' = calmFor
      /\ radio'.joined = radio.joined /\ radio'.joining = "none" /\ radio.joining = "none"
  BY CompletesDoes, TimesStay
<1>2. /\ Trying("home")' <=> Trying("home")
      /\ Trying("mobile")' <=> Trying("mobile")
      /\ Waiting' <=> Waiting
      /\ Dropped' <=> Dropped
      /\ UntilRetry' = UntilRetry /\ Pending' = Pending
      /\ ToJoin' = ToJoin /\ AfterHome' = AfterHome
      /\ ~Joinable("home") /\ ~Joinable("mobile")
  BY <1>1 DEF Trying, Waiting, Dropped, Online, UntilRetry, RetryDue, Pending, ToJoin, AfterHome,
              Joinable
<1>3. ASSUME HomeGood, HomeLeft PROVE HomeLeft'
  <2>1. radio'.scan = "seen" /\ radio.scan = "running" /\ radio.age <= ScanTime
    BY <1>3, CompletesDoes DEF HomeGood, LinkInv, ScanInv
  <2>2. radio.joined = "mobile" => calmFor + Pending + JoinTime < Recovery
    BY <1>3, <2>1, Waits, NetworkShape, ClockConstants, Bounds DEF HomeLeft
  <2> QED  BY <1>1, <1>2, <1>3, <2>1, <2>2 DEF HomeLeft
<1>4. ASSUME AnyGood, AnyLeft PROVE AnyLeft'
  <2>1. "home" \in profiles => radio'.scan = "unseen"
    BY <1>4, CompletesDoes DEF AnyGood
  <2> QED  BY <1>1, <1>2, <1>4, <2>1 DEF AnyLeft
<1> QED  BY <1>3, <1>4

LEMMA CalmKept ==
  ASSUME LinkInv, CalmInv, [NetworkNext]_networkVars
  PROVE  CalmInv'
<1>1. CASE calmFor' = 0
  BY <1>1 DEF CalmInv
<1>2. HomeGood => HomeLeft
  BY FreshLeft, NetworkShape DEF CalmInv
<1>3. AnyGood => AnyLeft
  BY FreshLeft, NetworkShape DEF CalmInv
<1>4. CASE Pass /\ calmFor' # 0
  <2>1. /\ calmFor' = calmFor /\ calmFor > 0
        /\ (HomeGood' <=> HomeGood) /\ (AnyGood' <=> AnyGood)
    BY <1>4, PassFrame, NetworkShape DEF HomeGood, AnyGood
  <2> QED  BY <1>2, <1>3, <1>4, <2>1, PassHome, PassAny DEF CalmInv
<1>5. CASE MillisTick
  <2>1. (HomeGood' <=> HomeGood) /\ (AnyGood' <=> AnyGood)
    BY <1>5, TickDoes DEF HomeGood, AnyGood
  <2>2. CASE calmFor < Recovery
    BY <1>2, <1>3, <1>5, <2>1, <2>2, TickHome, TickAny DEF CalmInv
  <2>3. CASE calmFor = Recovery
    <3>1. calmFor > 0 /\ radio'.joined = radio.joined /\ radio'.scan = radio.scan
          /\ profiles' = profiles
      BY <1>5, <2>3, TickDoes, Bounds, ClockConstants
    <3>2. HomeGood' => HomeLeft'
      <4>1. HomeGood => radio.joined = "home"
        BY <1>2, <2>3, <3>1, LeftIsConnected DEF CalmInv
      <4>2. radio.joined = "home" => HomeLeft'
        BY <3>1 DEF HomeLeft, Trying, Waiting, Dropped, Online
      <4> QED  BY <2>1, <4>1, <4>2
    <3>3. AnyGood' => AnyLeft'
      <4>1. AnyGood => Online /\ ~(radio.scan = "seen" /\ "home" \in profiles)
        <5>1. AnyGood => AnyLeft /\ Online
          BY <1>3, <2>3, <3>1, LeftIsConnected DEF CalmInv
        <5> QED  BY <2>3, <5>1, Waits, ClockConstants, Bounds DEF AnyLeft
      <4>2. Online /\ ~(radio.scan = "seen" /\ "home" \in profiles) => AnyLeft'
        BY <3>1 DEF AnyLeft, Trying, Waiting, Dropped, Online
      <4> QED  BY <2>1, <4>1, <4>2
    <3> QED  BY <3>2, <3>3 DEF CalmInv
  <2>4. calmFor \in 0..Recovery /\ Recovery \in Nat
    BY Bounds DEF LinkInv, NetworkTypes, NetworkTypeOK
  <2> QED  BY <2>2, <2>3, <2>4
<1>6. CASE Joins /\ calmFor' # 0
  <2>1. /\ (HomeGood' <=> HomeGood) /\ calmFor' > 0
    BY <1>6, JoinsDoes, NetworkShape DEF HomeGood
  <2> QED  BY <1>2, <1>6, <2>1, JoinsLeft DEF CalmInv
<1>7. CASE ScanCompletes
  <2>1. (HomeGood' <=> HomeGood) /\ (AnyGood' <=> AnyGood)
    BY <1>7, CompletesDoes DEF HomeGood, AnyGood
  <2> QED  BY <1>2, <1>3, <1>7, <2>1, CompletesLeft DEF CalmInv
<1>8. CASE OnboardingCompletes \/ UNCHANGED networkVars
  <2>1. UNCHANGED <<millis, passed, profiles, around, wifi, radio, calmFor>>
    BY <1>8 DEF OnboardingCompletes, networkVars
  <2> QED  BY <2>1, TimesStay
           DEF CalmInv, HomeGood, AnyGood, HomeLeft, AnyLeft, Trying, Waiting, Dropped, Online,
               UntilRetry, RetryDue, Pending, ToJoin, AfterHome, Joinable, UntilScan
<1>9. CASE Reboots
  BY <1>1, <1>9 DEF Reboots
<1> QED  BY <1>1, <1>4, <1>5, <1>6, <1>7, <1>8, <1>9, OutsideLink DEF NetworkNext, Outside

(* Once nothing outside has changed for Recovery, there is nothing left to *)
(* wait for.                                                               *)
THEOREM ConnectedInTime == NetworkSpec => []ConnectsInTime
<1>1. NetworkInit => LinkInv /\ CalmInv
  BY BootLink DEF NetworkInit, CalmInv
<1>2. LinkInv /\ CalmInv /\ [NetworkNext]_networkVars => LinkInv' /\ CalmInv'
  BY LinkKept, CalmKept
<1>3. LinkInv /\ CalmInv => ConnectsInTime
  BY CalmIsConnected
<1> QED  BY <1>1, <1>2, <1>3, PTL DEF NetworkSpec

-----------------------------------------------------------------------------
(* The composition that TLC runs.                                          *)

(* Each of its behaviours is one of the sampler and one of the network     *)
(* manager, so that what is proved of either holds in it.                  *)
THEOREM Composition == MCSpec => Spec /\ NetworkSpec
<1>1. MCInit => Init /\ NetworkInit
  BY DEF MCInit
<1>2. [MCNext]_<<subject, vars, networkVars>> => [Next]_vars /\ [NetworkNext]_networkVars
  BY DEF MCNext
<1> QED  BY <1>1, <1>2, PTL DEF MCSpec, Spec, NetworkSpec

(* The sampler, both its stores, the manager and the radio keep their      *)
(* types there.                                                            *)
THEOREM AdapterTyped == MCSpec => []AdapterTypeOK
<1>1. TypeOK /\ NetworkTypeOK => AdapterTypeOK
  BY DEF AdapterTypeOK
<1> QED  BY <1>1, Composition, TypeCorrect, NetworkTyped, PTL
=============================================================================
