------------------------- MODULE OfflineReplayProofs -------------------------
(***************************************************************************)
(* Theorems about OfflineReplay, for every capacity, batch size and number *)
(* of samples.                                                             *)
(***************************************************************************)
EXTENDS OfflineReplay, TLAPS

-----------------------------------------------------------------------------
(* Type correctness.  recordCount is reset from the file, so its bound     *)
(* needs the bound of the two files, and between two scans a file is no    *)
(* longer than recordCount says.                                           *)
LenInv ==
  /\ Len(cacheFile.recs) <= MaxRecords
  /\ Len(nextFile.recs) <= MaxRecords
  /\ step \notin {"down", "recover", "scan"} => Len(cacheFile.recs) <= recordCount
  /\ skip = 0 /\ step \in {"unlink", "rename"} => Len(nextFile.recs) <= recordCount

JournalType == JournalTypeOK /\ LenInv

(* Between the two removals of a purge the journal is gone.                *)
PurgeInv == pc = "purge" => step = "idle" /\ cacheFile.recs = <<>>

TypeInv == JournalType /\ CloudTypeOK /\ LoopTypeOK /\ PurgeInv

(* What is left of a sequence after its first n elements.                  *)
LEMMA DropProperties ==
  ASSUME NEW S, NEW s \in Seq(S), NEW n \in Nat
  PROVE  /\ SubSeq(s, n + 1, Len(s)) \in Seq(S)
         /\ Len(SubSeq(s, n + 1, Len(s))) <= Len(s)
         /\ n = 0 => SubSeq(s, n + 1, Len(s)) = s
         /\ n <= Len(s) => Len(SubSeq(s, n + 1, Len(s))) = Len(s) - n
         /\ \A i \in 1..Len(SubSeq(s, n + 1, Len(s))) :
              SubSeq(s, n + 1, Len(s))[i] = s[n + i]
  OBVIOUS

(* The files the journal operations build, and the fields of any file.     *)
LEMMA NoFileProperties ==
  /\ NoFile \in Journal /\ NoFile.recs = <<>> /\ Len(NoFile.recs) = 0
  /\ ~NoFile.exists /\ ~NoFile.torn
  BY DEF NoFile, Journal

LEMMA FileOfProperties ==
  ASSUME NEW recs \in Seq(Samples), NEW torn \in BOOLEAN
  PROVE  /\ FileOf(recs, torn) \in Journal
         /\ FileOf(recs, torn).recs = recs
         /\ FileOf(recs, torn).torn = torn
         /\ FileOf(recs, torn).exists
  BY DEF FileOf, Journal

LEMMA FileFields ==
  ASSUME NEW file \in Journal
  PROVE  /\ file.recs \in Seq(Samples) /\ Len(file.recs) \in Nat
         /\ file.torn \in BOOLEAN /\ file.exists \in BOOLEAN
  BY DEF Journal

(* What the type invariant says of the journal's numbers.                  *)
LEMMA JournalNumbers ==
  ASSUME JournalTypeOK
  PROVE  /\ MaxRecords \in Nat \ {0} /\ recordCount \in Nat
         /\ cacheFile \in Journal /\ nextFile \in Journal
         /\ cacheFile.recs \in Seq(Samples) /\ nextFile.recs \in Seq(Samples)
         /\ Len(cacheFile.recs) \in Nat /\ Len(nextFile.recs) \in Nat
         /\ skip \in Nat
  <1>1. MaxRecords \in Nat \ {0}
    BY JournalAssumption DEF JournalAssumption
  <1>2. cacheFile \in Journal /\ nextFile \in Journal
    BY DEF JournalTypeOK
  <1>3. skip \in Nat /\ recordCount \in Nat
    BY <1>1 DEF JournalTypeOK
  <1>4. QED
    BY <1>1, <1>2, <1>3, FileFields

LEMMA TypeInit == Init => TypeInv
  <1> SUFFICES ASSUME Init PROVE TypeInv
    OBVIOUS
  <1> USE DEF Init, JournalInit, BackfillInit
  <1>1. JournalType
    BY NoFileProperties, JournalAssumption
    DEF JournalType, JournalTypeOK, LenInv, Steps, JournalAssumption
  <1>2. CloudTypeOK
    BY DEF CloudTypeOK
  <1>3. LoopTypeOK
    <2>1. pendingBatchId \in BatchIds
      BY DEF BatchIds, NoBatch
    <2>2. taken \in 0..MaxSamples /\ purged \subseteq Samples
      BY ReplayAssumption DEF ReplayAssumption
    <2>3. QED
      BY <2>1, <2>2 DEF LoopTypeOK
  <1>4. PurgeInv
    BY DEF PurgeInv
  <1>5. QED
    BY <1>1, <1>2, <1>3, <1>4 DEF TypeInv

LEMMA JournalStepType == JournalType /\ JournalStep => JournalType'
  <1> SUFFICES ASSUME JournalType, JournalStep PROVE JournalType'
    OBVIOUS
  <1>0. /\ JournalTypeOK /\ LenInv
        /\ MaxRecords \in Nat /\ recordCount \in Nat /\ Len(NoFile.recs) = 0
        /\ Len(cacheFile.recs) \in Nat /\ Len(nextFile.recs) \in Nat
    BY JournalNumbers, NoFileProperties DEF JournalType
  <1>1. CASE RecoverJournal
    <2>1. /\ UNCHANGED <<recordCount, skip, caller>>
          /\ step' = "scan"
          /\ cacheFile' \in {cacheFile, nextFile}
          /\ nextFile' \in {nextFile, NoFile}
      BY <1>1 DEF RecoverJournal
    <2>2. JournalTypeOK'
      BY <1>0, <2>1, NoFileProperties DEF JournalTypeOK, Steps
    <2>3. LenInv'
      BY <1>0, <2>1 DEF LenInv
    <2>4. QED
      BY <2>2, <2>3 DEF JournalType
  <1>2. CASE ScanJournal
    <2>1. /\ UNCHANGED <<cacheFile, nextFile, caller>>
          /\ recordCount' = Len(cacheFile.recs) /\ skip' = 0
          /\ step' \in {"open", "done"}
      BY <1>2 DEF ScanJournal
    <2>2. JournalTypeOK'
      BY <1>0, <2>1 DEF JournalTypeOK, Steps, LenInv
    <2>3. LenInv'
      BY <1>0, <2>1 DEF LenInv
    <2>4. QED
      BY <2>2, <2>3 DEF JournalType
  <1>3. CASE OpenNext
    <2>1. /\ UNCHANGED <<cacheFile, recordCount, skip, caller>>
          /\ step = "open" /\ step' \in {"copy", "done", "failed"}
          /\ nextFile' \in {FileOf(<<>>, FALSE), nextFile, NoFile}
      BY <1>3 DEF OpenNext, AbortRewrite
    <2>2. nextFile' \in Journal /\ Len(nextFile.recs') \in {0, Len(nextFile.recs)}
      <3>1. CASE nextFile' = nextFile
        BY <1>0, <3>1 DEF JournalTypeOK
      <3>2. CASE nextFile' = FileOf(<<>>, FALSE)
        <4>1. <<>> \in Seq(Samples) /\ FALSE \in BOOLEAN /\ Len(<<>>) = 0
          OBVIOUS
        <4>2. QED
          BY <3>2, <4>1, FileOfProperties
      <3>3. CASE nextFile' = NoFile
        BY <3>3, NoFileProperties
      <3>4. QED
        BY <2>1, <3>1, <3>2, <3>3
    <2>3. JournalTypeOK'
      BY <1>0, <2>1, <2>2 DEF JournalTypeOK, Steps
    <2>4. LenInv'
      BY <1>0, <2>1, <2>2 DEF LenInv
    <2>5. QED
      BY <2>3, <2>4 DEF JournalType
  <1>4. CASE CopyRecords
    <2>1. /\ UNCHANGED <<cacheFile, recordCount, skip, caller>>
          /\ step = "copy" /\ step' \in {"copy", "unlink", "done", "failed"}
      BY <1>4 DEF CopyRecords, CopyPart, CopyFails, AbortRewrite
    <2>2. \/ nextFile' = NoFile
          \/ nextFile' = nextFile /\ step' \in {"done", "failed"}
          \/ \E torn \in BOOLEAN, n \in 0..Len(cacheFile.recs) :
               nextFile' = FileOf(SubSeq(cacheFile.recs, skip + 1, n), torn)
      <3>1. CASE CopyFails
        BY <3>1 DEF CopyFails, AbortRewrite
      <3>2. CASE CopyPart
        <4>1. \E n \in skip + 1 .. Len(cacheFile.recs) - 1 :
                nextFile' = FileOf(SubSeq(cacheFile.recs, skip + 1, n), FALSE)
          BY <3>2 DEF CopyPart
        <4>2. \A n \in skip + 1 .. Len(cacheFile.recs) - 1 : n \in 0..Len(cacheFile.recs)
          BY <1>0, JournalNumbers
        <4>3. QED
          BY <4>1, <4>2
      <3>3. CASE ~CopyFails /\ ~CopyPart
        <4>1. Len(cacheFile.recs) \in 0..Len(cacheFile.recs)
          BY <1>0
        <4>2. (cacheFile.torn /\ skip > 0) \in BOOLEAN
          BY <1>0, JournalNumbers, FileFields DEF JournalTypeOK
        <4>3. QED
          BY <1>4, <3>3, <4>1, <4>2 DEF CopyRecords
      <3>4. QED
        BY <3>1, <3>2, <3>3
    <2>3. \A n \in 0..Len(cacheFile.recs) :
            /\ SubSeq(cacheFile.recs, skip + 1, n) \in Seq(Samples)
            /\ Len(SubSeq(cacheFile.recs, skip + 1, n)) \in 0..Len(cacheFile.recs)
      <3>1. cacheFile.recs \in Seq(Samples) /\ skip \in Nat
        BY <1>0, JournalNumbers
      <3>2. QED
        BY <3>1
    <2>4. /\ nextFile' \in Journal
          /\ \/ Len(nextFile.recs') \in 0..Len(cacheFile.recs)
             \/ Len(nextFile.recs') = Len(nextFile.recs) /\ step' \in {"done", "failed"}
      <3>1. CASE nextFile' = NoFile
        BY <1>0, <3>1, NoFileProperties
      <3>2. CASE nextFile' = nextFile /\ step' \in {"done", "failed"}
        BY <1>0, <3>2 DEF JournalTypeOK
      <3>3. ASSUME NEW torn \in BOOLEAN, NEW n \in 0..Len(cacheFile.recs),
                   nextFile' = FileOf(SubSeq(cacheFile.recs, skip + 1, n), torn)
            PROVE  nextFile' \in Journal /\ Len(nextFile.recs') \in 0..Len(cacheFile.recs)
        <4> DEFINE part == SubSeq(cacheFile.recs, skip + 1, n)
        <4>1. part \in Seq(Samples) /\ Len(part) \in 0..Len(cacheFile.recs)
          BY <2>3
        <4> HIDE DEF part
        <4>2. FileOf(part, torn) \in Journal /\ FileOf(part, torn).recs = part
          BY <4>1, FileOfProperties
        <4>3. nextFile' = FileOf(part, torn)
          BY <3>3 DEF part
        <4>4. QED
          BY <4>1, <4>2, <4>3
      <3>4. QED
        BY <2>2, <3>1, <3>2, <3>3
    <2>5. JournalTypeOK'
      BY <1>0, <2>1, <2>4 DEF JournalTypeOK, Steps
    <2>6. LenInv'
      BY <1>0, <2>1, <2>4 DEF LenInv
    <2>7. QED
      BY <2>5, <2>6 DEF JournalType
  <1>5. CASE RemoveCache
    <2>1. /\ UNCHANGED <<nextFile, recordCount, skip, caller>>
          /\ step = "unlink"
          /\ \/ cacheFile' = NoFile /\ step' = "rename"
             \/ cacheFile' = cacheFile /\ step' \in {"done", "failed"}
      BY <1>5 DEF RemoveCache, AbortRewrite
    <2>2. JournalTypeOK'
      BY <1>0, <2>1, NoFileProperties DEF JournalTypeOK, Steps
    <2>3. LenInv'
      BY <1>0, <2>1 DEF LenInv
    <2>4. QED
      BY <2>2, <2>3 DEF JournalType
  <1>6. CASE RenameNext
    <2>1. /\ UNCHANGED <<recordCount, skip, caller>>
          /\ step = "rename"
          /\ \/ /\ cacheFile' = nextFile /\ nextFile' = NoFile
                /\ step' = IF skip = 0 THEN "done" ELSE "scan"
             \/ UNCHANGED <<cacheFile, nextFile>> /\ step' \in {"done", "failed"}
      BY <1>6 DEF RenameNext, AbortRewrite
    <2>2. JournalTypeOK'
      BY <1>0, <2>1, NoFileProperties DEF JournalTypeOK, Steps
    <2>3. LenInv'
      BY <1>0, <2>1 DEF LenInv
    <2>4. QED
      BY <2>2, <2>3 DEF JournalType
  <1>7. QED
    BY <1>1, <1>2, <1>3, <1>4, <1>5, <1>6 DEF JournalStep

(* The calls that change the journal from outside a rewrite.               *)
LEMMA JournalCallType ==
  ASSUME JournalType,
         \/ step = "idle" /\ \E s \in Samples : AppendRecord(s)
         \/ step = "idle" /\ AppendShort
         \/ step = "idle" /\ \E n \in Nat : BeginRemoval(n)
         \/ step \in {"done", "failed"} /\ EndOperation
         \/ \E torn \in BOOLEAN : JournalDown(torn)
         \/ JournalUp
         \/ PurgeCacheFile
         \/ cacheFile.recs = <<>> /\ PurgeNextFile
  PROVE  JournalType'
  <1>0. /\ JournalTypeOK /\ LenInv
        /\ MaxRecords \in Nat \ {0} /\ recordCount \in Nat /\ Len(NoFile.recs) = 0
        /\ cacheFile \in Journal /\ nextFile \in Journal
        /\ cacheFile.recs \in Seq(Samples)
        /\ Len(cacheFile.recs) \in Nat /\ Len(nextFile.recs) \in Nat
    BY JournalNumbers, NoFileProperties DEF JournalType
  <1>t. FileOf(cacheFile.recs, TRUE) \in Journal /\ FileOf(cacheFile.recs, TRUE).recs = cacheFile.recs
    <2>1. TRUE \in BOOLEAN
      OBVIOUS
    <2>2. QED
      BY <1>0, <2>1, FileOfProperties
  <1>1. CASE step = "idle" /\ \E s \in Samples : AppendRecord(s)
    <2>1. PICK s \in Samples : AppendRecord(s)
      BY <1>1
    <2> DEFINE longer == Append(cacheFile.recs, s)
    <2>2. longer \in Seq(Samples) /\ Len(longer) = Len(cacheFile.recs) + 1
      BY <1>0
    <2> HIDE DEF longer
    <2>3. FileOf(longer, FALSE) \in Journal /\ FileOf(longer, FALSE).recs = longer
      <3>1. FALSE \in BOOLEAN
        OBVIOUS
      <3>2. QED
        BY <2>2, <3>1, FileOfProperties
    <2>4. /\ UNCHANGED <<nextFile, step, skip, caller>>
          /\ recordCount < MaxRecords /\ recordCount' = recordCount + 1
          /\ cacheFile' \in {cacheFile, FileOf(longer, FALSE)}
      BY <2>1 DEF AppendRecord, longer
    <2>5. cacheFile' \in Journal /\ Len(cacheFile.recs)' \in {Len(cacheFile.recs), Len(cacheFile.recs) + 1}
      BY <1>0, <2>2, <2>3, <2>4
    <2>6. JournalTypeOK'
      BY <1>0, <2>4, <2>5 DEF JournalTypeOK
    <2>7. LenInv'
      BY <1>0, <1>1, <2>4, <2>5 DEF LenInv
    <2>8. QED
      BY <2>6, <2>7 DEF JournalType
  <1>2. CASE step = "idle" /\ AppendShort
    <2>1. /\ UNCHANGED <<nextFile, recordCount, step, skip, caller>>
          /\ cacheFile' = FileOf(cacheFile.recs, TRUE)
      BY <1>2 DEF AppendShort
    <2>2. JournalTypeOK'
      BY <1>0, <1>t, <2>1 DEF JournalTypeOK
    <2>3. LenInv'
      BY <1>0, <1>t, <2>1 DEF LenInv
    <2>4. QED
      BY <2>2, <2>3 DEF JournalType
  <1>3. CASE step = "idle" /\ \E n \in Nat : BeginRemoval(n)
    <2>1. JournalTypeOK'
      BY <1>0, <1>3 DEF JournalTypeOK, BeginRemoval, Steps
    <2>2. LenInv'
      BY <1>0, <1>3 DEF LenInv, BeginRemoval
    <2>3. QED
      BY <2>1, <2>2 DEF JournalType
  <1>4. CASE step \in {"done", "failed"} /\ EndOperation
    <2>1. JournalTypeOK'
      BY <1>0, <1>4 DEF JournalTypeOK, EndOperation, Steps
    <2>2. LenInv'
      BY <1>0, <1>4 DEF LenInv, EndOperation
    <2>3. QED
      BY <2>1, <2>2 DEF JournalType
  <1>5. CASE \E torn \in BOOLEAN : JournalDown(torn)
    <2>1. /\ UNCHANGED nextFile
          /\ recordCount' = 0 /\ step' = "down" /\ skip' = 0 /\ caller' = "setup"
          /\ cacheFile' \in {cacheFile, FileOf(cacheFile.recs, TRUE)}
      BY <1>5 DEF JournalDown
    <2>2. cacheFile' \in Journal /\ Len(cacheFile.recs)' = Len(cacheFile.recs)
      BY <1>0, <1>t, <2>1
    <2>3. JournalTypeOK'
      BY <1>0, <2>1, <2>2 DEF JournalTypeOK, Steps
    <2>4. LenInv'
      BY <1>0, <2>1, <2>2 DEF LenInv
    <2>5. QED
      BY <2>3, <2>4 DEF JournalType
  <1>6. CASE JournalUp
    <2>1. JournalTypeOK'
      BY <1>0, <1>6 DEF JournalTypeOK, JournalUp, Steps
    <2>2. LenInv'
      BY <1>0, <1>6 DEF LenInv, JournalUp
    <2>3. QED
      BY <2>1, <2>2 DEF JournalType
  <1>7. CASE PurgeCacheFile
    <2>1. JournalTypeOK'
      BY <1>0, <1>7, NoFileProperties DEF JournalTypeOK, PurgeCacheFile
    <2>2. LenInv'
      BY <1>0, <1>7 DEF LenInv, PurgeCacheFile
    <2>3. QED
      BY <2>1, <2>2 DEF JournalType
  <1>8. CASE cacheFile.recs = <<>> /\ PurgeNextFile
    <2>1. JournalTypeOK'
      BY <1>0, <1>8, NoFileProperties DEF JournalTypeOK, PurgeNextFile
    <2>2. LenInv'
      BY <1>0, <1>8 DEF LenInv, PurgeNextFile
    <2>3. QED
      BY <2>1, <2>2 DEF JournalType
  <1>9. QED
    BY <1>1, <1>2, <1>3, <1>4, <1>5, <1>6, <1>7, <1>8

(* No action changes the journal by other means.                           *)
LEMMA JournalTypeKept ==
  ASSUME TypeInv, Next
  PROVE  JournalType'
  <1>0. JournalType /\ LoopTypeOK /\ PurgeInv
    BY DEF TypeInv
  <1>1. CASE UNCHANGED journalVars
    BY <1>0, <1>1 DEF JournalType, JournalTypeOK, LenInv, journalVars
  <1>2. CASE \E ack \in acks : AckAccepted(ack)
    <2>1. step = "idle" /\ BeginRemoval(pendingBatchCount)
      BY <1>2 DEF AckAccepted, LoopReads, At
    <2>2. pendingBatchCount \in Nat
      BY <1>0 DEF LoopTypeOK
    <2>3. QED
      BY <1>0, <2>1, <2>2, JournalCallType
  <1>3. CASE RemovalSucceeds \/ RemovalFails \/ SetupEnds
    BY <1>0, <1>3, JournalCallType DEF RemovalSucceeds, RemovalFails, SetupEnds
  <1>4. CASE CacheOffline
    <2>1. CASE UNCHANGED journalVars
      BY <2>1, <1>1
    <2>2. CASE taken < MaxSamples /\ AppendRecord(taken + 1)
      <3>1. step = "idle" /\ taken + 1 \in Samples
        BY <1>0, <1>4, <2>2, ReplayAssumption
        DEF CacheOffline, At, LoopTypeOK, Samples, ReplayAssumption
      <3>2. QED
        BY <1>0, <2>2, <3>1, JournalCallType
    <2>3. CASE AppendShort
      BY <1>0, <1>4, <2>3, JournalCallType DEF CacheOffline, At
    <2>4. QED
      BY <1>4, <2>1, <2>2, <2>3 DEF CacheOffline
  <1>5. CASE PurgeBegins \/ DisablePurges
    BY <1>0, <1>5, JournalCallType DEF PurgeBegins, DisablePurges
  <1>6. CASE PurgeEnds
    BY <1>0, <1>6, JournalCallType DEF PurgeEnds, At, PurgeInv
  <1>7. CASE PowerLoss
    <2>1. \E torn \in BOOLEAN : JournalDown(torn)
      BY <1>7 DEF PowerLoss, At
    <2>2. QED
      BY <1>0, <2>1, JournalCallType
  <1>8. CASE PowerOn
    BY <1>0, <1>8, JournalCallType DEF PowerOn
  <1>9. CASE JournalWorks
    BY <1>0, <1>9, JournalStepType DEF JournalWorks
  <1>10. QED
    BY <1>1, <1>2, <1>3, <1>4, <1>5, <1>6, <1>7, <1>8, <1>9
    DEF Next, Round, Command, World, LoopOffline, LoopReconnects, LoopIdles,
        AckIgnored, AckRejected, LiveDisconnected, LivePublished, LiveNotDue,
        CacheDisabled, SubscribeFails, CacheIdle, CacheReplays,
        CacheReplayFails, Subscription, DisableCache, EnableCache, LinkDrops,
        RetryElapses, CloudWorks

-----------------------------------------------------------------------------
(* The batch the adapter publishes is one, and so is its identifier.       *)
LEMMA HeadProperties ==
  ASSUME JournalTypeOK
  PROVE  /\ HeadBatch \in Seq(Samples)
         /\ Len(HeadBatch) \in Nat /\ Len(HeadBatch) <= Len(cacheFile.recs)
         /\ HeadBatch = SubSeq(cacheFile.recs, 1, Len(HeadBatch))
         /\ \A i \in 1..Len(HeadBatch) : HeadBatch[i] = cacheFile.recs[i]
  <1>1. cacheFile.recs \in Seq(Samples) /\ Len(cacheFile.recs) \in Nat
    BY JournalNumbers
  <1>2. BatchRecords \in Nat \ {0}
    BY ReplayAssumption DEF ReplayAssumption
  <1>3. PICK n \in 0..Len(cacheFile.recs) : HeadBatch = SubSeq(cacheFile.recs, 1, n)
    BY <1>1, <1>2 DEF HeadBatch
  <1>4. /\ SubSeq(cacheFile.recs, 1, n) \in Seq(Samples)
        /\ Len(SubSeq(cacheFile.recs, 1, n)) = n
        /\ \A i \in 1..n : SubSeq(cacheFile.recs, 1, n)[i] = cacheFile.recs[i]
    BY <1>1
  <1>5. QED
    BY <1>3, <1>4

LEMMA BatchIdProperties ==
  ASSUME NEW batch \in Batch
  PROVE  /\ BatchId(batch) \in BatchIds
         /\ Len(batch) \in Nat \ {0}
         /\ BatchId(batch)[1] = batch[1] /\ BatchId(batch)[3] = batch[Len(batch)]
  <1>1. batch \in Seq(Samples) /\ Len(batch) \in Nat \ {0}
    BY DEF Batch
  <1>2. batch[1] \in Samples /\ batch[Len(batch)] \in Samples
    BY <1>1
  <1>3. QED
    BY <1>1, <1>2 DEF BatchId, BatchIds

(* CloudTypeOK, part by part.                                              *)
IsWork(inv) ==
  /\ inv = [batch |-> inv.batch, done |-> inv.done]
  /\ inv.batch \in Batch /\ inv.done \in 0..Len(inv.batch)

IsAck(ack) ==
  /\ ack = [id |-> ack.id, count |-> ack.count, accepted |-> ack.accepted]
  /\ ack.id \in BatchIds /\ ack.count \in Nat /\ ack.accepted \in BOOLEAN

LEMMA CloudTypeParts ==
  CloudTypeOK <=> /\ uplink \subseteq Batch
                  /\ \A inv \in work : IsWork(inv)
                  /\ history \subseteq Samples
                  /\ \A ack \in acks : IsAck(ack)
                  /\ sessionSubscribed \in BOOLEAN
  BY DEF CloudTypeOK, IsWork, IsAck

LEMMA AckProperties ==
  ASSUME NEW batch \in Batch, NEW accepted \in BOOLEAN
  PROVE  /\ IsAck(Ack(batch, accepted))
         /\ Ack(batch, accepted).id = BatchId(batch)
         /\ Ack(batch, accepted).count = Len(batch)
         /\ Ack(batch, accepted).accepted = accepted
  <1>1. BatchId(batch) \in BatchIds /\ Len(batch) \in Nat
    BY BatchIdProperties
  <1>2. QED
    BY <1>1 DEF Ack, IsAck

LEMMA BackfillStepType ==
  ASSUME CloudTypeOK, BackfillStep
  PROVE  CloudTypeOK'
  <1>0. /\ uplink \subseteq Batch
        /\ \A inv \in work : IsWork(inv)
        /\ history \subseteq Samples
        /\ \A ack \in acks : IsAck(ack)
        /\ sessionSubscribed \in BOOLEAN
    BY CloudTypeParts
  <1> SUFFICES /\ uplink' \subseteq Batch
               /\ \A inv \in work' : IsWork(inv)
               /\ history' \subseteq Samples
               /\ \A ack \in acks' : IsAck(ack)
               /\ sessionSubscribed' \in BOOLEAN
    BY DEF CloudTypeOK, IsWork, IsAck
  <1>1. ASSUME NEW batch \in uplink, Invoke(batch)
        PROVE  /\ uplink' \subseteq Batch
               /\ \A inv \in work' : IsWork(inv)
               /\ \A ack \in acks' : IsAck(ack)
    <2>1. batch \in Batch /\ Len(batch) \in Nat
      BY <1>0, <1>1, BatchIdProperties
    <2>2. uplink' \subseteq uplink
      BY <1>1 DEF Invoke
    <2>3. IsWork([batch |-> batch, done |-> 0])
      BY <2>1 DEF IsWork
    <2>4. work' \subseteq work \cup {[batch |-> batch, done |-> 0]}
      BY <1>1 DEF Invoke
    <2>5. acks' \subseteq acks \cup {Ack(batch, FALSE)}
      BY <1>1 DEF Invoke, PublishAck
    <2>6. FALSE \in BOOLEAN
      OBVIOUS
    <2>7. IsAck(Ack(batch, FALSE))
      BY <2>1, <2>6, AckProperties
    <2>8. QED
      BY <1>0, <2>2, <2>3, <2>4, <2>5, <2>7
  <1>2. ASSUME NEW inv \in work, StoreSample(inv)
        PROVE  history' \subseteq Samples /\ \A i \in work' : IsWork(i)
    <2>1. /\ inv = [batch |-> inv.batch, done |-> inv.done]
          /\ inv.batch \in Seq(Samples) /\ inv.batch \in Batch
          /\ inv.done \in 0..Len(inv.batch) /\ Len(inv.batch) \in Nat
      BY <1>0, <1>2 DEF IsWork, Batch
    <2>2. inv.done + 1 \in 1..Len(inv.batch)
      BY <1>2, <2>1 DEF StoreSample
    <2>3. inv.batch[inv.done + 1] \in Samples
      BY <2>1, <2>2
    <2>4. [inv EXCEPT !.done = @ + 1] = [batch |-> inv.batch, done |-> inv.done + 1]
      BY <2>1
    <2>5. IsWork([inv EXCEPT !.done = @ + 1])
      BY <2>1, <2>2, <2>4 DEF IsWork
    <2>6. QED
      BY <1>0, <1>2, <2>3, <2>5 DEF StoreSample
  <1>3. ASSUME NEW inv \in work, Acknowledge(inv)
        PROVE  (\A i \in work' : IsWork(i)) /\ \A ack \in acks' : IsAck(ack)
    <2>1. TRUE \in BOOLEAN /\ inv.batch \in Batch
      BY <1>0, <1>3 DEF IsWork
    <2>2. IsAck(Ack(inv.batch, TRUE))
      BY <2>1, AckProperties
    <2>3. acks' \subseteq acks \cup {Ack(inv.batch, TRUE)} /\ work' \subseteq work
      BY <1>3 DEF Acknowledge, PublishAck
    <2>4. QED
      BY <1>0, <2>2, <2>3
  <1>4. QED
    BY <1>0, <1>1, <1>2, <1>3
    DEF BackfillStep, Invoke, StoreSample, Acknowledge, InvocationFails, LoseBatch

LEMMA CloudTypeKept ==
  ASSUME TypeInv, Next
  PROVE  CloudTypeOK'
  <1>0. JournalTypeOK /\ CloudTypeOK
    BY DEF TypeInv, JournalType
  <1>1. CASE UNCHANGED backfillVars
    BY <1>0, <1>1 DEF CloudTypeOK, backfillVars
  <1>2. CASE LoopReconnects
    BY <1>0, <1>2 DEF LoopReconnects, SessionOpens, CloudTypeOK
  <1>3. CASE \E ack \in acks : LoopReads(ack)
    BY <1>0, <1>3 DEF LoopReads, TakeAck, CloudTypeOK
  <1>4. CASE CacheIdle \/ CacheReplayFails
    BY <1>0, <1>4 DEF CacheIdle, CacheReplayFails, SubscriptionSent, CloudTypeOK
  <1>5. CASE CacheReplays
    <2>1. HeadBatch \in Batch
      BY <1>0, <1>5, HeadProperties DEF CacheReplays, Batch
    <2>2. /\ uplink' \subseteq uplink \cup {HeadBatch}
          /\ UNCHANGED <<work, history, acks>>
          /\ sessionSubscribed' \in {sessionSubscribed, TRUE}
      BY <1>5 DEF CacheReplays, PublishBatch, SubscriptionSent
    <2>3. QED
      BY <1>0, <2>1, <2>2 DEF CloudTypeOK
  <1>6. CASE CloudWorks
    BY <1>0, <1>6, BackfillStepType DEF CloudWorks
  <1>7. QED
    BY <1>1, <1>2, <1>3, <1>4, <1>5, <1>6
    DEF Next, Round, Command, World, LoopOffline, LoopIdles,
        AckIgnored, AckRejected, AckAccepted, RemovalSucceeds, RemovalFails,
        LiveDisconnected, LivePublished, LiveNotDue, CacheDisabled,
        CacheOffline, SubscribeFails, PurgeBegins, PurgeEnds, DisableCache,
        DisablePurges, EnableCache, LinkDrops, RetryElapses, PowerLoss,
        PowerOn, JournalWorks, SetupEnds

(* The samples that can be found are samples.                              *)
LEMMA RecoverableSamples ==
  ASSUME JournalTypeOK
  PROVE  Recoverable \subseteq Samples
  <1>1. cacheFile.recs \in Seq(Samples) /\ nextFile.recs \in Seq(Samples)
    BY JournalNumbers
  <1>2. SamplesIn(cacheFile) \subseteq Samples /\ SamplesIn(nextFile) \subseteq Samples
    BY <1>1 DEF SamplesIn
  <1>3. QED
    BY <1>2 DEF Recoverable

LEMMA LoopTypeKept ==
  ASSUME TypeInv, Next
  PROVE  LoopTypeOK'
  <1>0. JournalTypeOK /\ LoopTypeOK
    BY DEF TypeInv, JournalType
  <1>1. pc' \in {"client", "live", "cache", "purge", "disabled"}
    BY <1>0
    DEF LoopTypeOK, Next, Round, Command, World, LoopOffline, LoopReconnects,
        LoopIdles, LoopReads, AckIgnored, AckRejected, AckAccepted,
        RemovalSucceeds, RemovalFails, LiveDisconnected, LivePublished,
        LiveNotDue, CacheDisabled, CacheOffline, SubscribeFails, CacheIdle,
        CacheReplays, CacheReplayFails, Subscription, PurgeBegins, PurgeEnds,
        DisableCache, DisablePurges, EnableCache, LinkDrops, RetryElapses,
        PowerLoss, PowerOn, JournalWorks, SetupEnds, CloudWorks, loopVars
  <1>2. pendingBatchId' \in BatchIds /\ pendingBatchCount' \in Nat
    <2>1. CASE UNCHANGED <<pendingBatchId, pendingBatchCount>>
      BY <1>0, <2>1 DEF LoopTypeOK
    <2>2. CASE RemovalSucceeds \/ PurgeEnds \/ PowerLoss
      <3>1. NoBatch \in BatchIds
        BY DEF NoBatch, BatchIds
      <3>2. pendingBatchId' = NoBatch /\ pendingBatchCount' = 0
        BY <2>2 DEF RemovalSucceeds, PurgeEnds, PowerLoss, RamReset
      <3>3. QED
        BY <3>1, <3>2
    <2>3. CASE CacheReplays
      <3>1. HeadBatch \in Batch
        BY <1>0, <2>3, HeadProperties DEF CacheReplays, Batch
      <3>2. QED
        BY <2>3, <3>1, BatchIdProperties DEF CacheReplays
    <2>4. QED
      BY <2>1, <2>2, <2>3
      DEF Next, Round, Command, World, LoopOffline, LoopReconnects,
        LoopIdles, LoopReads, AckIgnored, AckRejected, AckAccepted,
        RemovalFails, LiveDisconnected, LivePublished,
        LiveNotDue, CacheDisabled, CacheOffline, SubscribeFails, CacheIdle,
        CacheReplayFails, Subscription, PurgeBegins,
        DisableCache, DisablePurges, EnableCache, LinkDrops, RetryElapses,
        PowerOn, JournalWorks, SetupEnds, CloudWorks, ramVars
  <1>3. /\ link' \in BOOLEAN /\ freshLive' \in BOOLEAN
        /\ previousConnected' \in BOOLEAN /\ subscribed' \in BOOLEAN
        /\ waitingForAck' \in BOOLEAN /\ replayBlocked' \in BOOLEAN
        /\ retryHeld' \in BOOLEAN /\ enabled' \in BOOLEAN
    <2>1. CASE Round
      <3> USE <1>0, <2>1
          DEF LoopTypeOK, Round, LoopOffline, LoopReconnects,
            LoopIdles, LoopReads, AckIgnored, AckRejected, AckAccepted,
            RemovalSucceeds, RemovalFails, LiveDisconnected, LivePublished,
            LiveNotDue, CacheDisabled, CacheOffline, SubscribeFails, CacheIdle,
            CacheReplays, CacheReplayFails, Subscription, loopVars, ramVars
      <3>1. link' \in BOOLEAN
        OBVIOUS
      <3>2. freshLive' \in BOOLEAN /\ previousConnected' \in BOOLEAN
        OBVIOUS
      <3>3. subscribed' \in BOOLEAN /\ waitingForAck' \in BOOLEAN
        OBVIOUS
      <3>4. replayBlocked' \in BOOLEAN /\ retryHeld' \in BOOLEAN
        OBVIOUS
      <3>5. enabled' \in BOOLEAN
        OBVIOUS
      <3>6. QED
        BY <3>1, <3>2, <3>3, <3>4, <3>5
    <2>2. CASE Command
      BY <1>0, <2>2
      DEF LoopTypeOK, Command, PurgeBegins, PurgeEnds, DisableCache,
        DisablePurges, EnableCache, loopVars, ramVars
    <2>3. CASE World \/ PowerOn \/ JournalWorks \/ SetupEnds
      BY <1>0, <2>3
      DEF LoopTypeOK, World, LinkDrops, RetryElapses, PowerLoss, RamReset,
        PowerOn, JournalWorks, SetupEnds, CloudWorks, loopVars, ramVars
    <2>4. QED
      BY <2>1, <2>2, <2>3 DEF Next
  <1>4. taken' \in 0..MaxSamples /\ purged' \subseteq Samples
    <2>1. CASE UNCHANGED ghostVars
      BY <1>0, <2>1 DEF LoopTypeOK, ghostVars
    <2>2. CASE CacheOffline
      <3>1. MaxSamples \in Nat /\ taken \in 0..MaxSamples /\ purged \subseteq Samples
        BY <1>0, ReplayAssumption DEF LoopTypeOK, ReplayAssumption
      <3>2. purged' = purged /\ (taken' = taken \/ (taken < MaxSamples /\ taken' = taken + 1))
        BY <2>2 DEF CacheOffline
      <3>3. QED
        BY <3>1, <3>2
    <2>3. CASE PurgeBegins \/ DisablePurges \/ PurgeEnds
      BY <1>0, <2>3, RecoverableSamples
      DEF PurgeBegins, DisablePurges, PurgeEnds, LoopTypeOK
    <2>4. QED
      BY <2>1, <2>2, <2>3
      DEF Next, Round, Command, World, LoopOffline, LoopReconnects,
        LoopIdles, LoopReads, AckIgnored, AckRejected, AckAccepted,
        RemovalSucceeds, RemovalFails, LiveDisconnected, LivePublished,
        LiveNotDue, CacheDisabled, SubscribeFails, CacheIdle,
        CacheReplays, CacheReplayFails, Subscription,
        DisableCache, EnableCache, LinkDrops, RetryElapses,
        PowerLoss, PowerOn, JournalWorks, SetupEnds, CloudWorks, ghostVars
  <1>5. QED
    BY <1>1, <1>2, <1>3, <1>4 DEF LoopTypeOK

LEMMA PurgeInvKept ==
  ASSUME TypeInv, Next
  PROVE  PurgeInv'
  <1>0. PurgeInv
    BY DEF TypeInv
  <1>1. CASE PurgeBegins \/ DisablePurges
    BY <1>1, NoFileProperties
    DEF PurgeBegins, DisablePurges, PurgeCacheFile, At, PurgeInv
  <1>2. CASE pc' # "purge"
    BY <1>2 DEF PurgeInv
  <1>3. CASE pc' = pc /\ UNCHANGED <<cacheFile, step>>
    BY <1>0, <1>3 DEF PurgeInv
  <1>4. CASE JournalWorks \/ RemovalSucceeds \/ RemovalFails \/ SetupEnds \/ PowerOn
    <2>1. step # "idle" /\ pc' = pc
      BY <1>4
      DEF JournalWorks, JournalStep, RecoverJournal, ScanJournal, OpenNext,
        CopyRecords, RemoveCache, RenameNext, RemovalSucceeds, RemovalFails,
        SetupEnds, PowerOn, JournalUp, loopVars
    <2>2. QED
      BY <1>0, <2>1 DEF PurgeInv
  <1>5. QED
    BY <1>1, <1>2, <1>3, <1>4
    DEF Next, Round, Command, World, At, LoopOffline, LoopReconnects,
        LoopIdles, LoopReads, AckIgnored, AckRejected, AckAccepted,
        LiveDisconnected, LivePublished,
        LiveNotDue, CacheDisabled, CacheOffline, SubscribeFails, CacheIdle,
        CacheReplays, CacheReplayFails, Subscription, PurgeEnds,
        DisableCache, EnableCache, LinkDrops, RetryElapses,
        PowerLoss, CloudWorks, loopVars, journalVars

LEMMA TypeInvKept == TypeInv /\ [Next]_vars => TypeInv'
  <1> SUFFICES ASSUME TypeInv, [Next]_vars PROVE TypeInv'
    OBVIOUS
  <1>1. CASE Next
    BY <1>1, JournalTypeKept, CloudTypeKept, LoopTypeKept, PurgeInvKept DEF TypeInv
  <1>2. CASE UNCHANGED vars
    BY <1>2
    DEF vars, journalVars, backfillVars, loopVars, ramVars, ghostVars, TypeInv,
      JournalType, JournalTypeOK, LenInv, CloudTypeOK, LoopTypeOK, PurgeInv
  <1>3. QED
    BY <1>1, <1>2

(* Every variable keeps its type, and recordCount its capacity, whatever   *)
(* calls of the file system fail.                                          *)
THEOREM TypeCorrect == Spec => []TypeOK
  <1>1. TypeInv => TypeOK
    BY DEF TypeInv, JournalType, TypeOK
  <1>2. QED
    BY <1>1, TypeInvKept, TypeInit, PTL DEF Spec

-----------------------------------------------------------------------------
(* Whatever calls fail, the batch in wait is the head of the journal: any  *)
(* operation that changes the file ends the wait, or runs in a boot, when  *)
(* there is none.                                                          *)
HeadInv == TypeInv /\ BootInv /\ PendingIsHead

LEMMA BootInvKept ==
  ASSUME HeadInv, Next
  PROVE  BootInv'
  <1>0. BootInv
    BY DEF HeadInv
  <1>1. CASE UNCHANGED <<step, caller>> /\ (waitingForAck' = FALSE \/ UNCHANGED waitingForAck)
    BY <1>0, <1>1 DEF BootInv
  <1>2. CASE step' = "idle"
    BY <1>2 DEF BootInv
  <1>3. CASE PowerLoss
    BY <1>3 DEF PowerLoss, RamReset, BootInv
  <1>4. CASE \E ack \in acks : AckAccepted(ack)
    BY <1>4 DEF AckAccepted, BeginRemoval, BootInv
  <1>5. CASE PowerOn \/ JournalWorks
    <2>1. step # "idle" /\ UNCHANGED <<caller, waitingForAck>>
      BY <1>5 DEF PowerOn, JournalUp, JournalWorks, JournalStep, RecoverJournal,
        ScanJournal, OpenNext, CopyRecords, RemoveCache, RenameNext, ramVars
    <2>2. QED
      BY <1>0, <2>1 DEF BootInv
  <1>6. CASE CacheReplays
    BY <1>6 DEF CacheReplays, At, Subscription, journalVars, BootInv
  <1>7. QED
    BY <1>1, <1>2, <1>3, <1>4, <1>5, <1>6
    DEF Next, Round, Command, World, LoopOffline, LoopReconnects,
        LoopIdles, LoopReads, AckIgnored, AckRejected,
        RemovalSucceeds, RemovalFails, EndOperation, LiveDisconnected,
        LivePublished, LiveNotDue, CacheDisabled, CacheOffline, AppendRecord,
        AppendShort, SubscribeFails, CacheIdle, Subscription, CacheReplayFails,
        PurgeBegins, PurgeCacheFile, PurgeEnds, PurgeNextFile, DisableCache,
        DisablePurges, EnableCache, LinkDrops, RetryElapses,
        SetupEnds, CloudWorks, journalVars, ramVars

(* The batch in wait stays the head of the journal.                        *)
LEMMA PendingIsHeadKept ==
  ASSUME HeadInv, Next
  PROVE  PendingIsHead'
  <1>0. JournalTypeOK /\ PendingIsHead /\ BootInv /\ step \in Steps
    BY DEF HeadInv, TypeInv, JournalType, JournalTypeOK
  <1>1. CASE waitingForAck' = FALSE \/ step' # "idle" \/ pc' = "purge"
    BY <1>1 DEF PendingIsHead
  <1>2. CASE /\ UNCHANGED <<cacheFile, step, waitingForAck, pendingBatchId,
                            pendingBatchCount>>
             /\ pc = "purge" => pc' = "purge"
    BY <1>0, <1>2 DEF PendingIsHead
  <1>3. CASE CacheReplays
    <2>1. /\ UNCHANGED cacheFile
          /\ HeadBatch # <<>>
          /\ pendingBatchId' = BatchId(HeadBatch)
          /\ pendingBatchCount' = Len(HeadBatch)
      BY <1>3 DEF CacheReplays, Subscription, journalVars
    <2>2. /\ HeadBatch \in Seq(Samples) /\ Len(HeadBatch) \in Nat
          /\ Len(HeadBatch) <= Len(cacheFile.recs)
          /\ HeadBatch = SubSeq(cacheFile.recs, 1, Len(HeadBatch))
      BY <1>0, HeadProperties
    <2>3. Len(HeadBatch) \in 1..Len(cacheFile.recs)
      <3>1. Len(HeadBatch) # 0
        BY <2>1, <2>2
      <3>2. Len(cacheFile.recs) \in Nat
        BY <1>0, JournalNumbers
      <3>3. QED
        BY <2>2, <3>1, <3>2
    <2>4. QED
      BY <2>1, <2>2, <2>3 DEF PendingIsHead
  <1>4. CASE SetupEnds
    <2>1. ~waitingForAck /\ UNCHANGED waitingForAck
      BY <1>0, <1>4 DEF SetupEnds, BootInv, ramVars
    <2>2. QED
      BY <2>1 DEF PendingIsHead
  <1>5. CASE JournalWorks
    <2>1. step' # "idle"
      BY <1>5
      DEF JournalWorks, JournalStep, RecoverJournal, ScanJournal, OpenNext,
          CopyRecords, CopyPart, CopyFails, RemoveCache, RenameNext, AbortRewrite
    <2>2. QED
      BY <1>1, <2>1
  <1>6. CASE LivePublished \/ LiveDisconnected \/ LiveNotDue \/ CacheDisabled \/ CacheIdle
             \/ CacheReplayFails \/ SubscribeFails
    BY <1>2, <1>6
    DEF LivePublished, LiveDisconnected, LiveNotDue, CacheDisabled, CacheIdle,
        CacheReplayFails, SubscribeFails, Subscription, At, journalVars, ramVars
  <1>7. CASE \/ LoopOffline \/ LoopReconnects \/ LoopIdles
             \/ \E ack \in acks : AckIgnored(ack) \/ AckRejected(ack) \/ AckAccepted(ack)
    BY <1>1, <1>2, <1>7
    DEF LoopOffline, LoopReconnects, LoopIdles, LoopReads, AckIgnored,
        AckRejected, AckAccepted, BeginRemoval, At, journalVars, ramVars
  <1>8. CASE RemovalSucceeds \/ RemovalFails \/ CacheOffline
    BY <1>1, <1>8 DEF RemovalSucceeds, RemovalFails, CacheOffline
  <1>9. CASE Command
    BY <1>1, <1>2, <1>9
    DEF Command, PurgeBegins, PurgeEnds, DisableCache, DisablePurges,
        EnableCache, At, journalVars, loopVars, ramVars
  <1>10. CASE World \/ PowerOn
    BY <1>1, <1>2, <1>10
    DEF World, LinkDrops, RetryElapses, PowerLoss, RamReset, CloudWorks,
        PowerOn, JournalUp, journalVars, loopVars, ramVars
  <1>11. QED
    BY <1>3, <1>4, <1>5, <1>6, <1>7, <1>8, <1>9, <1>10 DEF Next, Round

LEMMA HeadInvInit == Init => HeadInv
  BY TypeInit DEF Init, JournalInit, HeadInv, BootInv, PendingIsHead

LEMMA HeadInvKept == HeadInv /\ [Next]_vars => HeadInv'
  <1> SUFFICES ASSUME HeadInv, [Next]_vars PROVE HeadInv'
    OBVIOUS
  <1>1. TypeInv'
    BY TypeInvKept DEF HeadInv
  <1>2. CASE Next
    BY <1>1, <1>2, BootInvKept, PendingIsHeadKept DEF HeadInv
  <1>3. CASE UNCHANGED vars
    BY <1>1, <1>3 DEF vars, journalVars, loopVars, ramVars, HeadInv, BootInv, PendingIsHead
  <1>4. QED
    BY <1>2, <1>3

(* removeAcknowledged(), which deletes by count, deletes what the          *)
(* acknowledgement was about: whatever calls of the file system fail, the  *)
(* batch in wait is the head of the journal.                               *)
THEOREM PendingStaysHead == Spec => []PendingIsHead
  <1>1. HeadInv => PendingIsHead
    BY DEF HeadInv
  <1>2. QED
    BY HeadInvInit, HeadInvKept, <1>1, PTL DEF Spec

-----------------------------------------------------------------------------
(* A removal leaves out only what is stored, whatever calls fail: what is  *)
(* said of a batch covers the samples of both files, for a scratch file    *)
(* that was left behind may become the journal at the next boot.           *)
ProtocolInv ==
  /\ HeadInv /\ FilesInv /\ RewriteInv
  /\ RemovedAreStored /\ CloudInv /\ SentInv

LEMMA HistoryGrows == Next => history \subseteq history'
  BY DEF Next, Round, Command, World, LoopOffline, LoopReconnects, SessionOpens,
      LoopIdles, LoopReads, TakeAck, AckIgnored, AckRejected, AckAccepted,
      RemovalSucceeds, RemovalFails, LiveDisconnected, LivePublished,
      LiveNotDue, CacheDisabled, CacheOffline, SubscribeFails, CacheIdle,
      CacheReplays, CacheReplayFails, PurgeBegins, PurgeEnds, DisableCache,
      DisablePurges, EnableCache, LinkDrops, RetryElapses, PowerLoss, PowerOn,
      JournalWorks, SetupEnds, CloudWorks, BackfillStep, Invoke, LoseBatch,
      StoreSample, Acknowledge, InvocationFails, backfillVars

LEMMA TakenGrows ==
  ASSUME LoopTypeOK, Next
  PROVE  taken \in Nat /\ taken' \in {taken, taken + 1}
  <1>1. taken \in Nat
    BY ReplayAssumption DEF LoopTypeOK, ReplayAssumption
  <1>2. taken' \in {taken, taken + 1}
    BY DEF Next, Round, Command, World, LoopOffline, LoopReconnects, LoopIdles,
        LoopReads, AckIgnored, AckRejected, AckAccepted, RemovalSucceeds,
        RemovalFails, LiveDisconnected, LivePublished, LiveNotDue,
        CacheDisabled, CacheOffline, SubscribeFails, CacheIdle, CacheReplays,
        CacheReplayFails, Subscription, PurgeBegins, PurgeEnds, DisableCache,
        DisablePurges, EnableCache, LinkDrops, RetryElapses, PowerLoss, PowerOn,
        JournalWorks, SetupEnds, CloudWorks, ghostVars
  <1>3. QED
    BY <1>1, <1>2

(* The samples that the rewrite in progress leaves out are in the journal. *)
LEMMA SkipProperties ==
  ASSUME JournalTypeOK, RemovedAreStored, step \in {"open", "copy", "unlink"}
  PROVE  /\ skip \in 0..Len(cacheFile.recs)
         /\ \A i \in 1..skip : cacheFile.recs[i] \in history
  <1>1. /\ skip \in Nat /\ cacheFile.recs \in Seq(Samples)
        /\ Len(cacheFile.recs) \in Nat
    BY JournalNumbers
  <1>2. \A i \in 1..skip : i \in DOMAIN cacheFile.recs /\ cacheFile.recs[i] \in history
    BY DEF RemovedAreStored
  <1>3. skip <= Len(cacheFile.recs)
    <2>1. CASE skip = 0
      BY <1>1, <2>1
    <2>2. CASE skip # 0
      <3>1. skip \in 1..skip
        BY <1>1, <2>2
      <3>2. skip \in DOMAIN cacheFile.recs
        BY <1>2, <3>1
      <3>3. QED
        BY <1>1, <3>2
    <2>3. QED
      BY <2>1, <2>2
  <1>4. QED
    BY <1>1, <1>2, <1>3

(* A part of a sequence of samples, and what it keeps.                     *)
LEMMA PartProperties ==
  ASSUME NEW recs \in Seq(Samples), NEW k \in Nat, NEW n \in 0..Len(recs)
  PROVE  \A i \in DOMAIN SubSeq(recs, k + 1, n) :
           /\ i \in Nat /\ k + i \in DOMAIN recs
           /\ SubSeq(recs, k + 1, n)[i] = recs[k + i]
  OBVIOUS

LEMMA PartKeepsOrder ==
  ASSUME NEW recs \in Seq(Samples), NEW k \in Nat, NEW n \in 0..Len(recs),
         Ascending(recs), TakenOnly(recs)
  PROVE  /\ Ascending(SubSeq(recs, k + 1, n)) /\ TakenOnly(SubSeq(recs, k + 1, n))
         /\ \A i \in DOMAIN SubSeq(recs, k + 1, n) :
              \E j \in DOMAIN recs : SubSeq(recs, k + 1, n)[i] = recs[j]
  <1> DEFINE part == SubSeq(recs, k + 1, n)
  <1>1. \A i \in DOMAIN part :
          i \in Nat /\ k + i \in DOMAIN recs /\ part[i] = recs[k + i]
    BY PartProperties
  <1> HIDE DEF part
  <1>2. ASSUME NEW i \in DOMAIN part, NEW j \in DOMAIN part, i < j
        PROVE  part[i] < part[j]
    <2>1. /\ part[i] = recs[k + i] /\ part[j] = recs[k + j]
          /\ k + i \in DOMAIN recs /\ k + j \in DOMAIN recs /\ k + i < k + j
      BY <1>1, <1>2
    <2>2. QED
      BY <2>1 DEF Ascending
  <1>3. Ascending(part) /\ TakenOnly(part)
    BY <1>1, <1>2 DEF Ascending, TakenOnly
  <1>4. QED
    BY <1>1, <1>3 DEF part

LEMMA NoFileHolds ==
  /\ Ascending(NoFile.recs) /\ TakenOnly(NoFile.recs) /\ SamplesIn(NoFile) = {}
  /\ ~NoFile.exists /\ ~NoFile.torn
  BY NoFileProperties DEF Ascending, TakenOnly, SamplesIn

(* Files that were removed, renamed, damaged at the end or rewritten from  *)
(* the journal are in order, and have no sample that was on neither.       *)
LEMMA FilesStay ==
  ASSUME FilesInv, taken \in Nat, taken' \in {taken, taken + 1},
         \/ /\ \/ cacheFile' \in {cacheFile, NoFile}
               \/ cacheFile'.exists /\ cacheFile'.recs = cacheFile.recs
            /\ nextFile' \in {nextFile, NoFile}
         \/ cacheFile' = nextFile /\ nextFile' = NoFile
         \/ /\ UNCHANGED cacheFile
            /\ nextFile'.exists /\ SamplesIn(nextFile)' \subseteq SamplesIn(cacheFile)
            /\ Ascending(nextFile'.recs) /\ TakenOnly(nextFile'.recs)
  PROVE  FilesInv' /\ Held' \subseteq Held
  <1>1. \A n : n \in 1..taken => n \in 1..taken'
    OBVIOUS
  <1>2. ASSUME NEW recs, Ascending(recs), TakenOnly(recs)
        PROVE  Ascending(recs)' /\ TakenOnly(recs)'
    BY <1>1, <1>2 DEF Ascending, TakenOnly
  <1>3. RecordsInv
    BY DEF FilesInv
  <1>4. CASE /\ \/ cacheFile' \in {cacheFile, NoFile}
                \/ cacheFile'.exists /\ cacheFile'.recs = cacheFile.recs
             /\ nextFile' \in {nextFile, NoFile}
    <2>1. /\ cacheFile'.recs \in {cacheFile.recs, NoFile.recs}
          /\ SamplesIn(cacheFile)' \in {SamplesIn(cacheFile), {}}
      BY <1>4, NoFileHolds DEF SamplesIn
    <2>2. /\ nextFile'.recs \in {nextFile.recs, NoFile.recs}
          /\ SamplesIn(nextFile)' \in {SamplesIn(nextFile), {}}
      BY <1>4, NoFileHolds DEF SamplesIn
    <2>3. RecordsInv'
      BY <1>1, <1>3, <2>1, <2>2, NoFileHolds DEF RecordsInv, Ascending, TakenOnly
    <2>4. /\ ~cacheFile'.exists => cacheFile' = NoFile
          /\ ~nextFile'.exists => nextFile' = NoFile
      BY <1>4 DEF FilesInv
    <2>5. \A s \in SamplesIn(nextFile)' :
            s \in SamplesIn(cacheFile)' \/ \A t \in SamplesIn(cacheFile)' : s < t
      BY <2>1, <2>2 DEF FilesInv
    <2>6. QED
      BY <2>1, <2>2, <2>3, <2>4, <2>5 DEF FilesInv, Held
  <1>5. CASE cacheFile' = nextFile /\ nextFile' = NoFile
    <2>1. /\ SamplesIn(cacheFile)' = SamplesIn(nextFile)
          /\ SamplesIn(nextFile)' = {}
      BY <1>5, NoFileHolds DEF SamplesIn
    <2>2. RecordsInv'
      BY <1>1, <1>3, <1>5, NoFileHolds DEF RecordsInv, Ascending, TakenOnly
    <2>3. QED
      BY <1>5, <2>1, <2>2 DEF FilesInv, Held
  <1>6. CASE /\ UNCHANGED cacheFile
             /\ nextFile'.exists /\ SamplesIn(nextFile)' \subseteq SamplesIn(cacheFile)
             /\ Ascending(nextFile'.recs) /\ TakenOnly(nextFile'.recs)
    <2>1. SamplesIn(cacheFile)' = SamplesIn(cacheFile)
      BY <1>6 DEF SamplesIn
    <2>2. RecordsInv'
      BY <1>1, <1>3, <1>6 DEF RecordsInv, Ascending, TakenOnly
    <2>3. QED
      BY <1>6, <2>1, <2>2 DEF FilesInv, Held
  <1>7. QED
    BY <1>4, <1>5, <1>6

(* Each step of a journal operation does one of that.                      *)
LEMMA JournalStepFiles ==
  ASSUME JournalTypeOK, FilesInv, RewriteInv, RemovedAreStored, JournalStep
  PROVE  \/ UNCHANGED cacheFile /\ nextFile' \in {nextFile, NoFile}
         \/ cacheFile' = NoFile /\ UNCHANGED nextFile
         \/ cacheFile' = nextFile /\ nextFile' = NoFile
         \/ /\ UNCHANGED cacheFile
            /\ nextFile'.exists /\ SamplesIn(nextFile)' \subseteq SamplesIn(cacheFile)
            /\ Ascending(nextFile'.recs) /\ TakenOnly(nextFile'.recs)
  <1> DEFINE Copied ==
        /\ nextFile'.exists /\ SamplesIn(nextFile)' \subseteq SamplesIn(cacheFile)
        /\ Ascending(nextFile'.recs) /\ TakenOnly(nextFile'.recs)
  <1>1. CASE RecoverJournal
    BY <1>1 DEF RecoverJournal
  <1>2. CASE ScanJournal
    BY <1>2 DEF ScanJournal
  <1>3. CASE OpenNext
    <2>1. CASE nextFile' = FileOf(<<>>, FALSE)
      <3>1. nextFile'.recs = <<>> /\ nextFile'.exists
        BY <2>1 DEF FileOf
      <3>2. Copied
        BY <3>1 DEF Ascending, TakenOnly, SamplesIn
      <3>3. QED
        BY <1>3, <3>2 DEF OpenNext
    <2>2. QED
      BY <1>3, <2>1 DEF OpenNext
  <1>4. CASE CopyRecords
    <2> DEFINE part(n) == SubSeq(cacheFile.recs, skip + 1, n)
    <2>1. /\ cacheFile.recs \in Seq(Samples) /\ skip \in Nat
          /\ Len(cacheFile.recs) \in Nat
          /\ Ascending(cacheFile.recs) /\ TakenOnly(cacheFile.recs)
      BY JournalNumbers DEF FilesInv, RecordsInv
    <2>2. ASSUME NEW n \in 0..Len(cacheFile.recs), NEW torn,
                 nextFile' = FileOf(part(n), torn)
          PROVE  Copied
      <3>1. nextFile'.recs = part(n) /\ nextFile'.exists
        BY <2>2 DEF FileOf
      <3>2. /\ Ascending(part(n)) /\ TakenOnly(part(n))
            /\ \A i \in DOMAIN part(n) : \E j \in DOMAIN cacheFile.recs :
                 part(n)[i] = cacheFile.recs[j]
        BY <2>1, PartKeepsOrder
      <3> HIDE DEF part
      <3>3. SamplesIn(nextFile)' \subseteq SamplesIn(cacheFile)
        BY <3>1, <3>2 DEF SamplesIn
      <3>4. QED
        BY <3>1, <3>2, <3>3
    <2>3. CASE CopyPart
      <3>1. PICK n \in skip + 1 .. Len(cacheFile.recs) - 1 :
              nextFile' = FileOf(part(n), FALSE)
        BY <2>3 DEF CopyPart
      <3>2. n \in 0..Len(cacheFile.recs)
        BY <2>1
      <3> HIDE DEF part, Copied
      <3>3. Copied
        BY <2>2, <3>1, <3>2
      <3>4. QED
        BY <1>4, <3>3 DEF CopyRecords, Copied
    <2>4. CASE CopyFails
      BY <1>4, <2>4 DEF CopyRecords, CopyFails
    <2>5. CASE ~CopyPart /\ ~CopyFails
      <3>1. PICK torn : nextFile' = FileOf(part(Len(cacheFile.recs)), torn)
        BY <1>4, <2>5 DEF CopyRecords
      <3>2. Len(cacheFile.recs) \in 0..Len(cacheFile.recs)
        BY <2>1
      <3> HIDE DEF part, Copied
      <3>3. Copied
        BY <2>2, <3>1, <3>2
      <3>4. QED
        BY <1>4, <3>3 DEF CopyRecords, Copied
    <2>6. QED
      BY <2>3, <2>4, <2>5
  <1>5. CASE RemoveCache
    BY <1>5 DEF RemoveCache
  <1>6. CASE RenameNext
    BY <1>6 DEF RenameNext
  <1>7. QED
    BY <1>1, <1>2, <1>3, <1>4, <1>5, <1>6 DEF JournalStep

LEMMA JournalStepRewrites ==
  ASSUME JournalTypeOK, FilesInv, RewriteInv, RemovedAreStored, JournalStep,
         UNCHANGED history
  PROVE  RewriteInv' /\ RemovedAreStored'
  <1>0. skip \in Nat /\ (cacheFile.torn => cacheFile.exists)
    BY JournalNumbers, NoFileProperties DEF FilesInv
  <1>1. CASE step' \in {"scan", "done", "failed"}
    BY <1>1 DEF RewriteInv, RemovedAreStored
  <1>2. CASE /\ UNCHANGED <<cacheFile, skip>> /\ step \in {"open", "copy"}
             /\ step' \in {"copy", "unlink"}
    BY <1>2 DEF RewriteInv, RemovedAreStored
  <1>3. CASE ScanJournal /\ step' = "open"
    <2>1. UNCHANGED cacheFile /\ cacheFile.exists /\ skip' = 0
      BY <1>0, <1>3 DEF ScanJournal
    <2>2. \A i \in 1..skip' : FALSE
      BY <2>1
    <2>3. QED
      BY <1>3, <2>1, <2>2 DEF RewriteInv, RemovedAreStored
  <1>4. CASE RemoveCache /\ step' = "rename"
    <2>1. cacheFile' = NoFile
      BY <1>4 DEF RemoveCache, AbortRewrite
    <2>2. QED
      BY <1>4, <2>1, NoFileProperties DEF RewriteInv, RemovedAreStored
  <1>5. QED
    BY <1>1, <1>2, <1>3, <1>4
    DEF JournalStep, RecoverJournal, ScanJournal, OpenNext, CopyRecords, CopyPart,
        CopyFails, RemoveCache, RenameNext, AbortRewrite

(* An append puts the youngest sample behind all others.                   *)
LEMMA AppendFiles ==
  ASSUME FilesInv, cacheFile.recs \in Seq(Samples), taken \in Nat, taken' = taken + 1,
         UNCHANGED nextFile, cacheFile' = FileOf(Append(cacheFile.recs, taken + 1), FALSE)
  PROVE  FilesInv' /\ Held' \subseteq Held \cup {taken + 1}
  <1> DEFINE recs == cacheFile.recs
             longer == Append(recs, taken + 1)
  <1>1. cacheFile'.recs = longer /\ cacheFile'.exists
    BY DEF FileOf
  <1>2. /\ DOMAIN longer = 1..Len(recs) + 1 /\ DOMAIN recs = 1..Len(recs)
        /\ longer[Len(recs) + 1] = taken + 1
        /\ \A i \in 1..Len(recs) : longer[i] = recs[i]
        /\ Len(recs) \in Nat
    OBVIOUS
  <1>3. /\ \A i \in 1..Len(recs) : recs[i] \in 1..taken
        /\ \A i, j \in 1..Len(recs) : i < j => recs[i] < recs[j]
    BY <1>2 DEF FilesInv, RecordsInv, TakenOnly, Ascending
  <1>4. Ascending(nextFile.recs)' /\ TakenOnly(nextFile.recs)'
    <2>1. \A n : n \in 1..taken => n \in 1..taken'
      OBVIOUS
    <2>2. QED
      BY <2>1 DEF FilesInv, RecordsInv, Ascending, TakenOnly
  <1> HIDE DEF recs, longer
  <1>5. SamplesIn(cacheFile)' = SamplesIn(cacheFile) \cup {taken + 1}
    <2>1. \A i \in DOMAIN longer :
            \/ i \in DOMAIN recs /\ longer[i] = recs[i]
            \/ longer[i] = taken + 1
      BY <1>2
    <2>2. /\ \A i \in DOMAIN recs : i \in DOMAIN longer /\ longer[i] = recs[i]
          /\ Len(recs) + 1 \in DOMAIN longer
      BY <1>2
    <2>3. /\ SamplesIn(cacheFile) = {recs[i] : i \in DOMAIN recs}
          /\ SamplesIn(cacheFile)' = {longer[i] : i \in DOMAIN longer}
      BY <1>1 DEF SamplesIn, recs
    <2>4. QED
      BY <1>2, <2>1, <2>2, <2>3
  <1>6. Ascending(longer)
    <2>1. ASSUME NEW i \in DOMAIN longer, NEW j \in DOMAIN longer, i < j
          PROVE  longer[i] < longer[j]
      <3>1. i \in 1..Len(recs)
        BY <1>2, <2>1
      <3>2. CASE j \in 1..Len(recs)
        BY <1>2, <1>3, <2>1, <3>1, <3>2
      <3>3. CASE j = Len(recs) + 1
        <4>1. longer[i] = recs[i] /\ longer[j] = taken + 1 /\ recs[i] \in 1..taken
          BY <1>2, <1>3, <3>1, <3>3
        <4>2. QED
          BY <4>1
      <3>4. QED
        BY <1>2, <2>1, <3>2, <3>3
    <2>2. QED
      BY <2>1 DEF Ascending
  <1>7. \A i \in DOMAIN longer : longer[i] \in 1..taken'
    <2>1. ASSUME NEW i \in DOMAIN longer PROVE longer[i] \in 1..taken'
      <3>1. CASE i \in 1..Len(recs)
        <4>1. longer[i] = recs[i] /\ recs[i] \in 1..taken
          BY <1>2, <1>3, <3>1
        <4>2. QED
          BY <4>1
      <3>2. CASE i = Len(recs) + 1
        BY <1>2, <3>2
      <3>3. QED
        BY <1>2, <2>1, <3>1, <3>2
    <2>2. QED
      BY <2>1
  <1>8. RecordsInv'
    BY <1>1, <1>4, <1>6, <1>7 DEF RecordsInv, Ascending, TakenOnly
  <1>9. /\ SamplesIn(nextFile)' = SamplesIn(nextFile)
        /\ \A s \in SamplesIn(nextFile) : s \in 1..taken
    BY DEF SamplesIn, FilesInv, RecordsInv, TakenOnly
  <1>10. \A s \in SamplesIn(nextFile)' :
           s \in SamplesIn(cacheFile)' \/ \A t \in SamplesIn(cacheFile)' : s < t
    <2>1. ASSUME NEW s \in SamplesIn(nextFile)', s \notin SamplesIn(cacheFile)',
                 NEW t \in SamplesIn(cacheFile)'
          PROVE  s < t
      <3>1. s \in SamplesIn(nextFile) /\ s \in 1..taken /\ s \notin SamplesIn(cacheFile)
        BY <1>5, <1>9, <2>1
      <3>2. CASE t = taken + 1
        BY <3>1, <3>2
      <3>3. CASE t \in SamplesIn(cacheFile)
        BY <3>1, <3>3 DEF FilesInv
      <3>4. QED
        BY <1>5, <3>2, <3>3
    <2>2. QED
      BY <2>1
  <1>11. FilesInv'
    <2>1. ~nextFile'.exists => nextFile' = NoFile
      BY DEF FilesInv
    <2>2. QED
      BY <1>1, <1>8, <1>10, <2>1 DEF FilesInv
  <1>12. QED
    BY <1>5, <1>9, <1>11 DEF Held

(* The only sample that a step can add to those on flash is the next one.  *)
LEMMA FilesKept ==
  ASSUME ProtocolInv, Next
  PROVE  FilesInv' /\ \A s \in Held' : s \in Held \/ s = taken + 1
  <1>0. /\ JournalTypeOK /\ FilesInv /\ RewriteInv /\ RemovedAreStored
        /\ cacheFile.recs \in Seq(Samples)
        /\ taken \in Nat /\ taken' \in {taken, taken + 1}
    BY JournalNumbers, TakenGrows DEF ProtocolInv, HeadInv, TypeInv, JournalType
  <1>1. CASE UNCHANGED <<cacheFile, nextFile>>
    BY <1>0, <1>1, FilesStay
  <1>2. CASE PurgeBegins \/ DisablePurges \/ PurgeEnds
    BY <1>0, <1>2, FilesStay
    DEF PurgeBegins, DisablePurges, PurgeEnds, PurgeCacheFile, PurgeNextFile
  <1>3. ASSUME cacheFile' = FileOf(cacheFile.recs, TRUE), UNCHANGED nextFile
        PROVE  FilesInv' /\ Held' \subseteq Held
    <2>1. cacheFile'.recs = cacheFile.recs /\ cacheFile'.exists
      BY <1>3 DEF FileOf
    <2>2. QED
      BY <1>0, <1>3, <2>1, FilesStay
  <1>4. CASE CacheOffline
    <2>1. CASE AppendRecord(taken + 1) /\ taken' = taken + 1
      <3>1. CASE cacheFile.torn
        BY <1>1, <2>1, <3>1 DEF AppendRecord
      <3>2. CASE ~cacheFile.torn
        BY <1>0, <2>1, <3>2, AppendFiles DEF AppendRecord
      <3>3. QED
        BY <3>1, <3>2
    <2>2. QED
      BY <1>1, <1>3, <1>4, <2>1 DEF CacheOffline, AppendShort, journalVars
  <1>5. CASE PowerLoss
    BY <1>1, <1>3, <1>5 DEF PowerLoss, JournalDown
  <1>6. CASE JournalWorks
    BY <1>0, <1>6, JournalStepFiles, FilesStay DEF JournalWorks
  <1>7. QED
    BY <1>1, <1>2, <1>4, <1>5, <1>6
    DEF Next, Round, Command, World, LoopOffline, LoopReconnects, LoopIdles,
        LoopReads, AckIgnored, AckRejected, AckAccepted, BeginRemoval,
        RemovalSucceeds, RemovalFails, SetupEnds, EndOperation,
        LiveDisconnected, LivePublished, LiveNotDue, CacheDisabled,
        SubscribeFails, CacheIdle, CacheReplays, CacheReplayFails,
        Subscription, DisableCache, EnableCache, LinkDrops, RetryElapses,
        CloudWorks, PowerOn, JournalUp, journalVars

(* What is in flight stays true: a sample that comes on flash is           *)
(* younger than all that was ever sent.                                    *)
WorkDone(inv) ==
  /\ Ascending(inv.batch) /\ Covers(inv.batch)
  /\ \A i \in 1..inv.done : inv.batch[i] \in history

AckTrue(ack) == ack.accepted => Stored(ack.id)

LEMMA CoversStays ==
  ASSUME taken \in Nat, \A s \in Held' : s \in Held \/ s = taken + 1,
         NEW batch \in Batch, \A i \in DOMAIN batch : batch[i] \in 1..taken,
         Covers(batch)
  PROVE  Covers(batch)'
  <1>1. batch[Len(batch)] \in 1..taken
    <2>1. Len(batch) \in DOMAIN batch
      BY DEF Batch
    <2>2. QED
      BY <2>1
  <1>2. ASSUME NEW s \in Held', batch[1] <= s, s <= batch[Len(batch)]
        PROVE  \E i \in DOMAIN batch : batch[i] = s
    <2>1. s # taken + 1
      BY <1>1, <1>2
    <2>2. QED
      BY <1>2, <2>1 DEF Covers
  <1>3. QED
    BY <1>2 DEF Covers

LEMMA StoredStays ==
  ASSUME taken \in Nat, taken' \in {taken, taken + 1}, history \subseteq history',
         \A s \in Held' : s \in Held \/ s = taken + 1,
         NEW id, Stored(id)
  PROVE  Stored(id)'
  <1>1. id[3] \in 1..taken /\ id[3] \in 1..taken'
    BY DEF Stored
  <1>2. ASSUME NEW s \in Held', id[1] <= s, s <= id[3]
        PROVE  s \in history'
    <2>1. s # taken + 1
      BY <1>1, <1>2
    <2>2. QED
      BY <1>2, <2>1 DEF Stored
  <1>3. QED
    BY <1>1, <1>2 DEF Stored

LEMMA InFlightStays ==
  ASSUME ProtocolInv, Next
  PROVE  /\ \A batch \in uplink : Ascending(batch) /\ Covers(batch)'
         /\ \A inv \in work : WorkDone(inv)'
         /\ \A ack \in acks : AckTrue(ack)'
  <1>0. /\ CloudTypeOK /\ CloudInv /\ SentInv /\ LoopTypeOK
    BY DEF ProtocolInv, HeadInv, TypeInv
  <1>1. /\ taken \in Nat /\ taken' \in {taken, taken + 1}
        /\ history \subseteq history'
        /\ \A s \in Held' : s \in Held \/ s = taken + 1
    BY <1>0, TakenGrows, HistoryGrows, FilesKept
  <1>2. ASSUME NEW batch \in uplink PROVE Ascending(batch) /\ Covers(batch)'
    <2>1. batch \in Batch /\ \A i \in DOMAIN batch : batch[i] \in 1..taken
      BY <1>0 DEF CloudTypeOK, SentInv
    <2>2. Ascending(batch) /\ Covers(batch)
      BY <1>0 DEF CloudInv
    <2>3. QED
      BY <1>1, <2>1, <2>2, CoversStays
  <1>3. ASSUME NEW inv \in work PROVE WorkDone(inv)'
    <2> DEFINE batch == inv.batch
    <2>1. batch \in Batch /\ \A i \in DOMAIN batch : batch[i] \in 1..taken
      BY <1>0 DEF CloudTypeOK, SentInv
    <2>2. /\ Ascending(batch) /\ Covers(batch)
          /\ \A i \in 1..inv.done : batch[i] \in history
      BY <1>0 DEF CloudInv
    <2>3. Covers(batch)'
      BY <1>1, <2>1, <2>2, CoversStays
    <2>4. QED
      BY <1>1, <2>2, <2>3 DEF WorkDone, Ascending
  <1>4. ASSUME NEW ack \in acks PROVE AckTrue(ack)'
    <2> DEFINE id == ack.id
    <2>1. CASE ack.accepted
      <3>1. Stored(id)
        BY <1>0, <2>1 DEF CloudInv
      <3>2. Stored(id)'
        BY <1>1, <3>1, StoredStays
      <3>3. QED
        BY <3>2 DEF AckTrue
    <2>2. CASE ~ack.accepted
      BY <2>2 DEF AckTrue
    <2>3. QED
      BY <2>1, <2>2
  <1>5. QED
    BY <1>2, <1>3, <1>4

LEMMA HeadCovers ==
  ASSUME JournalTypeOK, FilesInv, HeadBatch # <<>>
  PROVE  Ascending(HeadBatch) /\ Covers(HeadBatch)
  <1> DEFINE recs == cacheFile.recs
             n == Len(HeadBatch)
  <1>1. /\ recs \in Seq(Samples) /\ Len(recs) \in Nat /\ DOMAIN recs = 1..Len(recs)
        /\ n \in Nat \ {0} /\ n <= Len(recs) /\ DOMAIN HeadBatch = 1..n
        /\ \A i \in 1..n : HeadBatch[i] = recs[i]
    <2>1. /\ HeadBatch \in Seq(Samples) /\ Len(HeadBatch) \in Nat
          /\ Len(HeadBatch) <= Len(recs)
          /\ \A i \in 1..Len(HeadBatch) : HeadBatch[i] = recs[i]
      BY HeadProperties
    <2>2. recs \in Seq(Samples) /\ Len(recs) \in Nat
      BY JournalNumbers
    <2>3. QED
      BY <2>1, <2>2
  <1>2. \A i, j \in 1..Len(recs) : i < j => recs[i] < recs[j]
    BY <1>1 DEF FilesInv, RecordsInv, Ascending
  <1>3. \A s \in Held : s \in SamplesIn(cacheFile) \/ \A t \in SamplesIn(cacheFile) : s < t
    BY DEF Held, FilesInv
  <1>4. SamplesIn(cacheFile) = {recs[i] : i \in 1..Len(recs)}
    BY <1>1 DEF SamplesIn
  <1>5. \A i \in 1..Len(recs) : recs[i] \in Int
    BY <1>1 DEF FilesInv, RecordsInv, TakenOnly
  <1> HIDE DEF recs, n
  <1>0. \A s \in Held : s \in Int
    BY DEF Held, SamplesIn, FilesInv, RecordsInv, TakenOnly
  <1>6. Ascending(HeadBatch)
    <2>1. ASSUME NEW i \in 1..n, NEW j \in 1..n, i < j
          PROVE  HeadBatch[i] < HeadBatch[j]
      <3>1. i \in 1..Len(recs) /\ j \in 1..Len(recs)
        BY <1>1
      <3>2. QED
        BY <1>1, <1>2, <2>1, <3>1
    <2>2. QED
      BY <1>1, <2>1 DEF Ascending
  <1>7. ASSUME NEW s \in Held, HeadBatch[1] <= s, s <= HeadBatch[n]
        PROVE  \E i \in DOMAIN HeadBatch : HeadBatch[i] = s
    <2>0. s \in SamplesIn(cacheFile)
      <3>1. /\ 1 \in 1..Len(recs) /\ HeadBatch[1] = recs[1]
            /\ recs[1] \in SamplesIn(cacheFile)
        BY <1>1, <1>4
      <3>2. CASE s < recs[1]
        <4>1. recs[1] \in Int /\ s \in Int
          BY <1>0, <1>5, <3>1
        <4>2. QED
          BY <1>7, <3>1, <3>2, <4>1
      <3>3. QED
        BY <1>3, <3>1, <3>2
    <2>1. PICK i \in 1..Len(recs) : recs[i] = s
      BY <1>4, <2>0
    <2>2. n \in 1..Len(recs) /\ HeadBatch[n] = recs[n]
      BY <1>1
    <2>3. i <= n
      <3>1. CASE n < i
        <4>1. recs[n] < recs[i] /\ recs[i] <= recs[n]
          BY <1>2, <1>7, <2>1, <2>2, <3>1
        <4>2. QED
          BY <1>5, <2>1, <2>2, <4>1
      <3>2. QED
        BY <1>1, <2>1, <3>1
    <2>4. QED
      BY <1>1, <2>1, <2>3
  <1>8. QED
    BY <1>6, <1>7 DEF Covers, n

LEMMA CloudInvKept ==
  ASSUME ProtocolInv, Next
  PROVE  CloudInv'
  <1>0. /\ JournalTypeOK /\ CloudTypeOK /\ SentInv /\ FilesInv
        /\ \A inv \in work : IsWork(inv)
        /\ \A batch \in uplink : Ascending(batch) /\ Covers(batch)'
        /\ \A inv \in work : WorkDone(inv)'
        /\ \A ack \in acks : AckTrue(ack)'
        /\ history \subseteq history'
    BY InFlightStays, CloudTypeParts, HistoryGrows
    DEF ProtocolInv, HeadInv, TypeInv, JournalType
  <1> SUFFICES /\ \A batch \in uplink' : Ascending(batch) /\ Covers(batch)'
               /\ \A inv \in work' : WorkDone(inv)'
               /\ \A ack \in acks' : AckTrue(ack)'
    BY DEF CloudInv, WorkDone, AckTrue, Ascending
  <1>1. CASE UNCHANGED <<uplink, work>> /\ acks' \subseteq acks
    BY <1>0, <1>1
  <1>2. CASE CacheReplays
    <2>1. HeadBatch # <<>> /\ UNCHANGED <<cacheFile, nextFile, work, acks>>
      BY <1>2 DEF CacheReplays, Subscription, journalVars
    <2>2. Ascending(HeadBatch) /\ Covers(HeadBatch)
      BY <1>0, <2>1, HeadCovers
    <2>3. uplink' \subseteq uplink \cup {HeadBatch}
      BY <1>2 DEF CacheReplays, PublishBatch
    <2>4. Held' = Held
      BY <2>1 DEF Held, SamplesIn
    <2>5. ASSUME NEW batch \in uplink' PROVE Ascending(batch) /\ Covers(batch)'
      <3>1. CASE batch \in uplink
        BY <1>0, <3>1
      <3>2. CASE batch = HeadBatch
        BY <2>2, <2>4, <3>2 DEF Covers
      <3>3. QED
        BY <2>3, <2>5, <3>1, <3>2
    <2>6. QED
      BY <1>0, <2>1, <2>5
  <1>3. ASSUME NEW batch \in uplink, Invoke(batch), CloudWorks
        PROVE  /\ uplink' \subseteq uplink
               /\ \A inv \in work' : WorkDone(inv)'
               /\ \A ack \in acks' : AckTrue(ack)'
    <2> DEFINE next == [batch |-> batch, done |-> 0]
    <2>1. uplink' \subseteq uplink /\ work' \subseteq work \cup {next}
      BY <1>3 DEF Invoke
    <2>2. next.batch = batch /\ next.done = 0
      OBVIOUS
    <2> HIDE DEF next
    <2>3. WorkDone(next)'
      BY <1>0, <2>2 DEF WorkDone, Ascending
    <2>4. AckTrue(Ack(batch, FALSE))'
      BY DEF AckTrue, Ack
    <2>5. acks' \subseteq acks \cup {Ack(batch, FALSE)}
      BY <1>3 DEF Invoke, PublishAck
    <2>6. QED
      BY <1>0, <2>1, <2>3, <2>4, <2>5
  <1>4. ASSUME NEW inv \in work, StoreSample(inv)
        PROVE  \A i \in work' : WorkDone(i)'
    <2>1. /\ inv = [batch |-> inv.batch, done |-> inv.done]
          /\ inv.done \in 0..Len(inv.batch) /\ Len(inv.batch) \in Nat
          /\ WorkDone(inv)'
      BY <1>0, <1>4 DEF IsWork, Batch
    <2>2. history' = history \cup {inv.batch[inv.done + 1]}
      BY <1>4 DEF StoreSample
    <2> DEFINE next == [batch |-> inv.batch, done |-> inv.done + 1]
    <2>3. work' = (work \ {inv}) \cup {next}
      <3>1. [inv EXCEPT !.done = @ + 1] = next
        BY <2>1
      <3>2. QED
        BY <1>4, <3>1 DEF StoreSample
    <2>4. next.batch = inv.batch /\ next.done = inv.done + 1
      OBVIOUS
    <2> HIDE DEF next
    <2>5. WorkDone(next)'
      <3>1. \A i \in 1..inv.done : inv.batch[i] \in history'
        BY <2>1 DEF WorkDone
      <3>2. \A i \in 1..inv.done + 1 : i \in 1..inv.done \/ i = inv.done + 1
        BY <2>1
      <3>3. \A i \in 1..inv.done + 1 : inv.batch[i] \in history'
        BY <2>2, <3>1, <3>2
      <3>4. QED
        BY <2>1, <2>4, <3>3 DEF WorkDone, Ascending
    <2>6. QED
      BY <1>0, <2>3, <2>5
  <1>5. ASSUME NEW inv \in work, Acknowledge(inv), CloudWorks
        PROVE  work' \subseteq work /\ \A ack \in acks' : AckTrue(ack)'
    <2> DEFINE batch == inv.batch
    <2>1. /\ batch \in Batch /\ inv.done = Len(batch)
          /\ Covers(batch)' /\ \A i \in 1..Len(batch) : batch[i] \in history'
          /\ \A i \in DOMAIN batch : batch[i] \in 1..taken
          /\ DOMAIN batch = 1..Len(batch) /\ Len(batch) \in DOMAIN batch
      BY <1>0, <1>5 DEF Acknowledge, IsWork, WorkDone, SentInv, Batch
    <2>2. TRUE \in BOOLEAN
      OBVIOUS
    <2>3. /\ Ack(batch, TRUE).id[1] = batch[1]
          /\ Ack(batch, TRUE).id[3] = batch[Len(batch)]
      <3> HIDE DEF batch
      <3>1. Ack(batch, TRUE).id = BatchId(batch)
        BY <2>1, <2>2, AckProperties
      <3>2. batch \in Batch
        BY <2>1
      <3>3. BatchId(batch)[1] = batch[1] /\ BatchId(batch)[3] = batch[Len(batch)]
        BY <3>2, BatchIdProperties
      <3>4. QED
        BY <3>1, <3>3
    <2>4. taken' = taken
      BY <1>5 DEF CloudWorks, ghostVars
    <2>5. acks' \subseteq acks \cup {Ack(batch, TRUE)} /\ work' \subseteq work
      BY <1>5 DEF Acknowledge, PublishAck
    <2> HIDE DEF batch
    <2>6. Stored(Ack(batch, TRUE).id)'
      BY <2>1, <2>3, <2>4 DEF Stored, Covers
    <2>7. AckTrue(Ack(batch, TRUE))'
      BY <2>6 DEF AckTrue
    <2>8. QED
      BY <1>0, <2>5, <2>7
  <1>6. CASE CloudWorks
    BY <1>0, <1>3, <1>4, <1>5, <1>6
    DEF CloudWorks, BackfillStep, StoreSample, Acknowledge, InvocationFails, LoseBatch
  <1>7. QED
    BY <1>1, <1>2, <1>6
    DEF Next, Round, Command, World, LoopOffline, LoopReconnects, SessionOpens,
        LoopIdles, LoopReads, TakeAck, AckIgnored, AckRejected, AckAccepted,
        RemovalSucceeds, RemovalFails, LiveDisconnected, LivePublished,
        LiveNotDue, CacheDisabled, CacheOffline, SubscribeFails, CacheIdle,
        CacheReplayFails, PurgeBegins, PurgeEnds, DisableCache,
        DisablePurges, EnableCache, LinkDrops, RetryElapses, PowerLoss, PowerOn,
        JournalWorks, SetupEnds, backfillVars

(* What is in flight stays among the samples taken.                        *)
LEMMA SentInvKept ==
  ASSUME ProtocolInv, Next
  PROVE  SentInv'
  <1>0. /\ JournalTypeOK /\ LoopTypeOK /\ SentInv /\ CloudTypeOK
        /\ TakenOnly(cacheFile.recs) /\ taken \in Nat
    BY ReplayAssumption
    DEF ProtocolInv, HeadInv, TypeInv, JournalType, FilesInv, RecordsInv, LoopTypeOK,
        ReplayAssumption
  <1>1. taken' = taken \/ taken' = taken + 1
    BY <1>0, TakenGrows
  <1>2. \A s : s \in 1..taken => s \in 1..taken'
    BY <1>0, <1>1
  <1>3. CASE UNCHANGED <<uplink, work>>
    BY <1>0, <1>2, <1>3 DEF SentInv
  <1>4. CASE CacheReplays
    <2>1. uplink' \subseteq uplink \cup {HeadBatch} /\ UNCHANGED work
      BY <1>4 DEF CacheReplays, PublishBatch
    <2>2. ASSUME NEW i \in DOMAIN HeadBatch
          PROVE  HeadBatch[i] \in 1..taken
      <3>1. /\ HeadBatch \in Seq(Samples) /\ Len(HeadBatch) \in Nat
            /\ Len(HeadBatch) <= Len(cacheFile.recs)
            /\ \A j \in 1..Len(HeadBatch) : HeadBatch[j] = cacheFile.recs[j]
        BY <1>0, HeadProperties
      <3>2. cacheFile.recs \in Seq(Samples) /\ Len(cacheFile.recs) \in Nat
        BY <1>0, JournalNumbers
      <3>3. i \in 1..Len(cacheFile.recs) /\ HeadBatch[i] = cacheFile.recs[i]
        BY <2>2, <3>1, <3>2
      <3>4. QED
        BY <1>0, <3>2, <3>3 DEF TakenOnly
    <2>3. QED
      BY <1>0, <1>2, <2>1, <2>2 DEF SentInv
  <1>5. CASE CloudWorks
    <2>1. CASE \E batch \in uplink : Invoke(batch)
      <3>1. PICK batch \in uplink : Invoke(batch)
        BY <2>1
      <3>2. /\ uplink' \subseteq uplink
            /\ work' \subseteq work \cup {[batch |-> batch, done |-> 0]}
        BY <3>1 DEF Invoke
      <3>3. [batch |-> batch, done |-> 0].batch = batch
        OBVIOUS
      <3>4. QED
        BY <1>0, <1>2, <3>2, <3>3 DEF SentInv
    <2>2. CASE \E batch \in uplink : LoseBatch(batch)
      BY <1>0, <1>2, <2>2 DEF LoseBatch, SentInv
    <2>3. CASE \E inv \in work : StoreSample(inv)
      <3>1. PICK inv \in work : StoreSample(inv)
        BY <2>3
      <3>2. [inv EXCEPT !.done = @ + 1].batch = inv.batch
        BY <1>0 DEF CloudTypeOK
      <3>3. QED
        BY <1>0, <1>2, <3>1, <3>2 DEF StoreSample, SentInv
    <2>4. CASE \E inv \in work : Acknowledge(inv) \/ InvocationFails(inv)
      BY <1>0, <1>2, <2>4 DEF Acknowledge, InvocationFails, SentInv
    <2>5. QED
      BY <1>5, <2>1, <2>2, <2>3, <2>4 DEF CloudWorks, BackfillStep
  <1>6. QED
    BY <1>3, <1>4, <1>5
    DEF Next, Round, Command, World, LoopOffline, LoopReconnects, SessionOpens,
        LoopIdles, LoopReads, TakeAck, AckIgnored, AckRejected, AckAccepted,
        RemovalSucceeds, RemovalFails, LiveDisconnected, LivePublished,
        LiveNotDue, CacheDisabled, CacheOffline, SubscribeFails, CacheIdle,
        CacheReplayFails, PurgeBegins, PurgeEnds, DisableCache, DisablePurges,
        EnableCache, LinkDrops, RetryElapses, PowerLoss, PowerOn, JournalWorks,
        SetupEnds, backfillVars

(* An acknowledgement that matches the batch in wait speaks of the head of *)
(* the journal: the two begin and end with the same samples, and all that  *)
(* is on flash between them is stored.                                     *)
LEMMA AcceptedIsHead ==
  ASSUME ProtocolInv, NEW ack \in acks, AckAccepted(ack)
  PROVE  /\ cacheFile.exists
         /\ \A i \in 1..pendingBatchCount :
              i \in DOMAIN cacheFile.recs /\ cacheFile.recs[i] \in history
  <1> DEFINE recs == cacheFile.recs
             count == pendingBatchCount
             head == SubSeq(recs, 1, count)
  <1>0. /\ JournalTypeOK /\ FilesInv /\ CloudInv /\ PendingIsHead
    BY DEF ProtocolInv, HeadInv, TypeInv, JournalType
  <1>1. /\ recs \in Seq(Samples) /\ Len(recs) \in Nat
    BY <1>0, JournalNumbers
  <1>2. /\ count \in 1..Len(recs) /\ pendingBatchId = BatchId(head)
        /\ ack.id = pendingBatchId /\ ack.accepted
    BY <1>0 DEF AckAccepted, LoopReads, At, Expected, PendingIsHead
  <1>3. head[1] = recs[1] /\ head[Len(head)] = recs[count]
    BY <1>1, <1>2
  <1>4. ack.id[1] = recs[1] /\ ack.id[3] = recs[count]
    BY <1>2, <1>3 DEF BatchId
  <1>5. \A s \in Held : recs[1] <= s /\ s <= recs[count] => s \in history
    BY <1>0, <1>2, <1>4 DEF CloudInv, Stored
  <1>6. cacheFile.exists
    BY <1>0, <1>2, NoFileProperties DEF FilesInv
  <1>7. ASSUME NEW i \in 1..count
        PROVE  i \in DOMAIN recs /\ recs[i] \in history
    <2>1. i \in DOMAIN recs /\ 1 \in DOMAIN recs /\ count \in DOMAIN recs /\ i \in Int
      BY <1>1, <1>2
    <2>2. recs[1] <= recs[i] /\ recs[i] <= recs[count]
      <3>1. \A a, b \in DOMAIN recs : a < b => recs[a] < recs[b]
        BY <1>0 DEF FilesInv, RecordsInv, Ascending
      <3>2. recs[1] \in Int /\ recs[i] \in Int /\ recs[count] \in Int
        BY <1>0, <2>1 DEF FilesInv, RecordsInv, TakenOnly
      <3> HIDE DEF recs, count
      <3>3. (i = 1 \/ 1 < i) /\ (i = count \/ i < count)
        BY <1>2, <1>7, <2>1
      <3>4. QED
        BY <2>1, <3>1, <3>2, <3>3
    <2>3. recs[i] \in Held
      BY <2>1 DEF Held, SamplesIn
    <2>4. QED
      BY <1>5, <2>1, <2>2, <2>3
  <1>8. QED
    BY <1>6, <1>7

LEMMA RewriteKept ==
  ASSUME ProtocolInv, Next
  PROVE  RewriteInv' /\ RemovedAreStored'
  <1>0. /\ JournalTypeOK /\ FilesInv /\ RewriteInv /\ RemovedAreStored
        /\ history \subseteq history'
    BY HistoryGrows DEF ProtocolInv, HeadInv, TypeInv, JournalType
  <1>1. CASE UNCHANGED <<cacheFile, step, skip>>
    BY <1>0, <1>1 DEF RewriteInv, RemovedAreStored
  <1>2. CASE step' \in {"idle", "down", "recover"}
    BY <1>2 DEF RewriteInv, RemovedAreStored
  <1>3. CASE \E ack \in acks : AckAccepted(ack)
    <2>1. PICK ack \in acks : AckAccepted(ack)
      BY <1>3
    <2>2. UNCHANGED cacheFile /\ step' = "open" /\ skip' = pendingBatchCount
      BY <2>1 DEF AckAccepted, BeginRemoval
    <2>3. /\ cacheFile.exists
          /\ \A i \in 1..skip' :
               i \in DOMAIN cacheFile.recs /\ cacheFile.recs[i] \in history
      BY <2>1, <2>2, AcceptedIsHead
    <2>4. QED
      BY <1>0, <2>2, <2>3 DEF RewriteInv, RemovedAreStored
  <1>4. CASE JournalWorks
    BY <1>0, <1>4, JournalStepRewrites DEF JournalWorks, backfillVars
  <1>5. CASE CacheOffline
    <2>1. step = "idle" /\ UNCHANGED step
      BY <1>5 DEF CacheOffline, At, AppendRecord, AppendShort, journalVars
    <2>2. QED
      BY <1>2, <2>1
  <1>6. CASE PurgeBegins \/ DisablePurges \/ PurgeEnds
    <2>1. step = "idle" /\ UNCHANGED step
      BY <1>6 DEF PurgeBegins, DisablePurges, PurgeEnds, PurgeCacheFile, PurgeNextFile, At
    <2>2. QED
      BY <1>2, <2>1
  <1>7. QED
    BY <1>1, <1>2, <1>3, <1>4, <1>5, <1>6
    DEF Next, Round, Command, World, LoopOffline, LoopReconnects, LoopIdles,
        LoopReads, AckIgnored, AckRejected,
        RemovalSucceeds, RemovalFails, SetupEnds, EndOperation,
        LiveDisconnected, LivePublished, LiveNotDue, CacheDisabled,
        SubscribeFails, CacheIdle, CacheReplays, CacheReplayFails,
        Subscription, DisableCache, EnableCache, LinkDrops, RetryElapses,
        CloudWorks, PowerLoss, JournalDown, PowerOn, JournalUp, journalVars

LEMMA ProtocolInit == Init => ProtocolInv
  <1> SUFFICES ASSUME Init PROVE ProtocolInv
    OBVIOUS
  <1>1. /\ cacheFile = NoFile /\ nextFile = NoFile /\ step = "down"
        /\ uplink = {} /\ work = {} /\ acks = {}
    BY DEF Init, JournalInit, BackfillInit
  <1>2. FilesInv
    BY <1>1, NoFileHolds DEF FilesInv, RecordsInv
  <1>3. RewriteInv /\ RemovedAreStored /\ CloudInv /\ SentInv
    BY <1>1 DEF RewriteInv, RemovedAreStored, CloudInv, SentInv
  <1>4. QED
    BY <1>2, <1>3, HeadInvInit DEF ProtocolInv

LEMMA ProtocolKept == ProtocolInv /\ [Next]_vars => ProtocolInv'
  <1> SUFFICES ASSUME ProtocolInv, [Next]_vars PROVE ProtocolInv'
    OBVIOUS
  <1>1. HeadInv'
    BY HeadInvKept DEF ProtocolInv
  <1>2. CASE Next
    BY <1>1, <1>2, FilesKept, RewriteKept, CloudInvKept, SentInvKept DEF ProtocolInv
  <1>3. CASE UNCHANGED vars
    <2>1. /\ FilesInv /\ RewriteInv /\ RemovedAreStored /\ CloudInv /\ SentInv
          /\ UNCHANGED <<cacheFile, nextFile, step, skip, taken>>
          /\ UNCHANGED <<uplink, work, history, acks>>
      BY <1>3 DEF ProtocolInv, vars, journalVars, backfillVars, ghostVars
    <2>2. FilesInv'
      BY <2>1 DEF FilesInv, RecordsInv, Ascending, TakenOnly, SamplesIn
    <2>3. RewriteInv' /\ RemovedAreStored'
      BY <2>1 DEF RewriteInv, RemovedAreStored
    <2>4. CloudInv' /\ SentInv'
      <3>1. Held' = Held
        BY <2>1 DEF Held, SamplesIn
      <3>2. QED
        BY <2>1, <3>1 DEF CloudInv, Ascending, Covers, Stored, SentInv
    <2>5. QED
      BY <1>1, <2>2, <2>3, <2>4 DEF ProtocolInv
  <1>4. QED
    BY <1>2, <1>3

(* Whatever calls of the file system fail and whenever the power is lost,  *)
(* removeAcknowledged() leaves out only records whose rows are in History: *)
(* if a sample is lost, it is by a failing call and not by the protocol.   *)
THEOREM RemovalsAreStored == Spec => []RemovedAreStored
  <1>1. ProtocolInv => RemovedAreStored
    BY DEF ProtocolInv
  <1>2. QED
    BY ProtocolInit, ProtocolKept, <1>1, PTL DEF Spec

-----------------------------------------------------------------------------
(* No sample is lost, if of the calls of the file system only the copying  *)
(* to the scratch file and the removal of a file may fail without a power  *)
(* loss.                                                                   *)
OnlyCopyOrRemoveFails == IoFaults \subseteq {"copy", "remove"}

SafeInv == TypeInv /\ IInv

LEMMA SafeIsProtocol ==
  SafeInv <=>
    ProtocolInv /\ ScratchInv /\ TailInv /\ NoUnacknowledgedLoss
  BY DEF SafeInv, IInv, JournalInv, ProtocolInv, HeadInv

(* A repair does not fail then, and a removal never for want of a rename.  *)
LEMMA RewriteFailures ==
  ASSUME OnlyCopyOrRemoveFails
  PROVE  /\ MayFail("copy") => skip # 0
         /\ MayFail("remove") => skip # 0
         /\ ~MayFail("rename")
         /\ "append" \notin IoFaults /\ "rename" \notin IoFaults
  BY DEF OnlyCopyOrRemoveFails, MayFail

(* What a removal or a repair does to the scratch file and to the tail.    *)
LEMMA JournalStepScratch ==
  ASSUME JournalTypeOK, JournalInv, PurgeInv, OnlyCopyOrRemoveFails, JournalStep
  PROVE  ScratchInv' /\ TailInv'
  <1>0. /\ skip \in Nat /\ Len(cacheFile.recs) \in Nat
        /\ cacheFile.torn \in BOOLEAN /\ step \in Steps
    BY JournalNumbers, FileFields DEF JournalTypeOK
  <1>i. FilesInv /\ RewriteInv /\ ScratchInv /\ TailInv
    BY DEF JournalInv
  <1>n. SamplesIn(NoFile) = {} /\ ~NoFile.exists /\ ~NoFile.torn
    BY NoFileHolds
  <1>p. pc # "purge"
    BY DEF PurgeInv, JournalStep, RecoverJournal, ScanJournal, OpenNext,
        CopyRecords, RemoveCache, RenameNext
  <1>1. CASE RecoverJournal
    <2>1. /\ UNCHANGED skip /\ step = "recover" /\ step' = "scan"
          /\ \/ UNCHANGED cacheFile /\ nextFile' = nextFile /\ ~nextFile.exists
             \/ UNCHANGED cacheFile /\ nextFile' \in {nextFile, NoFile} /\ cacheFile.exists
             \/ cacheFile' = nextFile /\ nextFile' = NoFile /\ nextFile.exists
      BY <1>1, RewriteFailures DEF RecoverJournal
    <2>2. ScratchInv'
      BY <1>i, <1>n, <2>1 DEF ScratchInv, SamplesIn
    <2>3. QED
      BY <2>1, <2>2 DEF TailInv
  <1>2. CASE ScanJournal
    <2>1. /\ UNCHANGED <<cacheFile, nextFile>> /\ skip' = 0 /\ step = "scan"
          /\ step' = IF cacheFile.torn THEN "open" ELSE "done"
      BY <1>2 DEF ScanJournal
    <2>2. cacheFile.torn => cacheFile.exists
      BY <1>i, NoFileProperties DEF FilesInv
    <2>3. ScratchInv'
      BY <1>i, <1>p, <2>1, <2>2 DEF ScratchInv, SamplesIn
    <2>4. QED
      BY <1>0, <2>1, <2>3 DEF TailInv
  <1>3. CASE OpenNext
    <2>1. /\ UNCHANGED <<cacheFile, skip>> /\ step = "open"
          /\ cacheFile.exists
          /\ \/ nextFile' = FileOf(<<>>, FALSE) /\ step' = "copy"
             \/ nextFile' \in {nextFile, NoFile} /\ step' = "failed" /\ skip # 0
      BY <1>3, <1>i, RewriteFailures DEF OpenNext, AbortRewrite, RewriteInv
    <2>2. /\ FileOf(<<>>, FALSE).exists /\ ~FileOf(<<>>, FALSE).torn
          /\ FileOf(<<>>, FALSE).recs = <<>>
      BY DEF FileOf
    <2>3. SamplesIn(FileOf(<<>>, FALSE)) = {}
      <3> DEFINE empty == FileOf(<<>>, FALSE)
      <3>1. empty.recs = <<>>
        BY <2>2
      <3> HIDE DEF empty
      <3>2. SamplesIn(empty) = {}
        BY <3>1 DEF SamplesIn
      <3>3. QED
        BY <3>2 DEF empty
    <2>4. ScratchInv'
      BY <1>i, <1>n, <2>1, <2>2, <2>3 DEF ScratchInv, SamplesIn
    <2>5. QED
      BY <1>0, <1>i, <2>1, <2>4 DEF TailInv
  <1>4. CASE CopyRecords
    <2> DEFINE part(n) == SubSeq(cacheFile.recs, skip + 1, n)
               whole == FileOf(part(Len(cacheFile.recs)), FALSE)
    <2>0. UNCHANGED <<cacheFile, skip>> /\ step = "copy" /\ cacheFile.exists
      BY <1>4, <1>i DEF CopyRecords, RewriteInv
    <2>1. SamplesIn(nextFile)' \subseteq SamplesIn(cacheFile)
      <3>1. \/ nextFile' \in {nextFile, NoFile}
            \/ SamplesIn(nextFile)' \subseteq SamplesIn(cacheFile)
        BY <1>4, <2>0, JournalStepFiles DEF JournalInv, JournalStep
      <3>2. QED
        BY <1>i, <1>n, <2>0, <3>1 DEF ScratchInv, SamplesIn
    <2>2. /\ whole.exists /\ ~whole.torn
          /\ whole.recs = SubSeq(cacheFile.recs, skip + 1, Len(cacheFile.recs))
          /\ \A n : ~FileOf(part(n), FALSE).torn
      BY DEF FileOf
    <2>3. \/ nextFile' = whole /\ step' = "unlink"
          \/ (\E n : nextFile' = FileOf(part(n), FALSE)) /\ step' = "copy"
          \/ nextFile' \in {nextFile, NoFile} /\ step' = "failed" /\ skip # 0
      <3>1. \A torn \in {FALSE, cacheFile.torn /\ skip > 0} : torn = FALSE
        <4>1. ~(cacheFile.torn /\ skip > 0)
          BY <1>0, <1>i, <2>0 DEF TailInv
        <4>2. QED
          BY <4>1
      <3>2. CASE CopyPart
        <4>1. \E n : nextFile' = FileOf(part(n), FALSE)
          BY <3>2 DEF CopyPart
        <4>2. step' = "copy"
          BY <2>0, <3>2 DEF CopyPart
        <4> HIDE DEF part
        <4>3. QED
          BY <4>1, <4>2
      <3>3. CASE CopyFails
        BY <3>3, RewriteFailures DEF CopyFails, AbortRewrite
      <3>4. CASE ~CopyPart /\ ~CopyFails
        BY <1>4, <3>1, <3>4 DEF CopyRecords
      <3>5. QED
        BY <3>2, <3>3, <3>4
    <2> HIDE DEF whole, part
    <2>4. ~nextFile'.torn
      BY <1>i, <1>n, <2>2, <2>3 DEF ScratchInv
    <2>5. SamplesIn(cacheFile)' = SamplesIn(cacheFile)
      BY <2>0 DEF SamplesIn
    <2>6. ScratchInv'
      BY <2>0, <2>1, <2>2, <2>3, <2>4, <2>5 DEF ScratchInv
    <2>7. QED
      BY <1>0, <1>i, <2>0, <2>3, <2>6 DEF TailInv
  <1>5. CASE RemoveCache
    <2>1. /\ UNCHANGED <<nextFile, skip>> /\ step = "unlink" /\ cacheFile.exists
          /\ \/ cacheFile' = NoFile /\ step' = "rename"
             \/ cacheFile' = cacheFile /\ step' = "failed" /\ skip # 0
      BY <1>5, <1>i, RewriteFailures DEF RemoveCache, AbortRewrite, RewriteInv
    <2>2. ScratchInv'
      <3>1. CASE cacheFile' = NoFile /\ step' = "rename"
        BY <1>i, <1>n, <2>1, <3>1 DEF ScratchInv
      <3>2. CASE cacheFile' = cacheFile /\ step' = "failed"
        BY <1>i, <2>1, <3>2 DEF ScratchInv, SamplesIn
      <3>3. QED
        BY <2>1, <3>1, <3>2
    <2>3. QED
      BY <1>0, <1>i, <1>n, <2>1, <2>2 DEF TailInv
  <1>6. CASE RenameNext
    <2>1. /\ UNCHANGED skip /\ step = "rename"
          /\ cacheFile' = nextFile /\ nextFile' = NoFile
          /\ step' \in {"done", "scan"}
      BY <1>6, RewriteFailures DEF RenameNext
    <2>2. ScratchInv'
      BY <1>i, <1>n, <2>1 DEF ScratchInv, SamplesIn
    <2>3. ~nextFile.torn
      BY <1>i DEF ScratchInv
    <2>4. QED
      BY <2>1, <2>2, <2>3 DEF TailInv
  <1>7. QED
    BY <1>1, <1>2, <1>3, <1>4, <1>5, <1>6 DEF JournalStep

(* The calls that change the journal from outside a rewrite.               *)
LEMMA ScratchKept ==
  ASSUME SafeInv, OnlyCopyOrRemoveFails, Next
  PROVE  ScratchInv' /\ TailInv'
  <1>0. /\ JournalTypeOK /\ JournalInv /\ PurgeInv /\ ProtocolInv
        /\ cacheFile.recs \in Seq(Samples) /\ step \in Steps
        /\ cacheFile.torn \in BOOLEAN /\ Len(cacheFile.recs) \in Nat
    BY JournalNumbers, FileFields, SafeIsProtocol
    DEF SafeInv, TypeInv, IInv, JournalType, JournalTypeOK
  <1>i. FilesInv /\ RewriteInv /\ ScratchInv /\ TailInv
    BY <1>0 DEF JournalInv
  <1>n. SamplesIn(NoFile) = {} /\ ~NoFile.exists /\ ~NoFile.torn
    BY NoFileHolds
  <1>1. CASE UNCHANGED journalVars /\ (pc = "purge" => pc' = "purge")
    <2>1. ScratchInv'
      BY <1>i, <1>1 DEF ScratchInv, SamplesIn, journalVars
    <2>2. QED
      BY <1>i, <1>1, <2>1 DEF TailInv, journalVars
  <1>2. CASE \E ack \in acks : AckAccepted(ack)
    <2>1. PICK ack \in acks : AckAccepted(ack)
      BY <1>2
    <2>2. /\ UNCHANGED <<cacheFile, nextFile>> /\ step = "idle" /\ pc # "purge"
          /\ step' = "open"
      BY <2>1 DEF AckAccepted, LoopReads, At, BeginRemoval
    <2>3. cacheFile.exists
      BY <1>0, <2>1, AcceptedIsHead
    <2>4. ~cacheFile.torn
      BY <1>i, <2>2 DEF TailInv
    <2>5. ScratchInv'
      BY <1>i, <2>2, <2>3 DEF ScratchInv, SamplesIn
    <2>6. QED
      BY <2>2, <2>4, <2>5 DEF TailInv
  <1>3. CASE RemovalSucceeds \/ RemovalFails \/ SetupEnds
    <2>1. /\ UNCHANGED <<cacheFile, nextFile>>
          /\ step \in {"done", "failed"} /\ step' = "idle"
      BY <1>3 DEF RemovalSucceeds, RemovalFails, SetupEnds, EndOperation
    <2>2. pc # "purge" /\ ~cacheFile.torn
      BY <1>0, <1>i, <2>1 DEF PurgeInv, TailInv
    <2>3. ScratchInv'
      BY <1>i, <2>1, <2>2 DEF ScratchInv, SamplesIn
    <2>4. QED
      BY <2>1, <2>2, <2>3 DEF TailInv
  <1>4. CASE CacheOffline
    <2>1. CASE UNCHANGED journalVars
      BY <1>1, <1>4, <2>1 DEF CacheOffline, At
    <2>2. CASE AppendRecord(taken + 1)
      <3> DEFINE recs == cacheFile.recs
                 longer == Append(recs, taken + 1)
      <3>1. /\ ~cacheFile.torn /\ step = "idle" /\ pc # "purge"
            /\ nextFile.exists => cacheFile.exists
        BY <1>i, <1>4 DEF TailInv, ScratchInv, CacheOffline, At
      <3>2. cacheFile' = FileOf(longer, FALSE) /\ UNCHANGED <<nextFile, step, skip>>
        BY <2>2, <3>1 DEF AppendRecord
      <3>3. cacheFile'.recs = longer /\ cacheFile'.exists /\ ~cacheFile'.torn
        BY <3>2 DEF FileOf
      <3>4. SamplesIn(cacheFile) \subseteq SamplesIn(cacheFile)'
        <4>1. \A i \in DOMAIN recs : i \in DOMAIN longer /\ longer[i] = recs[i]
          BY <1>0
        <4> HIDE DEF longer
        <4>2. QED
          BY <3>3, <4>1 DEF SamplesIn
      <3>5. SamplesIn(nextFile)' \subseteq SamplesIn(cacheFile)'
        <4>1. CASE cacheFile.exists
          BY <1>i, <3>2, <3>4, <4>1 DEF ScratchInv, SamplesIn
        <4>2. CASE ~cacheFile.exists
          <5>1. nextFile' = NoFile
            BY <1>i, <3>1, <3>2, <4>2 DEF FilesInv
          <5>2. QED
            BY <1>n, <5>1 DEF SamplesIn
        <4>3. QED
          BY <4>1, <4>2
      <3> HIDE DEF recs, longer
      <3>6. ScratchInv'
        BY <1>i, <3>1, <3>2, <3>3, <3>5 DEF ScratchInv
      <3>7. QED
        BY <3>3, <3>6 DEF TailInv
    <2>3. CASE AppendShort
      BY <2>3, RewriteFailures DEF AppendShort
    <2>4. QED
      BY <1>4, <2>1, <2>2, <2>3 DEF CacheOffline
  <1>5. CASE PurgeBegins \/ DisablePurges
    <2>1. /\ cacheFile' = NoFile /\ step = "idle" /\ pc' = "purge"
          /\ UNCHANGED <<nextFile, step, skip>>
      BY <1>5 DEF PurgeBegins, DisablePurges, PurgeCacheFile, At
    <2>2. QED
      BY <1>i, <1>n, <2>1 DEF ScratchInv, TailInv
  <1>6. CASE PurgeEnds
    <2>1. nextFile' = NoFile /\ step = "idle" /\ UNCHANGED <<cacheFile, step, skip>>
      BY <1>6 DEF PurgeEnds, PurgeNextFile, At
    <2>2. ScratchInv'
      BY <1>i, <1>n, <2>1 DEF ScratchInv, SamplesIn
    <2>3. QED
      BY <1>i, <2>1, <2>2 DEF TailInv
  <1>7. CASE PowerLoss
    <2>1. /\ UNCHANGED nextFile /\ step' = "down"
          /\ \/ cacheFile' = cacheFile
             \/ /\ cacheFile' = FileOf(cacheFile.recs, TRUE)
                /\ step = "idle" /\ pc = "cache"
      BY <1>7 DEF PowerLoss, JournalDown, At
    <2>2. cacheFile.recs' = cacheFile.recs
      <3>1. FileOf(cacheFile.recs, TRUE).recs = cacheFile.recs
        BY DEF FileOf
      <3>2. QED
        BY <2>1, <3>1
    <2>3. cacheFile.exists' => SamplesIn(nextFile) \subseteq SamplesIn(cacheFile)
      <3>1. CASE cacheFile.exists
        BY <1>i, <3>1 DEF ScratchInv
      <3>2. CASE ~cacheFile.exists /\ cacheFile.exists'
        <4>1. nextFile = NoFile
          BY <1>i, <2>1, <3>2 DEF FilesInv, ScratchInv
        <4>2. QED
          BY <1>n, <4>1
      <3>3. QED
        BY <3>1, <3>2
    <2>4. ScratchInv'
      BY <1>i, <2>1, <2>2, <2>3 DEF ScratchInv, SamplesIn
    <2>5. QED
      BY <2>1, <2>4 DEF TailInv
  <1>8. CASE PowerOn
    <2>1. UNCHANGED <<cacheFile, nextFile, skip>> /\ step = "down" /\ step' = "recover"
      BY <1>8 DEF PowerOn, JournalUp
    <2>2. ScratchInv'
      BY <1>i, <2>1 DEF ScratchInv, SamplesIn
    <2>3. QED
      BY <2>1, <2>2 DEF TailInv
  <1>9. CASE JournalWorks
    BY <1>0, <1>9, JournalStepScratch DEF JournalWorks
  <1>10. CASE \/ LoopOffline \/ LoopReconnects \/ LoopIdles
              \/ \E ack \in acks : AckIgnored(ack) \/ AckRejected(ack)
    BY <1>1, <1>10
    DEF LoopOffline, LoopReconnects, LoopIdles, LoopReads, AckIgnored, AckRejected, At
  <1>11. CASE \/ LiveDisconnected \/ LivePublished \/ LiveNotDue \/ CacheDisabled
              \/ SubscribeFails \/ CacheIdle \/ CacheReplays \/ CacheReplayFails
    BY <1>1, <1>11
    DEF LiveDisconnected, LivePublished, LiveNotDue, CacheDisabled, SubscribeFails,
        CacheIdle, CacheReplays, CacheReplayFails, Subscription, At
  <1>12. CASE DisableCache \/ EnableCache \/ LinkDrops \/ RetryElapses \/ CloudWorks
    BY <1>1, <1>12
    DEF DisableCache, EnableCache, LinkDrops, RetryElapses, CloudWorks, At, loopVars
  <1>13. QED
    BY <1>2, <1>3, <1>4, <1>5, <1>6, <1>7, <1>8, <1>9, <1>10, <1>11, <1>12
    DEF Next, Round, Command, World

(* A step of a rewrite or of the recovery gives up only samples that have  *)
(* their rows.                                                             *)
LEMMA JournalStepKeeps ==
  ASSUME JournalTypeOK, JournalInv, JournalStep
  PROVE  /\ Recoverable \subseteq Recoverable' \cup history
         /\ Recoverable' \subseteq Recoverable
  <1>0. NoFile.recs = <<>> /\ ~NoFile.exists
    BY NoFileProperties
  <1>1. CASE cacheFile' = cacheFile /\ (cacheFile.exists \/ nextFile' = nextFile)
    BY <1>1 DEF Recoverable, SamplesIn
  <1>2. CASE cacheFile' = nextFile /\ nextFile.exists /\ ~cacheFile.exists
    BY <1>2 DEF Recoverable, SamplesIn
  <1>3. CASE RecoverJournal
    BY <1>1, <1>2, <1>3 DEF RecoverJournal
  <1>4. CASE ScanJournal
    BY <1>1, <1>4 DEF ScanJournal
  <1>5. CASE OpenNext \/ CopyRecords
    BY <1>1, <1>5 DEF OpenNext, CopyRecords, JournalInv, RewriteInv
  <1>6. CASE RemoveCache
    <2>1. CASE UNCHANGED <<cacheFile, nextFile>>
      BY <1>1, <2>1
    <2>2. CASE cacheFile' = NoFile /\ UNCHANGED nextFile
      <3> DEFINE recs == cacheFile.recs
      <3>1. /\ recs \in Seq(Samples) /\ Len(recs) \in Nat
            /\ skip \in 0..Len(recs)
            /\ \A i \in 1..skip : recs[i] \in history
            /\ nextFile.recs = SubSeq(recs, skip + 1, Len(recs))
        BY <1>6, JournalNumbers, SkipProperties DEF RemoveCache, JournalInv, ScratchInv
      <3>2. /\ Recoverable = SamplesIn(cacheFile)
            /\ Recoverable' = SamplesIn(nextFile)
        <4>1. cacheFile.exists /\ ~cacheFile'.exists
          BY <1>0, <1>6, <2>2 DEF RemoveCache, JournalInv, RewriteInv
        <4>2. QED
          BY <2>2, <4>1 DEF Recoverable, SamplesIn
      <3>3. /\ nextFile.recs \in Seq(Samples)
            /\ Len(nextFile.recs) = Len(recs) - skip
            /\ \A i \in 1..Len(nextFile.recs) : nextFile.recs[i] = recs[skip + i]
        <4>1. skip \in Nat /\ skip <= Len(recs)
          BY <3>1
        <4> DEFINE rest == SubSeq(recs, skip + 1, Len(recs))
        <4>2. /\ rest \in Seq(Samples) /\ Len(rest) = Len(recs) - skip
              /\ \A i \in 1..Len(rest) : rest[i] = recs[skip + i]
          BY <3>1, <4>1, DropProperties
        <4>3. nextFile.recs = rest
          BY <3>1
        <4> HIDE DEF rest
        <4>4. QED
          BY <4>2, <4>3
      <3>4. ASSUME NEW i \in DOMAIN recs
            PROVE  recs[i] \in SamplesIn(nextFile) \cup history
        <4>1. i \in 1..Len(recs) /\ i \in Nat /\ skip \in Nat
          BY <3>1, <3>4
        <4>2. CASE i <= skip
          BY <3>1, <4>1, <4>2
        <4>3. CASE i > skip
          <5>1. i - skip \in DOMAIN nextFile.recs /\ skip + (i - skip) = i
            BY <3>1, <3>3, <4>1, <4>3
          <5>2. recs[i] = nextFile.recs[i - skip]
            BY <3>3, <5>1
          <5>3. QED
            BY <5>1, <5>2 DEF SamplesIn
        <4>4. QED
          BY <4>1, <4>2, <4>3
      <3>5. SamplesIn(cacheFile) \subseteq SamplesIn(nextFile) \cup history
        BY <3>4 DEF SamplesIn
      <3>6. SamplesIn(nextFile) \subseteq SamplesIn(cacheFile)
        <4>1. \A i \in 1..Len(nextFile.recs) : skip + i \in DOMAIN recs
          BY <3>1, <3>3
        <4>2. QED
          BY <3>3, <4>1 DEF SamplesIn
      <3>7. QED
        BY <3>2, <3>5, <3>6
    <2>3. QED
      BY <1>6, <2>1, <2>2 DEF RemoveCache
  <1>7. CASE RenameNext
    BY <1>1, <1>2, <1>7 DEF RenameNext, JournalInv, RewriteInv, ScratchInv
  <1>8. QED
    BY <1>3, <1>4, <1>5, <1>6, <1>7 DEF JournalStep

(* An append adds its sample and nothing else changes.                     *)
LEMMA AppendKeeps ==
  ASSUME JournalTypeOK, JournalInv, step = "idle", pc # "purge", NEW sample \in Int,
         AppendRecord(sample)
  PROVE  Recoverable' = Recoverable \cup {sample}
  <1> DEFINE recs == cacheFile.recs
             longer == Append(recs, sample)
  <1>1. recs \in Seq(Samples) /\ Len(recs) \in Nat
    BY JournalNumbers
  <1>2. /\ ~cacheFile.torn
        /\ ~cacheFile.exists => cacheFile = NoFile /\ nextFile = NoFile
    BY DEF JournalInv, FilesInv, ScratchInv, TailInv
  <1>3. cacheFile' = FileOf(longer, FALSE)
    BY <1>2 DEF AppendRecord
  <1>4. cacheFile'.exists /\ cacheFile'.recs = longer
    BY <1>3 DEF FileOf
  <1>5. Recoverable = SamplesIn(cacheFile)
    BY <1>2 DEF Recoverable, SamplesIn
  <1>6. Recoverable' = {longer[i] : i \in DOMAIN longer}
    BY <1>4 DEF Recoverable, SamplesIn
  <1>7. /\ DOMAIN longer = 1..Len(recs) + 1 /\ DOMAIN recs = 1..Len(recs)
        /\ longer[Len(recs) + 1] = sample
        /\ \A i \in 1..Len(recs) : longer[i] = recs[i]
    BY <1>1
  <1> HIDE DEF longer
  <1>8. SamplesIn(cacheFile) \subseteq Recoverable'
    BY <1>1, <1>6, <1>7 DEF SamplesIn
  <1>9. sample \in Recoverable'
    <2>1. Len(recs) + 1 \in DOMAIN longer
      BY <1>1, <1>7
    <2>2. QED
      BY <1>6, <1>7, <2>1
  <1>10. Recoverable' \subseteq SamplesIn(cacheFile) \cup {sample}
    BY <1>1, <1>6, <1>7 DEF SamplesIn
  <1>11. QED
    BY <1>5, <1>8, <1>9, <1>10

(* A power loss leaves what the next boot will find, a fragment or not.    *)
LEMMA PowerLossKeeps ==
  ASSUME JournalInv, PowerLoss
  PROVE  Recoverable' = Recoverable
  <1>1. /\ UNCHANGED nextFile
        /\ \/ cacheFile' = cacheFile
           \/ cacheFile' = FileOf(cacheFile.recs, TRUE) /\ At("cache")
    BY DEF PowerLoss, JournalDown, At
  <1>2. CASE cacheFile' = cacheFile
    BY <1>1, <1>2 DEF Recoverable, SamplesIn
  <1>3. CASE cacheFile' = FileOf(cacheFile.recs, TRUE) /\ At("cache")
    <2>1. cacheFile'.recs = cacheFile.recs /\ cacheFile'.exists
      BY <1>3 DEF FileOf
    <2>2. ~cacheFile.exists => cacheFile = NoFile /\ nextFile = NoFile
      BY <1>3 DEF JournalInv, FilesInv, ScratchInv, At
    <2>3. Recoverable = SamplesIn(cacheFile) /\ Recoverable' = SamplesIn(cacheFile)'
      BY <2>1, <2>2 DEF Recoverable, SamplesIn
    <2>4. QED
      BY <2>1, <2>3 DEF SamplesIn
  <1>4. QED
    BY <1>1, <1>2, <1>3

(* A purge erases what it says, and after its first removal a scratch file *)
(* that was left behind can only give back samples of the journal.         *)
LEMMA PurgeKeeps ==
  ASSUME JournalTypeOK, JournalInv, PurgeInv,
         PurgeBegins \/ DisablePurges \/ PurgeEnds
  PROVE  /\ Recoverable' \subseteq Recoverable
         /\ purged' = purged \cup (Recoverable \ Recoverable')
         /\ UNCHANGED <<taken, history>>
  <1>1. /\ purged' = purged \cup (Recoverable \ Recoverable')
        /\ UNCHANGED <<taken, history>>
    BY DEF PurgeBegins, DisablePurges, PurgeEnds, backfillVars
  <1>2. CASE PurgeBegins \/ DisablePurges
    <2>1. cacheFile' = NoFile /\ nextFile' = nextFile
      BY <1>2 DEF PurgeBegins, DisablePurges, PurgeCacheFile
    <2>2. Recoverable' = SamplesIn(nextFile)
      BY <2>1, NoFileProperties DEF Recoverable, SamplesIn
    <2>3. cacheFile.exists => SamplesIn(nextFile) \subseteq SamplesIn(cacheFile)
      BY DEF JournalInv, FilesInv, ScratchInv
    <2>4. SamplesIn(nextFile) \subseteq Recoverable
      BY <2>3 DEF Recoverable
    <2>5. QED
      BY <1>1, <2>2, <2>4
  <1>3. CASE PurgeEnds
    <2>1. cacheFile' = cacheFile /\ nextFile' = NoFile /\ cacheFile.recs = <<>>
      BY <1>3 DEF PurgeEnds, PurgeNextFile, At, PurgeInv
    <2>2. Recoverable' = {}
      BY <2>1, NoFileProperties DEF Recoverable, SamplesIn
    <2>3. QED
      BY <1>1, <2>2
  <1>4. QED
    BY <1>2, <1>3

(* The main step: whatever happens next, no sample is lost.                *)
LEMMA NoLossKept ==
  ASSUME SafeInv, OnlyCopyOrRemoveFails, Next
  PROVE  NoUnacknowledgedLoss'
  <1>0. /\ JournalTypeOK /\ JournalInv /\ NoUnacknowledgedLoss
        /\ taken \in Nat /\ history \subseteq history'
    BY HistoryGrows, ReplayAssumption
    DEF SafeInv, TypeInv, IInv, JournalType, LoopTypeOK, ReplayAssumption
  <1>1. ASSUME UNCHANGED <<taken, purged>>,
               Recoverable \subseteq Recoverable' \cup history
        PROVE  NoUnacknowledgedLoss'
    BY <1>0, <1>1 DEF NoUnacknowledgedLoss
  <1>2. CASE UNCHANGED <<cacheFile, nextFile, taken, purged>>
    <2>1. Recoverable' = Recoverable
      BY <1>2 DEF Recoverable, SamplesIn
    <2>2. QED
      BY <1>1, <1>2, <2>1
  <1>3. CASE PurgeBegins \/ DisablePurges \/ PurgeEnds
    <2>1. /\ purged' = purged \cup (Recoverable \ Recoverable')
          /\ UNCHANGED <<taken, history>>
      BY <1>3 DEF PurgeBegins, DisablePurges, PurgeEnds, backfillVars
    <2>2. QED
      BY <1>0, <2>1 DEF NoUnacknowledgedLoss
  <1>4. CASE CacheOffline
    <2>1. CASE UNCHANGED <<journalVars, taken>>
      BY <1>2, <1>4, <2>1 DEF CacheOffline, journalVars
    <2>2. CASE AppendRecord(taken + 1) /\ taken' = taken + 1
      <3>1. Recoverable \cup {taken + 1} \subseteq Recoverable'
        <4>1. step = "idle" /\ pc # "purge" /\ taken + 1 \in Int
          BY <1>0, <1>4 DEF CacheOffline, At
        <4>2. QED
          BY <1>0, <2>2, <4>1, AppendKeeps
      <3>2. purged' = purged
        BY <1>4 DEF CacheOffline
      <3>3. \A s \in 1..taken' : s \in 1..taken \/ s = taken + 1
        BY <1>0, <2>2
      <3>4. QED
        BY <1>0, <3>1, <3>2, <3>3 DEF NoUnacknowledgedLoss
    <2>3. CASE AppendShort
      BY <2>3, RewriteFailures DEF AppendShort
    <2>4. QED
      BY <1>4, <2>1, <2>2, <2>3 DEF CacheOffline
  <1>5. CASE PowerLoss
    <2>1. UNCHANGED <<taken, purged>>
      BY <1>5 DEF PowerLoss, ghostVars
    <2>2. QED
      BY <1>0, <1>1, <1>5, <2>1, PowerLossKeeps
  <1>6. CASE JournalWorks
    <2>1. JournalStep /\ UNCHANGED <<taken, purged>>
      BY <1>6 DEF JournalWorks, ghostVars
    <2>2. QED
      BY <1>0, <1>1, <2>1, JournalStepKeeps
  <1>7. QED
    BY <1>2, <1>3, <1>4, <1>5, <1>6
    DEF Next, Round, Command, World, LoopOffline, LoopReconnects, LoopIdles,
        LoopReads, AckIgnored, AckRejected, AckAccepted, BeginRemoval,
        RemovalSucceeds, RemovalFails, SetupEnds, EndOperation,
        LiveDisconnected, LivePublished, LiveNotDue, CacheDisabled,
        SubscribeFails, CacheIdle, CacheReplays, CacheReplayFails,
        Subscription, DisableCache, EnableCache, LinkDrops, RetryElapses,
        CloudWorks, PowerOn, JournalUp, journalVars, ghostVars

LEMMA SafeInit == Init => SafeInv
  <1> SUFFICES ASSUME Init PROVE SafeInv
    OBVIOUS
  <1>1. cacheFile = NoFile /\ nextFile = NoFile /\ step = "down" /\ taken = 0
    BY DEF Init, JournalInit
  <1>2. ScratchInv /\ TailInv /\ NoUnacknowledgedLoss
    BY <1>1, NoFileHolds DEF ScratchInv, TailInv, NoUnacknowledgedLoss
  <1>3. QED
    BY <1>2, ProtocolInit, SafeIsProtocol

LEMMA SafeKept == OnlyCopyOrRemoveFails /\ SafeInv /\ [Next]_vars => SafeInv'
  <1> SUFFICES ASSUME OnlyCopyOrRemoveFails, SafeInv, [Next]_vars PROVE SafeInv'
    OBVIOUS
  <1> USE SafeIsProtocol
  <1>0. ProtocolInv'
    BY ProtocolKept
  <1>1. CASE Next
    BY <1>0, <1>1, ScratchKept, NoLossKept
    DEF SafeInv, IInv, JournalInv, ProtocolInv, HeadInv
  <1>2. CASE UNCHANGED vars
    <2>1. /\ UNCHANGED <<cacheFile, nextFile, step, skip, pc>>
          /\ UNCHANGED <<taken, history, purged>>
      BY <1>2 DEF vars, journalVars, backfillVars, loopVars, ghostVars
    <2>2. ScratchInv'
      BY <2>1 DEF ScratchInv, SamplesIn
    <2>3. TailInv'
      BY <2>1 DEF TailInv
    <2>4. NoUnacknowledgedLoss'
      BY <2>1 DEF NoUnacknowledgedLoss, Recoverable, SamplesIn
    <2>5. QED
      BY <1>0, <2>2, <2>3, <2>4 DEF SafeInv, IInv, JournalInv, ProtocolInv, HeadInv
  <1>3. QED
    BY <1>1, <1>2

(* If copying to the scratch file and removing a file are the only calls   *)
(* of the file system that may fail while the power is on, then for every  *)
(* capacity, batch size and number of samples, and across power losses at  *)
(* any step, no sample that append() stored is lost: it is on flash, in    *)
(* History, or purged.                                                     *)
THEOREM NoLoss ==
  ASSUME OnlyCopyOrRemoveFails
  PROVE  Spec => []NoUnacknowledgedLoss
  <1>1. SafeInv => NoUnacknowledgedLoss
    BY DEF SafeInv, IInv
  <1>2. SafeInv /\ [Next]_vars => SafeInv'
    BY SafeKept
  <1>3. QED
    BY SafeInit, <1>1, <1>2, PTL DEF Spec

(* The strengthening that the runs check on small instances holds in every *)
(* reachable state of every instance in which only copying or removing      *)
(* fails.                                                                  *)
THEOREM Inductive ==
  ASSUME OnlyCopyOrRemoveFails
  PROVE  Spec => []IInv
  <1>1. SafeInv => IInv
    BY DEF SafeInv
  <1>2. SafeInv /\ [Next]_vars => SafeInv'
    BY SafeKept
  <1>3. QED
    BY SafeInit, <1>1, <1>2, PTL DEF Spec

-----------------------------------------------------------------------------
(* The refinement: every step of OfflineReplay is a step of StoreAndForward *)
(* or changes nothing that it sees.                                         *)

(* The Lambda writes at most one row in a step, of a sample that was taken. *)
LEMMA CloudDelivers ==
  ASSUME SentInv, CloudTypeOK, CloudWorks
  PROVE  /\ UNCHANGED <<cacheFile, nextFile, taken, purged>>
         /\ \/ UNCHANGED history
            \/ \E s \in 1..taken : history' = history \cup {s}
  <1>1. UNCHANGED <<cacheFile, nextFile, taken, purged>>
    BY DEF CloudWorks, journalVars, ghostVars
  <1>2. CASE \E inv \in work : StoreSample(inv)
    <2>1. PICK inv \in work : StoreSample(inv)
      BY <1>2
    <2>2. inv.batch \in Seq(Samples) /\ inv.done \in Nat /\ inv.done < Len(inv.batch)
      BY <2>1 DEF StoreSample, CloudTypeOK, Batch
    <2>3. inv.done + 1 \in DOMAIN inv.batch
      BY <2>2
    <2>4. inv.batch[inv.done + 1] \in 1..taken
      BY <2>1, <2>3 DEF SentInv
    <2>5. history' = history \cup {inv.batch[inv.done + 1]}
      BY <2>1 DEF StoreSample
    <2>6. QED
      BY <1>1, <2>4, <2>5
  <1>3. CASE ~\E inv \in work : StoreSample(inv)
    <2>1. UNCHANGED history
      BY <1>3
      DEF CloudWorks, BackfillStep, Invoke, LoseBatch, Acknowledge, InvocationFails
    <2>2. QED
      BY <1>1, <2>1
  <1>4. QED
    BY <1>2, <1>3

LEMMA StepRefines ==
  ASSUME SafeInv, OnlyCopyOrRemoveFails, Next
  PROVE  SF!Next \/ UNCHANGED SF!vars
  <1>0. /\ JournalTypeOK /\ JournalInv /\ PurgeInv /\ SentInv /\ CloudTypeOK /\ taken \in Nat
    BY ReplayAssumption
    DEF SafeInv, TypeInv, IInv, JournalType, LoopTypeOK, ReplayAssumption
  <1>1. CASE UNCHANGED <<cacheFile, nextFile, taken, purged, history>>
    <2>1. Recoverable' = Recoverable
      BY <1>1 DEF Recoverable, SamplesIn
    <2>2. QED
      BY <1>1, <2>1 DEF SF!vars
  <1>2. CASE CacheOffline
    <2>1. UNCHANGED <<purged, history>>
      BY <1>2 DEF CacheOffline, backfillVars
    <2>2. CASE UNCHANGED <<journalVars, taken>>
      BY <1>1, <2>1, <2>2 DEF journalVars
    <2>3. CASE AppendRecord(taken + 1) /\ taken' = taken + 1
      <3>1. step = "idle" /\ pc # "purge" /\ taken + 1 \in Int
        BY <1>0, <1>2 DEF CacheOffline, At
      <3>2. Recoverable' = Recoverable \cup {taken + 1}
        BY <1>0, <2>3, <3>1, AppendKeeps
      <3>3. SF!Take
        BY <2>1, <2>3, <3>2 DEF SF!Take
      <3>4. QED
        BY <3>3 DEF SF!Next
    <2>4. CASE AppendShort
      BY <2>4, RewriteFailures DEF AppendShort
    <2>5. QED
      BY <1>2, <2>2, <2>3, <2>4 DEF CacheOffline
  <1>3. CASE PurgeBegins \/ DisablePurges \/ PurgeEnds
    <2> DEFINE erased == Recoverable \ Recoverable'
    <2>1. /\ Recoverable' \subseteq Recoverable /\ purged' = purged \cup erased
          /\ UNCHANGED <<taken, history>>
      BY <1>0, <1>3, PurgeKeeps
    <2>2. erased \in SUBSET Recoverable /\ Recoverable' = Recoverable \ erased
      BY <2>1
    <2>3. SF!Purge
      BY <2>1, <2>2 DEF SF!Purge
    <2>4. QED
      BY <2>3 DEF SF!Next
  <1>4. CASE PowerLoss
    <2>1. Recoverable' = Recoverable
      BY <1>0, <1>4, PowerLossKeeps
    <2>2. UNCHANGED <<taken, purged, history>>
      BY <1>4 DEF PowerLoss, ghostVars, backfillVars
    <2>3. QED
      BY <2>1, <2>2 DEF SF!vars
  <1>5. CASE JournalWorks
    <2> DEFINE let_go == Recoverable \ Recoverable'
    <2>1. JournalStep /\ UNCHANGED <<taken, purged, history>>
      BY <1>5 DEF JournalWorks, ghostVars, backfillVars
    <2>2. /\ Recoverable \subseteq Recoverable' \cup history
          /\ Recoverable' \subseteq Recoverable
      BY <1>0, <2>1, JournalStepKeeps
    <2>3. /\ let_go \in SUBSET Recoverable /\ let_go \subseteq history
          /\ Recoverable' = Recoverable \ let_go
      BY <2>2
    <2>4. SF!Release
      BY <2>1, <2>3 DEF SF!Release
    <2>5. QED
      BY <2>4 DEF SF!Next
  <1>6. CASE CloudWorks
    <2>1. /\ UNCHANGED <<cacheFile, nextFile, taken, purged>>
          /\ \/ UNCHANGED history
             \/ \E s \in 1..taken : history' = history \cup {s}
      BY <1>0, <1>6, CloudDelivers
    <2>2. Recoverable' = Recoverable
      BY <2>1 DEF Recoverable, SamplesIn
    <2>3. CASE UNCHANGED history
      BY <1>1, <2>1, <2>3
    <2>4. CASE \E s \in 1..taken : history' = history \cup {s}
      <3>1. SF!Deliver
        BY <2>1, <2>2, <2>4 DEF SF!Deliver
      <3>2. QED
        BY <3>1 DEF SF!Next
    <2>5. QED
      BY <2>1, <2>3, <2>4
  <1>7. QED
    BY <1>1, <1>2, <1>3, <1>4, <1>5, <1>6
    DEF Next, Round, Command, World, LoopOffline, LoopReconnects, SessionOpens,
        LoopIdles, LoopReads, TakeAck, AckIgnored, AckRejected, AckAccepted,
        BeginRemoval, RemovalSucceeds, RemovalFails, SetupEnds, EndOperation,
        LiveDisconnected, LivePublished, LiveNotDue, CacheDisabled,
        SubscribeFails, CacheIdle, CacheReplays, CacheReplayFails,
        Subscription, DisableCache, EnableCache, LinkDrops, RetryElapses,
        PowerOn, JournalUp, journalVars, backfillVars, ghostVars

LEMMA InitRefines == Init => SF!Init
  <1> SUFFICES ASSUME Init PROVE SF!Init
    OBVIOUS
  <1>1. /\ cacheFile = NoFile /\ nextFile = NoFile /\ history = {}
        /\ taken = 0 /\ purged = {}
    BY DEF Init, JournalInit, BackfillInit
  <1>2. Recoverable = {}
    BY <1>1, NoFileProperties DEF Recoverable, SamplesIn
  <1>3. QED
    BY <1>1, <1>2 DEF SF!Init

(* If copying to the scratch file and removing a file are the only calls   *)
(* of the file system that may fail while the power is on, the journal,    *)
(* the loop, the broker and the Lambda together implement StoreAndForward. *)
THEOREM Refinement ==
  ASSUME OnlyCopyOrRemoveFails
  PROVE  Spec => ImplementsStoreAndForward
  <1>1. SafeInv /\ [Next]_vars => SafeInv'
    BY SafeKept
  <1>2. SafeInv /\ [Next]_vars => [SF!Next]_(SF!vars)
    <2> SUFFICES ASSUME SafeInv, [Next]_vars PROVE [SF!Next]_(SF!vars)
      OBVIOUS
    <2>1. CASE Next
      BY <2>1, StepRefines
    <2>2. CASE UNCHANGED vars
      BY <2>2
      DEF vars, journalVars, backfillVars, ghostVars, SF!vars, Recoverable, SamplesIn
    <2>3. QED
      BY <2>1, <2>2
  <1>3. QED
    BY SafeInit, InitRefines, <1>1, <1>2, PTL
    DEF Spec, ImplementsStoreAndForward, SF!Spec

-----------------------------------------------------------------------------
(* The counter in RAM.  A removal leaves it behind from the rename to the  *)
(* scan, a purge between its two removals; a repair rewrites what the scan *)
(* has counted.                                                            *)
CountInv ==
  /\ step \notin {"down", "recover", "scan", "rename"} /\ pc # "purge" =>
       recordCount = Len(cacheFile.recs)
  /\ step = "rename" /\ skip = 0 => recordCount = Len(nextFile.recs)

LEMMA JournalStepCount ==
  ASSUME JournalTypeOK, JournalInv, PurgeInv, CountInv, OnlyCopyOrRemoveFails, JournalStep,
         UNCHANGED pc
  PROVE  CountInv'
  <1>0. /\ cacheFile.recs \in Seq(Samples) /\ Len(cacheFile.recs) \in Nat
        /\ skip \in Nat
    BY JournalNumbers
  <1>1. CASE RecoverJournal
    BY <1>1 DEF RecoverJournal, CountInv
  <1>2. CASE ScanJournal
    BY <1>2 DEF ScanJournal, CountInv
  <1>3. CASE OpenNext
    <2>1. /\ UNCHANGED <<cacheFile, recordCount>>
          /\ step = "open" /\ step' \in {"copy", "done", "failed"}
      BY <1>3 DEF OpenNext, AbortRewrite
    <2>2. QED
      BY <2>1 DEF CountInv
  <1>4. CASE CopyRecords
    <2>1. /\ UNCHANGED <<cacheFile, recordCount>>
          /\ step = "copy" /\ step' \in {"copy", "unlink", "done", "failed"}
      BY <1>4 DEF CopyRecords, CopyPart, CopyFails, AbortRewrite
    <2>2. QED
      BY <2>1 DEF CountInv
  <1>5. CASE RemoveCache
    <2>1. /\ UNCHANGED <<nextFile, recordCount, skip>> /\ step = "unlink" /\ pc # "purge"
          /\ \/ step' = "rename"
             \/ step' \in {"done", "failed"} /\ UNCHANGED cacheFile
      BY <1>5 DEF RemoveCache, AbortRewrite, PurgeInv
    <2>2. nextFile.recs = SubSeq(cacheFile.recs, skip + 1, Len(cacheFile.recs))
      BY <2>1 DEF JournalInv, ScratchInv
    <2>3. skip = 0 => nextFile.recs = cacheFile.recs
      BY <1>0, <2>2, DropProperties
    <2>4. recordCount = Len(cacheFile.recs)
      BY <2>1 DEF CountInv
    <2>5. QED
      BY <2>1, <2>3, <2>4 DEF CountInv
  <1>6. CASE RenameNext
    <2>1. /\ cacheFile' = nextFile /\ UNCHANGED recordCount /\ step = "rename"
          /\ step' = IF skip = 0 THEN "done" ELSE "scan"
      BY <1>6, RewriteFailures DEF RenameNext
    <2>2. QED
      BY <2>1 DEF CountInv
  <1>7. QED
    BY <1>1, <1>2, <1>3, <1>4, <1>5, <1>6 DEF JournalStep

LEMMA CountInvKept ==
  ASSUME SafeInv, CountInv, OnlyCopyOrRemoveFails, Next
  PROVE  CountInv'
  <1>0. /\ JournalTypeOK /\ JournalInv /\ PurgeInv
        /\ cacheFile.recs \in Seq(Samples) /\ Len(cacheFile.recs) \in Nat
    BY JournalNumbers DEF SafeInv, TypeInv, IInv, JournalType
  <1>1. CASE /\ UNCHANGED <<cacheFile, nextFile, recordCount, step, skip>>
             /\ pc = "purge" => pc' = "purge"
    BY <1>1 DEF CountInv
  <1>2. CASE \E ack \in acks : AckAccepted(ack)
    <2>1. /\ UNCHANGED <<cacheFile, recordCount>> /\ step = "idle" /\ pc # "purge"
          /\ step' = "open"
      BY <1>2 DEF AckAccepted, LoopReads, At, BeginRemoval
    <2>2. QED
      BY <2>1 DEF CountInv
  <1>3. CASE RemovalSucceeds \/ RemovalFails \/ SetupEnds
    <2>1. /\ UNCHANGED <<cacheFile, recordCount, pc>> /\ step \in {"done", "failed"}
          /\ step' = "idle"
      BY <1>3
      DEF RemovalSucceeds, RemovalFails, SetupEnds, EndOperation, loopVars
    <2>2. QED
      BY <2>1 DEF CountInv
  <1>4. CASE CacheOffline
    <2>1. step = "idle" /\ pc # "purge" /\ ~cacheFile.torn
      BY <1>0, <1>4 DEF CacheOffline, At, JournalInv, TailInv
    <2>2. recordCount = Len(cacheFile.recs)
      BY <2>1 DEF CountInv
    <2>3. CASE AppendRecord(taken + 1)
      <3>1. /\ cacheFile' = FileOf(Append(cacheFile.recs, taken + 1), FALSE)
            /\ recordCount' = recordCount + 1 /\ UNCHANGED step
        BY <2>1, <2>3 DEF AppendRecord
      <3>2. Len(Append(cacheFile.recs, taken + 1)) = Len(cacheFile.recs) + 1
        BY <1>0
      <3>3. cacheFile'.recs = Append(cacheFile.recs, taken + 1)
        BY <3>1 DEF FileOf
      <3>4. QED
        BY <2>1, <2>2, <3>1, <3>2, <3>3 DEF CountInv
    <2>4. CASE AppendShort
      BY <2>4, RewriteFailures DEF AppendShort
    <2>5. CASE UNCHANGED journalVars
      BY <2>1, <2>2, <2>5 DEF CountInv, journalVars
    <2>6. QED
      BY <1>4, <2>3, <2>4, <2>5 DEF CacheOffline, journalVars
  <1>5. CASE PurgeBegins \/ DisablePurges
    <2>1. step' = "idle" /\ pc' = "purge"
      BY <1>5 DEF PurgeBegins, DisablePurges, PurgeCacheFile, At
    <2>2. QED
      BY <2>1 DEF CountInv
  <1>6. CASE PurgeEnds
    <2>1. step' = "idle" /\ recordCount' = 0 /\ UNCHANGED cacheFile /\ pc = "purge"
      BY <1>6 DEF PurgeEnds, PurgeNextFile, At
    <2>2. cacheFile.recs = <<>>
      BY <1>0, <2>1 DEF PurgeInv
    <2>3. QED
      BY <2>1, <2>2 DEF CountInv
  <1>7. CASE PowerLoss
    BY <1>7 DEF PowerLoss, JournalDown, CountInv
  <1>8. CASE PowerOn
    BY <1>8 DEF PowerOn, JournalUp, CountInv
  <1>9. CASE JournalWorks
    <2>1. JournalStep /\ UNCHANGED pc
      BY <1>9 DEF JournalWorks, loopVars
    <2>2. QED
      BY <1>0, <2>1, JournalStepCount
  <1>10. QED
    BY <1>1, <1>2, <1>3, <1>4, <1>5, <1>6, <1>7, <1>8, <1>9
    DEF Next, Round, Command, World, LoopOffline, LoopReconnects, LoopIdles,
        LoopReads, AckIgnored, AckRejected, LiveDisconnected, LivePublished,
        LiveNotDue, CacheDisabled, SubscribeFails, CacheIdle, CacheReplays,
        CacheReplayFails, Subscription, DisableCache, EnableCache, LinkDrops,
        RetryElapses, CloudWorks, At, journalVars, loopVars

(* recordCount, by which append() measures the capacity and the loop       *)
(* decides to replay, agrees with the file whenever the loop looks at it.  *)
THEOREM CountIsRight ==
  ASSUME OnlyCopyOrRemoveFails
  PROVE  Spec => []CountMatchesJournal
  <1>1. Init => SafeInv /\ CountInv
    BY SafeInit DEF Init, JournalInit, CountInv
  <1>2. SafeInv /\ CountInv /\ [Next]_vars => SafeInv' /\ CountInv'
    <2> SUFFICES ASSUME SafeInv, CountInv, [Next]_vars PROVE SafeInv' /\ CountInv'
      OBVIOUS
    <2>1. SafeInv'
      BY SafeKept
    <2>2. CASE Next
      BY <2>1, <2>2, CountInvKept
    <2>3. CASE UNCHANGED vars
      BY <2>1, <2>3 DEF vars, journalVars, loopVars, CountInv
    <2>4. QED
      BY <2>2, <2>3
  <1>3. SafeInv /\ CountInv => CountMatchesJournal
    BY DEF SafeInv, TypeInv, JournalType, JournalTypeOK, LenInv, CountInv,
      CountMatchesJournal
  <1>4. QED
    BY <1>1, <1>2, <1>3, PTL DEF Spec

-----------------------------------------------------------------------------
(* Replay is in order: every sample older than a row, or than the first of *)
(* a batch in flight, is settled.                                          *)
OlderAreSettled(s) == \A t \in 1..taken : t < s => t \in history \cup purged

OrderInv ==
  /\ history \subseteq 1..taken /\ OldestFirst
  /\ \A batch \in uplink : OlderAreSettled(batch[1])
  /\ \A inv \in work : OlderAreSettled(inv.batch[1])

(* No step unsettles a sample, and the one taken next is the youngest.     *)
LEMMA SettledStays ==
  ASSUME SafeInv, Next, NEW s \in 1..taken, OlderAreSettled(s)
  PROVE  s \in 1..taken' /\ OlderAreSettled(s)'
  <1>1. taken \in Nat /\ (taken' = taken \/ taken' = taken + 1)
    BY TakenGrows DEF SafeInv, TypeInv
  <1>2. history \subseteq history'
    BY HistoryGrows
  <1>3. purged \subseteq purged'
    BY DEF Next, Round, Command, World, LoopOffline, LoopReconnects, LoopIdles,
        LoopReads, AckIgnored, AckRejected, AckAccepted, RemovalSucceeds,
        RemovalFails, LiveDisconnected, LivePublished, LiveNotDue,
        CacheDisabled, CacheOffline, SubscribeFails, CacheIdle, CacheReplays,
        CacheReplayFails, Subscription, PurgeBegins, PurgeEnds, DisableCache,
        DisablePurges, EnableCache, LinkDrops, RetryElapses, PowerLoss, PowerOn,
        JournalWorks, SetupEnds, CloudWorks, ghostVars
  <1>4. s \in 1..taken'
    BY <1>1
  <1>5. ASSUME NEW t \in 1..taken', t < s PROVE t \in (history \cup purged)'
    <2>1. t \in 1..taken
      BY <1>1, <1>5
    <2>2. QED
      BY <1>2, <1>3, <1>5, <2>1 DEF OlderAreSettled
  <1>6. QED
    BY <1>4, <1>5 DEF OlderAreSettled

(* The first sample of a batch in flight was taken.                        *)
LEMMA FirstTaken ==
  ASSUME CloudTypeOK, SentInv
  PROVE  /\ \A batch \in uplink : batch[1] \in 1..taken
         /\ \A inv \in work : inv.batch[1] \in 1..taken
  <1>1. \A batch \in Batch : 1 \in DOMAIN batch
    BY DEF Batch
  <1>2. QED
    BY <1>1 DEF CloudTypeOK, SentInv

(* The loop publishes the head of the journal: what is older is not on     *)
(* flash any more, hence, as nothing is lost, settled.                     *)
LEMMA HeadIsNext ==
  ASSUME SafeInv, HeadBatch # <<>>, step = "idle"
  PROVE  \E s \in 1..taken : s = HeadBatch[1] /\ OlderAreSettled(s)
  <1> DEFINE recs == cacheFile.recs
  <1>0. /\ JournalTypeOK /\ JournalInv /\ NoUnacknowledgedLoss
        /\ taken \in Nat
    BY ReplayAssumption
    DEF SafeInv, TypeInv, IInv, JournalType, LoopTypeOK, ReplayAssumption
  <1>1. recs \in Seq(Samples) /\ Len(recs) \in Nat /\ DOMAIN recs = 1..Len(recs)
    BY <1>0, JournalNumbers
  <1>2. /\ Len(HeadBatch) \in Nat \ {0} /\ Len(HeadBatch) <= Len(recs)
        /\ HeadBatch[1] = recs[1]
    <2>1. /\ HeadBatch \in Seq(Samples) /\ Len(HeadBatch) <= Len(recs)
          /\ Len(HeadBatch) \in Nat
          /\ \A i \in 1..Len(HeadBatch) : HeadBatch[i] = recs[i]
      BY <1>0, HeadProperties
    <2>2. Len(HeadBatch) # 0
      BY <2>1
    <2>3. QED
      BY <2>1, <2>2
  <1>3. /\ \A i \in 1..Len(recs) : recs[i] \in 1..taken
        /\ \A i, j \in 1..Len(recs) : i < j => recs[i] < recs[j]
    BY <1>0, <1>1 DEF JournalInv, FilesInv, RecordsInv, Ascending, TakenOnly
  <1>4. 1 \in 1..Len(recs) /\ recs[1] \in 1..taken
    BY <1>1, <1>2, <1>3
  <1>5. Recoverable = {recs[i] : i \in 1..Len(recs)}
    <2>1. cacheFile.exists
      BY <1>0, <1>1, <1>2, NoFileProperties DEF JournalInv, FilesInv
    <2>2. QED
      BY <1>1, <2>1 DEF Recoverable, SamplesIn
  <1>6. ASSUME NEW t \in 1..taken, t < recs[1] PROVE t \in history \cup purged
    <2>1. ASSUME NEW i \in 1..Len(recs) PROVE recs[i] > t
      <3> HIDE DEF recs
      <3>1. recs[i] \in Int /\ recs[1] \in Int /\ (i = 1 \/ recs[1] < recs[i])
        BY <1>1, <1>3, <1>4, <2>1
      <3>2. QED
        BY <1>6, <3>1
    <2> HIDE DEF recs
    <2>2. t \notin Recoverable
      BY <1>5, <1>6, <2>1
    <2>3. QED
      BY <1>0, <2>2 DEF NoUnacknowledgedLoss
  <1>7. QED
    BY <1>2, <1>4, <1>6 DEF OlderAreSettled

(* The Lambda puts a batch front to back: when a sample's turn comes, what *)
(* is older in the batch has its row.                                      *)
LEMMA PutInOrder ==
  ASSUME SafeInv, OrderInv, NEW inv \in work, StoreSample(inv)
  PROVE  \E s \in 1..taken : history' = history \cup {s} /\ OlderAreSettled(s)
  <1> DEFINE s == inv.batch[inv.done + 1]
  <1>0. CloudTypeOK /\ CloudInv /\ SentInv /\ taken \in Nat
    BY ReplayAssumption DEF SafeInv, TypeInv, IInv, LoopTypeOK, ReplayAssumption
  <1>1. inv.batch \in Seq(Samples) /\ inv.done \in Nat /\ inv.done < Len(inv.batch)
    BY <1>0 DEF StoreSample, CloudTypeOK, Batch
  <1>2. inv.done + 1 \in DOMAIN inv.batch /\ DOMAIN inv.batch = 1..Len(inv.batch)
    BY <1>1
  <1>3. /\ \A i, j \in 1..Len(inv.batch) : i < j => inv.batch[i] < inv.batch[j]
        /\ Covers(inv.batch) /\ NoUnacknowledgedLoss
    BY <1>0, <1>2 DEF CloudInv, Ascending, SafeInv, IInv
  <1>4. \A i \in 1..inv.done : inv.batch[i] \in history
    BY <1>0 DEF CloudInv
  <1>5. s \in 1..taken /\ inv.batch[1] \in 1..taken
    BY <1>0, <1>2, FirstTaken DEF SentInv
  <1>6. ASSUME NEW t \in 1..taken, t < s PROVE t \in history \cup purged
    <2>1. CASE t < inv.batch[1]
      BY <2>1 DEF OrderInv, OlderAreSettled
    <2>2. CASE t >= inv.batch[1]
      <3>1. CASE t \notin Recoverable
        BY <1>3, <3>1 DEF NoUnacknowledgedLoss
      <3>2. CASE t \in Recoverable
        <4> DEFINE n == Len(inv.batch)
        <4>1. n \in Nat /\ n \in 1..n /\ inv.done + 1 \in 1..n
          BY <1>1, <1>2
        <4>2. \A i \in 1..n : inv.batch[i] \in Int
          BY <1>0, <1>2 DEF SentInv
        <4>3. s <= inv.batch[n]
          BY <1>3, <4>1, <4>2
        <4>4. t <= inv.batch[n]
          BY <1>5, <1>6, <4>1, <4>2, <4>3
        <4>5. PICK i \in 1..n : inv.batch[i] = t
          BY <1>2, <1>3, <2>2, <3>2, <4>4 DEF Covers, Held, Recoverable
        <4>6. i < inv.done + 1
          <5>1. CASE inv.done + 1 < i
            BY <1>3, <1>5, <1>6, <4>1, <4>5, <5>1
          <5>2. CASE inv.done + 1 = i
            BY <1>5, <1>6, <4>5, <5>2
          <5>3. QED
            BY <1>1, <4>5, <5>1, <5>2
        <4>7. i \in 1..inv.done
          BY <1>1, <4>6
        <4>8. QED
          BY <1>4, <4>5, <4>7
      <3>3. QED
        BY <3>1, <3>2
    <2>3. QED
      BY <1>0, <1>5, <2>1, <2>2
  <1>7. history' = history \cup {s}
    BY DEF StoreSample
  <1>8. QED
    BY <1>5, <1>6, <1>7 DEF OlderAreSettled

LEMMA OrderKept ==
  ASSUME SafeInv, OrderInv, Next
  PROVE  OrderInv'
  <1>0. CloudTypeOK /\ SentInv
    BY DEF SafeInv, TypeInv, IInv
  <1>1. /\ \A batch \in uplink : OlderAreSettled(batch[1])'
        /\ \A inv \in work : OlderAreSettled(inv.batch[1])'
        /\ \A s \in history : s \in 1..taken' /\ OlderAreSettled(s)'
    BY <1>0, FirstTaken, SettledStays DEF OrderInv, OldestFirst, OlderAreSettled
  <1>2. ASSUME UNCHANGED <<uplink, work, history>> PROVE OrderInv'
    BY <1>1, <1>2 DEF OrderInv, OldestFirst, OlderAreSettled
  <1>3. CASE CacheReplays
    <2>1. PICK s \in 1..taken : s = HeadBatch[1] /\ OlderAreSettled(s)
      BY <1>3, HeadIsNext DEF CacheReplays, At
    <2>2. OlderAreSettled(s)'
      BY <2>1, SettledStays
    <2>3. /\ \A batch \in uplink' : batch \in uplink \/ batch[1] = s
          /\ UNCHANGED <<work, history>>
      BY <1>3, <2>1 DEF CacheReplays, PublishBatch
    <2>4. QED
      BY <1>1, <2>2, <2>3 DEF OrderInv, OldestFirst, OlderAreSettled
  <1>4. CASE CloudWorks
    <2>1. CASE \E inv \in work : StoreSample(inv)
      <3>1. PICK inv \in work : StoreSample(inv)
        BY <2>1
      <3>2. PICK s \in 1..taken : history' = history \cup {s} /\ OlderAreSettled(s)
        BY <3>1, PutInOrder
      <3>3. s \in 1..taken' /\ OlderAreSettled(s)'
        BY <3>2, SettledStays
      <3>4. [inv EXCEPT !.done = @ + 1].batch = inv.batch
        BY <1>0 DEF CloudTypeOK
      <3>5. UNCHANGED uplink /\ work' \subseteq work \cup {[inv EXCEPT !.done = @ + 1]}
        BY <3>1 DEF StoreSample
      <3>6. \A w \in work' : OlderAreSettled(w.batch[1])'
        BY <1>1, <3>4, <3>5
      <3>7. \A r \in history' : r \in 1..taken' /\ OlderAreSettled(r)'
        BY <1>1, <3>2, <3>3
      <3>8. QED
        BY <1>1, <3>5, <3>6, <3>7 DEF OrderInv, OldestFirst, OlderAreSettled
    <2>2. CASE \E batch \in uplink : Invoke(batch)
      <3>1. PICK batch \in uplink : Invoke(batch)
        BY <2>2
      <3>2. /\ uplink' \subseteq uplink /\ UNCHANGED history
            /\ work' \subseteq work \cup {[batch |-> batch, done |-> 0]}
        BY <3>1 DEF Invoke
      <3>3. [batch |-> batch, done |-> 0].batch = batch
        OBVIOUS
      <3>4. QED
        BY <1>1, <3>2, <3>3 DEF OrderInv, OldestFirst, OlderAreSettled
    <2>3. CASE \/ \E batch \in uplink : LoseBatch(batch)
               \/ \E inv \in work : Acknowledge(inv) \/ InvocationFails(inv)
      <3>1. uplink' \subseteq uplink /\ work' \subseteq work /\ UNCHANGED history
        BY <2>3 DEF LoseBatch, Acknowledge, InvocationFails
      <3>2. QED
        BY <1>1, <3>1 DEF OrderInv, OldestFirst, OlderAreSettled
    <2>4. QED
      BY <1>4, <2>1, <2>2, <2>3 DEF CloudWorks, BackfillStep
  <1>5. QED
    BY <1>2, <1>3, <1>4
    DEF Next, Round, Command, World, LoopOffline, LoopReconnects, SessionOpens,
        LoopIdles, LoopReads, TakeAck, AckIgnored, AckRejected, AckAccepted,
        RemovalSucceeds, RemovalFails, LiveDisconnected, LivePublished,
        LiveNotDue, CacheDisabled, CacheOffline, SubscribeFails, CacheIdle,
        CacheReplayFails, PurgeBegins, PurgeEnds, DisableCache, DisablePurges,
        EnableCache, LinkDrops, RetryElapses, PowerLoss, PowerOn, JournalWorks,
        SetupEnds, backfillVars

(* Rows appear oldest first, however many invocations run at once and      *)
(* whatever is sent, delivered or invoked again.                           *)
THEOREM RowsInOrder ==
  ASSUME OnlyCopyOrRemoveFails
  PROVE  Spec => []OldestFirst
  <1>1. Init => SafeInv /\ OrderInv
    BY SafeInit DEF Init, BackfillInit, OrderInv, OldestFirst
  <1>2. SafeInv /\ OrderInv /\ [Next]_vars => SafeInv' /\ OrderInv'
    <2> SUFFICES ASSUME SafeInv, OrderInv, [Next]_vars PROVE SafeInv' /\ OrderInv'
      OBVIOUS
    <2>1. SafeInv'
      BY SafeKept
    <2>2. CASE Next
      BY <2>1, <2>2, OrderKept
    <2>3. CASE UNCHANGED vars
      BY <2>1, <2>3
      DEF vars, backfillVars, ghostVars, OrderInv, OldestFirst, OlderAreSettled
    <2>4. QED
      BY <2>2, <2>3
  <1>3. OrderInv => OldestFirst
    BY DEF OrderInv
  <1>4. QED
    BY <1>1, <1>2, <1>3, PTL DEF Spec
=============================================================================
