---------------------------- MODULE OfflineReplay ----------------------------
(***************************************************************************)
(* The adapter's cloud loop over the offline journal and the backfill      *)
(* Lambda: c6AwsLoop() with MotAwsIotClient::loop(), the acknowledgement   *)
(* callback and c6OfflineCacheLoop().                                      *)
(*                                                                         *)
(* The firmware is one cooperative loop.  pc says how far a round of it    *)
(* has come; while step # "idle" the round is inside a journal operation.  *)
(* The socket, the broker and the Lambda move at any time.                 *)
(***************************************************************************)
EXTENDS Integers, OfflineJournal, HistoryBackfill

CONSTANTS
  BatchRecords,     \* REPLAY_BATCH_RECORDS
  MaxSamples        \* bound: samples taken in a behaviour

ASSUME ReplayAssumption ==
  /\ BatchRecords \in Nat \ {0}
  /\ MaxSamples \in Nat

VARIABLES
  pc,                 \* the part of the loop that runs next
  link,               \* mqtt_.connected()
  freshLive,          \* freshLivePublished
  previousConnected,  \* the fields of CacheState, under their names
  subscribed,
  waitingForAck,
  replayBlocked,
  pendingBatchId,
  pendingBatchCount,
  retryHeld,          \* REPLAY_RETRY_MS since lastReplayAttemptMs not over
  enabled,            \* c6Config.offlineCacheEnabled, persistent
  taken,              \* ghost: samples stored so far; they are 1..taken
  purged              \* ghost: samples erased by a purge

loopVars == <<pc, link>>
ramVars == <<freshLive, previousConnected, subscribed, waitingForAck,
             replayBlocked, pendingBatchId, pendingBatchCount, retryHeld>>
ghostVars == <<taken, purged>>
vars == <<journalVars, backfillVars, loopVars, ramVars, enabled, ghostVars>>

NoBatch == <<>>

RamReset ==
  /\ freshLive' = FALSE
  /\ previousConnected' = FALSE
  /\ subscribed' = FALSE
  /\ waitingForAck' = FALSE
  /\ replayBlocked' = FALSE
  /\ pendingBatchId' = NoBatch
  /\ pendingBatchCount' = 0
  /\ retryHeld' = FALSE

Init ==
  /\ JournalInit
  /\ BackfillInit
  /\ pc = "client" /\ link = FALSE
  /\ freshLive = FALSE /\ previousConnected = FALSE /\ subscribed = FALSE
  /\ waitingForAck = FALSE /\ replayBlocked = FALSE
  /\ pendingBatchId = NoBatch /\ pendingBatchCount = 0 /\ retryHeld = FALSE
  /\ enabled = TRUE
  /\ taken = 0 /\ purged = {}

At(place) == step = "idle" /\ pc = place

-----------------------------------------------------------------------------
(* MotAwsIotClient::loop().                                                *)

(* The network manager has no transport: the client hangs up.              *)
LoopOffline ==
  /\ At("client")
  /\ link' = FALSE /\ pc' = "live"
  /\ UNCHANGED <<journalVars, backfillVars, ramVars, enabled, ghostVars>>

(* Not connected, and the reconnect delay is over: one attempt, and nobody *)
(* outside the client is told that this is another session.                *)
LoopReconnects ==
  /\ At("client") /\ ~link
  /\ SessionOpens
  /\ link' = TRUE /\ pc' = "live"
  /\ UNCHANGED <<journalVars, ramVars, enabled, ghostVars>>

(* No attempt is due, the attempt fails, or there is nothing to read.      *)
LoopIdles ==
  /\ At("client")
  /\ pc' = "live"
  /\ UNCHANGED <<journalVars, backfillVars, link, ramVars, enabled, ghostVars>>

(* mqtt_.loop() reads a packet: c6OfflineCacheHandleAwsMessage().          *)
LoopReads(ack) ==
  /\ At("client") /\ link
  /\ TakeAck(ack)
  /\ pc' = "live"
  /\ UNCHANGED <<link, enabled, ghostVars>>

(* Mutant: an acknowledgement is matched by its number of samples only.    *)
ExpectedAny(ack) == waitingForAck

Expected(ack) == waitingForAck /\ ack.id = pendingBatchId

AckIgnored(ack) ==
  /\ LoopReads(ack)
  /\ ~Expected(ack) \/ (ack.accepted /\ ack.count # pendingBatchCount)
  /\ UNCHANGED <<journalVars, ramVars>>

AckRejected(ack) ==
  /\ LoopReads(ack)
  /\ Expected(ack) /\ ~ack.accepted
  /\ replayBlocked' = TRUE /\ waitingForAck' = FALSE
  /\ UNCHANGED <<journalVars, freshLive, previousConnected, subscribed,
                 pendingBatchId, pendingBatchCount, retryHeld>>

AckAccepted(ack) ==
  /\ LoopReads(ack)
  /\ Expected(ack) /\ ack.accepted /\ ack.count = pendingBatchCount
  /\ BeginRemoval(pendingBatchCount)
  /\ UNCHANGED ramVars

(* removeAcknowledged() has returned true.                                 *)
RemovalSucceeds ==
  /\ step = "done" /\ caller = "ack"
  /\ EndOperation
  /\ pendingBatchId' = NoBatch /\ pendingBatchCount' = 0
  /\ waitingForAck' = FALSE /\ replayBlocked' = FALSE /\ retryHeld' = FALSE
  /\ UNCHANGED <<backfillVars, loopVars, freshLive, previousConnected,
                 subscribed, enabled, ghostVars>>

(* removeAcknowledged() has returned false.                                *)
RemovalFails ==
  /\ step = "failed"
  /\ EndOperation
  /\ waitingForAck' = FALSE
  /\ UNCHANGED <<backfillVars, loopVars, freshLive, previousConnected,
                 subscribed, replayBlocked, pendingBatchId, pendingBatchCount,
                 retryHeld, enabled, ghostVars>>

-----------------------------------------------------------------------------
(* The rest of c6AwsLoop(): freshLivePublished.                            *)

LiveDisconnected ==
  /\ At("live") /\ ~link
  /\ freshLive' = FALSE /\ pc' = "cache"
  /\ UNCHANGED <<journalVars, backfillVars, link, previousConnected,
                 subscribed, waitingForAck, replayBlocked, pendingBatchId,
                 pendingBatchCount, retryHeld, enabled, ghostVars>>

(* publishIntervalMs is over and at least one value went out.              *)
LivePublished ==
  /\ At("live") /\ link
  /\ freshLive' = TRUE /\ pc' = "cache"
  /\ UNCHANGED <<journalVars, backfillVars, link, previousConnected,
                 subscribed, waitingForAck, replayBlocked, pendingBatchId,
                 pendingBatchCount, retryHeld, enabled, ghostVars>>

(* It is not over, or no value is valid.                                   *)
LiveNotDue ==
  /\ At("live") /\ link
  /\ pc' = "cache"
  /\ UNCHANGED <<journalVars, backfillVars, link, ramVars, enabled, ghostVars>>

-----------------------------------------------------------------------------
(* c6OfflineCacheLoop().                                                   *)

CacheDisabled ==
  /\ At("cache") /\ ~enabled
  /\ pc' = "client"
  /\ UNCHANGED <<journalVars, backfillVars, link, ramVars, enabled, ghostVars>>

(* Mutant: losing the session does not end the wait.                       *)
CacheOfflineWaits ==
  /\ At("cache") /\ enabled /\ ~link
  /\ subscribed' = FALSE
  /\ previousConnected' = FALSE
  /\ pc' = "client"
  /\ \/ /\ taken < MaxSamples
        /\ AppendRecord(taken + 1)
        /\ taken' = taken + 1
     \/ AppendShort /\ UNCHANGED taken
     \/ UNCHANGED <<journalVars, taken>>
  /\ UNCHANGED <<backfillVars, link, freshLive, waitingForAck, replayBlocked,
                 pendingBatchId, pendingBatchCount, retryHeld, enabled, purged>>

(* Not connected: forget the session and sample.  sampleOffline() may have *)
(* nothing to store; that it may store a Speed and a SOC record in one     *)
(* round is two rounds here.                                               *)
CacheOffline ==
  /\ At("cache") /\ enabled /\ ~link
  /\ subscribed' = FALSE /\ waitingForAck' = FALSE
  /\ previousConnected' = FALSE
  /\ pc' = "client"
  /\ \/ /\ taken < MaxSamples
        /\ AppendRecord(taken + 1)
        /\ taken' = taken + 1
     \/ AppendShort /\ UNCHANGED taken
     \/ UNCHANGED <<journalVars, taken>>
  /\ UNCHANGED <<backfillVars, link, freshLive, replayBlocked, pendingBatchId,
                 pendingBatchCount, retryHeld, enabled, purged>>

KnownSubscribed == previousConnected /\ subscribed

(* The adapter subscribes in a session it takes for new.  SUBSCRIBE fails  *)
(* only on a socket that is gone.                                          *)
SubscribeFails ==
  /\ At("cache") /\ enabled /\ link /\ ~KnownSubscribed
  /\ previousConnected' = TRUE /\ subscribed' = FALSE /\ link' = FALSE
  /\ pc' = "client"
  /\ UNCHANGED <<journalVars, backfillVars, freshLive, waitingForAck,
                 replayBlocked, pendingBatchId, pendingBatchCount, retryHeld,
                 enabled, ghostVars>>

ReplayAllowed ==
  /\ freshLive /\ recordCount > 0
  /\ ~waitingForAck /\ ~replayBlocked /\ ~retryHeld

(* readBatch(): the head of the journal.                                   *)
HeadBatch ==
  SubSeq(cacheFile.recs, 1,
         IF Len(cacheFile.recs) < BatchRecords THEN Len(cacheFile.recs)
                                               ELSE BatchRecords)

Subscription ==
  /\ previousConnected' = TRUE /\ subscribed' = TRUE
  /\ pc' = "client"
  /\ UNCHANGED <<journalVars, freshLive, replayBlocked, enabled, ghostVars>>

(* The broker learns of the subscription only if SUBSCRIBE was sent.       *)
SubscriptionSent ==
  IF KnownSubscribed THEN UNCHANGED sessionSubscribed ELSE sessionSubscribed' = TRUE

CacheIdle ==
  /\ At("cache") /\ enabled /\ link
  /\ Subscription /\ SubscriptionSent
  /\ ~ReplayAllowed
  /\ UNCHANGED <<uplink, work, history, acks, link, waitingForAck,
                 pendingBatchId, pendingBatchCount, retryHeld>>

(* publishBatch() succeeds.                                                *)
CacheReplays ==
  /\ At("cache") /\ enabled /\ link
  /\ Subscription /\ SubscriptionSent
  /\ ReplayAllowed /\ HeadBatch # <<>>
  /\ retryHeld' = TRUE /\ waitingForAck' = TRUE
  /\ pendingBatchId' = BatchId(HeadBatch)
  /\ pendingBatchCount' = Len(HeadBatch)
  /\ PublishBatch(HeadBatch)
  /\ UNCHANGED <<work, history, acks, link>>

(* publishBatch() returns false: nothing readable, or the socket is gone.  *)
CacheReplayFails ==
  /\ At("cache") /\ enabled /\ link
  /\ Subscription /\ SubscriptionSent
  /\ ReplayAllowed
  /\ retryHeld' = TRUE
  /\ link' = (HeadBatch = <<>>)
  /\ UNCHANGED <<uplink, work, history, acks, waitingForAck, pendingBatchId,
                 pendingBatchCount>>

-----------------------------------------------------------------------------
(* Local commands run between two rounds of the cloud loop.                *)

(* c6OfflineCachePurge(), for "cache purge" and the factory reset ...      *)
PurgeBegins ==
  /\ At("client")
  /\ PurgeCacheFile
  /\ purged' = purged \cup (Recoverable \ Recoverable')
  /\ pc' = "purge"
  /\ UNCHANGED <<backfillVars, link, ramVars, enabled, taken>>

(* Mutant: the purge leaves the adapter waiting.                           *)
PurgeKeepsWaiting ==
  /\ At("purge")
  /\ PurgeNextFile
  /\ purged' = purged \cup (Recoverable \ Recoverable')
  /\ pc' = "client"
  /\ UNCHANGED <<backfillVars, link, ramVars, enabled, taken>>

(* The factory reset goes on to clear the settings; the cache is off by    *)
(* default.                                                                *)
PurgeEnds ==
  /\ At("purge")
  /\ PurgeNextFile
  /\ purged' = purged \cup (Recoverable \ Recoverable')
  /\ waitingForAck' = FALSE
  /\ pendingBatchId' = NoBatch /\ pendingBatchCount' = 0
  /\ enabled' \in {enabled, FALSE} /\ pc' = "client"
  /\ UNCHANGED <<backfillVars, link, freshLive, previousConnected, subscribed,
                 replayBlocked, retryHeld, taken>>

(* ... and for c6ConfigSetOfflineCacheEnabled(false), which has saved the  *)
(* switch by then.                                                         *)
DisableCache ==
  /\ At("client") /\ enabled
  /\ enabled' = FALSE /\ pc' = "disabled"
  /\ UNCHANGED <<journalVars, backfillVars, link, ramVars, ghostVars>>

DisablePurges ==
  /\ At("disabled")
  /\ PurgeCacheFile
  /\ purged' = purged \cup (Recoverable \ Recoverable')
  /\ pc' = "purge"
  /\ UNCHANGED <<backfillVars, link, ramVars, enabled, taken>>

EnableCache ==
  /\ At("client") /\ ~enabled
  /\ enabled' = TRUE
  /\ UNCHANGED <<journalVars, backfillVars, loopVars, ramVars, ghostVars>>

-----------------------------------------------------------------------------
(* The world around the loop.                                              *)

(* The peer closes the socket or the network drops it; switching the cloud *)
(* off, which hangs up and touches nothing else, looks the same.           *)
LinkDrops ==
  /\ link
  /\ link' = FALSE
  /\ UNCHANGED <<journalVars, backfillVars, pc, ramVars, enabled, ghostVars>>

RetryElapses ==
  /\ retryHeld
  /\ retryHeld' = FALSE
  /\ UNCHANGED <<journalVars, backfillVars, loopVars, freshLive,
                 previousConnected, subscribed, waitingForAck, replayBlocked,
                 pendingBatchId, pendingBatchCount, enabled, ghostVars>>

(* A record may be half written when the power goes.                       *)
PowerLoss ==
  /\ step # "down"
  /\ \E torn \in {FALSE, At("cache") /\ enabled /\ ~link
                         /\ recordCount < MaxRecords} : JournalDown(torn)
  /\ pc' = "client" /\ link' = FALSE
  /\ RamReset
  /\ UNCHANGED <<backfillVars, enabled, ghostVars>>

PowerOn ==
  /\ JournalUp
  /\ UNCHANGED <<backfillVars, loopVars, ramVars, enabled, ghostVars>>

JournalWorks ==
  /\ JournalStep
  /\ UNCHANGED <<backfillVars, loopVars, ramVars, enabled, ghostVars>>

(* c6OfflineCacheSetup() returns and the loop starts.                      *)
SetupEnds ==
  /\ step = "done" /\ caller = "setup"
  /\ EndOperation
  /\ UNCHANGED <<backfillVars, loopVars, ramVars, enabled, ghostVars>>

CloudWorks ==
  /\ BackfillStep
  /\ UNCHANGED <<journalVars, loopVars, ramVars, enabled, ghostVars>>

Round ==
  \/ LoopOffline \/ LoopReconnects \/ LoopIdles
  \/ \E ack \in acks : AckIgnored(ack) \/ AckRejected(ack) \/ AckAccepted(ack)
  \/ RemovalSucceeds \/ RemovalFails
  \/ LiveDisconnected \/ LivePublished \/ LiveNotDue
  \/ CacheDisabled \/ CacheOffline \/ SubscribeFails \/ CacheIdle
  \/ CacheReplays \/ CacheReplayFails

Command ==
  \/ PurgeBegins \/ PurgeEnds \/ DisableCache \/ DisablePurges \/ EnableCache

World == LinkDrops \/ RetryElapses \/ PowerLoss \/ CloudWorks

Next == Round \/ Command \/ World \/ PowerOn \/ JournalWorks \/ SetupEnds

Spec == Init /\ [][Next]_vars

-----------------------------------------------------------------------------
(* Types: one conjunct per part of the state.                              *)
Samples == 1..MaxSamples
Batch == {recs \in Seq(Samples) : recs # <<>>}
BatchIds == {<<>>} \cup (Samples \X Nat \X Samples)
Journal == [exists : BOOLEAN, recs : Seq(Samples), torn : BOOLEAN]

JournalTypeOK ==
  /\ cacheFile \in Journal /\ nextFile \in Journal
  /\ recordCount \in 0..MaxRecords /\ step \in Steps /\ skip \in Nat
  /\ caller \in {"setup", "ack"}

CloudTypeOK ==
  /\ uplink \subseteq Batch
  /\ \A inv \in work : /\ inv = [batch |-> inv.batch, done |-> inv.done]
                       /\ inv.batch \in Batch /\ inv.done \in 0..Len(inv.batch)
  /\ history \subseteq Samples
  /\ \A ack \in acks : ack = [id |-> ack.id, count |-> ack.count,
                              accepted |-> ack.accepted]
                     /\ ack.id \in BatchIds /\ ack.count \in Nat
                     /\ ack.accepted \in BOOLEAN
  /\ sessionSubscribed \in BOOLEAN

LoopTypeOK ==
  /\ pc \in {"client", "live", "cache", "purge", "disabled"}
  /\ pendingBatchId \in BatchIds /\ pendingBatchCount \in Nat
  /\ link \in BOOLEAN /\ freshLive \in BOOLEAN
  /\ previousConnected \in BOOLEAN /\ subscribed \in BOOLEAN
  /\ waitingForAck \in BOOLEAN /\ replayBlocked \in BOOLEAN
  /\ retryHeld \in BOOLEAN /\ enabled \in BOOLEAN
  /\ taken \in 0..MaxSamples /\ purged \subseteq Samples

TypeOK == JournalTypeOK /\ CloudTypeOK /\ LoopTypeOK

(* A sample that append() stored is on flash, or in History, or was purged *)
(* by the owner: no interleaving of appends, rewrites, power losses, late, *)
(* lost or repeated messages and half-finished Lambda runs loses one.      *)
NoUnacknowledgedLoss ==
  \A s \in 1..taken : s \in Recoverable \cup history \cup purged

(* While the adapter waits for an acknowledgement the batch it names is    *)
(* still the head of the journal, so that removeAcknowledged(), which      *)
(* deletes by count, deletes what was acknowledged.                        *)
PendingIsHead ==
  waitingForAck /\ step = "idle" /\ pc # "purge" =>
    /\ pendingBatchCount \in 1..Len(cacheFile.recs)
    /\ pendingBatchId = BatchId(SubSeq(cacheFile.recs, 1, pendingBatchCount))

(* Replay is oldest-first end to end: a sample has no row before every     *)
(* older sample that was not purged has one.                               *)
OldestFirst ==
  \A s \in history : \A t \in 1..taken : t < s => t \in history \cup purged

(* recordCount, the copy in RAM that append() measures the capacity by and *)
(* the loop decides to replay by, is the number of records on flash.       *)
CountMatchesJournal ==
  step = "idle" /\ pc # "purge" =>
    /\ recordCount = Len(cacheFile.recs)
    /\ recordCount <= MaxRecords

(* A removal leaves out only records whose rows are in History: late,      *)
(* repeated and lost messages, power losses and stale scratch files never  *)
(* make an acknowledgement speak of records that are not stored.           *)
RemovedAreStored ==
  step \in {"open", "copy", "unlink"} =>
    \A i \in 1..skip : i \in DOMAIN cacheFile.recs /\ cacheFile.recs[i] \in history

-----------------------------------------------------------------------------
(* Why a removal is right, whatever calls of the file system fail.         *)

(* Samples are numbered as they are taken and appended in that order.  The *)
(* numbers may have gaps: samples that a purge erased.                     *)
Ascending(recs) == \A i, j \in DOMAIN recs : i < j => recs[i] < recs[j]
TakenOnly(recs) == \A i \in DOMAIN recs : recs[i] \in 1..taken

RecordsInv ==
  /\ Ascending(cacheFile.recs) /\ TakenOnly(cacheFile.recs)
  /\ Ascending(nextFile.recs) /\ TakenOnly(nextFile.recs)

(* A scratch file, however it was left behind, fills no gap of the journal.*)
FilesInv ==
  /\ RecordsInv
  /\ ~cacheFile.exists => cacheFile = NoFile
  /\ ~nextFile.exists => nextFile = NoFile
  /\ \A s \in SamplesIn(nextFile) :
       s \in SamplesIn(cacheFile) \/ \A t \in SamplesIn(cacheFile) : s < t

RewriteInv ==
  /\ step \in {"open", "copy", "unlink"} => cacheFile.exists
  /\ step = "rename" => ~cacheFile.exists

(* What the adapter may ever find again.                                   *)
Held == SamplesIn(cacheFile) \cup SamplesIn(nextFile)

(* A batch is ascending too, and leaves out nothing between its ends that  *)
(* is on flash, so its first and last sample say which of them are in it;  *)
(* an invocation has stored what it says is done, and an acknowledgement   *)
(* that accepts speaks of rows that exist.                                 *)
Covers(batch) ==
  \A s \in Held : batch[1] <= s /\ s <= batch[Len(batch)] =>
    \E i \in DOMAIN batch : batch[i] = s

Stored(id) ==
  id[3] \in 1..taken /\ \A s \in Held : id[1] <= s /\ s <= id[3] => s \in history

CloudInv ==
  /\ \A batch \in uplink : Ascending(batch) /\ Covers(batch)
  /\ \A inv \in work : /\ Ascending(inv.batch) /\ Covers(inv.batch)
                       /\ \A i \in 1..inv.done : inv.batch[i] \in history
  /\ \A ack \in acks : ack.accepted => Stored(ack.id)

(* Nothing is in flight that was not taken.                                *)
SentInv ==
  /\ \A batch \in uplink : \A i \in DOMAIN batch : batch[i] \in 1..taken
  /\ \A inv \in work : \A i \in DOMAIN inv.batch : inv.batch[i] \in 1..taken

(* The adapter waits for nothing while it boots.                           *)
BootInv == step # "idle" /\ caller = "setup" => ~waitingForAck

-----------------------------------------------------------------------------
(* Why no sample is lost: the inductive invariant, for a file system on    *)
(* which copying to the scratch file and removing a file may fail.         *)

(* A scratch file that could not be removed lies beside a journal that has *)
(* all of its samples.  It is alone only once a rewrite has finished it,   *)
(* or while a purge has removed just one of the two.                       *)
ScratchInv ==
  /\ cacheFile.exists => SamplesIn(nextFile) \subseteq SamplesIn(cacheFile)
  /\ nextFile.exists /\ ~cacheFile.exists =>
       step \in {"down", "recover", "rename"} \/ pc = "purge"
  /\ step = "unlink" =>
       nextFile.recs = SubSeq(cacheFile.recs, skip + 1, Len(cacheFile.recs))
  /\ step \in {"unlink", "rename"} => nextFile.exists
  /\ ~nextFile.torn

(* A damaged tail exists only between a power loss and the end of the      *)
(* repair.                                                                 *)
TailInv ==
  cacheFile.torn =>
    \/ step \in {"down", "recover", "scan"}
    \/ step \in {"open", "copy", "unlink"} /\ skip = 0

JournalInv == FilesInv /\ RewriteInv /\ RemovedAreStored /\ ScratchInv /\ TailInv

IInv ==
  /\ JournalInv /\ CloudInv /\ SentInv /\ BootInv
  /\ PendingIsHead /\ NoUnacknowledgedLoss

-----------------------------------------------------------------------------
(* The cache implements StoreAndForward: it lets go of a sample only once  *)
(* History has it, or by a purge.                                          *)
SF == INSTANCE StoreAndForward WITH held <- Recoverable, delivered <- history

ImplementsStoreAndForward == SF!Spec
=============================================================================
