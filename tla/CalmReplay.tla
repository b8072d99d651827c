------------------------------ MODULE CalmReplay ------------------------------
(***************************************************************************)
(* OfflineReplay after the trouble is over.  Anything OfflineReplay allows *)
(* happens until calm begins; from then on the network stays, the power    *)
(* stays, no message is lost, no call fails and the owner leaves the cache *)
(* alone.  Calm begins in a round of c6AwsLoop() that found the client     *)
(* disconnected: the firmware has no acknowledgement timeout and relies on *)
(* seeing the loss to try again.                                           *)
(***************************************************************************)
EXTENDS OfflineReplay

VARIABLE calm

calmVars == <<vars, calm>>

CalmInit == Init /\ calm = FALSE

CalmBegins ==
  /\ ~calm /\ calm' = TRUE
  /\ At("cache") /\ enabled /\ ~link
  /\ UNCHANGED vars

(* The journal works; the instance makes no call fail.                     *)
CalmJournal == JournalWorks \/ RemovalSucceeds

(* Packets that are there are read before the loop finds nothing to read;  *)
(* the broker delivers an acknowledgement once.                            *)
CalmReads ==
  /\ \E ack \in acks : /\ AckIgnored(ack) \/ AckRejected(ack) \/ AckAccepted(ack)
                       /\ ack \notin acks'

CalmClient == CalmReads \/ (LoopIdles /\ (~link \/ acks = {}))

CalmLive == LiveDisconnected \/ LivePublished \/ LiveNotDue

(* The broker takes the batch.                                             *)
CalmReplays == CacheReplays /\ HeadBatch \in uplink'

CalmCache == CacheOffline \/ CacheIdle \/ CalmReplays

(* The rule invokes the Lambda once per batch and the Lambda succeeds; it  *)
(* may still reject a batch, which the clocks decide.                      *)
CalmInvokes == \E batch \in uplink : Invoke(batch) /\ batch \notin uplink'

CalmWorks == \E inv \in work : StoreSample(inv) \/ Acknowledge(inv)

CalmCloud ==
  /\ CalmInvokes \/ CalmWorks
  /\ UNCHANGED <<journalVars, loopVars, ramVars, enabled, ghostVars>>

CalmNext ==
  \/ CalmJournal \/ LoopReconnects \/ CalmClient \/ CalmLive \/ CalmCache
  \/ RetryElapses \/ CalmCloud

(* Each part of the cooperative loop is reached again and again; the       *)
(* reconnect attempt of MotAwsIotClient::loop() is due now and then and    *)
(* succeeds, a live value is due now and then and goes out, the retry      *)
(* timer runs out, the Lambda runs.                                        *)
Fairness ==
  /\ WF_calmVars(calm /\ CalmJournal /\ UNCHANGED calm)
  /\ WF_calmVars(calm /\ CalmClient /\ UNCHANGED calm)
  /\ WF_calmVars(calm /\ CalmLive /\ UNCHANGED calm)
  /\ WF_calmVars(calm /\ CalmCache /\ UNCHANGED calm)
  /\ WF_calmVars(calm /\ CalmCloud /\ UNCHANGED calm)
  /\ WF_calmVars(calm /\ RetryElapses /\ UNCHANGED calm)
  /\ SF_calmVars(calm /\ LoopReconnects /\ UNCHANGED calm)
  /\ SF_calmVars(calm /\ LivePublished /\ UNCHANGED calm)

CalmSpec ==
  /\ CalmInit
  /\ [][ \/ ~calm /\ Next /\ UNCHANGED calm
         \/ CalmBegins
         \/ calm /\ CalmNext /\ UNCHANGED calm ]_calmVars
  /\ Fairness

(* Once the trouble is over every sample on flash gets its History row and *)
(* is let go of, however the adapter, the broker and the Lambda were left; *)
(* the one exception the code makes is a batch that the Lambda rejects,    *)
(* which blocks the replay until the next boot.                            *)
JournalDrains == calm ~> [](Recoverable = {} \/ replayBlocked)
=============================================================================
