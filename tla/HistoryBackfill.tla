--------------------------- MODULE HistoryBackfill ---------------------------
(***************************************************************************)
(* The cloud's half of the offline cache: the broker between the adapter   *)
(* and the backfill Lambda, the Lambda's invocations, the History table.   *)
(*                                                                         *)
(* A batch is the sequence of its samples.  Its batchId is made from the   *)
(* first sample, the count and the last record's checksum.                 *)
(***************************************************************************)
EXTENDS Naturals, Sequences, FiniteSets

CONSTANTS
  MaxUplink,        \* bound: batches in flight; one more is lost
  MaxInvocations    \* bound: invocations of the Lambda that run at once

ASSUME BackfillAssumption ==
  /\ MaxUplink \in Nat \ {0}
  /\ MaxInvocations \in Nat \ {0}

VARIABLES
  uplink,      \* batches published and not yet consumed by the rule
  work,        \* running invocations: a batch and how many samples are done
  history,     \* the samples that have a row
  acks,        \* acknowledgements queued for the adapter's session
  sessionSubscribed   \* the broker's side: the session is subscribed to the acks

backfillVars == <<uplink, work, history, acks, sessionSubscribed>>

BatchId(batch) == <<batch[1], Len(batch), batch[Len(batch)]>>

Ack(batch, accepted) ==
  [id |-> BatchId(batch), count |-> Len(batch), accepted |-> accepted]

BackfillInit ==
  /\ uplink = {}
  /\ work = {}
  /\ history = {}
  /\ acks = {}
  /\ sessionSubscribed = FALSE

(* The adapter's QoS 0 publish.                                            *)
PublishBatch(batch) ==
  uplink' = IF Cardinality(uplink) < MaxUplink THEN uplink \cup {batch} ELSE uplink

(* _publish_ack(): the session is clean, so an acknowledgement for a       *)
(* session that is not subscribed goes nowhere.                            *)
PublishAck(ack) == acks' = IF sessionSubscribed THEN acks \cup {ack} ELSE acks

(* The rule invokes the Lambda asynchronously and may do so again; the     *)
(* Lambda validates the whole envelope before it writes anything.  Whether *)
(* the age, future-skew and order checks pass depends on clocks that are   *)
(* not in this module, so either may happen.                               *)
Invoke(batch) ==
  /\ batch \in uplink
  /\ uplink' \in {uplink, uplink \ {batch}}
  /\ \/ /\ Cardinality(work) < MaxInvocations
        /\ work' = work \cup {[batch |-> batch, done |-> 0]}
        /\ UNCHANGED acks
     \/ /\ PublishAck(Ack(batch, FALSE))
        /\ UNCHANGED work
  /\ UNCHANGED <<history, sessionSubscribed>>

(* One round of _store(): a conditional put, so a sample that is there     *)
(* already counts as a duplicate and changes nothing.                      *)
StoreSample(inv) ==
  /\ inv \in work
  /\ inv.done < Len(inv.batch)
  /\ history' = history \cup {inv.batch[inv.done + 1]}
  /\ work' = (work \ {inv}) \cup {[inv EXCEPT !.done = @ + 1]}
  /\ UNCHANGED <<uplink, acks, sessionSubscribed>>

(* Mutant: the Lambda acknowledges a batch it has begun to store.          *)
AcknowledgeEarly(inv) ==
  /\ inv \in work
  /\ inv.done > 0
  /\ work' = work \ {inv}
  /\ PublishAck(Ack(inv.batch, TRUE))
  /\ UNCHANGED <<uplink, history, sessionSubscribed>>

Acknowledge(inv) ==
  /\ inv \in work
  /\ inv.done = Len(inv.batch)
  /\ work' = work \ {inv}
  /\ PublishAck(Ack(inv.batch, TRUE))
  /\ UNCHANGED <<uplink, history, sessionSubscribed>>

(* A put or the acknowledgement fails with another error, or the Lambda    *)
(* times out: the rows written so far stay, nobody is told.                *)
InvocationFails(inv) ==
  /\ inv \in work
  /\ work' = work \ {inv}
  /\ UNCHANGED <<uplink, history, acks, sessionSubscribed>>

LoseBatch(batch) ==
  /\ batch \in uplink
  /\ uplink' = uplink \ {batch}
  /\ UNCHANGED <<work, history, acks, sessionSubscribed>>

BackfillStep ==
  \/ \E batch \in uplink : Invoke(batch) \/ LoseBatch(batch)
  \/ \E inv \in work :
       StoreSample(inv) \/ Acknowledge(inv) \/ InvocationFails(inv)

-----------------------------------------------------------------------------
(* A clean-session CONNECT: no subscription, no queued message survives.   *)
SessionOpens ==
  /\ acks' = {}
  /\ sessionSubscribed' = FALSE
  /\ UNCHANGED <<uplink, work, history>>

(* The adapter reads an acknowledgement; the broker may send it again.     *)
TakeAck(ack) ==
  /\ ack \in acks
  /\ acks' \in {acks, acks \ {ack}}
  /\ UNCHANGED <<uplink, work, history, sessionSubscribed>>
=============================================================================
