--------------------------- MODULE MCOfflineReplay ---------------------------
(* OfflineReplay on an instance small enough for TLC.                      *)
EXTENDS OfflineReplay

(* The calls that may fail without a power loss in the safety run.         *)
ToleratedFaults == {"copy", "remove"}

(* States that differ only in a value nobody reads again are one state:    *)
(* the parameters of a journal operation that is over, the batch the       *)
(* adapter no longer waits for, the flag of a session it takes for ended,  *)
(* and what the broker keeps for a session that is disconnected.           *)
LiveState ==
  <<cacheFile, nextFile, recordCount, step,
    IF step = "idle" THEN <<>> ELSE <<skip, caller>>,
    uplink, work, history, IF link THEN <<acks, sessionSubscribed>> ELSE <<>>,
    loopVars, freshLive, previousConnected, KnownSubscribed,
    waitingForAck, replayBlocked, retryHeld,
    IF waitingForAck THEN <<pendingBatchId, pendingBatchCount>> ELSE <<>>,
    enabled, ghostVars>>
=============================================================================
