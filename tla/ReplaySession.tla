----------------------------- MODULE ReplaySession -----------------------------
(***************************************************************************)
(* OfflineReplay with one history variable: whether the adapter has        *)
(* published a live value in the broker session that is open now.  The     *)
(* firmware keeps no such thing; freshLivePublished, which stands in for   *)
(* it, is cleared only when a round of c6AwsLoop() finds the client        *)
(* disconnected after MotAwsIotClient::loop().                             *)
(***************************************************************************)
EXTENDS OfflineReplay

VARIABLE sessionLive

sessionVars == <<vars, sessionLive>>

SessionInit == Init /\ sessionLive = FALSE

(* A round that finds no value due leaves freshLive as it is, so once it   *)
(* is set LiveNotDue and LivePublished change the same variables: either   *)
(* disjunct may take such a step.                                          *)
SessionNext ==
  \/ LoopReconnects /\ sessionLive' = FALSE
  \/ LivePublished /\ sessionLive' = TRUE
  \/ Next /\ ~LoopReconnects /\ ~(LivePublished /\ ~freshLive) /\ UNCHANGED sessionLive

SessionSpec == SessionInit /\ [][SessionNext]_sessionVars

(* "reconnect publishes fresh live state before bounded background replay" *)
(* (docs/project/sprints/CACHE-001.md:96): the step that publishes a batch *)
(* is taken only in a session that has carried a live value.               *)
LiveBeforeReplay ==
  [][~waitingForAck /\ waitingForAck' => sessionLive]_sessionVars
=============================================================================
