------------------------------ MODULE MCCharging ------------------------------
(***************************************************************************)
(* ChargingNotifications, DailySummary and StateIngest for TLC.  They      *)
(* share no variable: the daily run sees a charge only by its row and its  *)
(* event, which DailySummary has of its own, and the ingest only hands     *)
(* reports on.  So each behaviour is one of them, and the others' variables*)
(* stay as they are.                                                       *)
(***************************************************************************)
EXTENDS ChargingNotifications, StateIngest, DailySummary

VARIABLE subject

MCInit ==
  /\ Init /\ DailyInit /\ IngestInit
  /\ subject \in {"charging", "daily", "ingest"}
  /\ subject # "charging" => toReport = (CHOOSE s \in Scripts : TRUE).reports
  /\ subject # "ingest" => access = {}

MCNext ==
  /\ \/ subject = "charging" /\ Next /\ UNCHANGED <<dailyVars, ingestVars>>
     \/ subject = "daily" /\ DailyNext /\ UNCHANGED <<vars, ingestVars>>
     \/ subject = "ingest" /\ IngestNext /\ UNCHANGED <<vars, dailyVars>>
  /\ UNCHANGED subject

MCSpec == MCInit /\ [][MCNext]_<<subject, vars, dailyVars, ingestVars>>

(* The rows, tasks and invocations of the first, and the tables, requests  *)
(* and invocations of the third.                                           *)
TypesOK == TypeOK /\ IngestTypeOK

-----------------------------------------------------------------------------
(* One target level, and what the car reports is one of four short         *)
(* stories, at any times and delivered in any order.                       *)
Target == [u \in Users |-> 1]

Plugged(v) == [kind |-> "plugged", value |-> v]
Charging(v) == [kind |-> "charging", value |-> v]
Soc(level) == [kind |-> "soc", value |-> level]

Stories ==
  {[plugged |-> FALSE,   \* reaches the target
    reports |-> <<Plugged(TRUE), Soc(0), Charging(TRUE), Soc(1)>>],
   [plugged |-> TRUE,    \* pauses
    reports |-> <<Charging(TRUE), Charging(TRUE), Charging(FALSE)>>],
   [plugged |-> TRUE,    \* is unplugged
    reports |-> <<Charging(TRUE), Charging(TRUE), Plugged(FALSE)>>],
   [plugged |-> TRUE,    \* charges on after a stop
    reports |-> <<Soc(0), Charging(TRUE), Charging(FALSE), Charging(TRUE)>>]}

(* One vehicle reports twice.                                              *)
TwoReports == LET v == CHOOSE v \in Vehicles : TRUE IN <<v, v>>

Alike == Permutations(Invocations) \cup Permutations(Ingests) \cup Permutations(DailyRuns)
=============================================================================
