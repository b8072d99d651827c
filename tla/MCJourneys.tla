------------------------------ MODULE MCJourneys ------------------------------
(***************************************************************************)
(* Journeys and LiveDashboard for TLC.  The page neither sees a journey    *)
(* nor makes one, so each behaviour is one of them, and the other stays.   *)
(***************************************************************************)
EXTENDS Journeys, LiveDashboard

VARIABLE subject

(* The car's readings are one of a few short stories.                      *)
Stories ==
  {[driving |-> TRUE, readings |-> <<"progress", "zero", "moving">>],
   [driving |-> TRUE, readings |-> <<"progress", "counter", "zero">>],
   [driving |-> TRUE, readings |-> <<"charge", "moving">>],
   [driving |-> TRUE, readings |-> <<"moving", "charge">>],
   [driving |-> FALSE, readings |-> <<"moving", "progress">>]}

(* Of one vehicle there are two values, so that one of them can be late.   *)
TwoThenOne == <<2, 1>>

-----------------------------------------------------------------------------
MCInit ==
  /\ Init /\ PageInit
  /\ \/ subject = "journeys" /\ granted = {}
     \/ subject = "page" /\ toReport = (CHOOSE s \in Scripts : TRUE).readings

MCNext ==
  /\ \/ subject = "journeys" /\ Next /\ UNCHANGED pageVars
     \/ subject = "page" /\ PageNext /\ UNCHANGED vars
  /\ UNCHANGED subject

(* The steps of the one or the other, for their fairness.                  *)
Clocked == subject = "journeys" /\ Tick
Begun(i) == subject = "journeys" /\ Begin(i)
Fired(i) == subject = "journeys" /\ ScheduleFires(i)
Worked(i) == subject = "journeys" /\ (Works(i) \/ Contention(i))
Calmed == subject = "page" /\ Calms
Listed == subject = "page" /\ ListRuns
Polled == subject = "page" /\ PollRuns
Heard(k) == subject = "page" /\ LiveArrives(k)

(* The fairness of Journeys and LiveDashboard, each for its own behaviours.*)
MCFairness ==
  /\ WF_vars(Clocked) /\ \A i \in Readers : WF_vars(Begun(i))
  /\ \A i \in Closers : WF_vars(Fired(i))
  /\ \A i \in Invocations : WF_vars(Worked(i))
  /\ WF_pageVars(Calmed) /\ WF_pageVars(Listed) /\ WF_pageVars(Polled)
  /\ \A k \in 1..MaxClients : WF_pageVars(Heard(k))

MCSpec == MCInit /\ [][MCNext]_<<subject, vars, pageVars>> /\ MCFairness

(* The rows, tasks and invocations of the one, the page and its clients of *)
(* the other.                                                              *)
TypesOK == TypeOK /\ PageTypeOK

(* See LiveDashboard: a calm page shows the row of the vehicle it selects. *)
PageCatchesUp == subject = "page" => DisplayCatchesUp
=============================================================================
