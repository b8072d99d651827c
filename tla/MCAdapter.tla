------------------------------ MODULE MCAdapter ------------------------------
(***************************************************************************)
(* SpeedHistory and NetworkManager for TLC.  The first takes the link as   *)
(* it comes, whatever the second does, and the second never looks at what  *)
(* is published: so each behaviour is one of them, and the other stays.    *)
(***************************************************************************)
EXTENDS SpeedHistory, NetworkManager

VARIABLE subject

(* The mobile network always has a profile when the home network has one,  *)
(* and home may be in sight without letting the station join, or refuse    *)
(* to show itself.                                                         *)
ProfileSets == {{}, {"mobile"}, {"home", "mobile"}}
Places == {{}, {"home"}, {"mobile"}, {"visible", "mobile"}, {"home", "visible", "mobile"}}

-----------------------------------------------------------------------------
MCInit ==
  /\ Init /\ NetworkInit
  /\ subject \in {"speed", "network"}
  /\ subject = "speed" => profiles = {} /\ onboarded /\ around = {} /\ wifi.ap

MCNext ==
  /\ \/ subject = "speed" /\ Next /\ UNCHANGED networkVars
     \/ subject = "network" /\ NetworkNext /\ UNCHANGED vars
  /\ UNCHANGED subject

MCSpec == MCInit /\ [][MCNext]_<<subject, vars, networkVars>>

(* The types of the one and the other.                                     *)
AdapterTypeOK == TypeOK /\ NetworkTypeOK

MCView == IF subject = "speed" THEN vars ELSE LiveNetwork
=============================================================================
