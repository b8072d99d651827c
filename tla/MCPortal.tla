------------------------------- MODULE MCPortal -------------------------------
(***************************************************************************)
(* OnboardingClaims, FirmwareGrants, NotificationPreferences and           *)
(* DemoRefresh for TLC.  The first three share no table but the audit's,   *)
(* where each has events of its own, and the demo vehicle is in none of    *)
(* the others: so each behaviour is one of them, and the rest stays.       *)
(***************************************************************************)
EXTENDS OnboardingClaims, FirmwareGrants, NotificationPreferences, DemoRefresh, TLC

VARIABLE subject    \* whose behaviour it is

-----------------------------------------------------------------------------
Put(email, mailOn, phone, smsOn) ==
  [call |-> "put", email |-> email, mailOn |-> mailOn, phone |-> phone, smsOn |-> smsOn]

(* The portal's page about mail: two addresses, and mail may be off.       *)
MailCalls ==
  {[call |-> "get"]} \cup {Put(e, on, None, FALSE) : e \in Emails, on \in BOOLEAN}

(* The page about SMS, and events for which one is sent.                   *)
SmsCalls ==
  {[call |-> "confirm"], [call |-> "deliver"]}
    \cup {[call |-> "request", phone |-> p] : p \in Phones}
    \cup {Put(None, FALSE, p, TRUE) : p \in Phones}

(* Administrators at work while messages go out.                           *)
ToolCalls ==
  {[call |-> "revoke"], [call |-> "deliver"]}
    \cup {[call |-> "approve", phone |-> p] : p \in Phones}

Pages == {MailCalls, SmsCalls, ToolCalls}
TwoTargets == <<"n16", "xiao">>

(* What the demo's source has reported at the moments 0 to 2.              *)
PastSamples ==
  {[signal |-> "speed", at |-> t] : t \in 0..2} \cup {[signal |-> "heartbeat", at |-> 2]}

(* PreferenceRuns are the same two as Requests.                            *)
Alike == Permutations(Users) \cup Permutations(Requests) \cup Permutations(ClaimIds)

-----------------------------------------------------------------------------
(* Each behaviour starts the others in one state only.                     *)
MCInit ==
  /\ Init /\ GrantsInit /\ PreferencesInit /\ DemoInit
  /\ subject \in {"claims", "grants", "preferences", "demo"}
  /\ subject # "claims" => accounts = Users
  /\ subject # "preferences" => Fresh /\ repertoire = MailCalls
  /\ subject # "demo" => sourceHistory = {} /\ ~account

MCNext ==
  /\ \/ subject = "claims" /\ Next /\ UNCHANGED <<grantVars, preferenceVars, demoVars>>
     \/ subject = "grants" /\ GrantsNext /\ UNCHANGED <<vars, preferenceVars, demoVars>>
     \/ /\ subject = "preferences" /\ PreferencesNext
        /\ UNCHANGED <<vars, grantVars, demoVars>>
     \/ subject = "demo" /\ DemoNext /\ UNCHANGED <<vars, grantVars, preferenceVars>>
  /\ UNCHANGED subject

MCSpec == MCInit /\ [][MCNext]_<<subject, vars, grantVars, preferenceVars, demoVars>>

(* The types of the tables, trails and invocations of the first three.     *)
TablesTypeOK == TypeOK /\ GrantsTypeOK /\ PreferencesTypeOK
=============================================================================
