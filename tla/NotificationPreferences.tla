------------------------ MODULE NotificationPreferences ------------------------
(***************************************************************************)
(* Where a user's notifications for a vehicle go.  The portal puts and     *)
(* reads the preference row (preference_api), verifies phone numbers       *)
(* (sms_verification_api), administrators approve numbers with a tool      *)
(* (admin_sms_approval), and sms_delivery() reads all of it before an SMS  *)
(* goes out.  Every call to DynamoDB, SNS or the SMS provider is a step,   *)
(* and other invocations run between two of them.                          *)
(*                                                                         *)
(* One row, of a user who has access.  An invocation that is cut off is    *)
(* one that takes no further step.  Left out: thresholds and switches that *)
(* are only stored, syntax, the kill switch and the spend alarm (each only *)
(* rejects), and every day but one of the rate table.                      *)
(***************************************************************************)
EXTENDS Naturals, Sequences, FiniteSets

CONSTANTS
  Emails, Phones, None,
  PreferenceRuns,   \* invocations that may run at the same time
  RateLimit,        \* 10 messages for a number and day
  Repertoires,      \* bound: sets of calls, of one of which a behaviour consists
  MaxCalls          \* bound on the calls made

VARIABLES
  preference,       \* the row
  subscribed, confirmedEmails,   \* the topic's subscriptions, and those confirmed
  destination,      \* SMS_DESTINATION_TABLE
  codesSent,        \* numbers the provider has sent a code to
  approval,         \* the row of SMS_APPROVAL_TABLE
  approvalTrail,    \* its audit table, in the order of the transactions
  rate,             \* SMS rate table
  texts,            \* the messages sent
  step,             \* the invocations, each at its next call
  repertoire, calls,          \* what is called, and how often so far
  everConfirmed, everVerified, \* ghosts: what a user once proved to own
  approvedAfter               \* ghost: audit events before the approval row was created

emailVars == <<subscribed, confirmedEmails, everConfirmed>>
destinationVars == <<destination, codesSent, everVerified>>
approvalVars == <<approval, approvalTrail, approvedAfter>>
smsVars == <<rate, texts>>
callVars == <<repertoire, calls>>
preferenceVars == <<preference, emailVars, destinationVars, approvalVars, smsVars, callVars, step>>

Preference ==
  [email: Emails \cup {None}, mailOn: BOOLEAN, mailConfirmed: BOOLEAN,
   subscription: Emails \cup {None},
   phone: Phones \cup {None}, smsOn: BOOLEAN, smsConfirmed: BOOLEAN]
NewPreference ==
  [email |-> None, mailOn |-> FALSE, mailConfirmed |-> FALSE, subscription |-> None,
   phone |-> None, smsOn |-> FALSE, smsConfirmed |-> FALSE]

(* known: it has a verifiedDestinationNumberId; recent: lastSentAt is less *)
(* than RESEND_SECONDS ago.                                                *)
Destination == [status: {"none", "PENDING", "VERIFIED"}, known: BOOLEAN, recent: BOOLEAN]
NoDestination == [status |-> "none", known |-> FALSE, recent |-> FALSE]

(* What PUT is sent, and what the rest counts on.                          *)
Body ==
  [call: {"put"}, email: Emails \cup {None}, mailOn: BOOLEAN,
   phone: Phones \cup {None}, smsOn: BOOLEAN]

ASSUME PreferencesAssumption ==
  /\ None \notin Emails \cup Phones
  /\ \A c \in UNION Repertoires : c.call = "put" => c \in Body
  /\ RateLimit \in Nat /\ IsFiniteSet(PreferenceRuns)

Approval == [status: {"ACTIVE", "REVOKED"}, phone: Phones, version: Nat, expired: BOOLEAN]
NoApproval == [status |-> "none"]

NotCalled == [at |-> "none"]

(* A user who has just registered, or one whose SMS have been set up.      *)
Fresh ==
  /\ preference = NewPreference
  /\ destination = [p \in Phones |-> NoDestination]
  /\ approval = NoApproval /\ approvalTrail = <<>> /\ everVerified = {} /\ codesSent = {}

SetUp(p) ==
  /\ preference = [NewPreference EXCEPT !.phone = p, !.smsConfirmed = TRUE, !.smsOn = TRUE]
  /\ destination = [q \in Phones |-> IF q # p THEN NoDestination
                      ELSE [status |-> "VERIFIED", known |-> TRUE, recent |-> FALSE]]
  /\ approval = [status |-> "ACTIVE", phone |-> p, version |-> 1, expired |-> FALSE]
  /\ approvalTrail = <<[action |-> "APPROVE", phone |-> p, version |-> 1]>>
  /\ everVerified = {p} /\ codesSent = {p}

PreferencesInit ==
  /\ Fresh \/ \E p \in Phones : SetUp(p)
  /\ subscribed = {} /\ confirmedEmails = {} /\ everConfirmed = {}
  /\ rate = [p \in Phones |-> 0] /\ texts = <<>>
  /\ repertoire \in Repertoires /\ calls = 0
  /\ step = [r \in PreferenceRuns |-> NotCalled]
  /\ approvedAfter = 0

At(r, stage) == step[r].at = stage
Continues(r, next) == step' = [step EXCEPT ![r] = next]
Advances(r, stage) == step' = [step EXCEPT ![r].at = stage]
Finishes(r) == Continues(r, NotCalled)
OnlyReads ==
  UNCHANGED <<preference, emailVars, destinationVars, approvalVars, smsVars, callVars>>

(* The call and its arguments; every call begins with a read.              *)
Called(r, call) ==
  /\ step[r] = NotCalled /\ call \in repertoire /\ calls < MaxCalls
  /\ calls' = calls + 1
  /\ UNCHANGED <<preference, emailVars, destinationVars, approvalVars, smsVars, repertoire>>

-----------------------------------------------------------------------------
(* PUT of preference_api.handler()                                         *)

(* Mutant: a number that is being verified can be switched on.             *)
AcceptsPending(body) ==
  /\ body.mailOn => body.email # None
  /\ body.smsOn => preference.phone = body.phone

Accepted(body) ==
  /\ body.mailOn => body.email # None
  /\ body.smsOn => preference.phone = body.phone /\ preference.smsConfirmed

(* The item is made of the body and the row as it is read here.            *)
PutReads(r, body) ==
  /\ Called(r, body) /\ body.call = "put"
  /\ LET item == [email |-> body.email, mailOn |-> body.mailOn,
           mailConfirmed |-> preference.email = body.email /\ preference.mailConfirmed,
           subscription |-> preference.subscription,
           phone |-> body.phone, smsOn |-> body.smsOn,
           smsConfirmed |-> preference.phone = body.phone /\ preference.smsConfirmed]
     IN Continues(r, IF ~Accepted(body) THEN NotCalled
          ELSE [at |-> IF body.mailOn /\ preference.email # body.email
                         THEN "put-subscribe" ELSE "put-write",
                item |-> item])

PutSubscribes(r) ==
  /\ At(r, "put-subscribe")
  /\ LET email == step[r].item.email IN
     /\ subscribed' = subscribed \cup {email}
     /\ Continues(r, [step[r] EXCEPT !.at = "put-write", !.item.subscription = email])
  /\ UNCHANGED <<preference, confirmedEmails, everConfirmed, destinationVars, approvalVars,
                 smsVars, callVars>>

PutWrites(r) ==
  /\ At(r, "put-write")
  /\ preference' = step[r].item
  /\ Finishes(r)
  /\ UNCHANGED <<emailVars, destinationVars, approvalVars, smsVars, callVars>>

-----------------------------------------------------------------------------
(* GET of preference_api.handler(), reconcile_email_confirmation()         *)

GetReads(r) ==
  /\ Called(r, [call |-> "get"])
  /\ Continues(r, IF ~preference.mailOn \/ preference.subscription = None THEN NotCalled
       ELSE [at |-> "get-ask", item |-> preference])

(* get_subscription_attributes(); one that is not found is not confirmed.  *)
GetAsks(r) ==
  /\ At(r, "get-ask")
  /\ LET confirmed == step[r].item.subscription \in confirmedEmails IN
     IF confirmed = step[r].item.mailConfirmed THEN Finishes(r)
     ELSE Continues(r, [step[r] EXCEPT !.at = "get-write", !.item.mailConfirmed = confirmed])
  /\ OnlyReads

(* Mutant: the update has no condition.                                    *)
GetWritesAnyway(r) ==
  /\ At(r, "get-write")
  /\ preference' = [preference EXCEPT !.mailConfirmed = step[r].item.mailConfirmed]
  /\ Finishes(r)
  /\ UNCHANGED <<emailVars, destinationVars, approvalVars, smsVars, callVars>>

GetWrites(r) ==
  /\ At(r, "get-write")
  /\ LET item == step[r].item IN
     preference' = IF preference.subscription = item.subscription
       THEN [preference EXCEPT !.mailConfirmed = item.mailConfirmed] ELSE preference
  /\ Finishes(r)
  /\ UNCHANGED <<emailVars, destinationVars, approvalVars, smsVars, callVars>>

(* The owner of the address follows the link in SNS's mail.                *)
SubscriptionConfirmed(email) ==
  /\ email \in subscribed \ confirmedEmails
  /\ confirmedEmails' = confirmedEmails \cup {email}
  /\ everConfirmed' = everConfirmed \cup {email}
  /\ UNCHANGED <<preference, subscribed, destinationVars, approvalVars, smsVars, callVars, step>>

(* ... or the one to unsubscribe.                                          *)
SubscriptionRemoved(email) ==
  /\ email \in confirmedEmails
  /\ subscribed' = subscribed \ {email} /\ confirmedEmails' = confirmedEmails \ {email}
  /\ UNCHANGED <<preference, everConfirmed, destinationVars, approvalVars, smsVars, callVars, step>>

-----------------------------------------------------------------------------
(* request_verification()                                                  *)

RequestReads(r, p) ==
  /\ Called(r, [call |-> "request", phone |-> p])
  /\ LET d == destination[p]
         on(stage) == [at |-> stage, phone |-> p]
     IN Continues(r, IF d.status = "VERIFIED" THEN on("request-known")
          ELSE IF d.recent THEN NotCalled
          ELSE IF d.known THEN on("request-send") ELSE on("request-create"))

(* A number at the provider, and its row, whatever the row is by now.      *)
RequestCreates(r) ==
  /\ At(r, "request-create")
  /\ destination' = [destination EXCEPT ![step[r].phone] =
       [status |-> "PENDING", known |-> TRUE, recent |-> FALSE]]
  /\ Advances(r, "request-send")
  /\ UNCHANGED <<preference, emailVars, codesSent, everVerified, approvalVars, smsVars, callVars>>

RequestSends(r) ==
  /\ At(r, "request-send")
  /\ codesSent' = codesSent \cup {step[r].phone}
  /\ Advances(r, "request-stamp")
  /\ UNCHANGED <<preference, emailVars, destination, everVerified, approvalVars, smsVars, callVars>>

RequestStamps(r) ==
  /\ At(r, "request-stamp")
  /\ destination' = [destination EXCEPT ![step[r].phone].recent = TRUE]
  /\ Advances(r, "request-note")
  /\ UNCHANGED <<preference, emailVars, codesSent, everVerified, approvalVars, smsVars, callVars>>

(* The preference names the number; of a verified one no code is asked.    *)
RequestNotes(r) ==
  /\ At(r, "request-note") \/ At(r, "request-known")
  /\ preference' = [preference EXCEPT !.phone = step[r].phone, !.smsOn = FALSE,
                                      !.smsConfirmed = At(r, "request-known")]
  /\ Finishes(r)
  /\ UNCHANGED <<emailVars, destinationVars, approvalVars, smsVars, callVars>>

-----------------------------------------------------------------------------
(* confirm_verification(), with the code the number was sent               *)

ConfirmReads(r) ==
  /\ Called(r, [call |-> "confirm"])
  /\ Continues(r, IF preference.phone = None THEN NotCalled
                  ELSE [at |-> "confirm-find", phone |-> preference.phone])

ConfirmFinds(r) ==
  /\ At(r, "confirm-find")
  /\ IF destination[step[r].phone].known THEN Advances(r, "confirm-verify") ELSE Finishes(r)
  /\ OnlyReads

ConfirmVerifies(r) ==
  /\ At(r, "confirm-verify")
  /\ LET p == step[r].phone IN
     \/ /\ p \in codesSent
        /\ everVerified' = everVerified \cup {p}
        /\ Advances(r, "confirm-mark")
     \/ everVerified' = everVerified /\ Finishes(r)
  /\ UNCHANGED <<preference, emailVars, destination, codesSent, approvalVars, smsVars, callVars>>

ConfirmMarks(r) ==
  /\ At(r, "confirm-mark")
  /\ destination' = [destination EXCEPT ![step[r].phone].status = "VERIFIED"]
  /\ Advances(r, "confirm-note")
  /\ UNCHANGED <<preference, emailVars, codesSent, everVerified, approvalVars, smsVars, callVars>>

(* Mutant: the update has no condition.                                    *)
ConfirmNotesAnyway(r) ==
  /\ At(r, "confirm-note")
  /\ preference' = [preference EXCEPT !.smsConfirmed = TRUE]
  /\ Finishes(r)
  /\ UNCHANGED <<emailVars, destinationVars, approvalVars, smsVars, callVars>>

ConfirmNotes(r) ==
  /\ At(r, "confirm-note")
  /\ preference' = IF preference.phone = step[r].phone
       THEN [preference EXCEPT !.smsConfirmed = TRUE] ELSE preference
  /\ Finishes(r)
  /\ UNCHANGED <<emailVars, destinationVars, approvalVars, smsVars, callVars>>

(* DynamoDB deletes a pending row by its expiresAt, and a minute passes.   *)
DestinationDeleted(p) ==
  /\ destination[p].status = "PENDING"
  /\ destination' = [destination EXCEPT ![p] = NoDestination]
  /\ UNCHANGED <<preference, emailVars, codesSent, everVerified, approvalVars, smsVars, callVars, step>>

MinutePasses(p) ==
  /\ destination[p].recent
  /\ destination' = [destination EXCEPT ![p].recent = FALSE]
  /\ UNCHANGED <<preference, emailVars, codesSent, everVerified, approvalVars, smsVars, callVars, step>>

-----------------------------------------------------------------------------
(* sms_delivery(), called for an event with the row as it was listed       *)

DeliveryReads(r) ==
  /\ Called(r, [call |-> "deliver"])
  /\ Continues(r, IF ~(preference.smsOn /\ preference.smsConfirmed) THEN NotCalled
       ELSE [at |-> "sms-approval", phone |-> preference.phone, since |-> Len(approvalTrail)])

Approved(p) ==
  /\ approval # NoApproval /\ approval.status = "ACTIVE" /\ ~approval.expired
  /\ approval.phone = p

DeliveryAsksApproval(r) ==
  /\ At(r, "sms-approval")
  /\ IF Approved(step[r].phone) THEN Advances(r, "sms-destination") ELSE Finishes(r)
  /\ OnlyReads

DeliveryAsksDestination(r) ==
  /\ At(r, "sms-destination")
  /\ IF destination[step[r].phone].status = "VERIFIED" THEN Advances(r, "sms-count")
     ELSE Finishes(r)
  /\ OnlyReads

(* Mutant: the counter has no condition.                                   *)
CountsOnly(r) ==
  /\ At(r, "sms-count")
  /\ rate' = [rate EXCEPT ![step[r].phone] = @ + 1]
  /\ Advances(r, "sms-send")
  /\ UNCHANGED <<preference, emailVars, destinationVars, approvalVars, texts, callVars>>

DeliveryCounts(r) ==
  /\ At(r, "sms-count")
  /\ LET p == step[r].phone IN
     IF rate[p] < RateLimit
       THEN rate' = [rate EXCEPT ![p] = @ + 1] /\ Advances(r, "sms-send")
       ELSE rate' = rate /\ Finishes(r)
  /\ UNCHANGED <<preference, emailVars, destinationVars, approvalVars, texts, callVars>>

(* send_text_message(), which the provider may refuse.                     *)
DeliverySends(r) ==
  /\ At(r, "sms-send")
  /\ texts' = Append(texts, [phone |-> step[r].phone, since |-> step[r].since])
  /\ Finishes(r)
  /\ UNCHANGED <<preference, emailVars, destinationVars, approvalVars, rate, callVars>>

-----------------------------------------------------------------------------
(* admin_sms_approval.operate(): existing_approval(), then a transaction   *)
(* of the row and its audit event, on the condition of the version read.   *)

VersionOf(row) == IF row = NoApproval THEN 0 ELSE row.version

ApproveReads(r, p) ==
  /\ Called(r, [call |-> "approve", phone |-> p])
  /\ Continues(r, [at |-> "approve", phone |-> p, version |-> VersionOf(approval)])

(* Mutant: the put of the row has no condition.                            *)
PutsAnyway(r) == At(r, "approve")

(* The conditions of transact_approve().                                   *)
ApproveHolds(r) ==
  /\ At(r, "approve")
  /\ VersionOf(approval) = step[r].version

Approves(r) ==
  /\ ApproveHolds(r)
  /\ LET a == step[r] IN
     /\ approval' = [status |-> "ACTIVE", phone |-> a.phone, version |-> a.version + 1,
                     expired |-> FALSE]
     /\ approvalTrail' = Append(approvalTrail,
          [action |-> "APPROVE", phone |-> a.phone, version |-> a.version + 1])
     /\ approvedAfter' = IF approval = NoApproval THEN Len(approvalTrail) ELSE approvedAfter
  /\ Finishes(r)
  /\ UNCHANGED <<preference, emailVars, destinationVars, smsVars, callVars>>

RevokeReads(r) ==
  /\ Called(r, [call |-> "revoke"])
  /\ Continues(r, IF approval = NoApproval \/ approval.status # "ACTIVE" THEN NotCalled
       ELSE [at |-> "revoke", phone |-> approval.phone, version |-> approval.version])

(* The conditions of transact_revoke().                                    *)
RevokeHolds(r) ==
  /\ At(r, "revoke")
  /\ approval # NoApproval /\ approval.status = "ACTIVE" /\ approval.version = step[r].version

Revokes(r) ==
  /\ RevokeHolds(r)
  /\ approval' = [approval EXCEPT !.status = "REVOKED", !.version = step[r].version + 1]
  /\ approvalTrail' = Append(approvalTrail,
       [action |-> "REVOKE", phone |-> step[r].phone, version |-> step[r].version + 1])
  /\ Finishes(r)
  /\ UNCHANGED <<preference, emailVars, destinationVars, approvedAfter, smsVars, callVars>>

(* A transaction whose condition does not hold ends the tool in an error.  *)
ToolFails(r) ==
  /\ step[r].at \in {"approve", "revoke"} /\ ~ApproveHolds(r) /\ ~RevokeHolds(r)
  /\ Finishes(r)
  /\ OnlyReads

(* The approval runs out, and DynamoDB deletes its row some time later.    *)
ApprovalExpires ==
  /\ approval # NoApproval /\ ~approval.expired
  /\ approval' = [approval EXCEPT !.expired = TRUE]
  /\ UNCHANGED <<preference, emailVars, destinationVars, approvalTrail, approvedAfter, smsVars,
                 callVars, step>>

ApprovalDeleted ==
  /\ approval # NoApproval /\ approval.expired
  /\ approval' = NoApproval
  /\ UNCHANGED <<preference, emailVars, destinationVars, approvalTrail, approvedAfter, smsVars,
                 callVars, step>>

-----------------------------------------------------------------------------
Portal(r) ==
  \/ \E body \in repertoire : PutReads(r, body)
  \/ PutSubscribes(r) \/ PutWrites(r) \/ GetReads(r) \/ GetAsks(r) \/ GetWrites(r)

Verification(r) ==
  \/ \E p \in Phones : RequestReads(r, p)
  \/ RequestCreates(r) \/ RequestSends(r) \/ RequestStamps(r) \/ RequestNotes(r)
  \/ ConfirmReads(r) \/ ConfirmFinds(r) \/ ConfirmVerifies(r) \/ ConfirmMarks(r) \/ ConfirmNotes(r)

Delivery(r) ==
  \/ DeliveryReads(r) \/ DeliveryAsksApproval(r) \/ DeliveryAsksDestination(r)
  \/ DeliveryCounts(r) \/ DeliverySends(r)

Tool(r) ==
  \/ \E p \in Phones : ApproveReads(r, p)
  \/ Approves(r) \/ RevokeReads(r) \/ Revokes(r) \/ ToolFails(r)

PreferencesNext ==
  \/ \E r \in PreferenceRuns : Portal(r) \/ Verification(r) \/ Delivery(r) \/ Tool(r)
  \/ \E email \in Emails : SubscriptionConfirmed(email) \/ SubscriptionRemoved(email)
  \/ \E p \in Phones : DestinationDeleted(p) \/ MinutePasses(p)
  \/ ApprovalExpires \/ ApprovalDeleted

PreferencesSpec == PreferencesInit /\ [][PreferencesNext]_preferenceVars

-----------------------------------------------------------------------------
(* The tables have their shape, and SMS are only on for a number that was  *)
(* confirmed.                                                              *)
PreferencesTypeOK ==
  /\ preference \in Preference /\ (preference.smsOn => preference.smsConfirmed)
  /\ confirmedEmails \subseteq subscribed /\ subscribed \subseteq Emails
  /\ destination \in [Phones -> Destination]
  /\ approval \in {NoApproval} \cup Approval
  /\ rate \in [Phones -> Nat]

(* A number the row calls confirmed has been proved with a code, and an    *)
(* address it calls confirmed has a subscription its owner confirmed, even *)
(* if the row was changed to another one while a confirmation was on its   *)
(* way, or a PUT brings back what it has read before.                      *)
ConfirmedWasProved ==
  /\ preference.smsConfirmed => preference.phone \in everVerified
  /\ preference.mailConfirmed => preference.subscription \in everConfirmed

(* An SMS goes to a number whose owner proved it, and that an administrator*)
(* had approved at some moment since the delivery began; and no number gets*)
(* more of them a day than the limit, however many deliveries run.         *)
TextIsAllowed ==
  /\ \A i \in DOMAIN texts :
       /\ texts[i].phone \in everVerified
       /\ \E g \in DOMAIN approvalTrail :
            /\ g >= texts[i].since
            /\ approvalTrail[g].action = "APPROVE" /\ approvalTrail[g].phone = texts[i].phone
  /\ \A p \in Phones :
       Cardinality({i \in DOMAIN texts : texts[i].phone = p}) <= RateLimit

(* The audit table explains the row: its newest event is what the row      *)
(* says, and the versions since the row was created count the events, so   *)
(* two tools at the same time never write the same version.                *)
ApprovalIsExplained ==
  approval # NoApproval =>
    LET last == approvalTrail[Len(approvalTrail)] IN
    /\ last.action = IF approval.status = "ACTIVE" THEN "APPROVE" ELSE "REVOKE"
    /\ last.version = approval.version
    /\ approval.version = Len(approvalTrail) - approvedAfter
    /\ approval.status = "ACTIVE" => last.phone = approval.phone

(* What the portal shows as confirmed is the address in the row.           *)
ConfirmedAddressIsMailed ==
  preference.mailConfirmed => preference.subscription = preference.email
=============================================================================
