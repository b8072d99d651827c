--------------------------- MODULE OnboardingClaims ---------------------------
(***************************************************************************)
(* How a vehicle gets its owner.  An administrator issues a claim          *)
(* (issue_claim()), a user consumes it (consume_claim()), and the older B1 *)
(* tool assigns a vehicle directly (onboard() of admin_onboard_beta_user). *)
(* Each of them reads first and writes later, every call to DynamoDB is a  *)
(* step, and other requests run in between; what keeps the tables together *)
(* is the conditions of the final transaction.                             *)
(*                                                                         *)
(* Left out: requests that are refused before any table is read (routes,   *)
(* groups, syntax), the tool's plan mode, and the proof itself: a request  *)
(* has the right one or not.  Every vehicle has telemetry state.           *)
(***************************************************************************)
EXTENDS Naturals, FiniteSets

CONSTANTS
  Users, Vehicles, ClaimIds,
  Requests,           \* invocations of the Lambda or of the tool in flight
  ReadOnlyVehicles,   \* CLAIM_READ_ONLY_VEHICLE_IDS
  MaxAttempts,        \* MAX_ATTEMPTS
  ClaimTtl,           \* CLAIM_TTL_SECONDS
  LastSecond          \* bound on the clock

ASSUME OnboardingAssumption ==
  /\ MaxAttempts \in Nat \ {0} /\ ClaimTtl \in Nat \ {0} /\ LastSecond \in Nat
  /\ ReadOnlyVehicles \subseteq Vehicles /\ IsFiniteSet(Users)

VARIABLES
  now,            \* int(time.time())
  claims,         \* CLAIMS_TABLE
  ownership,      \* OWNERSHIP_TABLE
  access,         \* ACCESS_TABLE, status by user and vehicle
  accounts,       \* users of the Cognito pool
  auditIssued,    \* AUDIT_TABLE: the claims with a CLAIM_ISSUED event,
  auditFailed,    \* ... how many CLAIM_FAILED events each claim has,
  auditConsumed,  \* ... and the CLAIM_CONSUMED events
  request,        \* where each request stands
  overlapped,     \* ghost: vehicles the B1 tool and another request met at
  outstanding     \* ghost: claims that were usable when the tool assigned their vehicle

audit == <<auditIssued, auditFailed, auditConsumed>>
tables == <<claims, ownership, access, accounts, audit>>
vars == <<now, tables, request, overlapped, outstanding>>

NoClaim == [status |-> "none"]
Claim == [status: {"ISSUED", "CONSUMED"}, vehicle: Vehicles,
          failed: 0..MaxAttempts, expiresAt: Nat]
NoOwner == [owner |-> "none"]
Ownership == [owner: Users, claim: ClaimIds]

Idle == [at |-> "idle"]
IssueRequest == [at: {"issue-owner", "issue-access", "issue-put"}, vehicle: Vehicles]
ConsumeRequest ==
  [at: {"consume-read", "consume-count", "consume-transact"},
   user: Users, claim: ClaimIds, proven: BOOLEAN]
AssignRequest ==
  [at: {"assign-find", "assign-scan-known", "assign-scan-new", "assign-get",
        "assign-create", "assign-put"},
   user: Users, vehicle: Vehicles]

Init ==
  /\ now = 0
  /\ claims = [c \in ClaimIds |-> NoClaim]
  /\ ownership = [v \in Vehicles |-> NoOwner]
  /\ access = [uv \in Users \X Vehicles |-> "none"]
  /\ accounts \in SUBSET Users
  /\ auditIssued = {} /\ auditFailed = [c \in ClaimIds |-> 0] /\ auditConsumed = {}
  /\ request = [r \in Requests |-> Idle]
  /\ overlapped = {} /\ outstanding = {}

-----------------------------------------------------------------------------
ActiveUsers(v) == {u \in Users : access[<<u, v>>] = "ACTIVE"}

(* A claim that consume_claim() would still accept.                        *)
Usable(c) ==
  /\ claims[c] # NoClaim
  /\ claims[c].status = "ISSUED" /\ claims[c].expiresAt > now
  /\ claims[c].failed < MaxAttempts

IsAssign(q) == q \in AssignRequest
Concerns(q, v) ==
  \/ q \in IssueRequest \cup AssignRequest /\ q.vehicle = v
  \/ q \in ConsumeRequest /\ claims[q.claim] # NoClaim /\ claims[q.claim].vehicle = v

(* Ghosts: r writes the row of v.  The two met if another request about v  *)
(* is under way and one of them is the B1 tool, which "must not run        *)
(* concurrently for the same vehicle".  Nothing keeps the tool from running*)
(* while a claim for v is merely out.                                      *)
MeetsAssignment(r, v) ==
  /\ overlapped' =
       IF \E other \in Requests \ {r} :
            /\ Concerns(request[other], v)
            /\ IsAssign(request[other]) \/ IsAssign(request[r])
         THEN overlapped \cup {v} ELSE overlapped
  /\ outstanding' =
       IF IsAssign(request[r])
         THEN outstanding \cup {c \in ClaimIds : Usable(c) /\ claims[c].vehicle = v}
         ELSE outstanding

Goes(r, stage) == request' = [request EXCEPT ![r] = stage]
GoesOn(r, at) == request' = [request EXCEPT ![r].at = at]
Ends(r) == Goes(r, Idle)
Reads == UNCHANGED <<now, tables, overlapped, outstanding>>

-----------------------------------------------------------------------------
(* issue_claim()                                                           *)

IssueBegins(r, v) ==
  /\ request[r] = Idle
  /\ Goes(r, [at |-> "issue-owner", vehicle |-> v])
  /\ Reads

IssueReadsOwner(r) ==
  /\ request[r].at = "issue-owner"
  /\ IF ownership[request[r].vehicle] # NoOwner THEN Ends(r) ELSE GoesOn(r, "issue-access")
  /\ Reads

(* Mutant: claims are issued for vehicles with an assignment.              *)
IssueSkipsAccess(r) ==
  /\ request[r].at = "issue-access"
  /\ GoesOn(r, "issue-put")
  /\ Reads

IssueScansAccess(r) ==
  /\ request[r].at = "issue-access"
  /\ IF ActiveUsers(request[r].vehicle) # {} THEN Ends(r) ELSE GoesOn(r, "issue-put")
  /\ Reads

(* The transaction that puts the claim and its audit event.  claim_id is a *)
(* fresh random token.                                                     *)
IssuePuts(r) ==
  /\ request[r].at = "issue-put"
  /\ \E c \in ClaimIds \ auditIssued :
       /\ claims' = [claims EXCEPT ![c] =
            [status |-> "ISSUED", vehicle |-> request[r].vehicle,
             failed |-> 0, expiresAt |-> now + ClaimTtl]]
       /\ auditIssued' = auditIssued \cup {c}
  /\ MeetsAssignment(r, request[r].vehicle)
  /\ Ends(r)
  /\ UNCHANGED <<now, ownership, access, accounts, auditFailed, auditConsumed>>

-----------------------------------------------------------------------------
(* consume_claim()                                                         *)

(* _claim_read_only(): a user of a demonstration vehicle claims nothing.   *)
ReadOnly(u) == \E v \in ReadOnlyVehicles : access[<<u, v>>] = "ACTIVE"

ConsumeBegins(r, u, c, proven) ==
  /\ request[r] = Idle
  /\ u \in accounts /\ c \in auditIssued /\ ~ReadOnly(u)
  /\ Goes(r, [at |-> "consume-read", user |-> u, claim |-> c, proven |-> proven])
  /\ Reads

(* The claim is read and judged.  The time of this judgement is also the   *)
(* one the transaction's condition uses, so expiry is decided here.        *)
ConsumeReads(r) ==
  /\ request[r].at = "consume-read"
  /\ LET c == request[r].claim IN
     \/ Usable(c) /\ request[r].proven /\ GoesOn(r, "consume-transact")
     \/ /\ ~(Usable(c) /\ request[r].proven)
        /\ claims[c] # NoClaim /\ claims[c].status = "ISSUED" /\ claims[c].expiresAt > now
        /\ GoesOn(r, "consume-count")
     \/ /\ ~(claims[c] # NoClaim /\ claims[c].status = "ISSUED" /\ claims[c].expiresAt > now)
        /\ Ends(r)
  /\ Reads

Issued(c) == claims[c] # NoClaim /\ claims[c].status = "ISSUED"

(* A failed attempt: the counter and its audit event in one transaction,   *)
(* whose failure is swallowed.                                             *)
ConsumeCounts(r) ==
  /\ request[r].at = "consume-count"
  /\ LET c == request[r].claim
         counts == Issued(c) /\ claims[c].failed < MaxAttempts
     IN \/ /\ counts
           /\ claims' = [claims EXCEPT ![c].failed = @ + 1]
           /\ auditFailed' = [auditFailed EXCEPT ![c] = @ + 1]
        \/ ~counts /\ UNCHANGED <<claims, auditFailed>>
  /\ Ends(r)
  /\ UNCHANGED <<now, ownership, access, accounts, auditIssued, auditConsumed,
                 overlapped, outstanding>>

(* Mutant: the transaction puts the ownership whatever is there.           *)
OverwritesOwner(u, c) ==
  /\ Issued(c) /\ claims[c].failed < MaxAttempts
  /\ access[<<u, claims[c].vehicle>>] = "none"

(* Mutant: the transaction does not look at the attempts again.            *)
ForgetsAttempts(u, c) ==
  /\ Issued(c)
  /\ ownership[claims[c].vehicle] = NoOwner
  /\ access[<<u, claims[c].vehicle>>] = "none"

(* The conditions of the four writes.                                      *)
MayConsume(u, c) ==
  /\ Issued(c) /\ claims[c].failed < MaxAttempts
  /\ ownership[claims[c].vehicle] = NoOwner
  /\ access[<<u, claims[c].vehicle>>] = "none"

(* The transaction writes claim, ownership, access and audit, or nothing.  *)
ConsumeTransacts(r) ==
  /\ request[r].at = "consume-transact"
  /\ LET u == request[r].user
         c == request[r].claim
         v == claims[c].vehicle
     IN \/ /\ MayConsume(u, c)
           /\ claims' = [claims EXCEPT ![c].status = "CONSUMED"]
           /\ ownership' = [ownership EXCEPT ![v] = [owner |-> u, claim |-> c]]
           /\ access' = [access EXCEPT ![<<u, v>>] = "ACTIVE"]
           /\ auditConsumed' = auditConsumed \cup {[claim |-> c, vehicle |-> v, user |-> u]}
           /\ MeetsAssignment(r, v)
        \/ /\ ~MayConsume(u, c)
           /\ UNCHANGED <<claims, ownership, access, auditConsumed, overlapped, outstanding>>
  /\ Ends(r)
  /\ UNCHANGED <<now, accounts, auditIssued, auditFailed>>

-----------------------------------------------------------------------------
(* onboard() of the B1 tool, with --apply.                                 *)

AssignBegins(r, u, v) ==
  /\ request[r] = Idle
  /\ Goes(r, [at |-> "assign-find", user |-> u, vehicle |-> v])
  /\ Reads

AssignFindsUser(r) ==
  /\ request[r].at = "assign-find"
  /\ GoesOn(r, IF request[r].user \in accounts THEN "assign-scan-known" ELSE "assign-scan-new")
  /\ Reads

(* active_owner_subjects(): nobody else may have the vehicle.              *)
AssignScansOwners(r) ==
  /\ request[r].at \in {"assign-scan-known", "assign-scan-new"}
  /\ LET owners == ActiveUsers(request[r].vehicle) IN
     IF request[r].at = "assign-scan-known"
       THEN IF owners \subseteq {request[r].user} THEN GoesOn(r, "assign-get") ELSE Ends(r)
       ELSE IF owners = {} THEN GoesOn(r, "assign-create") ELSE Ends(r)
  /\ Reads

AssignGets(r) ==
  /\ request[r].at = "assign-get"
  /\ IF access[<<request[r].user, request[r].vehicle>>] = "none"
       THEN GoesOn(r, "assign-put") ELSE Ends(r)
  /\ Reads

(* create_user(): Cognito refuses a name that exists by now.               *)
AssignCreatesUser(r) ==
  /\ request[r].at = "assign-create"
  /\ IF request[r].user \in accounts THEN Ends(r) ELSE GoesOn(r, "assign-put")
  /\ accounts' = accounts \cup {request[r].user}
  /\ UNCHANGED <<now, claims, ownership, access, audit, overlapped, outstanding>>

AssignPuts(r) ==
  /\ request[r].at = "assign-put"
  /\ LET u == request[r].user
         v == request[r].vehicle
     IN \/ /\ access[<<u, v>>] = "none"
           /\ access' = [access EXCEPT ![<<u, v>>] = "ACTIVE"]
           /\ MeetsAssignment(r, v)
        \/ access[<<u, v>>] # "none" /\ UNCHANGED <<access, overlapped, outstanding>>
  /\ Ends(r)
  /\ UNCHANGED <<now, claims, ownership, accounts, audit>>

-----------------------------------------------------------------------------
(* An invocation or the tool is cut off between two calls.                 *)
RequestFails(r) ==
  /\ request[r] # Idle
  /\ Ends(r)
  /\ Reads

(* DynamoDB's TTL removes the row of a claim some time after its expiry.   *)
ClaimRemoved(c) ==
  /\ claims[c] # NoClaim /\ claims[c].expiresAt <= now
  /\ claims' = [claims EXCEPT ![c] = NoClaim]
  /\ UNCHANGED <<now, ownership, access, accounts, audit, request, overlapped, outstanding>>

(* An operator takes a user's access away.                                 *)
AccessRevoked(u, v) ==
  /\ access[<<u, v>>] = "ACTIVE"
  /\ access' = [access EXCEPT ![<<u, v>>] = "REVOKED"]
  /\ UNCHANGED <<now, claims, ownership, accounts, audit, request, overlapped, outstanding>>

Tick ==
  /\ now < LastSecond
  /\ now' = now + 1
  /\ UNCHANGED <<tables, request, overlapped, outstanding>>

IssueStep(r) ==
  \/ \E v \in Vehicles : IssueBegins(r, v)
  \/ IssueReadsOwner(r) \/ IssueScansAccess(r) \/ IssuePuts(r)

ConsumeStep(r) ==
  \/ \E u \in Users, c \in ClaimIds, proven \in BOOLEAN : ConsumeBegins(r, u, c, proven)
  \/ ConsumeReads(r) \/ ConsumeCounts(r) \/ ConsumeTransacts(r)

AssignStep(r) ==
  \/ \E u \in Users, v \in Vehicles : AssignBegins(r, u, v)
  \/ AssignFindsUser(r) \/ AssignScansOwners(r) \/ AssignGets(r)
  \/ AssignCreatesUser(r) \/ AssignPuts(r)

Next ==
  \/ \E r \in Requests : IssueStep(r) \/ ConsumeStep(r) \/ AssignStep(r) \/ RequestFails(r)
  \/ \E c \in ClaimIds : ClaimRemoved(c)
  \/ \E u \in Users, v \in Vehicles : AccessRevoked(u, v)
  \/ Tick

Spec == Init /\ [][Next]_vars

-----------------------------------------------------------------------------
(* Every table holds rows of its schema; a failure counter never passes    *)
(* maxAttempts.                                                            *)
TypeOK ==
  /\ now \in 0..LastSecond
  /\ claims \in [ClaimIds -> {NoClaim} \cup Claim]
  /\ ownership \in [Vehicles -> {NoOwner} \cup Ownership]
  /\ access \in [Users \X Vehicles -> {"none", "ACTIVE", "REVOKED"}]
  /\ accounts \subseteq Users
  /\ auditIssued \subseteq ClaimIds
  /\ auditFailed \in [ClaimIds -> Nat]
  /\ auditConsumed \subseteq [claim: ClaimIds, vehicle: Vehicles, user: Users]
  /\ request \in [Requests -> {Idle} \cup IssueRequest \cup ConsumeRequest \cup AssignRequest]
  /\ overlapped \subseteq Vehicles /\ outstanding \subseteq ClaimIds

(* The ownership rows are exactly the consumptions the audit trail tells   *)
(* of, one per vehicle and per claim, and each owner has a row in the      *)
(* access table: the transaction of consume_claim() keeps three tables     *)
(* together whatever else was issued, consumed or assigned since the claim *)
(* was read.                                                               *)
OwnershipIsAudited ==
  /\ auditConsumed =
       {[claim |-> ownership[v].claim, vehicle |-> v, user |-> ownership[v].owner] :
          v \in {w \in Vehicles : ownership[w] # NoOwner}}
  /\ \A e \in auditConsumed :
       /\ access[<<e.user, e.vehicle>>] # "none"
       /\ claims[e.claim] # NoClaim => claims[e.claim].status = "CONSUMED"
  /\ \A e, f \in auditConsumed : e.claim = f.claim => e = f

(* The counter of a claim and the CLAIM_FAILED events agree, and there are *)
(* never more than maxAttempts, however many wrong attempts were judged    *)
(* against the same state of the claim.                                    *)
AttemptsAreCounted ==
  \A c \in ClaimIds :
    /\ auditFailed[c] <= MaxAttempts
    /\ claims[c] # NoClaim => claims[c].failed = auditFailed[c]

(* What the audit trail tells is what the tables say.                      *)
AuditIsTrue == OwnershipIsAudited /\ AttemptsAreCounted

(* A claim whose attempts are used up is not consumed any more, not even   *)
(* by a request that read it before the last attempt failed.               *)
ExhaustedClaimIsDead ==
  [][\A e \in auditConsumed' \ auditConsumed : auditFailed[e.claim] < MaxAttempts]_vars

(* A claim for v has been consumed although, with the claim out, the tool  *)
(* had assigned v.  The tool does not look at the claims, nor              *)
(* consume_claim() at the assignments of others, so v may then have two.   *)
Outrun(v) == \E e \in auditConsumed : e.vehicle = v /\ e.claim \in outstanding

(* A vehicle has one ACTIVE user, in every interleaving of issues,         *)
(* consumptions, revocations, expiries and assignments one after the other *)
(* - whatever came before, issue_claim() and the tool each see it by their *)
(* scan - but for the two cases in which these scans do not help: the tool *)
(* ran at the same time as another request for the vehicle, or a claim     *)
(* that was out when the tool assigned it was consumed afterwards.         *)
OneActiveOwner ==
  \A v \in Vehicles \ overlapped : ~Outrun(v) => Cardinality(ActiveUsers(v)) <= 1
=============================================================================
