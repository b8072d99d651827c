------------------------ MODULE OnboardingClaimsProofs ------------------------
(***************************************************************************)
(* What OnboardingClaims promises of owners, claims and their audit trail, *)
(* for any number of users, vehicles, claims and requests under way.       *)
(***************************************************************************)
EXTENDS OnboardingClaims, FiniteSetTheorems, TLAPS

Request == {Idle} \cup IssueRequest \cup ConsumeRequest \cup AssignRequest

(* The steps of one request.                                               *)
RequestStep(r) == IssueStep(r) \/ ConsumeStep(r) \/ AssignStep(r) \/ RequestFails(r)

(* A request about v that has seen no owner of it, an issued claim for it  *)
(* that can still be consumed: either nobody is ACTIVE for v, or ownership *)
(* keeps the claim from being consumed.                                    *)
Settled(v) == ownership[v] # NoOwner \/ ActiveUsers(v) = {}
Consumable(c) ==
  /\ Issued(c)
  /\ Usable(c) \/ \E r \in Requests : request[r].at = "consume-transact" /\ request[r].claim = c

IssuesAreSettled(v) ==
  \A r \in Requests : request[r].at = "issue-put" /\ request[r].vehicle = v => Settled(v)
ClaimsAreSettled(v) ==
  \A c \in ClaimIds \ outstanding : Consumable(c) /\ claims[c].vehicle = v => Settled(v)

(* A run of the B1 tool that has scanned the owners of v met none but the  *)
(* user it is about to assign.                                             *)
Scanned == {"assign-get", "assign-create", "assign-put"}
AssignsAreAlone(v) ==
  \A r \in Requests : request[r].at \in Scanned /\ request[r].vehicle = v
    => ActiveUsers(v) \subseteq {request[r].user}

OneActive(v) == \A u, w \in ActiveUsers(v) : u = w

OwnerOf(v) ==
  OneActive(v) /\ IssuesAreSettled(v) /\ ClaimsAreSettled(v) /\ AssignsAreAlone(v)

(* The vehicles that may have two users.                                   *)
Excused(v) == v \in overlapped \/ Outrun(v)

OwnerInv == \A v \in Vehicles : ~Excused(v) => OwnerOf(v)

(* What has not been issued has left no trace.                             *)
FreshInv ==
  /\ \A c \in ClaimIds : claims[c] # NoClaim => c \in auditIssued
  /\ \A c \in ClaimIds \ auditIssued : auditFailed[c] = 0
  /\ \A e \in auditConsumed : e.claim \in auditIssued

-----------------------------------------------------------------------------
(* Shapes.                                                                 *)

(* The stage of a request tells which of the three it is.                  *)
LEMMA Shapes ==
  ASSUME NEW q \in Request
  PROVE  /\ q.at \in {"issue-owner", "issue-access", "issue-put"} => q \in IssueRequest
         /\ q.at \in {"consume-read", "consume-count", "consume-transact"} => q \in ConsumeRequest
         /\ q.at \in {"assign-find", "assign-scan-known", "assign-scan-new"} \cup Scanned
              => q \in AssignRequest
         /\ q # Idle => q.at # "idle"
BY DEF Request, Idle, IssueRequest, ConsumeRequest, AssignRequest, Scanned

LEMMA ClaimShapes ==
  /\ \A c \in Claim : c # NoClaim /\ c.status # "none"
  /\ \A o \in Ownership : o # NoOwner
<1>1. \A c \in Claim : c # NoClaim /\ c.status # "none"
  BY DEF Claim, NoClaim
<1>2. ASSUME NEW o \in Ownership
      PROVE  o # NoOwner
  <2>1. "claim" \in DOMAIN o /\ "claim" \notin DOMAIN NoOwner
    BY DEF Ownership, NoOwner
  <2> QED  BY <2>1
<1> QED  BY <1>1, <1>2

(* A request moves on within its kind.                                     *)
LEMMA Moves ==
  ASSUME NEW q, NEW at
  PROVE  /\ q \in IssueRequest /\ at \in {"issue-owner", "issue-access", "issue-put"}
              => [q EXCEPT !.at = at] \in IssueRequest
         /\ q \in ConsumeRequest /\ at \in {"consume-read", "consume-count", "consume-transact"}
              => [q EXCEPT !.at = at] \in ConsumeRequest
         /\ q \in AssignRequest
              /\ at \in {"assign-find", "assign-scan-known", "assign-scan-new"} \cup Scanned
              => [q EXCEPT !.at = at] \in AssignRequest
BY DEF IssueRequest, ConsumeRequest, AssignRequest, Scanned

-----------------------------------------------------------------------------
(* Types.                                                                  *)

LEMMA TypesStart ==
  ASSUME Init
  PROVE  TypeOK
BY OnboardingAssumption DEF OnboardingAssumption, Init, TypeOK

(* A step of a request that only reads.                                    *)
LEMMA ReadsKeepTypes ==
  ASSUME TypeOK, NEW r \in Requests, NEW q \in Request,
         request' = [request EXCEPT ![r] = q], Reads
  PROVE  TypeOK'
BY DEF TypeOK, Request, Reads, tables, audit

LEMMA TypesKept ==
  ASSUME TypeOK, [Next]_vars
  PROVE  TypeOK'
<1>1. ASSUME NEW r \in Requests, RequestStep(r)
      PROVE  TypeOK'
  <2> DEFINE q == request[r]
  <2>0. q \in Request /\ Idle \in Request
    BY DEF TypeOK, Request
  <2>1. ASSUME NEW v \in Vehicles, IssueBegins(r, v)
        PROVE  TypeOK'
    <3>1. [at |-> "issue-owner", vehicle |-> v] \in Request
      BY DEF Request, IssueRequest
    <3> QED  BY <2>1, <3>1, ReadsKeepTypes DEF IssueBegins, Goes
  <2>2. CASE IssueReadsOwner(r)
    <3>1. [q EXCEPT !.at = "issue-access"] \in Request
      BY <2>0, <2>2, Shapes, Moves DEF IssueReadsOwner, Request
    <3> QED  BY <2>0, <2>2, <3>1, ReadsKeepTypes DEF IssueReadsOwner, Ends, Goes, GoesOn
  <2>3. CASE IssueScansAccess(r)
    <3>1. [q EXCEPT !.at = "issue-put"] \in Request
      BY <2>0, <2>3, Shapes, Moves DEF IssueScansAccess, Request
    <3> QED  BY <2>0, <2>3, <3>1, ReadsKeepTypes DEF IssueScansAccess, Ends, Goes, GoesOn
  <2>4. CASE IssuePuts(r)
    <3>1. PICK c \in ClaimIds \ auditIssued :
            /\ claims' = [claims EXCEPT ![c] =
                 [status |-> "ISSUED", vehicle |-> q.vehicle, failed |-> 0,
                  expiresAt |-> now + ClaimTtl]]
            /\ auditIssued' = auditIssued \cup {c}
      BY <2>4 DEF IssuePuts
    <3>2. q \in IssueRequest
      BY <2>0, <2>4, Shapes DEF IssuePuts
    <3>3. [status |-> "ISSUED", vehicle |-> q.vehicle, failed |-> 0,
           expiresAt |-> now + ClaimTtl] \in Claim
      BY <3>2, OnboardingAssumption DEF OnboardingAssumption, Claim, IssueRequest, TypeOK
    <3>4. overlapped' \subseteq Vehicles /\ outstanding' \subseteq ClaimIds
      BY <2>4, <3>2 DEF IssuePuts, MeetsAssignment, IssueRequest, TypeOK
    <3>5. claims' \in [ClaimIds -> {NoClaim} \cup Claim]
      BY <3>1, <3>3 DEF TypeOK
    <3>6. request' \in [Requests -> Request]
      BY <2>0, <2>4 DEF IssuePuts, Ends, Goes, TypeOK, Request
    <3> QED  BY <2>4, <3>1, <3>4, <3>5, <3>6 DEF IssuePuts, TypeOK, Request
  <2>5. ASSUME NEW u \in Users, NEW c \in ClaimIds, NEW proven \in BOOLEAN,
               ConsumeBegins(r, u, c, proven)
        PROVE  TypeOK'
    <3>1. [at |-> "consume-read", user |-> u, claim |-> c, proven |-> proven] \in Request
      BY DEF Request, ConsumeRequest
    <3> QED  BY <2>5, <3>1, ReadsKeepTypes DEF ConsumeBegins, Goes
  <2>6. CASE ConsumeReads(r)
    <3>1. /\ [q EXCEPT !.at = "consume-transact"] \in Request
          /\ [q EXCEPT !.at = "consume-count"] \in Request
      BY <2>0, <2>6, Shapes, Moves DEF ConsumeReads, Request
    <3>2. \/ GoesOn(r, "consume-transact") \/ GoesOn(r, "consume-count") \/ Ends(r)
      BY <2>6 DEF ConsumeReads
    <3> QED  BY <2>0, <2>6, <3>1, <3>2, ReadsKeepTypes DEF ConsumeReads, Ends, Goes, GoesOn
  <2>7. CASE ConsumeCounts(r)
    <3> DEFINE c == q.claim
    <3>1. c \in ClaimIds
      BY <2>0, <2>7, Shapes DEF ConsumeCounts, ConsumeRequest
    <3>2. request' \in [Requests -> Request]
      BY <2>0, <2>7 DEF ConsumeCounts, Ends, Goes, TypeOK, Request
    <3>3. CASE Issued(c) /\ claims[c].failed < MaxAttempts
      <4>1. claims[c] \in Claim
        BY <3>1, <3>3 DEF Issued, TypeOK
      <4>2. [claims[c] EXCEPT !.failed = @ + 1] \in Claim
        BY <3>3, <4>1, OnboardingAssumption DEF OnboardingAssumption, Claim
      <4>3. /\ claims' = [claims EXCEPT ![c] = [claims[c] EXCEPT !.failed = @ + 1]]
            /\ auditFailed' = [auditFailed EXCEPT ![c] = @ + 1]
        BY <2>7, <3>3 DEF ConsumeCounts
      <4>4. claims' \in [ClaimIds -> {NoClaim} \cup Claim]
        BY <3>1, <4>2, <4>3 DEF TypeOK
      <4>5. auditFailed' \in [ClaimIds -> Nat]
        BY <3>1, <4>3 DEF TypeOK
      <4> QED  BY <2>7, <3>2, <4>4, <4>5 DEF ConsumeCounts, TypeOK, Request
    <3>4. CASE ~(Issued(c) /\ claims[c].failed < MaxAttempts)
      BY <2>7, <3>2, <3>4 DEF ConsumeCounts, TypeOK, Request
    <3> QED  BY <3>3, <3>4
  <2>8. CASE ConsumeTransacts(r)
    <3> DEFINE u == q.user
               c == q.claim
               v == claims[c].vehicle
    <3>1. u \in Users /\ c \in ClaimIds
      BY <2>0, <2>8, Shapes DEF ConsumeTransacts, ConsumeRequest
    <3>2. request' \in [Requests -> Request]
      BY <2>0, <2>8 DEF ConsumeTransacts, Ends, Goes, TypeOK, Request
    <3>3. CASE MayConsume(u, c)
      <4>1. claims[c] \in Claim /\ v \in Vehicles
        BY <3>1, <3>3 DEF MayConsume, Issued, TypeOK, Claim
      <4>2. [claims[c] EXCEPT !.status = "CONSUMED"] \in Claim
        BY <4>1 DEF Claim
      <4>3. /\ claims' = [claims EXCEPT ![c] = [claims[c] EXCEPT !.status = "CONSUMED"]]
            /\ ownership' = [ownership EXCEPT ![v] = [owner |-> u, claim |-> c]]
            /\ access' = [access EXCEPT ![<<u, v>>] = "ACTIVE"]
            /\ auditConsumed' = auditConsumed \cup {[claim |-> c, vehicle |-> v, user |-> u]}
            /\ overlapped' \subseteq overlapped \cup {v}
            /\ outstanding' \subseteq outstanding \cup ClaimIds
        BY <2>8, <3>3 DEF ConsumeTransacts, MeetsAssignment
      <4>4. claims' \in [ClaimIds -> {NoClaim} \cup Claim]
        BY <3>1, <4>2, <4>3 DEF TypeOK
      <4>5. ownership' \in [Vehicles -> {NoOwner} \cup Ownership]
        BY <3>1, <4>1, <4>3 DEF TypeOK, Ownership
      <4>6. access' \in [Users \X Vehicles -> {"none", "ACTIVE", "REVOKED"}]
        BY <3>1, <4>1, <4>3 DEF TypeOK
      <4>7. auditConsumed' \subseteq [claim: ClaimIds, vehicle: Vehicles, user: Users]
        BY <3>1, <4>1, <4>3 DEF TypeOK
      <4>8. overlapped' \subseteq Vehicles /\ outstanding' \subseteq ClaimIds
        BY <4>1, <4>3 DEF TypeOK
      <4> QED
        BY <2>8, <3>2, <4>4, <4>5, <4>6, <4>7, <4>8 DEF ConsumeTransacts, TypeOK, Request
    <3>4. CASE ~MayConsume(u, c)
      BY <2>8, <3>2, <3>4 DEF ConsumeTransacts, TypeOK, Request
    <3> QED  BY <3>3, <3>4
  <2>9. ASSUME NEW u \in Users, NEW v \in Vehicles, AssignBegins(r, u, v)
        PROVE  TypeOK'
    <3>1. [at |-> "assign-find", user |-> u, vehicle |-> v] \in Request
      BY DEF Request, AssignRequest
    <3> QED  BY <2>9, <3>1, ReadsKeepTypes DEF AssignBegins, Goes
  <2>10. CASE AssignFindsUser(r) \/ AssignScansOwners(r) \/ AssignGets(r)
    <3>1. PICK at \in {"assign-scan-known", "assign-scan-new"} \cup Scanned :
            GoesOn(r, at) \/ Ends(r)
      BY <2>10 DEF AssignFindsUser, AssignScansOwners, AssignGets, Scanned
    <3>2. q \in AssignRequest
      BY <2>0, <2>10, Shapes DEF AssignFindsUser, AssignScansOwners, AssignGets, Scanned
    <3>3. [q EXCEPT !.at = at] \in Request
      BY <3>2, Moves DEF Request
    <3> QED
      BY <2>0, <2>10, <3>1, <3>3, ReadsKeepTypes
      DEF AssignFindsUser, AssignScansOwners, AssignGets, Ends, Goes, GoesOn
  <2>11. CASE AssignCreatesUser(r)
    <3>1. q \in AssignRequest
      BY <2>0, <2>11, Shapes DEF AssignCreatesUser, Scanned
    <3>2. [q EXCEPT !.at = "assign-put"] \in Request
      BY <3>1, Moves DEF Request, Scanned
    <3>3. request' \in [Requests -> Request]
      BY <2>0, <2>11, <3>2 DEF AssignCreatesUser, Ends, Goes, GoesOn, TypeOK, Request
    <3> QED
      BY <2>11, <3>1, <3>3 DEF AssignCreatesUser, TypeOK, Request, AssignRequest, audit
  <2>12. CASE AssignPuts(r)
    <3>1. q.user \in Users /\ q.vehicle \in Vehicles
      BY <2>0, <2>12, Shapes DEF AssignPuts, Scanned, AssignRequest
    <3>2. request' \in [Requests -> Request]
      BY <2>0, <2>12 DEF AssignPuts, Ends, Goes, TypeOK, Request
    <3>3. \/ /\ access' = [access EXCEPT ![<<q.user, q.vehicle>>] = "ACTIVE"]
             /\ overlapped' \subseteq overlapped \cup {q.vehicle}
             /\ outstanding' \subseteq outstanding \cup ClaimIds
          \/ UNCHANGED <<access, overlapped, outstanding>>
      BY <2>12 DEF AssignPuts, MeetsAssignment
    <3>4. access' \in [Users \X Vehicles -> {"none", "ACTIVE", "REVOKED"}]
      BY <3>1, <3>3 DEF TypeOK
    <3>5. overlapped' \subseteq Vehicles /\ outstanding' \subseteq ClaimIds
      BY <3>1, <3>3 DEF TypeOK
    <3> QED  BY <2>12, <3>2, <3>4, <3>5 DEF AssignPuts, TypeOK, Request, audit
  <2>13. CASE RequestFails(r)
    BY <2>0, <2>13, ReadsKeepTypes DEF RequestFails, Ends, Goes
  <2> QED
    BY <1>1, <2>1, <2>2, <2>3, <2>4, <2>5, <2>6, <2>7, <2>8, <2>9, <2>10, <2>11, <2>12, <2>13
    DEF RequestStep, IssueStep, ConsumeStep, AssignStep
<1>2. ASSUME NEW c \in ClaimIds, ClaimRemoved(c)
      PROVE  TypeOK'
  BY <1>2 DEF ClaimRemoved, TypeOK, audit
<1>3. ASSUME NEW u \in Users, NEW v \in Vehicles, AccessRevoked(u, v)
      PROVE  TypeOK'
  <2>1. access' \in [Users \X Vehicles -> {"none", "ACTIVE", "REVOKED"}]
    BY <1>3 DEF AccessRevoked, TypeOK
  <2> QED  BY <1>3, <2>1 DEF AccessRevoked, TypeOK, audit
<1>4. CASE Tick
  BY <1>4, OnboardingAssumption DEF OnboardingAssumption, Tick, TypeOK, tables, audit
<1>5. CASE UNCHANGED vars
  BY <1>5 DEF vars, tables, audit, TypeOK
<1> QED
  BY <1>1, <1>2, <1>3, <1>4, <1>5 DEF Next, RequestStep

-----------------------------------------------------------------------------
(* The audit trail.                                                        *)

(* Who writes claims, ownership, access or the trail.                      *)
LEMMA Writers ==
  ASSUME [Next]_vars,
         \A r \in Requests : ~(IssuePuts(r) \/ ConsumeCounts(r) \/ ConsumeTransacts(r) \/ AssignPuts(r)),
         \A c \in ClaimIds : ~ClaimRemoved(c),
         \A u \in Users, v \in Vehicles : ~AccessRevoked(u, v)
  PROVE  UNCHANGED <<claims, ownership, access, audit>>
BY DEF Next, IssueStep, ConsumeStep, AssignStep, RequestFails, Reads, tables, vars, Tick,
  IssueBegins, IssueReadsOwner, IssueScansAccess, ConsumeBegins, ConsumeReads, AssignBegins,
  AssignFindsUser, AssignScansOwners, AssignGets, AssignCreatesUser

LEMMA AuditStarts ==
  ASSUME Init
  PROVE  FreshInv /\ AuditIsTrue
<1>1. FreshInv
  BY DEF Init, FreshInv
<1>2. AttemptsAreCounted
  BY OnboardingAssumption DEF OnboardingAssumption, Init, AttemptsAreCounted
<1>3. OwnershipIsAudited
  <2>1. {w \in Vehicles : ownership[w] # NoOwner} = {} /\ auditConsumed = {}
    BY DEF Init
  <2> QED  BY <2>1 DEF OwnershipIsAudited
<1> QED  BY <1>1, <1>2, <1>3 DEF AuditIsTrue

LEMMA AuditKept ==
  ASSUME TypeOK, FreshInv, AuditIsTrue, [Next]_vars
  PROVE  FreshInv' /\ AuditIsTrue'
<1> USE DEF AuditIsTrue
<1>0. \A r \in Requests : request[r] \in Request
  BY DEF TypeOK, Request
<1>1. ASSUME NEW r \in Requests, IssuePuts(r)
      PROVE  FreshInv' /\ AuditIsTrue'
  <2>1. PICK c \in ClaimIds \ auditIssued :
          /\ claims' = [claims EXCEPT ![c] =
               [status |-> "ISSUED", vehicle |-> request[r].vehicle, failed |-> 0,
                expiresAt |-> now + ClaimTtl]]
          /\ auditIssued' = auditIssued \cup {c}
    BY <1>1 DEF IssuePuts
  <2>2. UNCHANGED <<ownership, access, auditFailed, auditConsumed>>
    BY <1>1 DEF IssuePuts
  <2>3. /\ claims'[c].failed = 0 /\ auditFailed[c] = 0
        /\ \A d \in ClaimIds \ {c} : claims'[d] = claims[d]
    BY <2>1 DEF TypeOK, FreshInv
  <2>4. \A e \in auditConsumed : e.claim # c /\ e.claim \in ClaimIds
    BY DEF FreshInv, TypeOK
  <2>5. FreshInv'
    BY <2>1, <2>2, <2>3 DEF FreshInv
  <2>6. OwnershipIsAudited'
    BY <2>2, <2>3, <2>4 DEF OwnershipIsAudited
  <2>7. AttemptsAreCounted'
    BY <2>2, <2>3 DEF AttemptsAreCounted
  <2> QED  BY <2>5, <2>6, <2>7
<1>2. ASSUME NEW r \in Requests, ConsumeCounts(r)
      PROVE  FreshInv' /\ AuditIsTrue'
  <2> DEFINE c == request[r].claim
  <2>1. c \in ClaimIds
    BY <1>0, <1>2, Shapes DEF ConsumeCounts, ConsumeRequest
  <2>2. UNCHANGED <<ownership, access, auditIssued, auditConsumed>>
    BY <1>2 DEF ConsumeCounts
  <2>3. CASE ~(Issued(c) /\ claims[c].failed < MaxAttempts)
    BY <1>2, <2>2, <2>3 DEF ConsumeCounts, FreshInv, OwnershipIsAudited, AttemptsAreCounted
  <2>4. CASE Issued(c) /\ claims[c].failed < MaxAttempts
    <3>1. claims[c] \in Claim
      BY <2>1, <2>4 DEF Issued, TypeOK
    <3>2. /\ claims' = [claims EXCEPT ![c] = [claims[c] EXCEPT !.failed = @ + 1]]
          /\ auditFailed' = [auditFailed EXCEPT ![c] = @ + 1]
      BY <1>2, <2>4 DEF ConsumeCounts
    <3>3. /\ claims'[c] \in [status: {claims[c].status}, vehicle: Vehicles, failed: {claims[c].failed + 1},
                             expiresAt: Nat]
          /\ auditFailed'[c] = auditFailed[c] + 1
          /\ \A d \in ClaimIds \ {c} : claims'[d] = claims[d] /\ auditFailed'[d] = auditFailed[d]
      BY <2>1, <3>1, <3>2 DEF TypeOK, Claim
    <3>4. claims[c] # NoClaim /\ c \in auditIssued /\ claims[c].failed = auditFailed[c]
      BY <2>1, <2>4 DEF Issued, FreshInv, AttemptsAreCounted
    <3>5. FreshInv'
      BY <2>2, <3>3, <3>4 DEF FreshInv
    <3>6. \A e \in auditConsumed : e.claim \in ClaimIds
      BY DEF TypeOK
    <3>7. OwnershipIsAudited'
      BY <2>2, <3>3, <3>4, <3>6 DEF OwnershipIsAudited
    <3>8. auditFailed'[c] <= MaxAttempts /\ claims'[c].failed = auditFailed'[c]
      BY <2>4, <3>1, <3>3, <3>4, OnboardingAssumption DEF OnboardingAssumption, Claim
    <3>9. AttemptsAreCounted'
      BY <3>3, <3>8 DEF AttemptsAreCounted
    <3> QED  BY <3>5, <3>7, <3>9
  <2> QED  BY <2>3, <2>4
<1>3. ASSUME NEW r \in Requests, ConsumeTransacts(r)
      PROVE  FreshInv' /\ AuditIsTrue'
  <2> DEFINE u == request[r].user
             c == request[r].claim
             v == claims[c].vehicle
             event == [claim |-> c, vehicle |-> v, user |-> u]
             Owned == {w \in Vehicles : ownership[w] # NoOwner}
  <2>1. u \in Users /\ c \in ClaimIds
    BY <1>0, <1>3, Shapes DEF ConsumeTransacts, ConsumeRequest
  <2>2. UNCHANGED <<auditIssued, auditFailed>>
    BY <1>3 DEF ConsumeTransacts
  <2>3. CASE ~MayConsume(u, c)
    BY <1>3, <2>2, <2>3 DEF ConsumeTransacts, FreshInv, OwnershipIsAudited, AttemptsAreCounted
  <2>4. CASE MayConsume(u, c)
    <3>1. claims[c] \in Claim /\ v \in Vehicles /\ claims[c].status = "ISSUED"
      BY <2>1, <2>4 DEF MayConsume, Issued, TypeOK, Claim
    <3>2. /\ claims' = [claims EXCEPT ![c] = [claims[c] EXCEPT !.status = "CONSUMED"]]
          /\ ownership' = [ownership EXCEPT ![v] = [owner |-> u, claim |-> c]]
          /\ access' = [access EXCEPT ![<<u, v>>] = "ACTIVE"]
          /\ auditConsumed' = auditConsumed \cup {event}
      BY <1>3, <2>4 DEF ConsumeTransacts
    <3>3. /\ claims'[c].status = "CONSUMED" /\ claims'[c].failed = claims[c].failed
          /\ \A d \in ClaimIds \ {c} : claims'[d] = claims[d]
      BY <2>1, <3>1, <3>2 DEF TypeOK, Claim
    <3>4. claims[c] # NoClaim /\ c \in auditIssued /\ claims[c].failed = auditFailed[c]
      BY <2>1, <2>4 DEF MayConsume, Issued, FreshInv, AttemptsAreCounted
    <3>5. FreshInv'
      BY <2>2, <3>2, <3>3, <3>4 DEF FreshInv
    <3>6. AttemptsAreCounted'
      BY <2>2, <3>3, <3>4 DEF AttemptsAreCounted
    <3>7. \A e \in auditConsumed : e.claim # c
      BY <3>1, <3>4 DEF OwnershipIsAudited
    <3>8. /\ ownership'[v] = [owner |-> u, claim |-> c]
          /\ ownership'[v] # NoOwner
          /\ \A w \in Vehicles \ {v} : ownership'[w] = ownership[w]
      BY <2>1, <3>1, <3>2, ClaimShapes DEF TypeOK, Ownership
    <3>9. ownership[v] = NoOwner
      BY <2>4 DEF MayConsume
    <3>10. {w \in Vehicles : ownership'[w] # NoOwner} = Owned \cup {v} /\ v \notin Owned
      BY <3>1, <3>8, <3>9
    <3>11. auditConsumed' =
             {[claim |-> ownership'[w].claim, vehicle |-> w, user |-> ownership'[w].owner] :
                w \in {w \in Vehicles : ownership'[w] # NoOwner}}
      <4>1. auditConsumed =
              {[claim |-> ownership[w].claim, vehicle |-> w, user |-> ownership[w].owner] : w \in Owned}
        BY DEF OwnershipIsAudited
      <4>2. \A w \in Owned : ownership'[w] = ownership[w]
        BY <3>8, <3>10
      <4>3. event = [claim |-> ownership'[v].claim, vehicle |-> v, user |-> ownership'[v].owner]
        BY <3>8
      <4> QED  BY <3>2, <3>10, <4>1, <4>2, <4>3
    <3>12. ASSUME NEW e \in auditConsumed'
           PROVE  /\ access'[<<e.user, e.vehicle>>] # "none"
                  /\ claims'[e.claim] # NoClaim => claims'[e.claim].status = "CONSUMED"
      <4>1. CASE e = event
        BY <2>1, <3>1, <3>2, <3>3, <4>1 DEF TypeOK
      <4>2. CASE e \in auditConsumed
        <5>1. e.claim \in ClaimIds \ {c} /\ e.user \in Users /\ e.vehicle \in Vehicles
          BY <3>7, <4>2 DEF TypeOK
        <5>2. access'[<<e.user, e.vehicle>>] \in {access[<<e.user, e.vehicle>>], "ACTIVE"}
          BY <3>2, <5>1 DEF TypeOK
        <5> QED  BY <3>3, <4>2, <5>1, <5>2 DEF OwnershipIsAudited
      <4> QED  BY <3>2, <4>1, <4>2
    <3>13. \A e, f \in auditConsumed' : e.claim = f.claim => e = f
      BY <3>2, <3>7 DEF OwnershipIsAudited
    <3>14. OwnershipIsAudited'
      BY <3>11, <3>12, <3>13 DEF OwnershipIsAudited
    <3> QED  BY <3>5, <3>6, <3>14
  <2> QED  BY <2>3, <2>4
<1>4. ASSUME NEW r \in Requests, AssignPuts(r)
      PROVE  FreshInv' /\ AuditIsTrue'
  <2>1. UNCHANGED <<claims, ownership, audit>>
    BY <1>4 DEF AssignPuts
  <2>2. \A u \in Users, v \in Vehicles : access[<<u, v>>] # "none" => access'[<<u, v>>] # "none"
    BY <1>4 DEF AssignPuts, TypeOK
  <2>3. \A e \in auditConsumed : e.user \in Users /\ e.vehicle \in Vehicles
    BY DEF TypeOK
  <2> QED
    BY <2>1, <2>2, <2>3 DEF audit, FreshInv, OwnershipIsAudited, AttemptsAreCounted
<1>5. ASSUME NEW c \in ClaimIds, ClaimRemoved(c)
      PROVE  FreshInv' /\ AuditIsTrue'
  <2>1. UNCHANGED <<ownership, access, audit>>
    BY <1>5 DEF ClaimRemoved
  <2>2. \A d \in ClaimIds : claims'[d] = NoClaim \/ claims'[d] = claims[d]
    BY <1>5 DEF ClaimRemoved, TypeOK
  <2>3. \A e \in auditConsumed : e.claim \in ClaimIds
    BY DEF TypeOK
  <2> QED
    BY <2>1, <2>2, <2>3 DEF audit, FreshInv, OwnershipIsAudited, AttemptsAreCounted
<1>6. ASSUME NEW u \in Users, NEW v \in Vehicles, AccessRevoked(u, v)
      PROVE  FreshInv' /\ AuditIsTrue'
  <2>1. UNCHANGED <<claims, ownership, audit>>
    BY <1>6 DEF AccessRevoked
  <2>2. \A t \in Users, w \in Vehicles : access[<<t, w>>] # "none" => access'[<<t, w>>] # "none"
    BY <1>6 DEF AccessRevoked, TypeOK
  <2>3. \A e \in auditConsumed : e.user \in Users /\ e.vehicle \in Vehicles
    BY DEF TypeOK
  <2> QED
    BY <2>1, <2>2, <2>3 DEF audit, FreshInv, OwnershipIsAudited, AttemptsAreCounted
<1>7. CASE UNCHANGED <<claims, ownership, access, audit>>
  BY <1>7 DEF audit, FreshInv, OwnershipIsAudited, AttemptsAreCounted
<1> QED
  BY <1>1, <1>2, <1>3, <1>4, <1>5, <1>6, <1>7, Writers

-----------------------------------------------------------------------------
(* One ACTIVE user.                                                        *)

(* Who has something to show for v had it before: the step has given v no  *)
(* user, no new request past its look at v, and no new claim.              *)
LEMMA OwnerKept ==
  ASSUME NEW v \in Vehicles, OwnerOf(v),
         ActiveUsers(v)' \subseteq ActiveUsers(v),
         ownership[v] # NoOwner => ownership'[v] # NoOwner,
         \A r \in Requests :
           request'[r].at = "issue-put" /\ request'[r].vehicle = v => Settled(v),
         \A r \in Requests :
           request'[r].at \in Scanned /\ request'[r].vehicle = v
             => ActiveUsers(v) \subseteq {request'[r].user},
         \A c \in ClaimIds \ outstanding' :
           Consumable(c)' /\ claims'[c].vehicle = v => Settled(v)
  PROVE  OwnerOf(v)'
<1>1. Settled(v) => Settled(v)'
  BY DEF Settled
<1>2. OneActive(v)'
  BY DEF OwnerOf, OneActive
<1>3. IssuesAreSettled(v)'
  BY <1>1 DEF IssuesAreSettled
<1>4. ClaimsAreSettled(v)'
  BY <1>1 DEF ClaimsAreSettled
<1>5. AssignsAreAlone(v)'
  BY DEF AssignsAreAlone
<1> QED  BY <1>2, <1>3, <1>4, <1>5 DEF OwnerOf

(* A step of r that writes no table but, at most, that of the accounts.    *)
LEMMA OwnersKeptByReads ==
  ASSUME TypeOK, OwnerInv, NEW r \in Requests, NEW q \in Request,
         request' = [request EXCEPT ![r] = q],
         UNCHANGED <<now, claims, ownership, access, auditConsumed, overlapped, outstanding>>,
         q.at = "issue-put" => Settled(q.vehicle),
         q.at = "consume-transact" => Consumable(q.claim),
         q.at \in Scanned => ActiveUsers(q.vehicle) \subseteq {q.user}
  PROVE  OwnerInv'
<1> SUFFICES ASSUME NEW v \in Vehicles, ~Excused(v)'
             PROVE  OwnerOf(v)'
  BY DEF OwnerInv
<1>1. OwnerOf(v)
  BY DEF OwnerInv, Excused, Outrun
<1>2. ActiveUsers(v)' = ActiveUsers(v) /\ request'[r] = q
      /\ \A s \in Requests \ {r} : request'[s] = request[s]
  BY DEF ActiveUsers, TypeOK
<1>3. ASSUME NEW c \in ClaimIds, Consumable(c)'
      PROVE  Consumable(c)
  BY <1>2, <1>3 DEF Consumable, Usable, Issued
<1>4. \A s \in Requests :
        request'[s].at = "issue-put" /\ request'[s].vehicle = v => Settled(v)
  BY <1>1, <1>2 DEF OwnerOf, IssuesAreSettled
<1>5. \A s \in Requests : request'[s].at \in Scanned /\ request'[s].vehicle = v
        => ActiveUsers(v) \subseteq {request'[s].user}
  BY <1>1, <1>2 DEF OwnerOf, AssignsAreAlone
<1>6. \A c \in ClaimIds \ outstanding' :
        Consumable(c)' /\ claims'[c].vehicle = v => Settled(v)
  BY <1>1, <1>3 DEF OwnerOf, ClaimsAreSettled
<1> QED  BY <1>1, <1>2, <1>4, <1>5, <1>6, OwnerKept

(* A request that ends: the others are where they were.                    *)
LEMMA Ending ==
  ASSUME TypeOK, NEW r \in Requests, Ends(r)
  PROVE  /\ request'[r] = Idle
         /\ \A s \in Requests \ {r} : request'[s] = request[s]
BY DEF TypeOK, Ends, Goes

(* A table write for v that leaves no overlap had no other request about v *)
(* under way if one of the two was the B1 tool's.                          *)
LEMMA Meeting ==
  ASSUME NEW r \in Requests, NEW v \in Vehicles, MeetsAssignment(r, v)
  PROVE  /\ overlapped \subseteq overlapped' /\ overlapped' \subseteq overlapped \cup {v}
         /\ v \notin overlapped' =>
              /\ \A s \in Requests \ {r} :
                   Concerns(request[s], v) => ~IsAssign(request[s]) /\ ~IsAssign(request[r])
         /\ outstanding \subseteq outstanding'
         /\ IsAssign(request[r]) =>
              \A c \in ClaimIds : Usable(c) /\ claims[c].vehicle = v => c \in outstanding'
BY DEF MeetsAssignment

(* What excuses a vehicle stays: the ghosts and the trail only grow.       *)
LEMMA ExcusesStay ==
  ASSUME NEW v \in Vehicles, ~Excused(v)', overlapped \subseteq overlapped',
         outstanding \subseteq outstanding', auditConsumed \subseteq auditConsumed'
  PROVE  ~Excused(v)
BY DEF Excused, Outrun

LEMMA OwnersKept ==
  ASSUME TypeOK, OwnerInv, [Next]_vars
  PROVE  OwnerInv'
<1>0. \A r \in Requests : request[r] \in Request
  BY DEF TypeOK, Request
<1>1. ASSUME NEW r \in Requests, RequestStep(r)
      PROVE  OwnerInv'
  <2> DEFINE q == request[r]
  <2>0. q \in Request /\ Idle \in Request /\ Idle.at = "idle"
    BY <1>0 DEF Request, Idle
  <2>e. ASSUME Ends(r), UNCHANGED <<now, claims, ownership, access, auditConsumed,
                                 overlapped, outstanding>>
        PROVE  OwnerInv'
    BY <2>0, <2>e, OwnersKeptByReads DEF Ends, Goes, Scanned
  <2>1. ASSUME NEW v \in Vehicles, IssueBegins(r, v)
        PROVE  OwnerInv'
    <3> DEFINE n == [at |-> "issue-owner", vehicle |-> v]
    <3>1. n \in Request /\ n.at = "issue-owner"
      BY DEF Request, IssueRequest
    <3> QED  BY <2>1, <3>1, OwnersKeptByReads DEF IssueBegins, Goes, Reads, tables, audit, Scanned
  <2>2. CASE IssueReadsOwner(r)
    <3> DEFINE n == [q EXCEPT !.at = "issue-access"]
    <3>1. n \in Request /\ n.at = "issue-access"
      BY <2>0, <2>2, Shapes, Moves DEF IssueReadsOwner, Request, IssueRequest
    <3> QED
      BY <2>e, <2>2, <3>1, OwnersKeptByReads DEF IssueReadsOwner, GoesOn, Reads, tables, audit, Scanned
  <2>3. CASE IssueScansAccess(r)
    <3> DEFINE n == [q EXCEPT !.at = "issue-put"]
    <3>1. n \in Request /\ n.at = "issue-put" /\ n.vehicle = q.vehicle
      BY <2>0, <2>3, Shapes, Moves DEF IssueScansAccess, Request, IssueRequest
    <3>2. CASE ActiveUsers(q.vehicle) # {}
      BY <2>e, <2>3, <3>2 DEF IssueScansAccess, Reads, tables, audit
    <3>3. CASE ActiveUsers(q.vehicle) = {}
      <4>1. Settled(n.vehicle)
        BY <3>1, <3>3 DEF Settled
      <4> QED
        BY <2>3, <3>1, <3>3, <4>1, OwnersKeptByReads
        DEF IssueScansAccess, GoesOn, Reads, tables, audit, Scanned
    <3> QED  BY <3>2, <3>3
  <2>4. CASE IssuePuts(r)
    <3> SUFFICES ASSUME NEW v \in Vehicles, ~Excused(v)'
                 PROVE  OwnerOf(v)'
      BY DEF OwnerInv
    <3>1. PICK c \in ClaimIds \ auditIssued :
            claims' = [claims EXCEPT ![c] =
              [status |-> "ISSUED", vehicle |-> q.vehicle, failed |-> 0,
               expiresAt |-> now + ClaimTtl]]
      BY <2>4 DEF IssuePuts
    <3>2. q \in IssueRequest /\ q.vehicle \in Vehicles /\ q.at = "issue-put"
      BY <2>0, <2>4, Shapes DEF IssuePuts, IssueRequest
    <3>3. UNCHANGED <<now, ownership, access>> /\ ActiveUsers(v)' = ActiveUsers(v)
      BY <2>4 DEF IssuePuts, ActiveUsers
    <3>4. outstanding \subseteq outstanding' /\ ~Excused(v) /\ OwnerOf(v)
      BY <2>4, <3>2, Meeting, ExcusesStay DEF IssuePuts, OwnerInv
    <3>5. /\ request'[r] = Idle
          /\ \A s \in Requests \ {r} : request'[s] = request[s]
      BY <2>4, Ending DEF IssuePuts
    <3>6. claims'[c].vehicle = q.vehicle /\ \A d \in ClaimIds \ {c} : claims'[d] = claims[d]
      BY <3>1 DEF TypeOK
    <3>7. ASSUME NEW d \in ClaimIds \ outstanding', Consumable(d)', claims'[d].vehicle = v
          PROVE  Settled(v)
      <4>1. CASE d = c
        BY <3>2, <3>4, <3>6, <3>7, <4>1 DEF OwnerOf, IssuesAreSettled
      <4>2. CASE d # c
        <5>1. Consumable(d)
          BY <2>0, <3>3, <3>5, <3>6, <3>7, <4>2 DEF Consumable, Usable, Issued
        <5> QED  BY <3>4, <3>6, <3>7, <4>2, <5>1 DEF OwnerOf, ClaimsAreSettled
      <4> QED  BY <4>1, <4>2
    <3>8. \A s \in Requests :
            request'[s].at = "issue-put" /\ request'[s].vehicle = v => Settled(v)
      BY <2>0, <3>4, <3>5 DEF OwnerOf, IssuesAreSettled
    <3>9. \A s \in Requests : request'[s].at \in Scanned /\ request'[s].vehicle = v
            => ActiveUsers(v) \subseteq {request'[s].user}
      BY <2>0, <3>4, <3>5 DEF OwnerOf, AssignsAreAlone, Scanned
    <3> QED  BY <3>3, <3>4, <3>7, <3>8, <3>9, OwnerKept
  <2>5. ASSUME NEW u \in Users, NEW c \in ClaimIds, NEW proven \in BOOLEAN,
               ConsumeBegins(r, u, c, proven)
        PROVE  OwnerInv'
    <3> DEFINE n == [at |-> "consume-read", user |-> u, claim |-> c, proven |-> proven]
    <3>1. n \in Request /\ n.at = "consume-read"
      BY DEF Request, ConsumeRequest
    <3> QED  BY <2>5, <3>1, OwnersKeptByReads DEF ConsumeBegins, Goes, Reads, tables, audit, Scanned
  <2>6. CASE ConsumeReads(r)
    <3>1. q \in ConsumeRequest
      BY <2>0, <2>6, Shapes DEF ConsumeReads
    <3>2. CASE Usable(q.claim) /\ q.proven
      <4> DEFINE n == [q EXCEPT !.at = "consume-transact"]
      <4>1. n \in Request /\ n.at = "consume-transact" /\ n.claim = q.claim
        BY <3>1, Moves DEF Request, ConsumeRequest
      <4>2. Consumable(n.claim)
        BY <3>2, <4>1 DEF Consumable, Usable, Issued
      <4>3. request' = [request EXCEPT ![r] = n]
        BY <2>6, <3>2 DEF ConsumeReads, GoesOn, Usable
      <4> QED
        BY <2>6, <4>1, <4>2, <4>3, OwnersKeptByReads DEF ConsumeReads, Reads, tables, audit, Scanned
    <3>3. CASE ~(Usable(q.claim) /\ q.proven) /\ ~Ends(r)
      <4> DEFINE n == [q EXCEPT !.at = "consume-count"]
      <4>1. n \in Request /\ n.at = "consume-count"
        BY <3>1, Moves DEF Request, ConsumeRequest
      <4>2. request' = [request EXCEPT ![r] = n]
        BY <2>6, <3>3 DEF ConsumeReads, GoesOn
      <4> QED
        BY <2>6, <4>1, <4>2, OwnersKeptByReads DEF ConsumeReads, Reads, tables, audit, Scanned
    <3>4. CASE Ends(r)
      BY <2>e, <2>6, <3>4 DEF ConsumeReads, Reads, tables, audit
    <3> QED  BY <3>2, <3>3, <3>4
  <2>7. CASE ConsumeCounts(r)
    <3> SUFFICES ASSUME NEW v \in Vehicles, ~Excused(v)'
                 PROVE  OwnerOf(v)'
      BY DEF OwnerInv
    <3> DEFINE c == q.claim
    <3>1. /\ UNCHANGED <<now, ownership, access, outstanding>>
          /\ ActiveUsers(v)' = ActiveUsers(v) /\ OwnerOf(v)
      BY <2>7, ExcusesStay DEF ConsumeCounts, ActiveUsers, OwnerInv
    <3>2. /\ request'[r] = Idle
          /\ \A s \in Requests \ {r} : request'[s] = request[s]
      BY <2>7, Ending DEF ConsumeCounts
    <3>3. c \in ClaimIds
      BY <2>0, <2>7, Shapes DEF ConsumeCounts, ConsumeRequest
    <3>4. ASSUME NEW d \in ClaimIds, Consumable(d)', claims'[d].vehicle = v
          PROVE  Consumable(d) /\ claims[d].vehicle = v
      <4>1. CASE claims' = claims
        BY <2>0, <3>1, <3>2, <3>4, <4>1 DEF Consumable, Usable, Issued
      <4>2. CASE claims' # claims
        <5>1. claims' = [claims EXCEPT ![c] = [claims[c] EXCEPT !.failed = @ + 1]] /\ Issued(c)
              /\ claims[c].failed < MaxAttempts
          BY <2>7, <4>2 DEF ConsumeCounts
        <5>2. claims[c] \in Claim
          BY <3>3, <5>1 DEF Issued, TypeOK
        <5>3. \A e \in ClaimIds \ {c} : claims'[e] = claims[e]
          BY <5>1 DEF TypeOK
        <5>4. /\ claims'[c].status = claims[c].status /\ claims'[c].vehicle = claims[c].vehicle
              /\ claims'[c].expiresAt = claims[c].expiresAt
          BY <3>3, <5>1, <5>2 DEF TypeOK, Claim
        <5>5. d # c => claims'[d] = claims[d]
          BY <5>3
        <5> QED
          BY <2>0, <3>1, <3>2, <3>4, <5>1, <5>4, <5>5 DEF Consumable, Usable, Issued
      <4> QED  BY <4>1, <4>2
    <3>5. \A d \in ClaimIds \ outstanding' :
            Consumable(d)' /\ claims'[d].vehicle = v => Settled(v)
      BY <3>1, <3>4 DEF OwnerOf, ClaimsAreSettled
    <3>6. \A s \in Requests :
            request'[s].at = "issue-put" /\ request'[s].vehicle = v => Settled(v)
      BY <2>0, <3>1, <3>2 DEF OwnerOf, IssuesAreSettled
    <3>7. \A s \in Requests : request'[s].at \in Scanned /\ request'[s].vehicle = v
            => ActiveUsers(v) \subseteq {request'[s].user}
      BY <2>0, <3>1, <3>2 DEF OwnerOf, AssignsAreAlone, Scanned
    <3> QED  BY <3>1, <3>5, <3>6, <3>7, OwnerKept
  <2>8. CASE ConsumeTransacts(r)
    <3> DEFINE u == q.user
               c == q.claim
               w == claims[c].vehicle
    <3>1. CASE ~MayConsume(u, c)
      BY <2>e, <2>8, <3>1 DEF ConsumeTransacts
    <3>2. CASE MayConsume(u, c)
      <4> SUFFICES ASSUME NEW v \in Vehicles, ~Excused(v)'
                   PROVE  OwnerOf(v)'
        BY DEF OwnerInv
      <4>1. q \in ConsumeRequest /\ u \in Users /\ c \in ClaimIds /\ q.at = "consume-transact"
        BY <2>0, <2>8, Shapes DEF ConsumeTransacts, ConsumeRequest
      <4>2. claims[c] \in Claim /\ w \in Vehicles
        BY <3>2, <4>1 DEF MayConsume, Issued, TypeOK, Claim
      <4>3. /\ claims' = [claims EXCEPT ![c] = [claims[c] EXCEPT !.status = "CONSUMED"]]
            /\ ownership' = [ownership EXCEPT ![w] = [owner |-> u, claim |-> c]]
            /\ access' = [access EXCEPT ![<<u, w>>] = "ACTIVE"]
            /\ auditConsumed' = auditConsumed \cup {[claim |-> c, vehicle |-> w, user |-> u]}
            /\ MeetsAssignment(r, w) /\ now' = now
        BY <2>8, <3>2 DEF ConsumeTransacts
      <4>4. /\ outstanding \subseteq outstanding' /\ v \notin overlapped'
            /\ ~Excused(v) /\ OwnerOf(v)
        BY <4>2, <4>3, Meeting, ExcusesStay DEF OwnerInv, Excused
      <4>5. /\ request'[r] = Idle
            /\ \A s \in Requests \ {r} : request'[s] = request[s]
        BY <2>8, Ending DEF ConsumeTransacts
      <4>6. /\ claims'[c].status = "CONSUMED"
            /\ \A d \in ClaimIds \ {c} : claims'[d] = claims[d]
        BY <4>1, <4>2, <4>3 DEF TypeOK, Claim
      <4>7. ASSUME NEW d \in ClaimIds, Consumable(d)'
            PROVE  d # c /\ Consumable(d) /\ claims'[d] = claims[d]
        <5>1. d # c /\ claims'[d] = claims[d]
          BY <4>6, <4>7 DEF Consumable, Issued
        <5> QED
          BY <2>0, <4>3, <4>5, <4>7, <5>1 DEF Consumable, Usable, Issued
      <4>8. CASE v # w
        <5>1. ActiveUsers(v)' = ActiveUsers(v) /\ ownership'[v] = ownership[v]
          BY <4>1, <4>2, <4>3, <4>8 DEF ActiveUsers, TypeOK
        <5>2. \A d \in ClaimIds \ outstanding' :
                Consumable(d)' /\ claims'[d].vehicle = v => Settled(v)
          BY <4>4, <4>7 DEF OwnerOf, ClaimsAreSettled
        <5>3. \A s \in Requests :
                request'[s].at = "issue-put" /\ request'[s].vehicle = v => Settled(v)
          BY <2>0, <4>4, <4>5 DEF OwnerOf, IssuesAreSettled
        <5>4. \A s \in Requests : request'[s].at \in Scanned /\ request'[s].vehicle = v
                => ActiveUsers(v) \subseteq {request'[s].user}
          BY <2>0, <4>4, <4>5 DEF OwnerOf, AssignsAreAlone, Scanned
        <5> QED  BY <4>4, <5>1, <5>2, <5>3, <5>4, OwnerKept
      <4>9. CASE v = w
        <5>1. Consumable(c) /\ c \notin outstanding
          <6>1. Consumable(c)
            BY <3>2, <4>1 DEF Consumable, MayConsume
          <6>2. c \notin outstanding'
            <7> DEFINE e == [claim |-> c, vehicle |-> w, user |-> u]
            <7>1. e \in auditConsumed' /\ e.vehicle = v /\ e.claim = c
              BY <4>3, <4>9
            <7>2. ~Outrun(v)'
              BY DEF Excused
            <7> HIDE DEF e, c
            <7> QED  BY <7>1, <7>2 DEF Outrun
          <6> QED  BY <4>4, <6>1, <6>2
        <5>2. ActiveUsers(v) = {}
          BY <3>2, <4>1, <4>4, <4>9, <5>1 DEF OwnerOf, ClaimsAreSettled, Settled, MayConsume
        <5>3. ActiveUsers(v)' \subseteq {u}
          BY <4>1, <4>3, <4>9, <5>2 DEF ActiveUsers, TypeOK
        <5>4. ownership'[v] = [owner |-> u, claim |-> c] /\ [owner |-> u, claim |-> c] \in Ownership
          BY <4>1, <4>2, <4>3, <4>9 DEF TypeOK, Ownership
        <5>5. Settled(v)'
          BY <5>4, ClaimShapes DEF Settled
        <5>6. \A s \in Requests \ {r} : ~(request[s].at \in Scanned /\ request[s].vehicle = v)
          BY <1>0, <4>2, <4>3, <4>4, <4>9, Meeting, Shapes DEF Concerns, IsAssign
        <5>7. AssignsAreAlone(v)'
          BY <2>0, <4>5, <5>6 DEF AssignsAreAlone, Scanned
        <5> QED
          BY <5>3, <5>5, <5>7 DEF OwnerOf, OneActive, IssuesAreSettled, ClaimsAreSettled
      <4> QED  BY <4>8, <4>9
    <3> QED  BY <3>1, <3>2
  <2>9. ASSUME NEW u \in Users, NEW v \in Vehicles, AssignBegins(r, u, v)
        PROVE  OwnerInv'
    <3> DEFINE n == [at |-> "assign-find", user |-> u, vehicle |-> v]
    <3>1. n \in Request /\ n.at = "assign-find"
      BY DEF Request, AssignRequest
    <3> QED  BY <2>9, <3>1, OwnersKeptByReads DEF AssignBegins, Goes, Reads, tables, audit, Scanned
  <2>10. CASE AssignFindsUser(r)
    <3>1. PICK at \in {"assign-scan-known", "assign-scan-new"} : GoesOn(r, at)
      BY <2>10 DEF AssignFindsUser
    <3> DEFINE n == [q EXCEPT !.at = at]
    <3>2. n \in Request /\ n.at = at
      BY <2>0, <2>10, Shapes, Moves DEF AssignFindsUser, Request, AssignRequest
    <3> QED
      BY <2>10, <3>1, <3>2, OwnersKeptByReads
      DEF AssignFindsUser, GoesOn, Reads, tables, audit, Scanned
  <2>11. CASE AssignScansOwners(r)
    <3>1. q \in AssignRequest
      BY <2>0, <2>11, Shapes DEF AssignScansOwners
    <3>2. CASE Ends(r)
      BY <2>e, <2>11, <3>2 DEF AssignScansOwners, Reads, tables, audit
    <3>3. CASE ~Ends(r)
      <4>1. PICK at \in {"assign-get", "assign-create"} :
              GoesOn(r, at) /\ ActiveUsers(q.vehicle) \subseteq {q.user}
        BY <2>11, <3>3 DEF AssignScansOwners
      <4> DEFINE n == [q EXCEPT !.at = at]
      <4>2. n \in Request /\ n.at = at /\ n.vehicle = q.vehicle /\ n.user = q.user
        BY <3>1, Moves DEF Request, AssignRequest, Scanned
      <4> QED
        BY <2>11, <4>1, <4>2, OwnersKeptByReads DEF AssignScansOwners, GoesOn, Reads, tables, audit
    <3> QED  BY <3>2, <3>3
  <2>12. CASE AssignGets(r) \/ AssignCreatesUser(r)
    <3>1. q \in AssignRequest /\ q.at \in Scanned
      BY <2>0, <2>12, Shapes DEF AssignGets, AssignCreatesUser, Scanned
    <3>2. UNCHANGED <<now, claims, ownership, access, auditConsumed, overlapped, outstanding>>
      BY <2>12 DEF AssignGets, AssignCreatesUser, Reads, tables, audit
    <3>3. CASE Ends(r)
      BY <2>e, <3>2, <3>3
    <3>4. CASE ~Ends(r)
      <4> DEFINE n == [q EXCEPT !.at = "assign-put"]
      <4>1. request' = [request EXCEPT ![r] = n]
        BY <2>12, <3>4 DEF AssignGets, AssignCreatesUser, GoesOn
      <4>2. n \in Request /\ n.at = "assign-put" /\ n.vehicle = q.vehicle /\ n.user = q.user
            /\ q.vehicle \in Vehicles
        BY <3>1, Moves DEF Request, AssignRequest, Scanned
      <4>3. CASE ~Excused(q.vehicle)
        <5>1. ActiveUsers(n.vehicle) \subseteq {n.user}
          BY <3>1, <4>2, <4>3 DEF OwnerInv, OwnerOf, AssignsAreAlone
        <5> QED  BY <3>2, <4>1, <4>2, <5>1, OwnersKeptByReads
      <4>4. CASE Excused(q.vehicle)
        <5> SUFFICES ASSUME NEW v \in Vehicles, ~Excused(v)'
                     PROVE  OwnerOf(v)'
          BY DEF OwnerInv
        <5>1. OwnerOf(v) /\ ActiveUsers(v)' = ActiveUsers(v) /\ v # q.vehicle
          BY <3>2, <4>4, ExcusesStay DEF OwnerInv, ActiveUsers
        <5>2. request'[r] = n /\ \A s \in Requests \ {r} : request'[s] = request[s]
          BY <4>1 DEF TypeOK
        <5>3. \A d \in ClaimIds : Consumable(d)' => Consumable(d)
          BY <3>2, <4>2, <5>2 DEF Consumable, Usable, Issued
        <5>4. \A d \in ClaimIds \ outstanding' :
                Consumable(d)' /\ claims'[d].vehicle = v => Settled(v)
          BY <3>2, <5>1, <5>3 DEF OwnerOf, ClaimsAreSettled
        <5>5. \A s \in Requests :
                request'[s].at = "issue-put" /\ request'[s].vehicle = v => Settled(v)
          BY <4>2, <5>1, <5>2 DEF OwnerOf, IssuesAreSettled
        <5>6. \A s \in Requests : request'[s].at \in Scanned /\ request'[s].vehicle = v
                => ActiveUsers(v) \subseteq {request'[s].user}
          BY <4>2, <5>1, <5>2 DEF OwnerOf, AssignsAreAlone
        <5> QED  BY <3>2, <5>1, <5>4, <5>5, <5>6, OwnerKept
      <4> QED  BY <4>3, <4>4
    <3> QED  BY <3>3, <3>4
  <2>13. CASE AssignPuts(r)
    <3> DEFINE u == q.user
               w == q.vehicle
    <3>1. q \in AssignRequest /\ q.at = "assign-put" /\ u \in Users /\ w \in Vehicles
      BY <2>0, <2>13, Shapes DEF AssignPuts, Scanned, AssignRequest
    <3>2. CASE access[<<u, w>>] # "none"
      BY <2>e, <2>13, <3>2 DEF AssignPuts, audit
    <3>3. CASE access[<<u, w>>] = "none"
      <4> SUFFICES ASSUME NEW v \in Vehicles, ~Excused(v)'
                   PROVE  OwnerOf(v)'
        BY DEF OwnerInv
      <4>1. /\ access' = [access EXCEPT ![<<u, w>>] = "ACTIVE"]
            /\ MeetsAssignment(r, w) /\ UNCHANGED <<now, claims, ownership, auditConsumed>>
        BY <2>13, <3>3 DEF AssignPuts, audit
      <4>2. /\ outstanding \subseteq outstanding' /\ v \notin overlapped'
            /\ ~Excused(v) /\ OwnerOf(v)
        BY <3>1, <4>1, Meeting, ExcusesStay DEF OwnerInv, Excused
      <4>3. /\ request'[r] = Idle
            /\ \A s \in Requests \ {r} : request'[s] = request[s]
        BY <2>13, Ending DEF AssignPuts
      <4>4. \A d \in ClaimIds : Consumable(d)' => Consumable(d)
        BY <2>0, <4>1, <4>3 DEF Consumable, Usable, Issued
      <4>5. CASE v # w
        <5>1. ActiveUsers(v)' = ActiveUsers(v)
          BY <3>1, <4>1, <4>5 DEF ActiveUsers, TypeOK
        <5>2. \A d \in ClaimIds \ outstanding' :
                Consumable(d)' /\ claims'[d].vehicle = v => Settled(v)
          BY <4>1, <4>2, <4>4 DEF OwnerOf, ClaimsAreSettled
        <5>3. \A s \in Requests :
                request'[s].at = "issue-put" /\ request'[s].vehicle = v => Settled(v)
          BY <2>0, <4>2, <4>3 DEF OwnerOf, IssuesAreSettled
        <5>4. \A s \in Requests : request'[s].at \in Scanned /\ request'[s].vehicle = v
                => ActiveUsers(v) \subseteq {request'[s].user}
          BY <2>0, <4>2, <4>3 DEF OwnerOf, AssignsAreAlone, Scanned
        <5> QED  BY <4>1, <4>2, <5>1, <5>2, <5>3, <5>4, OwnerKept
      <4>6. CASE v = w
        <5>1. ActiveUsers(v) \subseteq {u}
          BY <3>1, <4>2, <4>6 DEF OwnerOf, AssignsAreAlone, Scanned
        <5>2. ActiveUsers(v)' \subseteq {u}
          BY <3>1, <4>1, <4>6, <5>1 DEF ActiveUsers, TypeOK
        <5>3. /\ \A s \in Requests \ {r} : ~Concerns(request[s], v)
              /\ \A d \in ClaimIds \ outstanding' : Usable(d) => claims[d].vehicle # v
          BY <3>1, <4>1, <4>2, <4>6, Meeting DEF IsAssign
        <5>4. \A s \in Requests \ {r} :
                ~(request[s].at \in Scanned \cup {"issue-put"} /\ request[s].vehicle = v)
          BY <1>0, <5>3, Shapes DEF Concerns
        <5>5. ASSUME NEW d \in ClaimIds \ outstanding', Consumable(d)', claims'[d].vehicle = v
              PROVE  FALSE
          <6>1. PICK s \in Requests : request'[s].at = "consume-transact" /\ request'[s].claim = d
            BY <4>1, <5>3, <5>5 DEF Consumable, Usable
          <6>2. s # r /\ request[s].at = "consume-transact" /\ request[s].claim = d
            BY <2>0, <4>3, <6>1
          <6>3. request[s] \in ConsumeRequest
            BY <1>0, <6>2, Shapes
          <6>4. claims[d] # NoClaim
            BY <4>4, <5>5 DEF Consumable, Issued
          <6> QED  BY <4>1, <5>3, <5>5, <6>2, <6>3, <6>4 DEF Concerns
        <5>6. AssignsAreAlone(v)' /\ IssuesAreSettled(v)'
          BY <2>0, <4>3, <5>4 DEF AssignsAreAlone, IssuesAreSettled, Scanned
        <5> QED
          BY <5>2, <5>5, <5>6 DEF OwnerOf, OneActive, ClaimsAreSettled
      <4> QED  BY <4>5, <4>6
    <3> QED  BY <3>2, <3>3
  <2>14. CASE RequestFails(r)
    BY <2>e, <2>14 DEF RequestFails, Reads, tables, audit
  <2> QED
    BY <1>1, <2>1, <2>2, <2>3, <2>4, <2>5, <2>6, <2>7, <2>8, <2>9, <2>10, <2>11, <2>12, <2>13, <2>14
    DEF RequestStep, IssueStep, ConsumeStep, AssignStep
<1>2. ASSUME OwnerInv, UNCHANGED <<ownership, request, auditConsumed, overlapped, outstanding>>,
             \A v \in Vehicles : ActiveUsers(v)' \subseteq ActiveUsers(v),
             \A c \in ClaimIds : Consumable(c)' => Consumable(c) /\ claims'[c] = claims[c]
      PROVE  OwnerInv'
  <2> SUFFICES ASSUME NEW v \in Vehicles, ~Excused(v)'
               PROVE  OwnerOf(v)'
    BY DEF OwnerInv
  <2>1. OwnerOf(v)
    BY <1>2, ExcusesStay DEF OwnerInv
  <2> QED
    BY <1>2, <2>1, OwnerKept DEF OwnerOf, IssuesAreSettled, ClaimsAreSettled, AssignsAreAlone
<1>3. ASSUME NEW c \in ClaimIds, ClaimRemoved(c)
      PROVE  OwnerInv'
  <2>1. /\ UNCHANGED <<now, ownership, access, request, auditConsumed, overlapped, outstanding>>
        /\ \A d \in ClaimIds : claims'[d] \in {NoClaim, claims[d]}
    BY <1>3 DEF ClaimRemoved, TypeOK, audit
  <2>2. \A v \in Vehicles : ActiveUsers(v)' = ActiveUsers(v)
    BY <2>1 DEF ActiveUsers
  <2>3. ASSUME NEW d \in ClaimIds, Consumable(d)'
        PROVE  Consumable(d) /\ claims'[d] = claims[d]
    <3>1. claims'[d] = claims[d]
      BY <2>1, <2>3 DEF Consumable, Issued
    <3> QED  BY <2>1, <2>3, <3>1 DEF Consumable, Usable, Issued
  <2> QED  BY <1>2, <2>1, <2>2, <2>3
<1>4. ASSUME NEW u \in Users, NEW w \in Vehicles, AccessRevoked(u, w)
      PROVE  OwnerInv'
  <2>1. UNCHANGED <<now, claims, ownership, request, auditConsumed, overlapped, outstanding>>
    BY <1>4 DEF AccessRevoked, audit
  <2>2. \A v \in Vehicles : ActiveUsers(v)' \subseteq ActiveUsers(v)
    BY <1>4 DEF AccessRevoked, ActiveUsers, TypeOK
  <2>3. \A d \in ClaimIds : Consumable(d)' => Consumable(d)
    BY <2>1 DEF Consumable, Usable, Issued
  <2> QED  BY <1>2, <2>1, <2>2, <2>3
<1>5. CASE Tick \/ UNCHANGED vars
  <2>1. /\ UNCHANGED <<claims, ownership, access, request, auditConsumed, overlapped, outstanding>>
        /\ now' \in {now, now + 1}
    BY <1>5 DEF Tick, vars, tables, audit
  <2>2. \A v \in Vehicles : ActiveUsers(v)' = ActiveUsers(v)
    BY <2>1 DEF ActiveUsers
  <2>3. ASSUME NEW d \in ClaimIds, Consumable(d)'
        PROVE  Consumable(d)
    <3>1. claims[d] \in Claim /\ now \in Int
      BY <2>1, <2>3 DEF Consumable, Issued, TypeOK
    <3> QED  BY <2>1, <2>3, <3>1 DEF Consumable, Usable, Issued, Claim
  <2> QED  BY <1>2, <2>1, <2>2, <2>3
<1> QED
  BY <1>1, <1>3, <1>4, <1>5 DEF Next, RequestStep

-----------------------------------------------------------------------------
(* The tables hold rows of their schemas, and no failure counter passes    *)
(* maxAttempts, for any number of requests under way.                      *)
THEOREM TypeCorrect == Spec => []TypeOK
BY TypesStart, TypesKept, PTL DEF Spec

(* The audit trail tells what the tables say: ownership and access come    *)
(* and go with a CLAIM_CONSUMED event, one for a vehicle and a claim, and  *)
(* attempts are counted as they are audited.                               *)
THEOREM AuditStaysTrue == Spec => []AuditIsTrue
<1>1. FreshInv /\ AuditIsTrue /\ TypeOK /\ [Next]_vars => (FreshInv /\ AuditIsTrue)'
  BY AuditKept
<1>2. Init => FreshInv /\ AuditIsTrue
  BY AuditStarts
<1> QED
  BY <1>1, <1>2, TypeCorrect, PTL DEF Spec

(* A vehicle has at most one ACTIVE user, however issues, consumptions,    *)
(* runs of the B1 tool, revocations and expiries interleave, unless the    *)
(* tool ran at the same time as another request for the vehicle, or a claim*)
(* that was out when the tool assigned it was consumed afterwards.         *)
THEOREM OneOwner == Spec => []OneActiveOwner
<1>1. Init => OwnerInv
  <2>1. ASSUME Init, NEW v \in Vehicles
        PROVE  OwnerOf(v)
    <3>1. ActiveUsers(v) = {}
      BY <2>1 DEF Init, ActiveUsers
    <3> QED
      BY <2>1, <3>1
      DEF OwnerOf, OneActive, IssuesAreSettled, ClaimsAreSettled, AssignsAreAlone, Settled
  <2> QED  BY <2>1 DEF OwnerInv
<1>2. OwnerInv => OneActiveOwner
  <2> SUFFICES ASSUME OwnerInv, NEW v \in Vehicles, ~Excused(v)
               PROVE  Cardinality(ActiveUsers(v)) <= 1
    BY DEF OneActiveOwner, Excused
  <2>1. \A u, w \in ActiveUsers(v) : u = w
    BY DEF OwnerInv, OwnerOf, OneActive
  <2>2. CASE ActiveUsers(v) = {}
    BY <2>2, FS_EmptySet
  <2>3. CASE ActiveUsers(v) # {}
    <3>1. PICK u : ActiveUsers(v) = {u}
      BY <2>1, <2>3
    <3> QED  BY <3>1, FS_Singleton
  <2> QED  BY <2>2, <2>3
<1>3. TypeOK /\ OwnerInv /\ [Next]_vars => OwnerInv'
  BY OwnersKept
<1> QED
  BY <1>1, <1>2, <1>3, TypeCorrect, PTL DEF Spec

(* No step consumes a claim whose attempts are used up, whatever request   *)
(* read it before.                                                         *)
THEOREM DeadStaysDead == Spec => ExhaustedClaimIsDead
<1>1. TypeOK /\ AuditIsTrue /\ [Next]_vars
        => [\A e \in auditConsumed' \ auditConsumed : auditFailed[e.claim] < MaxAttempts]_vars
  <2> SUFFICES ASSUME TypeOK, AuditIsTrue, Next, NEW e \in auditConsumed' \ auditConsumed
               PROVE  auditFailed[e.claim] < MaxAttempts
    OBVIOUS
  <2>1. PICK r \in Requests : ConsumeTransacts(r)
    BY Writers DEF IssuePuts, ConsumeCounts, AssignPuts, ClaimRemoved, AccessRevoked, audit
  <2>2. request[r] \in ConsumeRequest
    BY <2>1, Shapes DEF ConsumeTransacts, TypeOK, Request
  <2>3. e.claim = request[r].claim /\ MayConsume(request[r].user, e.claim) /\ e.claim \in ClaimIds
    BY <2>1, <2>2 DEF ConsumeTransacts, ConsumeRequest
  <2> QED
    BY <2>3 DEF MayConsume, Issued, AuditIsTrue, AttemptsAreCounted
<1> QED
  BY <1>1, TypeCorrect, AuditStaysTrue, PTL DEF Spec, ExhaustedClaimIsDead

=============================================================================
