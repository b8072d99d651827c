------------------------------ MODULE PortalProofs ------------------------------
(***************************************************************************)
(* What the tables behind the portal hold to, for any users, targets,      *)
(* rows, limits and invocations under way: operations and their grants     *)
(* (FirmwareGrants), proofs and texts (NotificationPreferences), and the   *)
(* copy of the demo vehicle (DemoRefresh).                                 *)
(***************************************************************************)
EXTENDS MCPortal, OnboardingClaimsProofs, FiniteSetTheorems,
        SequenceTheorems, WellFoundedInduction, TLAPS

-----------------------------------------------------------------------------
(* Firmware grants: types.                                                 *)

(* An invocation under way has a target left to read or has found one.     *)
CallShape(r) ==
  /\ r \in Call /\ r.since <= Len(trail) /\ r.at <= clock
  /\ r.stage = "read" => r.targets # <<>>
  /\ r.stage = "audit" => Len(r.found) = 1 /\ r.targets = <<>>
CallType ==
  /\ call \in [PortalCalls -> {NoCall} \cup Call]
  /\ \A c \in PortalCalls : call[c] = NoCall \/ CallShape(call[c])

TrailType ==
  /\ trail \in Seq(Event) /\ Len(trail) <= MaxEvents
  /\ \A d \in DOMAIN trail : trail[d].event = "AUTHORIZED" => trail[d].since < d

GrantsTypes ==
  /\ clock \in Ages /\ released \in [Targets -> Versions]
  /\ grants \in [Targets -> {NoGrant} \cup Grant]
  /\ TrailType /\ CallType

(* A step that puts an event into the trail leaves the others.             *)
LEMMA TrailGrows ==
  ASSUME NEW T \in Seq(Event), NEW e \in Event
  PROVE  /\ Append(T, e) \in Seq(Event) /\ Len(Append(T, e)) = Len(T) + 1
         /\ DOMAIN Append(T, e) = 1..(Len(T) + 1) /\ DOMAIN T = 1..Len(T)
         /\ \A k \in 1..Len(T) : Append(T, e)[k] = T[k]
         /\ Append(T, e)[Len(T) + 1] = e
OBVIOUS

LEMMA GrantsConstants ==
  /\ LastVersion \in Nat /\ LastTime \in Nat /\ MaxEvents \in Nat
  /\ Ages \subseteq Nat /\ Versions \subseteq Nat /\ 0 \in Ages /\ 0 \in Versions
  /\ Lifetimes \subseteq Nat /\ Recovery \in Targets /\ Recovery \notin FirmwareTargets
  /\ Catalog \in Seq(Targets) /\ Catalog # <<>> /\ <<Recovery>> \in Seq(Targets)
<1>1. FirmwareTargets \subseteq Targets
  BY DEF Targets
<1>2. Catalog \in Seq(Targets)
  BY <1>1, GrantsAssumption DEF GrantsAssumption
<1> QED  BY <1>2, GrantsAssumption DEF GrantsAssumption, Ages, Versions, Targets

(* The events of the transactions.                                         *)
Created(t, version, expiresAt) ==
  [event |-> "CREATED", target |-> t, version |-> version, expiresAt |-> expiresAt]
Revoked(t) == [event |-> "REVOKED", target |-> t]
Result(t) == [event |-> "RESULT", target |-> t]
Authorized(r) == [event |-> "AUTHORIZED", target |-> Head(r.found), at |-> r.at,
                  since |-> r.since, releases |-> r.releases]

(* What a transaction of an administrator may do.                          *)
GrantPut(t) ==
  \E version \in Versions, expiresAt \in Nat :
    /\ t = Recovery => version = 0
    /\ grants' = [grants EXCEPT ![t] = [status |-> "ACTIVE", version |-> version,
                                        expiresAt |-> expiresAt]]
    /\ trail' = Append(trail, Created(t, version, expiresAt))
GrantTaken(t) ==
  /\ grants[t] # NoGrant
  /\ grants' = [grants EXCEPT ![t].status = "REVOKED"]
  /\ trail' = Append(trail, Revoked(t))
ResultPut(t) ==
  /\ grants' = grants /\ trail' = Append(trail, Result(t))

(* The steps of GrantsNext, sorted by what they touch.                     *)
LEMMA GrantSteps ==
  ASSUME GrantsTypes, [GrantsNext]_grantVars
  PROVE  \/ UNCHANGED grantVars
         \/ /\ \E t \in Targets : GrantPut(t) \/ GrantTaken(t) \/ ResultPut(t)
            /\ Len(trail) < MaxEvents /\ UNCHANGED <<clock, released, call>>
         \/ \E c \in PortalCalls : DownloadBegins(c) \/ RecoveryBegins(c)
         \/ \E c \in PortalCalls : ReadsGrant(c)
         \/ \E c \in PortalCalls : OperationAudited(c)
         \/ \E t \in Targets : Deploys(t)
         \/ \E t \in Targets : RowDeleted(t)
         \/ ClockTicks
<1>1. ASSUME NEW at \in Ages, NEW hours \in Lifetimes, RecoveryGrant(at, hours)
      PROVE  GrantPut(Recovery) /\ Len(trail) < MaxEvents /\ UNCHANGED <<clock, released, call>>
  <2>1. at + hours \in Nat
    BY GrantsConstants
  <2> QED  BY <1>1, <2>1, GrantsConstants DEF RecoveryGrant, GrantPut, Created
<1>2. ASSUME NEW at \in Ages, NEW hours \in Lifetimes, NEW t \in Targets,
             NEW version \in Versions, FirmwareGrant(t, version, at, hours)
      PROVE  GrantPut(t) /\ Len(trail) < MaxEvents /\ UNCHANGED <<clock, released, call>>
  <2>1. at + hours \in Nat
    BY GrantsConstants
  <2>2. t # Recovery
    BY <1>2, GrantsConstants DEF FirmwareGrant
  <2> QED  BY <1>2, <2>1, <2>2 DEF FirmwareGrant, GrantPut, Created
<1>3. ASSUME NEW t \in Targets, FirmwareRevoke(t)
      PROVE  GrantTaken(t) /\ Len(trail) < MaxEvents /\ UNCHANGED <<clock, released, call>>
  BY <1>3 DEF FirmwareRevoke, GrantTaken, Revoked
<1>4. ASSUME NEW t \in Targets, FirmwareResult(t)
      PROVE  ResultPut(t) /\ Len(trail) < MaxEvents /\ UNCHANGED <<clock, released, call>>
  BY <1>4 DEF FirmwareResult, ResultPut, Result
<1>5. ASSUME RecoveryRevoke
      PROVE  GrantTaken(Recovery) /\ Len(trail) < MaxEvents /\ UNCHANGED <<clock, released, call>>
  BY <1>5 DEF RecoveryRevoke, GrantTaken, Revoked
<1>6. ASSUME RecoveryResult
      PROVE  ResultPut(Recovery) /\ Len(trail) < MaxEvents /\ UNCHANGED <<clock, released, call>>
  BY <1>6 DEF RecoveryResult, ResultPut, Result
<1> QED  BY <1>1, <1>2, <1>3, <1>4, <1>5, <1>6, GrantsConstants DEF GrantsNext

LEMMA GrantsTypesStart == GrantsInit => GrantsTypes
BY GrantsConstants DEF GrantsInit, GrantsTypes, TrailType, CallType, Event, Call, NoCall

(* The targets that are left after one has been read.                      *)
LEMMA Remaining ==
  ASSUME NEW s \in Seq(Targets), s # <<>>
  PROVE  /\ Head(s) = s[1] /\ Head(s) \in Targets /\ Tail(s) \in Seq(Targets)
         /\ DOMAIN Tail(s) = 1..(Len(s) - 1) /\ Len(s) \in Nat \ {0} /\ DOMAIN s = 1..Len(s)
         /\ \A k \in 1..(Len(s) - 1) : Tail(s)[k] = s[k + 1]
         /\ Len(s) > 1 => Tail(s) # <<>>
<1>1. Len(Tail(s)) = Len(s) - 1 /\ Len(s) \in Nat \ {0}
  OBVIOUS
<1>2. Len(s) > 1 => Tail(s) # <<>>
  <2>1. \A t : t = <<>> => Len(t) = 0
    BY EmptySeq
  <2>2. Tail(s) = <<>> => Len(Tail(s)) = 0
    BY <2>1, Zenon
  <2> QED  BY <1>1, <2>2
<1> QED  BY <1>1, <1>2

LEMMA CallGoesOn ==
  ASSUME NEW r \in Call, r.stage = "read", r.targets # <<>>, NEW found \in Seq(Targets)
  PROVE  /\ [r EXCEPT !.targets = Tail(@), !.found = found] \in Call
         /\ [r EXCEPT !.stage = "audit", !.targets = <<>>, !.found = found] \in Call
<1>1. Tail(r.targets) \in Seq(Targets) /\ <<>> \in Seq(Targets)
  BY DEF Call
<1> QED  BY <1>1 DEF Call

(* Where every action leaves the rows, the trail and the calls typed.      *)
LEMMA GrantsTypesKept ==
  ASSUME GrantsTypes, [GrantsNext]_grantVars
  PROVE  GrantsTypes'
<1>1. ASSUME UNCHANGED grantVars
      PROVE  GrantsTypes'
  BY <1>1 DEF GrantsTypes, TrailType, CallType, CallShape, grantVars
<1>2. ASSUME NEW e \in Event, e.event = "AUTHORIZED" => e.since <= Len(trail),
             trail' = Append(trail, e), Len(trail) < MaxEvents
      PROVE  TrailType' /\ Len(trail') = Len(trail) + 1
  <2>1. /\ trail' \in Seq(Event) /\ Len(trail') = Len(trail) + 1
        /\ DOMAIN trail' = 1..(Len(trail) + 1) /\ DOMAIN trail = 1..Len(trail)
        /\ \A k \in 1..Len(trail) : trail'[k] = trail[k]
        /\ trail'[Len(trail) + 1] = e
    BY <1>2, TrailGrows DEF GrantsTypes, TrailType
  <2>2. Len(trail) \in Nat /\ Len(trail) + 1 <= MaxEvents
    BY <1>2, GrantsConstants DEF GrantsTypes, TrailType
  <2>3. ASSUME NEW d \in DOMAIN trail', trail'[d].event = "AUTHORIZED"
        PROVE  trail'[d].since < d
    <3>1. CASE d \in DOMAIN trail
      BY <2>1, <2>3, <3>1 DEF GrantsTypes, TrailType
    <3>2. CASE d = Len(trail) + 1
      <4>1. e \in [event: {"AUTHORIZED"}, target: Targets, at: Ages, since: Nat,
                   releases: [Targets -> Versions]]
        BY <1>2, <2>1, <2>3, <3>2 DEF Event
      <4> QED  BY <1>2, <2>1, <2>2, <2>3, <3>2, <4>1
    <3> QED  BY <2>1, <2>2, <3>1, <3>2
  <2> QED  BY <2>1, <2>2, <2>3 DEF TrailType
<1>3. ASSUME NEW t \in Targets, GrantPut(t), Len(trail) < MaxEvents, UNCHANGED <<clock, released, call>>
      PROVE  GrantsTypes'
  <2>1. PICK version \in Versions, expiresAt \in Nat :
          /\ grants' = [grants EXCEPT ![t] = [status |-> "ACTIVE", version |-> version,
                                              expiresAt |-> expiresAt]]
          /\ trail' = Append(trail, Created(t, version, expiresAt))
    BY <1>3 DEF GrantPut
  <2>2. Created(t, version, expiresAt) \in Event
        /\ Created(t, version, expiresAt).event = "CREATED"
    BY DEF Created, Event
  <2>3. TrailType' /\ Len(trail') = Len(trail) + 1
    BY <1>2, <1>3, <2>1, <2>2
  <2>4. grants' \in [Targets -> {NoGrant} \cup Grant]
    BY <2>1 DEF GrantsTypes, Grant
  <2> QED  BY <1>3, <2>3, <2>4 DEF GrantsTypes, CallType, CallShape, TrailType, Call
<1>4. ASSUME NEW t \in Targets, GrantTaken(t), Len(trail) < MaxEvents, UNCHANGED <<clock, released, call>>
      PROVE  GrantsTypes'
  <2>1. Revoked(t) \in Event /\ Revoked(t).event = "REVOKED"
    BY DEF Revoked, Event
  <2>2. TrailType' /\ Len(trail') = Len(trail) + 1
    BY <1>2, <1>4, <2>1 DEF GrantTaken
  <2>3. grants' \in [Targets -> {NoGrant} \cup Grant]
    BY <1>4 DEF GrantTaken, GrantsTypes, Grant
  <2> QED  BY <1>4, <2>2, <2>3 DEF GrantsTypes, CallType, CallShape, TrailType, Call
<1>5. ASSUME NEW t \in Targets, ResultPut(t), Len(trail) < MaxEvents, UNCHANGED <<clock, released, call>>
      PROVE  GrantsTypes'
  <2>1. Result(t) \in Event /\ Result(t).event = "RESULT"
    BY DEF Result, Event
  <2>2. TrailType' /\ Len(trail') = Len(trail) + 1
    BY <1>2, <1>5, <2>1 DEF ResultPut
  <2> QED  BY <1>5, <2>2 DEF ResultPut, GrantsTypes, CallType, CallShape, TrailType, Call
<1>6. ASSUME NEW c \in PortalCalls, DownloadBegins(c) \/ RecoveryBegins(c)
      PROVE  GrantsTypes'
  <2>1. PICK targets \in Seq(Targets) \ {<<>>} : call' = [call EXCEPT ![c] = Begun(targets)]
    BY <1>6, GrantsConstants DEF DownloadBegins, RecoveryBegins, Becomes
  <2>2. CallShape(Begun(targets))
    BY <2>1, GrantsConstants DEF CallShape, Begun, Call, GrantsTypes, TrailType
  <2> QED  BY <1>6, <2>1, <2>2 DEF DownloadBegins, RecoveryBegins, OnlyCall, GrantsTypes, CallType,
              CallShape, TrailType
<1>7. ASSUME NEW c \in PortalCalls, ReadsGrant(c)
      PROVE  GrantsTypes'
  <2> DEFINE r == call[c]
             found == IF Matches(Head(r.targets), r) THEN Append(r.found, Head(r.targets)) ELSE r.found
             goes == [r EXCEPT !.targets = Tail(@), !.found = found]
             audits == [r EXCEPT !.stage = "audit", !.targets = <<>>, !.found = found]
  <2>1. r # NoCall /\ r.stage = "read"
    BY <1>7 DEF ReadsGrant, NoCall
  <2>2. CallShape(r)
    BY <2>1 DEF GrantsTypes, CallType
  <2>3. r.targets # <<>> /\ Head(r.targets) \in Targets
    <3>1. r.targets # <<>> /\ r.targets \in Seq(Targets)
      BY <2>1, <2>2 DEF CallShape, Call
    <3> QED  BY <3>1
  <2>4. found \in Seq(Targets)
    BY <2>2, <2>3 DEF CallShape, Call
  <2>5. goes \in Call /\ audits \in Call
    BY <2>1, <2>2, <2>3, <2>4, CallGoesOn DEF CallShape
  <2>6. Len(r.targets) > 1 => Tail(r.targets) # <<>>
    <3>1. r.targets \in Seq(Targets)
      BY <2>2 DEF CallShape, Call
    <3> QED  BY <2>3, <3>1, Remaining
  <2>7. Len(r.targets) > 1 => CallShape(goes)
    BY <2>1, <2>2, <2>5, <2>6 DEF CallShape, Call
  <2>8. Decided(found) => CallShape(audits)
    BY <2>2, <2>5 DEF CallShape, Call, Decided
  <2>9. \E q : /\ call' = [call EXCEPT ![c] = q]
               /\ q = NoCall \/ CallShape(q)
    BY <1>7, <2>7, <2>8 DEF ReadsGrant, Becomes
  <2> HIDE DEF r, found, goes, audits
  <2>10. CallType'
    BY <1>7, <2>9 DEF ReadsGrant, OnlyCall, CallType, CallShape, GrantsTypes
  <2> QED  BY <1>7, <2>10 DEF ReadsGrant, OnlyCall, GrantsTypes, TrailType
<1>8. ASSUME NEW c \in PortalCalls, OperationAudited(c)
      PROVE  GrantsTypes'
  <2> DEFINE r == call[c]
  <2>1. r.stage = "audit" /\ r # NoCall
    BY <1>8 DEF OperationAudited, NoCall
  <2>2. CallShape(r)
    BY <2>1 DEF GrantsTypes, CallType
  <2>3. Head(r.found) \in Targets
    BY <2>1, <2>2 DEF CallShape, Call
  <2>4. Authorized(r) \in Event /\ Authorized(r).since <= Len(trail)
    BY <2>2, <2>3 DEF Authorized, Event, CallShape, Call
  <2>5. trail' = Append(trail, Authorized(r)) /\ Len(trail) < MaxEvents
    BY <1>8 DEF OperationAudited, Authorized
  <2>6. TrailType' /\ Len(trail') = Len(trail) + 1
    BY <1>2, <2>4, <2>5
  <2>7. CallType'
    BY <1>8, <2>6 DEF OperationAudited, Becomes, CallType, CallShape, GrantsTypes, TrailType, Call
  <2> QED  BY <1>8, <2>6, <2>7 DEF OperationAudited, GrantsTypes
<1>9. ASSUME NEW t \in Targets, Deploys(t)
      PROVE  GrantsTypes'
  <2>1. released[t] \in Versions /\ released[t] < LastVersion
    BY <1>9 DEF Deploys, GrantsTypes
  <2>2. released[t] + 1 \in Versions
    BY <2>1, GrantsConstants DEF Versions
  <2> QED  BY <1>9, <2>2 DEF Deploys, GrantsTypes, TrailType, CallType, CallShape
<1>10. ASSUME NEW t \in Targets, RowDeleted(t)
       PROVE  GrantsTypes'
  BY <1>10 DEF RowDeleted, GrantsTypes, TrailType, CallType, CallShape
<1>11. ASSUME ClockTicks
       PROVE  GrantsTypes'
  <2>1. clock + 1 \in Ages
    BY <1>11, GrantsConstants DEF ClockTicks, GrantsTypes, Ages
  <2>2. CallType'
    <3>1. ASSUME NEW c \in PortalCalls, CallShape(call[c])
          PROVE  CallShape(call[c])'
      <4>1. call[c].at \in Nat /\ clock \in Nat
        BY <3>1, GrantsConstants DEF CallShape, Call, GrantsTypes
      <4> QED  BY <1>11, <3>1, <4>1 DEF ClockTicks, CallShape
    <3> QED  BY <1>11, <3>1 DEF ClockTicks, CallType, GrantsTypes
  <2> QED  BY <1>11, <2>1, <2>2 DEF ClockTicks, GrantsTypes, TrailType
<1> QED  BY <1>1, <1>3, <1>4, <1>5, <1>6, <1>7, <1>8, <1>9, <1>10, <1>11, GrantSteps

-----------------------------------------------------------------------------
(* Firmware grants: rows and trail.                                        *)

(* A grant of t in the trail that nothing after it replaces or revokes.    *)
Standing(g, t) ==
  /\ trail[g].event = "CREATED" /\ trail[g].target = t
  /\ \A k \in (g + 1)..Len(trail) : trail[k].event \in {"CREATED", "REVOKED"} => trail[k].target # t

(* It is the row, or DynamoDB has deleted that, since it had expired, and  *)
(* before the invocations under way began.                                 *)
IsRow(g, t) ==
  /\ grants[t].status = "ACTIVE"
  /\ grants[t].version = trail[g].version /\ grants[t].expiresAt = trail[g].expiresAt
WasDeleted(g, t) ==
  /\ grants[t].status = "none" /\ trail[g].expiresAt <= clock
  /\ \A c \in PortalCalls : call[c].stage # "none" => trail[g].expiresAt <= call[c].at

StandingIsRow(t) ==
  \A g \in DOMAIN trail : Standing(g, t) => IsRow(g, t) \/ WasDeleted(g, t)
RowIsStanding(t) ==
  grants[t].status = "ACTIVE" => \E g \in DOMAIN trail : Standing(g, t) /\ IsRow(g, t)
RowsInv == \A t \in Targets : StandingIsRow(t) /\ RowIsStanding(t)

(* A recovery is of no release.                                            *)
RecoveryInv ==
  /\ released[Recovery] = 0
  /\ grants[Recovery].status = "ACTIVE" => grants[Recovery].version = 0
  /\ \A c \in PortalCalls : call[c].stage # "none" => call[c].releases[Recovery] = 0

(* What a request has found was granted.                                   *)
Backed(r, t) ==
  \E g \in DOMAIN trail :
    /\ Granted(g, t, r)
    /\ \A k \in (g + 1)..r.since : trail[k].event = "REVOKED" => trail[k].target # t

(* What it has read and not found does not stand.                          *)
Recovers(r) ==
  /\ \A i \in DOMAIN r.found : r.found[i] = Recovery
  /\ \A i \in DOMAIN r.targets : r.targets[i] = Recovery
Passed(r, t) ==
  \/ \E i \in DOMAIN r.targets : r.targets[i] = t
  \/ \E i \in DOMAIN r.found : r.found[i] = t
  \/ \A g \in 1..r.since : ~(Granted(g, t, r) /\ Standing(g, t))
ReadsInv(r) ==
  /\ \A i \in DOMAIN r.found : Backed(r, r.found[i])
  /\ Recovers(r) \/ \A t \in FirmwareTargets : Passed(r, t)
RequestsInv == \A c \in PortalCalls : call[c].stage # "none" => ReadsInv(call[c])

GrantsInv ==
  GrantsTypes /\ RowsInv /\ RecoveryInv /\ RequestsInv
    /\ OperationIsGranted /\ AmbiguityFailsClosed

-----------------------------------------------------------------------------
LEMMA CreatedFields ==
  ASSUME GrantsTypes, NEW g \in DOMAIN trail, trail[g].event = "CREATED"
  PROVE  /\ trail[g].version \in Versions /\ trail[g].expiresAt \in Nat
         /\ trail[g].target \in Targets
<1>1. trail[g] \in Event
  BY DEF GrantsTypes, TrailType
<1>2. trail[g] \in [event: {"CREATED"}, target: Targets, version: Versions, expiresAt: Nat]
  BY <1>1 DEF Event
<1> QED  BY <1>2

LEMMA RowFields ==
  ASSUME GrantsTypes, NEW t \in Targets
  PROVE  /\ grants[t].status \in {"none", "ACTIVE", "REVOKED"}
         /\ grants[t] = NoGrant <=> grants[t].status = "none"
         /\ grants[t].status # "none" => grants[t].version \in Versions /\ grants[t].expiresAt \in Nat
BY DEF GrantsTypes, Grant, NoGrant

LEMMA CallFields ==
  ASSUME GrantsTypes, NEW c \in PortalCalls
  PROVE  /\ call[c] = NoCall <=> call[c].stage = "none"
         /\ call[c].stage # "none" =>
              /\ CallShape(call[c]) /\ call[c].at \in Nat /\ call[c].since \in Nat
              /\ call[c].targets \in Seq(Targets) /\ call[c].found \in Seq(Targets)
              /\ call[c].releases \in [Targets -> Versions]
<1>1. call[c] = NoCall \/ CallShape(call[c])
  BY DEF GrantsTypes, CallType
<1>2. NoCall.stage = "none"
  BY DEF NoCall
<1> QED  BY <1>1, <1>2, GrantsConstants DEF CallShape, Call

(* A request with one target read.                                         *)
LEMMA ReadStep ==
  ASSUME GrantsTypes, NEW c \in PortalCalls, ReadsGrant(c)
  PROVE  LET r == call[c]
             t == Head(r.targets)
         IN \E q : /\ call' = [call EXCEPT ![c] = q]
                  /\ \/ q = NoCall
                     \/ /\ q \in Call /\ q.stage \in {"read", "audit"}
                        /\ q.at = r.at /\ q.since = r.since /\ q.releases = r.releases
                        /\ q.targets = Tail(r.targets)
                        /\ q.found = IF Matches(t, r) THEN Append(r.found, t) ELSE r.found
<1> DEFINE r == call[c]
           t == Head(r.targets)
           found == IF Matches(t, r) THEN Append(r.found, t) ELSE r.found
           goes == [r EXCEPT !.targets = Tail(@), !.found = found]
           audits == [r EXCEPT !.stage = "audit", !.targets = <<>>, !.found = found]
<1>1. r.stage = "read"
  BY DEF ReadsGrant
<1>2. CallShape(r) /\ r.targets \in Seq(Targets) /\ r.found \in Seq(Targets)
  BY <1>1, CallFields
<1>3. r \in Call /\ r.targets # <<>>
  BY <1>1, <1>2 DEF CallShape
<1>4. t \in Targets
  BY <1>2, <1>3, Remaining
<1>5. found \in Seq(Targets)
  BY <1>2, <1>4
<1>6. goes \in Call /\ audits \in Call
  BY <1>1, <1>3, <1>5, CallGoesOn
<1>7. ~(Len(r.targets) > 1) => Tail(r.targets) = <<>>
  <2>1. Len(r.targets) \in Nat \ {0} /\ Len(Tail(r.targets)) = Len(r.targets) - 1
        /\ Tail(r.targets) \in Seq(Targets)
    BY <1>2, <1>3, HeadTailProperties, EmptySeq
  <2> QED  BY <2>1, EmptySeq
<1>8. /\ goes.at = r.at /\ goes.since = r.since /\ goes.releases = r.releases
      /\ goes.targets = Tail(r.targets) /\ goes.found = found /\ goes.stage = r.stage
  BY <1>3 DEF Call
<1>9. /\ audits.at = r.at /\ audits.since = r.since /\ audits.releases = r.releases
      /\ audits.targets = <<>> /\ audits.found = found /\ audits.stage = "audit"
  BY <1>3 DEF Call
<1>10. \E q \in {goes, audits, NoCall} :
         /\ call' = [call EXCEPT ![c] = q]
         /\ q = goes \/ q = NoCall \/ (q = audits /\ ~(Len(r.targets) > 1))
  BY DEF ReadsGrant, Becomes
<1> HIDE DEF goes, audits
<1> QED  BY <1>1, <1>6, <1>7, <1>8, <1>9, <1>10

(* The trail with one event more.                                          *)
LEMMA Appended ==
  ASSUME GrantsTypes, NEW e \in Event, trail' = Append(trail, e)
  PROVE  /\ Len(trail) \in Nat /\ Len(trail') = Len(trail) + 1
         /\ DOMAIN trail = 1..Len(trail) /\ DOMAIN trail' = 1..(Len(trail) + 1)
         /\ \A k \in 1..Len(trail) : trail'[k] = trail[k]
         /\ trail'[Len(trail) + 1] = e
BY TrailGrows DEF GrantsTypes, TrailType

LEMMA StandingThen ==
  ASSUME GrantsTypes, NEW e \in Event, trail' = Append(trail, e),
         NEW g \in DOMAIN trail, NEW t
  PROVE  Standing(g, t)' <=>
           Standing(g, t) /\ (e.event \in {"CREATED", "REVOKED"} => e.target # t)
<1>1. /\ Len(trail) \in Nat /\ Len(trail') = Len(trail) + 1
      /\ DOMAIN trail = 1..Len(trail)
      /\ \A k \in 1..Len(trail) : trail'[k] = trail[k]
      /\ trail'[Len(trail) + 1] = e
  BY Appended
<1>2. (g + 1)..(Len(trail) + 1) = ((g + 1)..Len(trail)) \cup {Len(trail) + 1}
  BY <1>1
<1>3. \A k \in (g + 1)..Len(trail) : k \in 1..Len(trail)
  BY <1>1
<1> QED  BY <1>1, <1>2, <1>3 DEF Standing

(* An event that is neither a grant nor a revocation changes no row.       *)
LEMMA RowsKeptByOthers ==
  ASSUME GrantsTypes, RowsInv, NEW e \in Event, e.event \notin {"CREATED", "REVOKED"},
         trail' = Append(trail, e), UNCHANGED <<clock, grants>>,
         \A c \in PortalCalls :
           call'[c].stage # "none" => call[c].stage # "none" /\ call'[c].at = call[c].at
  PROVE  RowsInv'
<1> SUFFICES ASSUME NEW t \in Targets
             PROVE  StandingIsRow(t)' /\ RowIsStanding(t)'
  BY DEF RowsInv
<1>1. /\ Len(trail) \in Nat /\ Len(trail') = Len(trail) + 1
      /\ DOMAIN trail = 1..Len(trail) /\ DOMAIN trail' = 1..(Len(trail) + 1)
      /\ \A k \in 1..Len(trail) : trail'[k] = trail[k]
      /\ trail'[Len(trail) + 1] = e
  BY Appended
<1>2. \A g \in DOMAIN trail : Standing(g, t)' <=> Standing(g, t)
  BY StandingThen
<1>3. \A g \in DOMAIN trail' \ DOMAIN trail : ~Standing(g, t)'
  BY <1>1 DEF Standing
<1>4. ASSUME NEW g \in DOMAIN trail', Standing(g, t)'
      PROVE  IsRow(g, t)' \/ WasDeleted(g, t)'
  <2>1. g \in DOMAIN trail /\ trail'[g] = trail[g]
    <3>1. g \in DOMAIN trail
      BY <1>3, <1>4
    <3> QED  BY <1>1, <3>1
  <2>2. IsRow(g, t) \/ WasDeleted(g, t)
    BY <1>2, <1>4, <2>1 DEF RowsInv, StandingIsRow
  <2> QED  BY <2>1, <2>2 DEF IsRow, WasDeleted
<1>5. RowIsStanding(t)'
  <2> SUFFICES ASSUME grants[t].status = "ACTIVE"
               PROVE  \E g \in DOMAIN trail' : Standing(g, t)' /\ IsRow(g, t)'
    BY DEF RowIsStanding
  <2>1. PICK g \in DOMAIN trail : Standing(g, t) /\ IsRow(g, t)
    BY DEF RowsInv, RowIsStanding
  <2>2. g \in DOMAIN trail' /\ IsRow(g, t)'
    BY <1>1, <2>1 DEF IsRow
  <2> QED  BY <1>2, <2>1, <2>2
<1> QED  BY <1>4, <1>5 DEF StandingIsRow

(* A transaction of an administrator for another target.                   *)
LEMMA OtherRowsKept ==
  ASSUME GrantsTypes, RowsInv, NEW u \in Targets, NEW e \in Event, e.target = u,
         trail' = Append(trail, e), UNCHANGED <<clock, call>>,
         NEW t \in Targets \ {u}, grants'[t] = grants[t]
  PROVE  StandingIsRow(t)' /\ RowIsStanding(t)'
<1>1. /\ Len(trail) \in Nat /\ Len(trail') = Len(trail) + 1
      /\ DOMAIN trail = 1..Len(trail) /\ DOMAIN trail' = 1..(Len(trail) + 1)
      /\ \A k \in 1..Len(trail) : trail'[k] = trail[k]
      /\ trail'[Len(trail) + 1] = e
  BY Appended
<1>2. \A g \in DOMAIN trail : Standing(g, t)' <=> Standing(g, t)
  BY StandingThen
<1>3. \A g \in DOMAIN trail' \ DOMAIN trail : ~Standing(g, t)'
  BY <1>1 DEF Standing
<1>4. ASSUME NEW g \in DOMAIN trail', Standing(g, t)'
      PROVE  IsRow(g, t)' \/ WasDeleted(g, t)'
  <2>1. g \in DOMAIN trail /\ trail'[g] = trail[g]
    <3>1. g \in DOMAIN trail
      BY <1>3, <1>4
    <3> QED  BY <1>1, <3>1
  <2>2. IsRow(g, t) \/ WasDeleted(g, t)
    BY <1>2, <1>4, <2>1 DEF RowsInv, StandingIsRow
  <2> QED  BY <2>1, <2>2 DEF IsRow, WasDeleted
<1>5. RowIsStanding(t)'
  <2> SUFFICES ASSUME grants'[t].status = "ACTIVE"
               PROVE  \E g \in DOMAIN trail' : Standing(g, t)' /\ IsRow(g, t)'
    BY DEF RowIsStanding
  <2>1. PICK g \in DOMAIN trail : Standing(g, t) /\ IsRow(g, t)
    BY DEF RowsInv, RowIsStanding
  <2>2. g \in DOMAIN trail' /\ IsRow(g, t)'
    BY <1>1, <2>1 DEF IsRow
  <2> QED  BY <1>2, <2>1, <2>2
<1> QED  BY <1>4, <1>5 DEF StandingIsRow

(* A grant is the row, and is the newest event of its target.              *)
LEMMA RowsKeptByGrant ==
  ASSUME GrantsTypes, RowsInv, NEW u \in Targets, GrantPut(u), UNCHANGED <<clock, call>>
  PROVE  RowsInv'
<1>1. PICK version \in Versions, expiresAt \in Nat :
        /\ grants' = [grants EXCEPT ![u] = [status |-> "ACTIVE", version |-> version,
                                            expiresAt |-> expiresAt]]
        /\ trail' = Append(trail, Created(u, version, expiresAt))
  BY DEF GrantPut
<1> DEFINE e == Created(u, version, expiresAt)
<1>2. /\ e \in Event /\ e.target = u /\ e.event = "CREATED"
      /\ e.version = version /\ e.expiresAt = expiresAt
  BY DEF Created, Event
<1>3. trail' = Append(trail, e)
  BY <1>1
<1>4. /\ Len(trail) \in Nat /\ Len(trail') = Len(trail) + 1
      /\ DOMAIN trail = 1..Len(trail) /\ DOMAIN trail' = 1..(Len(trail) + 1)
      /\ trail'[Len(trail) + 1] = e
  BY <1>2, <1>3, Appended
<1>5. grants'[u].status = "ACTIVE" /\ grants'[u].version = version /\ grants'[u].expiresAt = expiresAt
      /\ \A t \in Targets \ {u} : grants'[t] = grants[t]
  BY <1>1 DEF GrantsTypes
<1> HIDE DEF e
<1>6. ASSUME NEW t \in Targets \ {u}
      PROVE  StandingIsRow(t)' /\ RowIsStanding(t)'
  BY <1>2, <1>3, <1>5, OtherRowsKept
<1>7. \A g \in DOMAIN trail' \ DOMAIN trail : IsRow(g, u)' /\ Standing(g, u)'
  <2> SUFFICES ASSUME NEW g \in DOMAIN trail' \ DOMAIN trail
               PROVE  IsRow(g, u)' /\ Standing(g, u)'
    OBVIOUS
  <2>1. g = Len(trail') /\ trail'[g] = e /\ Len(trail') \in Nat
    BY <1>4
  <2>2. IsRow(g, u)'
    BY <1>2, <1>5, <2>1 DEF IsRow
  <2>3. Standing(g, u)'
    BY <1>2, <2>1 DEF Standing
  <2> QED  BY <2>2, <2>3
<1>8. \A g \in DOMAIN trail : ~Standing(g, u)'
  BY <1>2, <1>3, StandingThen
<1>9. Len(trail) + 1 \in DOMAIN trail' \ DOMAIN trail
  BY <1>4
<1>10. StandingIsRow(u)' /\ RowIsStanding(u)'
  <2>1. \E g \in DOMAIN trail' : Standing(g, u)' /\ IsRow(g, u)'
    BY <1>7, <1>9
  <2>2. \A g \in DOMAIN trail' : Standing(g, u)' => IsRow(g, u)'
    BY <1>7, <1>8
  <2> QED  BY <2>1, <2>2 DEF StandingIsRow, RowIsStanding
<1> QED  BY <1>6, <1>10 DEF RowsInv

(* After a revocation nothing of the target stands.                        *)
LEMMA RowsKeptByRevocation ==
  ASSUME GrantsTypes, RowsInv, NEW u \in Targets, GrantTaken(u), UNCHANGED <<clock, call>>
  PROVE  RowsInv'
<1> DEFINE e == Revoked(u)
<1>1. e \in Event /\ e.target = u /\ e.event = "REVOKED" /\ trail' = Append(trail, e)
  BY DEF GrantTaken, Revoked, Event
<1>2. /\ Len(trail) \in Nat /\ Len(trail') = Len(trail) + 1
      /\ DOMAIN trail = 1..Len(trail) /\ DOMAIN trail' = 1..(Len(trail) + 1)
      /\ trail'[Len(trail) + 1] = e
  BY <1>1, Appended
<1>3. grants'[u].status = "REVOKED" /\ \A t \in Targets \ {u} : grants'[t] = grants[t]
  BY DEF GrantTaken, GrantsTypes, Grant
<1> HIDE DEF e
<1>4. ASSUME NEW t \in Targets \ {u}
      PROVE  StandingIsRow(t)' /\ RowIsStanding(t)'
  BY <1>1, <1>3, OtherRowsKept
<1>5. \A g \in DOMAIN trail : ~Standing(g, u)'
  BY <1>1, StandingThen
<1>6. \A g \in DOMAIN trail' \ DOMAIN trail : ~Standing(g, u)'
  BY <1>1, <1>2 DEF Standing
<1>7. StandingIsRow(u)' /\ RowIsStanding(u)'
  <2>1. \A g \in DOMAIN trail' : ~Standing(g, u)'
    BY <1>5, <1>6
  <2> QED  BY <1>3, <2>1 DEF StandingIsRow, RowIsStanding
<1> QED  BY <1>4, <1>7 DEF RowsInv

(* Steps that leave the trail.                                             *)
LEMMA RowsKeptBesides ==
  ASSUME GrantsTypes, RowsInv, UNCHANGED trail, clock' >= clock, clock' \in Nat,
         \A t \in Targets :
           \/ grants'[t] = grants[t]
           \/ /\ grants'[t].status = "none" /\ grants[t].expiresAt <= clock
              /\ grants[t].status # "none"
              /\ \A c \in PortalCalls : call'[c].stage = "none",
         \A c \in PortalCalls :
           call'[c].stage # "none" =>
             \/ call[c].stage # "none" /\ call'[c].at = call[c].at
             \/ call'[c].at = clock
  PROVE  RowsInv'
<1> SUFFICES ASSUME NEW t \in Targets
             PROVE  StandingIsRow(t)' /\ RowIsStanding(t)'
  BY DEF RowsInv
<1>1. \A g \in DOMAIN trail : Standing(g, t)' <=> Standing(g, t)
  BY DEF Standing
<1>2. ASSUME NEW g \in DOMAIN trail, Standing(g, t)
      PROVE  IsRow(g, t)' \/ WasDeleted(g, t)'
  <2>1. trail[g].expiresAt \in Nat /\ clock \in Nat
    BY <1>2, CreatedFields, GrantsConstants DEF Standing, GrantsTypes
  <2>2. CASE IsRow(g, t) /\ grants'[t] = grants[t]
    BY <2>2 DEF IsRow
  <2>3. CASE IsRow(g, t) /\ grants'[t] # grants[t]
    <3>1. grants'[t].status = "none" /\ trail[g].expiresAt <= clock
          /\ \A c \in PortalCalls : call'[c].stage = "none"
      BY <2>3 DEF IsRow
    <3>2. trail[g].expiresAt <= clock'
      BY <2>1, <3>1
    <3> QED  BY <3>1, <3>2 DEF WasDeleted
  <2>4. CASE WasDeleted(g, t)
    <3>1. grants'[t].status = "none"
      BY <2>4 DEF WasDeleted
    <3>2. trail[g].expiresAt <= clock'
      BY <2>1, <2>4 DEF WasDeleted
    <3>3. ASSUME NEW c \in PortalCalls, call'[c].stage # "none"
          PROVE  trail[g].expiresAt <= call'[c].at
      BY <2>4, <3>3 DEF WasDeleted
    <3> QED  BY <3>1, <3>2, <3>3 DEF WasDeleted
  <2> QED  BY <1>2, <2>2, <2>3, <2>4 DEF RowsInv, StandingIsRow
<1>3. RowIsStanding(t)'
  <2> SUFFICES ASSUME grants'[t].status = "ACTIVE"
               PROVE  \E g \in DOMAIN trail' : Standing(g, t)' /\ IsRow(g, t)'
    BY DEF RowIsStanding
  <2>1. grants'[t] = grants[t]
    OBVIOUS
  <2>2. PICK g \in DOMAIN trail : Standing(g, t) /\ IsRow(g, t)
    BY <2>1 DEF RowsInv, RowIsStanding
  <2>3. IsRow(g, t)'
    BY <2>1, <2>2 DEF IsRow
  <2> QED  BY <1>1, <2>2, <2>3
<1> QED  BY <1>1, <1>2, <1>3 DEF StandingIsRow

(* Every step keeps the rows and the trail in accord.                      *)
LEMMA RowsKept ==
  ASSUME GrantsTypes, RowsInv, [GrantsNext]_grantVars
  PROVE  RowsInv'
<1>1. ASSUME UNCHANGED grantVars
      PROVE  RowsInv'
  BY <1>1 DEF RowsInv, StandingIsRow, RowIsStanding, Standing, IsRow, WasDeleted, grantVars
<1>2. ASSUME NEW t \in Targets, ResultPut(t), UNCHANGED <<clock, released, call>>
      PROVE  RowsInv'
  <2>1. Result(t) \in Event /\ Result(t).event = "RESULT"
    BY DEF Result, Event
  <2> QED  BY <1>2, <2>1, RowsKeptByOthers DEF ResultPut
<1>3. clock \in Nat
  BY GrantsConstants DEF GrantsTypes
<1>4. ASSUME NEW c \in PortalCalls, DownloadBegins(c) \/ RecoveryBegins(c)
      PROVE  RowsInv'
  <2>1. PICK targets : call' = [call EXCEPT ![c] = Begun(targets)]
    BY <1>4 DEF DownloadBegins, RecoveryBegins, Becomes
  <2>2. UNCHANGED <<clock, grants, trail>>
    BY <1>4 DEF DownloadBegins, RecoveryBegins, OnlyCall
  <2>3. ASSUME NEW d \in PortalCalls, call'[d].stage # "none"
        PROVE  \/ call[d].stage # "none" /\ call'[d].at = call[d].at
               \/ call'[d].at = clock
    BY <2>1, <2>3 DEF Begun, GrantsTypes, CallType
  <2> QED  BY <1>3, <2>2, <2>3, RowsKeptBesides
<1>5. ASSUME NEW c \in PortalCalls, ReadsGrant(c)
      PROVE  RowsInv'
  <2>1. UNCHANGED <<clock, grants, trail>>
    BY <1>5 DEF ReadsGrant, OnlyCall
  <2>2. call[c].stage # "none" /\ call[c] \in Call
    BY <1>5, CallFields DEF ReadsGrant, CallShape
  <2>3. ASSUME NEW d \in PortalCalls, call'[d].stage # "none"
        PROVE  call[d].stage # "none" /\ call'[d].at = call[d].at
    <3>1. CASE d # c
      BY <1>5, <2>3, <3>1 DEF ReadsGrant, Becomes, GrantsTypes, CallType
    <3>2. CASE d = c
      <4>1. PICK q : call' = [call EXCEPT ![c] = q] /\ (q = NoCall \/ q.at = call[c].at)
        BY <1>5, ReadStep
      <4> QED  BY <2>2, <2>3, <3>2, <4>1 DEF NoCall, GrantsTypes, CallType
    <3> QED  BY <3>1, <3>2
  <2> QED  BY <1>3, <2>1, <2>3, RowsKeptBesides
<1>6. ASSUME NEW c \in PortalCalls, OperationAudited(c)
      PROVE  RowsInv'
  <2>1. call[c].stage = "audit"
    BY <1>6 DEF OperationAudited
  <2>2. CallShape(call[c])
    BY <2>1, CallFields
  <2>3. Head(call[c].found) \in Targets
    BY <2>1, <2>2 DEF CallShape, Call
  <2>4. Authorized(call[c]) \in Event /\ Authorized(call[c]).event = "AUTHORIZED"
    BY <2>2, <2>3 DEF Authorized, Event, CallShape, Call
  <2>5. trail' = Append(trail, Authorized(call[c])) /\ UNCHANGED <<clock, grants>>
    BY <1>6 DEF OperationAudited, Authorized
  <2>6. \A d \in PortalCalls : call'[d].stage # "none" =>
          call[d].stage # "none" /\ call'[d].at = call[d].at
    BY <1>6 DEF OperationAudited, Becomes, NoCall, GrantsTypes, CallType
  <2> QED  BY <2>4, <2>5, <2>6, RowsKeptByOthers
<1>7. ASSUME NEW t \in Targets, Deploys(t)
      PROVE  RowsInv'
  BY <1>3, <1>7, RowsKeptBesides DEF Deploys
<1>8. ASSUME NEW t \in Targets, RowDeleted(t)
      PROVE  RowsInv'
  <2>1. /\ grants[t].status # "none" /\ grants[t].expiresAt <= clock
        /\ \A u \in Targets \ {t} : grants'[u] = grants[u]
        /\ grants'[t] = NoGrant /\ UNCHANGED <<clock, trail, call>>
    BY <1>8, RowFields DEF RowDeleted, GrantsTypes
  <2>2. \A c \in PortalCalls : call'[c].stage = "none"
    BY <1>8 DEF RowDeleted, NoCall
  <2>3. grants'[t].status = "none"
    BY <2>1 DEF NoGrant
  <2> QED  BY <1>3, <2>1, <2>2, <2>3, RowsKeptBesides
<1>9. ASSUME ClockTicks
      PROVE  RowsInv'
  BY <1>3, <1>9, RowsKeptBesides DEF ClockTicks
<1> QED  BY <1>1, <1>2, <1>4, <1>5, <1>6, <1>7, <1>8, <1>9, GrantSteps, RowsKeptByGrant,
            RowsKeptByRevocation

(* No release of the recovery's target is ever deployed.                   *)
LEMMA RecoveryKept ==
  ASSUME GrantsTypes, RecoveryInv, [GrantsNext]_grantVars
  PROVE  RecoveryInv'
<1>1. ASSUME UNCHANGED grantVars
      PROVE  RecoveryInv'
  BY <1>1 DEF RecoveryInv, grantVars
<1>2. ASSUME NEW t \in Targets, GrantPut(t), UNCHANGED <<clock, released, call>>
      PROVE  RecoveryInv'
  BY <1>2, GrantsConstants DEF GrantPut, RecoveryInv, GrantsTypes
<1>3. ASSUME NEW t \in Targets, GrantTaken(t), UNCHANGED <<clock, released, call>>
      PROVE  RecoveryInv'
  <2>1. grants'[t].status = "REVOKED" /\ \A u \in Targets \ {t} : grants'[u] = grants[u]
    BY <1>3 DEF GrantTaken, GrantsTypes, Grant
  <2> QED  BY <1>3, <2>1, GrantsConstants DEF RecoveryInv
<1>4. ASSUME NEW t \in Targets, ResultPut(t), UNCHANGED <<clock, released, call>>
      PROVE  RecoveryInv'
  BY <1>4 DEF ResultPut, RecoveryInv
<1>5. ASSUME NEW c \in PortalCalls, NEW q, call' = [call EXCEPT ![c] = q],
             q.stage # "none" => q.releases[Recovery] = 0, UNCHANGED <<released, grants>>
      PROVE  RecoveryInv'
  BY <1>5 DEF RecoveryInv, GrantsTypes, CallType
<1>6. ASSUME NEW c \in PortalCalls, DownloadBegins(c) \/ RecoveryBegins(c)
      PROVE  RecoveryInv'
  <2>1. PICK targets : call' = [call EXCEPT ![c] = Begun(targets)]
    BY <1>6 DEF DownloadBegins, RecoveryBegins, Becomes
  <2>2. Begun(targets).releases[Recovery] = 0
    BY DEF Begun, RecoveryInv
  <2> QED  BY <1>5, <1>6, <2>1, <2>2 DEF DownloadBegins, RecoveryBegins, OnlyCall
<1>7. ASSUME NEW c \in PortalCalls, ReadsGrant(c)
      PROVE  RecoveryInv'
  <2>1. call[c].stage # "none" /\ call[c] \in Call
    BY <1>7, CallFields DEF ReadsGrant, CallShape
  <2>2. PICK q : /\ call' = [call EXCEPT ![c] = q]
                 /\ q = NoCall \/ q.releases = call[c].releases
    BY <1>7, ReadStep
  <2>3. q.stage # "none" => q.releases[Recovery] = 0
    BY <2>1, <2>2 DEF NoCall, RecoveryInv
  <2> QED  BY <1>5, <1>7, <2>2, <2>3 DEF ReadsGrant, OnlyCall
<1>8. ASSUME NEW c \in PortalCalls, OperationAudited(c)
      PROVE  RecoveryInv'
  BY <1>5, <1>8 DEF OperationAudited, Becomes, NoCall
<1>9. ASSUME NEW t \in Targets, Deploys(t)
      PROVE  RecoveryInv'
  BY <1>9, GrantsConstants DEF Deploys, RecoveryInv, GrantsTypes
<1>10. ASSUME NEW t \in Targets, RowDeleted(t)
       PROVE  RecoveryInv'
  BY <1>10 DEF RowDeleted, RecoveryInv, GrantsTypes, NoGrant
<1>11. ASSUME ClockTicks
       PROVE  RecoveryInv'
  BY <1>11 DEF ClockTicks, RecoveryInv
<1> QED  BY <1>1, <1>2, <1>3, <1>4, <1>6, <1>7, <1>8, <1>9, <1>10, <1>11, GrantSteps

-----------------------------------------------------------------------------
(* Firmware grants: requests.                                              *)

(* The trail has not lost or changed an event.                             *)
TrailIsKept ==
  /\ DOMAIN trail \subseteq DOMAIN trail' /\ Len(trail) <= Len(trail')
  /\ \A k \in DOMAIN trail : trail'[k] = trail[k]

LEMMA TrailSteps ==
  ASSUME GrantsTypes, [GrantsNext]_grantVars
  PROVE  TrailIsKept
<1>1. ASSUME NEW e \in Event, trail' = Append(trail, e)
      PROVE  TrailIsKept
  BY <1>1, Appended DEF TrailIsKept
<1>2. ASSUME trail' = trail
      PROVE  TrailIsKept
  BY <1>2 DEF TrailIsKept, GrantsTypes, TrailType
<1>3. ASSUME NEW t \in Targets, GrantPut(t) \/ GrantTaken(t) \/ ResultPut(t)
      PROVE  TrailIsKept
  <2>1. \E e \in Event : trail' = Append(trail, e)
    BY <1>3 DEF GrantPut, GrantTaken, ResultPut, Created, Revoked, Result, Event
  <2> QED  BY <1>1, <2>1
<1>4. ASSUME NEW c \in PortalCalls, OperationAudited(c)
      PROVE  TrailIsKept
  <2>1. call[c].stage = "audit" /\ CallShape(call[c])
    BY <1>4, CallFields DEF OperationAudited
  <2>2. Head(call[c].found) \in Targets
    BY <2>1 DEF CallShape, Call
  <2>3. Authorized(call[c]) \in Event
    BY <2>1, <2>2 DEF Authorized, Event, CallShape, Call
  <2>4. trail' = Append(trail, Authorized(call[c]))
    BY <1>4 DEF OperationAudited, Authorized
  <2> QED  BY <1>1, <2>3, <2>4
<1> QED  BY <1>2, <1>3, <1>4, GrantSteps
         DEF grantVars, DownloadBegins, RecoveryBegins, ReadsGrant, OnlyCall, Deploys, RowDeleted,
             ClockTicks

(* Of a trail that grows: what was granted stays so, and what did not      *)
(* stand does not stand later.                                             *)
LEMMA GrantedStays ==
  ASSUME GrantsTypes, GrantsTypes', TrailIsKept, NEW g \in DOMAIN trail, NEW t, NEW r
  PROVE  /\ Granted(g, t, r)' <=> Granted(g, t, r)
         /\ Standing(g, t)' => Standing(g, t)
<1>1. trail'[g] = trail[g]
  BY DEF TrailIsKept
<1>2. Granted(g, t, r)' <=> Granted(g, t, r)
  BY <1>1 DEF Granted
<1>3. DOMAIN trail = 1..Len(trail) /\ Len(trail) \in Nat /\ Len(trail') \in Nat
  BY DEF GrantsTypes, TrailType
<1>4. ASSUME Standing(g, t)', NEW k \in (g + 1)..Len(trail)
      PROVE  trail[k].event \in {"CREATED", "REVOKED"} => trail[k].target # t
  <2>1. k \in DOMAIN trail /\ k \in (g + 1)..Len(trail')
    BY <1>3, <1>4 DEF TrailIsKept
  <2> QED  BY <1>4, <2>1 DEF Standing, TrailIsKept
<1> QED  BY <1>1, <1>2, <1>4 DEF Standing

LEMMA ReadsStay ==
  ASSUME GrantsTypes, GrantsTypes', TrailIsKept, NEW r, ReadsInv(r),
         r.since \in Nat, r.since <= Len(trail)
  PROVE  ReadsInv(r)'
<1>1. DOMAIN trail = 1..Len(trail) /\ Len(trail) \in Nat
  BY DEF GrantsTypes, TrailType
<1>2. ASSUME NEW t, Backed(r, t)
      PROVE  Backed(r, t)'
  <2>1. PICK g \in DOMAIN trail :
          /\ Granted(g, t, r)
          /\ \A k \in (g + 1)..r.since : trail[k].event = "REVOKED" => trail[k].target # t
    BY <1>2 DEF Backed
  <2>2. g \in DOMAIN trail' /\ Granted(g, t, r)'
    BY <2>1, GrantedStays DEF TrailIsKept
  <2>3. \A k \in (g + 1)..r.since : trail'[k] = trail[k]
    BY <1>1 DEF TrailIsKept
  <2> QED  BY <2>1, <2>2, <2>3 DEF Backed
<1>3. ASSUME NEW t, Passed(r, t)
      PROVE  Passed(r, t)'
  <2>1. \A g \in 1..r.since : g \in DOMAIN trail
    BY <1>1
  <2> QED  BY <1>3, <2>1, GrantedStays DEF Passed
<1> QED  BY <1>2, <1>3 DEF ReadsInv, Recovers

(* What a request reads: a match is a grant of the trail, and what does    *)
(* not match does not stand.                                               *)
LEMMA MatchIsBacked ==
  ASSUME GrantsTypes, RowsInv, RecoveryInv, NEW c \in PortalCalls, call[c].stage # "none",
         NEW t \in Targets, Matches(t, call[c])
  PROVE  Backed(call[c], t)
<1> DEFINE r == call[c]
<1>1. /\ r.at \in Nat /\ r.since \in Nat /\ r.since <= Len(trail)
  BY CallFields DEF CallShape
<1>2. /\ grants[t].status = "ACTIVE" /\ grants[t].expiresAt > r.at
      /\ t # Recovery => grants[t].version = r.releases[t]
  BY DEF Matches, RecoveryActive
<1>3. grants[t].version = r.releases[t]
  BY <1>2 DEF RecoveryInv
<1>4. PICK g \in DOMAIN trail : Standing(g, t) /\ IsRow(g, t)
  BY <1>2 DEF RowsInv, RowIsStanding
<1>5. Granted(g, t, r)
  BY <1>2, <1>3, <1>4 DEF Granted, Standing, IsRow
<1>6. Len(trail) \in Nat /\ DOMAIN trail = 1..Len(trail)
  BY DEF GrantsTypes, TrailType
<1>7. \A k \in (g + 1)..r.since : k \in (g + 1)..Len(trail)
  BY <1>1, <1>6
<1>8. \A k \in (g + 1)..r.since : trail[k].event = "REVOKED" => trail[k].target # t
  BY <1>4, <1>7 DEF Standing
<1> QED  BY <1>5, <1>8 DEF Backed

LEMMA NoMatchIsPassed ==
  ASSUME GrantsTypes, RowsInv, NEW c \in PortalCalls, call[c].stage # "none",
         NEW t \in FirmwareTargets, ~Matches(t, call[c]),
         NEW g \in DOMAIN trail, Granted(g, t, call[c])
  PROVE  ~Standing(g, t)
<1> DEFINE r == call[c]
<1> SUFFICES ASSUME Standing(g, t)
             PROVE  FALSE
  OBVIOUS
<1>1. t \in Targets /\ t # Recovery
  BY GrantsConstants DEF Targets
<1>2. r.at \in Nat
  BY CallFields
<1>3. trail[g].expiresAt \in Nat /\ trail[g].expiresAt > r.at /\ trail[g].version = r.releases[t]
  BY CreatedFields DEF Granted
<1>4. CASE IsRow(g, t)
  <2>1. grants[t] # NoGrant
    BY <1>4 DEF IsRow, NoGrant
  <2> QED  BY <1>1, <1>3, <1>4, <2>1 DEF IsRow, Matches
<1>5. CASE WasDeleted(g, t)
  <2>1. trail[g].expiresAt <= r.at
    BY <1>5 DEF WasDeleted
  <2> QED  BY <1>2, <1>3, <2>1
<1> QED  BY <1>1, <1>4, <1>5 DEF RowsInv, StandingIsRow

(* After a read the first target is found, or does not stand.              *)
LEMMA ReadIsRight ==
  ASSUME GrantsTypes, RowsInv, RecoveryInv, NEW c \in PortalCalls, call[c].stage = "read",
         ReadsInv(call[c]), NEW q \in Call,
         q.at = call[c].at, q.since = call[c].since, q.releases = call[c].releases,
         q.targets = Tail(call[c].targets),
         q.found = IF Matches(Head(call[c].targets), call[c])
                     THEN Append(call[c].found, Head(call[c].targets)) ELSE call[c].found
  PROVE  ReadsInv(q)
<1> DEFINE r == call[c]
           t == Head(r.targets)
<1>1. /\ r.targets \in Seq(Targets) /\ r.targets # <<>> /\ r.found \in Seq(Targets)
      /\ r.since \in Nat /\ r.since <= Len(trail)
  BY CallFields DEF CallShape
<1>2. /\ t = r.targets[1] /\ t \in Targets
      /\ Len(r.targets) \in Nat \ {0} /\ DOMAIN r.targets = 1..Len(r.targets)
      /\ DOMAIN q.targets = 1..(Len(r.targets) - 1)
      /\ \A k \in 1..(Len(r.targets) - 1) : q.targets[k] = r.targets[k + 1]
  BY <1>1, Remaining
<1>3. /\ DOMAIN r.found = 1..Len(r.found) /\ Len(r.found) \in Nat
      /\ Matches(t, r) => /\ DOMAIN q.found = 1..(Len(r.found) + 1)
                          /\ \A k \in 1..Len(r.found) : q.found[k] = r.found[k]
                          /\ q.found[Len(r.found) + 1] = t
      /\ ~Matches(t, r) => q.found = r.found
  BY <1>1, <1>2
<1>4. \A g, u : Granted(g, u, q) <=> Granted(g, u, r)
  BY DEF Granted
<1>5. \A u : Backed(r, u) => Backed(q, u)
  BY <1>4 DEF Backed
<1>6. ASSUME NEW i \in DOMAIN q.found
      PROVE  Backed(q, q.found[i])
  <2>1. CASE i \in DOMAIN r.found /\ q.found[i] = r.found[i]
    BY <1>5, <2>1 DEF ReadsInv
  <2>2. CASE Matches(t, r) /\ q.found[i] = t
    BY <1>2, <1>5, <2>2, MatchIsBacked
  <2> QED  BY <1>3, <1>6, <2>1, <2>2
<1>7. ASSUME Recovers(r)
      PROVE  Recovers(q)
  <2>1. t = Recovery
    BY <1>2, <1>7 DEF Recovers
  <2>2. \A i \in DOMAIN q.targets : q.targets[i] = Recovery
    <3>1. \A i \in DOMAIN q.targets : i + 1 \in DOMAIN r.targets /\ q.targets[i] = r.targets[i + 1]
      BY <1>2
    <3> QED  BY <1>7, <3>1 DEF Recovers
  <2>3. \A i \in DOMAIN q.found : q.found[i] = Recovery
    BY <1>3, <1>7, <2>1 DEF Recovers
  <2> QED  BY <2>2, <2>3 DEF Recovers
<1>8. ASSUME NEW u \in FirmwareTargets, Passed(r, u)
      PROVE  Passed(q, u)
  <2>1. CASE \E i \in DOMAIN r.targets : r.targets[i] = u /\ i # 1
    <3>1. PICK i \in DOMAIN r.targets : r.targets[i] = u /\ i # 1
      BY <2>1
    <3>2. i - 1 \in DOMAIN q.targets /\ q.targets[i - 1] = u
      <4>1. i - 1 \in 1..(Len(r.targets) - 1) /\ (i - 1) + 1 = i
        BY <1>2, <3>1
      <4>2. q.targets[i - 1] = r.targets[(i - 1) + 1]
        BY <1>2, <4>1
      <4> QED  BY <1>2, <3>1, <4>1, <4>2
    <3> QED  BY <3>2 DEF Passed
  <2>2. CASE u = t /\ Matches(t, r)
    <3>1. Len(r.found) + 1 \in DOMAIN q.found
      BY <1>3, <2>2
    <3> QED  BY <1>3, <2>2, <3>1 DEF Passed
  <2>3. CASE u = t /\ ~Matches(t, r)
    <3>1. \A g \in 1..r.since : g \in DOMAIN trail
      BY <1>1 DEF GrantsTypes, TrailType
    <3>2. \A g \in 1..r.since : ~(Granted(g, u, r) /\ Standing(g, u))
      BY <2>3, <3>1, NoMatchIsPassed
    <3> QED  BY <1>4, <3>2 DEF Passed
  <2>4. CASE \E i \in DOMAIN r.found : r.found[i] = u
    <3>1. PICK i \in DOMAIN r.found : r.found[i] = u
      BY <2>4
    <3>2. i \in DOMAIN q.found /\ q.found[i] = u
      BY <1>3, <3>1
    <3> QED  BY <3>2 DEF Passed
  <2>5. CASE \A g \in 1..r.since : ~(Granted(g, u, r) /\ Standing(g, u))
    BY <1>4, <2>5 DEF Passed
  <2> QED  BY <1>2, <1>8, <2>1, <2>2, <2>3, <2>4, <2>5 DEF Passed
<1> QED  BY <1>6, <1>7, <1>8 DEF ReadsInv

LEMMA RequestsKept ==
  ASSUME GrantsTypes, GrantsTypes', RowsInv, RecoveryInv, RequestsInv, [GrantsNext]_grantVars
  PROVE  RequestsInv'
<1>1. TrailIsKept
  BY TrailSteps
<1>3. ASSUME NEW c \in PortalCalls, NEW r, r = call[c], r.stage # "none"
      PROVE  ReadsInv(r)'
  BY <1>1, <1>3, CallFields, ReadsStay DEF RequestsInv, CallShape
<1>4. ASSUME UNCHANGED call
      PROVE  RequestsInv'
  BY <1>3, <1>4 DEF RequestsInv
<1>5. ASSUME NEW c \in PortalCalls, NEW q, call' = [call EXCEPT ![c] = q],
             q.stage # "none" => ReadsInv(q)'
      PROVE  RequestsInv'
  <2> SUFFICES ASSUME NEW d \in PortalCalls, call'[d].stage # "none", NEW r, r = call'[d]
               PROVE  ReadsInv(r)'
    BY DEF RequestsInv
  <2>1. CASE d = c
    BY <1>5, <2>1 DEF GrantsTypes, CallType
  <2>2. CASE d # c
    <3>1. r = call[d]
      BY <1>5, <2>2 DEF GrantsTypes, CallType
    <3> QED  BY <1>3, <3>1
  <2> QED  BY <2>1, <2>2
<1>6. ASSUME NEW c \in PortalCalls, DownloadBegins(c)
      PROVE  RequestsInv'
  <2>0. PICK q : q = Begun(Catalog)
    OBVIOUS
  <2>1. call' = [call EXCEPT ![c] = q]
    BY <1>6, <2>0 DEF DownloadBegins, Becomes
  <2>2. q.found = <<>> /\ q.targets = Catalog
    BY <2>0 DEF Begun
  <2>3. \A t \in FirmwareTargets : \E i \in DOMAIN Catalog : Catalog[i] = t
    BY DEF FirmwareTargets
  <2>4. ReadsInv(q)'
    BY <2>2, <2>3 DEF ReadsInv, Passed
  <2> QED  BY <1>5, <2>1, <2>4
<1>7. ASSUME NEW c \in PortalCalls, RecoveryBegins(c)
      PROVE  RequestsInv'
  <2>0. PICK q : q = Begun(<<Recovery>>)
    OBVIOUS
  <2>1. call' = [call EXCEPT ![c] = q]
    BY <1>7, <2>0 DEF RecoveryBegins, Becomes
  <2>2. q.found = <<>> /\ q.targets = <<Recovery>>
    BY <2>0 DEF Begun
  <2>3. ReadsInv(q)'
    BY <2>2 DEF ReadsInv, Recovers
  <2> QED  BY <1>5, <2>1, <2>3
<1>8. ASSUME NEW c \in PortalCalls, ReadsGrant(c)
      PROVE  RequestsInv'
  <2>1. call[c].stage = "read"
    BY <1>8 DEF ReadsGrant
  <2>2. PICK q :
          /\ call' = [call EXCEPT ![c] = q]
          /\ \/ q = NoCall
             \/ /\ q \in Call /\ q.stage \in {"read", "audit"}
                /\ q.at = call[c].at /\ q.since = call[c].since /\ q.releases = call[c].releases
                /\ q.targets = Tail(call[c].targets)
                /\ q.found = IF Matches(Head(call[c].targets), call[c])
                               THEN Append(call[c].found, Head(call[c].targets)) ELSE call[c].found
    BY <1>8, ReadStep
  <2>3. CASE q = NoCall
    BY <1>5, <2>2, <2>3 DEF NoCall
  <2>4. CASE q # NoCall
    <3>1. ReadsInv(call[c])
      BY <2>1 DEF RequestsInv
    <3>2. ReadsInv(q)
      BY <2>1, <2>2, <2>4, <3>1, ReadIsRight
    <3>3. q.since \in Nat /\ q.since <= Len(trail)
      BY <2>1, <2>2, <2>4, CallFields DEF CallShape
    <3>4. ReadsInv(q)'
      BY <1>1, <3>2, <3>3, ReadsStay
    <3> QED  BY <1>5, <2>2, <3>4
  <2> QED  BY <2>3, <2>4
<1>9. ASSUME NEW c \in PortalCalls, OperationAudited(c)
      PROVE  RequestsInv'
  BY <1>5, <1>9 DEF OperationAudited, Becomes, NoCall
<1> QED  BY <1>4, <1>6, <1>7, <1>8, <1>9, GrantSteps
         DEF grantVars, Deploys, RowDeleted, ClockTicks

(* An operation that is audited now.                                       *)
LEMMA AuditIsRight ==
  ASSUME GrantsTypes, RequestsInv, NEW c \in PortalCalls, call[c].stage = "audit"
  PROVE  LET t == Head(call[c].found)
         IN /\ Backed(call[c], t)
            /\ \A u \in FirmwareTargets \ {t}, g \in 1..call[c].since :
                 t # Recovery => ~(Granted(g, u, call[c]) /\ Standing(g, u))
<1> DEFINE r == call[c]
           t == Head(r.found)
<1>1. /\ r.found \in Seq(Targets) /\ Len(r.found) = 1 /\ r.targets = <<>>
  BY CallFields DEF CallShape
<1>2. DOMAIN r.found = {1} /\ r.found[1] = t
  BY <1>1
<1>3. DOMAIN r.targets = {}
  BY <1>1
<1>4. ReadsInv(r)
  BY DEF RequestsInv
<1> QED  BY <1>2, <1>3, <1>4 DEF ReadsInv, Recovers, Passed

LEMMA AuditedKept ==
  ASSUME GrantsTypes, GrantsTypes', RequestsInv, OperationIsGranted, AmbiguityFailsClosed,
         [GrantsNext]_grantVars
  PROVE  (OperationIsGranted /\ AmbiguityFailsClosed)'
<1> DEFINE Allowed(d) ==
             \E g \in 1..(d - 1) :
               /\ Granted(g, trail[d].target, trail[d])
               /\ \A k \in (g + 1)..trail[d].since :
                    trail[k].event = "REVOKED" => trail[k].target # trail[d].target
           Alone(d) ==
             ~ \E t \in FirmwareTargets \ {trail[d].target}, g \in 1..trail[d].since :
                 /\ trail[d].target # Recovery
                 /\ Granted(g, t, trail[d])
                 /\ \A k \in (g + 1)..(d - 1) :
                      trail[k].event \in {"CREATED", "REVOKED"} => trail[k].target # t
           Operation(d) == trail[d].event = "AUTHORIZED"
<1>1. TrailIsKept /\ DOMAIN trail = 1..Len(trail) /\ Len(trail) \in Nat
  BY TrailSteps DEF GrantsTypes, TrailType
<1>2. ASSUME NEW d \in DOMAIN trail, Operation(d)'
      PROVE  Allowed(d)' /\ Alone(d)'
  <2>1. trail'[d] = trail[d] /\ Operation(d)
    BY <1>1, <1>2 DEF TrailIsKept
  <2>2. trail[d].since < d /\ trail[d].since \in Nat
    <3>1. trail[d] \in Event
      BY DEF GrantsTypes, TrailType
    <3>2. trail[d] \in [event: {"AUTHORIZED"}, target: Targets, at: Ages, since: Nat,
                        releases: [Targets -> Versions]]
      BY <2>1, <3>1 DEF Event
    <3> QED  BY <2>1, <3>2 DEF GrantsTypes, TrailType
  <2>3. Allowed(d) /\ Alone(d)
    BY <2>1 DEF OperationIsGranted, AmbiguityFailsClosed
  <2>4. \A k \in 1..d : trail'[k] = trail[k]
    BY <1>1 DEF TrailIsKept
  <2>6. Allowed(d)'
    <3>1. PICK g \in 1..(d - 1) :
            /\ Granted(g, trail[d].target, trail[d])
            /\ \A k \in (g + 1)..trail[d].since :
                 trail[k].event = "REVOKED" => trail[k].target # trail[d].target
      BY <2>3
    <3>2. Granted(g, trail[d].target, trail[d])'
      <4>1. trail'[g] = trail[g]
        BY <1>1, <2>4
      <4> QED  BY <2>1, <3>1, <4>1 DEF Granted
    <3>3. \A k \in (g + 1)..trail[d].since : k \in 1..d
      BY <1>1, <2>2
    <3> QED  BY <2>1, <2>4, <3>1, <3>2, <3>3
  <2>7. Alone(d)'
    <3> SUFFICES ASSUME NEW t \in FirmwareTargets \ {trail'[d].target},
                        NEW g \in 1..trail'[d].since,
                        trail'[d].target # Recovery,
                        Granted(g, t, trail[d])',
                        \A k \in (g + 1)..(d - 1) :
                          trail'[k].event \in {"CREATED", "REVOKED"} => trail'[k].target # t
                 PROVE  FALSE
      OBVIOUS
    <3>1. g \in 1..trail[d].since /\ g \in 1..d
      BY <1>1, <2>1, <2>2
    <3>2. Granted(g, t, trail[d])
      BY <2>1, <2>4, <3>1 DEF Granted
    <3>3. \A k \in (g + 1)..(d - 1) : k \in 1..d
      BY <1>1, <3>1
    <3> QED  BY <2>1, <2>3, <2>4, <3>1, <3>2, <3>3
  <2> QED  BY <2>6, <2>7
<1>3. ASSUME NEW d \in DOMAIN trail' \ DOMAIN trail, Operation(d)'
      PROVE  Allowed(d)' /\ Alone(d)'
  <2>1. ASSUME NEW e \in Event, trail' = Append(trail, e)
        PROVE  e.event = "AUTHORIZED" /\ d = Len(trail) + 1 /\ trail'[d] = e
    BY <1>3, <2>1, Appended
  <2>2. ASSUME NEW t \in Targets, GrantPut(t) \/ GrantTaken(t) \/ ResultPut(t)
        PROVE  FALSE
    <3>1. CASE GrantPut(t)
      <4>1. PICK version \in Versions, expiresAt \in Nat :
              trail' = Append(trail, Created(t, version, expiresAt))
        BY <3>1 DEF GrantPut
      <4>2. /\ Created(t, version, expiresAt) \in Event
            /\ Created(t, version, expiresAt).event = "CREATED"
        BY DEF Created, Event
      <4> QED  BY <2>1, <4>1, <4>2
    <3>2. CASE GrantTaken(t)
      <4>1. Revoked(t) \in Event /\ Revoked(t).event = "REVOKED"
        BY DEF Revoked, Event
      <4> QED  BY <2>1, <3>2, <4>1 DEF GrantTaken
    <3>3. CASE ResultPut(t)
      <4>1. Result(t) \in Event /\ Result(t).event = "RESULT"
        BY DEF Result, Event
      <4> QED  BY <2>1, <3>3, <4>1 DEF ResultPut
    <3> QED  BY <2>2, <3>1, <3>2, <3>3
  <2>3. trail' # trail
    BY <1>3
  <2>4. PICK c \in PortalCalls : OperationAudited(c)
    BY <2>2, <2>3, GrantSteps
       DEF grantVars, DownloadBegins, RecoveryBegins, ReadsGrant, OnlyCall, Deploys, RowDeleted,
           ClockTicks
  <2>5. PICK r : r = call[c]
    OBVIOUS
  <2>6. r.stage = "audit" /\ CallShape(r)
    BY <2>4, <2>5, CallFields DEF OperationAudited
  <2>7. PICK t : t = Head(r.found)
    OBVIOUS
  <2>8. t \in Targets
    BY <2>6, <2>7 DEF CallShape, Call
  <2>9. PICK e : e = Authorized(r)
    OBVIOUS
  <2>10. e \in Event /\ trail' = Append(trail, e)
    BY <2>4, <2>5, <2>6, <2>7, <2>8, <2>9
       DEF OperationAudited, Authorized, Event, CallShape, Call
  <2>11. d = Len(trail) + 1 /\ trail'[d] = e
    BY <2>1, <2>10
  <2>12. e.target = t /\ e.at = r.at /\ e.since = r.since /\ e.releases = r.releases
    BY <2>7, <2>9 DEF Authorized
  <2>13. r.since \in Nat /\ r.since <= Len(trail)
    BY <2>6 DEF CallShape, Call
  <2>14. /\ Backed(r, t)
         /\ \A u \in FirmwareTargets \ {t}, g \in 1..r.since :
              t # Recovery => ~(Granted(g, u, r) /\ Standing(g, u))
    BY <2>5, <2>6, <2>7, AuditIsRight
  <2>15. \A u : \A g \in DOMAIN trail : Granted(g, u, e)' <=> Granted(g, u, r)
    BY <1>1, <2>12 DEF Granted, TrailIsKept
  <2>16. Allowed(d)'
    <3>1. PICK g \in DOMAIN trail :
            /\ Granted(g, t, r)
            /\ \A k \in (g + 1)..r.since : trail[k].event = "REVOKED" => trail[k].target # t
      BY <2>14 DEF Backed
    <3>2. Granted(g, t, trail[d])'
      BY <2>11, <2>12, <3>1, <1>1 DEF Granted, TrailIsKept
    <3>3. g \in 1..(d - 1)
      BY <1>1, <2>11
    <3>4. \A k \in (g + 1)..r.since : k \in DOMAIN trail
      BY <1>1, <2>13
    <3>5. \A k \in (g + 1)..r.since : trail'[k].event = "REVOKED" => trail'[k].target # t
      BY <1>1, <3>1, <3>4 DEF TrailIsKept
    <3> QED  BY <2>11, <2>12, <3>2, <3>3, <3>5
  <2>17. Alone(d)'
    <3> SUFFICES ASSUME NEW u \in FirmwareTargets \ {t}, NEW g \in 1..r.since,
                        t # Recovery, Granted(g, u, e)',
                        \A k \in (g + 1)..(d - 1) :
                          trail'[k].event \in {"CREATED", "REVOKED"} => trail'[k].target # u
                 PROVE  FALSE
      BY <2>11, <2>12
    <3>1. g \in DOMAIN trail
      BY <1>1, <2>13
    <3>2. Granted(g, u, r)
      BY <2>15, <3>1
    <3>3. trail[g].event = "CREATED" /\ trail[g].target = u
      BY <3>2 DEF Granted
    <3>4. \A k \in (g + 1)..Len(trail) : k \in (g + 1)..(d - 1) /\ trail'[k] = trail[k]
      BY <1>1, <2>11 DEF TrailIsKept
    <3>5. Standing(g, u)
      BY <3>3, <3>4 DEF Standing
    <3> QED  BY <2>14, <3>2, <3>5
  <2> QED  BY <2>16, <2>17
<1>4. \A d \in DOMAIN trail' : Operation(d)' => Allowed(d)' /\ Alone(d)'
  BY <1>2, <1>3
<1> QED  BY <1>4 DEF OperationIsGranted, AmbiguityFailsClosed

-----------------------------------------------------------------------------
(* Firmware grants: the results.                                           *)

LEMMA GrantsStart == GrantsInit => GrantsInv
<1> SUFFICES ASSUME GrantsInit
             PROVE  GrantsInv
  OBVIOUS
<1>1. GrantsTypes
  BY GrantsTypesStart
<1>2. trail = <<>> /\ DOMAIN trail = {}
  BY DEF GrantsInit
<1>3. \A t \in Targets : grants[t].status = "none"
  BY DEF GrantsInit, NoGrant
<1>4. \A c \in PortalCalls : call[c].stage = "none"
  BY DEF GrantsInit, NoCall
<1>5. RowsInv
  BY <1>2, <1>3 DEF RowsInv, StandingIsRow, RowIsStanding
<1>6. RecoveryInv
  BY <1>3, <1>4, GrantsConstants DEF RecoveryInv, GrantsInit
<1>7. RequestsInv
  BY <1>4 DEF RequestsInv
<1>8. OperationIsGranted /\ AmbiguityFailsClosed
  BY <1>2 DEF OperationIsGranted, AmbiguityFailsClosed
<1> QED  BY <1>1, <1>5, <1>6, <1>7, <1>8 DEF GrantsInv

LEMMA GrantsKept == GrantsInv /\ [GrantsNext]_grantVars => GrantsInv'
BY GrantsTypesKept, RowsKept, RecoveryKept, RequestsKept, AuditedKept DEF GrantsInv

LEMMA GrantsInvariance == GrantsSpec => []GrantsInv
BY GrantsStart, GrantsKept, PTL DEF GrantsSpec

(* Rows and events have their shape.                                       *)
THEOREM GrantsTyped == GrantsSpec => []GrantsTypeOK
<1>1. GrantsInv => GrantsTypeOK
  BY DEF GrantsInv, GrantsTypes, TrailType, GrantsTypeOK
<1> QED  BY <1>1, GrantsInvariance, PTL

(* An operation that was authorised has its grant in the trail, not        *)
(* expired, of this very release, and not revoked before the request came. *)
THEOREM OperationsGranted == GrantsSpec => []OperationIsGranted
<1>1. GrantsInv => OperationIsGranted
  BY DEF GrantsInv
<1> QED  BY <1>1, GrantsInvariance, PTL

(* No download goes on while the grant of another target matches too.      *)
THEOREM AmbiguityRefused == GrantsSpec => []AmbiguityFailsClosed
<1>1. GrantsInv => AmbiguityFailsClosed
  BY DEF GrantsInv
<1> QED  BY <1>1, GrantsInvariance, PTL

-----------------------------------------------------------------------------
(* Notification preferences: types.                                        *)

PutStages == {"put-subscribe", "put-write"}
GetStages == {"get-ask", "get-write"}
PhoneStages == {"request-known", "request-create", "request-send", "request-stamp", "request-note",
                "confirm-find", "confirm-verify", "confirm-mark", "confirm-note"}
DeliveryStages == {"sms-approval", "sms-destination", "sms-count", "sms-send"}
ToolStages == {"approve", "revoke"}

Step ==
  {NotCalled}
  \cup [at: PutStages \cup GetStages, item: Preference]
  \cup [at: PhoneStages, phone: Phones]
  \cup [at: DeliveryStages, phone: Phones, since: Nat]
  \cup [at: ToolStages, phone: Phones, version: Nat]

AuditEvent == [action: {"APPROVE", "REVOKE"}, phone: Phones, version: Nat]
Text == [phone: Phones, since: Nat]

(* The types the results rest on.                                          *)
PreferenceTypes ==
  /\ PreferencesTypeOK
  /\ step \in [PreferenceRuns -> Step]
  /\ repertoire \in Repertoires
  /\ everVerified \subseteq Phones /\ everConfirmed \subseteq Emails
  /\ approvalTrail \in Seq(AuditEvent) /\ approvedAfter \in Nat
  /\ approval # NoApproval => approval.version > 0
  /\ texts \in Seq(Text)

(* What a row or an item calls confirmed was proved.                       *)
Proved(row) ==
  /\ row.smsConfirmed => row.phone \in everVerified
  /\ row.mailConfirmed => row.subscription \in everConfirmed

(* What the tables say of proofs is what users did.                        *)
ProofsInv ==
  /\ Proved(preference) /\ confirmedEmails \subseteq everConfirmed
  /\ \A p \in Phones : destination[p].status = "VERIFIED" => p \in everVerified

(* What an invocation carries from one call to the next.                   *)
ApprovedSince(p, since) ==
  \E g \in DOMAIN approvalTrail :
    g >= since /\ approvalTrail[g].action = "APPROVE" /\ approvalTrail[g].phone = p

Carries(s) ==
  /\ s.at \in PutStages \cup GetStages => Proved(s.item)
  /\ s.at \in PutStages => (s.item.smsOn => s.item.smsConfirmed)
  /\ s.at = "put-subscribe" => ~s.item.mailConfirmed /\ s.item.email \in Emails
  /\ s.at \in {"request-known", "confirm-mark", "confirm-note"} => s.phone \in everVerified
  /\ s.at \in DeliveryStages => s.phone \in everVerified /\ s.since <= Len(approvalTrail)
  /\ s.at \in DeliveryStages \ {"sms-approval"} => ApprovedSince(s.phone, s.since)
StepsInv == \A r \in PreferenceRuns : Carries(step[r])

(* The messages sent to a number and those about to be are counted.        *)
Sent(p) == {i \in DOMAIN texts : texts[i].phone = p}
Sending(p) == {r \in PreferenceRuns : At(r, "sms-send") /\ step[r].phone = p}
RateInv ==
  \A p \in Phones : Cardinality(Sent(p)) + Cardinality(Sending(p)) <= rate[p] /\ rate[p] <= RateLimit

TextsInv ==
  \A i \in DOMAIN texts :
    texts[i].phone \in everVerified /\ ApprovedSince(texts[i].phone, texts[i].since)

PreferencesInv ==
  PreferenceTypes /\ ProofsInv /\ StepsInv /\ ApprovalIsExplained /\ RateInv /\ TextsInv

-----------------------------------------------------------------------------
LEMMA Strings ==
  /\ NotCalled.at \notin PutStages \cup GetStages \cup PhoneStages \cup DeliveryStages \cup ToolStages
  /\ NotCalled \in Step
BY DEF NotCalled, PutStages, GetStages, PhoneStages, DeliveryStages, ToolStages, Step

(* The fields of an invocation, by its next call.                          *)
LEMMA StepFields ==
  ASSUME NEW s \in Step
  PROVE  /\ s.at \in PutStages \cup GetStages => s.item \in Preference
                     /\ \A next \in PutStages \cup GetStages : [s EXCEPT !.at = next] \in Step
         /\ s.at \in PhoneStages => s.phone \in Phones
                     /\ \A next \in PhoneStages : [s EXCEPT !.at = next] \in Step
         /\ s.at \in DeliveryStages => s.phone \in Phones /\ s.since \in Nat
                     /\ \A next \in DeliveryStages : [s EXCEPT !.at = next] \in Step
         /\ s.at \in ToolStages => s.phone \in Phones /\ s.version \in Nat
<1> USE DEF PutStages, GetStages, PhoneStages, DeliveryStages, ToolStages
<1>1. CASE s = NotCalled
  BY <1>1, Strings
<1>2. CASE s \in [at: PutStages \cup GetStages, item: Preference]
  BY <1>2 DEF Step
<1>3. CASE s \in [at: PhoneStages, phone: Phones]
  BY <1>3 DEF Step
<1>4. CASE s \in [at: DeliveryStages, phone: Phones, since: Nat]
  BY <1>4 DEF Step
<1>5. CASE s \in [at: ToolStages, phone: Phones, version: Nat]
  BY <1>5 DEF Step
<1> QED  BY <1>1, <1>2, <1>3, <1>4, <1>5 DEF Step

-----------------------------------------------------------------------------
(* Who writes what.                                                        *)

Act(r) == Portal(r) \/ Verification(r) \/ Delivery(r) \/ Tool(r)
Other ==
  \/ \E email \in Emails : SubscriptionConfirmed(email) \/ SubscriptionRemoved(email)
  \/ \E p \in Phones : DestinationDeleted(p) \/ MinutePasses(p)
  \/ ApprovalExpires \/ ApprovalDeleted

LEMMA Steps ==
  ASSUME [PreferencesNext]_preferenceVars
  PROVE  (\E r \in PreferenceRuns : Act(r)) \/ Other \/ UNCHANGED preferenceVars
BY DEF PreferencesNext, Act, Other

LEMMA PortalWrites ==
  ASSUME NEW r \in PreferenceRuns, Portal(r)
  PROVE  /\ UNCHANGED <<confirmedEmails, everConfirmed, destinationVars, approvalVars, smsVars,
                        repertoire>>
         /\ UNCHANGED preference \/ PutWrites(r) \/ GetWrites(r)
         /\ UNCHANGED subscribed \/ PutSubscribes(r)
BY DEF Portal, PutReads, PutSubscribes, PutWrites, GetReads, GetAsks, GetWrites, Called, OnlyReads,
       emailVars, callVars

LEMMA VerificationWrites ==
  ASSUME NEW r \in PreferenceRuns, Verification(r)
  PROVE  /\ UNCHANGED <<emailVars, approvalVars, smsVars, repertoire>>
         /\ UNCHANGED preference \/ RequestNotes(r) \/ ConfirmNotes(r)
         /\ UNCHANGED destination \/ RequestCreates(r) \/ RequestStamps(r) \/ ConfirmMarks(r)
         /\ UNCHANGED everVerified \/ ConfirmVerifies(r)
<1>1. CASE \E p \in Phones : RequestReads(r, p)
  BY <1>1 DEF RequestReads, Called, destinationVars
<1>2. CASE RequestCreates(r) \/ RequestSends(r) \/ RequestStamps(r) \/ RequestNotes(r)
  BY <1>2 DEF RequestCreates, RequestSends, RequestStamps, RequestNotes, destinationVars, callVars
<1>3. CASE ConfirmReads(r) \/ ConfirmFinds(r) \/ ConfirmVerifies(r) \/ ConfirmMarks(r)
           \/ ConfirmNotes(r)
  BY <1>3 DEF ConfirmReads, ConfirmFinds, ConfirmVerifies, ConfirmMarks, ConfirmNotes, Called,
              OnlyReads, destinationVars, callVars
<1> QED  BY <1>1, <1>2, <1>3 DEF Verification

LEMMA DeliveryWrites ==
  ASSUME NEW r \in PreferenceRuns, Delivery(r)
  PROVE  /\ UNCHANGED <<preference, emailVars, destinationVars, approvalVars, repertoire>>
         /\ UNCHANGED rate \/ DeliveryCounts(r)
         /\ UNCHANGED texts \/ DeliverySends(r)
BY DEF Delivery, DeliveryReads, DeliveryAsksApproval, DeliveryAsksDestination, DeliveryCounts,
       DeliverySends, Called, OnlyReads, smsVars, callVars

LEMMA ToolWrites ==
  ASSUME NEW r \in PreferenceRuns, Tool(r)
  PROVE  /\ UNCHANGED <<preference, emailVars, destinationVars, smsVars, repertoire>>
         /\ UNCHANGED approvalVars \/ Approves(r) \/ Revokes(r)
BY DEF Tool, ApproveReads, Approves, RevokeReads, Revokes, ToolFails, Called, OnlyReads, callVars

LEMMA OtherWrites ==
  ASSUME Other
  PROVE  /\ UNCHANGED <<preference, everVerified, smsVars, repertoire, step>>
         /\ \/ UNCHANGED emailVars
            \/ \E email \in Emails : SubscriptionConfirmed(email) \/ SubscriptionRemoved(email)
         /\ \/ UNCHANGED destination
            \/ \E p \in Phones : DestinationDeleted(p) \/ MinutePasses(p)
         /\ \/ UNCHANGED approvalVars
            \/ ApprovalExpires \/ ApprovalDeleted
BY DEF Other, SubscriptionConfirmed, SubscriptionRemoved, DestinationDeleted, MinutePasses,
       ApprovalExpires, ApprovalDeleted, emailVars, destinationVars, approvalVars, callVars

-----------------------------------------------------------------------------
(* What was proved, and what the audit says, stays.                        *)

TrailStays ==
  /\ Len(approvalTrail) <= Len(approvalTrail')
  /\ \A g \in DOMAIN approvalTrail : g \in DOMAIN approvalTrail' /\ approvalTrail'[g] = approvalTrail[g]
Grown == everVerified \subseteq everVerified' /\ everConfirmed \subseteq everConfirmed' /\ TrailStays

LEMMA EventAppended ==
  ASSUME PreferenceTypes, NEW e \in AuditEvent, approvalTrail' = Append(approvalTrail, e)
  PROVE  /\ TrailStays /\ approvalTrail' \in Seq(AuditEvent)
         /\ Len(approvalTrail') = Len(approvalTrail) + 1
         /\ approvalTrail'[Len(approvalTrail')] = e
BY DEF TrailStays, PreferenceTypes

LEMMA TrailUnchanged ==
  ASSUME PreferenceTypes, approvalTrail' = approvalTrail
  PROVE  TrailStays
BY DEF TrailStays, PreferenceTypes

LEMMA ApprovalWrites ==
  ASSUME PreferenceTypes, NEW r \in PreferenceRuns, Approves(r) \/ Revokes(r)
  PROVE  /\ step[r].phone \in Phones /\ step[r].version \in Nat
         /\ \E e \in AuditEvent : approvalTrail' = Append(approvalTrail, e)
<1>1. At(r, "approve") \/ At(r, "revoke")
  BY DEF Approves, ApproveHolds, Revokes, RevokeHolds
<1>2. step[r].phone \in Phones /\ step[r].version \in Nat
  BY <1>1, StepFields DEF PreferenceTypes, At, ToolStages
<1>3. step[r].version + 1 \in Nat
  BY <1>2
<1> QED  BY <1>2, <1>3 DEF Approves, Revokes, AuditEvent

LEMMA AlwaysGrows ==
  ASSUME PreferenceTypes, [PreferencesNext]_preferenceVars
  PROVE  Grown
<1>1. ASSUME NEW r \in PreferenceRuns, Portal(r)
      PROVE  Grown
  BY <1>1, PortalWrites, TrailUnchanged DEF Grown, destinationVars, approvalVars
<1>2. ASSUME NEW r \in PreferenceRuns, Verification(r)
      PROVE  Grown
  BY <1>2, VerificationWrites, TrailUnchanged DEF Grown, emailVars, approvalVars, ConfirmVerifies
<1>3. ASSUME NEW r \in PreferenceRuns, Delivery(r)
      PROVE  Grown
  BY <1>3, DeliveryWrites, TrailUnchanged DEF Grown, emailVars, destinationVars, approvalVars
<1>4. ASSUME NEW r \in PreferenceRuns, Tool(r)
      PROVE  Grown
  BY <1>4, ToolWrites, TrailUnchanged, ApprovalWrites, EventAppended
     DEF Grown, emailVars, destinationVars, approvalVars
<1>5. CASE Other
  BY <1>5, OtherWrites, TrailUnchanged
     DEF Grown, emailVars, approvalVars, SubscriptionConfirmed, SubscriptionRemoved,
         ApprovalExpires, ApprovalDeleted
<1>6. CASE UNCHANGED preferenceVars
  BY <1>6, TrailUnchanged DEF Grown, preferenceVars, emailVars, destinationVars, approvalVars
<1> QED  BY <1>1, <1>2, <1>3, <1>4, <1>5, <1>6, Steps DEF Act

LEMMA ApprovalStands ==
  ASSUME PreferenceTypes, TrailStays, NEW p, NEW since, ApprovedSince(p, since)
  PROVE  ApprovedSince(p, since)'
BY DEF ApprovedSince, TrailStays

LEMMA CarriesStays ==
  ASSUME PreferenceTypes, Grown, NEW s \in Step, Carries(s)
  PROVE  Carries(s)'
<1>1. s.at \in DeliveryStages => s.since \in Nat
  BY StepFields
<1>2. Len(approvalTrail) \in Nat /\ Len(approvalTrail') >= Len(approvalTrail)
  BY DEF PreferenceTypes, Grown, TrailStays
<1>3. s.at \in PutStages \cup GetStages => Proved(s.item)'
  BY DEF Carries, Proved, Grown
<1>4. s.at \in DeliveryStages => s.since <= Len(approvalTrail')
  BY <1>1, <1>2 DEF Carries, Grown, TrailStays, PreferenceTypes
<1>5. s.at \in DeliveryStages \ {"sms-approval"} => ApprovedSince(s.phone, s.since)'
  BY ApprovalStands DEF Carries, Grown
<1> QED  BY <1>3, <1>4, <1>5 DEF Carries, Grown

-----------------------------------------------------------------------------
(* The invocations.                                                        *)

MovesOn(r) ==
  \E s \in Step :
    step' = [step EXCEPT ![r] = s] /\ Carries(s)' /\ (s.at = "sms-send" => DeliveryCounts(r))

LEMMA EndCarriesNothing == NotCalled \in Step /\ Carries(NotCalled)'
BY Strings DEF Carries, PutStages, GetStages, DeliveryStages, NotCalled

LEMMA FinishMoves ==
  ASSUME NEW r \in PreferenceRuns, Finishes(r)
  PROVE  MovesOn(r)
BY EndCarriesNothing DEF Finishes, Continues, MovesOn, NotCalled

LEMMA RowMoves ==
  ASSUME NEW r \in PreferenceRuns, NEW item \in Preference, NEW at \in PutStages \cup GetStages,
         Continues(r, [at |-> at, item |-> item]), Proved(item)',
         at \in PutStages => (item.smsOn => item.smsConfirmed),
         at = "put-subscribe" => ~item.mailConfirmed /\ item.email \in Emails
  PROVE  MovesOn(r)
<1>1. PICK s : s = [at |-> at, item |-> item]
  OBVIOUS
<1>2. s \in Step /\ s.at = at /\ s.item = item
  BY <1>1 DEF Step
<1>3. Carries(s)'
  BY <1>2 DEF Carries, PutStages, GetStages, DeliveryStages
<1> QED  BY <1>1, <1>2, <1>3 DEF Continues, MovesOn, PutStages, GetStages

LEMMA PhoneMoves ==
  ASSUME NEW r \in PreferenceRuns, NEW phone \in Phones, NEW at \in PhoneStages,
         Continues(r, [at |-> at, phone |-> phone]),
         at \in {"request-known", "confirm-mark", "confirm-note"} => phone \in everVerified'
  PROVE  MovesOn(r)
<1>1. PICK s : s = [at |-> at, phone |-> phone]
  OBVIOUS
<1>2. s \in Step /\ s.at = at /\ s.phone = phone
  BY <1>1 DEF Step
<1>3. Carries(s)'
  BY <1>2 DEF Carries, PutStages, GetStages, DeliveryStages, PhoneStages
<1> QED  BY <1>1, <1>2, <1>3 DEF Continues, MovesOn, PhoneStages

LEMMA PhoneAdvances ==
  ASSUME PreferenceTypes, NEW r \in PreferenceRuns, step[r].at \in PhoneStages,
         NEW at \in PhoneStages, Advances(r, at),
         at \in {"request-known", "confirm-mark", "confirm-note"} => step[r].phone \in everVerified'
  PROVE  MovesOn(r)
<1>1. PICK s : s = [step[r] EXCEPT !.at = at]
  OBVIOUS
<1>2. step[r] \in Step
  BY DEF PreferenceTypes
<1>3. s \in Step
  BY <1>1, <1>2, StepFields
<1>4. step[r] \in [at: PhoneStages, phone: Phones]
  BY <1>2 DEF Step, NotCalled, PutStages, GetStages, PhoneStages, DeliveryStages, ToolStages
<1>5. s.at = at /\ s.phone = step[r].phone
  BY <1>1, <1>4
<1>6. Carries(s)'
  BY <1>5 DEF Carries, PutStages, GetStages, DeliveryStages, PhoneStages
<1> QED  BY <1>1, <1>3, <1>5, <1>6 DEF Advances, MovesOn, PhoneStages

LEMMA DeliveryAdvances ==
  ASSUME PreferenceTypes, StepsInv, Grown, NEW r \in PreferenceRuns, step[r].at \in DeliveryStages,
         NEW at \in DeliveryStages, Advances(r, at),
         ApprovedSince(step[r].phone, step[r].since), at = "sms-send" => DeliveryCounts(r)
  PROVE  MovesOn(r)
<1>1. PICK s : s = [step[r] EXCEPT !.at = at]
  OBVIOUS
<1>2. step[r] \in Step
  BY DEF PreferenceTypes
<1>3. s \in Step
  BY <1>1, <1>2, StepFields
<1>4. step[r] \in [at: DeliveryStages, phone: Phones, since: Nat]
  BY <1>2 DEF Step, NotCalled, PutStages, GetStages, PhoneStages, DeliveryStages, ToolStages
<1>5. s.at = at /\ s.phone = step[r].phone /\ s.since = step[r].since
  BY <1>1, <1>4
<1>6. Carries(step[r])
  BY DEF StepsInv
<1>7. s.phone \in everVerified /\ s.since <= Len(approvalTrail) /\ ApprovedSince(s.phone, s.since)
  BY <1>5, <1>6 DEF Carries
<1>8. Carries(s)
  BY <1>5, <1>7 DEF Carries, PutStages, GetStages, DeliveryStages
<1>9. Carries(s)'
  BY <1>3, <1>8, CarriesStays
<1> QED  BY <1>1, <1>3, <1>5, <1>9 DEF Advances, MovesOn

LEMMA PortalMoves ==
  ASSUME PreferenceTypes, ProofsInv, StepsInv, Grown, NEW r \in PreferenceRuns, Portal(r)
  PROVE  MovesOn(r)
<1> USE DEF PutStages, GetStages
<1>0. preference \in Preference /\ (preference.smsOn => preference.smsConfirmed)
      /\ Proved(preference) /\ step[r] \in Step /\ Carries(step[r])
  BY DEF PreferenceTypes, PreferencesTypeOK, ProofsInv, StepsInv
<1>1. \A item : Proved(item) => Proved(item)'
  BY DEF Proved, Grown
<1>2. ASSUME NEW body \in repertoire, PutReads(r, body)
      PROVE  MovesOn(r)
  <2>1. body \in Body
    BY <1>2, PreferencesAssumption DEF PreferencesAssumption, PutReads, PreferenceTypes
  <2>2. PICK item :
          item = [email |-> body.email, mailOn |-> body.mailOn,
                  mailConfirmed |-> preference.email = body.email /\ preference.mailConfirmed,
                  subscription |-> preference.subscription,
                  phone |-> body.phone, smsOn |-> body.smsOn,
                  smsConfirmed |-> preference.phone = body.phone /\ preference.smsConfirmed]
    OBVIOUS
  <2>3. /\ item.email = body.email /\ item.subscription = preference.subscription
        /\ item.phone = body.phone /\ item.smsOn = body.smsOn
        /\ item.mailConfirmed = (preference.email = body.email /\ preference.mailConfirmed)
        /\ item.smsConfirmed = (preference.phone = body.phone /\ preference.smsConfirmed)
    BY <2>2
  <2>4. item \in Preference
    BY <1>0, <2>1, <2>2 DEF Preference, Body
  <2>5. Proved(item)
    BY <1>0, <2>3 DEF Proved
  <2>6. CASE ~Accepted(body)
    BY <1>2, <2>6, FinishMoves DEF PutReads, Finishes
  <2>7. CASE Accepted(body) /\ body.mailOn /\ preference.email # body.email
    <3>1. Continues(r, [at |-> "put-subscribe", item |-> item])
      BY <1>2, <2>2, <2>7 DEF PutReads
    <3>2. ~item.mailConfirmed /\ item.email \in Emails /\ (item.smsOn => item.smsConfirmed)
      BY <2>1, <2>3, <2>7 DEF Accepted, Body
    <3> QED  BY <1>1, <2>4, <2>5, <3>1, <3>2, RowMoves
  <2>8. CASE Accepted(body) /\ ~(body.mailOn /\ preference.email # body.email)
    <3>1. Continues(r, [at |-> "put-write", item |-> item])
      BY <1>2, <2>2, <2>8 DEF PutReads
    <3>2. item.smsOn => item.smsConfirmed
      BY <2>1, <2>3, <2>8 DEF Accepted, Body
    <3> QED  BY <1>1, <2>4, <2>5, <3>1, <3>2, RowMoves
  <2> QED  BY <2>6, <2>7, <2>8
<1>3. CASE PutSubscribes(r)
  <2>1. /\ step[r].at = "put-subscribe"
        /\ step' = [step EXCEPT ![r] = [step[r] EXCEPT !.at = "put-write",
                                          !.item.subscription = step[r].item.email]]
    BY <1>3 DEF PutSubscribes, At, Continues
  <2>2. PICK s : s = [step[r] EXCEPT !.at = "put-write", !.item.subscription = step[r].item.email]
    OBVIOUS
  <2>3. step[r] \in [at: PutStages \cup GetStages, item: Preference]
    BY <1>0, <2>1 DEF Step, NotCalled, PhoneStages, DeliveryStages, ToolStages
  <2>4. PICK old \in Preference : old = step[r].item
    BY <2>3
  <2>5. /\ old.email \in Emails /\ ~old.mailConfirmed /\ Proved(old)
        /\ old.smsOn => old.smsConfirmed
    BY <1>0, <2>1, <2>4 DEF Carries
  <2>6. PICK item : item = [old EXCEPT !.subscription = old.email]
    OBVIOUS
  <2>7. s = [at |-> "put-write", item |-> item]
    BY <2>2, <2>3, <2>4, <2>6
  <2>8. item \in Preference
    BY <2>5, <2>6 DEF Preference
  <2>9. /\ item.smsOn = old.smsOn /\ item.smsConfirmed = old.smsConfirmed
        /\ item.phone = old.phone /\ item.mailConfirmed = old.mailConfirmed
    BY <2>6 DEF Preference
  <2>10. Proved(item) /\ (item.smsOn => item.smsConfirmed)
    BY <2>5, <2>9 DEF Proved
  <2>11. Continues(r, [at |-> "put-write", item |-> item])
    BY <2>1, <2>2, <2>7 DEF Continues
  <2> QED  BY <1>1, <2>8, <2>10, <2>11, RowMoves
<1>4. CASE GetReads(r)
  <2>1. CASE Continues(r, NotCalled)
    BY <2>1, FinishMoves DEF Finishes
  <2>2. CASE Continues(r, [at |-> "get-ask", item |-> preference])
    BY <1>0, <1>1, <2>2, RowMoves
  <2> QED  BY <1>4, <2>1, <2>2 DEF GetReads
<1>5. CASE GetAsks(r)
  <2>1. step[r].at = "get-ask"
    BY <1>5 DEF GetAsks, At
  <2>2. step[r] \in [at: PutStages \cup GetStages, item: Preference]
    BY <1>0, <2>1 DEF Step, NotCalled, PhoneStages, DeliveryStages, ToolStages
  <2>3. PICK old \in Preference : old = step[r].item
    BY <2>2
  <2>4. PICK confirmed \in BOOLEAN : confirmed = (old.subscription \in confirmedEmails)
    <3>1. (old.subscription \in confirmedEmails) \in BOOLEAN
      OBVIOUS
    <3> QED  BY <3>1
  <2>5. CASE Finishes(r)
    BY <2>5, FinishMoves
  <2>6. CASE Continues(r, [step[r] EXCEPT !.at = "get-write", !.item.mailConfirmed = confirmed])
    <3>1. PICK s : s = [step[r] EXCEPT !.at = "get-write", !.item.mailConfirmed = confirmed]
      OBVIOUS
    <3>2. PICK item : item = [old EXCEPT !.mailConfirmed = confirmed]
      OBVIOUS
    <3>3. s = [at |-> "get-write", item |-> item]
      BY <2>2, <2>3, <3>1, <3>2
    <3>4. item \in Preference
      BY <3>2 DEF Preference
    <3>5. /\ item.smsConfirmed = old.smsConfirmed /\ item.phone = old.phone
          /\ item.subscription = old.subscription /\ item.mailConfirmed = confirmed
      BY <3>2 DEF Preference
    <3>6. Proved(old)
      BY <1>0, <2>1, <2>3 DEF Carries
    <3>7. Proved(item)
      BY <2>4, <3>5, <3>6 DEF Proved, ProofsInv
    <3>8. Continues(r, [at |-> "get-write", item |-> item])
      BY <2>6, <3>1, <3>3 DEF Continues
    <3> QED  BY <1>1, <3>4, <3>7, <3>8, RowMoves
  <2> QED  BY <1>5, <2>3, <2>4, <2>5, <2>6 DEF GetAsks
<1>6. CASE PutWrites(r) \/ GetWrites(r)
  BY <1>6, FinishMoves DEF PutWrites, GetWrites
<1> QED  BY <1>2, <1>3, <1>4, <1>5, <1>6 DEF Portal

LEMMA VerificationMoves ==
  ASSUME PreferenceTypes, ProofsInv, StepsInv, Grown, NEW r \in PreferenceRuns, Verification(r)
  PROVE  MovesOn(r)
<1> USE DEF PhoneStages
<1>0. step[r] \in Step /\ Carries(step[r]) /\ everVerified \subseteq everVerified'
  BY DEF PreferenceTypes, StepsInv, Grown
<1>1. ASSUME NEW p \in Phones, RequestReads(r, p)
      PROVE  MovesOn(r)
  <2>1. \/ Finishes(r)
        \/ /\ destination[p].status = "VERIFIED"
           /\ Continues(r, [at |-> "request-known", phone |-> p])
        \/ Continues(r, [at |-> "request-send", phone |-> p])
        \/ Continues(r, [at |-> "request-create", phone |-> p])
    BY <1>1 DEF RequestReads, Finishes
  <2>2. destination[p].status = "VERIFIED" => p \in everVerified'
    BY <1>0 DEF ProofsInv
  <2> QED  BY <2>1, <2>2, FinishMoves, PhoneMoves
<1>2. CASE RequestCreates(r) \/ RequestSends(r) \/ RequestStamps(r)
  <2>1. step[r].at \in PhoneStages
    BY <1>2 DEF RequestCreates, RequestSends, RequestStamps, At
  <2>2. Advances(r, "request-send") \/ Advances(r, "request-stamp") \/ Advances(r, "request-note")
    BY <1>2 DEF RequestCreates, RequestSends, RequestStamps
  <2> QED  BY <2>1, <2>2, PhoneAdvances
<1>3. CASE RequestNotes(r) \/ ConfirmNotes(r)
  BY <1>3, FinishMoves DEF RequestNotes, ConfirmNotes
<1>4. CASE ConfirmReads(r)
  <2>1. \/ Finishes(r)
        \/ /\ preference.phone # None
           /\ Continues(r, [at |-> "confirm-find", phone |-> preference.phone])
    BY <1>4 DEF ConfirmReads, Finishes
  <2>2. preference.phone # None => preference.phone \in Phones
    BY DEF PreferenceTypes, PreferencesTypeOK, Preference
  <2> QED  BY <2>1, <2>2, FinishMoves, PhoneMoves
<1>5. CASE ConfirmFinds(r)
  <2>1. step[r].at \in PhoneStages /\ (Advances(r, "confirm-verify") \/ Finishes(r))
    BY <1>5 DEF ConfirmFinds, At
  <2> QED  BY <2>1, FinishMoves, PhoneAdvances
<1>6. CASE ConfirmVerifies(r)
  <2>1. /\ step[r].at \in PhoneStages
        /\ \/ Advances(r, "confirm-mark") /\ step[r].phone \in everVerified'
           \/ Finishes(r)
    BY <1>6 DEF ConfirmVerifies, At
  <2> QED  BY <2>1, FinishMoves, PhoneAdvances
<1>7. CASE ConfirmMarks(r)
  <2>1. step[r].at = "confirm-mark" /\ Advances(r, "confirm-note")
    BY <1>7 DEF ConfirmMarks, At
  <2>2. step[r].phone \in everVerified'
    BY <1>0, <2>1 DEF Carries
  <2> QED  BY <2>1, <2>2, PhoneAdvances
<1> QED  BY <1>1, <1>2, <1>3, <1>4, <1>5, <1>6, <1>7 DEF Verification

(* The approval an invocation finds is in the newest event.                *)
LEMMA ApprovedIsNew ==
  ASSUME PreferenceTypes, ApprovalIsExplained, NEW p, Approved(p), NEW since,
         since <= Len(approvalTrail)
  PROVE  ApprovedSince(p, since)
<1>1. approval \in Approval /\ approval.status = "ACTIVE" /\ approval.phone = p
  BY DEF Approved, PreferenceTypes, PreferencesTypeOK
<1>2. PICK n \in Nat : n = Len(approvalTrail)
  BY DEF PreferenceTypes
<1>3. approvalTrail[n].action = "APPROVE" /\ approvalTrail[n].phone = p
      /\ approval.version = n - approvedAfter
  BY <1>1, <1>2 DEF ApprovalIsExplained, Approved
<1>4. n \in DOMAIN approvalTrail
  <2>1. approval # NoApproval /\ approval.version > 0 /\ approval.version \in Nat
    BY <1>1 DEF PreferenceTypes, Approved, Approval
  <2>2. n > 0
    BY <1>2, <1>3, <2>1 DEF PreferenceTypes
  <2> QED  BY <1>2, <2>2 DEF PreferenceTypes
<1> QED  BY <1>2, <1>3, <1>4 DEF ApprovedSince

LEMMA DeliveryMoves ==
  ASSUME PreferenceTypes, ProofsInv, StepsInv, ApprovalIsExplained, Grown,
         NEW r \in PreferenceRuns, Delivery(r)
  PROVE  MovesOn(r)
<1> USE DEF DeliveryStages
<1>0. step[r] \in Step /\ Carries(step[r])
  BY DEF PreferenceTypes, StepsInv
<1>1. CASE DeliveryReads(r)
  <2>1. PICK s : s = [at |-> "sms-approval", phone |-> preference.phone,
                      since |-> Len(approvalTrail)]
    OBVIOUS
  <2>2. \/ Finishes(r)
        \/ Continues(r, s) /\ preference.smsOn /\ preference.smsConfirmed
    BY <1>1, <2>1 DEF DeliveryReads, Finishes
  <2>3. ASSUME preference.smsConfirmed
        PROVE  s \in Step /\ Carries(s) /\ s.at # "sms-send"
    <3>1. preference.phone \in everVerified /\ preference.phone \in Phones
          /\ Len(approvalTrail) \in Nat
      BY <2>3 DEF ProofsInv, Proved, PreferenceTypes
    <3>2. s \in Step
      BY <2>1, <3>1 DEF Step
    <3>3. Carries(s)
      BY <2>1, <3>1 DEF Carries, PutStages, GetStages
    <3> QED  BY <2>1, <3>2, <3>3
  <2> QED  BY <2>2, <2>3, CarriesStays, FinishMoves DEF Continues, MovesOn
<1>2. CASE DeliveryAsksApproval(r)
  <2>1. step[r].at = "sms-approval"
    BY <1>2 DEF DeliveryAsksApproval, At
  <2>2. CASE Approved(step[r].phone) /\ Advances(r, "sms-destination")
    <3>1. ApprovedSince(step[r].phone, step[r].since)
      BY <1>0, <2>1, <2>2, ApprovedIsNew DEF Carries
    <3> QED  BY <2>1, <2>2, <3>1, DeliveryAdvances
  <2> QED  BY <1>2, <2>2, FinishMoves DEF DeliveryAsksApproval
<1>3. CASE DeliveryAsksDestination(r) \/ DeliveryCounts(r)
  <2>1. /\ step[r].at \in DeliveryStages \ {"sms-approval"}
        /\ \/ Advances(r, "sms-count") \/ Finishes(r)
           \/ Advances(r, "sms-send") /\ DeliveryCounts(r)
    BY <1>3 DEF DeliveryAsksDestination, DeliveryCounts, At
  <2>2. ApprovedSince(step[r].phone, step[r].since)
    BY <1>0, <2>1 DEF Carries
  <2> QED  BY <2>1, <2>2, DeliveryAdvances, FinishMoves
<1>4. CASE DeliverySends(r)
  BY <1>4, FinishMoves DEF DeliverySends
<1> QED  BY <1>1, <1>2, <1>3, <1>4 DEF Delivery

LEMMA ToolMoves ==
  ASSUME PreferenceTypes, NEW r \in PreferenceRuns, Tool(r)
  PROVE  MovesOn(r)
<1>1. ASSUME NEW at \in ToolStages, NEW phone \in Phones, NEW version \in Nat,
             Continues(r, [at |-> at, phone |-> phone, version |-> version])
      PROVE  MovesOn(r)
  <2>1. PICK s : s = [at |-> at, phone |-> phone, version |-> version]
    OBVIOUS
  <2>2. s \in Step
    BY <2>1 DEF Step
  <2>3. Carries(s)'
    BY <2>1 DEF Carries, PutStages, GetStages, DeliveryStages, ToolStages
  <2> QED  BY <1>1, <2>1, <2>2, <2>3 DEF Continues, MovesOn, ToolStages
<1>2. approval # NoApproval => approval.phone \in Phones /\ approval.version \in Nat
  BY DEF PreferenceTypes, PreferencesTypeOK, Approval
<1>3. ASSUME NEW p \in Phones, ApproveReads(r, p)
      PROVE  MovesOn(r)
  <2>1. VersionOf(approval) \in Nat
    BY <1>2 DEF VersionOf
  <2> QED  BY <1>1, <1>3, <2>1 DEF ApproveReads, ToolStages
<1>4. CASE RevokeReads(r)
  BY <1>1, <1>2, <1>4, FinishMoves DEF RevokeReads, Finishes, ToolStages
<1>5. CASE Approves(r) \/ Revokes(r) \/ ToolFails(r)
  BY <1>5, FinishMoves DEF Approves, Revokes, ToolFails
<1> QED  BY <1>3, <1>4, <1>5 DEF Tool

LEMMA StepsKept ==
  ASSUME PreferenceTypes, ProofsInv, StepsInv, ApprovalIsExplained,
         [PreferencesNext]_preferenceVars
  PROVE  /\ step' \in [PreferenceRuns -> Step] /\ StepsInv'
         /\ (\E r \in PreferenceRuns : Act(r) /\ MovesOn(r)) \/ Other \/ UNCHANGED preferenceVars
<1>1. Grown
  BY AlwaysGrows
<1>3. ASSUME NEW r \in PreferenceRuns, Act(r)
      PROVE  MovesOn(r)
  BY <1>1, <1>3, PortalMoves, VerificationMoves, DeliveryMoves, ToolMoves DEF Act
<1>4. ASSUME NEW r \in PreferenceRuns, MovesOn(r)
      PROVE  step' \in [PreferenceRuns -> Step] /\ StepsInv'
  <2>1. PICK s \in Step : step' = [step EXCEPT ![r] = s] /\ Carries(s)'
    BY <1>4 DEF MovesOn
  <2>2. step' \in [PreferenceRuns -> Step]
    BY <2>1 DEF PreferenceTypes
  <2>3. ASSUME NEW q \in PreferenceRuns
        PROVE  Carries(step[q])'
    <3>1. CASE q = r
      <4>1. PICK t : t = s
        OBVIOUS
      <4>2. step'[q] = t
        BY <2>1, <3>1, <4>1 DEF PreferenceTypes
      <4> QED  BY <2>1, <4>1, <4>2
    <3>2. CASE q # r
      <4>1. PICK t : t = step[q]
        OBVIOUS
      <4>2. step'[q] = t
        BY <2>1, <3>2, <4>1 DEF PreferenceTypes
      <4>3. Carries(t)'
        BY <1>1, <4>1, CarriesStays DEF PreferenceTypes, StepsInv
      <4> QED  BY <4>2, <4>3
    <3> QED  BY <3>1, <3>2
  <2> QED  BY <2>2, <2>3 DEF StepsInv
<1>5. (\E r \in PreferenceRuns : Act(r) /\ MovesOn(r)) \/ Other \/ UNCHANGED preferenceVars
  BY <1>3, Steps
<1>6. ASSUME UNCHANGED step
      PROVE  step' \in [PreferenceRuns -> Step] /\ StepsInv'
  <2>1. ASSUME NEW q \in PreferenceRuns
        PROVE  Carries(step[q])'
    <3>1. PICK t : t = step[q]
      OBVIOUS
    <3>2. Carries(t)' /\ step'[q] = t
      BY <1>1, <1>6, <3>1, CarriesStays DEF PreferenceTypes, StepsInv
    <3> QED  BY <3>2
  <2> QED  BY <1>6, <2>1 DEF StepsInv, PreferenceTypes
<1> QED  BY <1>4, <1>5, <1>6, OtherWrites DEF preferenceVars

-----------------------------------------------------------------------------
(* The tables.                                                             *)

RowInv == preference \in Preference /\ (preference.smsOn => preference.smsConfirmed)
          /\ Proved(preference)

LEMMA RowKept ==
  ASSUME PreferenceTypes, ProofsInv, StepsInv, [PreferencesNext]_preferenceVars
  PROVE  RowInv'
<1>0. /\ RowInv /\ everVerified \subseteq everVerified' /\ everConfirmed \subseteq everConfirmed'
      /\ \A r \in PreferenceRuns : step[r] \in Step /\ Carries(step[r])
  BY AlwaysGrows DEF RowInv, PreferenceTypes, PreferencesTypeOK, ProofsInv, StepsInv, Grown
<1>1. ASSUME NEW row \in Preference, row.smsOn => row.smsConfirmed, Proved(row), preference' = row
      PROVE  RowInv'
  BY <1>0, <1>1 DEF RowInv, Proved
<1>2. CASE UNCHANGED preference
  BY <1>0, <1>1, <1>2 DEF RowInv
<1>3. ASSUME NEW r \in PreferenceRuns, PutWrites(r)
      PROVE  RowInv'
  <2>1. step[r].at = "put-write"
    BY <1>3 DEF PutWrites, At
  <2>2. step[r] \in [at: PutStages \cup GetStages, item: Preference]
    BY <1>0, <2>1 DEF Step, NotCalled, PhoneStages, DeliveryStages, ToolStages
  <2>3. PICK row \in Preference : row = step[r].item
    BY <2>2
  <2>4. Proved(row) /\ (row.smsOn => row.smsConfirmed)
    BY <1>0, <2>1, <2>3 DEF Carries, PutStages
  <2> QED  BY <1>1, <1>3, <2>3, <2>4 DEF PutWrites
<1>4. ASSUME NEW r \in PreferenceRuns, GetWrites(r)
      PROVE  RowInv'
  <2>1. step[r].at = "get-write"
    BY <1>4 DEF GetWrites, At
  <2>2. step[r] \in [at: PutStages \cup GetStages, item: Preference]
    BY <1>0, <2>1 DEF Step, NotCalled, PhoneStages, DeliveryStages, ToolStages
  <2>3. PICK item \in Preference : item = step[r].item
    BY <2>2
  <2>4. Proved(item)
    BY <1>0, <2>1, <2>3 DEF Carries, GetStages
  <2>5. PICK confirmed \in BOOLEAN : confirmed = item.mailConfirmed
    BY <2>3 DEF Preference
  <2>6. CASE /\ preference.subscription = item.subscription
             /\ preference' = [preference EXCEPT !.mailConfirmed = confirmed]
    <3>1. PICK row : row = [preference EXCEPT !.mailConfirmed = confirmed]
      OBVIOUS
    <3>2. row \in Preference
      BY <1>0, <3>1 DEF RowInv, Preference
    <3>3. /\ row.smsOn = preference.smsOn /\ row.smsConfirmed = preference.smsConfirmed
          /\ row.phone = preference.phone /\ row.subscription = preference.subscription
          /\ row.mailConfirmed = confirmed
      BY <1>0, <3>1 DEF RowInv, Preference
    <3>4. Proved(row) /\ (row.smsOn => row.smsConfirmed)
      BY <1>0, <2>4, <2>5, <2>6, <3>3 DEF RowInv, Proved
    <3> QED  BY <1>1, <2>6, <3>1, <3>2, <3>4
  <2> QED  BY <1>2, <1>4, <2>3, <2>5, <2>6 DEF GetWrites
<1>5. ASSUME NEW r \in PreferenceRuns, RequestNotes(r)
      PROVE  RowInv'
  <2>1. step[r].at \in {"request-note", "request-known"}
    BY <1>5 DEF RequestNotes, At
  <2>2. PICK phone \in Phones : phone = step[r].phone
    BY <1>0, <2>1, StepFields DEF PhoneStages
  <2>3. PICK known \in BOOLEAN : known = At(r, "request-known")
    <3>1. At(r, "request-known") \in BOOLEAN
      BY DEF At
    <3> QED  BY <3>1
  <2>4. known => phone \in everVerified
    BY <1>0, <2>2, <2>3 DEF At, Carries
  <2>5. PICK row : row = [preference EXCEPT !.phone = phone, !.smsOn = FALSE, !.smsConfirmed = known]
    OBVIOUS
  <2>6. preference' = row
    BY <1>5, <2>2, <2>3, <2>5 DEF RequestNotes
  <2>7. row \in Preference
    BY <1>0, <2>5 DEF RowInv, Preference
  <2>8. /\ row.smsOn = FALSE /\ row.smsConfirmed = known /\ row.phone = phone
        /\ row.subscription = preference.subscription
        /\ row.mailConfirmed = preference.mailConfirmed
    BY <1>0, <2>5 DEF RowInv, Preference
  <2>9. Proved(row) /\ (row.smsOn => row.smsConfirmed)
    BY <1>0, <2>4, <2>8 DEF RowInv, Proved
  <2> QED  BY <1>1, <2>6, <2>7, <2>9
<1>6. ASSUME NEW r \in PreferenceRuns, ConfirmNotes(r)
      PROVE  RowInv'
  <2>1. step[r].at = "confirm-note" /\ step[r].phone \in everVerified
    BY <1>0, <1>6 DEF ConfirmNotes, At, Carries
  <2>2. CASE /\ preference.phone = step[r].phone
             /\ preference' = [preference EXCEPT !.smsConfirmed = TRUE]
    <3>1. PICK row : row = [preference EXCEPT !.smsConfirmed = TRUE]
      OBVIOUS
    <3>2. row \in Preference
      BY <1>0, <3>1 DEF RowInv, Preference
    <3>3. /\ row.smsConfirmed = TRUE /\ row.phone = preference.phone
          /\ row.subscription = preference.subscription
          /\ row.mailConfirmed = preference.mailConfirmed
      BY <1>0, <3>1 DEF RowInv, Preference
    <3>4. Proved(row)
      BY <1>0, <2>1, <2>2, <3>3 DEF RowInv, Proved
    <3> QED  BY <1>1, <2>2, <3>1, <3>2, <3>3, <3>4
  <2> QED  BY <1>2, <1>6, <2>2 DEF ConfirmNotes
<1>7. ASSUME NEW r \in PreferenceRuns, Act(r)
      PROVE  RowInv'
  BY <1>2, <1>3, <1>4, <1>5, <1>6, <1>7, PortalWrites, VerificationWrites, DeliveryWrites,
     ToolWrites DEF Act
<1> QED  BY <1>2, <1>7, Steps, OtherWrites DEF preferenceVars

LEMMA EmailsKept ==
  ASSUME PreferenceTypes, ProofsInv, StepsInv, [PreferencesNext]_preferenceVars
  PROVE  /\ (confirmedEmails \subseteq subscribed /\ subscribed \subseteq Emails)'
         /\ (confirmedEmails \subseteq everConfirmed /\ everConfirmed \subseteq Emails)'
<1> USE DEF PreferenceTypes, PreferencesTypeOK, ProofsInv, emailVars
<1>1. ASSUME NEW r \in PreferenceRuns, PutSubscribes(r)
      PROVE  step[r].item.email \in Emails
  BY <1>1 DEF PutSubscribes, At, StepsInv, Carries
<1>2. ASSUME NEW r \in PreferenceRuns, Act(r)
      PROVE  /\ UNCHANGED <<confirmedEmails, everConfirmed>>
             /\ UNCHANGED subscribed \/ PutSubscribes(r)
  BY <1>2, PortalWrites, VerificationWrites, DeliveryWrites, ToolWrites DEF Act
<1>3. CASE \E r \in PreferenceRuns : Act(r)
  BY <1>1, <1>2, <1>3 DEF PutSubscribes
<1>4. CASE Other
  BY <1>4, OtherWrites DEF SubscriptionConfirmed, SubscriptionRemoved
<1>5. CASE UNCHANGED preferenceVars
  BY <1>5 DEF preferenceVars
<1> QED  BY <1>3, <1>4, <1>5, Steps

LEMMA DestinationsKept ==
  ASSUME PreferenceTypes, ProofsInv, StepsInv, [PreferencesNext]_preferenceVars
  PROVE  /\ everVerified' \subseteq Phones /\ destination' \in [Phones -> Destination]
         /\ \A p \in Phones : destination'[p].status = "VERIFIED" => p \in everVerified'
<1>0. /\ everVerified \subseteq everVerified' /\ everVerified \subseteq Phones
      /\ destination \in [Phones -> Destination]
      /\ \A p \in Phones : destination[p].status = "VERIFIED" => p \in everVerified
      /\ \A r \in PreferenceRuns : step[r] \in Step /\ Carries(step[r])
  BY AlwaysGrows DEF PreferenceTypes, PreferencesTypeOK, ProofsInv, StepsInv, Grown
<1>1. ASSUME NEW p \in Phones, NEW d \in Destination, destination' = [destination EXCEPT ![p] = d],
             d.status = "VERIFIED" => p \in everVerified
      PROVE  /\ destination' \in [Phones -> Destination]
             /\ \A q \in Phones : destination'[q].status = "VERIFIED" => q \in everVerified'
  BY <1>0, <1>1
<1>2. ASSUME UNCHANGED destination
      PROVE  /\ destination' \in [Phones -> Destination]
             /\ \A q \in Phones : destination'[q].status = "VERIFIED" => q \in everVerified'
  BY <1>0, <1>2
<1>3. ASSUME NEW r \in PreferenceRuns, ConfirmVerifies(r)
      PROVE  everVerified' \subseteq Phones
  <2>1. step[r].phone \in Phones
    BY <1>0, <1>3, StepFields DEF ConfirmVerifies, At, PhoneStages
  <2> QED  BY <1>0, <1>3, <2>1 DEF ConfirmVerifies
<1>4. ASSUME NEW r \in PreferenceRuns, RequestCreates(r) \/ RequestStamps(r) \/ ConfirmMarks(r)
      PROVE  \E p \in Phones, d \in Destination :
               /\ destination' = [destination EXCEPT ![p] = d]
               /\ d.status = "VERIFIED" => p \in everVerified
  <2>1. PICK p \in Phones : p = step[r].phone
    BY <1>0, <1>4, StepFields DEF RequestCreates, RequestStamps, ConfirmMarks, At, PhoneStages
  <2>2. destination[p] \in Destination
    BY <1>0
  <2>3. CASE RequestCreates(r)
    <3>1. [status |-> "PENDING", known |-> TRUE, recent |-> FALSE] \in Destination
      BY DEF Destination
    <3> QED  BY <2>1, <2>3, <3>1 DEF RequestCreates
  <2>4. CASE RequestStamps(r)
    <3>1. PICK d : d = [destination[p] EXCEPT !.recent = TRUE]
      OBVIOUS
    <3>2. d \in Destination /\ d.status = destination[p].status
      BY <2>2, <3>1 DEF Destination
    <3> QED  BY <1>0, <2>1, <2>4, <3>1, <3>2 DEF RequestStamps
  <2>5. CASE ConfirmMarks(r)
    <3>1. PICK d : d = [destination[p] EXCEPT !.status = "VERIFIED"]
      OBVIOUS
    <3>2. d \in Destination
      BY <2>2, <3>1 DEF Destination
    <3>3. p \in everVerified
      BY <1>0, <2>1, <2>5 DEF ConfirmMarks, At, Carries
    <3> QED  BY <2>1, <2>5, <3>1, <3>2, <3>3 DEF ConfirmMarks
  <2> QED  BY <1>4, <2>3, <2>4, <2>5
<1>5. ASSUME NEW r \in PreferenceRuns, Act(r)
      PROVE  /\ UNCHANGED everVerified \/ ConfirmVerifies(r)
             /\ \/ UNCHANGED destination
                \/ RequestCreates(r) \/ RequestStamps(r) \/ ConfirmMarks(r)
  BY <1>5, PortalWrites, VerificationWrites, DeliveryWrites, ToolWrites DEF Act, destinationVars
<1>6. CASE \E r \in PreferenceRuns : Act(r)
  BY <1>0, <1>1, <1>2, <1>3, <1>4, <1>5, <1>6
<1>7. CASE Other
  <2>1. everVerified' = everVerified
    BY <1>7, OtherWrites
  <2>3. ASSUME NEW p \in Phones, MinutePasses(p)
        PROVE  \E d \in Destination :
                 /\ destination' = [destination EXCEPT ![p] = d]
                 /\ d.status = "VERIFIED" => p \in everVerified
    <3>1. PICK d : d = [destination[p] EXCEPT !.recent = FALSE]
      OBVIOUS
    <3>2. d \in Destination /\ d.status = destination[p].status
      BY <1>0, <3>1 DEF Destination
    <3> QED  BY <1>0, <2>3, <3>1, <3>2 DEF MinutePasses
  <2>4. ASSUME NEW p \in Phones, DestinationDeleted(p)
        PROVE  NoDestination \in Destination
               /\ destination' = [destination EXCEPT ![p] = NoDestination]
               /\ NoDestination.status # "VERIFIED"
    BY <2>4 DEF DestinationDeleted, NoDestination, Destination
  <2> QED  BY <1>0, <1>1, <1>2, <1>7, <2>1, <2>3, <2>4, OtherWrites
<1>8. CASE UNCHANGED preferenceVars
  BY <1>0, <1>2, <1>8 DEF preferenceVars, destinationVars
<1> QED  BY <1>6, <1>7, <1>8, Steps

LEMMA ApprovalKept ==
  ASSUME PreferenceTypes, ApprovalIsExplained, [PreferencesNext]_preferenceVars
  PROVE  /\ approval' \in {NoApproval} \cup Approval /\ approvalTrail' \in Seq(AuditEvent)
         /\ approvedAfter' \in Nat /\ (approval' # NoApproval => approval'.version > 0)
         /\ ApprovalIsExplained'
<1>0. /\ approval \in {NoApproval} \cup Approval /\ approvalTrail \in Seq(AuditEvent)
      /\ approvedAfter \in Nat /\ (approval # NoApproval => approval.version > 0)
      /\ Len(approvalTrail) \in Nat /\ NoApproval \notin Approval
  BY DEF PreferenceTypes, PreferencesTypeOK, NoApproval, Approval
<1>1. ASSUME UNCHANGED approvalVars
      PROVE  /\ UNCHANGED <<approval, approvalTrail, approvedAfter>>
             /\ ApprovalIsExplained'
  BY <1>1 DEF approvalVars, ApprovalIsExplained
<1>2. ASSUME NEW r \in PreferenceRuns, Approves(r)
      PROVE  /\ approval' \in Approval /\ approvalTrail' \in Seq(AuditEvent)
             /\ approvedAfter' \in Nat /\ approval'.version > 0
             /\ ApprovalIsExplained'
  <2>1. PICK p \in Phones, version \in Nat : p = step[r].phone /\ version = step[r].version
    BY <1>2, ApprovalWrites
  <2>0. version + 1 \in Nat /\ version + 1 > 0
    OBVIOUS
  <2>2. PICK e \in AuditEvent : e = [action |-> "APPROVE", phone |-> p, version |-> version + 1]
    <3>1. [action |-> "APPROVE", phone |-> p, version |-> version + 1] \in AuditEvent
      BY <2>0 DEF AuditEvent
    <3> QED  BY <3>1
  <2>3. approvalTrail' = Append(approvalTrail, e)
    BY <1>2, <2>1, <2>2 DEF Approves
  <2>4. /\ approvalTrail' \in Seq(AuditEvent) /\ Len(approvalTrail') = Len(approvalTrail) + 1
        /\ approvalTrail'[Len(approvalTrail')] = e
    BY <2>3, EventAppended
  <2>5. PICK a \in Approval : a = [status |-> "ACTIVE", phone |-> p, version |-> version + 1,
                                   expired |-> FALSE]
    <3>1. [status |-> "ACTIVE", phone |-> p, version |-> version + 1, expired |-> FALSE] \in Approval
      BY <2>0 DEF Approval
    <3> QED  BY <3>1
  <2>6. approval' = a
    BY <1>2, <2>1, <2>5 DEF Approves
  <2>7. /\ VersionOf(approval) = version
        /\ approvedAfter' = IF approval = NoApproval THEN Len(approvalTrail) ELSE approvedAfter
    BY <1>2, <2>1 DEF Approves, ApproveHolds
  <2>8. a.version = Len(approvalTrail') - approvedAfter'
    <3>1. a.version = version + 1
      BY <2>5
    <3>2. CASE approval = NoApproval
      BY <1>0, <2>4, <2>7, <3>1, <3>2 DEF VersionOf
    <3>3. CASE approval # NoApproval
      <4>1. approval.version = Len(approvalTrail) - approvedAfter
        BY <3>3 DEF ApprovalIsExplained
      <4> QED  BY <1>0, <2>4, <2>7, <3>1, <3>3, <4>1 DEF VersionOf
    <3> QED  BY <3>2, <3>3
  <2>9. /\ a.status = "ACTIVE" /\ a.phone = p /\ a.version = version + 1
        /\ e.action = "APPROVE" /\ e.phone = p /\ e.version = version + 1
    BY <2>2, <2>5
  <2>10. ApprovalIsExplained'
    BY <2>4, <2>6, <2>8, <2>9 DEF ApprovalIsExplained
  <2> QED  BY <1>0, <2>0, <2>4, <2>6, <2>7, <2>9, <2>10
<1>3. ASSUME NEW r \in PreferenceRuns, Revokes(r)
      PROVE  /\ approval' \in Approval /\ approvalTrail' \in Seq(AuditEvent)
             /\ approvedAfter' \in Nat /\ approval'.version > 0
             /\ ApprovalIsExplained'
  <2>1. PICK p \in Phones, version \in Nat : p = step[r].phone /\ version = step[r].version
    BY <1>3, ApprovalWrites
  <2>0. version + 1 \in Nat /\ version + 1 > 0
    OBVIOUS
  <2>2. PICK e \in AuditEvent : e = [action |-> "REVOKE", phone |-> p, version |-> version + 1]
    <3>1. [action |-> "REVOKE", phone |-> p, version |-> version + 1] \in AuditEvent
      BY <2>0 DEF AuditEvent
    <3> QED  BY <3>1
  <2>3. approvalTrail' = Append(approvalTrail, e)
    BY <1>3, <2>1, <2>2 DEF Revokes
  <2>4. /\ approvalTrail' \in Seq(AuditEvent) /\ Len(approvalTrail') = Len(approvalTrail) + 1
        /\ approvalTrail'[Len(approvalTrail')] = e
    BY <2>3, EventAppended
  <2>5. approval \in Approval /\ approval.version = version
    BY <1>0, <1>3, <2>1 DEF Revokes, RevokeHolds
  <2>6. PICK a : a = [approval EXCEPT !.status = "REVOKED", !.version = version + 1]
    OBVIOUS
  <2>7. a \in Approval /\ a.status = "REVOKED" /\ a.version = version + 1
    BY <2>0, <2>5, <2>6 DEF Approval
  <2>8. approval' = a /\ approvedAfter' = approvedAfter
    BY <1>3, <2>1, <2>6 DEF Revokes
  <2>9. a.version = Len(approvalTrail') - approvedAfter'
    <3>1. approval.version = Len(approvalTrail) - approvedAfter
      BY <1>0, <2>5 DEF ApprovalIsExplained
    <3> QED  BY <1>0, <2>4, <2>5, <2>7, <2>8, <3>1
  <2>10. e.action = "REVOKE" /\ e.version = version + 1
    BY <2>2
  <2>11. ApprovalIsExplained'
    BY <2>4, <2>7, <2>8, <2>9, <2>10 DEF ApprovalIsExplained
  <2> QED  BY <1>0, <2>0, <2>4, <2>7, <2>8, <2>11
<1>4. ASSUME ApprovalExpires
      PROVE  /\ approval' \in Approval /\ approval'.version > 0
             /\ UNCHANGED <<approvalTrail, approvedAfter>> /\ ApprovalIsExplained'
  <2>1. PICK a : a = [approval EXCEPT !.expired = TRUE]
    OBVIOUS
  <2>2. approval # NoApproval /\ approval' = a /\ UNCHANGED <<approvalTrail, approvedAfter>>
    BY <1>4, <2>1 DEF ApprovalExpires
  <2>3. /\ a \in Approval /\ a.status = approval.status /\ a.phone = approval.phone
        /\ a.version = approval.version
    BY <1>0, <2>1, <2>2 DEF Approval
  <2> QED  BY <1>0, <2>2, <2>3 DEF ApprovalIsExplained
<1>5. ASSUME ApprovalDeleted
      PROVE  /\ approval' = NoApproval
             /\ UNCHANGED <<approvalTrail, approvedAfter>> /\ ApprovalIsExplained'
  BY <1>5 DEF ApprovalDeleted, ApprovalIsExplained
<1>6. \/ UNCHANGED approvalVars
      \/ \E r \in PreferenceRuns : Approves(r) \/ Revokes(r)
      \/ ApprovalExpires \/ ApprovalDeleted
  <2>1. ASSUME NEW r \in PreferenceRuns, Act(r)
        PROVE  UNCHANGED approvalVars \/ Approves(r) \/ Revokes(r)
    BY <2>1, PortalWrites, VerificationWrites, DeliveryWrites, ToolWrites DEF Act
  <2> QED  BY <2>1, Steps, OtherWrites DEF preferenceVars
<1> QED  BY <1>0, <1>1, <1>2, <1>3, <1>4, <1>5, <1>6

-----------------------------------------------------------------------------
(* The messages.                                                           *)

LEMMA Finite ==
  ASSUME PreferenceTypes, NEW p
  PROVE  /\ IsFiniteSet(Sent(p)) /\ Cardinality(Sent(p)) \in Nat
         /\ IsFiniteSet(Sending(p)) /\ Cardinality(Sending(p)) \in Nat
<1>1. IsFiniteSet(1..Len(texts)) /\ Sent(p) \subseteq 1..Len(texts)
  BY FS_Interval DEF Sent, PreferenceTypes
<1>2. IsFiniteSet(PreferenceRuns) /\ Sending(p) \subseteq PreferenceRuns
  BY PreferencesAssumption DEF PreferencesAssumption, Sending
<1>3. IsFiniteSet(Sent(p)) /\ IsFiniteSet(Sending(p))
  BY <1>1, <1>2, FS_Subset
<1> QED  BY <1>3, FS_CardinalityType

(* Who is about to send: a delivery that has been counted.                 *)
LEMMA SendingMoves ==
  ASSUME PreferenceTypes, NEW r \in PreferenceRuns, MovesOn(r), NEW p
  PROVE  /\ Sending(p)' \subseteq Sending(p) \cup {r}
         /\ ~DeliveryCounts(r) => Sending(p)' \subseteq Sending(p) \ {r}
<1>1. PICK s \in Step : step' = [step EXCEPT ![r] = s] /\ (s.at = "sms-send" => DeliveryCounts(r))
  BY DEF MovesOn
<1>2. step'[r] = s /\ \A q \in PreferenceRuns \ {r} : step'[q] = step[q]
  BY <1>1 DEF PreferenceTypes
<1> QED  BY <1>1, <1>2 DEF Sending, At

LEMMA RateKept ==
  ASSUME PreferenceTypes, PreferenceTypes', ProofsInv, StepsInv, ApprovalIsExplained, RateInv, TextsInv,
         [PreferencesNext]_preferenceVars
  PROVE  RateInv' /\ TextsInv'
<1>0. Grown /\ rate \in [Phones -> Nat] /\ texts \in Seq(Text)
      /\ \A r \in PreferenceRuns : step[r] \in Step /\ Carries(step[r])
  BY AlwaysGrows DEF PreferenceTypes, PreferencesTypeOK, StepsInv
<1>1. ASSUME UNCHANGED texts
      PROVE  TextsInv' /\ \A p : Sent(p)' = Sent(p)
  BY <1>0, <1>1, ApprovalStands DEF TextsInv, Sent, Grown
<1>2. ASSUME NEW r \in PreferenceRuns, DeliverySends(r)
      PROVE  TextsInv' /\ RateInv'
  <2>1. step[r].at = "sms-send"
    BY <1>2 DEF DeliverySends, At
  <2>2. PICK phone \in Phones, since \in Nat : phone = step[r].phone /\ since = step[r].since
    BY <1>0, <2>1, StepFields DEF DeliveryStages
  <2>3. PICK t : t = [phone |-> phone, since |-> since]
    OBVIOUS
  <2>4. /\ texts' = Append(texts, t) /\ rate' = rate
        /\ step' = [step EXCEPT ![r] = NotCalled]
    BY <1>2, <2>2, <2>3 DEF DeliverySends, Finishes, Continues
  <2>5. t \in Text
    BY <2>3 DEF Text
  <2>6. /\ DOMAIN texts' = DOMAIN texts \cup {Len(texts) + 1} /\ Len(texts) + 1 \notin DOMAIN texts
        /\ \A i \in DOMAIN texts : texts'[i] = texts[i]
        /\ texts'[Len(texts) + 1] = t
    BY <1>0, <2>4, <2>5
  <2>7. phone \in everVerified /\ ApprovedSince(phone, since)
    BY <1>0, <2>1, <2>2 DEF Carries, DeliveryStages
  <2>8. TextsInv'
    <3>1. phone \in everVerified' /\ ApprovedSince(phone, since)'
      BY <1>0, <2>7, ApprovalStands DEF Grown
    <3>2. ASSUME NEW i \in DOMAIN texts
          PROVE  texts[i].phone \in everVerified' /\ ApprovedSince(texts[i].phone, texts[i].since)'
      <4>1. PICK q, n : q = texts[i].phone /\ n = texts[i].since
        OBVIOUS
      <4>2. q \in everVerified /\ ApprovedSince(q, n)
        BY <4>1 DEF TextsInv
      <4>3. q \in everVerified' /\ ApprovedSince(q, n)'
        BY <1>0, <4>2, ApprovalStands DEF Grown
      <4>4. texts'[i] = texts[i]
        BY <2>6
      <4> QED  BY <4>1, <4>3, <4>4
    <3> QED  BY <2>3, <2>6, <3>1, <3>2 DEF TextsInv
  <2>9. ASSUME NEW p \in Phones
        PROVE  (Cardinality(Sent(p)) + Cardinality(Sending(p)) <= rate[p] /\ rate[p] <= RateLimit)'
    <3>1. step'[r] = NotCalled /\ \A q \in PreferenceRuns \ {r} : step'[q] = step[q]
      BY <1>0, <2>4 DEF PreferenceTypes
    <3>2. Sending(p)' = Sending(p) \ {r}
      BY <2>1, <3>1 DEF Sending, At, NotCalled
    <3>3. CASE p = phone
      <4>1. Sent(p)' = Sent(p) \cup {Len(texts) + 1} /\ Len(texts) + 1 \notin Sent(p)
        BY <2>3, <2>6, <3>3 DEF Sent
      <4>2. r \in Sending(p)
        BY <2>1, <2>2, <3>3 DEF Sending, At
      <4>3. Cardinality(Sent(p)') = Cardinality(Sent(p)) + 1
        BY <4>1, Finite, FS_AddElement
      <4>4. Cardinality(Sending(p)') = Cardinality(Sending(p)) - 1
        BY <3>2, <4>2, Finite, FS_RemoveElement
      <4> QED  BY <1>0, <2>4, <4>3, <4>4, Finite DEF RateInv
    <3>4. CASE p # phone
      <4>1. Sent(p)' = Sent(p)
        BY <2>3, <2>6, <3>4 DEF Sent
      <4>2. Sending(p)' = Sending(p)
        BY <2>2, <3>2, <3>4 DEF Sending
      <4> QED  BY <2>4, <4>1, <4>2 DEF RateInv
    <3> QED  BY <3>3, <3>4
  <2> QED  BY <2>8, <2>9 DEF RateInv
<1>3. ASSUME NEW r \in PreferenceRuns, MovesOn(r), ~DeliveryCounts(r), UNCHANGED <<rate, texts>>
      PROVE  RateInv'
  <2>1. ASSUME NEW p \in Phones
        PROVE  (Cardinality(Sent(p)) + Cardinality(Sending(p)) <= rate[p] /\ rate[p] <= RateLimit)'
    <3>1. Sending(p)' \subseteq Sending(p) /\ Sent(p)' = Sent(p)
      BY <1>1, <1>3, SendingMoves
    <3>2. Cardinality(Sending(p)') <= Cardinality(Sending(p)) /\ Cardinality(Sending(p)') \in Nat
      BY <3>1, Finite, FS_Subset, FS_CardinalityType
    <3> QED  BY <1>0, <1>3, <3>1, <3>2, Finite DEF RateInv
  <2> QED  BY <2>1 DEF RateInv
<1>4. ASSUME NEW r \in PreferenceRuns, MovesOn(r), DeliveryCounts(r), UNCHANGED texts
      PROVE  RateInv'
  <2>1. step[r].at = "sms-count"
    BY <1>4 DEF DeliveryCounts, At
  <2>2. PICK phone \in Phones : phone = step[r].phone
    BY <1>0, <2>1, StepFields DEF DeliveryStages
  <2>3. CASE Finishes(r) /\ rate' = rate
    <3>1. step'[r] = NotCalled /\ \A q \in PreferenceRuns \ {r} : step'[q] = step[q]
      BY <1>0, <2>3 DEF PreferenceTypes, Finishes, Continues
    <3>2. \A p \in Phones : Sending(p)' = Sending(p) /\ Sent(p)' = Sent(p)
      BY <1>1, <1>4, <2>1, <3>1 DEF Sending, At, NotCalled
    <3> QED  BY <2>3, <3>2 DEF RateInv
  <2>4. CASE /\ rate[phone] < RateLimit /\ rate' = [rate EXCEPT ![phone] = @ + 1]
             /\ Advances(r, "sms-send")
    <3>1. step[r] \in [at: DeliveryStages, phone: Phones, since: Nat]
      BY <1>0, <2>1 DEF Step, NotCalled, PutStages, GetStages, PhoneStages, DeliveryStages, ToolStages
    <3>2. step'[r].phone = phone /\ \A q \in PreferenceRuns \ {r} : step'[q] = step[q]
      BY <2>2, <2>4, <3>1 DEF Advances, PreferenceTypes
    <3>3. ASSUME NEW p \in Phones
          PROVE  (Cardinality(Sent(p)) + Cardinality(Sending(p)) <= rate[p] /\ rate[p] <= RateLimit)'
      <4>1. Sent(p)' = Sent(p) /\ Sending(p)' \subseteq Sending(p) \cup {r}
        BY <1>1, <1>4, SendingMoves
      <4>2. CASE p = phone
        <5>1. Cardinality(Sending(p) \cup {r}) <= Cardinality(Sending(p)) + 1
              /\ IsFiniteSet(Sending(p) \cup {r}) /\ Cardinality(Sending(p) \cup {r}) \in Nat
          <6>1. PICK S : S = Sending(p) /\ IsFiniteSet(S) /\ Cardinality(S) \in Nat
            BY Finite
          <6>2. /\ IsFiniteSet(S \cup {r})
                /\ Cardinality(S \cup {r}) = IF r \in S THEN Cardinality(S) ELSE Cardinality(S) + 1
            BY <6>1, FS_AddElement
          <6> QED  BY <6>1, <6>2
        <5>2. Cardinality(Sending(p)') <= Cardinality(Sending(p) \cup {r})
              /\ Cardinality(Sending(p)') \in Nat
          BY <4>1, <5>1, FS_Subset, FS_CardinalityType
        <5>3. rate'[p] = rate[p] + 1 /\ rate'[p] <= RateLimit /\ rate[p] \in Nat
          BY <1>0, <2>4, <4>2, PreferencesAssumption DEF PreferencesAssumption
        <5> QED  BY <4>1, <5>1, <5>2, <5>3, Finite DEF RateInv
      <4>3. CASE p # phone
        <5>1. Sending(p)' \subseteq Sending(p)
          BY <3>2, <4>1, <4>3 DEF Sending
        <5>2. Cardinality(Sending(p)') <= Cardinality(Sending(p)) /\ Cardinality(Sending(p)') \in Nat
          BY <5>1, Finite, FS_Subset, FS_CardinalityType
        <5>3. rate'[p] = rate[p] /\ rate[p] \in Nat
          BY <1>0, <2>4, <4>3
        <5> QED  BY <4>1, <5>2, <5>3, Finite DEF RateInv
      <4> QED  BY <4>2, <4>3
    <3> QED  BY <3>3 DEF RateInv
  <2> QED  BY <1>4, <2>2, <2>3, <2>4 DEF DeliveryCounts
<1>5. ASSUME UNCHANGED <<rate, texts, step>>
      PROVE  RateInv'
  BY <1>1, <1>5 DEF RateInv, Sending, At
<1>6. ASSUME NEW r \in PreferenceRuns, Act(r)
      PROVE  /\ UNCHANGED texts \/ DeliverySends(r)
             /\ UNCHANGED rate \/ DeliveryCounts(r)
             /\ DeliveryCounts(r) => UNCHANGED texts
  BY <1>6, PortalWrites, VerificationWrites, DeliveryWrites, ToolWrites
     DEF Act, smsVars, DeliveryCounts
<1>7. ASSUME NEW r \in PreferenceRuns, Act(r), MovesOn(r)
      PROVE  RateInv' /\ TextsInv'
  BY <1>1, <1>2, <1>3, <1>4, <1>6, <1>7
<1>8. CASE Other \/ UNCHANGED preferenceVars
  <2>1. UNCHANGED <<rate, texts, step>>
    BY <1>8, OtherWrites DEF smsVars, preferenceVars
  <2> QED  BY <1>1, <1>5, <2>1
<1> QED  BY <1>7, <1>8, StepsKept

-----------------------------------------------------------------------------
(* Notification preferences: the results.                                  *)

LEMMA PreferencesStart ==
  ASSUME PreferencesInit
  PROVE  PreferencesInv
<1>1. \A r \in PreferenceRuns : step[r] = NotCalled
  BY DEF PreferencesInit
<1>2. StepsInv /\ step \in [PreferenceRuns -> Step]
  <2>1. NotCalled \in Step
    BY Strings
  <2>2. Carries(NotCalled)
    BY DEF Carries, PutStages, GetStages, DeliveryStages, NotCalled
  <2> QED  BY <1>1, <2>1, <2>2 DEF StepsInv, PreferencesInit
<1>3. /\ texts = <<>> /\ texts \in Seq(Text) /\ TextsInv /\ DOMAIN texts = {}
      /\ rate \in [Phones -> Nat] /\ \A p \in Phones : rate[p] = 0
  BY DEF PreferencesInit, TextsInv
<1>4. RateInv
  <2>1. ASSUME NEW p \in Phones
        PROVE  Cardinality(Sent(p)) = 0 /\ Cardinality(Sending(p)) = 0
    <3>1. Sent(p) = {} /\ Sending(p) = {}
      BY <1>1, <1>3 DEF Sent, Sending, At, NotCalled
    <3> QED  BY <3>1, FS_EmptySet
  <2>2. \A p \in Phones : 0 + 0 <= rate[p] /\ rate[p] <= RateLimit
    BY <1>3, PreferencesAssumption DEF PreferencesAssumption
  <2> QED  BY <2>1, <2>2 DEF RateInv
<1>5. NewPreference \in Preference
  BY DEF NewPreference, Preference
<1>6. CASE Fresh
  <2>1. RowInv
    BY <1>5, <1>6 DEF Fresh, RowInv, Proved, NewPreference
  <2>2. destination \in [Phones -> Destination]
        /\ \A p \in Phones : destination[p].status = "VERIFIED" => p \in everVerified
    BY <1>6 DEF Fresh, NoDestination, Destination
  <2>3. approvalTrail \in Seq(AuditEvent) /\ ApprovalIsExplained /\ approval = NoApproval
    BY <1>6 DEF Fresh, ApprovalIsExplained
  <2> QED  BY <1>2, <1>3, <1>4, <1>6, <2>1, <2>2, <2>3
           DEF PreferencesInv, PreferenceTypes, PreferencesTypeOK, ProofsInv, RowInv,
               PreferencesInit, Fresh
<1>7. ASSUME NEW p \in Phones, SetUp(p)
      PROVE  PreferencesInv
  <2>1. PICK row : row = [NewPreference EXCEPT !.phone = p, !.smsConfirmed = TRUE, !.smsOn = TRUE]
    OBVIOUS
  <2>2. /\ row \in Preference /\ row.phone = p /\ row.smsConfirmed /\ row.smsOn
        /\ row.mailConfirmed = FALSE
    BY <1>5, <2>1 DEF NewPreference, Preference
  <2>3. preference = row /\ everVerified = {p}
    BY <1>7, <2>1 DEF SetUp
  <2>4. RowInv
    BY <2>2, <2>3 DEF RowInv, Proved
  <2>5. destination \in [Phones -> Destination]
        /\ \A q \in Phones : destination[q].status = "VERIFIED" => q \in everVerified
    <3>1. [status |-> "VERIFIED", known |-> TRUE, recent |-> FALSE] \in Destination
          /\ NoDestination \in Destination /\ NoDestination.status # "VERIFIED"
      BY DEF Destination, NoDestination
    <3> QED  BY <1>7, <2>3, <3>1 DEF SetUp
  <2>6. PICK e \in AuditEvent : e = [action |-> "APPROVE", phone |-> p, version |-> 1]
    <3>1. [action |-> "APPROVE", phone |-> p, version |-> 1] \in AuditEvent
      BY DEF AuditEvent
    <3> QED  BY <3>1
  <2>7. approvalTrail = <<e>> /\ approvedAfter = 0
    BY <1>7, <2>6 DEF SetUp, PreferencesInit
  <2>8. approvalTrail \in Seq(AuditEvent) /\ Len(approvalTrail) = 1 /\ approvalTrail[1] = e
    BY <2>7
  <2>9. PICK a \in Approval : a = [status |-> "ACTIVE", phone |-> p, version |-> 1, expired |-> FALSE]
    <3>1. [status |-> "ACTIVE", phone |-> p, version |-> 1, expired |-> FALSE] \in Approval
      BY DEF Approval
    <3> QED  BY <3>1
  <2>10. approval = a /\ a.status = "ACTIVE" /\ a.phone = p /\ a.version = 1
    BY <1>7, <2>9 DEF SetUp
  <2>11. ApprovalIsExplained
    BY <2>6, <2>7, <2>8, <2>10 DEF ApprovalIsExplained
  <2> QED  BY <1>2, <1>3, <1>4, <2>3, <2>4, <2>5, <2>7, <2>8, <2>10, <2>11
           DEF PreferencesInv, PreferenceTypes, PreferencesTypeOK, ProofsInv, RowInv, PreferencesInit
<1> QED  BY <1>6, <1>7 DEF PreferencesInit

LEMMA PreferenceTypesKept ==
  ASSUME PreferenceTypes, ProofsInv, StepsInv, ApprovalIsExplained, [PreferencesNext]_preferenceVars
  PROVE  PreferenceTypes'
<1>1. repertoire' = repertoire
  <2>1. ASSUME NEW r \in PreferenceRuns, Act(r)
        PROVE  repertoire' = repertoire
    BY <2>1, PortalWrites, VerificationWrites, DeliveryWrites, ToolWrites DEF Act
  <2> QED  BY <2>1, Steps, OtherWrites DEF preferenceVars, callVars
<1>2. rate' \in [Phones -> Nat]
  <2>1. ASSUME NEW r \in PreferenceRuns, DeliveryCounts(r)
        PROVE  rate' \in [Phones -> Nat]
    BY <2>1 DEF DeliveryCounts, PreferenceTypes, PreferencesTypeOK
  <2>2. ASSUME NEW r \in PreferenceRuns, Act(r)
        PROVE  UNCHANGED rate \/ DeliveryCounts(r)
    BY <2>2, PortalWrites, VerificationWrites, DeliveryWrites, ToolWrites DEF Act, smsVars
  <2>3. UNCHANGED rate \/ \E r \in PreferenceRuns : DeliveryCounts(r)
    BY <2>2, Steps, OtherWrites DEF preferenceVars, smsVars
  <2> QED  BY <2>1, <2>3 DEF PreferenceTypes, PreferencesTypeOK
<1>3. texts' \in Seq(Text)
  <2>1. ASSUME NEW r \in PreferenceRuns, DeliverySends(r)
        PROVE  texts' \in Seq(Text)
    <3>1. step[r].phone \in Phones /\ step[r].since \in Nat
      BY <2>1, StepFields DEF DeliverySends, At, PreferenceTypes, DeliveryStages
    <3>2. [phone |-> step[r].phone, since |-> step[r].since] \in Text
      BY <3>1 DEF Text
    <3> QED  BY <2>1, <3>2 DEF DeliverySends, PreferenceTypes
  <2>2. ASSUME NEW r \in PreferenceRuns, Act(r)
        PROVE  UNCHANGED texts \/ DeliverySends(r)
    BY <2>2, PortalWrites, VerificationWrites, DeliveryWrites, ToolWrites DEF Act, smsVars
  <2>3. UNCHANGED texts \/ \E r \in PreferenceRuns : DeliverySends(r)
    BY <2>2, Steps, OtherWrites DEF preferenceVars, smsVars
  <2> QED  BY <2>1, <2>3 DEF PreferenceTypes
<1>4. repertoire \in Repertoires
  BY DEF PreferenceTypes
<1> QED  BY <1>1, <1>2, <1>3, <1>4, StepsKept, RowKept, EmailsKept, DestinationsKept, ApprovalKept
         DEF PreferenceTypes, PreferencesTypeOK, RowInv

LEMMA PreferencesKept ==
  ASSUME PreferencesInv, [PreferencesNext]_preferenceVars
  PROVE  PreferencesInv'
<1>1. PreferenceTypes /\ ProofsInv /\ StepsInv /\ ApprovalIsExplained /\ RateInv /\ TextsInv
  BY DEF PreferencesInv
<1>2. ProofsInv'
  BY <1>1, RowKept, EmailsKept, DestinationsKept DEF ProofsInv, RowInv
<1> QED  BY <1>1, <1>2, PreferenceTypesKept, StepsKept, ApprovalKept, RateKept DEF PreferencesInv

LEMMA PreferencesInvariance == PreferencesSpec => []PreferencesInv
BY PreferencesStart, PreferencesKept, PTL DEF PreferencesSpec

(* The tables keep their shape, SMS are only on for a confirmed number.    *)
THEOREM PreferencesTyped == PreferencesSpec => []PreferencesTypeOK
<1>1. PreferencesInv => PreferencesTypeOK
  BY DEF PreferencesInv, PreferenceTypes
<1> QED  BY <1>1, PreferencesInvariance, PTL

(* What the row calls confirmed was proved by its owner, whatever writes   *)
(* fall between the calls of another.                                      *)
THEOREM ConfirmedIsProved == PreferencesSpec => []ConfirmedWasProved
<1>1. PreferencesInv => ConfirmedWasProved
  BY DEF PreferencesInv, ProofsInv, Proved, ConfirmedWasProved
<1> QED  BY <1>1, PreferencesInvariance, PTL

(* The audit table explains the row of the approval.                       *)
THEOREM ApprovalExplained == PreferencesSpec => []ApprovalIsExplained
<1>1. PreferencesInv => ApprovalIsExplained
  BY DEF PreferencesInv
<1> QED  BY <1>1, PreferencesInvariance, PTL

(* An SMS goes to a number that was proved and approved, and no number     *)
(* gets more of them than the limit.                                       *)
THEOREM TextsAllowed == PreferencesSpec => []TextIsAllowed
<1>1. ASSUME PreferencesInv, NEW p \in Phones
      PROVE  Cardinality(Sent(p)) <= RateLimit
  <2>1. /\ Cardinality(Sent(p)) + Cardinality(Sending(p)) <= rate[p]
        /\ rate[p] <= RateLimit /\ rate[p] \in Nat
    BY <1>1 DEF PreferencesInv, RateInv, PreferenceTypes, PreferencesTypeOK
  <2>2. Cardinality(Sent(p)) \in Nat /\ Cardinality(Sending(p)) \in Nat
    BY <1>1, Finite DEF PreferencesInv
  <2> QED  BY <2>1, <2>2, PreferencesAssumption DEF PreferencesAssumption
<1>2. PreferencesInv => TextIsAllowed
  BY <1>1 DEF PreferencesInv, TextsInv, ApprovedSince, TextIsAllowed, Sent
<1> QED  BY <1>2, PreferencesInvariance, PTL

-----------------------------------------------------------------------------
(* Demo refresh: what a run holds and how far it has got.                  *)

RunFields ==
  {"step", "apply", "state", "history", "oldState", "oldHistory", "known", "pending", "retries"}

OneRowPerKey(rows) == \A a, b \in rows : a.key = b.key => a = b

(* What the tool may read of the source.                                   *)
Source(rows) ==
  /\ OneRowPerKey(rows) /\ Keys(rows) \cap Location = {}
  /\ \A row \in rows : "key" \in DOMAIN row

(* What it makes of that.                                                  *)
Copy(run) ==
  /\ OneRowPerKey(run.state) /\ OneRowPerKey(run.history)
  /\ Location \subseteq Keys(run.state) /\ Keys(run.state) \cap Excluded = {}

SourceInv ==
  /\ moment \in Nat /\ Source(sourceState)
  /\ \A s \in sourceHistory : s.at \in 0..moment

(* How far a run has got with the rows.                                    *)
Batches == {"deleteState", "deleteHistory", "putState", "putHistory"}
Last == {"create", "access", "assign", "done"}
RowsOf(run) ==
  /\ run.step \in {"oldHistory", "user"} => demoState = run.oldState
  /\ run.step \in {"user", "deleteState"} => demoHistory = run.oldHistory
  /\ run.step = "deleteState" => demoState \subseteq run.pending
  /\ run.step \in {"deleteHistory", "putState"} =>
       demoState = IF run.step = "putState" THEN run.state \ run.pending ELSE {}
  /\ run.step = "deleteHistory" => demoHistory \subseteq run.pending
  /\ run.step = "putState" => demoHistory = {} /\ run.pending \subseteq run.state
  /\ run.step \in {"putHistory"} \cup Last => demoState = run.state
  /\ run.step = "putHistory" =>
       demoHistory = run.history \ run.pending /\ run.pending \subseteq run.history
  /\ run.step \in Last => demoHistory = run.history

(* ... and with the user.                                                  *)
UserOf(run) ==
  /\ run.step \in Batches => (run.known => account)
  /\ run.step \in {"access", "assign", "done"} => account
  /\ run.step = "done" => assignment = "ACTIVE"

RunInv(run) ==
  /\ DOMAIN run = RunFields
  /\ run.step \in Resting \cup {"history", "oldState", "oldHistory", "user"} \cup Batches \cup Last
  /\ run.step = "history" => Source(run.state)
  /\ run.step \in {"oldState", "oldHistory", "user"} \cup Batches \cup Last => Copy(run)
  /\ RowsOf(run) /\ UserOf(run)

DemoInv == SourceInv /\ RunInv(refresh)

-----------------------------------------------------------------------------
(* Sets of rows.                                                           *)

LEMMA LeastOfSome ==
  ASSUME NEW S \in SUBSET Nat, S # {}
  PROVE  \E n \in S : \A m \in S : n <= m
<1>1. PICK n \in S : \A m \in S : ~(<<m, n>> \in OpToRel(<, Nat))
  BY NatLessThanWellFounded, WFMin
<1>2. \A m \in S : ~(m < n)
  BY <1>1 DEF OpToRel
<1> QED  BY <1>2

LEMMA MaxIsOne ==
  ASSUME NEW n \in Nat, NEW S \in SUBSET (0..n), S # {}
  PROVE  Max(S) \in S
<1> DEFINE T == {n - x : x \in S}
<1>1. T \in SUBSET Nat /\ T # {}
  <2>1. \A x \in S : n - x \in Nat
    OBVIOUS
  <2>2. PICK x : x \in S
    OBVIOUS
  <2>3. n - x \in T
    BY <2>2
  <2> QED  BY <2>1, <2>3
<1>2. PICK m \in T : \A k \in T : m <= k
  BY <1>1, LeastOfSome
<1>3. PICK x \in S : m = n - x
  BY <1>2
<1>4. \A y \in S : x >= y
  BY <1>2, <1>3
<1> QED  BY <1>4 DEF Max

LEMMA PlaceIsPublic == Location \cap Excluded = {} /\ Location \cap Topics = {}
BY DemoAssumption DEF DemoAssumption

LEMMA StateIsCopied ==
  ASSUME NEW rows, Source(rows)
  PROVE  /\ OneRowPerKey(NewState(rows))
         /\ Location \subseteq Keys(NewState(rows)) /\ Keys(NewState(rows)) \cap Excluded = {}
<1>1. PICK shift : NewState(rows) =
        {[row EXCEPT !.value = @ + shift] : row \in {x \in rows : x.key \notin Excluded}}
          \cup {[key |-> l, value |-> moment] : l \in Location}
  BY DEF NewState
<1>2. \A row \in rows : [row EXCEPT !.value = @ + shift].key = row.key
  BY DEF Source
<1>3. ASSUME NEW a \in NewState(rows)
      PROVE  \/ \E row \in rows : row.key \notin Excluded /\ a = [row EXCEPT !.value = @ + shift]
             \/ \E l \in Location : a = [key |-> l, value |-> moment]
  BY <1>1
<1>4. OneRowPerKey(NewState(rows))
  <2> SUFFICES ASSUME NEW a \in NewState(rows), NEW b \in NewState(rows), a.key = b.key
               PROVE  a = b
    BY DEF OneRowPerKey
  <2>1. ASSUME NEW row \in rows
        PROVE  row.key \notin Location
    BY DEF Source, Keys
  <2>2. CASE \E row \in rows : a = [row EXCEPT !.value = @ + shift]
    <3>1. PICK row \in rows : a = [row EXCEPT !.value = @ + shift]
      BY <2>2
    <3>2. a.key = row.key /\ row.key \notin Location
      BY <1>2, <2>1, <3>1
    <3>3. PICK other \in rows : b = [other EXCEPT !.value = @ + shift]
      <4>1. ASSUME NEW l \in Location, b = [key |-> l, value |-> moment]
            PROVE  FALSE
        <5>1. b.key = l
          BY <4>1
        <5> QED  BY <3>2, <5>1
      <4> QED  BY <1>3, <4>1
    <3>4. b.key = other.key
      BY <1>2, <3>3
    <3>5. row = other
      BY <3>2, <3>4 DEF Source, OneRowPerKey
    <3> QED  BY <3>1, <3>3, <3>5
  <2>3. CASE \E l \in Location : a = [key |-> l, value |-> moment]
    <3>1. PICK l \in Location : a = [key |-> l, value |-> moment]
      BY <2>3
    <3>2. b.key \in Location
      BY <3>1
    <3>3. PICK k \in Location : b = [key |-> k, value |-> moment]
      BY <1>2, <1>3, <2>1, <3>2
    <3> QED  BY <3>1, <3>3
  <2> QED  BY <1>3, <2>2, <2>3
<1>5. Location \subseteq Keys(NewState(rows))
  <2> SUFFICES ASSUME NEW l \in Location
               PROVE  l \in Keys(NewState(rows))
    OBVIOUS
  <2>1. [key |-> l, value |-> moment] \in NewState(rows)
    BY <1>1
  <2>2. [key |-> l, value |-> moment].key = l
    OBVIOUS
  <2> QED  BY <2>1, <2>2 DEF Keys
<1>6. Keys(NewState(rows)) \cap Excluded = {}
  <2>1. ASSUME NEW a \in NewState(rows)
        PROVE  a.key \notin Excluded
    <3>1. CASE \E row \in rows : row.key \notin Excluded /\ a = [row EXCEPT !.value = @ + shift]
      BY <1>2, <3>1
    <3>2. CASE \E l \in Location : a = [key |-> l, value |-> moment]
      BY <3>2, PlaceIsPublic
    <3> QED  BY <1>3, <3>1, <3>2
  <2> QED  BY <2>1 DEF Keys
<1> QED  BY <1>4, <1>5, <1>6

LEMMA HistoryIsCopied ==
  ASSUME moment \in Nat, NEW samples, \A s \in samples : s.at \in 0..moment
  PROVE  OneRowPerKey(NewHistory(samples))
<1> DEFINE newest == Max({s.at : s \in samples})
           kept == {s \in samples : s.signal \in Signals /\ s.at >= newest - Window}
           Resolution(s) == IF newest - s.at <= Horizon THEN 1 ELSE 2
           Bucket(s) == <<s.signal, (s.at \div Resolution(s)) * Resolution(s)>>
           Value(b) == Max({s.at : s \in {x \in kept : Bucket(x) = b}})
           Row(b) == [key |-> <<b[1], b[2] + moment - newest>>, value |-> Value(b)]
<1>1. NewHistory(samples) = {Row(b) : b \in {Bucket(s) : s \in kept}}
  BY DEF NewHistory
<1>2. samples # {} => newest \in Nat
  <2>1. PICK ages : ages = {s.at : s \in samples}
    OBVIOUS
  <2>2. ages \in SUBSET (0..moment)
    BY <2>1
  <2>3. samples # {} => ages # {}
    BY <2>1
  <2>4. samples # {} => Max(ages) \in ages
    BY <2>2, <2>3, MaxIsOne
  <2> QED  BY <2>1, <2>2, <2>4
<1>3. ASSUME NEW s \in kept
      PROVE  Bucket(s)[2] \in Int /\ Bucket(s) = <<Bucket(s)[1], Bucket(s)[2]>>
  <2>1. s.at \in Nat /\ Resolution(s) \in {1, 2}
    OBVIOUS
  <2>2. (s.at \div Resolution(s)) * Resolution(s) \in Int
    BY <2>1
  <2> QED  BY <2>2
<1> HIDE DEF newest, kept, Bucket, Value
<1>4. ASSUME NEW s \in kept, NEW t \in kept, Row(Bucket(s)).key = Row(Bucket(t)).key
      PROVE  Row(Bucket(s)) = Row(Bucket(t))
  <2>1. PICK b, c : b = Bucket(s) /\ c = Bucket(t)
    OBVIOUS
  <2>2. b[2] \in Int /\ c[2] \in Int /\ b = <<b[1], b[2]>> /\ c = <<c[1], c[2]>>
    BY <1>3, <2>1
  <2>3. newest \in Nat
    BY <1>2 DEF kept
  <2>4. b[1] = c[1] /\ b[2] + moment - newest = c[2] + moment - newest
    BY <1>4, <2>1
  <2>5. b[2] = c[2]
    BY <2>2, <2>3, <2>4
  <2>6. b = c
    BY <2>2, <2>4, <2>5
  <2> QED  BY <2>1, <2>6
<1> QED  BY <1>1, <1>4 DEF OneRowPerKey

-----------------------------------------------------------------------------
(* The source, and a run of the tool.                                      *)

LEMMA RowAdded ==
  ASSUME NEW rows, Source(rows), NEW t \in Topics, NEW row, row = [key |-> t, value |-> moment]
  PROVE  Source(Stored(rows, {row}))
<1>1. row.key = t /\ "key" \in DOMAIN row /\ t \notin Location
  BY PlaceIsPublic
<1>2. Stored(rows, {row}) = {r \in rows : r.key # t} \cup {row}
  BY <1>1 DEF Stored, Without, Keys
<1>3. PICK all : all = Stored(rows, {row})
  OBVIOUS
<1>4. \A r \in all : (r \in rows /\ r.key # t) \/ r = row
  BY <1>2, <1>3
<1>5. OneRowPerKey(all) /\ \A r \in all : "key" \in DOMAIN r /\ r.key \notin Location
  BY <1>1, <1>4 DEF Source, OneRowPerKey, Keys
<1> QED  BY <1>3, <1>5 DEF Source, Keys

LEMMA SourceKept ==
  ASSUME SourceInv, [DemoNext]_demoVars
  PROVE  SourceInv'
<1>1. CASE MomentPasses
  BY <1>1 DEF MomentPasses, SourceInv
<1>2. ASSUME NEW t \in Topics, SourceReports(t)
      PROVE  SourceInv'
  <2>1. Source(sourceState')
    BY <1>2, RowAdded DEF SourceReports, SourceInv
  <2>2. \A s \in sourceHistory' : s.at \in 0..moment
    BY <1>2 DEF SourceReports, SourceInv
  <2> QED  BY <1>2, <2>1, <2>2 DEF SourceReports, SourceInv
<1>3. ASSUME UNCHANGED sourceVars
      PROVE  SourceInv'
  BY <1>3 DEF SourceInv, sourceVars
<1>4. \/ MomentPasses \/ \E t \in Topics : SourceReports(t)
      \/ UNCHANGED sourceVars
  BY DEF DemoNext, demoVars, RefreshStarts, ReadsHistory, ReadsOldState, ReadsOldHistory,
         FindsUser, Reading, DeletesState, DeletesHistory, PutsState, PutsHistory, Calls, BatchEnds,
         CreatesUser, ReadsAccess, Assigns, RefreshFails
<1> QED  BY <1>1, <1>2, <1>3, <1>4

LEMMA RunIsOver ==
  ASSUME NEW ending \in Resting \ {"done"}
  PROVE  RunInv([NoRun EXCEPT !.step = ending])'
<1>1. PICK run : run = [NoRun EXCEPT !.step = ending]
  OBVIOUS
<1>2. DOMAIN run = RunFields /\ run.step = ending
  BY <1>1 DEF NoRun, RunFields
<1>3. RunInv(run)'
  BY <1>2 DEF RunInv, RowsOf, UserOf, Resting, Batches, Last
<1> QED  BY <1>1, <1>3

LEMMA ReadsKeep ==
  ASSUME DemoInv
  PROVE  /\ \A apply \in BOOLEAN : RefreshStarts(apply) => RunInv(refresh)'
         /\ ReadsHistory \/ ReadsOldState \/ ReadsOldHistory \/ FindsUser => RunInv(refresh)'
<1> USE DEF Resting, Batches, Last
<1>0. PICK q : q = refresh /\ RunInv(q) /\ DOMAIN q = RunFields
  BY DEF DemoInv, RunInv
<1>1. ASSUME NEW apply \in BOOLEAN, RefreshStarts(apply)
      PROVE  RunInv(refresh)'
  <2>1. PICK run : run = [NoRun EXCEPT !.step = "history", !.apply = apply, !.state = sourceState]
    OBVIOUS
  <2>2. refresh' = run
    BY <1>1, <2>1 DEF RefreshStarts, Reading
  <2>3. DOMAIN run = RunFields /\ run.step = "history" /\ run.state = sourceState
    BY <2>1 DEF NoRun, RunFields
  <2>4. Source(run.state)
    BY <2>3 DEF DemoInv, SourceInv
  <2> QED  BY <2>2, <2>3, <2>4 DEF RunInv, RowsOf, UserOf
<1>2. CASE ReadsHistory
  <2>1. PICK run : run = [q EXCEPT !.step = "oldState", !.state = NewState(q.state),
                                   !.history = NewHistory(sourceHistory)]
    OBVIOUS
  <2>2. refresh' = run /\ q.step = "history"
    BY <1>0, <1>2, <2>1 DEF ReadsHistory, Reading
  <2>3. /\ DOMAIN run = RunFields /\ run.step = "oldState" /\ run.state = NewState(q.state)
        /\ run.history = NewHistory(sourceHistory)
    BY <1>0, <2>1 DEF RunFields
  <2>4. OneRowPerKey(run.history)
    BY <2>3, HistoryIsCopied DEF DemoInv, SourceInv
  <2>5. Source(q.state)
    BY <1>0, <2>2 DEF RunInv
  <2>6. Copy(run)
    BY <2>3, <2>4, <2>5, StateIsCopied DEF Copy
  <2> QED  BY <2>2, <2>3, <2>6 DEF RunInv, RowsOf, UserOf, Copy
<1>3. CASE ReadsOldState
  <2>1. PICK run : run = [q EXCEPT !.step = "oldHistory", !.oldState = demoState]
    OBVIOUS
  <2>2. refresh' = run /\ q.step = "oldState" /\ UNCHANGED <<demoState, demoHistory>>
    BY <1>0, <1>3, <2>1 DEF ReadsOldState, Reading
  <2>3. /\ DOMAIN run = RunFields /\ run.step = "oldHistory" /\ run.state = q.state
        /\ run.history = q.history /\ run.oldState = demoState
    BY <1>0, <2>1 DEF RunFields
  <2> QED  BY <1>0, <2>2, <2>3 DEF RunInv, RowsOf, UserOf, Copy
<1>4. CASE ReadsOldHistory
  <2>1. PICK run : run = [q EXCEPT !.step = "user", !.oldHistory = demoHistory]
    OBVIOUS
  <2>2. refresh' = run /\ q.step = "oldHistory" /\ UNCHANGED <<demoState, demoHistory>>
    BY <1>0, <1>4, <2>1 DEF ReadsOldHistory, Reading
  <2>3. /\ DOMAIN run = RunFields /\ run.step = "user" /\ run.state = q.state
        /\ run.history = q.history /\ run.oldState = q.oldState /\ run.oldHistory = demoHistory
    BY <1>0, <2>1 DEF RunFields
  <2> QED  BY <1>0, <2>2, <2>3 DEF RunInv, RowsOf, UserOf, Copy
<1>5. CASE FindsUser
  <2>1. CASE refresh' = [NoRun EXCEPT !.step = "planned"]
    BY <2>1, RunIsOver
  <2>2. PICK run : run = [q EXCEPT !.step = "deleteState", !.known = account,
                                   !.pending = q.oldState]
    OBVIOUS
  <2>3. CASE refresh' = run /\ q.step = "user" /\ UNCHANGED <<demoState, demoHistory, account>>
    <3>1. /\ DOMAIN run = RunFields /\ run.step = "deleteState" /\ run.state = q.state
          /\ run.history = q.history /\ run.pending = q.oldState
          /\ run.oldHistory = q.oldHistory
      BY <1>0, <2>2 DEF RunFields
    <3>2. run.known => account
      BY <1>0, <2>2 DEF RunFields
    <3> QED  BY <1>0, <2>3, <3>1, <3>2 DEF RunInv, RowsOf, UserOf, Copy
  <2> QED  BY <1>0, <1>5, <2>1, <2>2, <2>3 DEF FindsUser, Reading
<1> QED  BY <1>1, <1>2, <1>3, <1>4, <1>5

(* A call of a batch ends the tool, or takes what was processed off.       *)
LEMMA CallTakes ==
  ASSUME NEW stage, NEW chunk, NEW processed, Calls(stage, chunk, processed),
         DOMAIN refresh = RunFields
  PROVE  /\ refresh.step = stage /\ UNCHANGED <<account, assignment>>
         /\ \/ RunInv(refresh)'
            \/ /\ DOMAIN refresh' = RunFields
               /\ \A f \in RunFields \ {"pending", "retries"} : refresh'[f] = refresh[f]
               /\ refresh'.pending = refresh.pending \ processed
<1>1. PICK q : q = refresh /\ DOMAIN q = RunFields
  OBVIOUS
<1>2. ASSUME NEW n, refresh' = [q EXCEPT !.pending = q.pending \ processed, !.retries = n]
      PROVE  /\ DOMAIN refresh' = RunFields
             /\ \A f \in RunFields \ {"pending", "retries"} : refresh'[f] = q[f]
             /\ refresh'.pending = q.pending \ processed
  BY <1>1, <1>2 DEF RunFields
<1>3. \/ refresh' = [NoRun EXCEPT !.step = "failed"]
      \/ \E n : refresh' = [q EXCEPT !.pending = q.pending \ processed, !.retries = n]
  BY <1>1 DEF Calls, AfterCall
<1>4. refresh' = [NoRun EXCEPT !.step = "failed"] => RunInv(refresh)'
  BY RunIsOver DEF Resting
<1> QED  BY <1>1, <1>2, <1>3, <1>4 DEF Calls

LEMMA RowsStored ==
  ASSUME NEW all, OneRowPerKey(all), NEW pending \in SUBSET all, NEW processed \in SUBSET pending
  PROVE  Stored(all \ pending, processed) = all \ (pending \ processed)
<1>1. \A row \in all \ pending : row.key \notin Keys(processed)
  BY DEF OneRowPerKey, Keys
<1> QED  BY <1>1 DEF Stored, Without

LEMMA RowsDeleted ==
  ASSUME NEW pending, NEW table \in SUBSET pending, NEW processed
  PROVE  Without(table, processed) \subseteq pending \ processed
BY DEF Without, Keys

LEMMA BatchesKeep ==
  ASSUME DemoInv
  PROVE  DeletesState \/ DeletesHistory \/ PutsState \/ PutsHistory \/ BatchEnds => RunInv(refresh)'
<1> USE DEF Resting, Batches, Last
<1>0. RunInv(refresh) /\ DOMAIN refresh = RunFields
  BY DEF DemoInv, RunInv
<1>1. CASE DeletesState
  <2>1. PICK processed \in SUBSET refresh.pending :
          /\ demoState' = Without(demoState, processed) /\ UNCHANGED demoHistory
          /\ \E chunk : Calls("deleteState", chunk, processed)
    BY <1>1 DEF DeletesState, Chunks
  <2>2. CASE ~RunInv(refresh)'
    <3>1. /\ refresh.step = "deleteState" /\ UNCHANGED <<account, assignment>>
          /\ DOMAIN refresh' = RunFields
          /\ \A f \in RunFields \ {"pending", "retries"} : refresh'[f] = refresh[f]
          /\ refresh'.pending = refresh.pending \ processed
      BY <1>0, <2>1, <2>2, CallTakes
    <3>2. demoState' \subseteq refresh'.pending
      BY <1>0, <2>1, <3>1, RowsDeleted DEF RunInv, RowsOf
    <3> QED  BY <1>0, <2>1, <3>1, <3>2 DEF RunInv, RowsOf, UserOf, Copy, RunFields
  <2> QED  BY <2>2
<1>2. CASE DeletesHistory
  <2>1. PICK processed \in SUBSET refresh.pending :
          /\ demoHistory' = Without(demoHistory, processed) /\ UNCHANGED demoState
          /\ \E chunk : Calls("deleteHistory", chunk, processed)
    BY <1>2 DEF DeletesHistory, Chunks
  <2>2. CASE ~RunInv(refresh)'
    <3>1. /\ refresh.step = "deleteHistory" /\ UNCHANGED <<account, assignment>>
          /\ DOMAIN refresh' = RunFields
          /\ \A f \in RunFields \ {"pending", "retries"} : refresh'[f] = refresh[f]
          /\ refresh'.pending = refresh.pending \ processed
      BY <1>0, <2>1, <2>2, CallTakes
    <3>2. demoHistory' \subseteq refresh'.pending
      BY <1>0, <2>1, <3>1, RowsDeleted DEF RunInv, RowsOf
    <3> QED  BY <1>0, <2>1, <3>1, <3>2 DEF RunInv, RowsOf, UserOf, Copy, RunFields
  <2> QED  BY <2>2
<1>3. CASE PutsState
  <2>1. PICK processed \in SUBSET refresh.pending :
          /\ demoState' = Stored(demoState, processed) /\ UNCHANGED demoHistory
          /\ \E chunk : Calls("putState", chunk, processed)
    BY <1>3 DEF PutsState, Chunks
  <2>2. CASE ~RunInv(refresh)'
    <3>1. /\ refresh.step = "putState" /\ UNCHANGED <<account, assignment>>
          /\ DOMAIN refresh' = RunFields
          /\ \A f \in RunFields \ {"pending", "retries"} : refresh'[f] = refresh[f]
          /\ refresh'.pending = refresh.pending \ processed
      BY <1>0, <2>1, <2>2, CallTakes
    <3>2. /\ demoState = refresh.state \ refresh.pending /\ refresh.pending \subseteq refresh.state
          /\ OneRowPerKey(refresh.state)
      BY <1>0, <3>1 DEF RunInv, RowsOf, Copy
    <3>3. demoState' = refresh.state \ refresh'.pending
      BY <2>1, <3>1, <3>2, RowsStored
    <3> QED  BY <1>0, <2>1, <3>1, <3>2, <3>3 DEF RunInv, RowsOf, UserOf, Copy, RunFields
  <2> QED  BY <2>2
<1>4. CASE PutsHistory
  <2>1. PICK processed \in SUBSET refresh.pending :
          /\ demoHistory' = Stored(demoHistory, processed) /\ UNCHANGED demoState
          /\ \E chunk : Calls("putHistory", chunk, processed)
    BY <1>4 DEF PutsHistory, Chunks
  <2>2. CASE ~RunInv(refresh)'
    <3>1. /\ refresh.step = "putHistory" /\ UNCHANGED <<account, assignment>>
          /\ DOMAIN refresh' = RunFields
          /\ \A f \in RunFields \ {"pending", "retries"} : refresh'[f] = refresh[f]
          /\ refresh'.pending = refresh.pending \ processed
      BY <1>0, <2>1, <2>2, CallTakes
    <3>2. /\ demoHistory = refresh.history \ refresh.pending
          /\ refresh.pending \subseteq refresh.history /\ OneRowPerKey(refresh.history)
      BY <1>0, <3>1 DEF RunInv, RowsOf, Copy
    <3>3. demoHistory' = refresh.history \ refresh'.pending
      BY <2>1, <3>1, <3>2, RowsStored
    <3> QED  BY <1>0, <2>1, <3>1, <3>2, <3>3 DEF RunInv, RowsOf, UserOf, Copy, RunFields
  <2> QED  BY <2>2
<1>5. CASE BatchEnds
  <2>1. PICK q : q = refresh /\ RunInv(q) /\ DOMAIN q = RunFields
    BY <1>0
  <2>2. PICK next : next = Following(q)
    OBVIOUS
  <2>3. PICK run : run = [q EXCEPT !.step = next.step, !.pending = next.rows, !.retries = 0]
    OBVIOUS
  <2>4. /\ refresh' = run /\ q.step \in Batches /\ q.pending = {}
        /\ UNCHANGED <<demoState, demoHistory, account, assignment>>
    BY <1>5, <2>1, <2>2, <2>3 DEF BatchEnds
  <2>5. /\ DOMAIN run = RunFields /\ run.step = next.step /\ run.pending = next.rows
        /\ run.state = q.state /\ run.history = q.history /\ run.oldState = q.oldState
        /\ run.oldHistory = q.oldHistory /\ run.known = q.known
    BY <2>1, <2>3 DEF RunFields
  <2>6. Copy(run)
    BY <2>1, <2>4, <2>5 DEF RunInv, Copy
  <2>7. CASE q.step = "deleteState"
    <3>1. next = [step |-> "deleteHistory", rows |-> q.oldHistory]
      BY <2>2, <2>7 DEF Following
    <3>2. run.step = "deleteHistory" /\ run.pending = q.oldHistory
      BY <2>5, <3>1
    <3> QED  BY <2>1, <2>4, <2>5, <2>6, <2>7, <3>2 DEF RunInv, RowsOf, UserOf
  <2>8. CASE q.step = "deleteHistory"
    <3>1. next = [step |-> "putState", rows |-> q.state]
      BY <2>2, <2>8 DEF Following
    <3>2. run.step = "putState" /\ run.pending = q.state
      BY <2>5, <3>1
    <3> QED  BY <2>1, <2>4, <2>5, <2>6, <2>8, <3>2 DEF RunInv, RowsOf, UserOf
  <2>9. CASE q.step = "putState"
    <3>1. next = [step |-> "putHistory", rows |-> q.history]
      BY <2>2, <2>9 DEF Following
    <3>2. run.step = "putHistory" /\ run.pending = q.history
      BY <2>5, <3>1
    <3> QED  BY <2>1, <2>4, <2>5, <2>6, <2>9, <3>2 DEF RunInv, RowsOf, UserOf
  <2>10. CASE q.step = "putHistory"
    <3>1. next = [step |-> IF q.known THEN "access" ELSE "create", rows |-> {}]
      BY <2>2, <2>10 DEF Following
    <3>2. (run.step = "access" /\ q.known) \/ run.step = "create"
      BY <2>5, <3>1
    <3> QED  BY <2>1, <2>4, <2>5, <2>6, <2>10, <3>2 DEF RunInv, RowsOf, UserOf
  <2> QED  BY <2>4, <2>7, <2>8, <2>9, <2>10
<1> QED  BY <1>1, <1>2, <1>3, <1>4, <1>5

LEMMA UserKept ==
  ASSUME DemoInv
  PROVE  CreatesUser \/ ReadsAccess \/ Assigns \/ RefreshFails => RunInv(refresh)'
<1> USE DEF Resting, Batches, Last
<1>0. PICK q : q = refresh /\ RunInv(q) /\ DOMAIN q = RunFields
  BY DEF DemoInv, RunInv
<1>1. CASE refresh' = [NoRun EXCEPT !.step = "failed"]
  BY <1>1, RunIsOver
<1>2. ASSUME NEW later \in Last, refresh' = [q EXCEPT !.step = later], q.step \in Last \ {"done"},
             UNCHANGED <<demoState, demoHistory>>, later \in {"access", "assign", "done"} => account',
             later = "done" => assignment' = "ACTIVE"
      PROVE  RunInv(refresh)'
  <2>1. PICK run : run = [q EXCEPT !.step = later]
    OBVIOUS
  <2>2. /\ DOMAIN run = RunFields /\ run.step = later /\ run.state = q.state
        /\ run.history = q.history
    BY <1>0, <2>1 DEF RunFields
  <2>3. Copy(run)
    BY <1>0, <1>2, <2>2 DEF RunInv, Copy
  <2>4. RowsOf(run)' /\ UserOf(run)'
    BY <1>0, <1>2, <2>2 DEF RunInv, RowsOf, UserOf
  <2> QED  BY <1>2, <2>1, <2>2, <2>3, <2>4 DEF RunInv
<1>3. CASE CreatesUser
  BY <1>0, <1>2, <1>3 DEF CreatesUser
<1>4. CASE ReadsAccess
  <2>1. q.step = "access" /\ account /\ account' = account
    BY <1>0, <1>4 DEF ReadsAccess, Reading, RunInv, UserOf
  <2>2. \/ refresh' = [q EXCEPT !.step = "done"] /\ assignment = "ACTIVE"
        \/ refresh' = [q EXCEPT !.step = "assign"]
        \/ refresh' = [NoRun EXCEPT !.step = "failed"]
    BY <1>0, <1>4 DEF ReadsAccess, Reading
  <2> QED  BY <1>1, <1>2, <1>4, <2>1, <2>2 DEF ReadsAccess, Reading
<1>5. CASE Assigns
  <2>1. q.step = "assign" /\ account
    BY <1>0, <1>5 DEF Assigns, RunInv, UserOf
  <2> QED  BY <1>0, <1>2, <1>5, <2>1 DEF Assigns
<1>6. CASE RefreshFails
  BY <1>1, <1>6 DEF RefreshFails
<1> QED  BY <1>3, <1>4, <1>5, <1>6

LEMMA DemoStart ==
  ASSUME DemoInit
  PROVE  DemoInv
<1>1. Source(sourceState)
  <2>1. PICK topics : topics = {s.signal : s \in sourceHistory}
    OBVIOUS
  <2>2. topics \subseteq {s.signal : s \in Past}
    BY <2>1 DEF DemoInit
  <2>3. topics \cap Location = {}
    BY <2>2, DemoAssumption DEF DemoAssumption
  <2>4. \A row \in sourceState : \E t \in topics : row = [key |-> t, value |-> LastAt(t)]
    BY <2>1 DEF DemoInit
  <2>5. \A row \in sourceState :
          "key" \in DOMAIN row /\ row.key \in topics /\ row = [key |-> row.key, value |-> LastAt(row.key)]
    BY <2>4
  <2> QED  BY <2>3, <2>5 DEF Source, OneRowPerKey, Keys
<1>2. SourceInv
  <2>1. \A s \in sourceHistory : s \in Past
    BY DEF DemoInit
  <2> QED  BY <1>1, <2>1, DemoAssumption DEF SourceInv, DemoInit, DemoAssumption
<1>3. RunInv(refresh)
  <2>1. DOMAIN NoRun = RunFields /\ NoRun.step = "idle"
    BY DEF NoRun, RunFields
  <2> QED  BY <2>1 DEF DemoInit, RunInv, RowsOf, UserOf, Resting, Batches, Last
<1> QED  BY <1>2, <1>3 DEF DemoInv

LEMMA DemoKept ==
  ASSUME DemoInv, [DemoNext]_demoVars
  PROVE  DemoInv'
<1>1. ASSUME UNCHANGED <<demoState, demoHistory, account, assignment, refresh>>
      PROVE  RunInv(refresh)'
  BY <1>1 DEF DemoInv, RunInv, RowsOf, UserOf
<1>2. ASSUME MomentPasses \/ (\E t \in Topics : SourceReports(t)) \/ UNCHANGED demoVars
      PROVE  RunInv(refresh)'
  BY <1>1, <1>2 DEF MomentPasses, SourceReports, demoVars
<1>3. RunInv(refresh)'
  BY <1>2, ReadsKeep, BatchesKeep, UserKept DEF DemoNext
<1> QED  BY <1>3, SourceKept DEF DemoInv

(* A run that ended well left a whole copy, whatever an earlier run left   *)
(* behind, however its batches were cut and repeated, and however the      *)
(* source went on.                                                         *)
THEOREM RefreshStaysWhole == DemoSpec => []RefreshIsWhole
<1>1. DemoInit => DemoInv
  BY DemoStart
<1>2. DemoInv /\ [DemoNext]_demoVars => DemoInv'
  BY DemoKept
<1>3. DemoInv => RefreshIsWhole
  BY DEF DemoInv, RunInv, RowsOf, UserOf, Copy, RefreshIsWhole, Batches, Last
<1> QED  BY <1>1, <1>2, <1>3, PTL DEF DemoSpec

-----------------------------------------------------------------------------
(* The composition that TLC runs.                                          *)

(* Each of its behaviours is one of every part, so that what is proved of  *)
(* the claims, the grants, the preferences or the demo holds in it.        *)
THEOREM Composition == MCSpec => Spec /\ GrantsSpec /\ PreferencesSpec /\ DemoSpec
<1>1. MCInit => Init /\ GrantsInit /\ PreferencesInit /\ DemoInit
  BY DEF MCInit
<1>2. [MCNext]_<<subject, vars, grantVars, preferenceVars, demoVars>>
        => /\ [Next]_vars /\ [GrantsNext]_grantVars
           /\ [PreferencesNext]_preferenceVars /\ [DemoNext]_demoVars
  BY DEF MCNext
<1> QED  BY <1>1, <1>2, PTL DEF MCSpec, Spec, GrantsSpec, PreferencesSpec, DemoSpec

(* The tables of claims, ownership, access, grants and preferences keep    *)
(* their schemas there.                                                    *)
THEOREM TablesTyped == MCSpec => []TablesTypeOK
<1>1. TypeOK /\ GrantsTypeOK /\ PreferencesTypeOK => TablesTypeOK
  BY DEF TablesTypeOK
<1> QED  BY <1>1, Composition, TypeCorrect, GrantsTyped, PreferencesTyped, PTL
=============================================================================
