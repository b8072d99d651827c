---------------------------- MODULE FirmwareGrants ----------------------------
(***************************************************************************)
(* The grants of one user: to flash the release of a target, and to        *)
(* recover the password of an adapter, which is a row of the same table    *)
(* under a reserved target.  Administrators grant and revoke, the user     *)
(* starts downloads and recoveries, a deployment replaces a release.       *)
(*                                                                         *)
(* An invocation takes the time and the releases of its Lambda first, then *)
(* reads one grant after the other, and ends with one transaction.  Signing*)
(* the URL touches nothing shared.  The reads of firmware_access() and     *)
(* password_recovery_access() are those of a download that is not audited. *)
(***************************************************************************)
EXTENDS Naturals, Sequences

CONSTANTS
  Catalog,       \* the firmware targets, in the order of _firmware_releases()
  Recovery,      \* PASSWORD_RECOVERY_TARGET
  PortalCalls,   \* invocations that may run at the same time
  LastVersion,   \* bound on the deployments
  Lifetimes,     \* what expiresInHours may be
  LastTime,      \* bound on the clock
  MaxEvents      \* bound on the audit trail

VARIABLES
  clock,       \* int(time.time())
  released,    \* version of each target, with its SHA-256
  grants,      \* FIRMWARE_GRANTS_TABLE
  trail,       \* AUDIT_TABLE, in the order of the transactions
  call         \* the invocations

grantVars == <<clock, released, grants, trail, call>>

FirmwareTargets == {Catalog[i] : i \in DOMAIN Catalog}
Targets == FirmwareTargets \cup {Recovery}

ASSUME GrantsAssumption ==
  /\ Catalog \in Seq(FirmwareTargets) \ {<<>>} /\ Recovery \notin FirmwareTargets
  /\ {LastVersion, LastTime, MaxEvents} \subseteq Nat /\ Lifetimes \subseteq Nat
Versions == 0..LastVersion
Ages == 0..LastTime

NoGrant == [status |-> "none"]
Grant == [status: {"ACTIVE", "REVOKED"}, version: Versions, expiresAt: Nat]

(* An event of the trail.  What the trail itself does not keep: the events *)
(* there were when a download began, and the releases it knew.             *)
Event ==
  [event: {"CREATED"}, target: Targets, version: Versions, expiresAt: Nat]
  \cup [event: {"REVOKED", "RESULT"}, target: Targets]
  \cup [event: {"AUTHORIZED"}, target: Targets, at: Ages, since: Nat,
        releases: [Targets -> Versions]]

NoCall == [stage |-> "none"]
Call ==
  [stage: {"read", "audit"}, targets: Seq(Targets), found: Seq(Targets), at: Ages,
   since: Nat, releases: [Targets -> Versions]]

GrantsInit ==
  /\ clock = 0
  /\ released = [t \in Targets |-> 0]
  /\ grants = [t \in Targets |-> NoGrant]
  /\ trail = <<>>
  /\ call = [c \in PortalCalls |-> NoCall]

Becomes(c, r) == call' = [call EXCEPT ![c] = r]
OnlyCall == UNCHANGED <<clock, released, grants, trail>>

-----------------------------------------------------------------------------
(* The transaction of firmware_grant(): the row of an earlier grant is     *)
(* replaced.  The invocation took the release and the time before: they    *)
(* may be any that have been.                                              *)
FirmwareGrant(t, version, at, hours) ==
  /\ t \in FirmwareTargets /\ version <= released[t] /\ at <= clock
  /\ Len(trail) < MaxEvents
  /\ grants' = [grants EXCEPT ![t] =
       [status |-> "ACTIVE", version |-> version, expiresAt |-> at + hours]]
  /\ trail' = Append(trail, [event |-> "CREATED", target |-> t, version |-> version,
                             expiresAt |-> at + hours])
  /\ UNCHANGED <<clock, released, call>>

(* password_recovery_grant(): of an action, without a release.             *)
RecoveryGrant(at, hours) ==
  /\ at <= clock /\ Len(trail) < MaxEvents
  /\ grants' = [grants EXCEPT ![Recovery] =
       [status |-> "ACTIVE", version |-> 0, expiresAt |-> at + hours]]
  /\ trail' = Append(trail, [event |-> "CREATED", target |-> Recovery, version |-> 0,
                             expiresAt |-> at + hours])
  /\ UNCHANGED <<clock, released, call>>

(* firmware_revoke(): one transaction, which fails without a row.          *)
FirmwareRevoke(t) ==
  /\ t \in FirmwareTargets /\ Len(trail) < MaxEvents
  /\ grants[t] # NoGrant
  /\ grants' = [grants EXCEPT ![t].status = "REVOKED"]
  /\ trail' = Append(trail, [event |-> "REVOKED", target |-> t])
  /\ UNCHANGED <<clock, released, call>>

(* password_recovery_revoke()                                              *)
RecoveryRevoke ==
  /\ Len(trail) < MaxEvents
  /\ grants[Recovery] # NoGrant
  /\ grants' = [grants EXCEPT ![Recovery].status = "REVOKED"]
  /\ trail' = Append(trail, [event |-> "REVOKED", target |-> Recovery])
  /\ UNCHANGED <<clock, released, call>>

-----------------------------------------------------------------------------
Begun(targets) ==
  [stage |-> "read", targets |-> targets, found |-> <<>>, at |-> clock,
   since |-> Len(trail), releases |-> released]

(* firmware_download(): it does not name a target.                         *)
DownloadBegins(c) ==
  /\ call[c] = NoCall
  /\ Becomes(c, Begun(Catalog))
  /\ OnlyCall

(* password_recovery_start()                                               *)
RecoveryBegins(c) ==
  /\ call[c] = NoCall
  /\ Becomes(c, Begun(<<Recovery>>))
  /\ OnlyCall

(* Mutant: the release need not be the one that was granted.               *)
AnyVersion(t, r) ==
  /\ grants[t] # NoGrant /\ grants[t].status = "ACTIVE"
  /\ grants[t].expiresAt > r.at

(* _active_password_recovery_grant()                                       *)
RecoveryActive(r) ==
  /\ grants[Recovery] # NoGrant /\ grants[Recovery].status = "ACTIVE"
  /\ grants[Recovery].expiresAt > r.at

(* The conditions of _active_firmware_release(), and of a recovery.        *)
Matches(t, r) ==
  IF t = Recovery THEN RecoveryActive(r)
  ELSE /\ grants[t] # NoGrant /\ grants[t].status = "ACTIVE"
       /\ grants[t].expiresAt > r.at
       /\ grants[t].version = r.releases[t]

(* Mutant: the first match is taken.                                       *)
TakesFirst(found) == found # <<>>

(* _active_firmware_release(): more than one match is none.                *)
Decided(found) == Len(found) = 1

(* One get_item(); after the last the call goes on or is refused.          *)
ReadsGrant(c) ==
  /\ call[c].stage = "read"
  /\ LET r == call[c]
         t == Head(r.targets)
         found == IF Matches(t, r) THEN Append(r.found, t) ELSE r.found
     IN Becomes(c,
          IF Len(r.targets) > 1 THEN [r EXCEPT !.targets = Tail(@), !.found = found]
          ELSE IF Decided(found)
            THEN [r EXCEPT !.stage = "audit", !.targets = <<>>, !.found = found]
          ELSE NoCall)
  /\ OnlyCall

(* FIRMWARE_DOWNLOAD_AUTHORIZED and PASSWORD_RECOVERY_AUTHORIZED.          *)
OperationAudited(c) ==
  /\ call[c].stage = "audit" /\ Len(trail) < MaxEvents
  /\ LET r == call[c] IN
     trail' = Append(trail, [event |-> "AUTHORIZED", target |-> Head(r.found), at |-> r.at,
                             since |-> r.since, releases |-> r.releases])
  /\ Becomes(c, NoCall)
  /\ UNCHANGED <<clock, released, grants>>

(* firmware_result() and password_recovery_result() put what they are sent *)
(* and read nothing: of the operation's id they check the syntax, and the  *)
(* target is the one the browser says.                                     *)
FirmwareResult(t) ==
  /\ t \in FirmwareTargets /\ Len(trail) < MaxEvents
  /\ trail' = Append(trail, [event |-> "RESULT", target |-> t])
  /\ UNCHANGED <<clock, released, grants, call>>

RecoveryResult ==
  /\ Len(trail) < MaxEvents
  /\ trail' = Append(trail, [event |-> "RESULT", target |-> Recovery])
  /\ UNCHANGED <<clock, released, grants, call>>

-----------------------------------------------------------------------------
(* A deployment of the stack with another release for one target.          *)
Deploys(t) ==
  /\ t \in FirmwareTargets /\ \A u \in Targets : released[u] < LastVersion
  /\ released' = [released EXCEPT ![t] = @ + 1]
  /\ UNCHANGED <<clock, grants, trail, call>>

(* DynamoDB deletes a row a day after it has expired (ttl); no invocation  *)
(* lasts so long.                                                          *)
RowDeleted(t) ==
  /\ grants[t] # NoGrant /\ grants[t].expiresAt <= clock
  /\ \A c \in PortalCalls : call[c] = NoCall
  /\ grants' = [grants EXCEPT ![t] = NoGrant]
  /\ UNCHANGED <<clock, released, trail, call>>

ClockTicks ==
  /\ clock < LastTime
  /\ clock' = clock + 1
  /\ UNCHANGED <<released, grants, trail, call>>

GrantsNext ==
  \/ \E at \in Ages, hours \in Lifetimes :
       \/ RecoveryGrant(at, hours)
       \/ \E t \in Targets, version \in Versions : FirmwareGrant(t, version, at, hours)
  \/ \E c \in PortalCalls :
       DownloadBegins(c) \/ RecoveryBegins(c) \/ ReadsGrant(c) \/ OperationAudited(c)
  \/ \E t \in Targets : FirmwareRevoke(t) \/ FirmwareResult(t) \/ Deploys(t) \/ RowDeleted(t)
  \/ RecoveryRevoke \/ RecoveryResult \/ ClockTicks

GrantsSpec == GrantsInit /\ [][GrantsNext]_grantVars

-----------------------------------------------------------------------------
(* Rows, events and invocations have their shape.                          *)
GrantsTypeOK ==
  /\ clock \in Ages /\ released \in [Targets -> Versions]
  /\ grants \in [Targets -> {NoGrant} \cup Grant]
  /\ \A i \in DOMAIN trail : trail[i] \in Event
  /\ Len(trail) <= MaxEvents

Granted(g, t, r) ==
  /\ trail[g].event = "CREATED" /\ trail[g].target = t
  /\ trail[g].version = r.releases[t] /\ trail[g].expiresAt > r.at

(* A download or recovery that was authorised has its grant in the trail:  *)
(* of this target and this very release, not expired, and not revoked      *)
(* before the request came, however deployments, grants, revocations and   *)
(* other requests fell between its steps.                                  *)
OperationIsGranted ==
  \A d \in DOMAIN trail : trail[d].event = "AUTHORIZED" =>
    \E g \in 1..(d - 1) :
      /\ Granted(g, trail[d].target, trail[d])
      /\ \A k \in (g + 1)..trail[d].since :
           trail[k].event = "REVOKED" => trail[k].target # trail[d].target

(* "more than one matching active grant for the same user fails closed":   *)
(* no download is authorised if another target's grant matched from the    *)
(* beginning of the request to its end.                                    *)
AmbiguityFailsClosed ==
  \A d \in DOMAIN trail : trail[d].event = "AUTHORIZED" =>
    ~ \E t \in FirmwareTargets \ {trail[d].target}, g \in 1..trail[d].since :
        /\ trail[d].target # Recovery
        /\ Granted(g, t, trail[d])
        /\ \A k \in (g + 1)..(d - 1) :
             trail[k].event \in {"CREATED", "REVOKED"} => trail[k].target # t
=============================================================================
