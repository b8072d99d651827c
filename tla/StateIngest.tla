----------------------------- MODULE StateIngest -----------------------------
(***************************************************************************)
(* The ingest Lambda and the live handler (template.yaml).  A report of a  *)
(* vehicle updates its State row, and goes to every WebSocket connection   *)
(* that is subscribed to the vehicle.  Connections come, subscribe and go, *)
(* tokens expire and access is revoked meanwhile.  What the ingest stores  *)
(* in History is in SpeedHistory.                                          *)
(*                                                                         *)
(* One user, whose connections they all are, and one topic.  The rule      *)
(* invokes the Lambda at least once for a report, as concurrently as it    *)
(* likes; every call to a table or to the gateway is a step.               *)
(***************************************************************************)
EXTENDS Naturals, Sequences, FiniteSets

CONSTANTS
  Vehicles, Connections, Ingests,
  NoRow,
  Reports,          \* the vehicles of the reports; receivedAt is the index
  MaxInvocations,   \* bound on the invocations of the ingest
  MaxRequests       \* bound on the requests under way

ASSUME ReportsAreOfVehicles == Reports \in Seq(Vehicles)

VARIABLES
  state,      \* State: receivedAt, by vehicle
  rows,       \* the connection table
  index,      \* what its index has ever shown, and may still show
  gateway,    \* the connections as API Gateway knows them
  tokens,     \* the connections whose token has not expired
  access,     \* the vehicles the user is ACTIVE for
  requests,   \* requests to the live handler, in any order
  ingest,     \* the invocations of the ingest
  invoked,    \* how many there have been
  updated,    \* ghost: the reports that were written or refused
  posted      \* ghost: what was true of the newest message sent

ingestVars == <<state, rows, index, gateway, tokens, access, requests, ingest,
                invoked, updated, posted>>
sources == <<tokens, access>>

Row == [owned: BOOLEAN, vehicle: Vehicles \cup {"none"}]
Request == [route: {"subscribe", "ping", "disconnect"}, connection: Connections,
            vehicle: Vehicles \cup {"none"}, phase: {"row", "access", "update"}]

(* An invocation: `keys' are what the index answered and is not done yet,  *)
(* `valid' the tokens that had not expired at its `now', and the ghost     *)
(* `viewed' says whether the user has been ACTIVE since.                   *)
Resting == [phase |-> "idle", report |-> 0, keys |-> {}, at |-> "none", valid |-> {},
         viewed |-> FALSE]

Busy(i) == ingest[i].phase # "idle"
VehicleOf(i) == Reports[ingest[i].report]

IngestInit ==
  /\ state = [v \in Vehicles |-> 0]
  /\ rows = [c \in Connections |-> NoRow] /\ index = {}
  /\ gateway = [c \in Connections |-> "unused"] /\ tokens = {}
  /\ access \in SUBSET Vehicles
  /\ requests = {} /\ ingest = [i \in Ingests |-> Resting] /\ invoked = 0
  /\ updated = {} /\ posted = [valid |-> TRUE, viewed |-> TRUE]

(* disconnect(): the row goes, and API Gateway closes what is open, after  *)
(* which it asks for $disconnect.  That the gateway may refuse is ignored. *)
Closed(c) == [gateway EXCEPT ![c] = IF @ = "open" THEN "closed" ELSE @]
Drops(c) ==
  /\ rows' = [rows EXCEPT ![c] = NoRow]
  /\ gateway' \in {gateway, Closed(c)}

-----------------------------------------------------------------------------
(* The ingest.                                                             *)

Invoked(i, n) ==
  /\ ~Busy(i) /\ invoked < MaxInvocations
  /\ invoked' = invoked + 1
  /\ ingest' = [ingest EXCEPT ![i] = [Resting EXCEPT !.phase = "update", !.report = n]]
  /\ UNCHANGED <<sources, state, rows, index, gateway, requests, updated, posted>>

(* Mutant: the row is written whatever it says.                            *)
OverwritesState(i) ==
  /\ ingest[i].phase = "update"
  /\ updated' = updated \cup {ingest[i].report}
  /\ state' = [state EXCEPT ![VehicleOf(i)] = ingest[i].report]
  /\ ingest' = [ingest EXCEPT ![i].phase = "query"]
  /\ UNCHANGED <<sources, rows, index, gateway, requests, invoked, posted>>

(* update_item on the condition that the row is not newer.                 *)
UpdatesState(i) ==
  /\ ingest[i].phase = "update"
  /\ updated' = updated \cup {ingest[i].report}
  /\ LET n == ingest[i].report  v == VehicleOf(i) IN
     \/ /\ state[v] <= n
        /\ state' = [state EXCEPT ![v] = n]
        /\ ingest' = [ingest EXCEPT ![i].phase = "query"]
     \/ /\ state[v] > n
        /\ ingest' = [ingest EXCEPT ![i] = Resting]
        /\ UNCHANGED state
  /\ UNCHANGED <<sources, rows, index, gateway, requests, invoked, posted>>

(* The index is behind the table: it may miss what is there and show what  *)
(* was.  The time is taken once, before the loop over its answer.          *)
QueriesIndex(i) ==
  /\ ingest[i].phase = "query"
  /\ \E keys \in SUBSET {c \in Connections : <<c, VehicleOf(i)>> \in index} :
       ingest' = [ingest EXCEPT ![i].phase = "loop", ![i].keys = keys, ![i].valid = tokens,
                                ![i].viewed = VehicleOf(i) \in access]
  /\ UNCHANGED <<sources, state, rows, index, gateway, requests, invoked, updated, posted>>

(* The loop goes on, after its connection or with a next one.              *)
Loops(i) == [ingest EXCEPT ![i].phase = "loop", ![i].at = "none"]
Without(i, c) == [ingest EXCEPT ![i].keys = @ \ {c}]

(* An orphan, which has no user and no expiry, is an expired connection.   *)
Served(i, c) == rows[c] # NoRow /\ rows[c].owned /\ c \in ingest[i].valid

ReadsRow(i, c) ==
  /\ ingest[i].phase = "loop" /\ c \in ingest[i].keys
  /\ IF Served(i, c)
       THEN /\ ingest' = [Without(i, c) EXCEPT ![i].phase = "access", ![i].at = c]
            /\ UNCHANGED <<rows, gateway>>
       ELSE Drops(c) /\ ingest' = Without(i, c)
  /\ UNCHANGED <<sources, state, index, requests, invoked, updated, posted>>

(* Mutant: the assignment was checked at subscribe, and is not again.      *)
TrustsSubscription(i) ==
  /\ ingest[i].phase = "access"
  /\ ingest' = [ingest EXCEPT ![i].phase = "post"]
  /\ UNCHANGED <<sources, state, rows, index, gateway, requests, invoked, updated, posted>>

ReadsAccess(i) ==
  /\ ingest[i].phase = "access"
  /\ IF VehicleOf(i) \in access
       THEN ingest' = [ingest EXCEPT ![i].phase = "post"] /\ UNCHANGED <<rows, gateway>>
       ELSE Drops(ingest[i].at) /\ ingest' = Loops(i)
  /\ UNCHANGED <<sources, state, index, requests, invoked, updated, posted>>

(* post_to_connection(): a connection that is gone loses its row; another  *)
(* error is only logged.                                                   *)
Posts(i) ==
  /\ ingest[i].phase = "post"
  /\ LET c == ingest[i].at IN
     \/ /\ gateway[c] = "open"
        /\ posted' = [valid |-> c \in ingest[i].valid, viewed |-> ingest[i].viewed]
        /\ UNCHANGED rows
     \/ /\ gateway[c] = "closed"
        /\ rows' = [rows EXCEPT ![c] = NoRow]
        /\ UNCHANGED posted
     \/ UNCHANGED <<rows, posted>>
  /\ ingest' = Loops(i)
  /\ UNCHANGED <<sources, state, index, gateway, requests, invoked, updated>>

(* The loop is over, or a call failed, or Lambda stopped the invocation.   *)
InvocationEnds(i) ==
  /\ Busy(i)
  /\ ingest' = [ingest EXCEPT ![i] = Resting]
  /\ UNCHANGED <<sources, state, rows, index, gateway, requests, invoked, updated, posted>>

-----------------------------------------------------------------------------
(* The live handler.                                                       *)

Asks(route, c, v) ==
  /\ Cardinality(requests) < MaxRequests
  /\ requests' = requests \cup {[route |-> route, connection |-> c, vehicle |-> v, phase |-> "row"]}

(* $connect, with a token the authorizer found valid.                      *)
Connects(c) ==
  /\ gateway[c] = "unused"
  /\ gateway' = [gateway EXCEPT ![c] = "open"]
  /\ rows' = [rows EXCEPT ![c] = [owned |-> TRUE, vehicle |-> "none"]]
  /\ tokens' = tokens \cup {c}
  /\ UNCHANGED <<access, state, index, requests, ingest, invoked, updated, posted>>

Sends(c) ==
  /\ gateway[c] = "open"
  /\ Asks("ping", c, "none") \/ \E v \in Vehicles : Asks("subscribe", c, v)
  /\ UNCHANGED <<sources, state, rows, index, gateway, ingest, invoked, updated, posted>>

(* The browser closes its connection or loses it; $disconnect follows, at  *)
(* some time or never.                                                     *)
Leaves(c) ==
  /\ gateway[c] = "open"
  /\ gateway' = [gateway EXCEPT ![c] = "closed"]
  /\ UNCHANGED <<sources, state, rows, index, requests, ingest, invoked, updated, posted>>

Disconnects(c) ==
  /\ gateway[c] = "closed" /\ rows[c] # NoRow
  /\ rows' = [rows EXCEPT ![c] = NoRow]
  /\ UNCHANGED <<sources, state, index, gateway, requests, ingest, invoked, updated, posted>>

Proceeds(q, phase) == requests' = (requests \ {q}) \cup {[q EXCEPT !.phase = phase]}
Answered(q) == requests' = requests \ {q}

Known(c) == rows[c] # NoRow /\ rows[c].owned /\ c \in tokens

(* subscribe and ping read the row of the connection; ping asks about the  *)
(* vehicle the row names.                                                  *)
RequestReadsRow(q) ==
  /\ q.phase = "row"
  /\ LET c == q.connection IN
     \/ ~Known(c) /\ Drops(c) /\ Answered(q)
     \/ /\ Known(c) /\ q.route = "subscribe"
        /\ Proceeds(q, "access") /\ UNCHANGED <<rows, gateway>>
     \/ /\ Known(c) /\ q.route = "ping"
        /\ IF rows[c].vehicle = "none" THEN Answered(q)
           ELSE requests' = (requests \ {q})
                              \cup {[q EXCEPT !.phase = "access", !.vehicle = rows[c].vehicle]}
        /\ UNCHANGED <<rows, gateway>>
  /\ UNCHANGED <<sources, state, index, ingest, invoked, updated, posted>>

RequestReadsAccess(q) ==
  /\ q.phase = "access"
  /\ LET c == q.connection IN
     \/ /\ q.vehicle \in access
        /\ IF q.route = "subscribe" THEN Proceeds(q, "update") ELSE Answered(q)
        /\ UNCHANGED <<rows, gateway>>
     \/ q.vehicle \notin access /\ q.route = "subscribe" /\ Answered(q) /\ UNCHANGED <<rows, gateway>>
     \/ q.vehicle \notin access /\ q.route = "ping" /\ Drops(c) /\ Answered(q)
  /\ UNCHANGED <<sources, state, index, ingest, invoked, updated, posted>>

(* update_item without a condition: it makes a row of a connection that    *)
(* was deleted meanwhile, one with neither user nor expiry.                *)
Subscribes(q) ==
  /\ q.phase = "update"
  /\ LET c == q.connection IN
     /\ rows' = [rows EXCEPT ![c] = [owned |-> @ # NoRow /\ @.owned, vehicle |-> q.vehicle]]
     /\ index' = index \cup {<<c, q.vehicle>>}
  /\ Answered(q)
  /\ UNCHANGED <<sources, state, gateway, ingest, invoked, updated, posted>>

RequestFails(q) ==
  /\ Answered(q)
  /\ UNCHANGED <<sources, state, rows, index, gateway, ingest, invoked, updated, posted>>

-----------------------------------------------------------------------------
(* The world.                                                              *)

TokenExpires(c) ==
  /\ c \in tokens
  /\ tokens' = tokens \ {c}
  /\ UNCHANGED <<access, state, rows, index, gateway, requests, ingest, invoked,
                 updated, posted>>

(* The table's time to live, which an orphan does not have.                *)
RowExpires(c) ==
  /\ rows[c] # NoRow /\ rows[c].owned /\ c \notin tokens
  /\ rows' = [rows EXCEPT ![c] = NoRow]
  /\ UNCHANGED <<sources, state, index, gateway, requests, ingest, invoked, updated, posted>>

AccessChanges(v) ==
  /\ access' = IF v \in access THEN access \ {v} ELSE access \cup {v}
  /\ ingest' = [i \in Ingests |->
       IF ingest[i].phase \in {"loop", "access", "post"} /\ v \in access' /\ VehicleOf(i) = v
         THEN [ingest[i] EXCEPT !.viewed = TRUE] ELSE ingest[i]]
  /\ UNCHANGED <<tokens, state, rows, index, gateway, requests, invoked, updated, posted>>

IngestStep(i) ==
  \/ \E n \in DOMAIN Reports : Invoked(i, n)
  \/ \E c \in Connections : ReadsRow(i, c)
  \/ UpdatesState(i) \/ QueriesIndex(i) \/ ReadsAccess(i) \/ Posts(i) \/ InvocationEnds(i)

ConnectionStep(c) ==
  Connects(c) \/ Sends(c) \/ Leaves(c) \/ Disconnects(c) \/ TokenExpires(c) \/ RowExpires(c)

RequestStep(q) ==
  RequestReadsRow(q) \/ RequestReadsAccess(q) \/ Subscribes(q) \/ RequestFails(q)

IngestNext ==
  \/ \E v \in Vehicles : AccessChanges(v)
  \/ \E i \in Ingests : IngestStep(i)
  \/ \E c \in Connections : ConnectionStep(c)
  \/ \E q \in requests : RequestStep(q)

IngestSpec == IngestInit /\ [][IngestNext]_ingestVars

-----------------------------------------------------------------------------
IngestTypeOK ==
  /\ state \in [Vehicles -> Nat]
  /\ rows \in [Connections -> Row \cup {NoRow}]
  /\ gateway \in [Connections -> {"unused", "open", "closed"}]
  /\ requests \subseteq Request
  /\ \A i \in Ingests : Busy(i) => ingest[i].report \in DOMAIN Reports

(* State says the newest report of the vehicle that any invocation has     *)
(* brought, in whatever order and however often they came.                 *)
NewestIsKept ==
  \A v \in Vehicles :
    LET seen == {n \in updated : Reports[n] = v}
    IN state[v] = IF seen = {} THEN 0 ELSE CHOOSE n \in seen : \A m \in seen : m <= n

(* A message went to a connection whose user has been ACTIVE for the       *)
(* vehicle since the fan-out began and whose token was valid then: not to  *)
(* one that was revoked, expired or resurrected before.                    *)
OnlyViewersAreSent == posted.valid /\ posted.viewed
=============================================================================
