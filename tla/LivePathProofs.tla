---------------------------- MODULE LivePathProofs ----------------------------
(***************************************************************************)
(* What the two ends of the live path promise: StateIngest of the State    *)
(* table and of the fan-out, for any vehicles, connections, reports, and   *)
(* concurrent or repeated invocations, and LiveDashboard of the values on  *)
(* the page, for any number of vehicles, values, clients, lists under way  *)
(* and choices of the user.                                                *)
(***************************************************************************)
EXTENDS StateIngest, LiveDashboard, WellFoundedInduction, TLAPS

-----------------------------------------------------------------------------
(* StateIngest.                                                            *)

Phases == {"idle", "update", "query", "loop", "access", "post"}
Invocation == [phase: Phases, report: Nat, keys: SUBSET Connections,
               at: Connections \cup {"none"}, valid: SUBSET Connections, viewed: BOOLEAN]

(* The types the two results need beyond IngestTypeOK.                     *)
IngestTypeInv ==
  /\ IngestTypeOK
  /\ ingest \in [Ingests -> Invocation]
  /\ \A i \in Ingests : ingest[i].phase \in {"access", "post"} => ingest[i].at \in Connections
  /\ tokens \subseteq Connections
  /\ updated \subseteq DOMAIN Reports

(* The row of a vehicle is 0 before its first report, and the newest of    *)
(* those that have been brought afterwards.                                *)
Brought(v) == {n \in updated : Reports[n] = v}
RowIsNewest(v) ==
  \/ state[v] = 0 /\ Brought(v) = {}
  \/ state[v] \in Brought(v) /\ \A m \in Brought(v) : m <= state[v]
NewestInv == \A v \in Vehicles : RowIsNewest(v)

(* The connection an invocation serves had a valid token when it took the  *)
(* time, and an invocation whose user is ACTIVE or that is about to send   *)
(* has seen that.                                                          *)
Serving(q) == q.phase \in {"access", "post"} => q.at \in q.valid
Seen(q) == q.phase = "post" => q.viewed
SeesNow(q) ==
  q.phase \in {"loop", "access", "post"} /\ Reports[q.report] \in access => q.viewed
FanOut(q) == Serving(q) /\ Seen(q)

ViewersInv ==
  /\ \A i \in Ingests : FanOut(ingest[i]) /\ SeesNow(ingest[i])
  /\ OnlyViewersAreSent

-----------------------------------------------------------------------------
(* Types.                                                                  *)

LEMMA Indices == DOMAIN Reports \subseteq Nat \ {0} /\ \A n \in DOMAIN Reports : Reports[n] \in Vehicles
BY ReportsAreOfVehicles DEF ReportsAreOfVehicles

LEMMA RestingIsInvocation == Resting \in Invocation
BY DEF Resting, Invocation, Phases

LEMMA IngestTypesStart ==
  ASSUME IngestInit
  PROVE  IngestTypeInv
BY RestingIsInvocation DEF IngestInit, IngestTypeInv, IngestTypeOK, Busy, Resting

(* What dropping a connection leaves.                                      *)
LEMMA DropsKeepTypes ==
  ASSUME IngestTypeOK, NEW c \in Connections, Drops(c)
  PROVE  /\ rows' \in [Connections -> Row \cup {NoRow}]
         /\ gateway' \in [Connections -> {"unused", "open", "closed"}]
BY DEF Drops, Closed, IngestTypeOK

LEMMA IngestKeepsTypes ==
  ASSUME IngestTypeInv, NEW i \in Ingests, IngestStep(i)
  PROVE  IngestTypeInv'
<1> USE DEF Invocation, Phases
<1>0. ingest[i] \in Invocation
  BY DEF IngestTypeInv
<1>1. ASSUME NEW n \in DOMAIN Reports, Invoked(i, n)
      PROVE  IngestTypeInv'
  BY <1>1, RestingIsInvocation, Indices
  DEF Invoked, IngestTypeInv, IngestTypeOK, Busy, Resting, sources
<1>2. ASSUME NEW c \in Connections, ReadsRow(i, c)
      PROVE  IngestTypeInv'
  <2>1. /\ rows' \in [Connections -> Row \cup {NoRow}]
        /\ gateway' \in [Connections -> {"unused", "open", "closed"}]
    BY <1>2, DropsKeepTypes DEF ReadsRow, IngestTypeInv, IngestTypeOK
  <2>2. /\ \A j \in Ingests \ {i} : ingest'[j] = ingest[j]
        /\ ingest'[i] \in Invocation /\ ingest'[i].report = ingest[i].report
        /\ ingest'[i].phase \in {"access", "post"} => ingest'[i].at \in Connections
        /\ ingest' \in [Ingests -> Invocation]
    <3>1. CASE ingest' = [Without(i, c) EXCEPT ![i].phase = "access", ![i].at = c]
      BY <1>0, <3>1 DEF Without, IngestTypeInv
    <3>2. CASE ingest' = Without(i, c)
      BY <1>0, <1>2, <3>2 DEF ReadsRow, Without, IngestTypeInv
    <3> QED  BY <1>2, <3>1, <3>2 DEF ReadsRow
  <2> QED  BY <1>0, <1>2, <2>1, <2>2 DEF ReadsRow, IngestTypeInv, IngestTypeOK, Busy, sources
<1>3. CASE UpdatesState(i)
  <2>1. ingest[i].report \in DOMAIN Reports /\ VehicleOf(i) \in Vehicles
    BY <1>3, Indices DEF UpdatesState, IngestTypeInv, IngestTypeOK, Busy, VehicleOf
  <2>2. state' \in [Vehicles -> Nat] /\ updated' \subseteq DOMAIN Reports
    BY <1>3, <2>1, Indices DEF UpdatesState, IngestTypeInv, IngestTypeOK
  <2>3. /\ ingest' \in [Ingests -> Invocation]
        /\ \A j \in Ingests \ {i} : ingest'[j] = ingest[j]
        /\ ingest'[i].phase \in {"query", "idle"}
        /\ ingest'[i].phase = "query" => ingest'[i].report = ingest[i].report
    <3>1. CASE ingest' = [ingest EXCEPT ![i].phase = "query"]
      BY <1>0, <3>1 DEF IngestTypeInv
    <3>2. CASE ingest' = [ingest EXCEPT ![i] = Resting]
      BY <3>2, RestingIsInvocation DEF IngestTypeInv, Resting
    <3> QED  BY <1>3, <3>1, <3>2 DEF UpdatesState
  <2> QED  BY <1>3, <2>1, <2>2, <2>3 DEF UpdatesState, IngestTypeInv, IngestTypeOK, Busy, sources
<1>4. CASE QueriesIndex(i)
  <2>1. PICK keys \in SUBSET Connections, viewed \in BOOLEAN :
          ingest' = [ingest EXCEPT ![i].phase = "loop", ![i].keys = keys, ![i].valid = tokens,
                                   ![i].viewed = viewed]
    <3>1. (VehicleOf(i) \in access) \in BOOLEAN
      OBVIOUS
    <3> QED  BY <1>4, <3>1 DEF QueriesIndex
  <2>2. /\ ingest' \in [Ingests -> Invocation]
        /\ \A j \in Ingests \ {i} : ingest'[j] = ingest[j]
        /\ ingest'[i].phase = "loop" /\ ingest'[i].report = ingest[i].report
    BY <1>0, <2>1 DEF IngestTypeInv
  <2> QED  BY <1>4, <2>2 DEF QueriesIndex, IngestTypeInv, IngestTypeOK, Busy, sources
<1>5. CASE ReadsAccess(i)
  <2>1. /\ rows' \in [Connections -> Row \cup {NoRow}]
        /\ gateway' \in [Connections -> {"unused", "open", "closed"}]
    BY <1>5, DropsKeepTypes DEF ReadsAccess, IngestTypeInv, IngestTypeOK
  <2> QED  BY <1>0, <1>5, <2>1 DEF ReadsAccess, Loops, IngestTypeInv, IngestTypeOK, Busy, sources
<1>6. CASE Posts(i)
  BY <1>0, <1>6 DEF Posts, Loops, IngestTypeInv, IngestTypeOK, Busy, sources
<1>7. CASE InvocationEnds(i)
  BY <1>7, RestingIsInvocation DEF InvocationEnds, IngestTypeInv, IngestTypeOK, Busy, Resting, sources
<1> QED  BY <1>1, <1>2, <1>3, <1>4, <1>5, <1>6, <1>7 DEF IngestStep

LEMMA ConnectionKeepsTypes ==
  ASSUME IngestTypeInv, NEW c \in Connections, ConnectionStep(c)
  PROVE  IngestTypeInv'
<1>1. CASE Connects(c)
  BY <1>1 DEF Connects, IngestTypeInv, IngestTypeOK, Busy, Row
<1>2. CASE Sends(c)
  BY <1>2 DEF Sends, Asks, IngestTypeInv, IngestTypeOK, Busy, Request, sources
<1>3. CASE Leaves(c)
  BY <1>3 DEF Leaves, IngestTypeInv, IngestTypeOK, Busy, sources
<1>4. CASE Disconnects(c)
  BY <1>4 DEF Disconnects, IngestTypeInv, IngestTypeOK, Busy, sources
<1>5. CASE TokenExpires(c)
  BY <1>5 DEF TokenExpires, IngestTypeInv, IngestTypeOK, Busy
<1>6. CASE RowExpires(c)
  BY <1>6 DEF RowExpires, IngestTypeInv, IngestTypeOK, Busy, sources
<1> QED  BY <1>1, <1>2, <1>3, <1>4, <1>5, <1>6 DEF ConnectionStep

LEMMA RequestKeepsTypes ==
  ASSUME IngestTypeInv, NEW q \in requests, RequestStep(q)
  PROVE  IngestTypeInv'
<1>0. q \in Request /\ q.connection \in Connections
  BY DEF IngestTypeInv, IngestTypeOK, Request
<1>1. CASE RequestReadsRow(q)
  <2>1. /\ rows' \in [Connections -> Row \cup {NoRow}]
        /\ gateway' \in [Connections -> {"unused", "open", "closed"}]
    BY <1>0, <1>1, DropsKeepTypes DEF RequestReadsRow, IngestTypeInv, IngestTypeOK
  <2>2. requests' \subseteq Request
    <3>1. CASE Answered(q)
      BY <3>1 DEF Answered, IngestTypeInv, IngestTypeOK
    <3>2. CASE Proceeds(q, "access")
      BY <1>0, <3>2 DEF Proceeds, IngestTypeInv, IngestTypeOK, Request
    <3>3. CASE /\ Known(q.connection)
               /\ requests' = (requests \ {q}) \cup
                    {[q EXCEPT !.phase = "access", !.vehicle = rows[q.connection].vehicle]}
      <4>1. rows[q.connection].vehicle \in Vehicles \cup {"none"}
        BY <1>0, <3>3 DEF Known, IngestTypeInv, IngestTypeOK, Row
      <4> QED  BY <1>0, <3>3, <4>1 DEF IngestTypeInv, IngestTypeOK, Request
    <3> QED  BY <1>1, <3>1, <3>2, <3>3 DEF RequestReadsRow
  <2> QED  BY <1>1, <2>1, <2>2 DEF RequestReadsRow, IngestTypeInv, IngestTypeOK, Busy, sources
<1>2. CASE RequestReadsAccess(q)
  <2>1. /\ rows' \in [Connections -> Row \cup {NoRow}]
        /\ gateway' \in [Connections -> {"unused", "open", "closed"}]
    BY <1>0, <1>2, DropsKeepTypes DEF RequestReadsAccess, IngestTypeInv, IngestTypeOK
  <2>2. requests' \subseteq Request
    BY <1>0, <1>2 DEF RequestReadsAccess, Answered, Proceeds, IngestTypeInv, IngestTypeOK, Request
  <2> QED  BY <1>2, <2>1, <2>2 DEF RequestReadsAccess, IngestTypeInv, IngestTypeOK, Busy, sources
<1>3. CASE Subscribes(q)
  BY <1>0, <1>3 DEF Subscribes, Answered, IngestTypeInv, IngestTypeOK, Busy, Request, Row, sources
<1>4. CASE RequestFails(q)
  BY <1>4 DEF RequestFails, Answered, IngestTypeInv, IngestTypeOK, Busy, sources
<1> QED  BY <1>1, <1>2, <1>3, <1>4 DEF RequestStep

LEMMA IngestTypesKept ==
  ASSUME IngestTypeInv, [IngestNext]_ingestVars
  PROVE  IngestTypeInv'
<1>1. ASSUME NEW v \in Vehicles, AccessChanges(v)
      PROVE  IngestTypeInv'
  <2>1. ASSUME NEW i \in Ingests
        PROVE  /\ ingest'[i] \in Invocation /\ ingest'[i].report = ingest[i].report
               /\ ingest'[i].phase = ingest[i].phase /\ ingest'[i].at = ingest[i].at
    BY <1>1 DEF AccessChanges, IngestTypeInv, Invocation, Phases
  <2>2. ingest' \in [Ingests -> Invocation]
    BY <1>1, <2>1 DEF AccessChanges
  <2> QED  BY <1>1, <2>1, <2>2 DEF AccessChanges, IngestTypeInv, IngestTypeOK, Busy
<1>2. CASE UNCHANGED ingestVars
  BY <1>2 DEF ingestVars, IngestTypeInv, IngestTypeOK, Busy
<1> QED  BY <1>1, <1>2, IngestKeepsTypes, ConnectionKeepsTypes, RequestKeepsTypes DEF IngestNext

(* Types: the rows, requests and invocations of the ingest and the live    *)
(* handler keep theirs.                                                    *)
THEOREM IngestTyped == IngestSpec => []IngestTypeOK
<1>1. IngestInit => IngestTypeInv
  BY IngestTypesStart
<1>2. IngestTypeInv /\ [IngestNext]_ingestVars => IngestTypeInv'
  BY IngestTypesKept
<1>3. IngestTypeInv => IngestTypeOK
  BY DEF IngestTypeInv
<1> QED  BY <1>1, <1>2, <1>3, PTL DEF IngestSpec

-----------------------------------------------------------------------------
(* The State table.                                                        *)

(* What NewestInv says is what the property chooses.                       *)
LEMMA NewestIsChosen ==
  ASSUME IngestTypeInv, NewestInv
  PROVE  NewestIsKept
<1> SUFFICES ASSUME NEW v \in Vehicles
             PROVE  state[v] = IF Brought(v) = {} THEN 0
                               ELSE CHOOSE n \in Brought(v) : \A m \in Brought(v) : m <= n
  BY DEF NewestIsKept, Brought
<1>1. Brought(v) \subseteq Nat /\ RowIsNewest(v)
  BY Indices DEF IngestTypeInv, Brought, NewestInv
<1>2. CASE Brought(v) = {}
  BY <1>1, <1>2 DEF RowIsNewest
<1>3. CASE Brought(v) # {}
  <2>1. state[v] \in Brought(v) /\ \A m \in Brought(v) : m <= state[v]
    BY <1>1, <1>3 DEF RowIsNewest
  <2>2. \A n \in Brought(v) : (\A m \in Brought(v) : m <= n) => n = state[v]
    BY <1>1, <2>1
  <2> QED  BY <1>3, <2>1, <2>2
<1> QED  BY <1>2, <1>3

LEMMA NewestKept ==
  ASSUME IngestTypeInv, NewestInv, [IngestNext]_ingestVars
  PROVE  NewestInv'
<1>1. ASSUME NEW i \in Ingests, UpdatesState(i)
      PROVE  NewestInv'
  <2>1. PICK n \in DOMAIN Reports, v \in Vehicles :
          n = ingest[i].report /\ v = Reports[n] /\ n \in Nat
    BY <1>1, Indices DEF UpdatesState, IngestTypeInv, IngestTypeOK, Busy
  <2>2. updated' = updated \cup {n}
    BY <1>1, <2>1 DEF UpdatesState
  <2>3. \/ state[v] <= n /\ state' = [state EXCEPT ![v] = n]
        \/ state[v] > n /\ state' = state
    BY <1>1, <2>1 DEF UpdatesState, VehicleOf
  <2>4. ASSUME NEW w \in Vehicles, w # v
        PROVE  RowIsNewest(w)'
    <3>1. Brought(w)' = Brought(w) /\ state'[w] = state[w]
      BY <2>1, <2>2, <2>3, <2>4 DEF Brought, IngestTypeInv, IngestTypeOK
    <3> QED  BY <3>1 DEF RowIsNewest, NewestInv
  <2>5. Brought(v)' = Brought(v) \cup {n} /\ state[v] \in Nat /\ Brought(v) \subseteq Nat
    BY <2>1, <2>2, Indices DEF Brought, IngestTypeInv, IngestTypeOK
  <2>6. RowIsNewest(v)
    BY <2>1 DEF NewestInv
  <2>7. CASE state[v] <= n /\ state' = [state EXCEPT ![v] = n]
    <3>1. state'[v] = n
      BY <2>1, <2>7 DEF IngestTypeInv, IngestTypeOK
    <3>2. \A m \in Brought(v) : m <= n
      BY <2>1, <2>5, <2>6, <2>7 DEF RowIsNewest
    <3> QED  BY <2>1, <2>4, <2>5, <3>1, <3>2 DEF RowIsNewest, NewestInv
  <2>8. CASE state[v] > n /\ state' = state
    BY <2>1, <2>4, <2>5, <2>6, <2>8 DEF RowIsNewest, NewestInv
  <2> QED  BY <2>3, <2>7, <2>8
<1>2. ASSUME UNCHANGED <<state, updated>>
      PROVE  NewestInv'
  BY <1>2 DEF NewestInv, RowIsNewest, Brought
<1>3. CASE \E i \in Ingests : IngestStep(i)
  BY <1>1, <1>2, <1>3
  DEF IngestStep, Invoked, ReadsRow, QueriesIndex, ReadsAccess, Posts, InvocationEnds
<1>4. CASE \E c \in Connections : ConnectionStep(c)
  BY <1>2, <1>4
  DEF ConnectionStep, Connects, Sends, Leaves, Disconnects, TokenExpires, RowExpires
<1>5. CASE \E q \in requests : RequestStep(q)
  BY <1>2, <1>5
  DEF RequestStep, RequestReadsRow, RequestReadsAccess, Subscribes, RequestFails
<1>6. CASE \E v \in Vehicles : AccessChanges(v)
  BY <1>2, <1>6 DEF AccessChanges
<1>7. CASE UNCHANGED ingestVars
  BY <1>2, <1>7 DEF ingestVars
<1> QED  BY <1>3, <1>4, <1>5, <1>6, <1>7 DEF IngestNext

(* In whatever order the reports come, and however often and concurrently  *)
(* each one is handled, State says the newest that was brought.            *)
THEOREM NewestStays == IngestSpec => []NewestIsKept
<1>1. IngestInit => IngestTypeInv /\ NewestInv
  BY IngestTypesStart DEF IngestInit, NewestInv, RowIsNewest, Brought
<1>2. IngestTypeInv /\ NewestInv /\ [IngestNext]_ingestVars => IngestTypeInv' /\ NewestInv'
  BY IngestTypesKept, NewestKept
<1>3. IngestTypeInv /\ NewestInv => NewestIsKept
  BY NewestIsChosen
<1> QED  BY <1>1, <1>2, <1>3, PTL DEF IngestSpec

-----------------------------------------------------------------------------
(* The fan-out.                                                            *)

LEMMA ViewersStart ==
  ASSUME IngestInit
  PROVE  ViewersInv
BY DEF IngestInit, ViewersInv, FanOut, Serving, Seen, SeesNow, OnlyViewersAreSent, Resting

(* Nothing else than the invocations, the accesses and the message sent    *)
(* matters.                                                                *)
LEMMA ViewersUndisturbed ==
  ASSUME ViewersInv, UNCHANGED <<ingest, access, posted>>
  PROVE  ViewersInv'
BY DEF ViewersInv, FanOut, Serving, Seen, SeesNow, OnlyViewersAreSent

(* A step of one invocation that sends nothing.                            *)
LEMMA OneInvocation ==
  ASSUME ViewersInv, NEW i \in Ingests, UNCHANGED <<access, posted>>,
         \A j \in Ingests \ {i} : ingest'[j] = ingest[j],
         FanOut(ingest'[i]), SeesNow(ingest'[i])
  PROVE  ViewersInv'
BY DEF ViewersInv, FanOut, Serving, Seen, SeesNow, OnlyViewersAreSent

LEMMA ViewersKept ==
  ASSUME IngestTypeInv, ViewersInv, [IngestNext]_ingestVars
  PROVE  ViewersInv'
<1>1. ASSUME NEW i \in Ingests, IngestStep(i)
      PROVE  ViewersInv'
  <2> USE DEF FanOut, Serving, Seen, SeesNow
  <2>0. ingest[i] \in Invocation /\ FanOut(ingest[i]) /\ SeesNow(ingest[i])
    BY DEF IngestTypeInv, ViewersInv
  <2>1. ASSUME NEW n \in DOMAIN Reports, Invoked(i, n)
        PROVE  ViewersInv'
    <3>1. ingest'[i].phase = "update" /\ \A j \in Ingests \ {i} : ingest'[j] = ingest[j]
      BY <2>1 DEF Invoked, Resting, IngestTypeInv
    <3> QED  BY <2>1, <3>1, OneInvocation DEF Invoked, sources
  <2>2. ASSUME NEW c \in Connections, ReadsRow(i, c)
        PROVE  ViewersInv'
    <3>1. \A j \in Ingests \ {i} : ingest'[j] = ingest[j]
      BY <2>2 DEF ReadsRow, Without, IngestTypeInv
    <3>2. FanOut(ingest'[i]) /\ SeesNow(ingest'[i])
      <4>1. CASE Served(i, c)
        BY <2>0, <2>2, <4>1 DEF ReadsRow, Without, Served, IngestTypeInv, Invocation
      <4>2. CASE ~Served(i, c)
        BY <2>0, <2>2, <4>2 DEF ReadsRow, Without, IngestTypeInv, Invocation
      <4> QED  BY <4>1, <4>2
    <3> QED  BY <2>2, <3>1, <3>2, OneInvocation DEF ReadsRow, sources
  <2>3. CASE UpdatesState(i)
    <3>1. /\ \A j \in Ingests \ {i} : ingest'[j] = ingest[j]
          /\ ingest'[i].phase \in {"query", "idle"}
      BY <2>0, <2>3 DEF UpdatesState, IngestTypeInv, Invocation, Resting
    <3> QED  BY <2>3, <3>1, OneInvocation DEF UpdatesState, sources
  <2>4. CASE QueriesIndex(i)
    <3>1. \A j \in Ingests \ {i} : ingest'[j] = ingest[j]
      BY <2>4 DEF QueriesIndex, IngestTypeInv
    <3>2. /\ ingest'[i].phase = "loop" /\ ingest'[i].report = ingest[i].report
          /\ ingest'[i].viewed <=> VehicleOf(i) \in access
      BY <2>0, <2>4 DEF QueriesIndex, IngestTypeInv, Invocation
    <3>3. FanOut(ingest'[i])
      BY <3>2
    <3>4. SeesNow(ingest'[i])
      BY <3>2 DEF VehicleOf
    <3> QED  BY <2>4, <3>1, <3>3, <3>4, OneInvocation DEF QueriesIndex, sources
  <2>5. CASE ReadsAccess(i)
    <3>1. \A j \in Ingests \ {i} : ingest'[j] = ingest[j]
      BY <2>5 DEF ReadsAccess, Loops, IngestTypeInv
    <3>2. CASE VehicleOf(i) \in access
      <4>1. ingest[i].viewed
        BY <2>0, <2>5, <3>2 DEF ReadsAccess, VehicleOf
      <4>2. /\ ingest'[i].phase = "post" /\ ingest'[i].viewed = ingest[i].viewed
            /\ ingest'[i].at = ingest[i].at /\ ingest'[i].valid = ingest[i].valid
        BY <2>0, <2>5, <3>2 DEF ReadsAccess, IngestTypeInv, Invocation
      <4>3. Serving(ingest'[i])
        BY <2>0, <2>5, <4>2 DEF ReadsAccess
      <4> QED  BY <2>5, <3>1, <4>1, <4>2, <4>3, OneInvocation DEF ReadsAccess, sources
    <3>3. CASE VehicleOf(i) \notin access
      <4>1. ingest'[i].phase = "loop" /\ ingest'[i].report = ingest[i].report
        BY <2>0, <2>5, <3>3 DEF ReadsAccess, Loops, IngestTypeInv, Invocation
      <4> QED  BY <2>5, <3>1, <3>3, <4>1, OneInvocation DEF ReadsAccess, VehicleOf, sources
    <3> QED  BY <3>2, <3>3
  <2>6. CASE Posts(i)
    <3>1. /\ \A j \in Ingests \ {i} : ingest'[j] = ingest[j]
          /\ ingest'[i].phase = "loop" /\ ingest'[i].report = ingest[i].report
          /\ ingest'[i].viewed = ingest[i].viewed
      BY <2>0, <2>6 DEF Posts, Loops, IngestTypeInv, Invocation
    <3>2. ingest[i].viewed /\ ingest[i].at \in ingest[i].valid
      BY <2>0, <2>6 DEF Posts
    <3>3. OnlyViewersAreSent'
      <4>1. (ingest[i].at \in ingest[i].valid) = TRUE
        BY <3>2
      <4>2. \/ posted' = [valid |-> TRUE, viewed |-> ingest[i].viewed]
            \/ posted' = posted
        BY <2>6, <4>1 DEF Posts
      <4> QED  BY <3>2, <4>2 DEF OnlyViewersAreSent, ViewersInv
    <3>4. FanOut(ingest'[i]) /\ SeesNow(ingest'[i])
      BY <3>1, <3>2
    <3>5. access' = access /\ \A j \in Ingests : FanOut(ingest'[j]) /\ SeesNow(ingest'[j])
      BY <2>6, <3>1, <3>4 DEF Posts, ViewersInv, sources
    <3> QED  BY <3>3, <3>5 DEF ViewersInv
  <2>7. CASE InvocationEnds(i)
    <3>1. ingest'[i].phase = "idle" /\ \A j \in Ingests \ {i} : ingest'[j] = ingest[j]
      BY <2>7 DEF InvocationEnds, Resting, IngestTypeInv
    <3> QED  BY <2>7, <3>1, OneInvocation DEF InvocationEnds, sources
  <2> QED  BY <1>1, <2>1, <2>2, <2>3, <2>4, <2>5, <2>6, <2>7 DEF IngestStep
<1>2. ASSUME NEW v \in Vehicles, AccessChanges(v)
      PROVE  ViewersInv'
  <2>1. ASSUME NEW i \in Ingests
        PROVE  (FanOut(ingest[i]) /\ SeesNow(ingest[i]))'
    <3>0. ingest[i] \in Invocation /\ FanOut(ingest[i]) /\ SeesNow(ingest[i])
      BY DEF IngestTypeInv, ViewersInv
    <3>1. CASE /\ ingest[i].phase \in {"loop", "access", "post"}
               /\ v \in access' /\ VehicleOf(i) = v
      <4>1. /\ ingest'[i].viewed /\ ingest'[i].phase = ingest[i].phase
            /\ ingest'[i].at = ingest[i].at /\ ingest'[i].valid = ingest[i].valid
        BY <1>2, <3>0, <3>1 DEF AccessChanges, Invocation
      <4> QED  BY <3>0, <4>1 DEF FanOut, Serving, Seen, SeesNow
    <3>2. CASE ~(/\ ingest[i].phase \in {"loop", "access", "post"}
                 /\ v \in access' /\ VehicleOf(i) = v)
      <4>1. ingest'[i] = ingest[i]
        BY <1>2, <3>2 DEF AccessChanges
      <4>2. access' \subseteq access \cup {v}
        BY <1>2 DEF AccessChanges
      <4> QED  BY <3>0, <3>2, <4>1, <4>2 DEF FanOut, Serving, Seen, SeesNow, VehicleOf
    <3> QED  BY <3>1, <3>2
  <2> QED  BY <1>2, <2>1 DEF ViewersInv, AccessChanges, OnlyViewersAreSent
<1>3. CASE \E c \in Connections : ConnectionStep(c)
  BY <1>3, ViewersUndisturbed
  DEF ConnectionStep, Connects, Sends, Leaves, Disconnects, TokenExpires, RowExpires, sources
<1>4. CASE \E q \in requests : RequestStep(q)
  BY <1>4, ViewersUndisturbed
  DEF RequestStep, RequestReadsRow, RequestReadsAccess, Subscribes, RequestFails, sources
<1>5. CASE UNCHANGED ingestVars
  BY <1>5, ViewersUndisturbed DEF ingestVars
<1> QED  BY <1>1, <1>2, <1>3, <1>4, <1>5 DEF IngestNext

(* Revocation, expiry and a row that comes back after its deletion let no  *)
(* message through, whatever the index still shows.                        *)
THEOREM OnlyViewers == IngestSpec => []OnlyViewersAreSent
<1>1. IngestInit => IngestTypeInv /\ ViewersInv
  BY IngestTypesStart, ViewersStart
<1>2. IngestTypeInv /\ ViewersInv /\ [IngestNext]_ingestVars => IngestTypeInv' /\ ViewersInv'
  BY IngestTypesKept, ViewersKept
<1>3. ViewersInv => OnlyViewersAreSent
  BY DEF ViewersInv
<1> QED  BY <1>1, <1>2, <1>3, PTL DEF IngestSpec

-----------------------------------------------------------------------------
(* LiveDashboard.                                                          *)

List == [phase: {"none", "asked", "answered"}, vehicles: SUBSET Cars]
Poll == [phase: {"none", "asked", "reading", "answered"},
         vehicle: Cars \cup {None}, value: Nat]

PageTypeInv ==
  /\ PageTypeOK
  /\ lists \in [1..MaxLists -> List]
  /\ poll \in Poll /\ (poll.phase # "none" => poll.vehicle \in Cars)

(* The provider and the page agree on the vehicle unless the provider has  *)
(* none.                                                                   *)
Agreed == active \in {selected, None}

ShownInv == Agreed /\ PageShowsSelected

-----------------------------------------------------------------------------
(* Helpers of the model.                                                   *)

LEMMA Least ==
  ASSUME NEW S \in SUBSET Nat, S # {}
  PROVE  \E n \in S : \A m \in S : n <= m
<1>1. PICK n \in S : \A m \in S : ~(<<m, n>> \in OpToRel(<, Nat))
  BY NatLessThanWellFounded, WFMin
<1>2. \A m \in S : ~(m < n)
  BY <1>1 DEF OpToRel
<1> QED  BY <1>2

(* The first of the vehicles is one of them.                               *)
LEMMA FirstIsOne ==
  ASSUME NEW vehicles \in SUBSET Cars
  PROVE  /\ First(vehicles) \in vehicles \cup {None}
         /\ vehicles # {} => First(vehicles) \in vehicles
<1>1. vehicles \in SUBSET Nat
  BY PageAssumption DEF PageAssumption, Cars
<1>2. vehicles # {} => \E v \in vehicles : \A w \in vehicles : v <= w
  BY <1>1, Least
<1> QED  BY <1>2 DEF First

LEMMA CarsAreNumbers == None \notin Cars /\ Cars \subseteq Nat /\ 1 \in Cars
BY PageAssumption DEF PageAssumption, Cars, None

(* A client stays one, whatever happens to it.                             *)
LEMMA ClientsStay ==
  /\ Unused \in Client /\ Off \in Client
  /\ \A c \in Client :
       /\ \A v \in Cars \cup {None} : Subscribed(c, v) \in Client
       /\ Stopped(c) \in Client
       /\ Failed(c) \in Client
<1>1. Unused \in Client /\ Off \in Client
  <2>1. 0 \in 0..MaxFailures
    BY PageAssumption DEF PageAssumption
  <2>2. Unused \in Client
    BY <2>1 DEF Unused, Client
  <2> QED  BY <2>1, <2>2 DEF Off, Client
<1>2. ASSUME NEW c \in Client, NEW v \in Cars \cup {None}
      PROVE  Subscribed(c, v) \in Client
  <2>1. PICK asked \in SUBSET Cars :
          Subscribed(c, v) = c \/ Subscribed(c, v) = [c EXCEPT !.vehicle = v, !.asked = asked]
    <3>1. c.asked \in SUBSET Cars /\ (v # None => c.asked \cup {v} \in SUBSET Cars)
      BY DEF Client
    <3> QED  BY <3>1 DEF Subscribed
  <2> QED  BY <2>1 DEF Client
<1>3. ASSUME NEW c \in Client
      PROVE  Stopped(c) \in Client
  BY <1>1 DEF Stopped, Client
<1>4. ASSUME NEW c \in Client
      PROVE  Failed(c) \in Client
  <2>1. CASE c.stopped \/ c.failures + 1 >= MaxFailures
    BY <1>1, <2>1 DEF Failed
  <2>2. CASE ~(c.stopped \/ c.failures + 1 >= MaxFailures)
    <3>1. c.failures + 1 \in 0..MaxFailures /\ c.vehicle \in Cars \cup {None}
      BY <2>2, PageAssumption DEF PageAssumption, Client
    <3> QED  BY <2>2, <3>1 DEF Failed, Unused, Client
  <2> QED  BY <2>1, <2>2
<1> QED  BY <1>1, <1>2, <1>3, <1>4

-----------------------------------------------------------------------------
(* Types.                                                                  *)

LEMMA PageTypesStart ==
  ASSUME PageInit
  PROVE  PageTypeInv
<1>1. NoList \in List /\ NoRequest \in Poll /\ Nothing \in [vehicle: Cars \cup {None}, value: Nat]
  BY DEF NoList, List, NoRequest, Poll, Nothing
<1> QED  BY <1>1, ClientsStay, CarsAreNumbers, PageAssumption
         DEF PageInit, PageTypeInv, PageTypeOK, PageAssumption, NoRequest, None

(* One client becomes another one.                                         *)
LEMMA OneClient ==
  ASSUME PageTypeInv, NEW k \in DOMAIN clients, NEW c \in Client,
         clients' = [clients EXCEPT ![k] = c],
         UNCHANGED <<backend, active, selected, offered, lists, poll, client>>,
         shown' \in [vehicle: Cars \cup {None}, value: Nat]
  PROVE  PageTypeInv'
BY DEF PageTypeInv, PageTypeOK, backend

LEMMA ClientKeepsTypes ==
  ASSUME PageTypeInv, NEW k \in DOMAIN clients, ClientStep(k)
  PROVE  PageTypeInv'
<1> DEFINE c == clients[k]
<1>0. c \in Client /\ shown \in [vehicle: Cars \cup {None}, value: Nat]
  BY DEF PageTypeInv, PageTypeOK
<1>1. CASE TokenArrives(k)
  <2>1. PICK failures \in {0, c.failures} :
          clients' = [clients EXCEPT ![k] = [c EXCEPT !.phase = "opening", !.failures = failures]]
    BY <1>1 DEF TokenArrives
  <2>2. [c EXCEPT !.phase = "opening", !.failures = failures] \in Client
    <3>1. failures \in 0..MaxFailures
      BY <1>0, <2>1, PageAssumption DEF PageAssumption, Client
    <3> QED  BY <1>0, <3>1 DEF Client
  <2> QED  BY <1>0, <1>1, <2>1, <2>2, OneClient DEF TokenArrives, view
<1>2. CASE Opens(k)
  <2>1. [c EXCEPT !.phase = "open", !.failures = 0] \in Client
    <3>1. 0 \in 0..MaxFailures
      BY PageAssumption DEF PageAssumption
    <3> QED  BY <1>0, <3>1 DEF Client
  <2>2. Subscribed([c EXCEPT !.phase = "open", !.failures = 0], c.vehicle) \in Client
    BY <1>0, <2>1, ClientsStay DEF Client
  <2> QED  BY <1>0, <1>2, <2>2, OneClient DEF Opens, view
<1>3. CASE Fails(k)
  BY <1>0, <1>3, ClientsStay, OneClient DEF Fails, view
<1>4. CASE Reconnects(k)
  <2>1. [c EXCEPT !.phase = "token"] \in Client
    BY <1>0 DEF Client
  <2> QED  BY <1>0, <1>4, <2>1, OneClient DEF Reconnects, view
<1>5. CASE LiveArrives(k)
  <2>1. PICK m \in c.wire :
          /\ clients' = [clients EXCEPT ![k] = [c EXCEPT !.wire = @ \ {m}]]
          /\ shown' = IF m.vehicle = active THEN Applied(m.vehicle, m.value) ELSE shown
    BY <1>5 DEF LiveArrives
  <2>2. [c EXCEPT !.wire = @ \ {m}] \in Client /\ m \in [vehicle: Cars, value: Nat]
    BY <1>0 DEF Client
  <2>3. shown' \in [vehicle: Cars \cup {None}, value: Nat]
    BY <1>0, <2>1, <2>2 DEF Applied
  <2> QED  BY <1>5, <2>1, <2>2, <2>3, OneClient DEF LiveArrives
<1>6. ASSUME NEW v \in Cars, SubscribeHandled(k, v)
      PROVE  PageTypeInv'
  <2>1. PICK w \in {v, c.serves} :
          clients' = [clients EXCEPT ![k] = [c EXCEPT !.asked = @ \ {v}, !.serves = w]]
    BY <1>6 DEF SubscribeHandled
  <2>2. [c EXCEPT !.asked = @ \ {v}, !.serves = w] \in Client
    BY <1>0 DEF Client
  <2> QED  BY <1>0, <1>6, <2>1, <2>2, OneClient DEF SubscribeHandled, view
<1> QED  BY <1>1, <1>2, <1>3, <1>4, <1>5, <1>6 DEF ClientStep

LEMMA ListArrivesKeepsTypes ==
  ASSUME PageTypeInv, NEW n \in DOMAIN lists, ListArrives(n)
  PROVE  PageTypeInv'
<1> DEFINE vehicles == lists[n].vehicles
<1>0. /\ vehicles \in SUBSET Cars
      /\ active' = IF active \in vehicles THEN active ELSE First(vehicles)
      /\ offered' = vehicles
      /\ selected' = IF active' # None THEN active' ELSE selected
      /\ shown' = IF selected' # selected THEN Nothing ELSE shown
      /\ lists' = [lists EXCEPT ![n] = NoList]
  BY DEF ListArrives, PageTypeInv, List
<1>1. active' \in Cars \cup {None} /\ selected' \in Cars /\ offered' \subseteq Cars
  BY <1>0, FirstIsOne DEF PageTypeInv, PageTypeOK
<1>2. shown' \in [vehicle: Cars \cup {None}, value: Nat]
  BY <1>0 DEF Nothing, PageTypeInv, PageTypeOK
<1>3. lists' \in [1..MaxLists -> List]
  BY <1>0 DEF NoList, List, PageTypeInv
<1>4. poll' \in Poll /\ (poll'.phase # "none" => poll'.vehicle \in Cars)
  <2>1. \/ poll' = poll
        \/ /\ active' # None
           /\ poll' = [phase |-> "asked", vehicle |-> active', value |-> 0]
    <3>1. Polling(active')
      BY DEF ListArrives
    <3> QED  BY <3>1 DEF Polling
  <2> QED  BY <1>1, <2>1 DEF Poll, PageTypeInv
<1>5. client' \in 0..MaxClients /\ clients' \in [1..MaxClients -> Client]
  <2> USE DEF PageTypeInv, PageTypeOK
  <2>0. LiveFollows /\ (client # None => client \in DOMAIN clients)
    BY PageAssumption DEF PageAssumption, ListArrives, None
  <2>1. CASE active' = None
    <3>1. /\ client' = None
          /\ clients' = IF client = None THEN clients
                        ELSE [clients EXCEPT ![client] = Stopped(clients[client])]
      BY <2>0, <2>1 DEF LiveFollows
    <3>2. client # None => Stopped(clients[client]) \in Client
      BY <2>0, ClientsStay
    <3> QED  BY <3>1, <3>2, PageAssumption DEF PageAssumption, None
  <2>2. CASE active' # None /\ client = None
    <3>1. PICK k \in DOMAIN clients :
            /\ client' = k
            /\ clients' = [clients EXCEPT ![k] =
                 [Unused EXCEPT !.phase = "token", !.vehicle = active', !.stopped = FALSE]]
      BY <2>0, <2>2 DEF LiveFollows
    <3>2. [Unused EXCEPT !.phase = "token", !.vehicle = active', !.stopped = FALSE] \in Client
      BY <1>1, ClientsStay DEF Client
    <3> QED  BY <3>1, <3>2, PageAssumption DEF PageAssumption
  <2>3. CASE active' # None /\ client # None
    <3>1. /\ client' = client
          /\ clients' = clients \/ clients' = [clients EXCEPT ![client] = Subscribed(@, active')]
      BY <2>0, <2>3 DEF LiveFollows
    <3>2. Subscribed(clients[client], active') \in Client
      BY <1>1, <2>0, <2>3, ClientsStay
    <3> QED  BY <3>1, <3>2
  <2> QED  BY <2>1, <2>2, <2>3
<1> QED  BY <1>1, <1>2, <1>3, <1>4, <1>5 DEF ListArrives, backend, PageTypeInv, PageTypeOK

LEMMA ListKeepsTypes ==
  ASSUME PageTypeInv, NEW n \in DOMAIN lists,
         RefreshBegins(n) \/ ListAnswered(n) \/ ListFails(n) \/ ListArrives(n)
  PROVE  PageTypeInv'
<1>0. lists[n] \in List
  BY DEF PageTypeInv
<1>1. ASSUME NEW l \in List, lists' = [lists EXCEPT ![n] = l],
             UNCHANGED <<backend, view, poll, client, clients>>
      PROVE  PageTypeInv'
  BY <1>1 DEF PageTypeInv, PageTypeOK, backend, view
<1>2. CASE RefreshBegins(n)
  <2>1. [lists[n] EXCEPT !.phase = "asked"] \in List
    BY <1>0 DEF List
  <2> QED  BY <1>1, <1>2, <2>1 DEF RefreshBegins
<1>3. CASE ListAnswered(n)
  <2>1. [phase |-> "answered", vehicles |-> {v \in granted : values[v] > 0}] \in List
    BY DEF List, PageTypeInv, PageTypeOK
  <2> QED  BY <1>1, <1>3, <2>1 DEF ListAnswered
<1>4. CASE ListFails(n)
  <2>1. NoList \in List
    BY DEF NoList, List
  <2> QED  BY <1>1, <1>4, <2>1 DEF ListFails
<1> QED  BY <1>2, <1>3, <1>4, ListArrivesKeepsTypes

LEMMA PollKeepsTypes ==
  ASSUME PageTypeInv, PollAuthorised \/ PollAnswered \/ PollArrives \/ PollFails \/ PollBegins
  PROVE  PageTypeInv'
<1>0. poll \in Poll /\ (poll.phase # "none" => poll.vehicle \in Cars) /\ NoRequest \in Poll
  BY DEF PageTypeInv, NoRequest, Poll
<1>1. ASSUME poll' \in Poll, poll'.phase # "none" => poll'.vehicle \in Cars,
             UNCHANGED <<backend, view, lists, client, clients>>
      PROVE  PageTypeInv'
  BY <1>1 DEF PageTypeInv, PageTypeOK, backend, view
<1>2. CASE PollAuthorised
  BY <1>0, <1>1, <1>2 DEF PollAuthorised, Poll
<1>3. CASE PollAnswered
  <2>1. values[poll.vehicle] \in Nat
    BY <1>0, <1>3 DEF PollAnswered, PageTypeInv, PageTypeOK
  <2> QED  BY <1>0, <1>1, <1>3, <2>1 DEF PollAnswered, Poll
<1>4. CASE PollArrives
  <2>1. /\ shown' \in [vehicle: Cars \cup {None}, value: Nat] /\ selected' \in Cars
        /\ poll' = NoRequest
    BY <1>0, <1>4 DEF PollArrives, Applied, Poll, PageTypeInv, PageTypeOK
  <2> QED  BY <1>0, <1>4, <2>1 DEF PollArrives, NoRequest, PageTypeInv, PageTypeOK, backend
<1>5. CASE PollFails
  BY <1>0, <1>1, <1>5 DEF PollFails, NoRequest
<1>6. CASE PollBegins
  BY <1>0, <1>1, <1>6 DEF PollBegins, Polling, Poll, PageTypeInv, PageTypeOK
<1> QED  BY <1>2, <1>3, <1>4, <1>5, <1>6

LEMMA UserKeepsTypes ==
  ASSUME PageTypeInv, NEW v \in Cars, Report(v) \/ GrantChanges(v) \/ Selects(v)
  PROVE  PageTypeInv'
<1>1. CASE Report(v)
  <2>1. values' \in [Cars -> Nat] /\ values'[v] \in Nat
    BY <1>1 DEF Report, PageTypeInv, PageTypeOK
  <2>2. PICK reached \in SUBSET DOMAIN clients :
          clients' = [k \in DOMAIN clients |->
            IF k \in reached
              THEN [clients[k] EXCEPT !.wire = @ \cup {[vehicle |-> v, value |-> values'[v]]}]
              ELSE clients[k]]
    BY <1>1 DEF Report
  <2>3. ASSUME NEW c \in Client
        PROVE  [c EXCEPT !.wire = @ \cup {[vehicle |-> v, value |-> values'[v]]}] \in Client
    BY <2>1 DEF Client
  <2>4. clients' \in [1..MaxClients -> Client]
    BY <2>2, <2>3 DEF PageTypeInv, PageTypeOK
  <2> QED  BY <1>1, <2>1, <2>4 DEF Report, PageTypeInv, PageTypeOK, view
<1>2. CASE GrantChanges(v)
  BY <1>2 DEF GrantChanges, PageTypeInv, PageTypeOK, view
<1>3. CASE Selects(v)
  <2>1. shown' \in [vehicle: Cars \cup {None}, value: Nat]
    BY <1>3 DEF Selects, Nothing
  <2>2. poll' \in Poll /\ (poll'.phase # "none" => poll'.vehicle \in Cars)
    BY <1>3 DEF Selects, Polling, Poll, PageTypeInv
  <2>3. clients' \in [1..MaxClients -> Client]
    <3>1. client # None => client \in DOMAIN clients
      BY PageAssumption DEF PageAssumption, PageTypeInv, PageTypeOK, None
    <3> QED  BY <1>3, <3>1, ClientsStay DEF Selects, PageTypeInv, PageTypeOK
  <2> QED  BY <1>3, <2>1, <2>2, <2>3 DEF Selects, PageTypeInv, PageTypeOK, backend
<1> QED  BY <1>1, <1>2, <1>3

LEMMA PageTypesKept ==
  ASSUME PageTypeInv, [PageNext]_pageVars
  PROVE  PageTypeInv'
<1>1. CASE Calms
  BY <1>1 DEF Calms, PageTypeInv, PageTypeOK, view
<1>2. CASE UNCHANGED pageVars
  BY <1>2 DEF pageVars, backend, view, PageTypeInv, PageTypeOK
<1> QED  BY <1>1, <1>2, ClientKeepsTypes, ListKeepsTypes, PollKeepsTypes, UserKeepsTypes
         DEF PageNext

(* Types: the provider, the page, their client and every client there has  *)
(* been keep theirs, with at most MaxFailures attempts counted.            *)
THEOREM PageTyped == PageSpec => []PageTypeOK
<1>1. PageInit => PageTypeInv
  BY PageTypesStart
<1>2. PageTypeInv /\ [PageNext]_pageVars => PageTypeInv'
  BY PageTypesKept
<1>3. PageTypeInv => PageTypeOK
  BY DEF PageTypeInv
<1> QED  BY <1>1, <1>2, <1>3, PTL DEF PageSpec

-----------------------------------------------------------------------------
(* What the page shows.                                                    *)

LEMMA ShownUndisturbed ==
  ASSUME ShownInv, UNCHANGED <<active, selected, shown>>
  PROVE  ShownInv'
BY DEF ShownInv, Agreed, PageShowsSelected

LEMMA ShownKept ==
  ASSUME PageTypeInv, ShownInv, [PageNext]_pageVars
  PROVE  ShownInv'
<1>1. ASSUME NEW k \in DOMAIN clients, ClientStep(k)
      PROVE  ShownInv'
  <2>1. CASE LiveArrives(k)
    BY <2>1 DEF LiveArrives, Applied, ShownInv, Agreed, PageShowsSelected
  <2> QED  BY <1>1, <2>1, ShownUndisturbed
           DEF ClientStep, TokenArrives, Opens, Fails, Reconnects, SubscribeHandled, view
<1>2. ASSUME NEW n \in DOMAIN lists,
             RefreshBegins(n) \/ ListAnswered(n) \/ ListFails(n) \/ ListArrives(n)
      PROVE  ShownInv'
  <2>1. CASE ListArrives(n)
    BY <2>1 DEF ListArrives, Nothing, ShownInv, Agreed, PageShowsSelected
  <2> QED  BY <1>2, <2>1, ShownUndisturbed DEF RefreshBegins, ListAnswered, ListFails, view
<1>3. CASE PollArrives
  <2>1. poll.vehicle # None
    BY <1>3, CarsAreNumbers DEF PollArrives, PageTypeInv
  <2> QED  BY <1>3, <2>1 DEF PollArrives, Applied, ShownInv, Agreed, PageShowsSelected
<1>4. CASE PollAuthorised \/ PollAnswered \/ PollFails \/ PollBegins \/ Calms
  BY <1>4, ShownUndisturbed DEF PollAuthorised, PollAnswered, PollFails, PollBegins, Calms, view
<1>5. ASSUME NEW v \in Cars, Report(v) \/ GrantChanges(v) \/ Selects(v)
      PROVE  ShownInv'
  <2>1. CASE Selects(v)
    BY <2>1 DEF Selects, Nothing, ShownInv, Agreed, PageShowsSelected
  <2> QED  BY <1>5, <2>1, ShownUndisturbed DEF Report, GrantChanges, view
<1>6. CASE UNCHANGED pageVars
  BY <1>6, ShownUndisturbed DEF pageVars, view
<1> QED  BY <1>1, <1>2, <1>3, <1>4, <1>5, <1>6 DEF PageNext

(* The page never shows a value of another vehicle than the one it names,  *)
(* in whatever order lists, polls and messages of old sockets arrive.      *)
THEOREM ShowsSelected == PageSpec => []PageShowsSelected
<1>1. PageInit => PageTypeInv /\ ShownInv
  <2>1. PageInit => ShownInv
    BY DEF PageInit, ShownInv, Agreed, PageShowsSelected, Nothing
  <2> QED  BY <2>1, PageTypesStart
<1>2. PageTypeInv /\ ShownInv /\ [PageNext]_pageVars => PageTypeInv' /\ ShownInv'
  BY PageTypesKept, ShownKept
<1>3. ShownInv => PageShowsSelected
  BY DEF ShownInv
<1> QED  BY <1>1, <1>2, <1>3, PTL DEF PageSpec

=============================================================================
