---------------------------- MODULE LiveDashboard ----------------------------
(***************************************************************************)
(* The dashboard's page (aws-backend-provider.js with websocket-client.js  *)
(* and what app.js does in their callbacks): it asks for the vehicles and  *)
(* polls the selected one every few seconds, and listens to a WebSocket    *)
(* meanwhile.  Every answer comes at its own time, to a page whose user    *)
(* has gone on.                                                            *)
(*                                                                         *)
(* Of the backend there is what the page can tell: what the State rows     *)
(* say, whom the user has access to, and messages on a socket that come    *)
(* late or not at all (see StateIngest).  One signal stands for the        *)
(* values.  A page that is hidden asks for nothing, like one whose timer   *)
(* has not fired.                                                          *)
(***************************************************************************)
EXTENDS Naturals

CONSTANTS
  LastVehicle,   \* the vehicles are numbers, in the order the API lists them
  LastValue,     \* bound on the values, by vehicle
  MaxFailures,   \* maxReconnectAttempts
  MaxClients,    \* bound on the WebSocket clients the page creates
  MaxLists,      \* bound on the requests of syncVehicles() under way
  MaxChanges     \* bound on what the user selects, and on changes of access

Cars == 1..LastVehicle
None == 0        \* null

ASSUME PageAssumption ==
  /\ LastVehicle \in Nat \ {0} /\ LastValue \in [Cars -> Nat]
  /\ MaxFailures \in Nat /\ MaxClients \in Nat /\ MaxLists \in Nat

VARIABLES
  values,      \* the State row of every vehicle
  granted,     \* the vehicles the user is ACTIVE for
  calm,        \* no more reports, failures and changes
  active,      \* activeVehicleId of the provider
  selected,    \* state.selectedVehicleId
  offered,     \* state.availableVehicles
  shown,       \* state.values: of which vehicle, and which
  lists,       \* the requests of syncVehicles()
  poll,        \* the request of poll()
  client,      \* liveClient
  clients,     \* every client there has been
  changes

backend == <<values, granted, calm>>
view == <<active, selected, offered, shown>>
pageVars == <<backend, view, lists, poll, client, clients, changes>>

Nothing == [vehicle |-> None, value |-> 0]
NoRequest == [phase |-> "none", vehicle |-> None, value |-> 0]
NoList == [phase |-> "none", vehicles |-> {}]

(* `asked' are subscribe requests the backend has not handled, `serves' is *)
(* what the row of the connection says, `wire' what is on its way.         *)
Client == [phase: {"unused", "token", "opening", "open", "waiting", "off"},
           vehicle: Cars \cup {None}, stopped: BOOLEAN, failures: 0..MaxFailures,
           asked: SUBSET Cars, serves: Cars \cup {None},
           wire: SUBSET [vehicle: Cars, value: Nat]]
Unused == [phase |-> "unused", vehicle |-> None, stopped |-> TRUE, failures |-> 0,
           asked |-> {}, serves |-> None, wire |-> {}]

PageInit ==
  /\ values = [v \in Cars |-> 0] /\ granted \in SUBSET Cars /\ calm = FALSE
  /\ active = 1 /\ selected = 1 /\ offered = {} /\ shown = Nothing
  /\ lists = [n \in 1..MaxLists |-> NoList] /\ poll = NoRequest
  /\ client = None /\ clients = [k \in 1..MaxClients |-> Unused]
  /\ changes = 0

-----------------------------------------------------------------------------
(* The backend.                                                            *)

(* A report reaches those that are subscribed, if the fan-out does.        *)
Report(v) ==
  /\ ~calm /\ values[v] < LastValue[v]
  /\ values' = [values EXCEPT ![v] = @ + 1]
  /\ \E reached \in SUBSET {k \in DOMAIN clients : clients[k].serves = v} :
       clients' = [k \in DOMAIN clients |->
         IF k \in reached
           THEN [clients[k] EXCEPT !.wire = @ \cup {[vehicle |-> v, value |-> values'[v]]}]
           ELSE clients[k]]
  /\ UNCHANGED <<granted, calm, view, lists, poll, client, changes>>

GrantChanges(v) ==
  /\ ~calm /\ changes < MaxChanges /\ changes' = changes + 1
  /\ granted' = IF v \in granted THEN granted \ {v} ELSE granted \cup {v}
  /\ UNCHANGED <<values, calm, view, lists, poll, client, clients>>

Calms ==
  /\ calm' = TRUE /\ ~calm
  /\ UNCHANGED <<values, granted, view, lists, poll, client, clients, changes>>

(* Subscribe requests are handled in any order.                            *)
SubscribeHandled(k, v) ==
  /\ v \in clients[k].asked
  /\ clients' = [clients EXCEPT ![k].asked = @ \ {v},
                                ![k].serves = IF v \in granted THEN v ELSE @]
  /\ UNCHANGED <<backend, view, lists, poll, client, changes>>

(* list_vehicles() leaves out a vehicle without State rows.                *)
ListAnswered(n) ==
  /\ lists[n].phase = "asked"
  /\ lists' = [lists EXCEPT ![n] =
       [phase |-> "answered", vehicles |-> {v \in granted : values[v] > 0}]]
  /\ UNCHANGED <<backend, view, poll, client, clients, changes>>

(* Access is looked up, then State; without either the answer is an error. *)
PollAuthorised ==
  /\ poll.phase = "asked" /\ poll.vehicle \in granted
  /\ poll' = [poll EXCEPT !.phase = "reading"]
  /\ UNCHANGED <<backend, view, lists, client, clients, changes>>

PollAnswered ==
  /\ poll.phase = "reading" /\ values[poll.vehicle] > 0
  /\ poll' = [poll EXCEPT !.phase = "answered", !.value = values[poll.vehicle]]
  /\ UNCHANGED <<backend, view, lists, client, clients, changes>>

-----------------------------------------------------------------------------
(* The WebSocket client, from one record to the next.  One that is off     *)
(* never opens again, so nothing of it is kept.                            *)
Off == [Unused EXCEPT !.phase = "off"]

Subscribed(c, v) ==
  IF c.phase = "off" THEN c
  ELSE [c EXCEPT !.vehicle = v,
                 !.asked = IF c.phase = "open" /\ v # None THEN @ \cup {v} ELSE @]

(* stop(): a client that waits for its token is not stopped.               *)
Stopped(c) ==
  IF c.phase = "token" THEN [c EXCEPT !.stopped = TRUE] ELSE Off

(* The close handler and the catch of connect(), with scheduleReconnect(). *)
Failed(c) ==
  IF c.stopped \/ c.failures + 1 >= MaxFailures
    THEN Off
    ELSE [Unused EXCEPT !.phase = "waiting", !.vehicle = c.vehicle, !.stopped = FALSE,
                        !.failures = c.failures + 1]

(* Another token than the last one starts to count again.                  *)
TokenArrives(k) ==
  /\ clients[k].phase = "token"
  /\ \E failures \in {0, clients[k].failures} :
       clients' = [clients EXCEPT ![k].phase = "opening", ![k].failures = failures]
  /\ UNCHANGED <<backend, view, lists, poll, client, changes>>

Opens(k) ==
  /\ clients[k].phase = "opening"
  /\ clients' = [clients EXCEPT ![k] =
       Subscribed([clients[k] EXCEPT !.phase = "open", !.failures = 0], clients[k].vehicle)]
  /\ UNCHANGED <<backend, view, lists, poll, client, changes>>

Fails(k) ==
  /\ ~calm /\ clients[k].phase \in {"token", "opening", "open"}
  /\ clients' = [clients EXCEPT ![k] = Failed(clients[k])]
  /\ UNCHANGED <<backend, view, lists, poll, client, changes>>

Reconnects(k) ==
  /\ clients[k].phase = "waiting"
  /\ clients' = [clients EXCEPT ![k].phase = "token"]
  /\ UNCHANGED <<backend, view, lists, poll, client, changes>>

-----------------------------------------------------------------------------
(* What the page shows.                                                    *)

(* applyTopic(): a topic of another vehicle than the selected one is kept  *)
(* under its full name, where nothing is shown.                            *)
Applied(vehicle, value) ==
  IF vehicle = selected THEN [vehicle |-> vehicle, value |-> value] ELSE shown

(* Mutant: the page applies what comes on the socket.                      *)
LiveArrivesAnyhow(k) ==
  \E m \in clients[k].wire :
    /\ clients' = [clients EXCEPT ![k].wire = @ \ {m}]
    /\ shown' = m
    /\ UNCHANGED <<backend, active, selected, offered, lists, poll, client, changes>>

(* onMessage of the client, which a stopped one that is open still calls.  *)
LiveArrives(k) ==
  \E m \in clients[k].wire :
    /\ clients' = [clients EXCEPT ![k].wire = @ \ {m}]
    /\ shown' = IF m.vehicle = active THEN Applied(m.vehicle, m.value) ELSE shown
    /\ UNCHANGED <<backend, active, selected, offered, lists, poll, client, changes>>

(* poll(): one at a time.                                                  *)
Polling(vehicle) ==
  poll' = IF poll.phase = "none" /\ vehicle # None
            THEN [phase |-> "asked", vehicle |-> vehicle, value |-> 0] ELSE poll

(* Mutant: an answer for another vehicle leaves the flag set.              *)
PollArrivesHalf ==
  /\ poll.phase = "answered" /\ poll.vehicle = active
  /\ shown' = Applied(poll.vehicle, poll.value)
  /\ selected' = poll.vehicle
  /\ poll' = NoRequest
  /\ UNCHANGED <<backend, active, offered, lists, client, clients, changes>>

(* The answer of a poll, with emit() and onSnapshot().                     *)
PollArrives ==
  /\ poll.phase = "answered"
  /\ IF poll.vehicle = active
       THEN shown' = Applied(poll.vehicle, poll.value) /\ selected' = poll.vehicle
       ELSE UNCHANGED <<shown, selected>>
  /\ poll' = NoRequest
  /\ UNCHANGED <<backend, active, offered, lists, client, clients, changes>>

PollFails ==
  /\ poll.phase # "none"
  /\ calm => \/ poll.phase = "asked" /\ poll.vehicle \notin granted
             \/ poll.phase = "reading" /\ values[poll.vehicle] = 0
  /\ poll' = NoRequest
  /\ UNCHANGED <<backend, view, lists, client, clients, changes>>

(* visibilitychange                                                        *)
PollBegins ==
  /\ poll.phase = "none" /\ active # None
  /\ Polling(active)
  /\ UNCHANGED <<backend, view, lists, client, clients, changes>>

-----------------------------------------------------------------------------
(* The list of vehicles.                                                   *)

(* refresh() by the timer, whether the last one has its answer or not.     *)
RefreshBegins(n) ==
  /\ lists[n].phase = "none" /\ \A m \in 1..(n - 1) : lists[m].phase # "none"
  /\ lists' = [lists EXCEPT ![n].phase = "asked"]
  /\ UNCHANGED <<backend, view, poll, client, clients, changes>>

ListFails(n) ==
  /\ ~calm /\ lists[n].phase # "none"
  /\ lists' = [lists EXCEPT ![n] = NoList]
  /\ UNCHANGED <<backend, view, poll, client, clients, changes>>

First(vehicles) ==
  IF vehicles = {} THEN None ELSE CHOOSE v \in vehicles : \A w \in vehicles : v <= w

(* startLive(), subscribe() and stop() of syncVehicles().                  *)
LiveFollows ==
  IF active' = None
    THEN /\ client' = None
         /\ clients' = IF client = None THEN clients
                       ELSE [clients EXCEPT ![client] = Stopped(@)]
  ELSE IF client = None
    THEN \E k \in DOMAIN clients :
           /\ clients[k].phase = "unused" /\ \A j \in 1..(k - 1) : clients[j].phase # "unused"
           /\ client' = k
           /\ clients' = [clients EXCEPT ![k] =
                [Unused EXCEPT !.phase = "token", !.vehicle = active', !.stopped = FALSE]]
  ELSE /\ UNCHANGED client
       /\ clients' = IF active' = active THEN clients
                     ELSE [clients EXCEPT ![client] = Subscribed(@, active')]

(* syncVehicles() with onVehicles(), and the poll of refresh().            *)
ListArrives(n) ==
  /\ lists[n].phase = "answered"
  /\ LET vehicles == lists[n].vehicles IN
     /\ active' = IF active \in vehicles THEN active ELSE First(vehicles)
     /\ offered' = vehicles
     /\ selected' = IF active' # None THEN active' ELSE selected
     /\ shown' = IF selected' # selected THEN Nothing ELSE shown
  /\ LiveFollows
  /\ Polling(active')
  /\ lists' = [lists EXCEPT ![n] = NoList]
  /\ UNCHANGED <<backend, changes>>

(* The user selects a vehicle: selectVehicle() of app.js and the provider. *)
Selects(v) ==
  /\ changes < MaxChanges /\ changes' = changes + 1
  /\ v \in offered /\ v # selected
  /\ active' = v /\ selected' = v /\ shown' = Nothing
  /\ clients' = IF client = None THEN clients
                ELSE [clients EXCEPT ![client] = Subscribed(@, v)]
  /\ Polling(v)
  /\ UNCHANGED <<backend, offered, lists, client>>

-----------------------------------------------------------------------------
ClientStep(k) ==
  \/ TokenArrives(k) \/ Opens(k) \/ Fails(k) \/ Reconnects(k) \/ LiveArrives(k)
  \/ \E v \in Cars : SubscribeHandled(k, v)

PageNext ==
  \/ \E v \in Cars : Report(v) \/ GrantChanges(v) \/ Selects(v)
  \/ Calms \/ PollAuthorised \/ PollAnswered
  \/ \E k \in DOMAIN clients : ClientStep(k)
  \/ PollArrives \/ PollFails \/ PollBegins
  \/ \E n \in DOMAIN lists :
       RefreshBegins(n) \/ ListAnswered(n) \/ ListFails(n) \/ ListArrives(n)

PageSpec == PageInit /\ [][PageNext]_pageVars

(* The timer fires every five seconds, and once the network is calm every  *)
(* request is answered; what is on a wire arrives.                         *)
ListRuns ==
  \E n \in 1..MaxLists : RefreshBegins(n) \/ ListAnswered(n) \/ ListArrives(n)
PollRuns == PollAuthorised \/ PollAnswered \/ PollArrives \/ PollFails

PageFairness ==
  /\ WF_pageVars(Calms) /\ WF_pageVars(ListRuns) /\ WF_pageVars(PollRuns)
  /\ \A k \in 1..MaxClients : WF_pageVars(LiveArrives(k))

-----------------------------------------------------------------------------
PageTypeOK ==
  /\ values \in [Cars -> Nat] /\ granted \subseteq Cars
  /\ active \in Cars \cup {None} /\ selected \in Cars /\ offered \subseteq Cars
  /\ shown \in [vehicle: Cars \cup {None}, value: Nat]
  /\ client \in 0..MaxClients /\ clients \in [1..MaxClients -> Client]

(* The values on the page are those of the vehicle whose name is above     *)
(* them, whatever answer comes late, from a poll of the vehicle before, a  *)
(* list of before a revocation, or a socket that was never closed.         *)
PageShowsSelected == shown.vehicle \in {selected, None}

(* Once nothing changes any more, the page ends with the State row of the  *)
(* vehicle it has selected, even if a message that was late on a socket    *)
(* had taken it back.                                                      *)
DisplayCatchesUp ==
  <>[](active # None => shown = [vehicle |-> active, value |-> values[active]])
=============================================================================
