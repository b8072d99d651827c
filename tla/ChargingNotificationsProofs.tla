--------------------- MODULE ChargingNotificationsProofs ---------------------
(***************************************************************************)
(* What ChargingNotifications promises of mails, crossings and stops, for  *)
(* any users, delays, reports of the car, invocations and troubles; and    *)
(* the types of the composition with DailySummary and StateIngest.         *)
(***************************************************************************)
EXTENDS MCCharging, LivePathProofs, TLAPS

(* What an invocation is, beyond its shape: a reading is stored, a message *)
(* is validated, and nobody is to be told before that.                     *)
Stages == {"session-read", "session-put", "stop-enqueue", "summary-read", "summary-put",
           "summary-enqueue", "validate", "reserve"}
Proper(r) ==
  /\ r.stage \in Stages \ {"validate", "reserve"} => r.task \in Reading
  /\ r.stage = "validate" => r.task \in Message /\ r.todo = {}
Runs == {Idle} \cup {r \in Running : Proper(r)}

Reportable ==
  [kind: {"plugged", "charging"}, value: BOOLEAN] \cup [kind: {"soc"}, value: Levels]

ShapeInv ==
  /\ now \in Time /\ toReport \in Seq(Reportable) /\ troubles \in 0..MaxTroubles
  /\ session \in Session /\ summary \in Summary
  /\ summary.stopAt # 0 => summary.active
  /\ inbox \subseteq Reading \cup Message
  /\ run \in [Invocations -> Runs]
  /\ events \subseteq EventId
  /\ harm \in {"none", "retried", "dropped"}
  /\ reached \subseteq [user: WantsSoc, id: Time] /\ resumedAt \in Time

(* The event an invocation has reserved and not mailed, and the crossings  *)
(* it has stored and not finished with.                                    *)
KindOf(t) == IF t.kind \in {"soc", "stop"} THEN t.kind ELSE "summary"
Owes(r) ==
  IF r.stage = "publish" THEN {[kind |-> KindOf(r.task), user |-> r.user, id |-> r.id]} ELSE {}
Carries(r) ==
  IF r.stage \in {"summary-read", "summary-put", "reserve", "publish"} /\ r.task.kind = "soc"
    THEN {c \in [user: WantsSoc, id: {r.id}] : c.user \in r.todo} ELSE {}

(* A mail has its event; a reserved event is owed by one invocation only,  *)
(* and has no mail yet.                                                    *)
MailInv ==
  /\ IsABag(mails) /\ BagToSet(mails) \subseteq events
  /\ \A e \in BagToSet(mails) : mails[e] = 1
  /\ \A i \in Invocations : Owes(run[i]) \subseteq events \ BagToSet(mails)
  /\ \A i, j \in Invocations : i # j => Owes(run[i]) \cap Owes(run[j]) = {}

(* Without a failure, an event about a level is mailed or owed, and every  *)
(* crossing has its event or an invocation that carries it.                *)
SocEvent(c) == [kind |-> "soc", user |-> c.user, id |-> c.id]
Mailed(e) == e \in BagToSet(mails) \/ \E i \in Invocations : e \in Owes(run[i])
Told(c) == SocEvent(c) \in events \/ \E i \in Invocations : c \in Carries(run[i])
CrossingInv ==
  harm = "none" => /\ \A e \in events : e.kind = "soc" => Mailed(e)
                   /\ \A c \in reached : Told(c)

(* In a plugged session the newest start of charging is not newer than the *)
(* newest reading of charging, nor than a stop that still stands.          *)
SessionInv ==
  /\ session.plugged <=> session.id # 0
  /\ session.observed => session.plugged
  /\ session.id # 0 => /\ resumedAt <= session.chargingAt
                       /\ session.stopAt # 0 => resumedAt <= session.stopAt

(* A put that still succeeds changes the session.                          *)
FreshInv ==
  \A i \in Invocations :
    At(i, "session-put") /\ run[i].fresh => ApplyUpdate(session, run[i].task) # session

-----------------------------------------------------------------------------
(* Helpers of the model.                                                   *)

(* A mail adds one to the bag.                                             *)
LEMMA MailCounts ==
  ASSUME NEW B, IsABag(B), NEW e
  PROVE  /\ IsABag(B (+) SetToBag({e}))
         /\ BagToSet(B (+) SetToBag({e})) = BagToSet(B) \cup {e}
         /\ \A x \in BagToSet(B) : x # e => (B (+) SetToBag({e}))[x] = B[x]
         /\ e \notin BagToSet(B) => (B (+) SetToBag({e}))[e] = 1
BY DEF (+), SetToBag, IsABag, BagToSet

LEMMA NoMails == IsABag(EmptyBag) /\ BagToSet(EmptyBag) = {}
BY DEF EmptyBag, SetToBag, IsABag, BagToSet

LEMMA Times == Time \subseteq Nat /\ 0 \in Time /\ 1 \in Time
BY ChargingAssumption DEF ChargingAssumption, Time

LEMMA NoTries == 1 \in 1..UpdateAttempts
BY ChargingAssumption DEF ChargingAssumption

LEMMA NextTry ==
  ASSUME NEW tries \in 1..UpdateAttempts, tries < UpdateAttempts
  PROVE  tries + 1 \in 1..UpdateAttempts
<1>1. UpdateAttempts \in Nat
  BY ChargingAssumption DEF ChargingAssumption
<1> QED  BY <1>1

LEMMA IdleIsARun ==
  /\ Idle \in Runs /\ Idle.stage = "idle"
  /\ Owes(Idle) = {} /\ Carries(Idle) = {}
BY DEF Idle, Runs, Owes, Carries

LEMMA RunFields ==
  ASSUME NEW r \in Runs, r.stage # "idle"
  PROVE  /\ r \in Running /\ Proper(r)
         /\ r.stage \in Stages \cup {"publish"}
         /\ r.task \in Reading \cup Message /\ r.tries \in 1..UpdateAttempts
         /\ r.fresh \in BOOLEAN /\ r.id \in Time /\ r.todo \subseteq Users
         /\ r.stage = "publish" => r.user \in Users
BY IdleIsARun DEF Runs, Running, Stages

LEMMA IdleOrNot ==
  ASSUME NEW r \in Runs
  PROVE  r = Idle <=> r.stage = "idle"
BY DEF Runs, Running, Idle

(* An invocation that has begun, or goes on with another call.             *)
LEMMA NewRun ==
  ASSUME NEW stage \in Stages, NEW t \in Reading \cup Message, NEW tries \in 1..UpdateAttempts,
         NEW fresh \in BOOLEAN, NEW id \in Time, NEW todo \in SUBSET Users,
         stage \notin {"validate", "reserve"} => t \in Reading,
         stage = "validate" => t \in Message /\ todo = {}
  PROVE  [stage |-> stage, task |-> t, tries |-> tries, fresh |-> fresh, id |-> id,
          todo |-> todo] \in Runs
BY DEF Runs, Running, Proper, Stages

LEMMA PublisherIsARun ==
  ASSUME NEW i \in Invocations, NEW u \in Users, run[i] \in Runs, At(i, "reserve")
  PROVE  /\ Publisher(i, u) \in Runs /\ Publisher(i, u).stage = "publish"
         /\ Owes(Publisher(i, u)) = {Event(i, u)}
         /\ Carries(Publisher(i, u)) = Carries(run[i])
<1>1. /\ run[i].task \in Reading \cup Message /\ run[i].id \in Time /\ run[i].todo \subseteq Users
      /\ run[i].stage = "reserve"
  BY RunFields DEF At
<1>2. Publisher(i, u) \in Runs
  BY <1>1, NoTries DEF Publisher, Runs, Running, Proper, Stages
<1> QED  BY <1>1, <1>2 DEF Publisher, Owes, Carries, Event, Tells, KindOf

(* What an invocation owes, carries and is made of when it goes on.        *)
LEMMA Onwards ==
  ASSUME NEW i, run[i].task \in Reading \cup Message,
         NEW stage \in Stages \ {"validate"}, stage = "reserve" \/ run[i].task \in Reading,
         NEW id \in Time, NEW todo \in SUBSET Users
  PROVE  /\ Onward(i, stage, id, todo) \in Runs
         /\ Onward(i, stage, id, todo).stage = stage
         /\ Onward(i, stage, id, todo).task = run[i].task
         /\ Onward(i, stage, id, todo).id = id
         /\ Onward(i, stage, id, todo).todo = todo
         /\ Owes(Onward(i, stage, id, todo)) = {}
<1>1. Onward(i, stage, id, todo) \in Runs
  BY NoTries, NewRun DEF Onward
<1> QED  BY <1>1 DEF Onward, Owes, Stages

(* An invocation that is no longer fresh, or has to read again, is what it *)
(* was otherwise.                                                          *)
LEMMA Stale ==
  ASSUME NEW r \in Runs, r.stage # "idle"
  PROVE  LET q == [r EXCEPT !.fresh = FALSE]
         IN /\ q \in Runs /\ q.stage = r.stage /\ q.task = r.task /\ q.id = r.id /\ q.todo = r.todo
            /\ ~q.fresh /\ Owes(q) = Owes(r) /\ Carries(q) = Carries(r)
<1> DEFINE q == [r EXCEPT !.fresh = FALSE]
<1>1. r \in Running /\ Proper(r)
  BY RunFields
<1>2. /\ q \in Running /\ q.stage = r.stage /\ q.task = r.task /\ q.todo = r.todo
      /\ q.id = r.id /\ ~q.fresh /\ (r.stage = "publish" => q.user = r.user)
  BY <1>1 DEF Running
<1>3. Proper(q)
  BY <1>1, <1>2 DEF Proper
<1> QED  BY <1>2, <1>3 DEF Runs, Owes, Carries

LEMMA Others ==
  ASSUME run \in [Invocations -> Runs], NEW j \in Invocations
  PROVE  /\ Outdated[j] \in Runs /\ Outdated[j].stage = run[j].stage
         /\ Owes(Outdated[j]) = Owes(run[j]) /\ Carries(Outdated[j]) = Carries(run[j])
         /\ run[j].stage # "idle" => /\ Outdated[j].task = run[j].task
                                     /\ Outdated[j].id = run[j].id
                                     /\ Outdated[j].todo = run[j].todo
                                     /\ ~Outdated[j].fresh
<1>1. CASE run[j] = Idle
  BY <1>1, IdleIsARun DEF Outdated
<1>2. CASE run[j] # Idle
  BY <1>2, Stale, IdleOrNot DEF Outdated
<1> QED  BY <1>1, <1>2

LEMMA Retries ==
  ASSUME NEW r \in Runs, NEW stage \in {"session-read", "summary-read"},
         r.task \in Reading, r.stage \in Stages, NEW tries \in 1..UpdateAttempts
  PROVE  LET q == [r EXCEPT !.stage = stage, !.tries = tries]
         IN /\ q \in Runs /\ q.stage = stage /\ q.task = r.task /\ q.id = r.id /\ q.todo = r.todo
            /\ Owes(q) = {}
<1> DEFINE q == [r EXCEPT !.stage = stage, !.tries = tries]
<1>1. r \in Running /\ r.stage # "publish"
  BY RunFields DEF Stages
<1>2. q \in Running /\ q.stage = stage /\ q.task = r.task /\ q.id = r.id /\ q.todo = r.todo
  BY <1>1 DEF Running, Stages
<1> QED  BY <1>2 DEF Runs, Proper, Owes, Stages

LEMMA Puts ==
  ASSUME NEW r \in Runs, NEW stage \in {"session-put", "summary-put"},
         r.task \in Reading, r.stage \in Stages
  PROVE  LET q == [r EXCEPT !.stage = stage, !.fresh = TRUE]
         IN /\ q \in Runs /\ q.stage = stage /\ q.task = r.task /\ q.id = r.id /\ q.todo = r.todo
            /\ Owes(q) = {}
<1> DEFINE q == [r EXCEPT !.stage = stage, !.fresh = TRUE]
<1>1. r \in Running /\ r.stage # "publish"
  BY RunFields DEF Stages
<1>2. q \in Running /\ q.stage = stage /\ q.task = r.task /\ q.id = r.id /\ q.todo = r.todo
  BY <1>1 DEF Running, Stages
<1> QED  BY <1>2 DEF Runs, Proper, Owes, Stages

(* The rows keep their shape.                                              *)
LEMMA UpdatesKeepShape ==
  ASSUME NEW s \in Session, NEW t \in Reading
  PROVE  ApplyUpdate(s, t) \in Session
<1>1. ASSUME t.kind = "plugged"
      PROVE  ApplyPlugged(s, t) \in Session
  BY <1>1, Times DEF ApplyPlugged, NewSession, Session, Reading, Flag
<1>2. ASSUME t.kind = "charging"
      PROVE  ApplyCharging(s, t) \in Session
  <2>1. t.at \in Time /\ t.value \in BOOLEAN
    BY <1>2 DEF Reading
  <2>2. ChargingStarts(s, t.at) \in Session
    BY <2>1, Times DEF ChargingStarts, Session, Flag
  <2>3. [s EXCEPT !.charging = "no", !.startedAt = 0, !.chargingAt = t.at,
                  !.stopAt = IF EndsCharge(s, t.at) THEN t.at ELSE @] \in Session
    BY <2>1, Times DEF Session, Flag
  <2> QED  BY <2>1, <2>2, <2>3 DEF ApplyCharging
<1>3. ASSUME t.kind = "soc"
      PROVE  ApplySoc(s, t) \in Session
  BY <1>3 DEF ApplySoc, Session, Reading
<1> QED  BY <1>1, <1>2, <1>3 DEF ApplyUpdate, Reading

LEMMA SummariesKeepShape ==
  ASSUME NEW c \in Summary, NEW t \in Reading, c.stopAt # 0 => c.active
  PROVE  /\ ApplySummary(c, t) \in Summary
         /\ ApplySummary(c, t).stopAt # 0 => ApplySummary(c, t).active
<1>1. t.at \in Time
  BY DEF Reading
<1>2. \A id \in Time, plugged \in BOOLEAN :
        NewSummary(id, plugged) \in Summary /\ NewSummary(id, plugged).stopAt = 0
  BY Times DEF NewSummary, Summary, Flag
<1>3. ASSUME t.kind = "charging"
      PROVE  /\ SummaryCharging(c, t) \in Summary
             /\ SummaryCharging(c, t).stopAt # 0 => SummaryCharging(c, t).active
  <2> DEFINE candidate == IF c.candidate # 0 THEN c.candidate ELSE t.at
  <2>1. candidate \in Time /\ c.active \in BOOLEAN
    BY <1>1 DEF Summary
  <2>2. CASE t.value
    <3>1. PICK held \in BOOLEAN : SummaryCharging(c, t) =
            [c EXCEPT !.charging = "yes", !.candidate = candidate, !.stopAt = 0, !.active = held]
      <4>1. (c.active \/ (c.plugged /\ t.at >= candidate + Qualification)) \in BOOLEAN
        OBVIOUS
      <4> QED  BY <2>2, <4>1 DEF SummaryCharging
    <3> QED  BY <2>1, <3>1, Times DEF Summary, Flag
  <2>3. CASE ~t.value
    <3>1. PICK stopAt \in {t.at, c.stopAt} :
            /\ SummaryCharging(c, t) =
                 [c EXCEPT !.charging = "no", !.candidate = 0, !.stopAt = stopAt]
            /\ stopAt # c.stopAt => c.active
      BY <2>3 DEF SummaryCharging
    <3> QED  BY <1>1, <3>1, Times DEF Summary, Flag
  <2> QED  BY <2>2, <2>3
<1>4. CASE t.kind = "plugged"
  <2>1. t.value \in BOOLEAN /\ t.at \in Time
    BY <1>4 DEF Reading
  <2>2. CASE t.value /\ ~c.plugged
    <3>1. ApplySummary(c, t) = NewSummary(t.at, TRUE)
      BY <1>4, <2>2 DEF ApplySummary
    <3> QED  BY <1>2, <2>1, <3>1
  <2>3. CASE ~t.value
    <3>1. ApplySummary(c, t) = NewSummary(0, FALSE)
      BY <1>4, <2>3 DEF ApplySummary
    <3> QED  BY <1>2, <3>1, Times
  <2>4. CASE t.value /\ c.plugged
    BY <1>4, <2>4 DEF ApplySummary
  <2> QED  BY <2>1, <2>2, <2>3, <2>4
<1>5. CASE t.kind = "charging"
  BY <1>3, <1>5 DEF ApplySummary
<1>6. CASE t.kind = "soc"
  BY <1>6 DEF ApplySummary
<1> QED  BY <1>4, <1>5, <1>6 DEF Reading

LEMMA SocKeepsSummary ==
  ASSUME NEW c, NEW t, t.kind = "soc"
  PROVE  ApplySummary(c, t) = c
BY DEF ApplySummary

-----------------------------------------------------------------------------
(* Shapes.                                                                 *)

LEMMA ShapeStart ==
  ASSUME Init
  PROVE  ShapeInv
<1>1. PICK script \in Scripts :
        /\ toReport = script.reports
        /\ session = IF script.plugged THEN NewSession(1, TRUE, 1) ELSE NewSession(0, FALSE, 0)
        /\ summary = IF script.plugged THEN NewSummary(1, TRUE) ELSE NewSummary(0, FALSE)
  BY DEF Init
<1>2. toReport \in Seq(Reportable)
  BY <1>1, ChargingAssumption DEF ChargingAssumption, Reportable
<1>3. session \in Session
  BY <1>1, Times DEF NewSession, Session, Flag
<1>4. summary \in Summary /\ summary.stopAt = 0
  BY <1>1, Times DEF NewSummary, Summary, Flag
<1>5. troubles \in 0..MaxTroubles
  BY ChargingAssumption DEF ChargingAssumption, Init
<1> QED  BY <1>2, <1>3, <1>4, <1>5, IdleIsARun, Times DEF Init, ShapeInv

(* One invocation goes on, and the rest of the shapes are as they were.    *)
LEMMA OneRun ==
  ASSUME ShapeInv, NEW i \in Invocations, NEW r \in Runs, run' = [run EXCEPT ![i] = r],
         inbox' \subseteq Reading \cup Message, events' \subseteq EventId,
         troubles' \in 0..MaxTroubles, harm' \in {"none", "retried", "dropped"},
         UNCHANGED <<now, toReport, row, reached, resumedAt>>
  PROVE  ShapeInv'
BY DEF ShapeInv, row

LEMMA Troubles ==
  ASSUME ShapeInv, Trouble
  PROVE  troubles' \in 0..MaxTroubles
BY ChargingAssumption DEF ChargingAssumption, Trouble, ShapeInv

LEMMA BreaksKeeps ==
  ASSUME ShapeInv, NEW i \in Invocations, run[i].stage # "idle", Breaks(i)
  PROVE  /\ run' = [run EXCEPT ![i] = Idle] /\ inbox' \subseteq Reading \cup Message
         /\ harm' \in {"retried", "dropped"}
<1>1. run[i].task \in Reading \cup Message
  BY RunFields DEF ShapeInv
<1> QED  BY <1>1 DEF Breaks, Becomes, ShapeInv

LEMMA AfterSessionGoesOn ==
  ASSUME NEW i \in Invocations, run[i] \in Runs, run[i].stage # "idle", run[i].task \in Reading,
         NEW s \in Session, NEW crossing \in SUBSET Users
  PROVE  LET q == AfterSession(i, s, crossing)
         IN /\ q \in Runs /\ q.stage \in {"stop-enqueue", "summary-read"} /\ Owes(q) = {}
            /\ q.task = run[i].task /\ q.todo = crossing
            /\ q.stage = "stop-enqueue" => q.task.kind = "charging"
            /\ crossing # {} => q.id = s.id
<1> DEFINE t == run[i].task
           stops == t.kind = "charging" /\ ~t.value /\ s.stopAt = t.at
           stage == IF stops THEN "stop-enqueue" ELSE "summary-read"
           id == IF stops \/ crossing # {} THEN s.id ELSE 0
<1>1. stage \in Stages \ {"validate"} /\ id \in Time /\ t \in Reading \cup Message
  <2>1. s.id \in Time
    BY DEF Session
  <2> QED  BY <2>1, Times DEF Stages
<1>2. AfterSession(i, s, crossing) = Onward(i, stage, id, crossing)
  BY DEF AfterSession
<1> HIDE DEF stage, id
<1>3. LET q == Onward(i, stage, id, crossing)
      IN /\ q \in Runs /\ Owes(q) = {} /\ q.stage = stage /\ q.id = id
         /\ q.task = t /\ q.todo = crossing
  BY <1>1, Onwards
<1>4. /\ stage \in {"stop-enqueue", "summary-read"}
      /\ stage = "stop-enqueue" => t.kind = "charging"
      /\ crossing # {} => id = s.id
  BY DEF stage, id
<1> QED  BY <1>2, <1>3, <1>4

LEMMA AfterSummaryGoesOn ==
  ASSUME NEW i \in Invocations, run[i] \in Runs, run[i].stage # "idle", run[i].task \in Reading,
         NEW before \in Summary, NEW after \in Summary
  PROVE  LET q == AfterSummary(i, before, after)
         IN /\ q \in Runs /\ q.stage \in {"summary-enqueue", "reserve"} /\ Owes(q) = {}
            /\ q.task = run[i].task
            /\ q.task.kind = "soc" =>
                 q.stage = "reserve" /\ q.id = run[i].id /\ q.todo = run[i].todo
<1>1. /\ before.id \in Time /\ after.id \in Time /\ run[i].id \in Time /\ run[i].todo \in SUBSET Users
      /\ Summarised \in SUBSET Users
  BY RunFields, ChargingAssumption DEF Summary, ChargingAssumption, Summarised
<1>2. ASSUME NEW stage \in {"summary-enqueue", "reserve"}, NEW id \in Time,
             NEW todo \in SUBSET Users, AfterSummary(i, before, after) = Onward(i, stage, id, todo),
             run[i].task.kind = "soc" => stage = "reserve" /\ id = run[i].id /\ todo = run[i].todo
      PROVE  LET q == AfterSummary(i, before, after)
             IN /\ q \in Runs /\ q.stage \in {"summary-enqueue", "reserve"} /\ Owes(q) = {}
                /\ q.task = run[i].task
                /\ q.task.kind = "soc" =>
                     q.stage = "reserve" /\ q.id = run[i].id /\ q.todo = run[i].todo
  <2>1. stage \in Stages \ {"validate"} /\ run[i].task \in Reading \cup Message
    BY DEF Stages
  <2>2. LET q == Onward(i, stage, id, todo)
        IN /\ q \in Runs /\ Owes(q) = {} /\ q.stage = stage /\ q.id = id
           /\ q.task = run[i].task /\ q.todo = todo
    BY <2>1, Onwards
  <2> QED  BY <1>2, <2>2
<1>3. {} \in SUBSET Users
  OBVIOUS
<1>4. CASE run[i].task.kind = "plugged" /\ ~run[i].task.value /\ before.active
  <2>1. AfterSummary(i, before, after) = Onward(i, "reserve", before.id, Summarised)
    BY <1>4 DEF AfterSummary
  <2> QED  BY <1>1, <1>2, <1>4, <2>1
<1>5. CASE run[i].task.kind = "charging" /\ ~run[i].task.value /\ after.stopAt = run[i].task.at
  <2>1. AfterSummary(i, before, after) = Onward(i, "summary-enqueue", after.id, {})
    BY <1>5 DEF AfterSummary
  <2> QED  BY <1>1, <1>2, <1>3, <1>5, <2>1
<1>6. CASE /\ ~(run[i].task.kind = "plugged" /\ ~run[i].task.value /\ before.active)
           /\ ~(run[i].task.kind = "charging" /\ ~run[i].task.value /\ after.stopAt = run[i].task.at)
  <2>1. AfterSummary(i, before, after) = Onward(i, "reserve", run[i].id, run[i].todo)
    BY <1>6 DEF AfterSummary
  <2> QED  BY <1>1, <1>2, <2>1
<1> QED  BY <1>4, <1>5, <1>6

(* What the calls of an invocation leave of it.                            *)
LEMMA ReadingStages ==
  ASSUME ShapeInv, NEW i \in Invocations, NEW stage \in Stages \ {"validate", "reserve"},
         At(i, stage)
  PROVE  run[i] \in Runs /\ run[i].stage # "idle" /\ run[i].task \in Reading
BY RunFields DEF ShapeInv, At, Stages, Proper

LEMMA SessionPutsKeeps ==
  ASSUME ShapeInv, NEW i \in Invocations, SessionPuts(i)
  PROVE  ShapeInv'
<1> DEFINE t == run[i].task
           after == ApplyUpdate(session, t)
           crossing == {u \in WantsSoc : t.kind = "soc" /\ CrossedThreshold(session, t, SocThreshold[u])}
<1>1. run[i] \in Runs /\ run[i].stage # "idle" /\ t \in Reading
  <2>1. "session-put" \in Stages \ {"validate", "reserve"} /\ At(i, "session-put")
    BY DEF SessionPuts, Stages
  <2> QED  BY <2>1, ReadingStages
<1>2. session \in Session /\ after \in Session /\ crossing \in SUBSET Users /\ t.at \in Time
  BY <1>1, UpdatesKeepShape, ChargingAssumption DEF ShapeInv, Reading, ChargingAssumption
<1> HIDE DEF after, crossing
<1>3. AfterSession(i, after, crossing) \in Runs
  BY <1>1, <1>2, AfterSessionGoesOn
<1>4. run' \in [Invocations -> Runs]
  <2>1. run' = [Outdated EXCEPT ![i] = AfterSession(i, after, crossing)]
    BY DEF SessionPuts, after, crossing
  <2>2. \A j \in Invocations : Outdated[j] \in Runs
    BY Others DEF ShapeInv
  <2> QED  BY <1>3, <2>1, <2>2 DEF Outdated
<1>5. reached' \subseteq [user: WantsSoc, id: Time]
  <2>1. session.id \in Time
    BY <1>2 DEF Session
  <2> QED  BY <2>1 DEF SessionPuts, ShapeInv
<1>6. resumedAt' \in Time
  BY <1>2, Times DEF SessionPuts, ShapeInv
<1>7. session' = after
  BY DEF SessionPuts, after
<1> QED  BY <1>2, <1>4, <1>5, <1>6, <1>7 DEF SessionPuts, ShapeInv

LEMMA SummaryPutsKeeps ==
  ASSUME ShapeInv, NEW i \in Invocations, SummaryPuts(i)
  PROVE  ShapeInv'
<1> DEFINE after == ApplySummary(summary, run[i].task)
<1>1. run[i] \in Runs /\ run[i].stage # "idle" /\ run[i].task \in Reading
  <2>1. "summary-put" \in Stages \ {"validate", "reserve"} /\ At(i, "summary-put")
    BY DEF SummaryPuts, Stages
  <2> QED  BY <2>1, ReadingStages
<1>2. /\ summary \in Summary /\ after \in Summary
      /\ after.stopAt # 0 => after.active
  BY <1>1, SummariesKeepShape DEF ShapeInv
<1> HIDE DEF after
<1>3. AfterSummary(i, summary, after) \in Runs
  BY <1>1, <1>2, AfterSummaryGoesOn
<1>4. run' \in [Invocations -> Runs]
  <2>1. run' = [Outdated EXCEPT ![i] = AfterSummary(i, summary, after)]
    BY DEF SummaryPuts, after
  <2>2. \A j \in Invocations : Outdated[j] \in Runs
    BY Others DEF ShapeInv
  <2> QED  BY <1>3, <2>1, <2>2 DEF Outdated
<1>5. summary' = after
  BY DEF SummaryPuts, after
<1> QED  BY <1>2, <1>4, <1>5 DEF SummaryPuts, ShapeInv

(* The calls that change nothing but the invocation.                       *)
LEMMA ReadsKeepShape ==
  ASSUME ShapeInv, NEW i \in Invocations,
         SessionReads(i) \/ SummaryReads(i) \/ SessionCollides(i) \/ SummaryCollides(i)
  PROVE  ShapeInv'
<1> DEFINE r == run[i]
<1>0. /\ r \in Runs /\ r.stage # "idle" /\ r.task \in Reading
      /\ r.stage \in Stages /\ r.tries \in 1..UpdateAttempts /\ r.fresh \in BOOLEAN
      /\ r.todo \subseteq Users
  <2>1. PICK stage \in Stages \ {"validate", "reserve"} : At(i, stage)
    BY DEF SessionReads, SummaryReads, SessionCollides, SummaryCollides, Stages
  <2> QED  BY <2>1, ReadingStages, RunFields DEF At
<1>1. \A q \in Runs : /\ run' = [run EXCEPT ![i] = q]
                      /\ UNCHANGED <<now, toReport, row, inbox, events, mails, troubles, ghosts>>
                      => ShapeInv'
  BY OneRun DEF ShapeInv, ghosts
<1>2. CASE SessionReads(i)
  <2>1. AfterSession(i, session, {}) \in Runs
    BY <1>0, AfterSessionGoesOn DEF ShapeInv
  <2>2. [r EXCEPT !.stage = "session-put", !.fresh = TRUE] \in Runs
    BY <1>0, Puts
  <2> QED  BY <1>1, <1>2, <2>1, <2>2 DEF SessionReads, Becomes
<1>3. CASE SummaryReads(i)
  <2>1. AfterSummary(i, summary, summary) \in Runs
    BY <1>0, AfterSummaryGoesOn DEF ShapeInv
  <2>2. [r EXCEPT !.stage = "summary-put", !.fresh = TRUE] \in Runs
    BY <1>0, Puts
  <2> QED  BY <1>1, <1>3, <2>1, <2>2 DEF SummaryReads, Becomes
<1>4. ASSUME r.tries < UpdateAttempts, NEW stage \in {"session-read", "summary-read"}
      PROVE  [r EXCEPT !.stage = stage, !.tries = r.tries + 1] \in Runs
  <2>1. r.tries + 1 \in 1..UpdateAttempts
    BY <1>0, <1>4, NextTry
  <2> QED  BY <1>0, <2>1, Retries
<1>5. CASE SessionCollides(i)
  BY <1>1, <1>4, <1>5 DEF SessionCollides, Becomes
<1>6. CASE SummaryCollides(i)
  BY <1>1, <1>4, <1>6 DEF SummaryCollides, Becomes
<1> QED  BY <1>2, <1>3, <1>5, <1>6

LEMMA EnqueuesKeepShape ==
  ASSUME ShapeInv, NEW i \in Invocations, StopEnqueued(i) \/ SummaryEnqueued(i)
  PROVE  ShapeInv'
<1>0. run[i] \in Runs /\ run[i].stage # "idle" /\ run[i].task \in Reading
  <2>1. PICK stage \in Stages \ {"validate", "reserve"} : At(i, stage)
    BY DEF StopEnqueued, SummaryEnqueued, Stages
  <2> QED  BY <2>1, ReadingStages
<1>1. run[i].id \in Time /\ run[i].task.at \in Time
  BY <1>0, RunFields DEF Reading
<1>2. inbox' \subseteq Reading \cup Message
  <2>1. \A kind \in {"stop", "summary"} :
          [kind |-> kind, id |-> run[i].id, stopAt |-> run[i].task.at] \in Message
    BY <1>1 DEF Message
  <2> QED  BY <2>1 DEF StopEnqueued, SummaryEnqueued, ShapeInv
<1>3. Onward(i, "summary-read", 0, {}) \in Runs /\ Onward(i, "reserve", 0, {}) \in Runs
  BY <1>0, Times, Onwards DEF Stages
<1>4. PICK q \in Runs : run' = [run EXCEPT ![i] = q]
  BY <1>3 DEF StopEnqueued, SummaryEnqueued, Becomes
<1> QED  BY <1>2, <1>4, OneRun DEF StopEnqueued, SummaryEnqueued, ShapeInv, ghosts

LEMMA ValidatesKeepShape ==
  ASSUME ShapeInv, NEW i \in Invocations, ValidatesStop(i) \/ ValidatesSummary(i)
  PROVE  ShapeInv'
<1>1. run[i].task \in Message /\ run[i].task.id \in Time
  BY RunFields DEF ValidatesStop, ValidatesSummary, ShapeInv, At, Proper, Message
<1>2. PICK todo \in SUBSET Users : run' = [run EXCEPT ![i] = Onward(i, "reserve", run[i].task.id, todo)]
  <2>1. /\ \A P \in SUBSET WantsStop : P \in SUBSET Users
        /\ Summarised \in SUBSET Users /\ {} \in SUBSET Users
    BY ChargingAssumption DEF ChargingAssumption, Summarised
  <2>2. {u \in WantsStop : ChargingStopDue(session, run[i].task, StopThreshold[u])} \in SUBSET WantsStop
    OBVIOUS
  <2>3. CASE ValidatesStop(i)
    BY <2>1, <2>2, <2>3 DEF ValidatesStop, Becomes
  <2>4. CASE ValidatesSummary(i)
    BY <2>1, <2>4 DEF ValidatesSummary, Becomes
  <2> QED  BY <2>3, <2>4
<1>3. Onward(i, "reserve", run[i].task.id, todo) \in Runs
  BY <1>1, Onwards DEF Stages
<1> QED  BY <1>2, <1>3, OneRun DEF ValidatesStop, ValidatesSummary, ShapeInv, ghosts

(* An invocation that may tell somebody of its event.                      *)
LEMMA Events ==
  ASSUME ShapeInv, NEW i \in Invocations, run[i].stage # "idle", NEW u \in Users
  PROVE  Event(i, u) \in EventId
BY RunFields DEF ShapeInv, Event, EventId, Tells

(* The reservation of an event, or the removal of a user from those still  *)
(* to be told.                                                             *)
LEMMA Tolds ==
  ASSUME NEW i \in Invocations, run[i] \in Runs, At(i, "reserve"), NEW u
  PROVE  LET q == [run[i] EXCEPT !.todo = @ \ {u}]
         IN /\ q \in Runs /\ q.stage = "reserve" /\ q.task = run[i].task /\ q.id = run[i].id
            /\ q.todo = run[i].todo \ {u} /\ Owes(q) = {}
<1> DEFINE q == [run[i] EXCEPT !.todo = @ \ {u}]
<1>1. run[i] \in Running
  BY RunFields DEF At
<1>2. /\ q \in Running /\ q.stage = "reserve" /\ q.task = run[i].task /\ q.id = run[i].id
      /\ q.todo = run[i].todo \ {u}
  BY <1>1 DEF Running, At
<1> QED  BY <1>2 DEF Runs, Proper, Owes, Stages

LEMMA ReservingKeepsShape ==
  ASSUME ShapeInv, NEW i \in Invocations, NEW u \in Users, NEW mailed \in BOOLEAN,
         At(i, "reserve"), Reserving(i, u, mailed)
  PROVE  ShapeInv'
<1>1. run[i] \in Runs /\ Event(i, u) \in EventId
  BY Events DEF ShapeInv, At
<1>2. Publisher(i, u) \in Runs /\ [run[i] EXCEPT !.todo = @ \ {u}] \in Runs
  BY <1>1, PublisherIsARun, Tolds
<1>3. PICK q \in Runs : run' = [run EXCEPT ![i] = q]
  BY <1>2 DEF Reserving, Becomes
<1> QED  BY <1>1, <1>3, OneRun DEF Reserving, ShapeInv, ghosts

LEMMA PublishingKeepsShape ==
  ASSUME ShapeInv, NEW i \in Invocations, At(i, "publish"), Publishing(i)
  PROVE  ShapeInv'
<1>1. /\ run[i].task \in Reading \cup Message /\ run[i].id \in Time
      /\ run[i].todo \ {run[i].user} \in SUBSET Users
  BY RunFields DEF ShapeInv, At
<1>2. Onward(i, "reserve", run[i].id, run[i].todo \ {run[i].user}) \in Runs
  BY <1>1, Onwards DEF Stages
<1> QED  BY <1>2, OneRun DEF Publishing, Becomes, ShapeInv, ghosts

LEMMA EndingsKeepShape ==
  ASSUME ShapeInv, NEW i \in Invocations, Ends(i) \/ Contention(i) \/ InvocationFails(i)
  PROVE  ShapeInv'
<1>1. run[i].stage # "idle"
  BY IdleOrNot DEF Ends, Contention, InvocationFails, At, ShapeInv
<1>2. CASE Ends(i)
  BY <1>2, IdleIsARun, OneRun DEF Ends, Becomes, ShapeInv, ghosts
<1>3. CASE Contention(i)
  BY <1>1, <1>3, IdleIsARun, BreaksKeeps, OneRun DEF Contention, ShapeInv
<1>4. CASE InvocationFails(i)
  BY <1>1, <1>4, IdleIsARun, BreaksKeeps, Troubles, OneRun DEF InvocationFails, ShapeInv
<1> QED  BY <1>2, <1>3, <1>4

LEMMA BeginKeepsShape ==
  ASSUME ShapeInv, NEW i \in Invocations, Begin(i)
  PROVE  ShapeInv'
<1>1. PICK t \in Reading \cup Message : run' = [run EXCEPT ![i] = Started(t)]
  BY DEF Begin, Becomes, ShapeInv
<1>2. Started(t) \in Runs
  <2>1. IsReading(t) <=> t \in Reading
    BY DEF IsReading, Reading, Message
  <2>2. {} \in SUBSET Users
    OBVIOUS
  <2>3. CASE t \in Reading
    <3>1. [stage |-> "session-read", task |-> t, tries |-> 1, fresh |-> FALSE, id |-> 0,
           todo |-> {}] \in Runs
      BY <2>2, <2>3, NewRun, NoTries, Times DEF Stages
    <3> QED  BY <2>1, <2>3, <3>1 DEF Started
  <2>4. CASE t \notin Reading
    <3>1. [stage |-> "validate", task |-> t, tries |-> 1, fresh |-> FALSE, id |-> 0,
           todo |-> {}] \in Runs
      BY <2>2, <2>4, NewRun, NoTries, Times DEF Stages
    <3> QED  BY <2>1, <2>4, <3>1 DEF Started
  <2> QED  BY <2>3, <2>4
<1>3. troubles' \in 0..MaxTroubles
  BY Troubles DEF Begin, ShapeInv
<1> QED  BY <1>1, <1>2, <1>3, OneRun DEF Begin, ShapeInv, ghosts

LEMMA HandlerKeepsShape ==
  ASSUME ShapeInv, NEW i \in Invocations, Handler(i)
  PROVE  ShapeInv'
<1>1. ASSUME NEW u \in Users, SocReserves(i, u) \/ StopReserves(i, u) \/ SummaryReserves(i, u)
      PROVE  ShapeInv'
  <2>1. PICK mailed \in BOOLEAN : At(i, "reserve") /\ Reserving(i, u, mailed)
    <3>1. (u \in WantsSummary) \in BOOLEAN /\ TRUE \in BOOLEAN
      OBVIOUS
    <3> QED  BY <1>1, <3>1 DEF SocReserves, StopReserves, SummaryReserves
  <2> QED  BY <2>1, ReservingKeepsShape
<1>2. CASE SocPublishes(i) \/ StopPublishes(i) \/ SummaryPublishes(i)
  BY <1>2, PublishingKeepsShape DEF SocPublishes, StopPublishes, SummaryPublishes
<1> QED  BY <1>1, <1>2, ReadsKeepShape, SessionPutsKeeps, SummaryPutsKeeps, EnqueuesKeepShape,
            ValidatesKeepShape, EndingsKeepShape DEF Handler

LEMMA ShapeKept ==
  ASSUME ShapeInv, [Next]_vars
  PROVE  ShapeInv'
<1>1. CASE CarReports
  <2>1. toReport \in Seq(Reportable) /\ toReport # <<>>
    BY <1>1 DEF CarReports, ShapeInv
  <2>2. Head(toReport) \in Reportable /\ Tail(toReport) \in Seq(Reportable)
    BY <2>1
  <2>3. \A r \in Reportable : [kind |-> r.kind, value |-> r.value, at |-> now] \in Reading
    BY DEF Reportable, Reading, ShapeInv
  <2> QED  BY <1>1, <2>2, <2>3 DEF CarReports, ShapeInv, row, ghosts
<1>2. CASE OtherPut
  <2>1. run' \in [Invocations -> Runs]
    BY <1>2, Others DEF OtherPut, ShapeInv, Outdated
  <2> QED  BY <1>2, <2>1, Troubles DEF OtherPut, ShapeInv, row, ghosts
<1>3. CASE Tick
  BY <1>3, ChargingAssumption DEF Tick, ShapeInv, row, ghosts, Time, ChargingAssumption
<1>4. CASE UNCHANGED vars
  BY <1>4 DEF vars, ShapeInv, row, ghosts
<1> QED  BY <1>1, <1>2, <1>3, <1>4, BeginKeepsShape, HandlerKeepsShape DEF Next

-----------------------------------------------------------------------------
(* Steps that neither reserve an event nor send a mail.                    *)

Silent ==
  /\ UNCHANGED <<events, mails>>
  /\ \A j \in Invocations : Owes(run'[j]) \subseteq Owes(run[j])
  /\ harm' = "none" =>
       /\ harm = "none"
       /\ \A j \in Invocations : /\ Owes(run'[j]) = Owes(run[j])
                                 /\ Carries(run[j]) \subseteq Carries(run'[j])
       /\ \A c \in reached' \ reached : \E j \in Invocations : c \in Carries(run'[j])

LEMMA SilenceKeepsMails ==
  ASSUME MailInv, Silent
  PROVE  MailInv'
BY DEF MailInv, Silent

LEMMA SilenceKeepsCrossings ==
  ASSUME CrossingInv, Silent
  PROVE  CrossingInv'
<1> SUFFICES ASSUME harm' = "none"
             PROVE  /\ \A e \in events' : e.kind = "soc" => Mailed(e)'
                    /\ \A c \in reached' : Told(c)'
  BY DEF CrossingInv
<1>1. ASSUME NEW e \in events', e.kind = "soc"
      PROVE  Mailed(e)'
  BY <1>1 DEF Silent, CrossingInv, Mailed
<1>2. ASSUME NEW c \in reached'
      PROVE  Told(c)'
  BY <1>2 DEF Silent, CrossingInv, Told, SocEvent
<1> QED  BY <1>1, <1>2

LEMMA Inactive ==
  ASSUME NEW r
  PROVE  /\ r.stage # "publish" => Owes(r) = {}
         /\ r.stage \notin {"summary-read", "summary-put", "reserve", "publish"} => Carries(r) = {}
         /\ r.task.kind # "soc" => Carries(r) = {}
BY DEF Owes, Carries

LEMMA Carried ==
  ASSUME NEW r, NEW c \in Carries(r)
  PROVE  /\ r.task.kind = "soc" /\ r.stage \in {"summary-read", "summary-put", "reserve", "publish"}
         /\ c \in [user: WantsSoc, id: {r.id}] /\ c.id = r.id /\ c.user \in r.todo
<1>1. r.task.kind = "soc" /\ r.stage \in {"summary-read", "summary-put", "reserve", "publish"}
  BY DEF Carries
<1>2. Carries(r) = {x \in [user: WantsSoc, id: {r.id}] : x.user \in r.todo}
  BY <1>1 DEF Carries
<1> QED  BY <1>1, <1>2

LEMMA OneSilent ==
  ASSUME ShapeInv, NEW i \in Invocations, NEW r \in Runs, run' = [run EXCEPT ![i] = r],
         UNCHANGED <<events, mails, reached>>, Owes(r) \subseteq Owes(run[i]),
         harm' = "none" => /\ harm = "none" /\ Owes(run[i]) \subseteq Owes(r)
                           /\ Carries(run[i]) \subseteq Carries(r)
  PROVE  Silent
<1>1. run'[i] = r /\ \A j \in Invocations \ {i} : run'[j] = run[j]
  BY DEF ShapeInv
<1>2. \A j \in Invocations : Owes(run'[j]) \subseteq Owes(run[j])
  BY <1>1
<1>3. ASSUME harm' = "none"
      PROVE  /\ harm = "none"
             /\ \A j \in Invocations : /\ Owes(run'[j]) = Owes(run[j])
                                       /\ Carries(run[j]) \subseteq Carries(run'[j])
  <2>1. /\ harm = "none" /\ Owes(run[i]) \subseteq Owes(r) /\ Owes(r) \subseteq Owes(run[i])
        /\ Carries(run[i]) \subseteq Carries(r)
    BY <1>3
  <2>2. Owes(run[i]) = Owes(r)
    BY <2>1
  <2> QED  BY <1>1, <2>1, <2>2
<1> QED  BY <1>2, <1>3 DEF Silent

LEMMA CarriesOn ==
  ASSUME NEW p, NEW q, q.task = p.task,
         p.task.kind = "soc" => q.stage = "reserve" /\ q.id = p.id /\ q.todo = p.todo
  PROVE  Carries(p) \subseteq Carries(q)
BY DEF Carries

LEMMA SessionStepsAreSilent ==
  ASSUME ShapeInv, NEW i \in Invocations, SessionReads(i) \/ SessionCollides(i)
  PROVE  Silent
<1>0. PICK stage \in {"session-read", "session-put"} : At(i, stage)
  BY DEF SessionReads, SessionCollides
<1>1. run[i] \in Runs /\ run[i].stage # "idle" /\ run[i].task \in Reading
  BY <1>0, ReadingStages DEF Stages
<1>2. Owes(run[i]) = {} /\ Carries(run[i]) = {} /\ run[i].tries \in 1..UpdateAttempts
      /\ run[i].stage \in Stages
  BY <1>0, <1>1, Inactive, RunFields DEF At
<1>3. CASE SessionReads(i)
  <2>1. AfterSession(i, session, {}) \in Runs /\ Owes(AfterSession(i, session, {})) = {}
    BY <1>1, AfterSessionGoesOn DEF ShapeInv
  <2>2. LET q == [run[i] EXCEPT !.stage = "session-put", !.fresh = TRUE]
        IN q \in Runs /\ Owes(q) = {}
    BY <1>1, <1>2, Puts
  <2>3. PICK q \in Runs : run' = [run EXCEPT ![i] = q] /\ Owes(q) = {}
    BY <1>3, <2>1, <2>2 DEF SessionReads, Becomes
  <2> QED  BY <1>2, <1>3, <2>3, OneSilent DEF SessionReads, ghosts
<1>4. CASE SessionCollides(i)
  <2>1. run[i].tries + 1 \in 1..UpdateAttempts
    <3>1. run[i].tries < UpdateAttempts
      BY <1>4 DEF SessionCollides
    <3> QED  BY <1>2, <3>1, NextTry
  <2>2. LET q == [run[i] EXCEPT !.stage = "session-read", !.tries = run[i].tries + 1]
        IN q \in Runs /\ Owes(q) = {}
    BY <1>1, <1>2, <2>1, Retries
  <2>3. PICK q \in Runs : run' = [run EXCEPT ![i] = q] /\ Owes(q) = {}
    BY <1>4, <2>2 DEF SessionCollides, Becomes
  <2> QED  BY <1>2, <1>4, <2>3, OneSilent DEF SessionCollides, ghosts
<1> QED  BY <1>3, <1>4

LEMMA SummaryStepsAreSilent ==
  ASSUME ShapeInv, NEW i \in Invocations, SummaryReads(i) \/ SummaryCollides(i)
  PROVE  Silent
<1>0. PICK stage \in {"summary-read", "summary-put"} : At(i, stage)
  BY DEF SummaryReads, SummaryCollides
<1>1. run[i] \in Runs /\ run[i].stage # "idle" /\ run[i].task \in Reading
  BY <1>0, ReadingStages DEF Stages
<1>2. Owes(run[i]) = {} /\ run[i].tries \in 1..UpdateAttempts /\ run[i].stage \in Stages
  BY <1>0, <1>1, Inactive, RunFields DEF At
<1>3. CASE SummaryReads(i)
  <2> DEFINE q == AfterSummary(i, summary, summary)
             p == [run[i] EXCEPT !.stage = "summary-put", !.fresh = TRUE]
  <2>1. q \in Runs /\ Owes(q) = {} /\ Carries(run[i]) \subseteq Carries(q)
    BY <1>1, AfterSummaryGoesOn, CarriesOn DEF ShapeInv
  <2>2. p \in Runs /\ Owes(p) = {}
    BY <1>1, <1>2, Puts
  <2>3. CASE run' = [run EXCEPT ![i] = q]
    BY <1>2, <1>3, <2>1, <2>3, OneSilent DEF SummaryReads, ghosts
  <2>4. CASE run' = [run EXCEPT ![i] = p] /\ ApplySummary(summary, run[i].task) # summary
    <3>1. Carries(run[i]) = {}
      BY <2>4, SocKeepsSummary, Inactive
    <3> QED  BY <1>2, <1>3, <2>2, <2>4, <3>1, OneSilent DEF SummaryReads, ghosts
  <2> QED  BY <1>3, <2>3, <2>4 DEF SummaryReads, Becomes
<1>4. CASE SummaryCollides(i)
  <2>1. PICK tries \in 1..UpdateAttempts : tries = run[i].tries + 1
    <3>1. run[i].tries < UpdateAttempts
      BY <1>4 DEF SummaryCollides
    <3>2. run[i].tries + 1 \in 1..UpdateAttempts
      BY <1>2, <3>1, NextTry
    <3> QED  BY <3>2
  <2> DEFINE q == [run[i] EXCEPT !.stage = "summary-read", !.tries = tries]
  <2>2. /\ q \in Runs /\ Owes(q) = {} /\ q.stage = "summary-read" /\ q.task = run[i].task
        /\ q.id = run[i].id /\ q.todo = run[i].todo
    <3>1. q \in Runs /\ Owes(q) = {}
      BY <1>1, <1>2, Retries
    <3>2. run[i] \in Running /\ run[i].stage # "publish"
      BY <1>0, <1>1, RunFields DEF At
    <3> QED  BY <3>1, <3>2 DEF Running
  <2>3. Carries(run[i]) \subseteq Carries(q)
    BY <2>2 DEF Carries
  <2> HIDE DEF q
  <2>4. run' = [run EXCEPT ![i] = q]
    BY <1>4, <2>1 DEF SummaryCollides, Becomes, q
  <2> QED  BY <1>2, <1>4, <2>2, <2>3, <2>4, OneSilent DEF SummaryCollides, ghosts
<1> QED  BY <1>3, <1>4

LEMMA SummaryPutsIsSilent ==
  ASSUME ShapeInv, NEW i \in Invocations, SummaryPuts(i)
  PROVE  Silent
<1> DEFINE after == ApplySummary(summary, run[i].task)
           q == AfterSummary(i, summary, after)
<1>1. run[i] \in Runs /\ run[i].stage # "idle" /\ run[i].task \in Reading
  <2>1. "summary-put" \in Stages \ {"validate", "reserve"} /\ At(i, "summary-put")
    BY DEF SummaryPuts, Stages
  <2> QED  BY <2>1, ReadingStages
<1>2. after \in Summary
  BY <1>1, SummariesKeepShape DEF ShapeInv
<1>3. Owes(run[i]) = {} /\ Owes(q) = {} /\ Carries(run[i]) \subseteq Carries(q)
  <2> HIDE DEF after
  <2>1. /\ Owes(q) = {} /\ q.task = run[i].task
        /\ q.task.kind = "soc" => q.stage = "reserve" /\ q.id = run[i].id /\ q.todo = run[i].todo
    BY <1>1, <1>2, AfterSummaryGoesOn DEF ShapeInv
  <2> QED  BY <2>1, CarriesOn, Inactive DEF SummaryPuts, At
<1>4. run' = [Outdated EXCEPT ![i] = q]
  BY DEF SummaryPuts
<1> HIDE DEF q
<1>5. \A j \in Invocations : Owes(run'[j]) = Owes(run[j]) /\ Carries(run[j]) \subseteq Carries(run'[j])
  BY <1>3, <1>4, Others DEF ShapeInv, Outdated
<1> QED  BY <1>5 DEF SummaryPuts, Silent

LEMMA SessionPutsIsSilent ==
  ASSUME ShapeInv, SessionInv, NEW i \in Invocations, SessionPuts(i)
  PROVE  Silent
<1> DEFINE t == run[i].task
           after == ApplyUpdate(session, t)
           crossing == {u \in WantsSoc : t.kind = "soc" /\ CrossedThreshold(session, t, SocThreshold[u])}
           q == AfterSession(i, after, crossing)
<1>1. run[i] \in Runs /\ run[i].stage # "idle" /\ t \in Reading /\ session \in Session
  <2>1. "session-put" \in Stages \ {"validate", "reserve"} /\ At(i, "session-put")
    BY DEF SessionPuts, Stages
  <2> QED  BY <2>1, ReadingStages DEF ShapeInv
<1>2. after \in Session /\ crossing \in SUBSET Users
  BY <1>1, UpdatesKeepShape, ChargingAssumption DEF ChargingAssumption
<1>3. /\ Owes(q) = {} /\ q.stage \in {"stop-enqueue", "summary-read"} /\ q.task = t
      /\ q.todo = crossing /\ (q.stage = "stop-enqueue" => t.kind = "charging")
      /\ (crossing # {} => q.id = after.id)
  <2> HIDE DEF after, crossing
  <2> QED  BY <1>1, <1>2, AfterSessionGoesOn
<1>4. Owes(run[i]) = {} /\ Carries(run[i]) = {}
  BY Inactive DEF SessionPuts, At
<1>5. run' = [Outdated EXCEPT ![i] = q]
  BY DEF SessionPuts
<1>6. ASSUME NEW c \in reached', c \notin reached
      PROVE  c \in Carries(q)
  <2>1. /\ t.kind = "soc" /\ session.observed /\ session.soc # NoSoc
        /\ c.user \in WantsSoc /\ SocThreshold[c.user] \in (session.soc + 1)..t.value
        /\ c = [user |-> c.user, id |-> session.id]
    BY <1>6 DEF SessionPuts
  <2>2. SocThreshold[c.user] \in Nat /\ session.soc \in Nat /\ t.value \in Nat
    BY <1>1, <2>1, ChargingAssumption DEF ChargingAssumption, Session, Reading
  <2>3. c.user \in crossing
    BY <2>1, <2>2 DEF CrossedThreshold, SessionInv
  <2>4. after.id = session.id
    BY <1>1, <2>1 DEF ApplyUpdate, ApplySoc, Session
  <2> HIDE DEF after, crossing, q
  <2>5. /\ q.stage = "summary-read" /\ q.task.kind = "soc" /\ q.id = session.id
        /\ c.user \in q.todo
    BY <1>3, <2>1, <2>3, <2>4
  <2> QED  BY <2>1, <2>5 DEF Carries
<1> HIDE DEF q
<1>7. \A j \in Invocations : Owes(run'[j]) = Owes(run[j]) /\ Carries(run[j]) \subseteq Carries(run'[j])
  BY <1>3, <1>4, <1>5, Others DEF ShapeInv, Outdated
<1>8. run'[i] = q
  BY <1>5 DEF ShapeInv, Outdated
<1> QED  BY <1>6, <1>7, <1>8 DEF SessionPuts, Silent

LEMMA EnqueuesAreSilent ==
  ASSUME ShapeInv, NEW i \in Invocations, StopEnqueued(i) \/ SummaryEnqueued(i)
  PROVE  Silent
<1>1. PICK stage \in {"stop-enqueue", "summary-enqueue"} : At(i, stage)
  BY DEF StopEnqueued, SummaryEnqueued
<1>2. run[i].task \in Reading
  BY <1>1, ReadingStages DEF Stages
<1>3. Owes(run[i]) = {} /\ Carries(run[i]) = {}
  BY <1>1, Inactive DEF At
<1>4. \A stage2 \in {"summary-read", "reserve"} :
        Onward(i, stage2, 0, {}) \in Runs /\ Owes(Onward(i, stage2, 0, {})) = {}
  BY <1>2, Times, Onwards DEF Stages
<1>5. PICK q \in Runs : run' = [run EXCEPT ![i] = q] /\ Owes(q) = {}
  BY <1>4 DEF StopEnqueued, SummaryEnqueued, Becomes
<1> QED  BY <1>3, <1>5, OneSilent DEF StopEnqueued, SummaryEnqueued, ghosts

LEMMA ValidatesAreSilent ==
  ASSUME ShapeInv, NEW i \in Invocations, ValidatesStop(i) \/ ValidatesSummary(i)
  PROVE  Silent
<1>1. run[i].task \in Message /\ run[i].task.id \in Time
  BY RunFields DEF ValidatesStop, ValidatesSummary, ShapeInv, At, Proper, Message
<1>2. Owes(run[i]) = {} /\ Carries(run[i]) = {}
  BY Inactive DEF ValidatesStop, ValidatesSummary, At
<1>3. PICK todo \in SUBSET Users : run' = [run EXCEPT ![i] = Onward(i, "reserve", run[i].task.id, todo)]
  <2>1. /\ \A P \in SUBSET WantsStop : P \in SUBSET Users
        /\ Summarised \in SUBSET Users /\ {} \in SUBSET Users
    BY ChargingAssumption DEF ChargingAssumption, Summarised
  <2>2. {u \in WantsStop : ChargingStopDue(session, run[i].task, StopThreshold[u])} \in SUBSET WantsStop
    OBVIOUS
  <2>3. CASE ValidatesStop(i)
    BY <2>1, <2>2, <2>3 DEF ValidatesStop, Becomes
  <2>4. CASE ValidatesSummary(i)
    BY <2>1, <2>4 DEF ValidatesSummary, Becomes
  <2> QED  BY <2>3, <2>4
<1>4. LET q == Onward(i, "reserve", run[i].task.id, todo) IN q \in Runs /\ Owes(q) = {}
  BY <1>1, Onwards DEF Stages
<1> QED  BY <1>2, <1>3, <1>4, OneSilent DEF ValidatesStop, ValidatesSummary, ghosts

LEMMA EndingsAreSilent ==
  ASSUME ShapeInv, NEW i \in Invocations, Ends(i) \/ Contention(i) \/ InvocationFails(i)
  PROVE  Silent
<1>1. run[i].stage # "idle"
  BY IdleOrNot DEF Ends, Contention, InvocationFails, At, ShapeInv
<1>2. CASE Ends(i)
  <2>1. Owes(run[i]) = {} /\ Carries(run[i]) = {}
    BY <1>2, Inactive DEF Ends, At, Carries
  <2> QED  BY <1>2, <2>1, IdleIsARun, OneSilent DEF Ends, Becomes, ghosts
<1>3. CASE Contention(i) \/ InvocationFails(i)
  <2>1. run' = [run EXCEPT ![i] = Idle] /\ harm' # "none"
    BY <1>1, <1>3, BreaksKeeps DEF Contention, InvocationFails
  <2> QED  BY <1>3, <2>1, IdleIsARun, OneSilent DEF Contention, InvocationFails
<1> QED  BY <1>2, <1>3

LEMMA BeginIsSilent ==
  ASSUME ShapeInv, NEW i \in Invocations, Begin(i)
  PROVE  Silent
<1>1. run[i] = Idle /\ \E t \in inbox : run' = [run EXCEPT ![i] = Started(t)]
  BY DEF Begin, Becomes
<1>2. PICK t : run' = [run EXCEPT ![i] = Started(t)]
  BY <1>1
<1>3. Owes(Started(t)) = {}
  BY Inactive DEF Started
<1>4. run'[i] = Started(t) /\ \A j \in Invocations \ {i} : run'[j] = run[j]
  BY <1>2 DEF ShapeInv
<1>5. \A j \in Invocations : Owes(run'[j]) = Owes(run[j]) /\ Carries(run[j]) \subseteq Carries(run'[j])
  BY <1>1, <1>3, <1>4, IdleIsARun
<1> QED  BY <1>5 DEF Begin, Silent, ghosts

(* What can happen beside reserving and publishing.                        *)
LEMMA Silences ==
  ASSUME ShapeInv, SessionInv, [Next]_vars,
         ~\E i \in Invocations : (\E u \in Users : SocReserves(i, u) \/ StopReserves(i, u)
                                                    \/ SummaryReserves(i, u))
           \/ SocPublishes(i) \/ StopPublishes(i) \/ SummaryPublishes(i)
  PROVE  Silent
<1>1. CASE CarReports \/ Tick \/ UNCHANGED vars
  <2>1. UNCHANGED <<run, events, mails, harm, reached>>
    BY <1>1 DEF CarReports, Tick, vars, ghosts
  <2> QED  BY <2>1 DEF Silent
<1>2. CASE OtherPut
  <2>1. \A j \in Invocations : Owes(run'[j]) = Owes(run[j]) /\ Carries(run'[j]) = Carries(run[j])
    BY <1>2, Others DEF OtherPut, ShapeInv
  <2> QED  BY <1>2, <2>1 DEF OtherPut, Silent, ghosts
<1>3. ASSUME NEW i \in Invocations, Handler(i)
      PROVE  Silent
  BY <1>3, SessionStepsAreSilent, SummaryStepsAreSilent, SummaryPutsIsSilent, SessionPutsIsSilent,
     EnqueuesAreSilent, ValidatesAreSilent, EndingsAreSilent DEF Handler
<1> QED  BY <1>1, <1>2, <1>3, BeginIsSilent DEF Next

-----------------------------------------------------------------------------
(* Steps that reserve an event or send a mail.                             *)

LEMMA ReservingKeepsMails ==
  ASSUME ShapeInv, MailInv, NEW i \in Invocations, NEW u \in Users, NEW mailed,
         At(i, "reserve"), Reserving(i, u, mailed)
  PROVE  MailInv'
<1> DEFINE e == Event(i, u)
<1>1. run[i] \in Runs /\ Owes(run[i]) = {} /\ events' = events \cup {e} /\ mails' = mails
  BY Inactive DEF ShapeInv, Reserving, At
<1>2. CASE e \notin events /\ mailed
  <2>1. run' = [run EXCEPT ![i] = Publisher(i, u)]
    BY <1>2 DEF Reserving, Becomes
  <2>2. Owes(run'[i]) = {e} /\ \A j \in Invocations \ {i} : run'[j] = run[j]
    BY <1>1, <2>1, PublisherIsARun DEF ShapeInv
  <2> HIDE DEF e
  <2> QED  BY <1>1, <1>2, <2>2 DEF MailInv
<1>3. CASE ~(e \notin events /\ mailed)
  <2>1. run' = [run EXCEPT ![i] = [run[i] EXCEPT !.todo = @ \ {u}]]
    BY <1>3 DEF Reserving, Becomes
  <2>2. Owes(run'[i]) = {} /\ \A j \in Invocations \ {i} : run'[j] = run[j]
    BY <1>1, <2>1, Tolds DEF ShapeInv
  <2> HIDE DEF e
  <2> QED  BY <1>1, <2>2 DEF MailInv
<1> QED  BY <1>2, <1>3

LEMMA PublishingKeepsMails ==
  ASSUME ShapeInv, MailInv, NEW i \in Invocations, At(i, "publish"), Publishing(i)
  PROVE  MailInv'
<1> DEFINE e == Event(i, run[i].user)
<1>1. /\ run[i].task \in Reading \cup Message /\ run[i].id \in Time
      /\ run[i].todo \ {run[i].user} \in SUBSET Users
  BY RunFields DEF ShapeInv, At
<1>2. Owes(run[i]) = {e}
  BY DEF Owes, At, Event, Tells, KindOf
<1>3. run' = [run EXCEPT ![i] = Onward(i, "reserve", run[i].id, run[i].todo \ {run[i].user})]
  BY DEF Publishing, Becomes
<1>4. Owes(run'[i]) = {} /\ \A j \in Invocations \ {i} : run'[j] = run[j]
  BY <1>1, <1>3, Onwards DEF ShapeInv, Stages
<1>5. mails' = mails (+) SetToBag({e}) /\ events' = events
  BY DEF Publishing
<1> HIDE DEF e
<1>6. e \in events /\ e \notin BagToSet(mails)
  BY <1>2 DEF MailInv
<1>7. /\ IsABag(mails') /\ BagToSet(mails') = BagToSet(mails) \cup {e}
      /\ \A x \in BagToSet(mails') : mails'[x] = 1
  <2>1. IsABag(mails) /\ \A x \in BagToSet(mails) : mails[x] = 1
    BY DEF MailInv
  <2>2. PICK x : x = e
    OBVIOUS
  <2>3. PICK B : B = mails
    OBVIOUS
  <2>4. /\ IsABag(B (+) SetToBag({x})) /\ BagToSet(B (+) SetToBag({x})) = BagToSet(B) \cup {x}
        /\ (B (+) SetToBag({x}))[x] = 1
        /\ \A y \in BagToSet(B) : y # x => (B (+) SetToBag({x}))[y] = B[y]
    <3>1. IsABag(B) /\ x \notin BagToSet(B)
      BY <1>6, <2>1, <2>2, <2>3
    <3> QED  BY <3>1, MailCounts
  <2> QED  BY <1>5, <2>1, <2>2, <2>3, <2>4
<1>8. \A j \in Invocations \ {i} : e \notin Owes(run[j])
  BY <1>2 DEF MailInv
<1> QED  BY <1>4, <1>5, <1>6, <1>7, <1>8 DEF MailInv

LEMMA ReservingKeepsCrossings ==
  ASSUME ShapeInv, CrossingInv, NEW i \in Invocations, NEW u \in Users, NEW mailed,
         At(i, "reserve"), Reserving(i, u, mailed), Tells(i) = "soc" => mailed
  PROVE  CrossingInv'
<1> DEFINE e == Event(i, u)
<1>1. /\ run[i] \in Runs /\ Owes(run[i]) = {} /\ events' = events \cup {e}
      /\ mails' = mails /\ harm' = harm /\ reached' = reached
  BY Inactive DEF ShapeInv, Reserving, At, ghosts
<1>2. \A c \in Carries(run[i]) : c.user = u => SocEvent(c) = e
  BY Carried DEF SocEvent, Event, Tells
<1>3. e.kind = "soc" => mailed
  BY DEF Event
<1>4. PICK q : /\ run' = [run EXCEPT ![i] = q]
               /\ \A c \in Carries(run[i]) : c.user # u => c \in Carries(q)
               /\ (e.kind = "soc" /\ e \notin events => e \in Owes(q))
  <2>1. CASE e \notin events /\ mailed
    <3>1. run' = [run EXCEPT ![i] = Publisher(i, u)]
      BY <2>1 DEF Reserving, Becomes
    <3> QED  BY <1>1, <3>1, PublisherIsARun
  <2>2. CASE ~(e \notin events /\ mailed)
    <3> DEFINE q == [run[i] EXCEPT !.todo = @ \ {u}]
    <3>1. run' = [run EXCEPT ![i] = q]
      BY <2>2 DEF Reserving, Becomes
    <3>2. /\ q.stage = "reserve" /\ q.task = run[i].task /\ q.id = run[i].id
          /\ q.todo = run[i].todo \ {u}
      BY <1>1, Tolds
    <3> HIDE DEF q
    <3>3. \A c \in Carries(run[i]) : c.user # u => c \in Carries(q)
      BY <3>2 DEF Carries
    <3> QED  BY <1>3, <2>2, <3>1, <3>3
  <2> QED  BY <2>1, <2>2
<1>5. run'[i] = q /\ \A j \in Invocations \ {i} : run'[j] = run[j]
  BY <1>4 DEF ShapeInv
<1> HIDE DEF e
<1> SUFFICES ASSUME harm = "none"
             PROVE  /\ \A x \in events' : x.kind = "soc" => Mailed(x)'
                    /\ \A c \in reached' : Told(c)'
  BY <1>1 DEF CrossingInv
<1>6. ASSUME NEW x \in events', x.kind = "soc"
      PROVE  Mailed(x)'
  <2>1. CASE x \in events
    <3>1. Mailed(x)
      BY <1>6, <2>1 DEF CrossingInv
    <3>2. \A j \in Invocations : x \in Owes(run[j]) => x \in Owes(run'[j])
      BY <1>1, <1>5
    <3> QED  BY <1>1, <3>1, <3>2 DEF Mailed
  <2>2. CASE x \notin events
    <3>1. x = e
      BY <1>1, <2>2
    <3>2. x \in Owes(q)
      BY <1>4, <1>6, <2>2, <3>1
    <3>3. x \in Owes(run'[i])
      BY <1>5, <3>2
    <3> QED  BY <3>3 DEF Mailed
  <2> QED  BY <2>1, <2>2
<1>7. ASSUME NEW c \in reached'
      PROVE  Told(c)'
  <2>1. Told(c)
    BY <1>1, <1>7 DEF CrossingInv
  <2>2. SocEvent(c)' = SocEvent(c)
    BY DEF SocEvent
  <2> QED  BY <1>1, <1>2, <1>4, <1>5, <2>1, <2>2 DEF Told
<1> QED  BY <1>6, <1>7

LEMMA PublishingKeepsCrossings ==
  ASSUME ShapeInv, MailInv, CrossingInv, NEW i \in Invocations, At(i, "publish"), Publishing(i)
  PROVE  CrossingInv'
<1> DEFINE e == Event(i, run[i].user)
           todo == run[i].todo \ {run[i].user}
           q == Onward(i, "reserve", run[i].id, todo)
<1>1. /\ run[i].task \in Reading \cup Message /\ run[i].id \in Time /\ todo \in SUBSET Users
  BY RunFields DEF ShapeInv, At
<1>2. /\ q.stage = "reserve" /\ q.task = run[i].task /\ q.id = run[i].id /\ q.todo = todo
  BY <1>1, Onwards DEF Stages
<1>3. Owes(run[i]) = {e} /\ e \in events
  <2>1. Owes(run[i]) = {e}
    BY DEF Owes, At, Event, Tells, KindOf
  <2> QED  BY <2>1 DEF MailInv
<1>4. run'[i] = q /\ \A j \in Invocations \ {i} : run'[j] = run[j]
  BY DEF Publishing, Becomes, ShapeInv
<1>5. /\ mails' = mails (+) SetToBag({e}) /\ events' = events
      /\ harm' = harm /\ reached' = reached
  BY DEF Publishing, ghosts
<1>6. \A c \in Carries(run[i]) : \/ SocEvent(c) = e
                                 \/ c \in Carries(q)
  <2> SUFFICES ASSUME NEW c \in Carries(run[i])
               PROVE  SocEvent(c) = e \/ c \in Carries(q)
    OBVIOUS
  <2>1. /\ run[i].task.kind = "soc" /\ c \in [user: WantsSoc, id: {run[i].id}]
        /\ c.id = run[i].id /\ c.user \in run[i].todo
    BY Carried
  <2>2. CASE c.user = run[i].user
    BY <2>1, <2>2 DEF SocEvent, Event, Tells
  <2>3. CASE c.user # run[i].user
    <3>1. c.user \in todo
      BY <2>1, <2>3
    <3> HIDE DEF q, todo
    <3> QED  BY <1>2, <2>1, <3>1 DEF Carries
  <2> QED  BY <2>2, <2>3
<1>7. BagToSet(mails') = BagToSet(mails) \cup {e}
  <2> HIDE DEF e
  <2> QED  BY <1>5, MailCounts DEF MailInv
<1> HIDE DEF e, q
<1> SUFFICES ASSUME harm = "none"
             PROVE  /\ \A x \in events' : x.kind = "soc" => Mailed(x)'
                    /\ \A c \in reached' : Told(c)'
  BY <1>5 DEF CrossingInv
<1>8. ASSUME NEW x \in events', x.kind = "soc"
      PROVE  Mailed(x)'
  BY <1>3, <1>4, <1>5, <1>7, <1>8 DEF CrossingInv, Mailed
<1>9. ASSUME NEW c \in reached'
      PROVE  Told(c)'
  <2>1. Told(c)
    BY <1>5, <1>9 DEF CrossingInv
  <2>2. SocEvent(c)' = SocEvent(c)
    BY DEF SocEvent
  <2> QED  BY <1>3, <1>4, <1>5, <1>6, <2>1, <2>2 DEF Told
<1> QED  BY <1>8, <1>9

(* Both, whichever of the three kinds of event it is.                      *)
LEMMA MailsAndCrossingsKept ==
  ASSUME ShapeInv, MailInv, CrossingInv, SessionInv, [Next]_vars
  PROVE  MailInv' /\ CrossingInv'
<1>1. ASSUME NEW i \in Invocations, NEW u \in Users,
             SocReserves(i, u) \/ StopReserves(i, u) \/ SummaryReserves(i, u)
      PROVE  MailInv' /\ CrossingInv'
  <2>1. PICK mailed \in BOOLEAN :
          At(i, "reserve") /\ Reserving(i, u, mailed) /\ (Tells(i) = "soc" => mailed)
    <3>1. (u \in WantsSummary) \in BOOLEAN /\ TRUE \in BOOLEAN
      OBVIOUS
    <3> QED  BY <1>1, <3>1 DEF SocReserves, StopReserves, SummaryReserves
  <2> QED  BY <2>1, ReservingKeepsMails, ReservingKeepsCrossings
<1>2. ASSUME NEW i \in Invocations, SocPublishes(i) \/ StopPublishes(i) \/ SummaryPublishes(i)
      PROVE  MailInv' /\ CrossingInv'
  BY <1>2, PublishingKeepsMails, PublishingKeepsCrossings
     DEF SocPublishes, StopPublishes, SummaryPublishes
<1> QED  BY <1>1, <1>2, Silences, SilenceKeepsMails, SilenceKeepsCrossings

-----------------------------------------------------------------------------
(* The session and the puts that are under way.                            *)

LEMMA SessionPutsKeepsSession ==
  ASSUME ShapeInv, SessionInv, FreshInv, NEW i \in Invocations, SessionPuts(i)
  PROVE  SessionInv'
<1>1. PICK t \in Reading : t = run[i].task
  <2>1. "session-put" \in Stages \ {"validate", "reserve"} /\ At(i, "session-put")
    BY DEF SessionPuts, Stages
  <2> QED  BY <2>1, ReadingStages
<1>2. PICK s \in Session : s = session
  BY DEF ShapeInv
<1>3. ApplyUpdate(s, t) # s /\ session' = ApplyUpdate(s, t)
  BY <1>1, <1>2 DEF SessionPuts, FreshInv
<1>4. resumedAt' = IF t.kind = "charging" /\ t.value THEN t.at
                   ELSE IF session'.id # s.id THEN 0 ELSE resumedAt
  BY <1>1, <1>2 DEF SessionPuts
<1>5. /\ resumedAt \in Nat /\ t.at \in Nat
      /\ s.id \in Nat /\ s.chargingAt \in Nat /\ s.stopAt \in Nat /\ s.pluggedAt \in Nat
      /\ s.plugged \in BOOLEAN /\ s.observed \in BOOLEAN
  <2>1. resumedAt \in Time
    BY DEF ShapeInv
  <2> QED  BY <1>1, <2>1, Times DEF Session, Reading
<1>6. CASE t.kind = "plugged"
  <2>1. t.at > s.pluggedAt /\ session' = ApplyPlugged(s, t)
    <3>1. ApplyUpdate(s, t) = ApplyPlugged(s, t)
      BY <1>6 DEF ApplyUpdate
    <3>2. ~(t.at <= s.pluggedAt)
      BY <1>3, <3>1 DEF ApplyPlugged
    <3> QED  BY <1>3, <1>5, <3>1, <3>2
  <2>0. ~(t.at <= s.pluggedAt)
    BY <1>5, <2>1
  <2>2. CASE ~t.value
    <3>1. session' = NewSession(0, FALSE, t.at)
      BY <2>0, <2>1, <2>2 DEF ApplyPlugged
    <3> QED  BY <3>1 DEF NewSession, SessionInv
  <2>3. CASE t.value /\ s.plugged
    <3>1. session' = [s EXCEPT !.pluggedAt = t.at]
      BY <2>0, <2>1, <2>3 DEF ApplyPlugged
    <3>2. /\ session'.id = s.id /\ session'.plugged = s.plugged /\ session'.observed = s.observed
          /\ session'.chargingAt = s.chargingAt /\ session'.stopAt = s.stopAt
      BY <3>1 DEF Session
    <3>3. resumedAt' = resumedAt
      BY <1>4, <1>6, <3>2
    <3> QED  BY <1>2, <3>2, <3>3 DEF SessionInv
  <2>4. CASE t.value /\ ~s.plugged
    <3>1. session' = NewSession(t.at, TRUE, t.at)
      BY <2>0, <2>1, <2>4 DEF ApplyPlugged
    <3>2. s.id = 0 /\ t.at # 0
      BY <1>2, <1>5, <2>1, <2>4 DEF SessionInv
    <3>3. session'.id = t.at /\ session'.chargingAt = 0 /\ session'.stopAt = 0
          /\ session'.plugged /\ ~session'.observed
      BY <3>1 DEF NewSession
    <3>4. resumedAt' = 0
      BY <1>4, <1>6, <3>2, <3>3
    <3> QED  BY <3>2, <3>3, <3>4 DEF SessionInv
  <2> QED  BY <2>2, <2>3, <2>4
<1>7. CASE t.kind = "charging"
  <2>1. t.at > s.chargingAt /\ session' = ApplyCharging(s, t)
    <3>1. ApplyUpdate(s, t) = ApplyCharging(s, t)
      BY <1>7 DEF ApplyUpdate
    <3>2. ~(t.at <= s.chargingAt)
      BY <1>3, <3>1 DEF ApplyCharging
    <3> QED  BY <1>3, <1>5, <3>1, <3>2
  <2>0. ~(t.at <= s.chargingAt)
    BY <1>5, <2>1
  <2>2. CASE t.value
    <3>1. session' = ChargingStarts(s, t.at)
      BY <2>0, <2>1, <2>2 DEF ApplyCharging
    <3>2. /\ session'.id = s.id /\ session'.plugged = s.plugged
          /\ (session'.observed <=> s.observed \/ s.plugged)
          /\ session'.chargingAt = t.at /\ session'.stopAt = 0
      <4>1. PICK observed \in BOOLEAN : observed <=> s.observed \/ s.plugged
        <5>1. (s.observed \/ s.plugged) \in BOOLEAN
          OBVIOUS
        <5> QED  BY <5>1
      <4>2. ChargingStarts(s, t.at) =
              [s EXCEPT !.observed = observed, !.charging = "yes",
                        !.startedAt = IF s.charging = "yes" /\ s.startedAt > 0 THEN @ ELSE t.at,
                        !.stopAt = 0, !.chargingAt = t.at]
        BY <1>5, <4>1 DEF ChargingStarts
      <4> QED  BY <3>1, <4>1, <4>2 DEF Session
    <3>3. resumedAt' = t.at
      BY <1>4, <1>7, <2>2
    <3> QED  BY <1>2, <1>5, <3>2, <3>3 DEF SessionInv
  <2>3. CASE ~t.value
    <3>1. PICK stopAt \in {t.at, s.stopAt} :
            session' = [s EXCEPT !.charging = "no", !.startedAt = 0, !.chargingAt = t.at,
                                 !.stopAt = stopAt]
      BY <2>0, <2>1, <2>3 DEF ApplyCharging
    <3>2. /\ session'.id = s.id /\ session'.plugged = s.plugged /\ session'.observed = s.observed
          /\ session'.chargingAt = t.at /\ session'.stopAt = stopAt
      BY <3>1 DEF Session
    <3>3. resumedAt' = resumedAt
      BY <1>4, <2>3, <3>2
    <3> QED  BY <1>2, <1>5, <2>1, <3>2, <3>3 DEF SessionInv
  <2> QED  BY <2>2, <2>3
<1>8. CASE t.kind = "soc"
  <2>1. session' = [s EXCEPT !.soc = t.value, !.socAt = t.at]
    BY <1>3, <1>8 DEF ApplyUpdate, ApplySoc
  <2>2. /\ session'.id = s.id /\ session'.plugged = s.plugged /\ session'.observed = s.observed
        /\ session'.chargingAt = s.chargingAt /\ session'.stopAt = s.stopAt
    BY <2>1 DEF Session
  <2>3. resumedAt' = resumedAt
    BY <1>4, <1>8, <2>2
  <2> QED  BY <1>2, <2>2, <2>3 DEF SessionInv
<1> QED  BY <1>1, <1>6, <1>7, <1>8 DEF Reading

(* A step leaves an invocation and the session as they are, makes what the *)
(* invocation has read stale, or is one of the invocation's own.           *)
LEMMA Steps ==
  ASSUME ShapeInv, [Next]_vars, NEW i \in Invocations
  PROVE  \/ run'[i] = run[i] /\ UNCHANGED <<session, resumedAt>>
         \/ run'[i] = Outdated[i]
         \/ Begin(i) \/ Handler(i)
<1>1. CASE CarReports \/ Tick \/ OtherPut \/ UNCHANGED vars
  BY <1>1 DEF CarReports, Tick, OtherPut, vars, row, ghosts
<1>2. ASSUME NEW j \in Invocations, i # j, Begin(j) \/ Handler(j)
      PROVE  \/ run'[i] = run[i] /\ UNCHANGED <<session, resumedAt>>
             \/ run'[i] = Outdated[i]
  <2>1. CASE SessionPuts(j) \/ SummaryPuts(j)
    <3>1. PICK q : run' = [Outdated EXCEPT ![j] = q]
      BY <2>1 DEF SessionPuts, SummaryPuts
    <3> QED  BY <1>2, <3>1 DEF Outdated
  <2>2. CASE ~(SessionPuts(j) \/ SummaryPuts(j))
    <3>1. \E q : run' = [run EXCEPT ![j] = q]
      BY <1>2, <2>2 DEF Handler, Begin, SessionReads, SessionCollides, StopEnqueued, SummaryReads,
         SummaryCollides, SummaryEnqueued, ValidatesStop, ValidatesSummary, SocReserves, StopReserves,
         SummaryReserves, Reserving, SocPublishes, StopPublishes, SummaryPublishes, Publishing,
         Contention, Ends, InvocationFails, Breaks, Becomes
    <3>2. UNCHANGED <<session, resumedAt>>
      BY <1>2, <2>2 DEF Handler, Begin, SessionReads, SessionCollides, StopEnqueued, SummaryReads,
         SummaryCollides, SummaryEnqueued, ValidatesStop, ValidatesSummary, SocReserves, StopReserves,
         SummaryReserves, Reserving, SocPublishes, StopPublishes, SummaryPublishes, Publishing,
         Contention, Ends, InvocationFails, row, ghosts
    <3> QED  BY <1>2, <3>1, <3>2 DEF ShapeInv
  <2> QED  BY <2>1, <2>2
<1> QED  BY <1>1, <1>2 DEF Next

LEMMA SessionKept ==
  ASSUME ShapeInv, SessionInv, FreshInv, [Next]_vars
  PROVE  SessionInv'
<1>1. CASE UNCHANGED <<session, resumedAt>>
  BY <1>1 DEF SessionInv
<1>2. ASSUME NEW i \in Invocations, Handler(i), ~SessionPuts(i)
      PROVE  UNCHANGED <<session, resumedAt>>
  BY <1>2 DEF Handler, SessionReads, SessionCollides, StopEnqueued, SummaryReads, SummaryPuts,
     SummaryCollides, SummaryEnqueued, ValidatesStop, ValidatesSummary, SocReserves, StopReserves,
     SummaryReserves, Reserving, SocPublishes, StopPublishes, SummaryPublishes, Publishing,
     Contention, Ends, InvocationFails, row, ghosts
<1>3. CASE CarReports \/ Tick \/ OtherPut \/ UNCHANGED vars \/ \E i \in Invocations : Begin(i)
  BY <1>1, <1>3 DEF CarReports, Tick, OtherPut, Begin, vars, row, ghosts
<1> QED  BY <1>1, <1>2, <1>3, SessionPutsKeepsSession DEF Next

(* What an invocation is left with if it is not reading the session.       *)
LEMMA OtherStages ==
  ASSUME ShapeInv, NEW i \in Invocations, Begin(i) \/ Handler(i), ~SessionReads(i)
  PROVE  run'[i].stage # "session-put"
<1>0. run[i] \in Runs
  BY DEF ShapeInv
<1>1. ASSUME NEW stage, stage # "session-put", NEW id, NEW todo
      PROVE  Onward(i, stage, id, todo).stage # "session-put"
  BY <1>1 DEF Onward
<1>2. CASE Begin(i)
  BY <1>2 DEF Begin, Becomes, Started, ShapeInv
<1>3. CASE SessionPuts(i)
  <2>1. PICK after, crossing : run' = [Outdated EXCEPT ![i] = AfterSession(i, after, crossing)]
    BY <1>3 DEF SessionPuts
  <2>2. run'[i] = AfterSession(i, after, crossing)
    BY <2>1 DEF Outdated
  <2> QED  BY <1>1, <2>2 DEF AfterSession
<1>4. \A before, after : AfterSummary(i, before, after).stage # "session-put"
  BY <1>1 DEF AfterSummary
<1>5. CASE SummaryPuts(i)
  BY <1>4, <1>5 DEF SummaryPuts, Outdated
<1>6. CASE SummaryReads(i)
  <2>1. [run[i] EXCEPT !.stage = "summary-put", !.fresh = TRUE].stage # "session-put"
    <3>1. run[i] \in Running
      BY <1>0, <1>6, RunFields DEF SummaryReads, At
    <3> QED  BY <3>1 DEF Running
  <2> QED  BY <1>4, <1>6, <2>1 DEF SummaryReads, Becomes, ShapeInv
<1>7. CASE SessionCollides(i) \/ SummaryCollides(i)
  <2>1. run[i] \in Running
    BY <1>0, <1>7, RunFields DEF SessionCollides, SummaryCollides, At
  <2>2. \A stage \in {"session-read", "summary-read"} :
          [run[i] EXCEPT !.stage = stage, !.tries = @ + 1].stage = stage
    BY <2>1 DEF Running
  <2>3. PICK stage \in {"session-read", "summary-read"} :
          run'[i] = [run[i] EXCEPT !.stage = stage, !.tries = @ + 1]
    BY <1>7 DEF SessionCollides, SummaryCollides, Becomes, ShapeInv
  <2> QED  BY <2>2, <2>3
<1>8. CASE StopEnqueued(i) \/ SummaryEnqueued(i) \/ ValidatesStop(i) \/ ValidatesSummary(i)
  BY <1>1, <1>8 DEF StopEnqueued, SummaryEnqueued, ValidatesStop, ValidatesSummary, Becomes, ShapeInv
<1>9. ASSUME NEW u \in Users, SocReserves(i, u) \/ StopReserves(i, u) \/ SummaryReserves(i, u)
      PROVE  run'[i].stage # "session-put"
  <2>1. At(i, "reserve")
    BY <1>9 DEF SocReserves, StopReserves, SummaryReserves
  <2>2. run'[i] \in {Publisher(i, u), [run[i] EXCEPT !.todo = @ \ {u}]}
    BY <1>9 DEF SocReserves, StopReserves, SummaryReserves, Reserving, Becomes, ShapeInv
  <2> QED  BY <1>0, <2>1, <2>2, Tolds, PublisherIsARun
<1>10. CASE SocPublishes(i) \/ StopPublishes(i) \/ SummaryPublishes(i)
  BY <1>1, <1>10 DEF SocPublishes, StopPublishes, SummaryPublishes, Publishing, Becomes, ShapeInv
<1>11. CASE Contention(i) \/ Ends(i) \/ InvocationFails(i)
  BY <1>11, IdleIsARun DEF Contention, Ends, InvocationFails, Breaks, Becomes, ShapeInv
<1> QED  BY <1>2, <1>3, <1>5, <1>6, <1>7, <1>8, <1>9, <1>10, <1>11 DEF Handler

LEMMA FreshKept ==
  ASSUME ShapeInv, FreshInv, [Next]_vars
  PROVE  FreshInv'
<1> SUFFICES ASSUME NEW i \in Invocations, run'[i].stage = "session-put", run'[i].fresh
             PROVE  ApplyUpdate(session', run'[i].task) # session'
  BY DEF FreshInv, At
<1>1. CASE run'[i] = run[i] /\ session' = session
  BY <1>1 DEF FreshInv, At
<1>2. CASE run'[i] = Outdated[i]
  BY <1>2, Others DEF ShapeInv
<1>3. CASE SessionReads(i)
  <2>1. run[i] \in Runs /\ run[i].stage # "idle" /\ run[i].task \in Reading /\ run[i] \in Running
    <3>1. "session-read" \in Stages \ {"validate", "reserve"} /\ At(i, "session-read")
      BY <1>3 DEF SessionReads, Stages
    <3> QED  BY <3>1, ReadingStages, RunFields
  <2>2. AfterSession(i, session, {}).stage # "session-put"
    BY <2>1, AfterSessionGoesOn DEF ShapeInv
  <2>3. /\ ApplyUpdate(session, run[i].task) # session
        /\ run'[i] = [run[i] EXCEPT !.stage = "session-put", !.fresh = TRUE]
    BY <1>3, <2>2 DEF SessionReads, Becomes, ShapeInv
  <2>4. run'[i].task = run[i].task
    BY <2>1, <2>3 DEF Running
  <2>5. session' = session
    BY <1>3 DEF SessionReads, row
  <2> QED  BY <2>3, <2>4, <2>5
<1> QED  BY <1>1, <1>2, <1>3, Steps, OtherStages

-----------------------------------------------------------------------------
(* The inductive invariant.                                                *)
Inv == ShapeInv /\ MailInv /\ CrossingInv /\ SessionInv /\ FreshInv

LEMMA InvStart ==
  ASSUME Init
  PROVE  Inv
<1>1. MailInv
  BY NoMails, IdleIsARun DEF Init, MailInv
<1>2. CrossingInv
  BY DEF Init, CrossingInv
<1>3. SessionInv
  <2>1. PICK script \in Scripts :
          session = IF script.plugged THEN NewSession(1, TRUE, 1) ELSE NewSession(0, FALSE, 0)
    BY DEF Init
  <2> QED  BY <2>1 DEF Init, NewSession, SessionInv
<1>4. FreshInv
  BY IdleIsARun DEF Init, FreshInv, At
<1> QED  BY <1>1, <1>2, <1>3, <1>4, ShapeStart DEF Inv

LEMMA InvKept ==
  ASSUME Inv, [Next]_vars
  PROVE  Inv'
BY ShapeKept, MailsAndCrossingsKept, SessionKept, FreshKept DEF Inv

THEOREM Invariance == Spec => []Inv
BY InvStart, InvKept, PTL DEF Spec

(* Rows, tasks, invocations, events and mails have their shape, and a      *)
(* stored stop of the summary has the charge it ended.                     *)
THEOREM TypeCorrect == Spec => []TypeOK
<1>1. Inv => TypeOK
  BY DEF Inv, ShapeInv, MailInv, TypeOK, Runs
<1> QED  BY <1>1, Invariance, PTL

(* No delivery, retry or invocation beside it mails an event twice.        *)
THEOREM OneMail == Spec => []AtMostOneMail
<1>1. Inv => AtMostOneMail
  BY DEF Inv, MailInv, AtMostOneMail, Copies, BagIn
<1> QED  BY <1>1, Invariance, PTL

(* Without a failure every crossing of a threshold is mailed once all that *)
(* was delivered has been handled.                                         *)
THEOREM CrossingMailed == Spec => []CrossingIsMailed
<1>1. ASSUME Inv, Quiet, harm = "none", NEW r \in reached
      PROVE  Copies(SocEvent(r)) = 1
  <2>1. \A i \in Invocations : Owes(run[i]) = {} /\ Carries(run[i]) = {}
    BY <1>1, IdleIsARun DEF Quiet
  <2>2. SocEvent(r) \in events
    BY <1>1, <2>1 DEF Inv, CrossingInv, Told
  <2>3. SocEvent(r).kind = "soc"
    BY DEF SocEvent
  <2>4. SocEvent(r) \in BagToSet(mails)
    BY <1>1, <2>1, <2>2, <2>3 DEF Inv, CrossingInv, Mailed
  <2> QED  BY <1>1, <2>4 DEF Inv, MailInv, Copies, BagIn
<1>2. Inv => CrossingIsMailed
  BY <1>1 DEF CrossingIsMailed, SocEvent
<1> QED  BY <1>2, Invariance, PTL

(* A stop is only confirmed if the session has not charged again since.    *)
THEOREM StopConfirmed == Spec => StopIsConfirmed
<1> DEFINE Confirms ==
      \A i \in Invocations :
        At(i, "validate") /\ run'[i] # Idle /\ run[i].task.kind = "stop" /\ run'[i].todo # {}
          => resumedAt <= run[i].task.stopAt
<1>1. ASSUME Inv, [Next]_vars
      PROVE  Confirms
  <2> SUFFICES ASSUME NEW i \in Invocations, At(i, "validate"), run'[i] # Idle,
                      run[i].task.kind = "stop", run'[i].todo # {}
               PROVE  resumedAt <= run[i].task.stopAt
    OBVIOUS
  <2>1. run[i] \in Runs /\ run[i].stage = "validate" /\ run[i].todo = {} /\ run[i].task \in Message
    BY <1>1, RunFields DEF Inv, ShapeInv, At, Proper
  <2>2. run'[i] # run[i] /\ run'[i] # Outdated[i]
    BY <1>1, <2>1, Others DEF Inv, ShapeInv
  <2>3. ~Begin(i)
    BY <2>1, IdleIsARun DEF Begin
  <2>4. Handler(i)
    BY <1>1, <2>2, <2>3, Steps DEF Inv
  <2>5. ValidatesStop(i)
    BY <1>1, <2>1, <2>4 DEF Handler, At, SessionReads, SessionPuts, SessionCollides, StopEnqueued,
       SummaryReads, SummaryPuts, SummaryCollides, SummaryEnqueued, ValidatesSummary, SocReserves,
       StopReserves, SummaryReserves, SocPublishes, StopPublishes, SummaryPublishes, Contention,
       Ends, InvocationFails, Breaks, Becomes, Inv, ShapeInv
  <2>6. run'[i].todo = {u \in WantsStop : ChargingStopDue(session, run[i].task, StopThreshold[u])}
    BY <1>1, <2>5 DEF ValidatesStop, Becomes, Onward, Inv, ShapeInv
  <2>7. PICK u : ChargingStopDue(session, run[i].task, StopThreshold[u])
    BY <2>6
  <2>8. session.id # 0 /\ session.stopAt # 0 /\ session.stopAt = run[i].task.stopAt
    BY <2>1, <2>7, Times DEF ChargingStopDue, Message
  <2> QED  BY <1>1, <2>8 DEF Inv, SessionInv
<1>2. Inv /\ [Next]_vars => [Confirms]_vars
  BY <1>1
<1>3. Spec => [][Confirms]_vars
  BY <1>2, Invariance, PTL DEF Spec
<1> QED  BY <1>3 DEF StopIsConfirmed

-----------------------------------------------------------------------------
(* Pauses and unpluggings.                                                 *)

SummaryEvent(id, u) == [kind |-> "summary", user |-> u, id |-> id]
Announces(r, id, u) ==
  /\ r.stage \in {"reserve", "publish"} /\ r.task.kind \notin {"soc", "stop"}
  /\ r.id = id /\ u \in r.todo

(* The reading that stopped the charge in the row, and the message about   *)
(* that stop: an invocation that has one of them and still comes to the    *)
(* summary's mail.                                                         *)
StopReading == [kind |-> "charging", value |-> FALSE, at |-> summary.stopAt]
PauseMessage == [kind |-> "summary", id |-> summary.id, stopAt |-> summary.stopAt]
BeforeSummary == {"session-read", "session-put", "stop-enqueue", "summary-read", "summary-put"}
Tackles(r, u) ==
  \/ r.stage \in BeforeSummary /\ r.task = StopReading
  \/ r.stage = "summary-enqueue" /\ r.task = StopReading /\ r.id = summary.id
  \/ r.stage = "validate" /\ r.task = PauseMessage /\ now >= summary.stopAt + SummaryDelay
  \/ Announces(r, summary.id, u) /\ r.task = PauseMessage
PauseHeld(u) ==
  \/ SummaryEvent(summary.id, u) \in events
  \/ StopReading \in inbox \/ PauseMessage \in inbox
  \/ \E i \in Invocations : Tackles(run[i], u)

(* Readings have a time, and a plugged session the time it began.          *)
StampInv ==
  /\ now > 0
  /\ \A t \in inbox : IsReading(t) => t.at > 0
  /\ \A i \in Invocations : run[i].stage # "idle" /\ IsReading(run[i].task) => run[i].task.at > 0
  /\ summary.plugged => summary.id > 0
  /\ summary.active => summary.plugged /\ summary.charging # "unknown"

(* Unless AWS gave a task up, a pause has its events, or something that is *)
(* delivered, or runs, leads to them; an unplugging has them or an         *)
(* invocation that is about to put them, unless one failed.                *)
PauseInv ==
  harm # "dropped" /\ summary.active /\ summary.charging = "no" => \A u \in Summarised : PauseHeld(u)
UnpluggedInv ==
  harm = "none" => \A id \in unplugged, u \in Summarised :
    \/ SummaryEvent(id, u) \in events
    \/ \E i \in Invocations : Announces(run[i], id, u)

(* The call an invocation makes next.                                      *)
LEMMA NextCall ==
  ASSUME NEW i \in Invocations, Handler(i)
  PROVE  /\ run[i].stage # "idle" \/ InvocationFails(i)
         /\ At(i, "session-read") => SessionReads(i) \/ InvocationFails(i)
         /\ At(i, "session-put") =>
              SessionPuts(i) \/ SessionCollides(i) \/ Contention(i) \/ InvocationFails(i)
         /\ At(i, "stop-enqueue") => StopEnqueued(i) \/ InvocationFails(i)
         /\ At(i, "summary-read") => SummaryReads(i) \/ InvocationFails(i)
         /\ At(i, "summary-put") =>
              SummaryPuts(i) \/ SummaryCollides(i) \/ Contention(i) \/ InvocationFails(i)
         /\ At(i, "summary-enqueue") => SummaryEnqueued(i) \/ InvocationFails(i)
         /\ At(i, "validate") => ValidatesStop(i) \/ ValidatesSummary(i) \/ InvocationFails(i)
         /\ At(i, "reserve") => \/ \E u \in Users : SocReserves(i, u) \/ StopReserves(i, u)
                                                     \/ SummaryReserves(i, u)
                                \/ Ends(i) \/ InvocationFails(i)
         /\ At(i, "publish") => \/ SocPublishes(i) \/ StopPublishes(i) \/ SummaryPublishes(i)
                                \/ InvocationFails(i)
BY DEF Handler, At, SessionReads, SessionPuts, SessionCollides, StopEnqueued, SummaryReads,
   SummaryPuts, SummaryCollides, SummaryEnqueued, ValidatesStop, ValidatesSummary, SocReserves,
   StopReserves, SummaryReserves, SocPublishes, StopPublishes, SummaryPublishes, Contention, Ends

(* An invocation that breaks off leaves its task, or AWS gives it up.      *)
LEMMA Broken ==
  ASSUME NEW i \in Invocations, Contention(i) \/ InvocationFails(i)
  PROVE  harm' # "none" /\ (run[i].task \in inbox' \/ harm' = "dropped")
BY DEF Contention, InvocationFails, Breaks

(* Events stay, and tasks stay that nobody begins.                         *)
LEMMA TasksStay ==
  ASSUME ShapeInv, [Next]_vars
  PROVE  /\ events \subseteq events' /\ now' >= now
         /\ harm = "dropped" => harm' = "dropped"
         /\ harm' = "none" => harm = "none"
         /\ \A t \in inbox :
              \/ t \in inbox'
              \/ \E i \in Invocations :
                   /\ run'[i] = Started(t)
                   /\ t.kind = "summary" => now >= t.stopAt + SummaryDelay /\ now' = now
<1>0. now \in Nat
  BY Times DEF ShapeInv
<1>1. ASSUME NEW i \in Invocations, Begin(i)
      PROVE  \A t \in inbox :
               \/ t \in inbox'
               \/ /\ run'[i] = Started(t)
                  /\ t.kind = "summary" => now >= t.stopAt + SummaryDelay
  BY <1>1 DEF Begin, Becomes, ShapeInv
<1>2. ASSUME NEW i \in Invocations, Handler(i)
      PROVE  inbox \subseteq inbox'
  BY <1>2 DEF Handler, SessionReads, SessionPuts, SessionCollides, StopEnqueued, SummaryReads,
     SummaryPuts, SummaryCollides, SummaryEnqueued, ValidatesStop, ValidatesSummary, SocReserves,
     StopReserves, SummaryReserves, Reserving, SocPublishes, StopPublishes, SummaryPublishes,
     Publishing, Contention, Ends, InvocationFails, Breaks
<1>3. CASE CarReports \/ OtherPut \/ Tick \/ UNCHANGED vars
  BY <1>0, <1>3 DEF CarReports, OtherPut, Tick, vars, ghosts
<1>4. ASSUME NEW i \in Invocations, Begin(i)
      PROVE  UNCHANGED <<now, events, harm>>
  BY <1>4 DEF Begin, ghosts
<1>5. ASSUME NEW i \in Invocations, Handler(i)
      PROVE  /\ events \subseteq events' /\ now' = now
             /\ (harm = "dropped" => harm' = "dropped") /\ (harm' = "none" => harm = "none")
  BY <1>5 DEF Handler, SessionReads, SessionPuts, SessionCollides, StopEnqueued, SummaryReads,
     SummaryPuts, SummaryCollides, SummaryEnqueued, ValidatesStop, ValidatesSummary, SocReserves,
     StopReserves, SummaryReserves, Reserving, SocPublishes, StopPublishes, SummaryPublishes,
     Publishing, Contention, Ends, InvocationFails, Breaks, ghosts
<1>6. CASE \E i \in Invocations : Begin(i)
  BY <1>0, <1>1, <1>4, <1>6
<1>7. CASE \E i \in Invocations : Handler(i)
  BY <1>0, <1>2, <1>5, <1>7
<1> QED  BY <1>3, <1>6, <1>7 DEF Next

(* An invocation that announces a summary goes on until each user has the  *)
(* event, unless it breaks off.                                            *)
LEMMA AnnouncedStep ==
  ASSUME ShapeInv, MailInv, NEW i \in Invocations, Handler(i), NEW id, NEW u,
         Announces(run[i], id, u), ~InvocationFails(i)
  PROVE  \/ SummaryEvent(id, u) \in events'
         \/ Announces(run'[i], id, u) /\ run'[i].task = run[i].task
<1>1. /\ run[i] \in Runs /\ run[i].stage \in {"reserve", "publish"} /\ Tells(i) = "summary"
      /\ run[i].task \in Reading \cup Message /\ run[i].id \in Time /\ run[i].todo \subseteq Users
      /\ KindOf(run[i].task) = "summary" /\ run[i].id = id
  BY RunFields DEF ShapeInv, Announces, Tells, KindOf
<1>2. CASE At(i, "reserve")
  <2>1. ~Ends(i)
    BY DEF Ends, Announces
  <2>2. PICK v \in Users : SummaryReserves(i, v)
    BY <1>1, <1>2, <2>1, NextCall DEF SocReserves, StopReserves
  <2>3. /\ events' = events \cup {Event(i, v)} /\ Event(i, v) = SummaryEvent(id, v)
        /\ run'[i] \in {Publisher(i, v), [run[i] EXCEPT !.todo = @ \ {v}]}
    BY <1>1, <2>2 DEF SummaryReserves, Reserving, Becomes, ShapeInv, Event, SummaryEvent
  <2>4. CASE u = v
    BY <2>3, <2>4
  <2>5. CASE u # v
    <3>1. CASE run'[i] = Publisher(i, v)
      BY <3>1 DEF Publisher, Announces
    <3>2. CASE run'[i] = [run[i] EXCEPT !.todo = @ \ {v}]
      BY <1>1, <1>2, <2>5, <3>2, Tolds DEF Announces
    <3> QED  BY <2>3, <3>1, <3>2
  <2> QED  BY <2>4, <2>5
<1>3. CASE At(i, "publish")
  <2>1. SummaryPublishes(i)
    BY <1>1, <1>3, NextCall DEF SocPublishes, StopPublishes
  <2>2. run'[i] = Onward(i, "reserve", run[i].id, run[i].todo \ {run[i].user})
    BY <2>1 DEF SummaryPublishes, Publishing, Becomes, ShapeInv
  <2>3. CASE u = run[i].user
    <3>1. SummaryEvent(id, u) \in Owes(run[i])
      BY <1>1, <1>3, <2>3 DEF Owes, SummaryEvent, At
    <3> QED  BY <2>1, <3>1 DEF MailInv, SummaryPublishes, Publishing
  <2>4. CASE u # run[i].user
    BY <2>2, <2>4 DEF Onward, Announces
  <2> QED  BY <2>3, <2>4
<1> QED  BY <1>1, <1>2, <1>3 DEF At


(* What a reading makes of the summary: a summary that is active and       *)
(* paused was so before, with the same stop, or the reading is the stop.   *)
LEMMA SummaryChanges ==
  ASSUME NEW t \in Reading, summary \in Summary, t.at > 0,
         summary.plugged => summary.id > 0,
         summary.active => summary.plugged /\ summary.charging # "unknown",
         NEW d, d = ApplySummary(summary, t)
  PROVE  /\ d.plugged => d.id > 0
         /\ d.active => d.plugged /\ d.charging # "unknown"
         /\ d.active /\ d.charging = "no" =>
              /\ summary.active /\ d.id = summary.id
              /\ \/ summary.charging = "no" /\ d.stopAt = summary.stopAt
                 \/ t.kind = "charging" /\ ~t.value /\ d.stopAt = t.at
<1>1. CASE t.kind = "plugged" /\ t.value /\ ~summary.plugged
  BY <1>1 DEF ApplySummary, NewSummary
<1>2. CASE t.kind = "plugged" /\ ~t.value
  BY <1>2 DEF ApplySummary, NewSummary
<1>3. CASE t.kind = "charging" /\ t.value
  <2> DEFINE candidate == IF summary.candidate # 0 THEN summary.candidate ELSE t.at
  <2>1. PICK held \in BOOLEAN :
          /\ d = [summary EXCEPT !.charging = "yes", !.candidate = candidate, !.stopAt = 0,
                                 !.active = held]
          /\ held => summary.plugged
    <3> DEFINE held == summary.active \/ (summary.plugged /\ t.at >= candidate + Qualification)
    <3>1. held \in BOOLEAN /\ (held => summary.plugged)
      OBVIOUS
    <3>2. d = [summary EXCEPT !.charging = "yes", !.candidate = candidate, !.stopAt = 0,
                              !.active = held]
      BY <1>3 DEF ApplySummary, SummaryCharging
    <3> QED  BY <3>1, <3>2
  <2> QED  BY <2>1 DEF Summary
<1>4. CASE t.kind = "charging" /\ ~t.value
  <2>1. PICK stopAt :
          /\ d = [summary EXCEPT !.charging = "no", !.candidate = 0, !.stopAt = stopAt]
          /\ stopAt = IF summary.active /\ summary.charging = "yes" THEN t.at ELSE summary.stopAt
    BY <1>4 DEF ApplySummary, SummaryCharging
  <2>2. summary.charging \in Flag
    BY DEF Summary
  <2> QED  BY <1>4, <2>1, <2>2 DEF Summary, Flag
<1>5. CASE t.kind = "soc" \/ (t.kind = "plugged" /\ t.value /\ summary.plugged)
  <2>1. d = summary
    BY <1>5 DEF ApplySummary
  <2> QED  BY <1>5, <2>1
<1> QED  BY <1>1, <1>2, <1>3, <1>4, <1>5 DEF Reading


(* The summary changes by a put only, with the reading of an invocation.   *)
LEMMA SummaryPut ==
  ASSUME ShapeInv, StampInv, [Next]_vars
  PROVE  \/ UNCHANGED <<summary, unplugged>>
         \/ \E i \in Invocations :
              /\ SummaryPuts(i) /\ run[i] \in Runs /\ run[i].task \in Reading /\ run[i].task.at > 0
              /\ run'[i] = AfterSummary(i, summary, summary')
              /\ summary' = ApplySummary(summary, run[i].task)
<1>1. ASSUME NEW i \in Invocations, SummaryPuts(i)
      PROVE  /\ run[i] \in Runs /\ run[i].task \in Reading /\ run[i].task.at > 0
             /\ run'[i] = AfterSummary(i, summary, summary')
             /\ summary' = ApplySummary(summary, run[i].task)
  <2>1. run[i] \in Runs /\ run[i].stage # "idle" /\ run[i].task \in Reading
    <3>1. "summary-put" \in Stages \ {"validate", "reserve"} /\ At(i, "summary-put")
      BY <1>1 DEF SummaryPuts, Stages
    <3> QED  BY <3>1, ReadingStages
  <2>2. run[i].task.at > 0
    BY <2>1 DEF StampInv, IsReading, Reading
  <2> QED  BY <1>1, <2>1, <2>2 DEF SummaryPuts, Outdated
<1>2. ASSUME NEW i \in Invocations, Handler(i), ~SummaryPuts(i)
      PROVE  UNCHANGED <<summary, unplugged>>
  BY <1>2 DEF Handler, SessionReads, SessionPuts, SessionCollides, StopEnqueued, SummaryReads,
     SummaryCollides, SummaryEnqueued, ValidatesStop, ValidatesSummary, SocReserves, StopReserves,
     SummaryReserves, Reserving, SocPublishes, StopPublishes, SummaryPublishes, Publishing,
     Contention, Ends, InvocationFails, row, ghosts
<1>3. CASE CarReports \/ Tick \/ OtherPut \/ UNCHANGED vars \/ \E i \in Invocations : Begin(i)
  BY <1>3 DEF CarReports, Tick, OtherPut, Begin, vars, row, ghosts
<1> QED  BY <1>1, <1>2, <1>3 DEF Next

(* An invocation keeps its task.                                           *)
LEMMA TaskKept ==
  ASSUME ShapeInv, NEW i \in Invocations, Handler(i)
  PROVE  run'[i].stage = "idle" \/ run'[i].task = run[i].task
<1>0. run[i] \in Runs
  BY DEF ShapeInv
<1>1. \A stage, id, todo : Onward(i, stage, id, todo).task = run[i].task
  BY DEF Onward
<1>2. CASE SessionPuts(i)
  <2>1. PICK after, crossing : run'[i] = AfterSession(i, after, crossing)
    BY <1>2 DEF SessionPuts, Outdated
  <2> QED  BY <1>1, <2>1 DEF AfterSession
<1>3. \A before, after : AfterSummary(i, before, after).task = run[i].task
  BY <1>1 DEF AfterSummary
<1>4. CASE SummaryPuts(i)
  BY <1>3, <1>4 DEF SummaryPuts, Outdated
<1>5. CASE SessionReads(i) \/ SummaryReads(i) \/ SessionCollides(i) \/ SummaryCollides(i)
  <2>1. run[i] \in Running
    BY <1>0, <1>5, RunFields DEF SessionReads, SummaryReads, SessionCollides, SummaryCollides, At
  <2>2. \A stage : /\ [run[i] EXCEPT !.stage = stage, !.tries = @ + 1].task = run[i].task
                   /\ [run[i] EXCEPT !.stage = stage, !.fresh = TRUE].task = run[i].task
    BY <2>1 DEF Running
  <2>3. \A s, crossing : AfterSession(i, s, crossing).task = run[i].task
    BY <1>1 DEF AfterSession
  <2>4. CASE SessionReads(i)
    BY <2>2, <2>3, <2>4 DEF SessionReads, Becomes, ShapeInv
  <2>5. CASE SummaryReads(i)
    BY <1>3, <2>2, <2>5 DEF SummaryReads, Becomes, ShapeInv
  <2>6. CASE SessionCollides(i) \/ SummaryCollides(i)
    BY <2>2, <2>6 DEF SessionCollides, SummaryCollides, Becomes, ShapeInv
  <2> QED  BY <1>5, <2>4, <2>5, <2>6
<1>6. CASE StopEnqueued(i) \/ SummaryEnqueued(i) \/ ValidatesStop(i) \/ ValidatesSummary(i)
  BY <1>1, <1>6 DEF StopEnqueued, SummaryEnqueued, ValidatesStop, ValidatesSummary, Becomes, ShapeInv
<1>7. ASSUME NEW u \in Users, SocReserves(i, u) \/ StopReserves(i, u) \/ SummaryReserves(i, u)
      PROVE  run'[i].task = run[i].task
  <2>1. At(i, "reserve")
    BY <1>7 DEF SocReserves, StopReserves, SummaryReserves
  <2>2. run'[i] \in {Publisher(i, u), [run[i] EXCEPT !.todo = @ \ {u}]}
    BY <1>7 DEF SocReserves, StopReserves, SummaryReserves, Reserving, Becomes, ShapeInv
  <2>3. [run[i] EXCEPT !.todo = @ \ {u}].task = run[i].task
    BY <1>0, <2>1, Tolds
  <2>4. Publisher(i, u).task = run[i].task
    BY DEF Publisher
  <2> QED  BY <2>2, <2>3, <2>4
<1>8. CASE SocPublishes(i) \/ StopPublishes(i) \/ SummaryPublishes(i)
  BY <1>1, <1>8 DEF SocPublishes, StopPublishes, SummaryPublishes, Publishing, Becomes, ShapeInv
<1>9. CASE Contention(i) \/ Ends(i) \/ InvocationFails(i)
  BY <1>9, IdleIsARun DEF Contention, Ends, InvocationFails, Breaks, Becomes, ShapeInv
<1> QED  BY <1>2, <1>4, <1>5, <1>6, <1>7, <1>8, <1>9 DEF Handler

LEMMA StampKept ==
  ASSUME ShapeInv, StampInv, [Next]_vars
  PROVE  StampInv'
<1>0. now \in Nat /\ now' >= now
  BY TasksStay, Times DEF ShapeInv
<1>1. now' > 0
  <2>1. now' \in Nat
    BY ShapeKept, Times DEF ShapeInv
  <2> QED  BY <1>0, <2>1 DEF StampInv
<1>2. ASSUME NEW t \in inbox', IsReading(t)
      PROVE  t.at > 0
  <2>1. CASE CarReports
    BY <1>2, <2>1 DEF CarReports, StampInv
  <2>2. ASSUME NEW i \in Invocations, Handler(i)
        PROVE  t \in inbox \/ (run[i].stage # "idle" /\ t = run[i].task)
    <3>1. CASE Contention(i) \/ InvocationFails(i)
      <4>1. run[i].stage # "idle"
        BY <3>1, IdleOrNot DEF Contention, InvocationFails, ShapeInv
      <4> QED  BY <1>2, <3>1, <4>1 DEF Contention, InvocationFails, Breaks
    <3>2. CASE StopEnqueued(i) \/ SummaryEnqueued(i)
      BY <1>2, <3>2 DEF StopEnqueued, SummaryEnqueued, IsReading
    <3> QED  BY <1>2, <2>2, <3>1, <3>2 DEF Handler, SessionReads, SessionPuts, SessionCollides,
             SummaryReads, SummaryPuts, SummaryCollides, ValidatesStop, ValidatesSummary,
             SocReserves, StopReserves, SummaryReserves, Reserving, SocPublishes, StopPublishes,
             SummaryPublishes, Publishing, Ends
  <2>3. CASE \E i \in Invocations : Handler(i)
    BY <1>2, <2>2, <2>3 DEF StampInv
  <2>4. CASE OtherPut \/ Tick \/ UNCHANGED vars \/ \E i \in Invocations : Begin(i)
    <3>1. inbox' \subseteq inbox
      BY <2>4 DEF OtherPut, Tick, Begin, vars
    <3> QED  BY <1>2, <3>1 DEF StampInv
  <2> QED  BY <2>1, <2>3, <2>4 DEF Next
<1>3. ASSUME NEW i \in Invocations, run'[i].stage # "idle", IsReading(run'[i].task)
      PROVE  run'[i].task.at > 0
  <2>1. run[i] \in Runs
    BY DEF ShapeInv
  <2>2. CASE Begin(i)
    <3>1. PICK t \in inbox : run'[i] = Started(t)
      BY <2>2 DEF Begin, Becomes, ShapeInv
    <3> QED  BY <1>3, <3>1 DEF Started, StampInv
  <2>3. CASE run[i].stage # "idle" /\ run'[i].task = run[i].task
    BY <1>3, <2>3 DEF StampInv
  <2>4. CASE Handler(i)
    <3>1. run[i].stage # "idle"
      BY <2>1, <2>4, NextCall, IdleOrNot DEF InvocationFails
    <3> QED  BY <1>3, <2>3, <2>4, <3>1, TaskKept
  <2>5. CASE run'[i] = Outdated[i]
    BY <1>3, <2>3, <2>5, Others DEF ShapeInv
  <2>6. CASE run'[i] = run[i]
    BY <1>3, <2>3, <2>6
  <2> QED  BY <2>2, <2>4, <2>5, <2>6, Steps
<1>4. /\ summary'.plugged => summary'.id > 0
      /\ summary'.active => summary'.plugged /\ summary'.charging # "unknown"
  <2>1. CASE summary' = summary
    BY <2>1 DEF StampInv
  <2>2. CASE summary' # summary
    <3>1. PICK t \in Reading : t.at > 0 /\ summary' = ApplySummary(summary, t)
      BY <2>2, SummaryPut
    <3> QED  BY <3>1, SummaryChanges DEF StampInv, ShapeInv
  <2> QED  BY <2>1, <2>2
<1> QED  BY <1>1, <1>2, <1>3, <1>4 DEF StampInv


(* How far an invocation that tackles a pause comes with a step.           *)
LEMMA StagesTackled ==
  ASSUME ShapeInv, NEW i \in Invocations, Handler(i), run[i].stage \in BeforeSummary,
         run[i].task = StopReading, ~Contention(i), ~InvocationFails(i),
         summary'.id = summary.id, summary'.stopAt = summary.stopAt
  PROVE  \/ run'[i].stage \in BeforeSummary /\ run'[i].task = run[i].task
         \/ run'[i].stage = "summary-enqueue" /\ run'[i].task = run[i].task
            /\ run'[i].id = summary'.id
<1>1. run[i] \in Runs /\ run[i].stage # "idle" /\ run[i].task \in Reading /\ run[i].stage \in Stages
  <2>1. PICK stage \in Stages \ {"validate", "reserve"} : At(i, stage)
    BY DEF BeforeSummary, At, Stages
  <2> QED  BY <2>1, ReadingStages DEF At
<1>2. run'[i].stage = "idle" \/ run'[i].task = run[i].task
  BY TaskKept
<1>3. ASSUME NEW s \in Session, NEW crossing \in SUBSET Users
      PROVE  AfterSession(i, s, crossing).stage \in BeforeSummary
  BY <1>1, <1>3, AfterSessionGoesOn DEF BeforeSummary
<1>4. ASSUME NEW before, NEW after, after.stopAt = summary.stopAt
      PROVE  /\ AfterSummary(i, before, after).stage = "summary-enqueue"
             /\ AfterSummary(i, before, after).id = after.id
  BY <1>4 DEF AfterSummary, Onward, StopReading
<1>5. ASSUME NEW stage \in {"session-put", "summary-put"}
      PROVE  [run[i] EXCEPT !.stage = stage, !.fresh = TRUE].stage \in BeforeSummary
  BY <1>1, Puts DEF BeforeSummary
<1>6. CASE At(i, "session-read")
  <2>1. SessionReads(i)
    BY <1>6, NextCall
  <2>2. AfterSession(i, session, {}).stage \in BeforeSummary
    BY <1>3 DEF ShapeInv
  <2>3. run'[i].stage \in BeforeSummary
    BY <1>5, <2>1, <2>2 DEF SessionReads, Becomes, ShapeInv
  <2> QED  BY <1>2, <2>3 DEF BeforeSummary
<1>7. CASE At(i, "session-put")
  <2>1. CASE SessionPuts(i)
    <3>1. PICK crossing : /\ crossing \in SUBSET WantsSoc
                          /\ run'[i] = AfterSession(i, session', crossing)
      BY <2>1 DEF SessionPuts, Outdated
    <3>2. session' \in Session /\ crossing \in SUBSET Users
      <4>1. ShapeInv'
        BY <2>1, SessionPutsKeeps
      <4>2. WantsSoc \subseteq Users
        BY ChargingAssumption DEF ChargingAssumption
      <4> QED  BY <3>1, <4>1, <4>2 DEF ShapeInv
    <3>3. run'[i].stage \in BeforeSummary
      BY <1>3, <3>1, <3>2
    <3> QED  BY <1>2, <3>3 DEF BeforeSummary
  <2>2. CASE SessionCollides(i)
    <3>1. run'[i] = [run[i] EXCEPT !.stage = "session-read", !.tries = run[i].tries + 1]
      BY <2>2 DEF SessionCollides, Becomes, ShapeInv
    <3>2. run'[i].stage = "session-read"
      BY <1>1, <3>1, RunFields DEF Running
    <3> QED  BY <1>2, <3>2 DEF BeforeSummary
  <2> QED  BY <1>7, <2>1, <2>2, NextCall
<1>8. CASE At(i, "stop-enqueue")
  <2>1. StopEnqueued(i)
    BY <1>8, NextCall
  <2>2. run'[i].stage = "summary-read"
    BY <2>1 DEF StopEnqueued, Becomes, Onward, ShapeInv
  <2> QED  BY <1>2, <2>2 DEF BeforeSummary
<1>9. CASE At(i, "summary-read")
  <2>1. SummaryReads(i)
    BY <1>9, NextCall
  <2>2. CASE run'[i] = AfterSummary(i, summary, summary)
    <3>1. run'[i].stage = "summary-enqueue" /\ run'[i].id = summary.id
      BY <1>4, <2>2
    <3> QED  BY <1>2, <3>1
  <2>3. CASE run'[i] = [run[i] EXCEPT !.stage = "summary-put", !.fresh = TRUE]
    <3>1. run'[i].stage \in BeforeSummary
      BY <1>5, <2>3
    <3> QED  BY <1>2, <3>1 DEF BeforeSummary
  <2> QED  BY <2>1, <2>2, <2>3 DEF SummaryReads, Becomes, ShapeInv
<1>10. CASE At(i, "summary-put")
  <2>1. CASE SummaryPuts(i)
    <3>1. run'[i] = AfterSummary(i, summary, summary')
      BY <2>1 DEF SummaryPuts, Outdated
    <3>2. run'[i].stage = "summary-enqueue" /\ run'[i].id = summary'.id
      BY <1>4, <3>1
    <3> QED  BY <1>2, <3>2
  <2>2. CASE SummaryCollides(i)
    <3>1. run'[i] = [run[i] EXCEPT !.stage = "summary-read", !.tries = run[i].tries + 1]
      BY <2>2 DEF SummaryCollides, Becomes, ShapeInv
    <3>2. run'[i].stage = "summary-read"
      BY <1>1, <3>1, RunFields DEF Running
    <3> QED  BY <1>2, <3>2 DEF BeforeSummary
  <2> QED  BY <1>10, <2>1, <2>2, NextCall
<1> QED  BY <1>6, <1>7, <1>8, <1>9, <1>10 DEF At, BeforeSummary

(* A pause stays in hand while the summary is about the same stop.         *)
LEMMA TackledStep ==
  ASSUME ShapeInv, MailInv, StampInv, [Next]_vars, NEW i \in Invocations, Handler(i),
         NEW u \in Summarised, Tackles(run[i], u),
         summary.active, summary.charging = "no",
         summary'.id = summary.id, summary'.stopAt = summary.stopAt
  PROVE  PauseHeld(u)' \/ harm' = "dropped"
<1>1. StopReading' = StopReading /\ PauseMessage' = PauseMessage
  BY DEF StopReading, PauseMessage
<1>2. CASE Contention(i) \/ InvocationFails(i)
  <2>1. run[i].task \in {StopReading, PauseMessage}
    BY DEF Tackles
  <2> QED  BY <1>1, <1>2, <2>1, Broken DEF PauseHeld
<1>3. ASSUME ~Contention(i), ~InvocationFails(i), run[i].stage \in BeforeSummary,
             run[i].task = StopReading
      PROVE  PauseHeld(u)'
  <2>1. \/ run'[i].stage \in BeforeSummary /\ run'[i].task = run[i].task
        \/ run'[i].stage = "summary-enqueue" /\ run'[i].task = run[i].task
           /\ run'[i].id = summary'.id
    BY <1>3, StagesTackled
  <2>2. Tackles(run[i], u)'
    BY <1>1, <1>3, <2>1 DEF Tackles
  <2> QED  BY <2>2 DEF PauseHeld
<1>4. ASSUME ~InvocationFails(i), run[i].stage = "summary-enqueue",
             run[i].task = StopReading, run[i].id = summary.id
      PROVE  PauseHeld(u)'
  <2>1. SummaryEnqueued(i)
    BY <1>4, NextCall DEF At
  <2>2. run[i].id # 0
    BY <1>4, Times DEF StampInv, ShapeInv, Summary
  <2>3. PauseMessage \in inbox'
    BY <1>4, <2>1, <2>2 DEF SummaryEnqueued, PauseMessage, StopReading
  <2> QED  BY <1>1, <2>3 DEF PauseHeld
<1>5. ASSUME ~InvocationFails(i), run[i].stage = "validate", run[i].task = PauseMessage,
             now >= summary.stopAt + SummaryDelay
      PROVE  PauseHeld(u)'
  <2>1. ValidatesSummary(i)
    <3>1. At(i, "validate") /\ run[i].task.kind = "summary"
      BY <1>5 DEF At, PauseMessage
    <3>2. ValidatesStop(i) \/ ValidatesSummary(i)
      BY <1>5, <3>1, NextCall
    <3> QED  BY <3>1, <3>2 DEF ValidatesStop
  <2>2. DelayedDue(summary, PauseMessage)
    BY <1>5 DEF DelayedDue, PauseMessage, StampInv
  <2>3. run'[i] = Onward(i, "reserve", summary.id, Summarised)
    BY <1>5, <2>1, <2>2 DEF ValidatesSummary, Becomes, PauseMessage, ShapeInv
  <2>4. Announces(run'[i], summary.id, u) /\ run'[i].task = PauseMessage
    BY <1>5, <2>3 DEF Announces, Onward, PauseMessage
  <2>5. Tackles(run[i], u)'
    BY <1>1, <2>4 DEF Tackles, Announces
  <2> QED  BY <2>5 DEF PauseHeld
<1>6. ASSUME ~InvocationFails(i), Announces(run[i], summary.id, u), run[i].task = PauseMessage
      PROVE  PauseHeld(u)'
  <2>1. \/ SummaryEvent(summary.id, u) \in events'
        \/ Announces(run'[i], summary.id, u) /\ run'[i].task = run[i].task
    BY <1>6, AnnouncedStep
  <2>2. CASE SummaryEvent(summary.id, u) \in events'
    BY <2>2 DEF PauseHeld, SummaryEvent
  <2>3. CASE Announces(run'[i], summary.id, u) /\ run'[i].task = run[i].task
    <3>1. Tackles(run[i], u)'
      BY <1>1, <1>6, <2>3 DEF Tackles, Announces
    <3> QED  BY <3>1 DEF PauseHeld
  <2> QED  BY <2>1, <2>2, <2>3
<1> QED  BY <1>2, <1>3, <1>4, <1>5, <1>6 DEF Tackles


LEMMA HeldStays ==
  ASSUME ShapeInv, MailInv, StampInv, [Next]_vars, NEW u \in Summarised, PauseHeld(u),
         summary.active, summary.charging = "no",
         summary'.id = summary.id, summary'.stopAt = summary.stopAt
  PROVE  PauseHeld(u)' \/ harm' = "dropped"
<1>1. StopReading' = StopReading /\ PauseMessage' = PauseMessage
  BY DEF StopReading, PauseMessage
<1>2. CASE SummaryEvent(summary.id, u) \in events
  <2>1. SummaryEvent(summary.id, u) \in events'
    BY <1>2, TasksStay
  <2> QED  BY <2>1 DEF PauseHeld, SummaryEvent
<1>3. CASE StopReading \in inbox
  <2>1. CASE StopReading \in inbox'
    BY <1>1, <2>1 DEF PauseHeld
  <2>2. ASSUME NEW i \in Invocations, run'[i] = Started(StopReading)
        PROVE  PauseHeld(u)'
    <3>1. run'[i].stage = "session-read" /\ run'[i].task = StopReading
      BY <2>2 DEF Started, IsReading, StopReading
    <3>2. Tackles(run[i], u)'
      BY <1>1, <3>1 DEF Tackles, BeforeSummary
    <3> QED  BY <3>2 DEF PauseHeld
  <2> QED  BY <1>3, <2>1, <2>2, TasksStay
<1>4. CASE PauseMessage \in inbox
  <2>1. CASE PauseMessage \in inbox'
    BY <1>1, <2>1 DEF PauseHeld
  <2>2. ASSUME NEW i \in Invocations, run'[i] = Started(PauseMessage),
               now' >= summary.stopAt + SummaryDelay
        PROVE  PauseHeld(u)'
    <3>1. run'[i].stage = "validate" /\ run'[i].task = PauseMessage
      BY <2>2 DEF Started, IsReading, PauseMessage
    <3>2. Tackles(run[i], u)'
      BY <1>1, <2>2, <3>1 DEF Tackles
    <3> QED  BY <3>2 DEF PauseHeld
  <2>3. PauseMessage.kind = "summary" /\ PauseMessage.stopAt = summary.stopAt
    BY DEF PauseMessage
  <2>4. \/ PauseMessage \in inbox'
        \/ \E i \in Invocations : /\ run'[i] = Started(PauseMessage)
                                  /\ now' >= summary.stopAt + SummaryDelay
    BY <1>4, <2>3, TasksStay
  <2> QED  BY <2>1, <2>2, <2>4
<1>5. ASSUME NEW i \in Invocations, Tackles(run[i], u)
      PROVE  PauseHeld(u)' \/ harm' = "dropped"
  <2>1. run[i] \in Runs /\ run[i].stage # "idle" /\ run[i] # Idle
    BY <1>5, IdleIsARun DEF ShapeInv, Tackles, Announces, BeforeSummary
  <2>2. now' >= summary.stopAt + SummaryDelay \/ ~(now >= summary.stopAt + SummaryDelay)
    <3>1. /\ now \in Nat /\ now' \in Nat /\ now' >= now
          /\ summary.stopAt \in Nat /\ SummaryDelay \in Nat
      BY Times, TasksStay, ShapeKept, ChargingAssumption DEF ShapeInv, Summary, ChargingAssumption
    <3> QED  BY <3>1
  <2>3. ASSUME run'[i].stage = run[i].stage, run'[i].task = run[i].task,
               run'[i].id = run[i].id, run'[i].todo = run[i].todo
        PROVE  PauseHeld(u)'
    <3>1. Tackles(run[i], u)'
      BY <1>1, <1>5, <2>2, <2>3 DEF Tackles, Announces
    <3> QED  BY <3>1 DEF PauseHeld
  <2>4. CASE run'[i] = run[i]
    BY <2>3, <2>4
  <2>5. CASE run'[i] = Outdated[i]
    BY <2>1, <2>3, <2>5, Others DEF ShapeInv
  <2>6. CASE Handler(i)
    BY <1>5, <2>6, TackledStep
  <2>7. ~Begin(i)
    BY <2>1 DEF Begin
  <2> QED  BY <2>4, <2>5, <2>6, <2>7, Steps
<1> QED  BY <1>2, <1>3, <1>4, <1>5 DEF PauseHeld

LEMMA PauseKept ==
  ASSUME ShapeInv, MailInv, StampInv, PauseInv, [Next]_vars
  PROVE  PauseInv'
<1> SUFFICES ASSUME harm' # "dropped", summary'.active, summary'.charging = "no",
                    NEW u \in Summarised
             PROVE  PauseHeld(u)'
  BY DEF PauseInv
<1>1. harm # "dropped"
  BY TasksStay
<1>2. ASSUME summary.active, summary.charging = "no",
             summary'.id = summary.id, summary'.stopAt = summary.stopAt
      PROVE  PauseHeld(u)'
  BY <1>1, <1>2, HeldStays DEF PauseInv
<1>3. CASE summary' = summary
  BY <1>2, <1>3
<1>4. ASSUME NEW i \in Invocations, run[i] \in Runs, run[i].task \in Reading, run[i].task.at > 0,
             run'[i] = AfterSummary(i, summary, summary'),
             summary' = ApplySummary(summary, run[i].task)
      PROVE  PauseHeld(u)'
  <2> DEFINE t == run[i].task
  <2>1. /\ summary.active /\ summary'.id = summary.id
        /\ \/ summary.charging = "no" /\ summary'.stopAt = summary.stopAt
           \/ t.kind = "charging" /\ ~t.value /\ summary'.stopAt = t.at
    BY <1>4, SummaryChanges DEF StampInv, ShapeInv
  <2>2. CASE t.kind = "charging" /\ ~t.value /\ summary'.stopAt = t.at
    <3>1. t = [kind |-> "charging", value |-> FALSE, at |-> summary'.stopAt]
      BY <1>4, <2>2 DEF Reading
    <3>2. /\ run'[i].stage = "summary-enqueue" /\ run'[i].task = t
          /\ run'[i].id = summary'.id
      BY <1>4, <2>2 DEF AfterSummary, Onward
    <3>3. Tackles(run[i], u)'
      BY <3>1, <3>2 DEF Tackles, StopReading
    <3> QED  BY <3>3 DEF PauseHeld
  <2> QED  BY <1>2, <2>1, <2>2
<1> QED  BY <1>3, <1>4, SummaryPut

LEMMA UnpluggedKept ==
  ASSUME ShapeInv, MailInv, StampInv, UnpluggedInv, [Next]_vars
  PROVE  UnpluggedInv'
<1> SUFFICES ASSUME harm' = "none", NEW id \in unplugged', NEW u \in Summarised
             PROVE  \/ SummaryEvent(id, u) \in events'
                    \/ \E i \in Invocations : Announces(run'[i], id, u)
  BY DEF UnpluggedInv, SummaryEvent, Announces
<1>1. CASE id \in unplugged
  <2>1. harm = "none" /\ events \subseteq events'
    BY TasksStay
  <2>2. CASE SummaryEvent(id, u) \in events
    BY <2>1, <2>2
  <2>3. ASSUME NEW i \in Invocations, Announces(run[i], id, u)
        PROVE  SummaryEvent(id, u) \in events' \/ Announces(run'[i], id, u)
    <3>1. run[i].stage # "idle" /\ run[i] # Idle
      BY <2>3, IdleIsARun DEF Announces
    <3>2. CASE run'[i] = run[i]
      BY <2>3, <3>2
    <3>3. CASE run'[i] = Outdated[i]
      BY <2>3, <3>1, <3>3, Others DEF ShapeInv, Announces
    <3>4. CASE Handler(i)
      <4>1. ~InvocationFails(i)
        BY <3>4, Broken
      <4> QED  BY <2>3, <3>4, <4>1, AnnouncedStep
    <3>5. ~Begin(i)
      BY <3>1 DEF Begin
    <3> QED  BY <3>2, <3>3, <3>4, <3>5, Steps
  <2> QED  BY <1>1, <2>1, <2>2, <2>3 DEF UnpluggedInv
<1>2. CASE id \notin unplugged
  <2>1. PICK i \in Invocations : /\ SummaryPuts(i)
                                 /\ run'[i] = AfterSummary(i, summary, summary')
    BY <1>2, SummaryPut
  <2>2. /\ run[i].task.kind = "plugged" /\ ~run[i].task.value /\ summary.active
        /\ id = summary.id
    BY <1>2, <2>1 DEF SummaryPuts
  <2>3. Announces(run'[i], id, u)
    BY <2>1, <2>2 DEF AfterSummary, Onward, Announces
  <2> QED  BY <2>3
<1> QED  BY <1>1, <1>2

LEMMA SummaryStart ==
  ASSUME Init
  PROVE  StampInv /\ PauseInv /\ UnpluggedInv
<1>1. PICK script \in Scripts :
        summary = IF script.plugged THEN NewSummary(1, TRUE) ELSE NewSummary(0, FALSE)
  BY DEF Init
<1>2. ~summary.active /\ (summary.plugged => summary.id > 0)
  BY <1>1 DEF NewSummary
<1>3. \A i \in Invocations : run[i].stage = "idle"
  BY IdleIsARun DEF Init
<1>4. now = 1 /\ inbox = {} /\ unplugged = {}
  BY DEF Init
<1>5. StampInv
  BY <1>2, <1>3, <1>4 DEF StampInv
<1>6. PauseInv /\ UnpluggedInv
  BY <1>2, <1>4 DEF PauseInv, UnpluggedInv
<1> QED  BY <1>5, <1>6

(* A charge that pauses, or ends by unplugging, has its summary once all   *)
(* that was delivered has been handled, unless AWS gave a task up, or an   *)
(* invocation failed.                                                      *)
THEOREM ChargeSummarised == Spec => []EndedChargeIsSummarised
<1> DEFINE SInv == StampInv /\ PauseInv /\ UnpluggedInv
<1>1. Init => SInv
  BY SummaryStart
<1>2. Inv /\ SInv /\ [Next]_vars => SInv'
  BY StampKept, PauseKept, UnpluggedKept DEF Inv
<1>3. ASSUME Quiet, PauseInv, UnpluggedInv
      PROVE  EndedChargeIsSummarised
  <2>1. \A i \in Invocations : run[i].stage = "idle"
    BY <1>3, IdleIsARun DEF Quiet
  <2>2. ASSUME NEW u, PauseHeld(u)
        PROVE  SummaryEvent(summary.id, u) \in events
    BY <1>3, <2>1, <2>2 DEF Quiet, PauseHeld, Tackles, BeforeSummary, Announces
  <2>3. ASSUME NEW id, NEW u
        PROVE  ~\E i \in Invocations : Announces(run[i], id, u)
    BY <2>1 DEF Announces
  <2> QED  BY <1>3, <2>2, <2>3 DEF PauseInv, UnpluggedInv, EndedChargeIsSummarised, SummaryEvent
<1>4. SInv => EndedChargeIsSummarised
  <2>1. CASE Quiet
    BY <1>3, <2>1
  <2>2. CASE ~Quiet
    BY <2>2 DEF EndedChargeIsSummarised
  <2> QED  BY <2>1, <2>2
<1> QED  BY <1>1, <1>2, <1>4, Invariance, PTL DEF Spec

-----------------------------------------------------------------------------
(* The composition that TLC runs.                                          *)

(* Each of its behaviours is one of every part, so that what is proved of  *)
(* charging, of the daily run or of the ingest holds in it.                *)
THEOREM Composition == MCSpec => Spec /\ DailySpec /\ IngestSpec
<1>1. MCInit => Init /\ DailyInit /\ IngestInit
  BY DEF MCInit
<1>2. [MCNext]_<<subject, vars, dailyVars, ingestVars>>
        => [Next]_vars /\ [DailyNext]_dailyVars /\ [IngestNext]_ingestVars
  BY DEF MCNext
<1> QED  BY <1>1, <1>2, PTL DEF MCSpec, Spec, DailySpec, IngestSpec

(* The rows, tasks and invocations of charging and of the ingest keep      *)
(* their shape there.                                                      *)
THEOREM ChargingTyped == MCSpec => []TypesOK
<1>1. TypeOK /\ IngestTypeOK => TypesOK
  BY DEF TypesOK
<1> QED  BY <1>1, Composition, TypeCorrect, IngestTyped, PTL
=============================================================================
