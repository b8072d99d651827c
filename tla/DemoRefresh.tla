----------------------------- MODULE DemoRefresh -----------------------------
(***************************************************************************)
(* refresh_demo_portal_data.py: an administrator's tool replaces the demo  *)
(* vehicle's State and History by a frozen copy of the source vehicle's,   *)
(* while the source goes on reporting.  There is no transaction: rows go   *)
(* in batches of DynamoDB, which may leave some of a batch unprocessed,    *)
(* and any call may fail and end the tool where it stands.  It is run by   *)
(* hand, once more after a failure: runs that overlap are left out.        *)
(*                                                                         *)
(* A row is [key, value]: in State a topic and when it was received, in    *)
(* History a signal with its time and the source sample it was made from.  *)
(* Averages of a bucket are its last sample here, and the rows' 31 days    *)
(* (expiresAt) are longer than any behaviour.                              *)
(***************************************************************************)
EXTENDS Integers, FiniteSetsExt

CONSTANTS Topics,       \* what the source reports; a signal is a topic in History
          Signals,      \* HISTORY_SIGNALS
          Excluded,     \* EXCLUDED_STATE_TOPICS, location/ and gps/
          Window,       \* history-days
          Horizon,      \* up to this age samples keep their time, older ones lose it
          ChunkSize,    \* 25
          MaxRetries,   \* 8
          Past,         \* samples the source may have when it starts
          FirstMoment,  \* after them
          LastMoment    \* bound of the time

VARIABLES moment,
          sourceState, sourceHistory,
          demoState, demoHistory,
          account,      \* the demo user is in the pool
          assignment,   \* and has this access to the demo vehicle
          refresh       \* the tool's run

sourceVars == <<moment, sourceState, sourceHistory>>
demoVars == <<sourceVars, demoState, demoHistory, account, assignment, refresh>>

(* The rows of the fixed place.  What the source reports of its own place  *)
(* is private and has names of its own here.                               *)
Location == {"latitude", "longitude"}

ASSUME DemoAssumption ==
  /\ Location \cap (Topics \cup {s.signal : s \in Past} \cup Excluded) = {}
  /\ FirstMoment \in Nat /\ \A s \in Past : s.at \in 0..FirstMoment
Resting == {"idle", "planned", "done", "failed"}
NoRun == [step |-> "idle", apply |-> FALSE, state |-> {}, history |-> {}, oldState |-> {},
         oldHistory |-> {}, known |-> FALSE, pending |-> {}, retries |-> 0]

LastAt(t) == Max({s.at : s \in {x \in sourceHistory : x.signal = t}})

DemoInit ==
  /\ moment = FirstMoment
  /\ sourceHistory \in {{}, Past}
  /\ sourceState = {[key |-> t, value |-> LastAt(t)] : t \in {s.signal : s \in sourceHistory}}
  /\ demoState = {} /\ demoHistory = {}
  /\ account \in BOOLEAN
  /\ assignment \in IF account THEN {"none", "ACTIVE", "REVOKED"} ELSE {"none"}
  /\ refresh = NoRun

-----------------------------------------------------------------------------
(* Rows.                                                                   *)

Keys(rows) == {row.key : row \in rows}
Without(table, rows) == {row \in table : row.key \notin Keys(rows)}
Stored(table, rows) == Without(table, rows) \cup rows

(* transform_state: private topics stay behind, the rest is shifted so     *)
(* that the newest is received now, and the fixed place is added.          *)
NewState(rows) ==
  LET shift == moment - Max({row.value : row \in rows})
  IN {[row EXCEPT !.value = @ + shift] : row \in {x \in rows : x.key \notin Excluded}}
       \cup {[key |-> l, value |-> moment] : l \in Location}

(* transform_history: the window before the newest sample, one row of a    *)
(* signal for each bucket, shifted by the newest sample's age.             *)
NewHistory(samples) ==
  LET newest == Max({s.at : s \in samples})
      kept == {s \in samples : s.signal \in Signals /\ s.at >= newest - Window}
      Resolution(s) == IF newest - s.at <= Horizon THEN 1 ELSE 2
      Bucket(s) == <<s.signal, (s.at \div Resolution(s)) * Resolution(s)>>
  IN {[key |-> <<b[1], b[2] + moment - newest>>,
       value |-> Max({s.at : s \in {x \in kept : Bucket(x) = b}})] :
        b \in {Bucket(s) : s \in kept}}

-----------------------------------------------------------------------------
(* The source vehicle's live path.                                         *)

MomentPasses ==
  /\ moment < LastMoment
  /\ moment' = moment + 1
  /\ UNCHANGED <<sourceState, sourceHistory, demoState, demoHistory, account, assignment,
                 refresh>>

SourceReports(t) ==
  /\ sourceState' = Stored(sourceState, {[key |-> t, value |-> moment]})
  /\ sourceHistory' = sourceHistory \cup {[signal |-> t, at |-> moment]}
  /\ UNCHANGED <<moment, demoState, demoHistory, account, assignment, refresh>>

-----------------------------------------------------------------------------
(* refresh(): what it reads.                                               *)

Reading(from, run) ==
  /\ refresh.step = from
  /\ refresh' = run
  /\ UNCHANGED <<sourceVars, demoState, demoHistory, account, assignment>>

(* The State of the source, which must have one.                           *)
RefreshStarts(apply) ==
  /\ sourceState # {}
  /\ \E resting \in Resting :
       Reading(resting, [NoRun EXCEPT !.step = "history", !.apply = apply,
                                     !.state = sourceState])

(* Its History, and the copies at this moment.                             *)
ReadsHistory ==
  Reading("history", [refresh EXCEPT !.step = "oldState",
                                     !.state = NewState(@),
                                     !.history = NewHistory(sourceHistory)])

ReadsOldState ==
  Reading("oldState", [refresh EXCEPT !.step = "oldHistory", !.oldState = demoState])

ReadsOldHistory ==
  Reading("oldHistory", [refresh EXCEPT !.step = "user", !.oldHistory = demoHistory])

(* find_user is the last read: a plan ends here.                           *)
FindsUser ==
  Reading("user", IF refresh.apply
                  THEN [refresh EXCEPT !.step = "deleteState", !.known = account,
                                       !.pending = refresh.oldState]
                  ELSE [NoRun EXCEPT !.step = "planned"])

-----------------------------------------------------------------------------
(* batch_requests: chunks until nothing is pending.                        *)

Chunks(pending) ==
  {c \in SUBSET pending : /\ c # {}
                          /\ Cardinality(c) <= ChunkSize
                          /\ Cardinality(c) < ChunkSize => c = pending}

(* Mutant: what is unprocessed is forgotten.                               *)
ForgetsUnprocessed(run, chunk, processed) ==
  [run EXCEPT !.pending = @ \ chunk, !.retries = 0]

(* What is unprocessed is put back; too many calls in a row that leave     *)
(* something end the tool.                                                 *)
AfterCall(run, chunk, processed) ==
  IF chunk = processed THEN [run EXCEPT !.pending = @ \ processed, !.retries = 0]
  ELSE IF run.retries = MaxRetries THEN [NoRun EXCEPT !.step = "failed"]
  ELSE [run EXCEPT !.pending = @ \ processed, !.retries = @ + 1]

Calls(stage, chunk, processed) ==
  /\ refresh.step = stage
  /\ refresh' = AfterCall(refresh, chunk, processed)
  /\ UNCHANGED <<sourceVars, account, assignment>>

DeletesState ==
  \E chunk \in Chunks(refresh.pending) : \E processed \in SUBSET chunk :
    /\ Calls("deleteState", chunk, processed)
    /\ demoState' = Without(demoState, processed)
    /\ UNCHANGED demoHistory

DeletesHistory ==
  \E chunk \in Chunks(refresh.pending) : \E processed \in SUBSET chunk :
    /\ Calls("deleteHistory", chunk, processed)
    /\ demoHistory' = Without(demoHistory, processed)
    /\ UNCHANGED demoState

PutsState ==
  \E chunk \in Chunks(refresh.pending) : \E processed \in SUBSET chunk :
    /\ Calls("putState", chunk, processed)
    /\ demoState' = Stored(demoState, processed)
    /\ UNCHANGED demoHistory

PutsHistory ==
  \E chunk \in Chunks(refresh.pending) : \E processed \in SUBSET chunk :
    /\ Calls("putHistory", chunk, processed)
    /\ demoHistory' = Stored(demoHistory, processed)
    /\ UNCHANGED demoState

(* The four batches of refresh(), one after the other.                     *)
Following(run) ==
  CASE run.step = "deleteState" -> [step |-> "deleteHistory", rows |-> run.oldHistory]
    [] run.step = "deleteHistory" -> [step |-> "putState", rows |-> run.state]
    [] run.step = "putState" -> [step |-> "putHistory", rows |-> run.history]
    [] run.step = "putHistory" -> [step |-> IF run.known THEN "access" ELSE "create",
                                   rows |-> {}]

BatchEnds ==
  /\ refresh.step \in {"deleteState", "deleteHistory", "putState", "putHistory"}
  /\ refresh.pending = {}
  /\ refresh' = [refresh EXCEPT !.step = Following(refresh).step,
                                !.pending = Following(refresh).rows, !.retries = 0]
  /\ UNCHANGED <<sourceVars, demoState, demoHistory, account, assignment>>

-----------------------------------------------------------------------------
(* The demo user and its access, after the rows.                           *)

CreatesUser ==
  /\ refresh.step = "create"
  /\ account' = TRUE
  /\ refresh' = [refresh EXCEPT !.step = "access"]
  /\ UNCHANGED <<sourceVars, demoState, demoHistory, assignment>>

(* An access that is not ACTIVE is an error, with the rows replaced.       *)
ReadsAccess ==
  Reading("access", CASE assignment = "ACTIVE" -> [refresh EXCEPT !.step = "done"]
                      [] assignment = "none" -> [refresh EXCEPT !.step = "assign"]
                      [] OTHER -> [NoRun EXCEPT !.step = "failed"])

Assigns ==
  /\ refresh.step = "assign"
  /\ assignment' = "ACTIVE"
  /\ refresh' = [refresh EXCEPT !.step = "done"]
  /\ UNCHANGED <<sourceVars, demoState, demoHistory, account>>

(* Any call may fail, and the administrator may stop the tool.             *)
RefreshFails ==
  /\ refresh.step \notin Resting
  /\ refresh' = [NoRun EXCEPT !.step = "failed"]
  /\ UNCHANGED <<sourceVars, demoState, demoHistory, account, assignment>>

-----------------------------------------------------------------------------
DemoNext ==
  \/ MomentPasses
  \/ \E t \in Topics : SourceReports(t)
  \/ \E apply \in BOOLEAN : RefreshStarts(apply)
  \/ ReadsHistory \/ ReadsOldState \/ ReadsOldHistory \/ FindsUser
  \/ DeletesState \/ DeletesHistory \/ PutsState \/ PutsHistory \/ BatchEnds
  \/ CreatesUser \/ ReadsAccess \/ Assigns
  \/ RefreshFails

DemoSpec == DemoInit /\ [][DemoNext]_demoVars

-----------------------------------------------------------------------------
(* The demo vehicle is a whole copy: from a run that ended well until the  *)
(* next begins, State and History are exactly the rows it made, whatever   *)
(* an earlier run that failed half way left behind; no private topic is    *)
(* there, the fixed place is, and the demo user has its access.            *)
RefreshIsWhole ==
  refresh.step = "done" =>
    /\ demoState = refresh.state
    /\ demoHistory = refresh.history
    /\ Location \subseteq Keys(demoState) /\ Keys(demoState) \cap Excluded = {}
    /\ account /\ assignment = "ACTIVE"

=============================================================================
