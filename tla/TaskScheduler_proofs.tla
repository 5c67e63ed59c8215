------------------------ MODULE TaskScheduler_proofs ------------------------
(***************************************************************************)
(* Proofs about TaskScheduler, for any slots, requests, schedules, bounds   *)
(* and either kind of backend: IInv is inductive, hence type correctness,   *)
(* NoOverlap, NoRetiredRuns, OneShotOnce and RetiresOnlyItself hold however *)
(* requests, runs, the mover, the watchdog, failures and restarts           *)
(* interleave.                                                              *)
(***************************************************************************)
EXTENDS TaskScheduler, FiniteSetTheorems, TLAPS

(* ------------------------- the inductive invariant ----------------------- *)

\* Where the model is asked for a revision, or the definition is about to be
\* disabled for it
Working(rev) ==
  \E s \in Slots : run[s].rev = rev /\ run[s].pc \in {"asking", "latest", "disabling"}

RunsOK ==
  /\ \A m \in Manual : run[m].pc \in {"idle", "asking", "latest", "recording", "recorded"}
  /\ \A s \in Slots : run[s].pc \in Inside => running /\ run[s].rev \in once
  /\ \A s \in Slots : run[s].pc = "disabled" => task = [rev |-> run[s].rev, enabled |-> FALSE]
  /\ \A s \in Slots : Kind = "oneshot" /\ run[s].pc = "latest" => run[s].action = "cancel"

\* A one-shot revision that was run is still being run, or it is over.
OnceOK ==
  \A rev \in once : /\ created /\ (task.rev # 0 => rev <= task.rev)
                    /\ Kind = "oneshot" /\ task.rev = rev /\ task.enabled => Working(rev)

Past(rev, def) == (def.rev # 0 => rev <= def.rev) /\ (def.rev = rev => ~def.enabled)

\* Neither memory nor the file can bring a retired revision back.
RetiredOK ==
  \A rev \in retired : created /\ Past(rev, task) /\ Past(rev, file.def) /\ ~Working(rev)

CreatedOK == task.rev # 0 \/ file.def.rev # 0 => created

DownOK == ~up => task = NoTask /\ lock = None /\ once = {} /\ \A r \in Runners : run[r] = NoRun

IInv == TypeOK /\ NoOverlap /\ RunsOK /\ OnceOK /\ RetiredOK /\ CreatedOK /\ DownOK

(* ------------------------------ type correctness ------------------------ *)

\* Actors are distinct, and None is none of them.
LEMMA Actors ==
  /\ \A r \in Runners : r # None /\ r \notin Requests
  /\ \A q \in Requests : q # None /\ q \notin Runners
  /\ Slots \subseteq Runners /\ Manual \subseteq Runners
  /\ \A s \in Slots : s \notin Manual
BY SchedulerAssumption DEF Runners

LEMMA Constants ==
  /\ Forgotten \in DocketRecord /\ Scheduled \in DocketRecord
  /\ NoRun \in RunState /\ NoRequest \in RequestState
  /\ AtRest \in MoverState /\ Unwatched \in WatchState
  /\ NoTask \in Definition
BY SchedulerAssumption
   DEF Forgotten, Scheduled, DocketRecord, Terminal, NoRun, RunState, Inside, NoRequest,
       RequestState, AtRest, MoverState, Unwatched, WatchState, NoTask, Definition

\* Two runs that differ in what Docket knows of them
Like(a, b) == a.pc = b.pc /\ a.rev = b.rev /\ a.action = b.action

ExecutionOK == docket \in DocketRecord /\ stream \in [fresh : Nat, stale : Nat] /\ mover \in MoverState

LEMMA ReplaceFacts ==
  ASSUME TypeOK, NEW runs \in [Runners -> RunState], Replace(runs)
  PROVE  /\ ExecutionOK' /\ run' \in [Runners -> RunState]
         /\ \A r \in Runners : Like(run'[r], runs[r])
<1>1. ExecutionOK'
  <2>1. stream.fresh + stream.stale \in Nat BY DEF TypeOK
  <2> QED BY <2>1, Constants DEF TypeOK, Replace, ExecutionOK, MoverState
<1>2. \A r \in Runners : /\ [runs[r] EXCEPT !.fresh = FALSE] \in RunState
                          /\ Like([runs[r] EXCEPT !.fresh = FALSE], runs[r])
  BY DEF RunState, Like
<1> QED BY <1>1, <1>2 DEF Replace, Superseded

LEMMA CancelFacts ==
  ASSUME TypeOK, NEW runs \in [Runners -> RunState], Cancel(runs)
  PROVE  /\ ExecutionOK' /\ run' \in [Runners -> RunState]
         /\ \A r \in Runners : Like(run'[r], runs[r])
<1>1. docket' \in DocketRecord BY DEF TypeOK, Cancel, DocketRecord, Terminal
<1> QED BY <1>1 DEF TypeOK, Cancel, ExecutionOK, Like

LEMMA AddFacts ==
  ASSUME TypeOK, NEW runs \in [Runners -> RunState], Add(runs)
  PROVE  /\ ExecutionOK' /\ run' \in [Runners -> RunState]
         /\ \A r \in Runners : Like(run'[r], runs[r])
BY ReplaceFacts DEF TypeOK, Add, execution, ExecutionOK, Like

LEMMA MoverType == ASSUME TypeOK, Move \/ MoverFails PROVE TypeOK'
<1>1. CASE FindDue
  BY <1>1 DEF TypeOK, FindDue, Moves, MoverOnly, MoverState, store, marks, process
<1>2. CASE ReadParked
  BY <1>2 DEF TypeOK, ReadParked, MoverOnly, MoverState, store, marks, process
<1>3. CASE DropUnparked
  BY <1>3 DEF TypeOK, DropUnparked, Moves, MoverOnly, MoverState, DocketRecord, store, marks, process
<1>4. CASE AddToStream
  BY <1>4 DEF TypeOK, AddToStream, Moves, MoverOnly, MoverState, store, marks, process
<1>5. CASE Unpark
  BY <1>5 DEF TypeOK, Unpark, Moves, MoverOnly, MoverState, DocketRecord, store, marks, process
<1>6. CASE Unqueue
  BY <1>6 DEF TypeOK, Unqueue, Moves, MoverOnly, MoverState, DocketRecord, store, marks, process
<1>7. CASE MarkQueued
  BY <1>7 DEF TypeOK, MarkQueued, Moves, MoverOnly, MoverState, DocketRecord, store, marks, process
<1>8. CASE MoverFails
  BY <1>8, Constants, SchedulerAssumption DEF TypeOK, MoverFails, store, marks, process
<1> QED BY <1>1, <1>2, <1>3, <1>4, <1>5, <1>6, <1>7, <1>8 DEF Move

LEMMA WatchType ==
  ASSUME TypeOK, Tick \/ Watch \/ WatchFails \/ Register PROVE TypeOK'
<1> USE Constants DEF WatchOnly, store, marks, process
<1>1. CASE Tick
  BY <1>1 DEF TypeOK, Tick, DocketRecord
<1>2. CASE Snapshot
  BY <1>2 DEF TypeOK, Snapshot, WatchState, execution
<1>3. CASE Known
  BY <1>3 DEF TypeOK, Known, WatchState, Unwatched, execution
<1>4. CASE CancelOrphan
  <2>1. ExecutionOK' /\ run' = run BY <1>4, CancelFacts DEF TypeOK, CancelOrphan, Cancel
  <2> QED BY <1>4, <2>1 DEF TypeOK, CancelOrphan, ExecutionOK
<1>5. CASE Inspect
  BY <1>5 DEF TypeOK, Inspect, WatchState, execution
<1>6. CASE Reschedule
  <2>1. /\ ExecutionOK' /\ run' \in [Runners -> RunState]
        /\ \A r \in Runners : Like(run'[r], run[r])
    BY <1>6, AddFacts, ReplaceFacts DEF TypeOK, Reschedule
  <2>2. registered' \in 0 .. MaxRevision
    BY <1>6 DEF TypeOK, Reschedule, WatchState, Definition
  <2> QED BY <1>6, <2>1, <2>2 DEF TypeOK, Reschedule, ExecutionOK, Like
<1>7. CASE WatchFails
  BY <1>7, SchedulerAssumption DEF TypeOK, WatchFails, WatchState, Definition, execution
<1>8. CASE Register
  BY <1>8 DEF TypeOK, Register, Definition, execution
<1> QED BY <1>1, <1>2, <1>3, <1>4, <1>5, <1>6, <1>7, <1>8 DEF Watch

LEMMA WriteFailsType ==
  ASSUME TypeOK, NEW who, WriteFails(who)
  PROVE  /\ lock = who /\ lock' = None /\ task' = task
         /\ failures' \in 0 .. MaxFailures
         /\ file' \in [ok : BOOLEAN, def : Definition] /\ (file'.def.rev = 0 => ~file'.def.enabled)
<1>1. failures' \in 0 .. MaxFailures BY SchedulerAssumption DEF TypeOK, WriteFails
<1>2. /\ [ok |-> FALSE, def |-> NoTask] \in [ok : BOOLEAN, def : Definition]
      /\ ~[ok |-> FALSE, def |-> NoTask].def.enabled
  BY Constants DEF NoTask
<1>3. file' \in [ok : BOOLEAN, def : Definition] /\ (file'.def.rev = 0 => ~file'.def.enabled)
  BY <1>2 DEF TypeOK, WriteFails
<1> QED BY <1>1, <1>3 DEF WriteFails

LEMMA RequestType ==
  ASSUME TypeOK, NEW q \in Requests,
         Request(q) \/ RequestStep(q) \/ RequestWriteFails(q) \/ ApplyFails(q)
  PROVE  TypeOK'
<1> USE Actors, Constants DEF RequestOnly, marks, process
<1>1. CASE Create(q)
  BY <1>1, SchedulerAssumption
     DEF TypeOK, Create, Change, RequestState, Definition, execution
<1>2. CASE Update(q)
  <2>1. task.rev \in Nat /\ task.rev + 1 \in 1 .. MaxRevision
    BY <1>2, SchedulerAssumption DEF TypeOK, Update, Definition
  <2> QED BY <1>2, <2>1 DEF TypeOK, Update, Change, RequestState, Definition, execution
<1>3. CASE Delete(q)
  BY <1>3 DEF TypeOK, Delete, Change, RequestState, NoTask, execution
<1>4. CASE RequestWritten(q)
  BY <1>4 DEF TypeOK, RequestWritten, Written, RequestState, execution
<1>5. CASE RequestWriteFails(q)
  <2>1. WriteFails(q) BY <1>5 DEF RequestWriteFails
  <2> QED BY <1>5, <2>1, WriteFailsType DEF TypeOK, RequestWriteFails, NoRequest, execution
<1>6. CASE Apply(q)
  <2>1. /\ ExecutionOK' /\ run' \in [Runners -> RunState]
        /\ \A r \in Runners : Like(run'[r], run[r])
    BY <1>6, AddFacts, ReplaceFacts, CancelFacts
       DEF TypeOK, Apply, execution, ExecutionOK, Like
  <2>2. registered' \in 0 .. MaxRevision
    BY <1>6 DEF TypeOK, Apply, RequestState, Definition
  <2> QED BY <1>6, <2>1, <2>2 DEF TypeOK, Apply, ExecutionOK, Like, NoRequest, store
<1>7. CASE ApplyFails(q)
  BY <1>7, SchedulerAssumption
     DEF TypeOK, ApplyFails, RequestState, Definition, NoRequest, store, execution
<1> QED BY <1>1, <1>2, <1>3, <1>4, <1>5, <1>6, <1>7 DEF Request, RequestStep

\* One run changes, and with it the store's lock.
LEMMA OneRunType ==
  ASSUME TypeOK, NEW r \in Runners, NEW n \in RunState,
         run' = [run EXCEPT ![r] = n],
         task' \in Definition, task'.rev = 0 => ~task'.enabled,
         file' \in [ok : BOOLEAN, def : Definition], file'.def.rev = 0 => ~file'.def.enabled,
         \/ lock' = lock /\ (lock = r <=> n.pc \in {"disabled", "recorded"})
         \/ lock = None /\ lock' = r /\ n.pc \in {"disabled", "recorded"}
         \/ lock = r /\ lock' = None /\ n.pc \notin {"disabled", "recorded"},
         running' \in BOOLEAN, gate' \in BOOLEAN, failures' \in 0 .. MaxFailures,
         once' \subseteq 1 .. MaxRevision, retired' \subseteq 0 .. MaxRevision,
         UNCHANGED <<created, registered, request, watch, process>>, ExecutionOK'
  PROVE  TypeOK'
<1>1. run' \in [Runners -> RunState] /\ run'[r] = n /\ \A t \in Runners \ {r} : run'[t] = run[t]
  BY DEF TypeOK
<1>2. \A t \in Runners : lock' = t <=> run'[t].pc \in {"disabled", "recorded"}
  BY <1>1, Actors DEF TypeOK
<1>3. \A q \in Requests : lock' = q <=> request'[q].pc = "writing"
  BY Actors DEF TypeOK
<1> QED BY <1>1, <1>2, <1>3 DEF TypeOK, process, ExecutionOK

LEMMA WorkerType ==
  ASSUME TypeOK, NEW s \in Slots, Take(s) \/ Drop(s) \/ WorkerStep(s) PROVE TypeOK'
<1> s \in Runners BY Actors
<1> USE Constants DEF RunOnly, store, marks, process, execution, ExecutionOK
<1>1. CASE Take(s)
  <2>1. docket' \in DocketRecord BY <1>1 DEF TypeOK, Take, DocketRecord
  <2>2. PICK fresh \in BOOLEAN :
          /\ stream' = IF fresh THEN [stream EXCEPT !.fresh = @ - 1]
                                ELSE [stream EXCEPT !.stale = @ - 1]
          /\ (IF fresh THEN stream.fresh ELSE stream.stale) > 0
          /\ run' = [run EXCEPT ![s] = [NoRun EXCEPT !.pc = "check", !.fresh = fresh,
                                                     !.rev = registered]]
    BY <1>1 DEF Take
  <2>3. stream' \in [fresh : Nat, stale : Nat] BY <2>2 DEF TypeOK
  <2>4. [NoRun EXCEPT !.pc = "check", !.fresh = fresh, !.rev = registered] \in RunState
    BY DEF TypeOK, NoRun, RunState, Inside
  <2> QED BY <1>1, <2>1, <2>2, <2>3, <2>4, OneRunType DEF TypeOK, Take, NoRun
<1>2. CASE Drop(s)
  <2>1. docket' \in DocketRecord BY <1>2 DEF TypeOK, Drop, DocketRecord, Terminal
  <2>2. stream' \in [fresh : Nat, stale : Nat] BY <1>2 DEF TypeOK, Drop
  <2> QED BY <1>2, <2>1, <2>2 DEF TypeOK, Drop
<1>3. CASE Execute(s)
  <2>1. run[s].rev \in 1 .. MaxRevision
    BY <1>3 DEF TypeOK, Execute, Current, RunState, Definition
  <2> QED BY <1>3, <2>1, OneRunType DEF TypeOK, Execute, Opened, Look, RunState, Inside
<1>4. CASE RefuseStale(s)
  BY <1>4, OneRunType DEF TypeOK, RefuseStale, Look, Done, NoRun, RunState, Inside
<1>5. CASE SkipConcurrent(s)
  BY <1>5, OneRunType DEF TypeOK, SkipConcurrent, Look, Done, NoRun, RunState, Inside
<1>6. CASE Complete(s)
  <2> DEFINE left == [run EXCEPT ![s] = NoRun]
  <2>1. /\ left \in [Runners -> RunState]
        /\ \A r \in Runners : lock = r <=> left[r].pc \in {"disabled", "recorded"}
    BY <1>6 DEF TypeOK, Complete, NoRun
  <2>2. /\ ExecutionOK' /\ run' \in [Runners -> RunState]
        /\ \A r \in Runners : Like(run'[r], left[r])
    <3>1. CASE Cancel(left) BY <3>1, <2>1, CancelFacts
    <3>2. CASE Replace(left) BY <3>2, <2>1, ReplaceFacts
    <3>3. CASE run' = left /\ UNCHANGED execution BY <3>3, <2>1 DEF TypeOK, Like
    <3> QED BY <1>6, <3>1, <3>2, <3>3 DEF Complete
  <2> QED BY <1>6, <2>1, <2>2 DEF TypeOK, Complete, Like
<1> QED BY <1>1, <1>2, <1>3, <1>4, <1>5, <1>6 DEF WorkerStep

LEMMA LeaveFacts ==
  ASSUME TypeOK, NEW r \in Runners, Leave(r)
  PROVE  /\ running' \in BOOLEAN
         /\ \E n \in RunState : run' = [run EXCEPT ![r] = n] /\ n.pc \in {"idle", "done"}
<1>1. /\ Done(r, run[r].cancelled) \in RunState /\ NoRun \in RunState
      /\ Done(r, run[r].cancelled).pc = "done" /\ NoRun.pc = "idle"
  BY Constants DEF TypeOK, Done, NoRun, RunState, Inside
<1>2. run' = [run EXCEPT ![r] = IF r \in Slots THEN Done(r, run[r].cancelled) ELSE NoRun]
  BY DEF Leave
<1> QED BY <1>1, <1>2 DEF TypeOK, Leave

LEMMA RunType ==
  ASSUME TypeOK, NEW r \in Runners,
         RunStep(r) \/ RunWriteFails(r) \/ (r \in Manual /\ RunTaskNow(r))
  PROVE  TypeOK'
<1> USE Constants DEF RunOnly, store, marks, process, execution, ExecutionOK
<1>1. CASE r \in Manual /\ RunTaskNow(r)
  <2>1. [run[r] EXCEPT !.pc = "asking", !.rev = task.rev] \in RunState
    BY DEF TypeOK, RunState, Inside, Definition
  <2> QED BY <1>1, <2>1, OneRunType DEF TypeOK, RunTaskNow, Opened, Look, RunState
<1>2. CASE Answer(r)
  <2>1. Answers \subseteq {"continue", "cancel"} BY SchedulerAssumption DEF Answers
  <2>2. PICK a \in Answers : run' = [run EXCEPT ![r] = [@ EXCEPT !.pc = "latest", !.action = a]]
    BY <1>2 DEF Answer
  <2>3. /\ [run[r] EXCEPT !.pc = "latest", !.action = a] \in RunState
        /\ [run[r] EXCEPT !.pc = "latest", !.action = a].pc = "latest"
    BY <2>1 DEF TypeOK, RunState, Inside
  <2> QED BY <1>2, <2>2, <2>3, OneRunType DEF TypeOK, Answer
<1>3. CASE Latest(r)
  <2> DEFINE n == [run[r] EXCEPT !.pc = IF Ending(r) THEN "disabling" ELSE "recording",
                   !.cancelled = r \in Slots /\ (Ending(r) \/ ~Current(run[r].rev)),
                   !.action = "continue"]
  <2>1. n \in RunState /\ n.pc \in {"disabling", "recording"} BY DEF TypeOK, RunState, Inside
  <2>2. run' = [run EXCEPT ![r] = n] BY <1>3 DEF Latest
  <2> HIDE DEF n
  <2> QED BY <1>3, <2>1, <2>2, OneRunType DEF TypeOK, Latest, Look
<1>4. CASE Disable(r)
  <2>1. CASE Disables(r) /\ Change(r, [task EXCEPT !.enabled = FALSE])
               /\ run' = [run EXCEPT ![r].pc = "disabled"]
    <3>1. [run[r] EXCEPT !.pc = "disabled"] \in RunState BY DEF TypeOK, RunState, Inside
    <3>2. [task EXCEPT !.enabled = FALSE] \in Definition BY DEF TypeOK, Definition
    <3> QED BY <1>4, <2>1, <3>1, <3>2, OneRunType DEF TypeOK, Disable, Change, RunState, Definition
  <2>2. CASE Look /\ run' = [run EXCEPT ![r].pc = "recording"]
    <3>1. [run[r] EXCEPT !.pc = "recording"] \in RunState BY DEF TypeOK, RunState, Inside
    <3> QED BY <1>4, <2>2, <3>1, OneRunType DEF TypeOK, Disable, Look, RunState
  <2> QED BY <1>4, <2>1, <2>2 DEF Disable
<1>5. CASE RecordRun(r)
  <2>1. CASE Change(r, task) /\ run' = [run EXCEPT ![r].pc = "recorded"] /\ UNCHANGED running
    <3>1. [run[r] EXCEPT !.pc = "recorded"] \in RunState BY DEF TypeOK, RunState, Inside
    <3> QED BY <1>5, <2>1, <3>1, OneRunType DEF TypeOK, RecordRun, Change, RunState
  <2>2. CASE Look /\ Leave(r)
    BY <1>5, <2>2, LeaveFacts, OneRunType DEF TypeOK, RecordRun, Look
  <2> QED BY <1>5, <2>1, <2>2 DEF RecordRun
<1>6. CASE RunWritten(r)
  <2>1. CASE run[r].pc = "disabled" /\ run' = [run EXCEPT ![r].pc = "recording"]
               /\ retired' = retired \cup {run[r].rev} /\ UNCHANGED running
    <3>1. [run[r] EXCEPT !.pc = "recording"] \in RunState BY DEF TypeOK, RunState, Inside
    <3>2. run[r].rev \in 0 .. MaxRevision BY DEF TypeOK, RunState
    <3> QED BY <1>6, <2>1, <3>1, <3>2, OneRunType DEF TypeOK, RunWritten, Written, RunState
  <2>2. CASE Leave(r) /\ UNCHANGED retired
    BY <1>6, <2>2, LeaveFacts, OneRunType DEF TypeOK, RunWritten, Written
  <2> QED BY <1>6, <2>1, <2>2 DEF RunWritten
<1>7. CASE RunWriteFails(r)
  <2>1. WriteFails(r) /\ Leave(r) BY <1>7 DEF RunWriteFails
  <2> QED BY <1>7, <2>1, WriteFailsType, LeaveFacts, OneRunType DEF TypeOK, RunWriteFails
<1> QED BY <1>1, <1>2, <1>3, <1>4, <1>5, <1>6, <1>7 DEF RunStep

LEMMA RestartType == ASSUME TypeOK, Crash \/ Start PROVE TypeOK'
<1> USE Actors, Constants DEF marks, process, execution
<1>1. CASE Crash
  <2>1. \A b \in BOOLEAN : Redelivered(b) \in Nat
    <3> SUFFICES ASSUME NEW b \in BOOLEAN PROVE Redelivered(b) \in Nat OBVIOUS
    <3>1. IsFiniteSet({s \in Slots : run[s].pc # "idle" /\ run[s].fresh = b})
      BY SchedulerAssumption, FS_Subset
    <3> QED BY <3>1, FS_CardinalityType DEF Redelivered
  <2>2. stream' \in [fresh : Nat, stale : Nat]
    <3> DEFINE fresh == Redelivered(TRUE)
               stale == Redelivered(FALSE)
    <3>1. fresh \in Nat /\ stale \in Nat BY <2>1
    <3>2. stream' = IF Redis THEN [fresh |-> stream.fresh + fresh, stale |-> stream.stale + stale]
                             ELSE [fresh |-> 0, stale |-> 0]
      BY <1>1 DEF Crash
    <3> HIDE DEF fresh, stale
    <3>3. stream.fresh \in Nat /\ stream.stale \in Nat BY DEF TypeOK
    <3> QED BY <3>1, <3>2, <3>3
  <2>3. docket' \in DocketRecord /\ mover' \in MoverState BY <1>1 DEF TypeOK, Crash
  <2>4. file' \in [ok : BOOLEAN, def : Definition] /\ (file'.def.rev = 0 => ~file'.def.enabled)
    <3>1. /\ [ok |-> FALSE, def |-> NoTask] \in [ok : BOOLEAN, def : Definition]
          /\ [ok |-> TRUE, def |-> task] \in [ok : BOOLEAN, def : Definition]
          /\ ~[ok |-> FALSE, def |-> NoTask].def.enabled
      BY DEF TypeOK, NoTask
    <3>2. file' \in {file, [ok |-> FALSE, def |-> NoTask], [ok |-> TRUE, def |-> task]}
      BY <1>1 DEF Crash
    <3>3. CASE file' = file BY <3>3 DEF TypeOK
    <3>4. CASE file' = [ok |-> FALSE, def |-> NoTask] BY <3>1, <3>4
    <3>5. CASE file' = [ok |-> TRUE, def |-> task] BY <3>1, <3>5 DEF TypeOK
    <3> QED BY <3>2, <3>3, <3>4, <3>5
  <2>5. watch' \in WatchState BY <1>1 DEF Crash, WatchState, Unwatched
  <2>6. crashes' \in 0 .. MaxCrashes BY <1>1, SchedulerAssumption DEF TypeOK, Crash
  <2>7. /\ run' \in [Runners -> RunState] /\ request' \in [Requests -> RequestState]
        /\ \A r \in Runners : lock' = r <=> run'[r].pc \in {"disabled", "recorded"}
        /\ \A q \in Requests : lock' = q <=> request'[q].pc = "writing"
    BY <1>1 DEF Crash, NoRun, NoRequest
  <2>8. task' \in Definition /\ ~task'.enabled /\ registered' \in 0 .. MaxRevision
    BY <1>1, SchedulerAssumption DEF Crash, NoTask
  <2> QED BY <1>1, <2>2, <2>3, <2>4, <2>5, <2>6, <2>7, <2>8 DEF TypeOK, Crash
<1>2. CASE Start
  BY <1>2 DEF TypeOK, Start
<1> QED BY <1>1, <1>2

LEMMA TypeStep == ASSUME TypeOK, [Next]_vars PROVE TypeOK'
<1>1. CASE Next
  <2>1. CASE \E s \in Slots : Take(s) \/ Drop(s) \/ WorkerStep(s) BY <2>1, WorkerType
  <2>2. CASE \E m \in Manual : RunTaskNow(m) BY <2>2, RunType, Actors
  <2>3. CASE \E r \in Runners : RunStep(r) \/ RunWriteFails(r) BY <2>3, RunType
  <2>4. CASE \E q \in Requests : \/ Request(q) \/ RequestStep(q)
                                 \/ RequestWriteFails(q) \/ ApplyFails(q)
    BY <2>4, RequestType
  <2>5. CASE Move \/ MoverFails BY <2>5, MoverType
  <2>6. CASE Tick \/ Watch \/ WatchFails \/ Register BY <2>6, WatchType
  <2>7. CASE Crash \/ Start BY <2>7, RestartType
  <2> QED BY <1>1, <2>1, <2>2, <2>3, <2>4, <2>5, <2>6, <2>7 DEF Next, Running, Fails
<1>2. CASE UNCHANGED vars
  BY <1>2 DEF vars, TypeOK
<1> QED BY <1>1, <1>2

LEMMA TypeInit == Init => TypeOK
<1>1. ~NoTask.enabled /\ NoRun.pc = "idle" /\ NoRequest.pc = "idle"
  BY DEF NoTask, NoRun, NoRequest
<1>2. [fresh |-> 0, stale |-> 0] \in [fresh : Nat, stale : Nat] OBVIOUS
<1>3. [ok |-> TRUE, def |-> NoTask] \in [ok : BOOLEAN, def : Definition] BY Constants
<1> SUFFICES ASSUME Init PROVE TypeOK OBVIOUS
<1>4. /\ run \in [Runners -> RunState] /\ request \in [Requests -> RequestState]
      /\ \A r \in Runners : lock = r <=> run[r].pc \in {"disabled", "recorded"}
      /\ \A q \in Requests : lock = q <=> request[q].pc = "writing"
  BY <1>1, Constants, Actors DEF Init
<1>5. /\ registered \in 0 .. MaxRevision /\ failures \in 0 .. MaxFailures
      /\ crashes \in 0 .. MaxCrashes
  BY SchedulerAssumption DEF Init
<1>6. /\ task \in Definition /\ ~task.enabled /\ file \in [ok : BOOLEAN, def : Definition]
      /\ ~file.def.enabled
  BY <1>1, <1>3, Constants DEF Init
<1> QED BY <1>2, <1>4, <1>5, <1>6, Constants DEF Init, TypeOK

\* Every reachable state has the types of the design, and the store's lock is
\* held exactly while its holder's file write is open.
THEOREM TypesHold == Spec => []TypeOK
<1>1. TypeOK /\ [Next]_vars => TypeOK' BY TypeStep
<1> QED BY TypeInit, <1>1, PTL DEF Spec

(* ----------------------------- IInv is inductive ------------------------- *)

Outside == {"idle", "check", "done"}
ManualStates == {"idle", "asking", "latest", "recording", "recorded"}

\* Steps that neither touch the store nor enter, leave or advance a run of the
\* worker that is inside
LEMMA QuietStep ==
  ASSUME IInv, TypeOK', up',
         UNCHANGED <<task, file, lock, created, running, once, retired>>,
         \A s \in Slots : \/ Like(run'[s], run[s])
                          \/ run[s].pc \in Outside /\ run'[s].pc \in Outside,
         \A m \in Manual : run'[m].pc \in ManualStates
  PROVE  IInv'
<1>1. \A s \in Slots : /\ run'[s].pc \in Inside => Like(run'[s], run[s])
                       /\ run[s].pc \in Inside => Like(run'[s], run[s])
                       /\ run'[s].pc = run[s].pc \/ run'[s].pc \notin Inside
  BY DEF Outside, Inside, Like
<1>2. \A rev : Working(rev)' <=> Working(rev)
  BY <1>1 DEF Working, Inside, Like
<1>3. NoOverlap' BY <1>1 DEF IInv, NoOverlap, Inside, Like
<1>4. RunsOK' BY <1>1 DEF IInv, RunsOK, Inside, Like, ManualStates
<1>5. OnceOK' BY <1>2 DEF IInv, OnceOK
<1>6. RetiredOK' BY <1>2 DEF IInv, RetiredOK, Past
<1> QED BY <1>3, <1>4, <1>5, <1>6 DEF IInv, CreatedOK, DownOK

\* Requests change the store and no run.
LEMMA StoreStep ==
  ASSUME IInv, TypeOK', up', UNCHANGED <<run, running, once, retired>>,
         created => created', CreatedOK',
         \A s \in Slots : run[s].pc = "disabled" => task' = task,
         \A rev \in once : /\ task'.rev # 0 => rev <= task'.rev
                           /\ task'.rev = rev /\ task'.enabled => task' = task,
         \A rev \in retired : Past(rev, task') /\ Past(rev, file'.def)
  PROVE  IInv'
<1>1. \A rev : Working(rev)' <=> Working(rev) BY DEF Working
<1>2. RunsOK' BY DEF IInv, RunsOK
<1>3. OnceOK' BY <1>1 DEF IInv, OnceOK
<1>4. RetiredOK' BY <1>1 DEF IInv, RetiredOK
<1> QED BY <1>2, <1>3, <1>4 DEF IInv, NoOverlap, DownOK

\* A run of the worker that is inside advances, or leaves.
LEMMA InsideStep ==
  ASSUME IInv, TypeOK', up', NEW s \in Slots,
         run[s].pc \in Inside,
         \A t \in Runners \ {s} : run'[t] = run[t],
         \/ run'[s].pc \in Inside \ {"asking"} /\ run'[s].rev = run[s].rev /\ running' = running
         \/ run'[s].pc = "done" /\ running' = FALSE,
         Kind = "oneshot" /\ run'[s].pc = "latest" => run'[s].action = "cancel",
         run'[s].pc \in {"latest", "disabling"} => run[s].pc \in {"asking", "latest", "disabling"},
         Kind = "oneshot" /\ run[s].pc \in {"asking", "latest", "disabling"}
           /\ task'.rev = run[s].rev /\ task'.enabled => run'[s].pc \in {"latest", "disabling"},
         run'[s].pc = "disabled" => task' = [rev |-> run[s].rev, enabled |-> FALSE],
         \/ task' = task
         \/ task.rev = run[s].rev /\ task' = [task EXCEPT !.enabled = FALSE],
         file'.def \in {file.def, NoTask, task}, file'.def = task => task' = task \/ file'.def = file.def,
         UNCHANGED <<once, created>>,
         \/ retired' = retired
         \/ /\ retired' = retired \cup {run[s].rev} /\ run'[s].pc = "recording"
            /\ task' = [rev |-> run[s].rev, enabled |-> FALSE] /\ file'.def = task'
  PROVE  IInv'
<1> s \in Runners /\ Slots \subseteq Runners /\ \A m \in Manual : m \in Runners \ {s}
  BY Actors
<1>1. \A t \in Slots \ {s} : run[t].pc \notin Inside /\ run'[t] = run[t]
  BY DEF IInv, NoOverlap
<1>2. NoOverlap' BY <1>1 DEF NoOverlap
<1>3. RunsOK' BY <1>1 DEF IInv, RunsOK, Inside
<1>4. \A rev : Working(rev)' => Working(rev)
  BY <1>1 DEF Working, Inside
<1>5. \A rev : Working(rev) => rev = run[s].rev /\ run[s].pc \in {"asking", "latest", "disabling"}
  BY <1>1 DEF Working, Inside
<1>6. /\ task'.rev = task.rev /\ (task'.enabled => task' = task)
      /\ run[s].rev \in once /\ once \subseteq Nat /\ task.rev \in Nat
  BY DEF IInv, TypeOK, Definition, RunsOK
<1>7. OnceOK'
  <2> SUFFICES ASSUME NEW rev \in once
               PROVE  /\ created' /\ (task'.rev # 0 => rev <= task'.rev)
                      /\ Kind = "oneshot" /\ task'.rev = rev /\ task'.enabled => Working(rev)'
    BY DEF OnceOK
  <2>1. CASE Kind = "oneshot" /\ task'.rev = rev /\ task'.enabled
    <3>1. Working(rev) BY <2>1, <1>6 DEF IInv, OnceOK
    <3>2. run'[s].pc \in {"latest", "disabling"} BY <2>1, <3>1, <1>5
    <3>3. run'[s].rev = rev BY <3>1, <3>2, <1>5 DEF Inside
    <3> QED BY <1>6, <3>2, <3>3 DEF IInv, OnceOK, Working
  <2> QED BY <1>6, <2>1 DEF IInv, OnceOK
<1>8. \A rev \in retired : Past(rev, task') /\ Past(rev, file'.def)
  <2> SUFFICES ASSUME NEW rev \in retired PROVE Past(rev, task') /\ Past(rev, file'.def) OBVIOUS
  <2>1. Past(rev, task) /\ Past(rev, file.def) BY DEF IInv, RetiredOK
  <2>2. Past(rev, task') BY <1>6, <2>1 DEF Past
  <2>3. Past(rev, NoTask) BY DEF Past, NoTask
  <2> QED BY <2>1, <2>2, <2>3
<1>9. RetiredOK'
  <2> SUFFICES ASSUME NEW rev \in retired'
               PROVE  created' /\ Past(rev, task') /\ Past(rev, file'.def) /\ ~Working(rev)'
    BY DEF RetiredOK
  <2>1. CASE rev \in retired BY <2>1, <1>4, <1>8 DEF IInv, RetiredOK
  <2>2. CASE rev \notin retired
    <3>1. /\ rev = run[s].rev /\ run'[s].pc = "recording"
          /\ task' = [rev |-> rev, enabled |-> FALSE] /\ file'.def = task'
      BY <2>2
    <3>2. created' BY <3>1, <1>6 DEF IInv, OnceOK
    <3>3. Past(rev, task') /\ Past(rev, file'.def) BY <3>1, <1>6 DEF Past
    <3>4. ~Working(rev)' BY <3>1, <1>1 DEF Working, Inside
    <3> QED BY <3>2, <3>3, <3>4
  <2> QED BY <2>1, <2>2
<1>10. CreatedOK' BY <1>6 DEF IInv, CreatedOK, NoTask
<1> QED BY <1>2, <1>3, <1>7, <1>9, <1>10 DEF IInv, DownOK

LEMMA MoverInv ==
  ASSUME IInv, up, up', TypeOK', Move \/ MoverFails \/ Tick \/ Watch \/ WatchFails \/ Register
  PROVE  IInv'
<1>1. /\ UNCHANGED <<task, file, lock, created, running, once, retired>>
      /\ run' = run \/ Add(run) \/ Replace(run) \/ Cancel(run)
  BY DEF Move, FindDue, ReadParked, DropUnparked, AddToStream, Unpark, Unqueue, MarkQueued,
         MoverFails, MoverOnly, Tick, Watch, Snapshot, Known, CancelOrphan, Inspect,
         Reschedule, WatchFails, WatchOnly, Register, store, marks
<1>2. \A r \in Runners : Like(run'[r], run[r])
  BY <1>1, AddFacts, ReplaceFacts, CancelFacts DEF IInv, TypeOK, Like
<1> QED BY <1>1, <1>2, QuietStep, Actors DEF IInv, RunsOK, Like, ManualStates

LEMMA RequestInv ==
  ASSUME IInv, up, up', TypeOK', NEW q \in Requests,
         Request(q) \/ RequestStep(q) \/ RequestWriteFails(q) \/ ApplyFails(q)
  PROVE  IInv'
<1> USE DEF RequestOnly, marks
<1> TypeOK BY DEF IInv
<1>1. lock = None => \A s \in Slots : run[s].pc # "disabled"
  BY Actors DEF TypeOK
<1>2. \A rev \in once : rev # 0 BY DEF TypeOK
<1>3. CASE Create(q)
  <2>1. once = {} /\ retired = {} BY <1>3 DEF Create, IInv, OnceOK, RetiredOK
  <2>2. CreatedOK' BY <1>3 DEF Create, CreatedOK
  <2> QED BY <1>1, <1>3, <2>1, <2>2, StoreStep DEF Create, Change
<1>4. CASE Update(q)
  <2>1. /\ task.rev \in Nat \ {0} /\ task'.rev = task.rev + 1 /\ lock = None
        /\ UNCHANGED <<run, running, once, retired, created, file>>
    BY <1>4 DEF Update, Change
  <2>2. \A rev \in once \cup retired : rev \in Nat /\ rev < task'.rev
    BY <2>1 DEF IInv, TypeOK, OnceOK, RetiredOK, Past
  <2>3. \A rev \in retired : Past(rev, task') /\ Past(rev, file'.def)
    BY <2>1, <2>2 DEF IInv, RetiredOK, Past
  <2>4. \A rev \in once : /\ task'.rev # 0 => rev <= task'.rev
                          /\ task'.rev = rev /\ task'.enabled => task' = task
    BY <2>1, <2>2
  <2>5. CreatedOK' BY <2>1 DEF IInv, CreatedOK
  <2> QED BY <1>1, <2>1, <2>3, <2>4, <2>5, StoreStep
<1>5. CASE Delete(q)
  <2>1. /\ task' = NoTask /\ lock = None
        /\ UNCHANGED <<run, running, once, retired, created, file>>
    BY <1>5 DEF Delete, Change
  <2>2. \A rev \in retired : Past(rev, task') /\ Past(rev, file'.def)
    BY <2>1 DEF IInv, RetiredOK, Past, NoTask
  <2>3. CreatedOK' BY <2>1 DEF IInv, CreatedOK, NoTask
  <2> QED BY <1>1, <1>2, <2>1, <2>2, <2>3, StoreStep DEF NoTask
<1>6. CASE RequestWritten(q) \/ RequestWriteFails(q)
  <2>1. /\ UNCHANGED <<task, run, running, once, retired, created>>
        /\ file'.def \in {file.def, task, NoTask}
    BY <1>6 DEF RequestWritten, Written, RequestWriteFails, WriteFails
  <2>2. \A rev \in retired : Past(rev, task') /\ Past(rev, file'.def)
    BY <2>1 DEF IInv, RetiredOK, Past, NoTask
  <2>3. CreatedOK' BY <2>1 DEF IInv, CreatedOK, NoTask
  <2> QED BY <2>1, <2>2, <2>3, StoreStep DEF IInv, OnceOK
<1>7. CASE Apply(q) \/ ApplyFails(q)
  <2>1. /\ UNCHANGED <<task, file, lock, created, running, once, retired>>
        /\ run' = run \/ Add(run) \/ Replace(run) \/ Cancel(run)
    BY <1>7 DEF Apply, ApplyFails, store
  <2>2. \A r \in Runners : Like(run'[r], run[r])
    BY <2>1, AddFacts, ReplaceFacts, CancelFacts DEF TypeOK, Like
  <2> QED BY <2>1, <2>2, QuietStep, Actors DEF IInv, RunsOK, Like, ManualStates
<1> QED BY <1>3, <1>4, <1>5, <1>6, <1>7 DEF Request, RequestStep

LEMMA ExecuteInv ==
  ASSUME IInv, up, up', TypeOK', NEW s \in Slots, Execute(s)
  PROVE  IInv'
<1> s \in Runners /\ Slots \subseteq Runners /\ \A m \in Manual : m \in Runners \ {s}
  BY Actors
<1> TypeOK BY DEF IInv
<1> DEFINE rev == run[s].rev
<1>1. /\ task.rev = rev /\ task.enabled /\ ~running /\ running' = TRUE /\ lock = None
      /\ run' = [run EXCEPT ![s] = [@ EXCEPT !.pc = "asking", !.rev = rev]]
      /\ once' = once \cup {rev}
      /\ UNCHANGED <<task, file, lock, created, retired>>
  BY DEF Execute, Current, Excluded, Opened, Look, RunOnly
<1>2. \A t \in Slots : run[t].pc \notin Inside BY <1>1 DEF IInv, RunsOK
<1>3. /\ run'[s].pc = "asking" /\ run'[s].rev = rev
      /\ \A t \in Runners \ {s} : run'[t] = run[t]
  BY <1>1 DEF TypeOK, RunState
<1>4. created /\ rev \in Nat /\ rev # 0
  BY <1>1 DEF IInv, CreatedOK, TypeOK, Definition
<1>5. NoOverlap' BY <1>2, <1>3 DEF NoOverlap
<1>6. RunsOK' BY <1>1, <1>2, <1>3 DEF IInv, RunsOK, Inside
<1>7. Working(rev)' BY <1>3 DEF Working
<1>8. OnceOK' BY <1>1, <1>4, <1>7, <1>2 DEF IInv, OnceOK, Working, Inside
<1>9. \A r \in retired : r # rev BY <1>1 DEF IInv, RetiredOK, Past
<1>10. \A r : r # rev => ~Working(r)' BY <1>2, <1>3 DEF Working, Inside
<1>11. RetiredOK' BY <1>1, <1>9, <1>10 DEF IInv, RetiredOK
<1>12. CreatedOK' BY <1>1 DEF IInv, CreatedOK
<1> QED BY <1>5, <1>6, <1>8, <1>11, <1>12 DEF IInv, DownOK

LEMMA WorkerInv ==
  ASSUME IInv, up, up', TypeOK', NEW s \in Slots, Take(s) \/ Drop(s) \/ WorkerStep(s)
  PROVE  IInv'
<1> s \in Runners /\ Slots \subseteq Runners /\ \A m \in Manual : m \in Runners \ {s}
  BY Actors
<1> TypeOK BY DEF IInv
<1>1. CASE Execute(s) BY <1>1, ExecuteInv
<1>2. CASE Take(s) \/ Drop(s) \/ RefuseStale(s) \/ SkipConcurrent(s) \/ Complete(s)
  <2>1. UNCHANGED <<task, file, lock, created, running, once, retired>>
    BY <1>2 DEF Take, Drop, RefuseStale, SkipConcurrent, Complete, Look, RunOnly, store, marks
  <2>2. /\ \A t \in Runners \ {s} : Like(run'[t], run[t])
        /\ Like(run'[s], run[s]) \/ (run[s].pc \in Outside /\ run'[s].pc \in Outside)
    <3>1. CASE Take(s)
      <4>1. PICK fresh \in BOOLEAN :
              run' = [run EXCEPT ![s] = [NoRun EXCEPT !.pc = "check", !.fresh = fresh,
                                                      !.rev = registered]]
        BY <3>1 DEF Take
      <4>2. run[s].pc = "idle" /\ run'[s].pc = "check" BY <3>1, <4>1 DEF Take, TypeOK, NoRun
      <4>3. \A t \in Runners \ {s} : run'[t] = run[t] BY <4>1 DEF TypeOK
      <4> QED BY <4>2, <4>3 DEF Like, Outside
    <3>2. CASE Drop(s)
      <4>1. run' = run BY <3>2 DEF Drop
      <4>2. \A t : Like(run'[t], run[t]) BY <4>1 DEF Like
      <4> QED BY <4>2
    <3>3. CASE RefuseStale(s) \/ SkipConcurrent(s)
      <4>1. PICK c \in BOOLEAN : run' = [run EXCEPT ![s] = Done(s, c)]
        BY <3>3 DEF RefuseStale, SkipConcurrent
      <4>2. run[s].pc = "check" BY <3>3 DEF RefuseStale, SkipConcurrent
      <4>3. run'[s].pc = "done" BY <4>1 DEF TypeOK, Done, NoRun
      <4>4. \A t \in Runners \ {s} : run'[t] = run[t] BY <4>1 DEF TypeOK
      <4> QED BY <4>2, <4>3, <4>4 DEF Like, Outside
    <3>4. CASE Complete(s)
      <4> DEFINE left == [run EXCEPT ![s] = NoRun]
      <4>1. left \in [Runners -> RunState] BY Constants DEF TypeOK
      <4>2. \A r \in Runners : Like(run'[r], left[r])
        BY <3>4, <4>1, ReplaceFacts, CancelFacts DEF Complete, Like
      <4> QED BY <3>4, <4>1, <4>2 DEF Complete, TypeOK, Like, Outside, NoRun
    <3> QED BY <1>2, <3>1, <3>2, <3>3, <3>4
  <2> QED BY <2>1, <2>2, QuietStep DEF IInv, RunsOK, Like, ManualStates
<1> QED BY <1>1, <1>2 DEF WorkerStep

LEMMA SlotLeaves ==
  ASSUME TypeOK, NEW s \in Slots, Leave(s)
  PROVE  /\ run'[s].pc = "done" /\ running' = FALSE
         /\ \A t \in Runners \ {s} : run'[t] = run[t]
<1>1. s \in Runners BY Actors
<1>2. Done(s, run[s].cancelled).pc = "done" BY DEF Done, NoRun
<1> QED BY <1>1, <1>2 DEF Leave, TypeOK

LEMMA RunInv ==
  ASSUME IInv, up, up', TypeOK', NEW s \in Slots, RunStep(s) \/ RunWriteFails(s)
  PROVE  IInv'
<1> s \in Runners BY Actors
<1> TypeOK BY DEF IInv
<1> USE DEF RunOnly, marks, store
<1>1. CASE Answer(s)
  <2>1. PICK a \in Answers : run' = [run EXCEPT ![s] = [@ EXCEPT !.pc = "latest", !.action = a]]
    BY <1>1 DEF Answer
  <2>2. /\ run'[s].pc = "latest" /\ run'[s].rev = run[s].rev /\ run'[s].action = a
        /\ \A t \in Runners \ {s} : run'[t] = run[t]
    BY <2>1 DEF TypeOK, RunState
  <2>3. Kind = "oneshot" => a = "cancel" BY <2>1 DEF Answers
  <2>4. run[s].pc = "asking" /\ UNCHANGED <<task, file, running, once, created, retired>>
    BY <1>1 DEF Answer
  <2> QED BY <2>2, <2>3, <2>4, InsideStep DEF Inside
<1>2. CASE Latest(s)
  <2>1. /\ run'[s].pc = (IF Ending(s) THEN "disabling" ELSE "recording")
        /\ run'[s].rev = run[s].rev
        /\ \A t \in Runners \ {s} : run'[t] = run[t]
    BY <1>2 DEF Latest, TypeOK, RunState
  <2>2. run[s].pc = "latest" /\ UNCHANGED <<task, file, running, once, created, retired>>
    BY <1>2 DEF Latest, Look
  <2>3. Kind = "oneshot" => Ending(s) BY <2>2 DEF IInv, RunsOK, Ending
  <2> QED BY <2>1, <2>2, <2>3, InsideStep DEF Inside
<1>3. CASE Disable(s)
  <2>1. run[s].pc = "disabling" /\ UNCHANGED <<file, running, once, created, retired>>
    BY <1>3 DEF Disable, Look, Change
  <2>2. CASE Disables(s) /\ task' = [task EXCEPT !.enabled = FALSE]
               /\ run' = [run EXCEPT ![s].pc = "disabled"]
    <3>1. /\ run'[s].pc = "disabled" /\ run'[s].rev = run[s].rev
          /\ \A t \in Runners \ {s} : run'[t] = run[t]
      BY <2>2 DEF TypeOK, RunState
    <3>2. /\ task.rev = run[s].rev /\ task' = [rev |-> run[s].rev, enabled |-> FALSE]
          /\ task' # task
      BY <2>2 DEF Disables, Current, TypeOK, Definition
    <3>3. file'.def = task => task' = task \/ file'.def = file.def BY <2>1
    <3> QED BY <2>1, <2>2, <3>1, <3>2, <3>3, InsideStep DEF Inside
  <2>3. CASE ~Disables(s) /\ Look /\ run' = [run EXCEPT ![s].pc = "recording"]
    <3>1. /\ run'[s].pc = "recording" /\ run'[s].rev = run[s].rev
          /\ \A t \in Runners \ {s} : run'[t] = run[t]
      BY <2>3 DEF TypeOK, RunState
    <3>2. task' = task /\ ~(task.rev = run[s].rev /\ task.enabled)
      BY <2>3 DEF Disables, Current, Look
    <3> QED BY <2>1, <3>1, <3>2, InsideStep DEF Inside
  <2> QED BY <1>3, <2>2, <2>3 DEF Disable, Change
<1>4. CASE RecordRun(s)
  <2>1. run[s].pc = "recording" /\ UNCHANGED <<task, file, once, created, retired>>
    BY <1>4 DEF RecordRun, Change, Look
  <2>2. CASE run' = [run EXCEPT ![s].pc = "recorded"] /\ UNCHANGED running
    <3>1. /\ run'[s].pc = "recorded" /\ run'[s].rev = run[s].rev
          /\ \A t \in Runners \ {s} : run'[t] = run[t]
      BY <2>2 DEF TypeOK, RunState
    <3> QED BY <2>1, <2>2, <3>1, InsideStep DEF Inside
  <2>3. CASE Leave(s)
    <3> QED BY <2>1, <2>3, SlotLeaves, InsideStep DEF Inside
  <2> QED BY <1>4, <2>2, <2>3 DEF RecordRun
<1>5. CASE RunWritten(s)
  <2>1. UNCHANGED <<task, once, created>> /\ file'.def = task
    BY <1>5 DEF RunWritten, Written
  <2>2. CASE run[s].pc = "disabled" /\ run' = [run EXCEPT ![s].pc = "recording"]
               /\ retired' = retired \cup {run[s].rev} /\ UNCHANGED running
    <3>1. /\ run'[s].pc = "recording" /\ run'[s].rev = run[s].rev
          /\ \A t \in Runners \ {s} : run'[t] = run[t]
      BY <2>2 DEF TypeOK, RunState
    <3>2. task = [rev |-> run[s].rev, enabled |-> FALSE] BY <2>2 DEF IInv, RunsOK
    <3> QED BY <2>1, <2>2, <3>1, <3>2, InsideStep DEF Inside
  <2>3. CASE run[s].pc = "recorded" /\ Leave(s) /\ UNCHANGED retired
    BY <2>1, <2>3, SlotLeaves, InsideStep DEF Inside
  <2> QED BY <1>5, <2>2, <2>3 DEF RunWritten
<1>6. CASE RunWriteFails(s)
  <2>1. /\ UNCHANGED <<task, once, created, retired>> /\ file'.def \in {file.def, NoTask}
        /\ run[s].pc \in {"disabled", "recorded"} /\ Leave(s)
    BY <1>6 DEF RunWriteFails, WriteFails
  <2> QED BY <2>1, SlotLeaves, InsideStep DEF Inside
<1> QED BY <1>1, <1>2, <1>3, <1>4, <1>5, <1>6 DEF RunStep

LEMMA ManualInv ==
  ASSUME IInv, up, up', TypeOK', NEW m \in Manual,
         RunTaskNow(m) \/ RunStep(m) \/ RunWriteFails(m)
  PROVE  IInv'
<1> m \in Runners /\ m \notin Slots /\ Slots \subseteq Runners /\ Manual \subseteq Runners
  BY Actors
<1> TypeOK BY DEF IInv
<1> USE DEF RunOnly, marks, store
<1>0. run[m].pc \in ManualStates BY DEF IInv, RunsOK, ManualStates
<1>1. /\ UNCHANGED <<task, created, running, once, retired>>
      /\ file'.def \in {file.def, NoTask, task}
  <2>1. CASE RunTaskNow(m) BY <2>1 DEF RunTaskNow, Look
  <2>2. CASE Answer(m) BY <2>2 DEF Answer
  <2>3. CASE Latest(m) BY <2>3 DEF Latest, Look
  <2>4. CASE Disable(m) BY <2>4, <1>0 DEF Disable, ManualStates
  <2>5. CASE RecordRun(m) BY <2>5 DEF RecordRun, Look, Change, Leave, TypeOK
  <2>6. CASE RunWritten(m) BY <2>6, <1>0 DEF RunWritten, Written, Leave, ManualStates, TypeOK
  <2>7. CASE RunWriteFails(m) BY <2>7 DEF RunWriteFails, WriteFails, Leave, TypeOK
  <2> QED BY <2>1, <2>2, <2>3, <2>4, <2>5, <2>6, <2>7 DEF RunStep
<1>2. /\ \A t \in Runners \ {m} : run'[t] = run[t]
      /\ run'[m].pc \in ManualStates
  <2>1. CASE RunTaskNow(m) BY <2>1 DEF RunTaskNow, Opened, TypeOK, ManualStates
  <2>2. CASE Answer(m) BY <2>2 DEF Answer, TypeOK, ManualStates
  <2>3. CASE Latest(m) BY <2>3 DEF Latest, Ending, TypeOK, ManualStates
  <2>4. CASE Disable(m) BY <2>4, <1>0 DEF Disable, ManualStates
  <2>5. CASE RecordRun(m)
    <3>1. CASE run' = [run EXCEPT ![m].pc = "recorded"] BY <3>1 DEF TypeOK, ManualStates
    <3>2. CASE Leave(m) BY <3>2 DEF Leave, NoRun, TypeOK, ManualStates
    <3> QED BY <2>5, <3>1, <3>2 DEF RecordRun
  <2>6. CASE RunWritten(m) BY <2>6, <1>0 DEF RunWritten, Leave, NoRun, TypeOK, ManualStates
  <2>7. CASE RunWriteFails(m) BY <2>7 DEF RunWriteFails, Leave, NoRun, TypeOK, ManualStates
  <2> QED BY <2>1, <2>2, <2>3, <2>4, <2>5, <2>6, <2>7 DEF RunStep
<1>3. \A s \in Slots : run'[s] = run[s] BY <1>2
<1>4. \A rev : Working(rev)' <=> Working(rev) BY <1>3 DEF Working
<1>5. NoOverlap' BY <1>3 DEF IInv, NoOverlap
<1>6. RunsOK' BY <1>1, <1>2, <1>3 DEF IInv, RunsOK, ManualStates
<1>7. OnceOK' BY <1>1, <1>4 DEF IInv, OnceOK
<1>8. RetiredOK' BY <1>1, <1>4 DEF IInv, RetiredOK, Past, NoTask
<1>9. CreatedOK' BY <1>1 DEF IInv, CreatedOK, NoTask
<1> QED BY <1>5, <1>6, <1>7, <1>8, <1>9 DEF IInv, DownOK

LEMMA RestartInv == ASSUME IInv, TypeOK', (up /\ Crash) \/ Start PROVE IInv'
<1> Slots \subseteq Runners /\ Manual \subseteq Runners BY Actors
<1>1. CASE up /\ Crash
  <2>1. /\ task' = NoTask /\ lock' = None /\ once' = {} /\ \A r \in Runners : run'[r] = NoRun
        /\ UNCHANGED <<created, retired>> /\ file'.def \in {file.def, NoTask, task}
    BY <1>1 DEF Crash
  <2>2. NoOverlap' /\ RunsOK' /\ OnceOK' /\ DownOK'
    BY <2>1 DEF NoOverlap, RunsOK, OnceOK, DownOK, NoRun, Inside
  <2>3. \A rev : ~Working(rev)' BY <2>1 DEF Working, NoRun
  <2>4. RetiredOK' BY <2>1, <2>3 DEF IInv, RetiredOK, Past, NoTask
  <2>5. CreatedOK' BY <2>1 DEF IInv, CreatedOK, NoTask
  <2> QED BY <2>2, <2>4, <2>5 DEF IInv
<1>2. CASE Start
  <2>1. /\ task' = file.def /\ ~up /\ up'
        /\ UNCHANGED <<file, created, running, run, once, retired>>
    BY <1>2 DEF Start, marks
  <2>2. once = {} /\ \A r \in Runners : run[r] = NoRun BY <2>1 DEF IInv, DownOK
  <2>3. NoOverlap' /\ RunsOK' /\ OnceOK' /\ DownOK'
    BY <2>1, <2>2 DEF NoOverlap, RunsOK, OnceOK, DownOK, NoRun, Inside
  <2>4. \A rev : ~Working(rev)' BY <2>1, <2>2 DEF Working, NoRun
  <2>5. RetiredOK' BY <2>1, <2>4 DEF IInv, RetiredOK
  <2>6. CreatedOK' BY <2>1 DEF IInv, CreatedOK
  <2> QED BY <2>3, <2>5, <2>6 DEF IInv
<1> QED BY <1>1, <1>2

LEMMA InvStep == ASSUME IInv, [Next]_vars PROVE IInv'
<1>1. TypeOK' BY TypeStep DEF IInv
<1>2. CASE up /\ Running
  <2>1. up' = up
    BY <1>2 DEF Running, Fails, Move, FindDue, ReadParked, DropUnparked, AddToStream, Unpark,
         Unqueue, MarkQueued, MoverFails, MoverOnly, Tick, Watch, Snapshot, Known, CancelOrphan,
         Inspect, Reschedule, WatchFails, WatchOnly, Register, Take, Drop, WorkerStep, Execute,
         RefuseStale, SkipConcurrent, Complete, RunTaskNow, RunStep, Answer, Latest, Disable,
         RecordRun, RunWritten, RunWriteFails, RunOnly, Request, Create, Update, Delete,
         RequestStep, RequestWritten, Apply, RequestWriteFails, ApplyFails, RequestOnly, process
  <2>2. CASE \E s \in Slots : \/ Take(s) \/ Drop(s) \/ WorkerStep(s)
                              \/ RunStep(s) \/ RunWriteFails(s)
    BY <1>1, <1>2, <2>1, <2>2, WorkerInv, RunInv
  <2>3. CASE \E m \in Manual : RunTaskNow(m) \/ RunStep(m) \/ RunWriteFails(m)
    BY <1>1, <1>2, <2>1, <2>3, ManualInv
  <2>4. CASE \E q \in Requests : \/ Request(q) \/ RequestStep(q)
                                 \/ RequestWriteFails(q) \/ ApplyFails(q)
    BY <1>1, <1>2, <2>1, <2>4, RequestInv
  <2>5. CASE Move \/ MoverFails \/ Tick \/ Watch \/ WatchFails \/ Register
    BY <1>1, <1>2, <2>1, <2>5, MoverInv
  <2>6. \A r \in Runners : r \in Slots \/ r \in Manual BY DEF Runners
  <2> QED BY <1>2, <2>2, <2>3, <2>4, <2>5, <2>6 DEF Running, Fails
<1>3. CASE (up /\ Crash) \/ Start BY <1>1, <1>3, RestartInv
<1>4. CASE UNCHANGED vars
  BY <1>1, <1>4 DEF vars, IInv, NoOverlap, RunsOK, OnceOK, RetiredOK, Past, Working, CreatedOK, DownOK
<1> QED BY <1>2, <1>3, <1>4 DEF Next

\* In every reachable state a run inside the worker is alone and marked, a one-shot
\* revision that was run is at work or over, and nothing can bring a retired
\* revision back.
THEOREM InvHolds == Spec => []IInv
<1>1. Init => IInv
  <2> SUFFICES ASSUME Init PROVE IInv OBVIOUS
  <2>1. \A r \in Runners : run[r] = NoRun BY DEF Init
  <2>2. once = {} /\ retired = {} /\ task.rev = 0 /\ file.def.rev = 0 /\ up
    BY DEF Init, NoTask
  <2> QED BY <2>1, <2>2, TypeInit, Actors
       DEF IInv, NoOverlap, RunsOK, OnceOK, RetiredOK, CreatedOK, DownOK, NoRun, Inside
<1>2. IInv /\ [Next]_vars => IInv' BY InvStep
<1> QED BY <1>1, <1>2, PTL DEF Spec

(* -------------------------------- theorems ------------------------------- *)

\* Two worker runs of the task are never inside _run_task_definition at once.
THEOREM RunsDoNotOverlap == Spec => []NoOverlap
<1>1. IInv => NoOverlap BY DEF IInv
<1> QED BY <1>1, InvHolds, PTL

\* A revision whose end the file has recorded is never run by the worker again.
THEOREM RetiredStaysRetired == Spec => []NoRetiredRuns
<1>1. IInv => NoRetiredRuns BY DEF IInv, RetiredOK, Working, NoRetiredRuns
<1> QED BY <1>1, InvHolds, PTL

\* Only Execute makes the worker ask the model.
LEMMA AskingStarts ==
  ASSUME TypeOK, Next, NEW s \in Slots, run[s].pc # "asking", run'[s].pc = "asking"
  PROVE  Execute(s)
<1> s \in Runners /\ Slots \subseteq Runners /\ Manual \subseteq Runners /\ s \notin Manual
  BY Actors
<1>1. CASE run' = run \/ Add(run) \/ Replace(run) \/ Cancel(run)
  BY <1>1, AddFacts, ReplaceFacts, CancelFacts DEF TypeOK, Like
<1>2. ASSUME NEW t \in Slots, Take(t) \/ Drop(t) \/ WorkerStep(t) PROVE Execute(s)
  <2>1. CASE Execute(t)
    <3>1. t = s BY <2>1 DEF Execute, Opened, TypeOK
    <3> QED BY <2>1, <3>1
  <2>2. CASE Take(t) \/ RefuseStale(t) \/ SkipConcurrent(t)
    <3>1. PICK n : run' = [run EXCEPT ![t] = n] /\ n.pc \in {"check", "done"}
      <4>1. \A fresh : [NoRun EXCEPT !.pc = "check", !.fresh = fresh, !.rev = registered].pc = "check"
        BY DEF NoRun
      <4>2. \A c : Done(t, c).pc = "done" BY DEF Done, NoRun
      <4> QED BY <2>2, <4>1, <4>2 DEF Take, RefuseStale, SkipConcurrent
    <3> QED BY <3>1 DEF TypeOK
  <2>3. CASE Drop(t) BY <2>3, <1>1 DEF Drop
  <2>4. CASE Complete(t)
    <3> DEFINE left == [run EXCEPT ![t] = NoRun]
    <3>1. left \in [Runners -> RunState] BY Constants DEF TypeOK
    <3>2. Like(run'[s], left[s])
      BY <2>4, <3>1, ReplaceFacts, CancelFacts DEF Complete, Like
    <3> QED BY <3>1, <3>2 DEF Like, NoRun, TypeOK
  <2> QED BY <1>2, <2>1, <2>2, <2>3, <2>4 DEF WorkerStep
<1>3. ASSUME NEW r \in Runners, RunStep(r) \/ RunWriteFails(r) PROVE FALSE
  <2>1. CASE Answer(r) BY <2>1 DEF Answer, TypeOK
  <2>2. CASE Latest(r) BY <2>2 DEF Latest, TypeOK
  <2>0. CASE \E x \in Inside \ {"asking"} : run' = [run EXCEPT ![r].pc = x]
    BY <2>0 DEF TypeOK
  <2>3. CASE Disable(r) BY <2>0, <2>3 DEF Disable, Inside
  <2>4. CASE Leave(r) BY <2>4 DEF Leave, Done, NoRun, TypeOK
  <2>5. CASE RecordRun(r) BY <2>0, <2>4, <2>5 DEF RecordRun, Inside
  <2>6. CASE RunWritten(r) BY <2>0, <2>4, <2>6 DEF RunWritten, Inside
  <2>7. CASE RunWriteFails(r) BY <2>4, <2>7 DEF RunWriteFails
  <2> QED BY <1>3, <2>1, <2>2, <2>3, <2>5, <2>6, <2>7 DEF RunStep
<1>4. ASSUME NEW m \in Manual, RunTaskNow(m) PROVE FALSE
  BY <1>4 DEF RunTaskNow, Opened, TypeOK
<1>5. ASSUME NEW q \in Requests,
             Request(q) \/ RequestStep(q) \/ RequestWriteFails(q) \/ ApplyFails(q)
      PROVE  Execute(s)
  BY <1>1, <1>5 DEF Request, Create, Update, Delete, RequestStep, RequestWritten, Apply,
                   RequestWriteFails, ApplyFails
<1>6. CASE Move \/ MoverFails \/ Tick \/ Watch \/ WatchFails \/ Register
  BY <1>1, <1>6 DEF Move, FindDue, ReadParked, DropUnparked, AddToStream, Unpark, Unqueue,
                   MarkQueued, MoverFails, MoverOnly, Tick, Watch, Snapshot, Known,
                   CancelOrphan, Inspect, Reschedule, WatchFails, WatchOnly, Register
<1>7. CASE Crash BY <1>7 DEF Crash, NoRun
<1>8. CASE Start BY <1>1, <1>8 DEF Start
<1> QED BY <1>2, <1>3, <1>4, <1>5, <1>6, <1>7, <1>8 DEF Next, Running, Fails

\* Only the end of a run disables a definition and leaves its revision.
LEMMA DisablingStep ==
  ASSUME IInv, Next, task'.rev = task.rev, task.enabled, ~task'.enabled
  PROVE  \E r \in Runners : Disable(r) /\ Disables(r)
<1> USE DEF store
<1> TypeOK /\ task.rev \in Nat \ {0} BY DEF IInv, TypeOK, Definition
<1>1. task' # task OBVIOUS
<1>2. ASSUME NEW t \in Slots, Take(t) \/ Drop(t) \/ WorkerStep(t) PROVE FALSE
  BY <1>1, <1>2 DEF Take, Drop, WorkerStep, Execute, RefuseStale, SkipConcurrent, Complete, Look
<1>3. ASSUME NEW r \in Runners, RunStep(r) \/ RunWriteFails(r)
      PROVE  Disable(r) /\ Disables(r)
  <2>1. CASE Answer(r) \/ Latest(r) \/ RecordRun(r) \/ RunWritten(r) \/ RunWriteFails(r)
    BY <1>1, <2>1 DEF Answer, Latest, RecordRun, RunWritten, RunWriteFails, Look, Change,
                     Written, WriteFails
  <2>2. CASE Disable(r) BY <1>1, <2>2 DEF Disable, Look
  <2> QED BY <1>3, <2>1, <2>2 DEF RunStep
<1>4. ASSUME NEW m \in Manual, RunTaskNow(m) PROVE FALSE
  BY <1>1, <1>4 DEF RunTaskNow, Look
<1>5. ASSUME NEW q \in Requests,
             Request(q) \/ RequestStep(q) \/ RequestWriteFails(q) \/ ApplyFails(q)
      PROVE  FALSE
  <2>1. CASE Create(q)
    BY <2>1 DEF Create, IInv, CreatedOK
  <2>2. CASE Update(q) BY <2>2 DEF Update, Change
  <2>3. CASE Delete(q) BY <2>3 DEF Delete, Change, NoTask
  <2>4. CASE RequestStep(q) \/ RequestWriteFails(q) \/ ApplyFails(q)
    BY <1>1, <2>4 DEF RequestStep, RequestWritten, Apply, RequestWriteFails, ApplyFails,
                     Written, WriteFails
  <2> QED BY <1>5, <2>1, <2>2, <2>3, <2>4 DEF Request
<1>6. CASE Move \/ MoverFails \/ Tick \/ Watch \/ WatchFails \/ Register
  BY <1>1, <1>6 DEF Move, FindDue, ReadParked, DropUnparked, AddToStream, Unpark, Unqueue,
                   MarkQueued, MoverFails, MoverOnly, Tick, Watch, Snapshot, Known,
                   CancelOrphan, Inspect, Reschedule, WatchFails, WatchOnly, Register
<1>7. CASE Crash BY <1>7 DEF Crash, NoTask
<1>8. CASE Start BY <1>8 DEF Start, IInv, DownOK, NoTask
<1> QED BY <1>2, <1>3, <1>4, <1>5, <1>6, <1>7, <1>8 DEF Next, Running, Fails

LEMMA TypeWithInv == Spec => []IInv /\ [][Next]_vars
BY InvHolds, PTL DEF Spec

\* A one-shot revision is run by the worker at most once between two starts.
THEOREM OneShotsRunOnce == Spec => OneShotOnce
<1> DEFINE Step == \A s \in Slots :
                     Kind = "oneshot" /\ run[s].pc # "asking" /\ run'[s].pc = "asking"
                       => run'[s].rev \notin once
<1>1. IInv /\ [Next]_vars => [Step]_vars
  <2> SUFFICES ASSUME IInv, Next, NEW s \in Slots, Kind = "oneshot",
                      run[s].pc # "asking", run'[s].pc = "asking"
               PROVE  run'[s].rev \notin once
    OBVIOUS
  <2>1. Execute(s) BY AskingStarts DEF IInv
  <2>2. task.rev = run[s].rev /\ task.enabled /\ ~running /\ run'[s].rev = run[s].rev
    BY <2>1, Actors DEF Execute, Current, Excluded, Opened, IInv, TypeOK, RunState
  <2> QED BY <2>2 DEF IInv, OnceOK, Working, RunsOK, Inside
<1> QED BY <1>1, TypeWithInv, PTL DEF OneShotOnce

\* The end of a run disables no revision but its own.
THEOREM RunsRetireThemselves == Spec => RetiresOnlyItself
<1> DEFINE Step == task'.rev = task.rev /\ task.enabled /\ ~task'.enabled => task.rev \in once
<1>1. IInv /\ [Next]_vars => [Step]_vars
  <2> SUFFICES ASSUME IInv, Next, task'.rev = task.rev, task.enabled, ~task'.enabled
               PROVE  task.rev \in once
    OBVIOUS
  <2>1. PICK r \in Runners : Disable(r) /\ Disables(r) BY DisablingStep
  <2>2. r \in Slots /\ run[r].rev \in once
    BY <2>1 DEF Disable, IInv, RunsOK, Runners, Inside
  <2> QED BY <2>1, <2>2 DEF Disables, Current
<1> QED BY <1>1, TypeWithInv, PTL DEF RetiresOnlyItself
=============================================================================
