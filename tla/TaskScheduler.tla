---------------------------- MODULE TaskScheduler ----------------------------
(***************************************************************************)
(* One scheduled agent task of app/runtime/scheduler.py: its definition in  *)
(* the task store (memory, lock and file of task_store.py), its function    *)
(* and its execution in Docket, the loop that moves a due execution to the  *)
(* stream in several Redis calls, the runs of the worker and of             *)
(* run_task_now, the gate of task_runtime_state.py, and the watchdog that   *)
(* compares the store with Docket.  A task's executions share one key.      *)
(* Docket and Redis are external: modelled by what the scheduler calls.     *)
(***************************************************************************)
EXTENDS Naturals, FiniteSets

CONSTANTS
  None,          \* nobody
  Slots,         \* executions the worker runs at a time
  Manual,        \* run_task_now requests
  Requests,      \* create_task, update_task and delete_task requests
  Kind,          \* the schedule: "cron", "repeat" or "oneshot"
  Redis,         \* PB_DOCKET_URL: Docket's state outlives the process
  Generations,   \* Docket knows the messages of superseded schedules
  MaxRevision,   \* bound: revisions of the definition
  MaxStream,     \* bound: messages of the key in the stream
  MaxFailures,   \* bound: failing Redis calls and file writes
  MaxCrashes     \* bound: restarts of the process

ASSUME SchedulerAssumption ==
  /\ Slots \cap Manual = {} /\ (Slots \cup Manual) \cap Requests = {}
  /\ None \notin Slots \cup Manual \cup Requests
  /\ IsFiniteSet(Slots)
  /\ Kind \in {"cron", "repeat", "oneshot"}
  /\ Redis \in BOOLEAN /\ Generations \in BOOLEAN
  /\ MaxRevision \in Nat \ {0} /\ MaxStream \in Nat
  /\ MaxFailures \in Nat /\ MaxCrashes \in Nat

Runners == Slots \cup Manual

VARIABLES
  task,        \* the definition in memory; revision 0: there is none
  file,        \* the store's file; not ok: truncated
  lock,        \* who holds the store's lock while writing the file
  created,     \* the task has been created; its id is never used again
  registered,  \* revision of the closure registered under the function name
  docket,      \* Docket's record of the key
  stream,      \* messages of the key: of the latest schedule, and superseded
  mover,       \* _scheduler_loop
  run,         \* the runs
  request,     \* the requests
  watch,       \* _watchdog and _reconcile_tasks
  running,     \* the task is in _running_tasks
  gate,        \* the forbidden actions of the task's goal are in force
  up,          \* the process runs
  failures, crashes,
  once,        \* history: revisions the worker ran since the last start
  retired      \* history: revisions whose end the file has recorded

vars == <<task, file, lock, created, registered, docket, stream, mover, run, request,
          watch, running, gate, up, failures, crashes, once, retired>>

store == <<task, file, lock, created>>
execution == <<docket, stream, mover>>
marks == <<running, gate, once, retired>>
process == <<up, crashes>>

Definition == [rev : 0 .. MaxRevision, enabled : BOOLEAN]
NoTask == [rev |-> 0, enabled |-> FALSE]

Terminal == {"none", "completed", "cancelled"}
DocketRecord == [state : Terminal \cup {"scheduled", "queued", "running"},
                 when : {"future", "due", "overdue"}, parked : BOOLEAN, queued : BOOLEAN]
Forgotten == [state |-> "none", when |-> "future", parked |-> FALSE, queued |-> FALSE]

\* From the running set's mark to the record of the run.
Inside == {"asking", "latest", "disabling", "disabled", "recording", "recorded"}
RunState == [pc : {"idle", "check", "done"} \cup Inside, rev : 0 .. MaxRevision,
             fresh : BOOLEAN, cancelled : BOOLEAN, action : {"continue", "cancel"}]
NoRun == [pc |-> "idle", rev |-> 0, fresh |-> FALSE, cancelled |-> FALSE,
          action |-> "continue"]

RequestState == [pc : {"idle", "writing", "docket"},
                 what : {"create", "update", "delete"}, def : Definition]
NoRequest == [pc |-> "idle", what |-> "create", def |-> NoTask]

MoverState == [pc : {"idle", "seen", "read", "added", "unparked", "moved"}, fresh : BOOLEAN]
AtRest == [pc |-> "idle", fresh |-> FALSE]

WatchState == [pc : {"boot", "idle", "known", "orphan", "inspect", "add", "replace"},
               active : BOOLEAN, def : Definition]
Unwatched == [pc |-> "idle", active |-> FALSE, def |-> NoTask]

Init ==
  /\ task = NoTask
  /\ file = [ok |-> TRUE, def |-> NoTask]
  /\ lock = None /\ created = FALSE
  /\ registered = 0
  /\ docket = Forgotten
  /\ stream = [fresh |-> 0, stale |-> 0]
  /\ mover = AtRest
  /\ run = [r \in Runners |-> NoRun]
  /\ request = [q \in Requests |-> NoRequest]
  /\ watch = Unwatched
  /\ running = FALSE /\ gate = FALSE /\ up = TRUE
  /\ failures = 0 /\ crashes = 0
  /\ once = {} /\ retired = {}

-----------------------------------------------------------------------------
(* Docket.  A new schedule supersedes every earlier message and run, but a   *)
(* message that the mover has put into the stream is out of Docket's reach.  *)

Scheduled == [state |-> "scheduled", when |-> "future", parked |-> TRUE, queued |-> TRUE]

Superseded(runs) == [r \in Runners |-> [runs[r] EXCEPT !.fresh = FALSE]]

\* docket.replace, with the runs as they are after the rest of the step
Replace(runs) ==
  /\ docket' = Scheduled
  /\ stream' = [fresh |-> 0, stale |-> stream.fresh + stream.stale]
  /\ mover' = [mover EXCEPT !.fresh = FALSE]
  /\ run' = Superseded(runs)

\* docket.add leaves a key that is on its way already as it is.
Add(runs) ==
  \/ docket.state \in Terminal /\ Replace(runs)
  \/ docket.state \notin Terminal /\ run' = runs /\ UNCHANGED execution

Cancel(runs) ==
  /\ docket' = [docket EXCEPT !.state = IF @ = "none" THEN @ ELSE "cancelled",
                              !.parked = FALSE, !.queued = FALSE]
  /\ run' = runs
  /\ UNCHANGED <<stream, mover>>

\* The worker is slow only while all its slots are taken.
Waiting == stream.fresh + stream.stale > 0 /\ \E s \in Slots : run[s].pc = "idle"

\* The execution becomes due; five minutes pass, _stuck_execution_grace, which
\* is longer than a mover that is alive needs to find what is due and the worker
\* to take it (a mover that is not is restarted after _heartbeat_stale_after).
Tick ==
  /\ docket.state \notin Terminal
  /\ \/ docket.when = "future" /\ docket' = [docket EXCEPT !.when = "due"]
     \/ /\ docket.when = "due" /\ ~docket.queued /\ mover.pc = "idle" /\ ~Waiting
        /\ docket' = [docket EXCEPT !.when = "overdue"]
  /\ UNCHANGED <<store, registered, stream, mover, run, request, watch, marks, process, failures>>

-----------------------------------------------------------------------------
(* PillbugWorker._scheduler_loop: every Redis call is awaited.              *)

Moves(from, to) == mover.pc = from /\ mover' = [mover EXCEPT !.pc = to]

MoverOnly == UNCHANGED <<store, registered, run, request, watch, marks, process, failures>>

FindDue ==
  /\ docket.queued /\ docket.when # "future"
  /\ Moves("idle", "seen")
  /\ UNCHANGED <<docket, stream>> /\ MoverOnly

ReadParked ==
  /\ docket.parked
  /\ mover.pc = "seen" /\ mover' = [pc |-> "read", fresh |-> TRUE]
  /\ UNCHANGED <<docket, stream>> /\ MoverOnly

\* Nothing is parked under the key: zrem.
DropUnparked ==
  /\ ~docket.parked
  /\ Moves("seen", "idle")
  /\ docket' = [docket EXCEPT !.queued = FALSE]
  /\ UNCHANGED stream /\ MoverOnly

AddToStream ==
  /\ stream.fresh + stream.stale < MaxStream
  /\ Moves("read", "added")
  /\ stream' = IF mover.fresh THEN [stream EXCEPT !.fresh = @ + 1]
                              ELSE [stream EXCEPT !.stale = @ + 1]
  /\ UNCHANGED docket /\ MoverOnly

Unpark ==
  /\ Moves("added", "unparked")
  /\ docket' = [docket EXCEPT !.parked = FALSE]
  /\ UNCHANGED stream /\ MoverOnly

Unqueue ==
  /\ Moves("unparked", "moved")
  /\ docket' = [docket EXCEPT !.queued = FALSE]
  /\ UNCHANGED stream /\ MoverOnly

MarkQueued ==
  /\ Moves("moved", "idle")
  /\ docket' = [docket EXCEPT !.state = "queued"]
  /\ UNCHANGED stream /\ MoverOnly

\* A Redis call raises, or the watchdog restarts a stalled worker: the loop
\* starts over.
MoverFails ==
  /\ mover.pc # "idle" /\ mover' = AtRest
  /\ failures < MaxFailures /\ failures' = failures + 1
  /\ UNCHANGED <<store, registered, docket, stream, run, request, watch, marks, process>>

Move == \/ FindDue \/ ReadParked \/ DropUnparked \/ AddToStream
        \/ Unpark \/ Unqueue \/ MarkQueued

-----------------------------------------------------------------------------
(* TaskStore: the lock is free for a look, or it is held from the change of  *)
(* the definition until the file is written.                                *)

Look == lock = None /\ UNCHANGED <<task, file, lock>>

Change(who, def) ==
  /\ lock = None /\ lock' = who
  /\ task' = def
  /\ UNCHANGED file

Written(who) ==
  /\ lock = who /\ lock' = None
  /\ file' = [ok |-> TRUE, def |-> task]
  /\ UNCHANGED <<task, failures>>

\* Variant: an exception keeps the lock.
WriteFails_KeepsLock(who) ==
  /\ lock = who /\ UNCHANGED <<task, lock>>
  /\ failures < MaxFailures /\ failures' = failures + 1
  /\ file' \in {file, [ok |-> FALSE, def |-> NoTask]}

\* The file is as it was, or open(..., "w") has truncated it.
WriteFails(who) ==
  /\ lock = who /\ lock' = None
  /\ failures < MaxFailures /\ failures' = failures + 1
  /\ file' \in {file, [ok |-> FALSE, def |-> NoTask]}
  /\ UNCHANGED task

-----------------------------------------------------------------------------
(* Runs.                                                                    *)

\* The worker calls the closure registered by now, whatever the message meant.
Take(s) ==
  /\ run[s].pc = "idle" /\ registered # 0
  /\ \E fresh \in BOOLEAN :
       /\ \/ fresh /\ stream.fresh > 0 /\ stream' = [stream EXCEPT !.fresh = @ - 1]
          \/ /\ ~fresh /\ ~Generations
             /\ stream.stale > 0 /\ stream' = [stream EXCEPT !.stale = @ - 1]
       /\ run' = [run EXCEPT ![s] = [NoRun EXCEPT !.pc = "check", !.fresh = fresh,
                                                  !.rev = registered]]
  /\ docket' = [docket EXCEPT !.state = "running"]
  /\ UNCHANGED <<store, registered, mover, request, watch, marks, process, failures>>

\* A superseded or cancelled message, or one without a function, is dropped.
Drop(s) ==
  /\ run[s].pc = "idle"
  /\ \/ /\ stream.fresh > 0 /\ (registered = 0 \/ docket.state = "cancelled")
        /\ stream' = [stream EXCEPT !.fresh = @ - 1]
        /\ docket' = [docket EXCEPT !.state = IF registered = 0 THEN "completed" ELSE @]
     \/ /\ stream.stale > 0 /\ (registered = 0 \/ Generations)
        /\ stream' = [stream EXCEPT !.stale = @ - 1]
        /\ UNCHANGED docket
  /\ UNCHANGED <<store, registered, mover, run, request, watch, marks, process, failures>>

RunOnly == UNCHANGED <<created, registered, execution, request, watch, process>>

\* Variant: a disabled definition is not refused.
Current_Revision(rev) == task.rev = rev

Current(rev) == task.rev = rev /\ task.enabled

\* Variant: the running set is not consulted.
Excluded_Never == FALSE

Excluded == running

Opened(r, rev) ==
  /\ gate' = TRUE
  /\ run' = [run EXCEPT ![r] = [@ EXCEPT !.pc = "asking", !.rev = rev]]

\* What is left of a run for Docket
Done(s, cancelled) == [NoRun EXCEPT !.pc = "done", !.fresh = run[s].fresh,
                                    !.cancelled = cancelled]

\* execute_registered_task up to the model call of _run_task_definition
Execute(s) ==
  /\ run[s].pc = "check" /\ Look
  /\ Current(run[s].rev) /\ ~Excluded
  /\ running' = TRUE
  /\ Opened(s, run[s].rev)
  /\ once' = once \cup {run[s].rev}
  /\ UNCHANGED <<retired, failures>> /\ RunOnly

\* The definition is gone, disabled or of another revision.
RefuseStale(s) ==
  /\ run[s].pc = "check" /\ Look
  /\ ~Current(run[s].rev)
  /\ run' = [run EXCEPT ![s] = Done(s, TRUE)]
  /\ UNCHANGED <<marks, failures>> /\ RunOnly

SkipConcurrent(s) ==
  /\ run[s].pc = "check" /\ Look
  /\ Current(run[s].rev) /\ Excluded
  /\ run' = [run EXCEPT ![s] = Done(s, FALSE)]
  /\ UNCHANGED <<marks, failures>> /\ RunOnly

\* A disabled task can be run, and so can one that is running.
RunTaskNow(m) ==
  /\ run[m].pc = "idle" /\ Look
  /\ task.rev # 0
  /\ Opened(m, task.rev)
  /\ UNCHANGED <<running, once, retired, failures>> /\ RunOnly

\* _parse_task_response; a failure, a timeout or a cancelled run leaves
\* _default_task_action, which is one of these.
Answers == CASE Kind = "cron"    -> {"continue"}
             [] Kind = "oneshot" -> {"cancel"}
             [] Kind = "repeat"  -> {"continue", "cancel"}

\* The session is closed and the forbidden actions are cleared.
Answer(r) ==
  /\ run[r].pc = "asking"
  /\ \E a \in Answers : run' = [run EXCEPT ![r] = [@ EXCEPT !.pc = "latest", !.action = a]]
  /\ gate' = FALSE
  /\ UNCHANGED <<store, running, once, retired, failures>> /\ RunOnly

\* Variant: only repeating tasks are ended.
Ending_RepeatOnly(r) == r \in Slots /\ Kind = "repeat" /\ run[r].action = "cancel"

\* A delayed task that the worker ran and whose action is "cancel"
Ending(r) == r \in Slots /\ Kind # "cron" /\ run[r].action = "cancel"

Latest(r) ==
  /\ run[r].pc = "latest" /\ Look
  /\ run' = [run EXCEPT ![r] =
               [@ EXCEPT !.pc = IF Ending(r) THEN "disabling" ELSE "recording",
                         !.cancelled = r \in Slots /\ (Ending(r) \/ ~Current(run[r].rev)),
                         !.action = "continue"]]
  /\ UNCHANGED <<marks, failures>> /\ RunOnly

\* Out of execute_registered_task, with or without an exception
Leave(r) ==
  /\ run' = [run EXCEPT ![r] = IF r \in Slots THEN Done(r, @.cancelled) ELSE NoRun]
  /\ running' = (running /\ r \notin Slots)

\* Variant: whatever revision is current is disabled.
Disables_Any(r) == task.enabled

Disables(r) == Current(run[r].rev)

Disable(r) ==
  /\ run[r].pc = "disabling"
  /\ \/ /\ Disables(r)
        /\ Change(r, [task EXCEPT !.enabled = FALSE])
        /\ run' = [run EXCEPT ![r].pc = "disabled"]
     \/ /\ ~Disables(r)
        /\ Look
        /\ run' = [run EXCEPT ![r].pc = "recording"]
  /\ UNCHANGED <<marks, failures>> /\ RunOnly

\* The run is recorded in the definition it belongs to.
RecordRun(r) ==
  /\ run[r].pc = "recording"
  /\ \/ /\ task.rev = run[r].rev
        /\ Change(r, task)
        /\ run' = [run EXCEPT ![r].pc = "recorded"]
        /\ UNCHANGED running
     \/ task.rev # run[r].rev /\ Look /\ Leave(r)
  /\ UNCHANGED <<gate, once, retired, failures>> /\ RunOnly

RunWritten(r) ==
  /\ Written(r)
  /\ \/ /\ run[r].pc = "disabled"
        /\ run' = [run EXCEPT ![r].pc = "recording"]
        /\ retired' = retired \cup {run[r].rev}
        /\ UNCHANGED running
     \/ run[r].pc = "recorded" /\ Leave(r) /\ UNCHANGED retired
  /\ UNCHANGED <<gate, once>> /\ RunOnly

RunWriteFails(r) ==
  /\ run[r].pc \in {"disabled", "recorded"}
  /\ WriteFails(r)
  /\ Leave(r)
  /\ UNCHANGED <<gate, once, retired>> /\ RunOnly

\* Docket completes the execution: it schedules the next one, unless the run
\* cancelled it.  A superseded run changes nothing if Docket knows that it is.
Complete(s) ==
  /\ run[s].pc = "done"
  /\ LET left == [run EXCEPT ![s] = NoRun]
     IN  \/ /\ run[s].fresh \/ ~Generations
            /\ \/ run[s].cancelled /\ Cancel(left)
               \/ ~run[s].cancelled /\ Replace(left)
         \/ ~run[s].fresh /\ Generations /\ run' = left /\ UNCHANGED execution
  /\ UNCHANGED <<store, registered, request, watch, marks, process, failures>>

RunStep(r) == \/ Answer(r) \/ Latest(r) \/ Disable(r) \/ RecordRun(r)
              \/ RunWritten(r)

WorkerStep(s) == Execute(s) \/ RefuseStale(s) \/ SkipConcurrent(s) \/ Complete(s)

-----------------------------------------------------------------------------
(* Requests of tools and of the control API.                                *)

RequestOnly == UNCHANGED <<marks, watch, process>>

Create(q) ==
  /\ request[q].pc = "idle" /\ ~created
  /\ created' = TRUE
  /\ \E enabled \in BOOLEAN :
       LET def == [rev |-> 1, enabled |-> enabled]
       IN  /\ Change(q, def)
           /\ request' = [request EXCEPT ![q] = [pc |-> "writing", what |-> "create", def |-> def]]
  /\ UNCHANGED <<registered, execution, run, failures>> /\ RequestOnly

\* update_task, and enable_task and disable_task which call it
Update(q) ==
  /\ request[q].pc = "idle"
  /\ task.rev \in 1 .. MaxRevision - 1
  /\ \E enabled \in BOOLEAN :
       LET def == [rev |-> task.rev + 1, enabled |-> enabled]
       IN  /\ Change(q, def)
           /\ request' = [request EXCEPT ![q] = [pc |-> "writing", what |-> "update", def |-> def]]
  /\ UNCHANGED <<created, registered, execution, run, failures>> /\ RequestOnly

Delete(q) ==
  /\ request[q].pc = "idle"
  /\ task.rev # 0
  /\ Change(q, NoTask)
  /\ request' = [request EXCEPT ![q] = [pc |-> "writing", what |-> "delete", def |-> task]]
  /\ UNCHANGED <<created, registered, execution, run, failures>> /\ RequestOnly

RequestWritten(q) ==
  /\ request[q].pc = "writing"
  /\ Written(q)
  /\ request' = [request EXCEPT ![q].pc = "docket"]
  /\ UNCHANGED <<created, registered, execution, run>> /\ RequestOnly

\* The caller gets the exception; the definition in memory stays changed.
RequestWriteFails(q) ==
  /\ request[q].pc = "writing"
  /\ WriteFails(q)
  /\ request' = [request EXCEPT ![q] = NoRequest]
  /\ UNCHANGED <<created, registered, execution, run>> /\ RequestOnly

\* Two requests may come here in the other order than to the store.
Apply(q) ==
  LET what == request[q].what  def == request[q].def
  IN  /\ request[q].pc = "docket"
      /\ registered' = IF what = "delete" THEN registered ELSE def.rev
      /\ \/ what = "create" /\ def.enabled /\ Add(run)
         \/ what = "update" /\ def.enabled /\ Replace(run)
         \/ (what = "delete" \/ (what = "update" /\ ~def.enabled)) /\ Cancel(run)
         \/ what = "create" /\ ~def.enabled /\ UNCHANGED <<execution, run>>
      /\ request' = [request EXCEPT ![q] = NoRequest]
      /\ UNCHANGED <<store, failures>> /\ RequestOnly

\* Docket raises: the function is registered, the execution is as it was.
ApplyFails(q) ==
  /\ request[q].pc = "docket"
  /\ registered' = IF request[q].what = "delete" THEN registered ELSE request[q].def.rev
  /\ failures < MaxFailures /\ failures' = failures + 1
  /\ request' = [request EXCEPT ![q] = NoRequest]
  /\ UNCHANGED <<store, execution, run>> /\ RequestOnly

-----------------------------------------------------------------------------
(* The watchdog: _reconcile_tasks and what it calls.                        *)

WatchOnly == UNCHANGED <<store, request, marks, process, failures>>

\* docket.snapshot
Snapshot ==
  /\ watch.pc = "idle"
  /\ watch' = [watch EXCEPT !.pc = "known", !.active = docket.state \notin Terminal]
  /\ UNCHANGED <<registered, execution, run>> /\ WatchOnly

\* The store's definitions, copied under its lock; disabled ones are passed over.
Known ==
  /\ watch.pc = "known" /\ lock = None
  /\ watch' = CASE task.rev = 0 /\ watch.active -> [Unwatched EXCEPT !.pc = "orphan"]
                [] task.enabled -> [Unwatched EXCEPT !.pc = "inspect", !.def = task]
                [] OTHER -> Unwatched
  /\ UNCHANGED <<registered, execution, run>> /\ WatchOnly

CancelOrphan ==
  /\ watch.pc = "orphan" /\ watch' = Unwatched
  /\ Cancel(run)
  /\ UNCHANGED registered /\ WatchOnly

Missing == docket.state \in Terminal

\* Variant: an overdue execution is waited for.
Stuck_Never == FALSE

Stuck == docket.state \in {"scheduled", "queued"} /\ docket.when = "overdue"

\* get_execution and sync
Inspect ==
  /\ watch.pc = "inspect"
  /\ watch' = CASE Missing -> [watch EXCEPT !.pc = "add"]
                [] Stuck   -> [watch EXCEPT !.pc = "replace"]
                [] OTHER   -> Unwatched
  /\ UNCHANGED <<registered, execution, run>> /\ WatchOnly

\* _schedule_task, with the definition copied earlier
Reschedule ==
  /\ \/ watch.pc = "add" /\ Add(run)
     \/ watch.pc = "replace" /\ Replace(run)
  /\ registered' = watch.def.rev
  /\ watch' = Unwatched
  /\ WatchOnly

\* A call of the pass raises: the rest of it is suppressed.
WatchFails ==
  /\ watch.pc \notin {"idle", "boot"} /\ watch' = Unwatched
  /\ registered' = IF watch.pc \in {"add", "replace"} THEN watch.def.rev ELSE registered
  /\ failures < MaxFailures /\ failures' = failures + 1
  /\ UNCHANGED <<store, execution, run, request, marks, process>>

Watch == Snapshot \/ Known \/ CancelOrphan \/ Inspect \/ Reschedule

-----------------------------------------------------------------------------
(* Restarts.                                                                *)

Redelivered(fresh) == Cardinality({s \in Slots : run[s].pc # "idle" /\ run[s].fresh = fresh})

\* The process ends.  Redis delivers the messages of the open runs again.
Crash ==
  /\ crashes < MaxCrashes /\ crashes' = crashes + 1
  /\ up' = FALSE
  /\ task' = NoTask /\ lock' = None
  /\ file' \in IF lock = None THEN {file}
               ELSE {file, [ok |-> FALSE, def |-> NoTask], [ok |-> TRUE, def |-> task]}
  /\ registered' = 0
  /\ docket' = IF Redis THEN docket ELSE Forgotten
  /\ stream' = IF Redis THEN [fresh |-> stream.fresh + Redelivered(TRUE),
                              stale |-> stream.stale + Redelivered(FALSE)]
                        ELSE [fresh |-> 0, stale |-> 0]
  /\ mover' = AtRest
  /\ run' = [r \in Runners |-> NoRun]
  /\ request' = [q \in Requests |-> NoRequest]
  /\ watch' = [Unwatched EXCEPT !.pc = "boot"]
  /\ running' = FALSE /\ gate' = FALSE
  /\ once' = {}
  /\ UNCHANGED <<created, retired, failures>>

\* ensure_started: a file that does not parse ends the start; the worker runs
\* from here on.
Start ==
  /\ ~up /\ up' = TRUE
  /\ file.ok /\ task' = file.def
  /\ UNCHANGED <<file, lock, created, registered, execution, run, request, watch, marks,
                 failures, crashes>>

\* The tasks' functions are registered, then the store is compared with Docket.
Register ==
  /\ watch.pc = "boot" /\ watch' = Unwatched
  /\ registered' = IF task.rev = 0 THEN registered ELSE task.rev
  /\ UNCHANGED <<execution, run>> /\ WatchOnly

-----------------------------------------------------------------------------
Request(q) == Create(q) \/ Update(q) \/ Delete(q)
RequestStep(q) == RequestWritten(q) \/ Apply(q)

Fails == \/ MoverFails \/ WatchFails
         \/ \E r \in Runners : RunWriteFails(r)
         \/ \E q \in Requests : RequestWriteFails(q) \/ ApplyFails(q)

Running ==
  \/ Tick \/ Move \/ Watch \/ Register \/ Fails
  \/ \E s \in Slots : Take(s) \/ Drop(s) \/ WorkerStep(s)
  \/ \E m \in Manual : RunTaskNow(m)
  \/ \E r \in Runners : RunStep(r)
  \/ \E q \in Requests : Request(q) \/ RequestStep(q)

Next == Start \/ (up /\ (Running \/ Crash))

\* The loops and tasks run on; asyncio.Lock serves its waiters in order; a model
\* call ends by its timeout; each message of the stream is delivered.
Fairness ==
  /\ WF_vars(up /\ Tick) /\ WF_vars(up /\ Move) /\ WF_vars(up /\ Register)
  /\ SF_vars(up /\ Watch)
  /\ \A s \in Slots : WF_vars(up /\ (Take(s) \/ Drop(s))) /\ SF_vars(up /\ WorkerStep(s))
  /\ \A r \in Runners : SF_vars(up /\ RunStep(r))
  /\ \A q \in Requests : WF_vars(up /\ RequestStep(q))

Spec == Init /\ [][Next]_vars
FairSpec == Spec /\ Fairness

-----------------------------------------------------------------------------
(* Properties.                                                              *)

\* Types.  The store's lock is held exactly by those whose file write is open
\* (task_store.py:20-76), and a definition without a revision is not there.
TypeOK ==
  /\ task \in Definition /\ (task.rev = 0 => ~task.enabled)
  /\ file \in [ok : BOOLEAN, def : Definition] /\ (file.def.rev = 0 => ~file.def.enabled)
  /\ lock \in Runners \cup Requests \cup {None}
  /\ \A r \in Runners : lock = r <=> run[r].pc \in {"disabled", "recorded"}
  /\ \A q \in Requests : lock = q <=> request[q].pc = "writing"
  /\ created \in BOOLEAN
  /\ registered \in 0 .. MaxRevision
  /\ docket \in DocketRecord
  /\ stream \in [fresh : Nat, stale : Nat]
  /\ mover \in MoverState
  /\ run \in [Runners -> RunState]
  /\ request \in [Requests -> RequestState]
  /\ watch \in WatchState
  /\ running \in BOOLEAN /\ gate \in BOOLEAN /\ up \in BOOLEAN
  /\ failures \in 0 .. MaxFailures /\ crashes \in 0 .. MaxCrashes
  /\ once \subseteq 1 .. MaxRevision
  /\ retired \subseteq 0 .. MaxRevision

\* The worker never runs a task twice at a time, although an update, the
\* watchdog's replace and a redelivery put second messages into the stream and
\* the mover may call a running execution queued (scheduler.py:675-703).
NoOverlap ==
  \A s, t \in Slots : run[s].pc \in Inside /\ run[t].pc \in Inside => s = t

\* A one-shot revision is run by the worker once between two starts of the
\* process, whatever duplicates, stale closures and watchdog passes that read
\* the definition before it was disabled bring back (scheduler.py:681-684).
OneShotOnce ==
  [][\A s \in Slots : Kind = "oneshot" /\ run[s].pc # "asking" /\ run'[s].pc = "asking"
       => run'[s].rev \notin once]_vars

\* Once the file says that a revision has ended, the worker never asks the
\* model for it again, over restarts too, when Redis still holds messages for
\* it (task_store.py:67-76).
NoRetiredRuns == \A s \in Slots : run[s].pc = "asking" => run[s].rev \notin retired

\* Only an update disables a revision that the worker has not run: the end of
\* an earlier revision's run does not disable the newer one (scheduler.py:788,
\* task_store.py:67-76).
RetiresOnlyItself ==
  [][task'.rev = task.rev /\ task.enabled /\ ~task'.enabled => task.rev \in once]_vars

\* While the model answers a run of the task, the forbidden actions of its goal
\* are in force (doc/CONFIGURATION.md:194, "gated for that run").
GateInForce == \A r \in Runners : run[r].pc = "asking" => gate

\* An enabled definition is run in its current revision, or disabled, although
\* the mover loses or overwrites schedules, calls of Docket and file writes fail
\* and stale closures are registered again (scheduler.py:287-328, 869-934).
EnabledRuns ==
  task.enabled ~> \/ ~task.enabled
                  \/ \E s \in Slots : run[s].pc = "asking" /\ run[s].rev = task.rev
=============================================================================
