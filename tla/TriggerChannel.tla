---------------------------- MODULE TriggerChannel ----------------------------
(***************************************************************************)
(* The trigger channel: events posted over HTTP are buffered per debounce  *)
(* key and flushed as one message when the window has passed without       *)
(* another; the reaction prompts live in a JSON file that the management   *)
(* tool rewrites under a lock and the server reads through a cache keyed   *)
(* by the file's modification time, without the lock.                      *)
(*   Flushing after the sleep has no await that suspends (the queue is     *)
(* unbounded), so it is one step.  A rewrite truncates the file, awaits,   *)
(* and writes it: a reader in between takes the file for an empty list, and *)
(* an error or a cancellation in between leaves it at that.                *)
(***************************************************************************)
EXTENDS Integers, Sequences, FiniteSets

CONSTANTS
    Posts,      \* what is posted: a set of [source, conversation, urgency]
    Configs,    \* source configs: a set of [prompt, override, fails], override
                \* an urgency or None, fails when prompt.format raises
    Ops,        \* tool calls, names
    Calls,      \* what they do: [Ops -> [kind, source, cfg]], kind "create",
                \* "update" or "delete"
    MaxEvents,  \* bound: accepted events
    MaxTicks    \* bound: ticks of the file system's clock

VARIABLES
    pending,    \* self._pending, <<>> for an absent key
    counts,     \* app.state.pending_counts, 0 for an absent key
    flush,      \* keys of self._flush_tasks
    queue,      \* self._queue: batches [key, events]
    listening,  \* listen() takes from the queue
    serving,    \* the HTTP server runs
    file,       \* the sources file: [Sources -> Configs or NoConfig]
    mtime, now, \* its modification time; the clock
    cached,     \* _load_trigger_source_configs_from_disk, by mtime:
                \* {} or what was read
    lock,       \* holder of _write_lock, or None
    op,         \* [Ops -> [pc, seen]]; "torn": it left a part of its text
    accepted,   \* history: the events, in order: [key, cfg]
    yielded,    \* history: batches handed to the loop
    lost,       \* history: numbers of events dropped by a failing format
    ledger      \* history: the sources after the calls so far, one by one: one
                \* that succeeded applied, one that broke off while writing
                \* left none

buffer == <<pending, counts, flush, queue, listening, serving, accepted, yielded, lost>>
store == <<file, mtime, now, lock, op, ledger>>
vars == <<buffer, store, cached>>

None == "none"
Sources == {p.source : p \in Posts} \cup {Calls[o].source : o \in Ops}
Urgencies == {p.urgency : p \in Posts} \cup ({c.override : c \in Configs} \ {None})
Keys == Sources \X {p.conversation : p \in Posts} \X Urgencies
NoConfig == [prompt |-> None, override |-> None, fails |-> FALSE]
File == [Sources -> Configs \cup {NoConfig}]
EmptyFile == [s \in Sources |-> NoConfig]
Batch == [key : Keys, events : Seq(1..MaxEvents)]
OpStates == {"asked", "read", "cut", "done", "failed", "torn"}

TypeOK ==
    /\ pending \in [Keys -> Seq([n : 1..MaxEvents, cfg : Configs \cup {NoConfig}])]
    /\ counts \in [Keys -> 0..MaxEvents] /\ flush \subseteq Keys
    /\ queue \in Seq(Batch) /\ yielded \in Seq(Batch)
    /\ listening \in BOOLEAN /\ serving \in BOOLEAN
    /\ file \in File /\ ledger \in File
    /\ mtime \in 0..now /\ now \in 0..MaxTicks
    /\ \A t \in 0..MaxTicks : cached[t] \subseteq File /\ Cardinality(cached[t]) <= 1
    /\ lock \in Ops \cup {None}
    /\ \A o \in Ops : op[o].pc \in OpStates /\ op[o].seen \in File
    /\ Len(accepted) <= MaxEvents /\ lost \subseteq 1..MaxEvents

Init ==
    /\ pending = [k \in Keys |-> <<>>] /\ counts = [k \in Keys |-> 0] /\ flush = {}
    /\ queue = <<>> /\ yielded = <<>> /\ listening = TRUE /\ serving = TRUE
    /\ file = EmptyFile /\ ledger = EmptyFile /\ mtime = 0 /\ now = 0
    /\ cached = [t \in 0..MaxTicks |-> {}]
    /\ lock = None /\ op = [o \in Ops |-> [pc |-> "asked", seen |-> EmptyFile]]
    /\ accepted = <<>> /\ lost = {}

-----------------------------------------------------------------------------
(* get_trigger_source_config_map: what was read at this mtime, else the    *)
(* file now, which is kept for this mtime.  Text that does not parse is no *)
(* source.                                                                 *)
LiveConfigs == IF cached[mtime] = {} THEN file ELSE CHOOSE f \in cached[mtime] : TRUE

Urgency(p, cfg) == IF cfg.override # None THEN cfg.override ELSE p.urgency
DebounceKey(p, cfg) == <<p.source, p.conversation, Urgency(p, cfg)>>

(* receive_trigger and _on_event: count the event, buffer it, and start    *)
(* the window of its key afresh.                                           *)
ReceiveTrigger(p) ==
    LET cfg == LiveConfigs[p.source]
        key == DebounceKey(p, cfg)
        n == Len(accepted) + 1
    IN  /\ serving /\ n <= MaxEvents
        /\ cached' = [cached EXCEPT ![mtime] = {LiveConfigs}]
        /\ counts' = [counts EXCEPT ![key] = @ + 1]
        /\ pending' = [pending EXCEPT ![key] = Append(@, [n |-> n, cfg |-> cfg])]
        /\ flush' = flush \cup {key}
        /\ accepted' = Append(accepted, [key |-> key, cfg |-> cfg])
        /\ UNCHANGED <<store, queue, listening, serving, yielded, lost>>

Numbers(s) == {s[i] : i \in DOMAIN s}
Buffer(k) == [i \in DOMAIN pending[k] |-> pending[k][i].n]

(* _flush_after_debounce, from the end of the sleep.  The config of the    *)
(* first event speaks for all; a prompt that does not format raises after  *)
(* the buffer has been emptied.                                            *)
Flush(k) ==
    LET cfg == Head(pending[k]).cfg IN
        /\ k \in flush
        /\ pending' = [pending EXCEPT ![k] = <<>>]
        /\ flush' = flush \ {k}
        /\ counts' = [counts EXCEPT ![k] = 0]
        /\ IF cfg.fails
           THEN lost' = lost \cup Numbers(Buffer(k)) /\ UNCHANGED queue
           ELSE queue' = Append(queue, [key |-> k, events |-> Buffer(k)]) /\ UNCHANGED lost
        /\ UNCHANGED <<store, cached, listening, serving, accepted, yielded>>

Yield ==
    /\ listening /\ queue # <<>>
    /\ queue' = Tail(queue) /\ yielded' = Append(yielded, Head(queue))
    /\ UNCHANGED <<store, cached, pending, counts, flush, listening, serving, accepted, lost>>

(* The loop cancels the listener, and later closes the channel: the flush  *)
(* tasks are cancelled, and then the server, which may still take an event *)
(* while it stops.                                                         *)
CancelListener ==
    /\ listening
    /\ listening' = FALSE
    /\ UNCHANGED <<store, cached, pending, counts, flush, queue, serving, accepted, yielded, lost>>

CancelFlushes ==
    /\ ~listening /\ serving /\ flush # {}
    /\ flush' = {}
    /\ UNCHANGED <<store, cached, pending, counts, queue, listening, serving, accepted, yielded, lost>>

StopServer ==
    /\ ~listening /\ serving
    /\ serving' = FALSE
    /\ UNCHANGED <<store, cached, pending, counts, flush, queue, listening, accepted, yielded, lost>>

-----------------------------------------------------------------------------
(* Variant: the file is read before the lock is asked for.                 *)
Acquire_Unlocked(o) ==
    /\ op[o].pc = "asked"
    /\ lock' = o
    /\ op' = [op EXCEPT ![o] = [pc |-> "read", seen |-> file]]
    /\ UNCHANGED <<buffer, cached, file, mtime, now, ledger>>

(* manage_trigger_sources: create, update and delete read the file, decide *)
(* and rewrite it, with the lock held throughout.                          *)
Acquire(o) ==
    /\ op[o].pc = "asked" /\ lock = None
    /\ lock' = o
    /\ op' = [op EXCEPT ![o] = [pc |-> "read", seen |-> file]]
    /\ UNCHANGED <<buffer, cached, file, mtime, now, ledger>>

Refused(c, sources) ==
    IF c.kind = "create" THEN sources[c.source] # NoConfig ELSE sources[c.source] = NoConfig

Applied(c, sources) ==
    [sources EXCEPT ![c.source] = IF c.kind = "delete" THEN NoConfig ELSE c.cfg]

(* A tool call cannot read a file that holds a part of its text.           *)
Malformed == \E o \in Ops : op[o].pc = "torn"

Refuse(o) ==
    /\ op[o].pc = "read" /\ (Malformed \/ Refused(Calls[o], op[o].seen))
    /\ op' = [op EXCEPT ![o].pc = "done"]
    /\ lock' = None
    /\ UNCHANGED <<buffer, cached, file, mtime, now, ledger>>

Truncate(o) ==
    /\ op[o].pc = "read" /\ ~Malformed /\ ~Refused(Calls[o], op[o].seen)
    /\ op' = [op EXCEPT ![o].pc = "cut"]
    /\ file' = EmptyFile /\ mtime' = now
    /\ UNCHANGED <<buffer, cached, now, lock, ledger>>

Write(o) ==
    /\ op[o].pc = "cut"
    /\ op' = [op EXCEPT ![o].pc = "done"]
    /\ file' = Applied(Calls[o], op[o].seen) /\ mtime' = now
    /\ ledger' = Applied(Calls[o], ledger)
    /\ lock' = None
    /\ UNCHANGED <<buffer, cached, now>>

(* An error or a cancellation: before the file was opened it is as it was, *)
(* after that it is empty, or holds a part of its text if the disk is full. *)
(* The lock is released and the caller told of the error.                  *)
WriteFails(o) ==
    /\ \/ op[o].pc = "read" /\ op' = [op EXCEPT ![o].pc = "failed"] /\ UNCHANGED <<mtime, ledger>>
       \/ /\ op[o].pc = "cut" /\ ledger' = EmptyFile
          /\ \/ op' = [op EXCEPT ![o].pc = "failed"] /\ UNCHANGED mtime
             \/ op' = [op EXCEPT ![o].pc = "torn"] /\ mtime' = now
    /\ lock' = None
    /\ UNCHANGED <<buffer, cached, file, now>>

Tick ==
    /\ now < MaxTicks
    /\ now' = now + 1
    /\ UNCHANGED <<buffer, cached, file, mtime, lock, op, ledger>>

-----------------------------------------------------------------------------
Next ==
    \/ Yield \/ CancelListener \/ CancelFlushes \/ StopServer \/ Tick
    \/ \E p \in Posts : ReceiveTrigger(p)
    \/ \E k \in Keys : Flush(k)
    \/ \E o \in Ops : Acquire(o) \/ Refuse(o) \/ Truncate(o) \/ Write(o) \/ WriteFails(o)

(* A window that nothing restarts ends.                                    *)
Fairness == \A k \in Keys : WF_vars(Flush(k))

Spec == Init /\ [][Next]_vars /\ Fairness

-----------------------------------------------------------------------------
(* The count a client is answered is that of the buffer, and no buffered   *)
(* event is left without a task that will flush it while the channel runs  *)
(* (the two key functions, the cancel-and-restart, the pops of a flush).   *)
CountedAndScheduled ==
    \A k \in Keys : counts[k] = Len(pending[k]) /\ (listening /\ pending[k] # <<>> => k \in flush)

Batches == yielded \o queue
Precedes(s, t) == \A i \in DOMAIN s, j \in DOMAIN t : s[i] < t[j]
InOrder(s) == \A i, j \in DOMAIN s : i < j => s[i] < s[j]

(* Events of a key are handed over once each, in the order they came: the  *)
(* batches that were yielded, those queued and what is buffered go through *)
(* what was accepted, except for batches whose prompt did not format.      *)
AcceptedOnceInOrder ==
    \A k \in Keys :
        LET mine == {b \in DOMAIN Batches : Batches[b].key = k} IN
        /\ InOrder(Buffer(k))
        /\ \A b \in mine : InOrder(Batches[b].events) /\ Precedes(Batches[b].events, Buffer(k))
        /\ \A b, c \in mine : b < c => Precedes(Batches[b].events, Batches[c].events)
        /\ Numbers(Buffer(k)) \cup UNION {Numbers(Batches[b].events) : b \in mine}
              = {n \in DOMAIN accepted : accepted[n].key = k /\ n \notin lost}

(* Tool calls that rewrite the file do not undo one another: whenever none *)
(* is under way it holds the result of all that succeeded, one by one,     *)
(* since the last whose write broke off and left no source behind.  That   *)
(* one alone loses what others have stored: a call that was refused, or    *)
(* failed before it opened the file, changes nothing.                      *)
SourcesAreSerial == lock = None => file = ledger

(* Once a window ends its events go out; only a shutdown leaves any.       *)
Due(k) == pending[k] # <<>>
Done(k) == pending[k] = <<>> \/ ~listening
EventuallyFlushed == \A k \in Keys : Due(k) ~> Done(k)
-----------------------------------------------------------------------------
(* What the proofs rest on.  Whoever has read the file holds the lock, and   *)
(* what it has read is what all calls before it have made of the file.       *)
Buffered ==
    /\ pending \in [Keys -> Seq([n : 1..MaxEvents, cfg : Configs \cup {NoConfig}])]
    /\ counts \in [Keys -> Nat] /\ accepted \in Seq([key : Keys, cfg : Configs \cup {NoConfig}])
Stored ==
    /\ file \in File /\ ledger \in File
    /\ mtime \in 0..MaxTicks /\ now \in 0..MaxTicks /\ cached \in [0..MaxTicks -> SUBSET File]
    /\ lock \in Ops \cup {None}
    /\ op \in [Ops -> [pc : OpStates, seen : File]]
LockHeld ==
    \A o \in Ops :
        /\ op[o].pc \in {"read", "cut"} <=> lock = o
        /\ op[o].pc = "read" => op[o].seen = ledger /\ file = ledger
        /\ op[o].pc = "cut" => op[o].seen = ledger /\ file = EmptyFile

(* What is lost has been accepted, and a flush task has something to flush.  *)
FlushInv ==
    /\ yielded \in Seq([key : Keys, events : Seq(Nat)]) /\ queue \in Seq([key : Keys, events : Seq(Nat)])
    /\ lost \subseteq DOMAIN accepted
    /\ flush \subseteq {k \in Keys : pending[k] # <<>>}
    /\ AcceptedOnceInOrder

TriggerInv == Buffered /\ Stored /\ LockHeld /\ CountedAndScheduled /\ SourcesAreSerial
=============================================================================
