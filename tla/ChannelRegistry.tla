---------------------------- MODULE ChannelRegistry ----------------------------
(***************************************************************************)
(* The channel registry (app/runtime/channels.py): which plugin instance   *)
(* is active for a channel, the conversations known of it, and the tasks   *)
(* that copy these to the cache, one per change, each cancelling the one   *)
(* before.  The loop, the senders, the control API and the telemetry       *)
(* endpoint all go through it.                                             *)
(*   The cache is external: a set that is cancelled has taken effect or    *)
(* not; entries expire; with Redis they outlive the process.               *)
(***************************************************************************)
EXTENDS Integers, FiniteSets

CONSTANTS
    Channels,       \* settings.enabled_channels()
    Conversations,
    Ephemeral,      \* channels whose context_destinations() is empty
    MaxTasks,       \* bound: sync tasks, over all restarts
    MaxInstances,   \* bound: plugin instances
    MaxRestarts     \* bound: restarts

VARIABLES
    active,     \* _active_channels: an instance number, 0 for an absent key
    made,       \* instances created so far
    closed,     \* instances whose close() has run
    stopping,   \* channels the loop is closing or has closed
    known,      \* _known_channel_conversations
    cache,      \* what the cache holds of each channel
    tasks,      \* sync tasks: [channel, pc, snap]
    current,    \* _channel_conversation_sync_tasks: a task, 0 for none
    describe,   \* describe_channel_telemetry at one channel: [channel, inst, own]
    offered,    \* the last answer of get_available_channels_context
    missed,     \* history: channels whose cache entry was lost or not written
                \* since the last change
    restarts

plugins == <<active, made, closed, stopping, describe>>
sync == <<known, cache, tasks, current, missed>>
vars == <<plugins, sync, offered, restarts>>

NoOne == "none"
Undescribed == [channel |-> NoOne, inst |-> 0, own |-> FALSE]
Tasks == DOMAIN tasks

TypeOK ==
    /\ active \in [Channels -> 0..MaxInstances] /\ made \in 0..MaxInstances
    /\ closed \subseteq 1..made /\ stopping \subseteq Channels
    /\ known \in [Channels -> SUBSET Conversations] /\ cache \in [Channels -> SUBSET Conversations]
    /\ Tasks = 1..Cardinality(Tasks) /\ Cardinality(Tasks) <= MaxTasks
    /\ \A t \in Tasks : tasks[t].channel \in Channels /\ tasks[t].snap \subseteq Conversations
                        /\ tasks[t].pc \in {"created", "writing", "ended", "gone"}
    /\ current \in [Channels -> {0} \cup Tasks]
    /\ describe.channel \in Channels \cup {NoOne} /\ describe.inst \in 0..made
    /\ offered \in [Channels -> SUBSET Conversations]
    /\ missed \subseteq Channels /\ restarts \in 0..MaxRestarts

Nothing == [c \in Channels |-> {}]

(* One new instance per channel, numbered from n + 1.                      *)
Loaded(n) ==
    {f \in [Channels -> (n + 1)..(n + Cardinality(Channels))] : \A c, d \in Channels : f[c] = f[d] => c = d}

(* load_channel_plugins makes one instance of every channel at the start.  *)
Init ==
    /\ active \in Loaded(0)
    /\ made = Cardinality(Channels) /\ closed = {} /\ stopping = {} /\ describe = Undescribed
    /\ known = Nothing /\ cache = Nothing /\ tasks = [t \in {} |-> {}]
    /\ current = [c \in Channels |-> 0] /\ missed = Channels
    /\ offered = Nothing /\ restarts = 0

-----------------------------------------------------------------------------
(* _schedule_channel_conversation_sync: cancel the running sync, if any,   *)
(* and start another.  A set that is cancelled under way counts or not.    *)
Schedule(c) ==
    LET old == current[c]
        n == Cardinality(Tasks) + 1
        running == old # 0 /\ tasks[old].pc \in {"created", "writing"}
    IN  /\ n <= MaxTasks
        /\ tasks' = [t \in 1..n |->
             IF t = n THEN [channel |-> c, pc |-> "created", snap |-> {}]
             ELSE IF t = old /\ running THEN [tasks[t] EXCEPT !.pc = "ended"] ELSE tasks[t]]
        /\ current' = [current EXCEPT ![c] = n]
        /\ missed' = missed \ {c}
        /\ \/ UNCHANGED cache
           \/ running /\ tasks[old].pc = "writing" /\ cache' = [cache EXCEPT ![c] = tasks[old].snap]

RegisterConversation(c, x) ==
    /\ known' = [known EXCEPT ![c] = @ \cup {x}]
    /\ Schedule(c)
    /\ UNCHANGED <<plugins, offered, restarts>>

UnregisterConversation(c, x) ==
    /\ x \in known[c]
    /\ known' = [known EXCEPT ![c] = @ \ {x}]
    /\ Schedule(c)
    /\ UNCHANGED <<plugins, offered, restarts>>

(* _sync_known_channel_conversations reads the set when it first runs.     *)
SyncStarts(t) ==
    /\ tasks[t].pc = "created"
    /\ tasks' = [tasks EXCEPT ![t].pc = "writing", ![t].snap = known[tasks[t].channel]]
    /\ UNCHANGED <<plugins, known, cache, current, missed, offered, restarts>>

SyncEnds(t) ==
    LET c == tasks[t].channel IN
    /\ tasks[t].pc = "writing"
    /\ tasks' = [tasks EXCEPT ![t].pc = "ended"]
    /\ \/ cache' = [cache EXCEPT ![c] = tasks[t].snap] /\ UNCHANGED missed
       \/ missed' = missed \cup {c} /\ UNCHANGED cache
    /\ UNCHANGED <<plugins, known, current, offered, restarts>>

(* Variant: any task that ends takes the entry of its channel away.        *)
Cleanup_Always(t) ==
    /\ tasks[t].pc = "ended"
    /\ tasks' = [tasks EXCEPT ![t].pc = "gone"]
    /\ current' = [current EXCEPT ![tasks[t].channel] = 0]
    /\ UNCHANGED <<plugins, known, cache, missed, offered, restarts>>

(* The done callback: only the task that is still the current one takes    *)
(* its entry away.                                                         *)
Cleanup(t) ==
    LET c == tasks[t].channel IN
    /\ tasks[t].pc = "ended"
    /\ tasks' = [tasks EXCEPT ![t].pc = "gone"]
    /\ current' = IF current[c] = t THEN [current EXCEPT ![c] = 0] ELSE current
    /\ UNCHANGED <<plugins, known, cache, missed, offered, restarts>>

Expire(c) ==
    /\ cache[c] # {}
    /\ cache' = [cache EXCEPT ![c] = {}] /\ missed' = missed \cup {c}
    /\ UNCHANGED <<plugins, known, tasks, current, offered, restarts>>

-----------------------------------------------------------------------------
(* get_channel_plugin(create=True), by whoever sends on the channel.       *)
GetChannelPlugin(c) ==
    /\ active[c] = 0 /\ made < MaxInstances
    /\ made' = made + 1 /\ active' = [active EXCEPT ![c] = made + 1]
    /\ UNCHANGED <<sync, closed, stopping, describe, offered, restarts>>

(* The context of a prompt: of each channel what is known and what is      *)
(* cached; a channel that lists none is offered by its placeholder.        *)
GetAvailableChannelsContext ==
    /\ offered' = [c \in Channels |-> IF c \in Ephemeral THEN {} ELSE known[c] \cup cache[c]]
    /\ UNCHANGED <<plugins, sync, restarts>>

(* describe_channel_telemetry: a channel without an instance gets one for  *)
(* the description only, closed after the cache has answered.              *)
Describe(c) ==
    /\ describe = Undescribed
    /\ \/ active[c] # 0
          /\ describe' = [channel |-> c, inst |-> active[c], own |-> FALSE]
          /\ UNCHANGED made
       \/ active[c] = 0 /\ made < MaxInstances
          /\ made' = made + 1
          /\ describe' = [channel |-> c, inst |-> made + 1, own |-> TRUE]
    /\ UNCHANGED <<sync, active, closed, stopping, offered, restarts>>

Described ==
    /\ describe # Undescribed
    /\ closed' = IF describe.own THEN closed \cup {describe.inst} ELSE closed
    /\ describe' = Undescribed
    /\ UNCHANGED <<sync, active, made, stopping, offered, restarts>>

(* The loop's _close_channels: close, then unregister_channel_plugin.      *)
CloseChannel(c) ==
    /\ c \notin stopping /\ active[c] # 0
    /\ stopping' = stopping \cup {c} /\ closed' = closed \cup {active[c]}
    /\ UNCHANGED <<sync, active, made, describe, offered, restarts>>

UnregisterPlugin(c) ==
    /\ c \in stopping /\ active[c] \in closed
    /\ active' = [active EXCEPT ![c] = 0]
    /\ UNCHANGED <<sync, made, closed, stopping, describe, offered, restarts>>

Restart ==
    /\ restarts < MaxRestarts /\ made + Cardinality(Channels) <= MaxInstances
    /\ restarts' = restarts + 1
    /\ active' \in Loaded(made)
    /\ made' = made + Cardinality(Channels)
    /\ closed' = closed /\ stopping' = {} /\ describe' = Undescribed
    /\ known' = Nothing /\ missed' = Channels /\ current' = [c \in Channels |-> 0]
    /\ tasks' = [t \in Tasks |-> [tasks[t] EXCEPT !.pc = "gone"]]
    /\ UNCHANGED <<cache, offered>>

-----------------------------------------------------------------------------
SyncStep(t) == SyncStarts(t) \/ SyncEnds(t) \/ Cleanup(t)

Next ==
    \/ \E c \in Channels, x \in Conversations : RegisterConversation(c, x) \/ UnregisterConversation(c, x)
    \/ \E t \in Tasks : SyncStep(t)
    \/ \E c \in Channels : \/ Expire(c) \/ GetChannelPlugin(c) \/ Describe(c)
                           \/ CloseChannel(c) \/ UnregisterPlugin(c)
    \/ GetAvailableChannelsContext \/ Described \/ Restart


(* The event loop runs some task that is ready.                            *)
Fairness == WF_vars(\E t \in Tasks : SyncStep(t))

Spec == Init /\ [][Next]_vars /\ Fairness

-----------------------------------------------------------------------------
(* When the last change of a channel has no task left to copy it, the      *)
(* cache holds it, unless the cache failed or forgot since: no cancelled   *)
(* or late sync overwrites a later one.                                    *)
QuietMeansStored ==
    \A c \in Channels : current[c] = 0 /\ c \notin missed => cache[c] = known[c]

(* At most one sync of a channel is under way, and it is the one the       *)
(* registry would cancel: cleanup never forgets a task that still runs.    *)
SyncIsTracked ==
    \A t \in Tasks : tasks[t].pc \in {"created", "writing"} => current[tasks[t].channel] = t

(* Describing the channels closes no instance in use: the active one is    *)
(* closed by nobody but the loop's shutdown.                               *)
ActiveIsOpen == \A c \in Channels : active[c] \in closed => c \in stopping

(* Every change of the known conversations is dealt with: stored, failed,  *)
(* or replaced by a later one.                                             *)
Due(c) == current[c] # 0
Done(c) == current[c] = 0
EventuallySynced == \A c \in Channels : Due(c) ~> Done(c)
-----------------------------------------------------------------------------
(* What the proofs rest on.  A task that writes writes what is known now,    *)
(* and the current task of a channel, if it has ended, has stored it unless  *)
(* the cache failed; an instance serves one channel or one description.      *)
Task == [channel : Channels, pc : {"created", "writing", "ended", "gone"}, snap : SUBSET Conversations]
SyncOK ==
    /\ known \in [Channels -> SUBSET Conversations] /\ cache \in [Channels -> SUBSET Conversations]
    /\ \E n \in 0..MaxTasks : tasks \in [1..n -> Task]
    /\ current \in [Channels -> {0} \cup Tasks]
    /\ SyncIsTracked /\ QuietMeansStored
    /\ \A t \in Tasks : tasks[t].pc = "writing" => tasks[t].snap = known[tasks[t].channel]
    /\ \A c \in Channels : current[c] # 0 =>
          LET t == tasks[current[c]] IN
          t.channel = c /\ t.pc # "gone" /\ (t.pc = "ended" /\ c \notin missed => cache[c] = known[c])
PluginsOK ==
    /\ made \in Nat /\ active \in [Channels -> 0..made] /\ closed \subseteq 1..made
    /\ \A c, d \in Channels : active[c] = active[d] /\ active[c] # 0 => c = d
    /\ describe.inst \in 0..made /\ describe.own \in BOOLEAN
    /\ describe.own => describe.inst # 0 /\ \A c \in Channels : active[c] # describe.inst
    /\ ActiveIsOpen
RegistryInv == SyncOK /\ PluginsOK
=============================================================================
