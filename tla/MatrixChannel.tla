---------------------------- MODULE MatrixChannel ----------------------------
(***************************************************************************)
(* The Matrix channel's listener: an initial sync that should only take    *)
(* the place in the stream, then a loop of syncs from the last token (the  *)
(* send paths are in ChannelSends).  The homeserver is external: one       *)
(* stream of events, of which a sync returns, room by room, what is newer  *)
(* than the token, but no more than the Window latest of a room.           *)
(*   An event is a record [id, room, sender, kind, root]: id is its place  *)
(* in the stream, root the event whose thread it is in, 0 for none, and    *)
(* kind one of "message" (text, or a file: a failed download still becomes *)
(* a message that says so), "blank" (a text of white space), "other" (an   *)
(* event type the channel does not handle).                                *)
(***************************************************************************)
EXTENDS Integers, Sequences, FiniteSets

CONSTANTS
    Rooms,
    AllowedRoomIds, \* PB_MATRIX_ALLOWED_ROOM_IDS, empty: every room
    ReplyInThread,  \* PB_MATRIX_REPLY_IN_THREAD
    Window,         \* the homeserver's timeline limit
    Writes,         \* what is written: a set of [room, sender, kind]
    MaxEvents,      \* bound: events in the stream
    MaxRestarts     \* bound: restarts of the process

NoToken == -1

VARIABLES
    stream,     \* the homeserver's events
    token,      \* self._since_token, NoToken before the first answer
    batch,      \* the events of the last sync still to handle
    pc,         \* listen(): "off", "sync", "handle", "closed"
    handed,     \* history: messages yielded in this life of the process
    known,      \* register_channel_conversation: conversations of this life
    start,      \* history: where the first token of this life was
    gap,        \* history: ids of events a sync of this life left out
    earlier,    \* history: ids of the messages yielded in former lives
    cut,        \* history: ids in the batches that former lives had not handled
    unseen,     \* history: ids no answer contained: those a first token
                \* passed over, and the gaps of former lives
    reached,    \* history: how far the tokens of former lives had come
    restarts

former == <<earlier, cut, reached, restarts>>
vars == <<stream, token, batch, pc, handed, known, start, gap, unseen, former>>

Ids(s) == {s[i].id : i \in DOMAIN s}

Admits(room) == AllowedRoomIds = {} \/ room \in AllowedRoomIds

(* The thread a conversation is named after: that of the event, or the one *)
(* it would root.                                                          *)
ExtractThreadRoot(e) == IF e.root # 0 THEN e.root ELSE e.id
Conversation(e) == <<e.room, IF ReplyInThread THEN ExtractThreadRoot(e) ELSE 0>>

(* What the loop over an answer and _handle_room_event make into a message.*)
FromOthers(e) == e.sender # "bot"
Wanted(e) == Admits(e.room) /\ FromOthers(e) /\ e.kind = "message"

(* What a sync from the token returns: of what is newer, by its place in   *)
(* the stream, the latest of each room.                                    *)
Since == ((IF token = NoToken THEN 0 ELSE token) + 1)..Len(stream)
Later(n) == {m \in n..Len(stream) : stream[m].room = stream[n].room}
Timeline == {n \in Since : Cardinality(Later(n)) <= Window}

(* A sequence of places that goes through the rooms one by one, each in    *)
(* the order of the stream.                                                *)
RoomByRoom(order) ==
    \A i, j \in DOMAIN order :
        i < j /\ stream[order[i]].room = stream[order[j]].room =>
            order[i] < order[j] /\ \A k \in i..j : stream[order[k]].room = stream[order[i]].room

TypeOK ==
    /\ stream \in Seq([id : 1..MaxEvents, room : Rooms, sender : {"bot", "user"},
                       kind : {"message", "blank", "other"}, root : 0..MaxEvents])
    /\ token \in NoToken..MaxEvents
    /\ Ids(batch) \subseteq 1..MaxEvents
    /\ pc \in {"off", "sync", "handle", "closed"}
    /\ handed \in Seq([id : 1..MaxEvents, conv : Rooms \X (0..MaxEvents)])
    /\ known \subseteq Rooms \X (0..MaxEvents)
    /\ start \in NoToken..MaxEvents
    /\ gap \subseteq 1..MaxEvents /\ earlier \cup cut \cup unseen \subseteq 1..MaxEvents
    /\ reached \in 0..MaxEvents /\ restarts \in 0..MaxRestarts

Blank ==
    /\ stream = <<>> /\ token = NoToken /\ batch = <<>>
    /\ handed = <<>> /\ known = {} /\ start = NoToken /\ gap = {}
    /\ earlier = {} /\ cut = {} /\ unseen = {} /\ reached = 0 /\ restarts = 0

Init == Blank /\ pc = "off"

-----------------------------------------------------------------------------
(* Someone, or the bot itself, writes to a room (external).                *)
Write(w, root) ==
    /\ Len(stream) < MaxEvents
    /\ root = 0 \/ (root \in DOMAIN stream /\ stream[root].room = w.room /\ stream[root].root = 0)
    /\ stream' = Append(stream, [id |-> Len(stream) + 1, room |-> w.room,
                                 sender |-> w.sender, kind |-> w.kind, root |-> root])
    /\ UNCHANGED <<token, batch, pc, handed, known, start, gap, unseen, former>>

(* The initial sync takes the token and drops what came with it, and with  *)
(* that what has come since a former life's last sync.  When it fails, by  *)
(* an error answer or an exception, the loop starts all the same.          *)
InitialSync ==
    /\ pc = "off"
    /\ pc' = "sync"
    /\ \/ /\ token' = Len(stream) /\ start' = Len(stream)
          /\ unseen' = unseen \cup (reached + 1)..Len(stream)
       \/ UNCHANGED <<token, start, unseen>>
    /\ UNCHANGED <<stream, batch, handed, known, gap, former>>

(* One sync of the loop: the token moves before the events are handled.    *)
(* Rooms that are not allowed and the bot's own events are passed over.    *)
Sync ==
    /\ pc = "sync"
    /\ LET theirs == {n \in Timeline : Admits(stream[n].room) /\ FromOthers(stream[n])} IN
       \E len \in 0..Len(stream) : \E order \in [1..len -> theirs] :
           /\ theirs = {order[i] : i \in 1..len} /\ RoomByRoom(order)
           /\ batch' = [i \in 1..len |-> stream[order[i]]]
    /\ gap' = gap \cup (Since \ Timeline)
    /\ token' = Len(stream)
    /\ start' = IF start = NoToken THEN 0 ELSE start
    /\ pc' = IF batch' = <<>> THEN "sync" ELSE "handle"
    /\ UNCHANGED <<stream, handed, known, unseen, former>>

(* A sync that fails, by exception or SyncError: logged, then tried again. *)
SyncFails ==
    /\ pc = "sync"
    /\ UNCHANGED vars

(* _handle_room_event for the next event.                                  *)
HandleRoomEvent ==
    /\ pc = "handle"
    /\ LET e == Head(batch) IN
       /\ known' = IF e.kind = "other" THEN known ELSE known \cup {Conversation(e)}
       /\ handed' = IF Wanted(e)
                    THEN Append(handed, [id |-> e.id, conv |-> Conversation(e)])
                    ELSE handed
    /\ batch' = Tail(batch)
    /\ pc' = IF Tail(batch) = <<>> THEN "sync" ELSE "handle"
    /\ UNCHANGED <<stream, token, start, gap, unseen, former>>

(* A drain cancels the listener; the rest of its batch is not handled, nor *)
(* is the event whose download it was waiting for.                         *)
CancelListener ==
    /\ pc \in {"off", "sync", "handle"}
    /\ pc' = "closed"
    /\ UNCHANGED <<stream, token, batch, handed, known, start, gap, unseen, former>>

(* The process stops, however, and starts again: the token is only in      *)
(* memory.                                                                 *)
Restart ==
    /\ restarts < MaxRestarts
    /\ restarts' = restarts + 1
    /\ token' = NoToken /\ batch' = <<>> /\ pc' = "off" /\ handed' = <<>>
    /\ known' = {} /\ start' = NoToken /\ gap' = {}
    /\ earlier' = earlier \cup Ids(handed) /\ cut' = cut \cup Ids(batch)
    /\ unseen' = unseen \cup gap /\ reached' = IF token > reached THEN token ELSE reached
    /\ UNCHANGED stream

Listening == InitialSync \/ Sync \/ SyncFails \/ HandleRoomEvent
Next ==
    \/ \E w \in Writes, root \in 0..MaxEvents : Write(w, root)
    \/ Listening \/ CancelListener \/ Restart

Fairness == WF_vars(InitialSync \/ HandleRoomEvent) /\ SF_vars(Sync)
Spec == Init /\ [][Next]_vars /\ Fairness

-----------------------------------------------------------------------------
(* In one life nothing is missed from the first token on, and nothing is   *)
(* made up: the messages yielded and those in the batch are exactly the    *)
(* wanted events between the first token and the present one, the ones a   *)
(* sync left out excepted.  It is about the order of the token's move and  *)
(* the handling, and the three places that pass an event over.  The batch  *)
(* of a listener that is cancelled is lost: it is not handled any more,    *)
(* and the token is past it.                                               *)
NothingMissed ==
    start # NoToken =>
        Ids(handed) \cup {batch[i].id : i \in {j \in DOMAIN batch : Wanted(batch[j])}}
            = {n \in (start + 1)..token : Wanted(stream[n])} \ gap

(* Over restarts, a wanted event that no token has passed is still to come;*)
(* any other has been yielded, waits in the batch, or is lost in one of    *)
(* three ways: it was in the batch of a listener that ended, a sync left   *)
(* it out, or it came after the last sync of a former life and before the  *)
(* first token of a later one.                                             *)
LossesAreKnown ==
    \A n \in DOMAIN stream :
        Wanted(stream[n]) /\ (n <= reached \/ n <= token) =>
            n \in Ids(handed) \cup earlier \cup Ids(batch) \cup cut \cup gap \cup unseen

(* In one life no event becomes a message twice, and a room's messages     *)
(* keep the order of the room (a later life whose initial sync fails may   *)
(* yield an event again).                                                  *)
YieldedOnceInOrder ==
    \A i, j \in DOMAIN handed :
        i < j /\ handed[i].conv[1] = handed[j].conv[1] => handed[i].id < handed[j].id

(* With PB_MATRIX_REPLY_IN_THREAD a thread is one conversation: a message  *)
(* that starts a thread and the messages inside that thread are handed to  *)
(* the same session, and messages of two threads never are.                *)
ThreadIsOneConversation ==
    ReplyInThread =>
        \A i, j \in DOMAIN handed :
            LET a == stream[handed[i].id] b == stream[handed[j].id] IN
            (handed[i].conv = handed[j].conv)
                <=> (a = b \/ a.root = b.id \/ b.root = a.id \/ (a.root = b.root /\ a.root # 0))

(* A wanted event that arrives while the listener holds a token becomes a  *)
(* message, unless the homeserver leaves it out or the listener is closed. *)
Due(n) ==
    /\ pc \in {"sync", "handle"} /\ start # NoToken /\ n > start
    /\ n \in DOMAIN stream /\ Wanted(stream[n])
Done(n) == n \in Ids(handed) \cup gap \/ pc \in {"closed", "off"}
EventuallyYielded == \A n \in 1..MaxEvents : Due(n) ~> Done(n)
-----------------------------------------------------------------------------
(* What the proofs rest on.  The stream: an event is where its id says,    *)
(* and a thread is rooted in an event of its room that is in no thread.    *)
Event == [id : Nat, room : {w.room : w \in Writes}, sender : {w.sender : w \in Writes},
          kind : {w.kind : w \in Writes}, root : Nat]
StreamInv ==
    /\ stream \in Seq(Event)
    /\ \A i \in 1..Len(stream) :
          LET e == stream[i] IN
          /\ e.id = i
          /\ e.root = 0 \/ (e.root \in 1..Len(stream) /\ stream[e.root].room = e.room /\ stream[e.root].root = 0)

(* The place in it: nothing comes before the first token, and what is in   *)
(* the batch or handed over lies between that and the present one.         *)
PlaceInv ==
    /\ token \in Int /\ start \in Int /\ token <= Len(stream) /\ gap \subseteq 1..token
    /\ IF token = NoToken THEN start = NoToken /\ batch = <<>> /\ handed = <<>>
                          ELSE 0 <= start /\ start <= token
    /\ pc = "off" => token = NoToken
    /\ pc \in {"off", "sync"} => batch = <<>>
    /\ pc = "handle" => batch # <<>>
    /\ token = NoToken \/ NothingMissed

(* Former lives: what their tokens have passed, and what the first token of *)
(* this one has, is accounted for.                                         *)
FormerInv ==
    /\ reached \in Nat /\ reached <= Len(stream)
    /\ \A n \in 1..reached : Wanted(stream[n]) => n \in earlier \cup cut \cup unseen
    /\ \A n \in 1..start : n <= reached \/ n \in unseen

(* What is in the batch comes after what is handed over, room by room.     *)
OrderInv ==
    /\ batch \in Seq(Event)
    /\ \A i \in 1..Len(batch) :
          batch[i].id \in 1..token /\ batch[i] = stream[batch[i].id] /\ batch[i].id > start
    /\ \A i, j \in 1..Len(batch) : i < j /\ batch[i].room = batch[j].room => batch[i].id < batch[j].id
    /\ handed \in Seq([id : Nat, conv : {w.room : w \in Writes} \X Nat])
    /\ \A i \in 1..Len(handed) :
          /\ handed[i].id \in 1..token /\ handed[i].conv = Conversation(stream[handed[i].id])
          /\ \A j \in 1..Len(batch) : handed[i].conv[1] = batch[j].room => handed[i].id < batch[j].id
    /\ YieldedOnceInOrder

SyncInv == StreamInv /\ PlaceInv /\ OrderInv /\ FormerInv
=============================================================================
