--------------------------- MODULE SessionHistory ---------------------------
(***************************************************************************)
(* The chat history of one session key: the GeminiChatSession objects of     *)
(* app/core/ai/session.py that hold it in memory, the file of               *)
(* app/core/ai/service.py that a restart reads back, and everything in      *)
(* app/runtime/loop.py and commands.py that reads, extends, replaces or     *)
(* resets it: turns, compaction, injected outbound turns, /clear, restart.  *)
(* No lock is held across a turn: what runs for one session interleaves at  *)
(* every await.  A history is a sequence of exchanges; an exchange is what  *)
(* google-genai records for one answered message.                           *)
(***************************************************************************)
EXTENDS Naturals, Sequences

CONSTANTS
  None,         \* no object, no turn
  Turns,        \* inbound batches for the session, each taken once
  Injections,   \* turns of other sessions that sent a message to this one
  MaxObject,    \* bound: session objects that exist at one time
  MaxNudges,    \* PB_GEMINI_EMPTY_RESPONSE_MAX_NUDGES
  MaxCrashes,   \* bound: restarts of the process
  Modes,        \* PB_SESSION_SUMMARIZATION in each life of the process: "off",
                \* "compress" or "memory"; a restart reads it again
  Allowed       \* what may happen besides the sequential case, see below

\* "overlap": a turn or an injection starts while another one is under way;
\* "disk": a write raises, or is still waited for when a turn times out;
\* "tear": the process dies between opening and writing a file;
\* "clear": an operator clears the session.
ASSUME SettingsAssumption ==
  /\ Turns \cap Injections = {}
  /\ None \notin Turns \cup Injections \cup Nat
  /\ MaxObject \in Nat /\ MaxNudges \in Nat /\ MaxCrashes \in Nat
  /\ Modes \in [0 .. MaxCrashes -> {"off", "compress", "memory"}]
  /\ Allowed \subseteq {"overlap", "tear", "disk", "clear"}

Workers == Turns \cup Injections
Objects == 1 .. MaxObject

\* What a worker leaves in a history; Old was left by an earlier process.
Exchanges == {"turn", "ask", "summary", "inject"} \X (Workers \cup {None})
Old == <<"turn", None>>
History == Seq(Exchanges)

VARIABLES
  live,     \* _sessions[key]: an object, or None before the first use
  hist,     \* [Objects -> History]: the curated history of object._chat
  file,     \* the session's file
  work,     \* [Workers -> WorkerState]
  lock,     \* the turn that holds _session_summarization_locks[key], or None
  crashes,
  owed,     \* history variable: exchanges that a restart has to give back
  cleared,  \* history variable: what any clear has removed
  purged    \* history variable: what a clear removed while nothing was running

Mode == Modes[crashes]

vars == <<live, hist, file, work, lock, crashes, owed, cleared, purged>>
ghosts == <<owed, cleared, purged>>

File == [exists : BOOLEAN, ok : BOOLEAN, data : History]
NoFile == [exists |-> FALSE, ok |-> FALSE, data |-> <<>>]

WorkerState ==
  [pc    : {"new", "restoring", "restored", "ready", "sending", "saving",
            "writing", "replied", "asked", "notifying", "ended"},
   obj   : Objects \cup {None},
   what  : {"answer", "blank", "ask", "summary", "rollback", "inject"},
   nudges : 0 .. MaxNudges,
   \* sending: the chat it waits for is no longer the object's chat;
   \* writing: the file it has open has been deleted
   stale : BOOLEAN,
   data  : History,      \* read from the file, or about to be written to it
   snap  : History]      \* snapshot_for_compaction

\* A worker that is not at work on anything.
Off(w, at) == [pc |-> at, obj |-> None, nudges |-> 0, stale |-> FALSE,
               what |-> IF w \in Turns THEN "answer" ELSE "inject",
               data |-> <<>>, snap |-> <<>>]

Fresh(w) == Off(w, "new")
Ended(w) == Off(w, "ended")

\* A turn that tells the user of its compaction.
Notifying(w) == [pc |-> "notifying", obj |-> None, nudges |-> 0, stale |-> FALSE,
                 what |-> "summary", data |-> <<>>, snap |-> <<>>]
Idle(w) == work[w].pc \in {"new", "ended"}
Quiet == \A w \in Workers : Idle(w)

Content(s) == {s[i] : i \in DOMAIN s}

Init ==
  /\ live = None
  /\ hist = [o \in Objects |-> <<>>]
  /\ file \in {NoFile, [exists |-> TRUE, ok |-> TRUE, data |-> <<Old>>]}
  /\ work = [w \in Workers |-> Fresh(w)]
  /\ lock = None
  /\ crashes = 0
  /\ owed = Content(file.data)
  /\ cleared = {}
  /\ purged = {}

-----------------------------------------------------------------------------
(* Objects.  An object that nothing refers to is free to be used again.     *)

Unused == {o \in Objects : o # live /\ \A w \in Workers : work[w].obj # o}
NextObject(o) == o \in Unused /\ \A p \in Unused : o <= p

\* Giving object o another chat: who waits for the old one waits in vain.
Rechatted(o) ==
  [w \in Workers |->
     IF work[w].pc = "sending" /\ work[w].obj = o
     THEN [work[w] EXCEPT !.stale = TRUE] ELSE work[w]]

Saving(state, what, history) ==
  [state EXCEPT !.pc = "saving", !.what = what, !.stale = FALSE, !.data = history]

\* Worker w goes on with object o.  A turn still has to prepare its message;
\* an injection appends its content at once (inject_model_turn).
Obtain(w, o, histories) ==
  \/ /\ w \in Turns
     /\ hist' = histories
     /\ work' = [work EXCEPT ![w].pc = "ready", ![w].obj = o, ![w].data = <<>>]
  \/ /\ w \in Injections
     /\ hist' = [histories EXCEPT ![o] = Append(@, <<"inject", w>>)]
     /\ work' = [Rechatted(o) EXCEPT
                   ![w] = [Saving(@, "inject", hist'[o]) EXCEPT !.obj = o]]

-----------------------------------------------------------------------------
(* _get_session and restore_session.                                        *)

MayStart(w) == "overlap" \in Allowed \/ \A v \in Workers \ {w} : Idle(v)

Found(w) ==
  /\ work[w].pc = "new" /\ MayStart(w)
  /\ live # None
  /\ Obtain(w, live, hist)
  /\ UNCHANGED <<live, file, lock, crashes, ghosts>>

\* Without a file nothing is awaited: the new object is there at once.
Created(w) ==
  /\ work[w].pc = "new" /\ MayStart(w)
  /\ live = None /\ ~file.exists
  /\ \E o \in Objects : /\ NextObject(o)
                        /\ live' = o
                        /\ Obtain(w, o, [hist EXCEPT ![o] = <<>>])
  /\ UNCHANGED <<file, lock, crashes, ghosts>>

Restoring(w) ==
  /\ work[w].pc = "new" /\ MayStart(w)
  /\ live = None /\ file.exists
  /\ work' = [work EXCEPT ![w].pc = "restoring"]
  /\ UNCHANGED <<live, hist, file, lock, crashes, ghosts>>

\* A file that does not parse, or is gone by now, counts as no history.
RestoreRead(w) ==
  /\ work[w].pc = "restoring"
  /\ work' = [work EXCEPT ![w].pc = "restored",
                          ![w].data = IF file.ok THEN file.data ELSE <<>>]
  /\ UNCHANGED <<live, hist, file, lock, crashes, ghosts>>

\* The restored object becomes the session, whatever happened meanwhile.
RestoreDone(w) ==
  /\ work[w].pc = "restored"
  /\ \E o \in Objects : /\ NextObject(o)
                        /\ live' = o
                        /\ Obtain(w, o, [hist EXCEPT ![o] = work[w].data])
  /\ UNCHANGED <<file, lock, crashes, ghosts>>

-----------------------------------------------------------------------------
(* save_session_history: the content is taken at once; opening (truncating) *)
(* the file and writing it are awaited.                                     *)

SaveOpen(w) ==
  /\ work[w].pc = "saving"
  /\ file' = [exists |-> TRUE, ok |-> FALSE, data |-> <<>>]
  /\ work' = [work EXCEPT ![w].pc = "writing"]
  /\ UNCHANGED <<live, hist, lock, crashes, ghosts>>

\* Variant: one nudge too many.
MayNudge_OffByOne(w) == work[w].nudges <= MaxNudges

MayNudge(w) == work[w].nudges < MaxNudges

\* Where the worker goes on when its save is over.  A blank answer is asked for
\* again until the nudges are used up; then the fallback text is the reply.
\* Once the summary is saved the user is to be told of it.
AfterSave(w) ==
  LET done == [work[w] EXCEPT !.data = <<>>, !.stale = FALSE]
  IN  CASE work[w].what = "answer" -> [done EXCEPT !.pc = "replied"]
        [] work[w].what = "ask"    -> [done EXCEPT !.pc = "asked"]
        [] work[w].what = "blank" /\ MayNudge(w) ->
             [done EXCEPT !.pc = "ready", !.what = "answer", !.nudges = @ + 1]
        [] work[w].what = "blank" /\ ~MayNudge(w) ->
             [done EXCEPT !.pc = "replied", !.what = "answer"]
        [] work[w].what = "summary" -> Notifying(w)
        [] OTHER -> Ended(w)

SaveOver(w) ==
  /\ work' = [work EXCEPT ![w] = AfterSave(w)]
  /\ lock' = IF work[w].what = "rollback" THEN None ELSE lock
  /\ owed' = owed \cup (CASE work[w].what = "answer"  -> {<<"turn", w>>}
                          [] work[w].what = "summary" -> {<<"summary", w>>}
                          [] work[w].what = "inject"  -> {<<"inject", w>>}
                          [] OTHER -> {})
  /\ UNCHANGED <<live, hist, crashes, cleared, purged>>

\* Writers that have opened the same file both write at its start: a shorter
\* history written over a longer one leaves the tail of the longer one.
SaveWrite(w) ==
  /\ work[w].pc = "writing"
  /\ file' = IF work[w].stale THEN file
             ELSE [exists |-> TRUE, data |-> work[w].data,
                   ok |-> Len(file.data) <= Len(work[w].data)]
  /\ SaveOver(w)

\* _persist_history swallows every error; an open file stays truncated.
SaveFails(w) ==
  /\ "disk" \in Allowed
  /\ work[w].pc \in {"saving", "writing"}
  /\ SaveOver(w)
  /\ UNCHANGED file

-----------------------------------------------------------------------------
(* Turns.                                                                   *)

SendMessage(t) ==
  /\ work[t].pc = "ready"
  /\ work' = [work EXCEPT ![t].pc = "sending"]
  /\ UNCHANGED <<live, hist, file, lock, crashes, ghosts>>

\* The chat that was asked records the exchange; if the object has got another
\* one meanwhile, it is recorded where nobody looks.
Recorded(t, e) ==
  IF work[t].stale THEN hist ELSE [hist EXCEPT ![work[t].obj] = Append(@, e)]

ModelAnswers(t) ==
  /\ work[t].pc = "sending"
  /\ hist' = Recorded(t, <<IF work[t].what = "answer" THEN "turn" ELSE "ask", t>>)
  /\ work' = [work EXCEPT ![t] = Saving(@, @.what, hist'[@.obj])]
  /\ UNCHANGED <<live, file, lock, crashes, ghosts>>

\* No text: saved all the same, then asked for again.
ModelSilent(t) ==
  /\ work[t].pc = "sending" /\ work[t].what = "answer"
  /\ work' = [work EXCEPT ![t] = Saving(@, "blank", hist[@.obj])]
  /\ UNCHANGED <<live, hist, file, lock, crashes, ghosts>>

\* An error, or GEMINI_RESPONSE_TIMEOUT_SECONDS, which covers the saves as
\* well: the user is told that the message could not be processed.
TurnFails(t) ==
  /\ work[t].what \in {"answer", "blank"}
  /\ \/ work[t].pc \in {"ready", "sending"}
     \/ work[t].pc \in {"saving", "writing"} /\ "disk" \in Allowed
  /\ work' = [work EXCEPT ![t] = Ended(t)]
  /\ UNCHANGED <<live, hist, file, lock, crashes, ghosts>>

\* Below the threshold, or another turn is compacting already.
NoCompaction(t) ==
  /\ work[t].pc = "replied"
  /\ work' = [work EXCEPT ![t] = Ended(t)]
  /\ UNCHANGED <<live, hist, file, lock, crashes, ghosts>>

AskToCompact(t) ==
  /\ work[t].pc = "replied"
  /\ Mode # "off"
  /\ lock' = t
  /\ work' = [work EXCEPT ![t].pc = "ready", ![t].what = "ask",
                          ![t].snap = hist[work[t].obj]]
  /\ UNCHANGED <<live, hist, file, crashes, ghosts>>

\* Variant: nobody looks whether the lock is taken.
BeginCompaction_Unchecked(t) == AskToCompact(t)

BeginCompaction(t) == lock = None /\ AskToCompact(t)

\* Preparing, sending or saving the prompt goes wrong or takes too long.
AskFails(t) ==
  /\ work[t].what = "ask"
  /\ \/ work[t].pc \in {"ready", "sending"}
     \/ work[t].pc \in {"saving", "writing"} /\ "disk" \in Allowed

\* The object gets a chat with this history, which is then saved.
Rewrite(t, what, history) ==
  /\ hist' = [hist EXCEPT ![work[t].obj] = history]
  /\ work' = [Rechatted(work[t].obj) EXCEPT ![t] = Saving(@, what, history)]
  /\ UNCHANGED <<live, file, lock, crashes, cleared, purged>>

\* Variant: the summary replaces the history in memory only.
ReplaceHistory_MemoryOnly(t) ==
  /\ work[t].pc = "asked" /\ Mode = "compress"
  /\ hist' = [hist EXCEPT ![work[t].obj] = << <<"summary", t>> >>]
  /\ work' = [Rechatted(work[t].obj) EXCEPT ![t] = Notifying(t)]
  /\ owed' = (owed \ Content(work[t].snap)) \cup {<<"summary", t>>}
  /\ UNCHANGED <<live, file, lock, crashes, cleared, purged>>

\* replace_history_with_summary: the summary stands for the snapshot.
ReplaceHistory(t) ==
  /\ work[t].pc = "asked" /\ Mode = "compress"
  /\ Rewrite(t, "summary", << <<"summary", t>> >>)
  /\ owed' = owed \ Content(work[t].snap)

\* Variant: the failure is reported but the snapshot is not restored.
Rollback_Forgotten(t) ==
  /\ Mode = "compress"
  /\ AskFails(t) \/ work[t].pc = "asked"
  /\ work' = [work EXCEPT ![t] = Ended(t)]
  /\ lock' = None
  /\ UNCHANGED <<live, hist, file, crashes, ghosts>>

\* The prompt fails, its answer is blank, or building the replacement fails:
\* restore_from_snapshot.
Rollback(t) ==
  /\ Mode = "compress"
  /\ AskFails(t) \/ work[t].pc = "asked"
  /\ Rewrite(t, "rollback", work[t].snap)
  /\ UNCHANGED owed

\* Variant: the file survives the reset.
Reset_KeepsFile ==
  /\ \E o \in Objects : /\ NextObject(o)
                        /\ live' = o
                        /\ hist' = [hist EXCEPT ![o] = <<>>]
  /\ UNCHANGED file

\* reset_session and the assignment of its result, which nothing interrupts.
Reset ==
  /\ \E o \in Objects : /\ NextObject(o)
                        /\ live' = o
                        /\ hist' = [hist EXCEPT ![o] = <<>>]
  /\ file' = NoFile

\* The file is deleted under whoever is writing it.
Unlinked ==
  [w \in Workers |-> IF work[w].pc = "writing"
                     THEN [work[w] EXCEPT !.stale = TRUE] ELSE work[w]]

\* Mode "memory": the model has saved what matters, the history starts afresh.
MemoryReset(t) ==
  /\ work[t].pc = "asked" /\ Mode = "memory"
  /\ Reset
  /\ work' = [Unlinked EXCEPT ![t] = Notifying(t)]
  /\ owed' = owed \ Content(work[t].snap)
  /\ UNCHANGED <<lock, crashes, cleared, purged>>

\* Variant: the lock is not released when summarising fails.
MemoryFails_KeepsLock(t) ==
  /\ Mode = "memory"
  /\ AskFails(t) \/ work[t].pc = "asked"
  /\ work' = [work EXCEPT ![t] = Ended(t)]
  /\ UNCHANGED <<live, hist, file, lock, crashes, ghosts>>

\* The prompt fails, or the reset cannot delete the file.
MemoryFails(t) ==
  /\ Mode = "memory"
  /\ AskFails(t) \/ work[t].pc = "asked"
  /\ work' = [work EXCEPT ![t] = Ended(t)]
  /\ lock' = None
  /\ UNCHANGED <<live, hist, file, crashes, ghosts>>

\* "Session compressed" has been sent, or the channel raised, which is logged:
\* only now is the summarization lock released.
NoticeOver(t) ==
  /\ work[t].pc = "notifying"
  /\ work' = [work EXCEPT ![t] = Ended(t)]
  /\ lock' = None
  /\ UNCHANGED <<live, hist, file, crashes, ghosts>>

-----------------------------------------------------------------------------
(* /clear, and a restart of the process.                                    *)

Visible == Content(file.data) \cup (IF live = None THEN {} ELSE Content(hist[live]))

Clear ==
  /\ "clear" \in Allowed /\ ("overlap" \in Allowed \/ Quiet)
  /\ Reset
  /\ work' = Unlinked
  /\ owed' = {}
  /\ cleared' = cleared \cup Visible
  /\ purged' = IF Quiet THEN purged \cup Visible ELSE purged
  /\ UNCHANGED <<lock, crashes>>

\* A worker that dies is not resumed.
Crash ==
  /\ crashes < MaxCrashes
  /\ "tear" \in Allowed \/ \A w \in Workers : work[w].pc # "writing"
  /\ crashes' = crashes + 1
  /\ live' = None
  /\ work' = [w \in Workers |-> IF Idle(w) THEN work[w] ELSE Ended(w)]
  /\ lock' = None
  /\ UNCHANGED <<hist, file, ghosts>>

-----------------------------------------------------------------------------
Step(w) ==
  \/ RestoreRead(w) \/ RestoreDone(w)
  \/ SaveOpen(w) \/ SaveWrite(w) \/ SaveFails(w)
  \/ SendMessage(w) \/ ModelAnswers(w) \/ ModelSilent(w) \/ TurnFails(w)
  \/ NoCompaction(w) \/ BeginCompaction(w) \/ ReplaceHistory(w) \/ Rollback(w)
  \/ MemoryReset(w) \/ MemoryFails(w)

Start(w) == Found(w) \/ Created(w) \/ Restoring(w)

\* Every batch has been answered and nothing more is asked of the session.
Finished == Quiet /\ UNCHANGED vars

Next == (\E w \in Workers : Start(w) \/ Step(w) \/ NoticeOver(w)) \/ Clear \/ Crash \/ Finished

\* What is under way goes on: the model answers or the timeout strikes, and
\* the file system answers.  That a message comes in is left open, and so is
\* whether a channel ever returns from the notice: the loop has no timeout on it.
Fairness == \A w \in Workers : WF_vars(Step(w))

Spec == Init /\ [][Next]_vars /\ Fairness

-----------------------------------------------------------------------------
(* Properties.                                                              *)

TypeOK ==
  /\ live \in Objects \cup {None}
  /\ hist \in [Objects -> History]
  /\ file \in File
  /\ work \in [Workers -> WorkerState]
  /\ lock \in Turns \cup {None}
  /\ crashes \in 0 .. MaxCrashes
  /\ owed \subseteq Exchanges /\ cleared \subseteq Exchanges
  /\ purged \subseteq Exchanges

Compacting(t) ==
  /\ work[t].what \in {"ask", "summary", "rollback"}
  /\ ~Idle(t)

\* A session is compacted by one turn at a time: a second turn that crosses the
\* threshold while the summary is being written leaves it alone
\* (summarization_lock.locked() in _maybe_auto_summarize_session).
OneCompaction ==
  \A t \in Turns : Compacting(t) <=> lock = t

\* Whatever the next turn of the session can build on: the history in memory,
\* or what a restart would read.
Kept == IF live # None THEN Content(hist[live])
        ELSE IF file.ok THEN Content(file.data) ELSE {}

\* While nothing runs, every exchange whose reply went out is in the history,
\* across compactions that fail half-way and restarts at any point, until a
\* summary takes its place or the session is cleared.
HistoryRetained == Quiet => owed \subseteq Kept

\* The prompt that asks for the summary does not stay behind in the history as
\* if the user had sent it: a failed compaction leaves no trace (rollback to
\* snapshot_for_compaction).  A restart during a compaction is excepted.
NoPromptLeft ==
  (Mode = "compress" /\ lock = None /\ crashes = 0) =>
    \A t \in Turns : <<"ask", t>> \notin Kept

\* What an operator clears while nothing is running is gone for good, from
\* memory and from disk, and no later turn or restart brings it back.
QuietClearIsFinal == purged \cap Visible = {}

\* The same for a clear at any moment: "Session cleared. Started a new chat
\* session." is what the user is told (handle_command, /clear).
ClearedStaysCleared == cleared \cap Visible = {}

\* A compaction gets as far as its notice or releases the session's lock,
\* whether it succeeds, fails, is rolled back or cannot be saved: nothing but a
\* channel that never returns from sending the notice keeps the next one out.
CompactionEnds ==
  \A t \in Turns : lock = t ~> lock # t \/ work[t].pc = "notifying"
-----------------------------------------------------------------------------
(* The inductive invariant behind OneCompaction and QuietClearIsFinal.      *)

\* What a worker can be about at each point, and when it has an object.
WorkerOK(w, s) ==
  /\ w \in Turns => s.what # "inject"
  /\ w \in Injections =>
       /\ s.what = "inject"
       /\ s.pc \notin {"ready", "sending", "replied", "asked", "notifying"}
  /\ IF s.pc \in {"new", "restoring", "restored", "ended"}
     THEN s.obj = None /\ s.what \in {"answer", "inject"} /\ s.snap = <<>>
     ELSE s.pc # "notifying" => s.obj \in Objects
  /\ s.pc \in {"new", "restoring", "ended"} => s.data = <<>>
  /\ s.pc \in {"ready", "sending"} => s.what \in {"answer", "ask"}
  /\ s.pc = "replied" => s.what = "answer"
  /\ s.pc = "asked" => s.what = "ask"
  /\ s.pc = "notifying" => s.what = "summary" /\ s.obj = None

\* Nothing in s was purged, and whoever left something in s has started.
Clean(s, gone, state) ==
  \A i \in DOMAIN s : /\ s[i] \notin gone
                      /\ s[i][2] # None => state[s[i][2]].pc # "new"

\* Everything that can still become visible is clean.
CleanInv ==
  /\ Clean(file.data, purged, work)
  /\ \A o \in Objects \ Unused : Clean(hist[o], purged, work)
  /\ \A w \in Workers : /\ Clean(work[w].data, purged, work)
                        /\ Clean(work[w].snap, purged, work)

\* Who left something that has been purged will not leave anything again.
PurgedInv ==
  \A e \in purged : e[2] # None => work[e[2]].pc = "ended"

HInv == /\ TypeOK
        /\ \A w \in Workers : WorkerOK(w, work[w])
        /\ OneCompaction
        /\ CleanInv
        /\ PurgedInv
-----------------------------------------------------------------------------
(* What HistoryRetained and NoPromptLeft need: one worker at a time.        *)

Sequential == "overlap" \notin Allowed

\* Whoever is under way is alone, and has the object that is live.
AloneInv ==
  /\ \A v, w \in Workers : Idle(v) \/ Idle(w) \/ v = w
  /\ \A w \in Workers :
       /\ work[w].obj \in {None, live}
       /\ ~ work[w].stale
       /\ work[w].pc \in {"restoring", "restored"} => live = None

NoAsk(s) == \A t \in Turns : <<"ask", t>> \notin Content(s)

\* Before the first restart the prompt is in the live history only while the
\* compaction that asked it still has to replace it or to take it back.
PromptInv ==
  (Mode = "compress" /\ crashes = 0) =>
    /\ live = None => /\ NoAsk(file.data)
                      /\ \A w \in Workers : NoAsk(work[w].data)
    /\ live # None /\ (lock = None \/ work[lock].what \in {"summary", "rollback"}) =>
         NoAsk(hist[live])
    /\ lock # None => NoAsk(work[lock].snap)

\* What a save that is under way is to leave in the file.
Promised(w, s) ==
  /\ s.what = "answer"  => <<"turn", w>> \in Content(s.data)
  /\ s.what = "summary" => <<"summary", w>> \in Content(s.data)
  /\ s.what = "inject"  => <<"inject", w>> \in Content(s.data)

\* What is owed is in the file, in the live history, and in whatever is about
\* to take the place of either.
RetainedInv ==
  /\ ~ file.ok \/ ~ file.exists => file.data = <<>>
  /\ (\A w \in Workers : work[w].pc # "writing") => owed \subseteq Content(file.data)
  /\ live # None => owed \subseteq Content(hist[live])
  /\ \A w \in Workers :
       /\ work[w].pc = "restored" => owed \subseteq Content(work[w].data)
       /\ work[w].pc \in {"saving", "writing"} =>
            work[w].data = hist[live] /\ Promised(w, work[w])
       /\ work[w].pc = "writing" => file.data = <<>>
       /\ work[w].what = "ask" => owed \subseteq Content(work[w].snap)
=============================================================================
