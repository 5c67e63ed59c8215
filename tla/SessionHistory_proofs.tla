------------------------ MODULE SessionHistory_proofs ------------------------
(***************************************************************************)
(* Proofs about SessionHistory, for any turns, injections and bounds: HInv  *)
(* is inductive, hence type correctness, OneCompaction and                  *)
(* QuietClearIsFinal hold in every reachable state, however turns,          *)
(* injections, compactions, clears, failing writes and restarts interleave. *)
(* Where they do not overlap, AloneInv, PromptInv and RetainedInv are       *)
(* inductive too, hence NoPromptLeft and HistoryRetained.                   *)
(***************************************************************************)
EXTENDS SessionHistory, TLAPS

(* ------------------------------ data lemmas ----------------------------- *)

LEMMA EmptyHistory == <<>> \in History /\ Content(<<>>) = {}
BY DEF History, Content

LEMMA EmptyClean ==
  ASSUME NEW gone, NEW state PROVE Clean(<<>>, gone, state)
BY DEF Clean

LEMMA AppendHistory ==
  ASSUME NEW s \in History, NEW e \in Exchanges
  PROVE  /\ Append(s, e) \in History
         /\ DOMAIN Append(s, e) = DOMAIN s \cup {Len(s) + 1}
         /\ \A i \in DOMAIN s : Append(s, e)[i] = s[i]
         /\ Append(s, e)[Len(s) + 1] = e
BY DEF History

LEMMA OneElement ==
  ASSUME NEW e \in Exchanges
  PROVE  <<e>> \in History /\ DOMAIN <<e>> = {1} /\ <<e>>[1] = e
BY DEF History

LEMMA ContentType == ASSUME NEW s \in History PROVE Content(s) \subseteq Exchanges
BY DEF History, Content

LEMMA ExchangeType ==
  /\ \A w \in Workers : /\ <<"turn", w>> \in Exchanges
                        /\ <<"ask", w>> \in Exchanges
                        /\ <<"summary", w>> \in Exchanges
                        /\ <<"inject", w>> \in Exchanges
  /\ \A e \in Exchanges : e[2] \in Workers \cup {None}
  /\ Old \in Exchanges /\ Old[2] = None
BY DEF Exchanges, Old

LEMMA WorkersSplit ==
  /\ \A w \in Workers : w \in Turns <=> w \notin Injections
  /\ \A w \in Workers : w # None
  /\ Turns \subseteq Workers /\ Injections \subseteq Workers
  /\ None \notin Objects
BY SettingsAssumption DEF Workers, Objects

\* Whoever appends has not been purged and has started.
LEMMA AppendClean ==
  ASSUME NEW s \in History, NEW e \in Exchanges, NEW gone, NEW state,
         Clean(s, gone, state), e \notin gone,
         e[2] # None => state[e[2]].pc # "new"
  PROVE  Clean(Append(s, e), gone, state)
BY AppendHistory DEF Clean

LEMMA SingleClean ==
  ASSUME NEW e \in Exchanges, NEW gone, NEW state, e \notin gone,
         e[2] # None => state[e[2]].pc # "new"
  PROVE  Clean(<<e>>, gone, state)
BY OneElement DEF Clean

LEMMA CleanLater ==
  ASSUME NEW s \in History, NEW gone, NEW before, NEW after,
         Clean(s, gone, before),
         \A w \in Workers : before[w].pc # "new" => after[w].pc # "new"
  PROVE  Clean(s, gone, after)
<1> SUFFICES ASSUME NEW i \in DOMAIN s
             PROVE  s[i] \notin gone /\ (s[i][2] # None => after[s[i][2]].pc # "new")
  BY DEF Clean
<1>1. s[i] \in Exchanges BY DEF History
<1> QED BY <1>1, ExchangeType DEF Clean

(* --------------------------- one worker's step --------------------------- *)

\* The two states differ in stale at most.
Like(a, b) == /\ a.pc = b.pc /\ a.obj = b.obj /\ a.what = b.what
              /\ a.nudges = b.nudges /\ a.data = b.data /\ a.snap = b.snap

Others(base) == /\ base \in [Workers -> WorkerState]
                /\ \A v \in Workers : Like(base[v], work[v])

LEMMA OthersFacts ==
  ASSUME TypeOK
  PROVE  /\ Others(work)
         /\ Others(Unlinked)
         /\ \A o \in Objects : Others(Rechatted(o))
<1>1. \A v \in Workers : /\ [work[v] EXCEPT !.stale = TRUE] \in WorkerState
                          /\ Like([work[v] EXCEPT !.stale = TRUE], work[v])
                          /\ Like(work[v], work[v])
  BY DEF TypeOK, WorkerState, Like
<1>2. Others(work) BY <1>1 DEF TypeOK, Others
<1>3. Others(Unlinked) BY <1>1 DEF TypeOK, Others, Unlinked
<1>4. \A o \in Objects : Others(Rechatted(o)) BY <1>1 DEF TypeOK, Others, Rechatted
<1> QED BY <1>2, <1>3, <1>4

\* Worker w goes from one state to the next, the others change in stale only.
LEMMA WorkerStep ==
  ASSUME HInv, NEW w \in Workers, NEW n \in WorkerState, NEW base, Others(base),
         work' = [base EXCEPT ![w] = n],
         work[w].pc # "ended", n.pc # "new",
         WorkerOK(w, n),
         live' \in Objects \cup {None}, hist' \in [Objects -> History],
         file' \in File, lock' \in Turns \cup {None}, crashes' = crashes,
         owed' \subseteq Exchanges, cleared' = cleared, purged' = purged,
         \A t \in Turns \ {w} : lock' = t <=> lock = t,
         w \in Turns =>
           (lock' = w <=> n.what \in {"ask", "summary", "rollback"}
                            /\ n.pc \notin {"new", "ended"}),
         Clean(file'.data, purged, work'),
         Clean(n.data, purged, work'), Clean(n.snap, purged, work'),
         \A o \in Objects : (o \notin Unused \/ o = live' \/ o = n.obj) =>
           Clean(hist'[o], purged, work')
  PROVE  HInv'
<1>1. /\ work' \in [Workers -> WorkerState]
      /\ work'[w] = n
      /\ \A v \in Workers \ {w} : Like(work'[v], work[v])
  BY DEF Others
<1>2. TypeOK' BY <1>1 DEF HInv, TypeOK
<1>3. \A v \in Workers : WorkerOK(v, work'[v])
  BY <1>1 DEF HInv, WorkerOK, Like
<1>4. OneCompaction'
  BY <1>1, WorkersSplit DEF HInv, OneCompaction, Compacting, Idle, Like
<1>5. \A v \in Workers : work[v].pc # "new" => work'[v].pc # "new"
  BY <1>1 DEF Like
<1>6. CleanInv'
  <2>1. \A o \in Objects : o \notin Unused' => o \notin Unused \/ o = live' \/ o = n.obj
    BY <1>1 DEF Unused, Like
  <2>2. \A v \in Workers \ {w} : /\ Clean(work'[v].data, purged, work')
                                 /\ Clean(work'[v].snap, purged, work')
    <3> SUFFICES ASSUME NEW v \in Workers \ {w}
                 PROVE  /\ Clean(work'[v].data, purged, work')
                        /\ Clean(work'[v].snap, purged, work')
      OBVIOUS
    <3>1. /\ work'[v].data = work[v].data /\ work'[v].snap = work[v].snap
          /\ work[v].data \in History /\ work[v].snap \in History
      BY <1>1 DEF Like, HInv, TypeOK, WorkerState
    <3>2. Clean(work[v].data, purged, work) /\ Clean(work[v].snap, purged, work)
      BY DEF HInv, CleanInv
    <3> QED BY <3>1, <3>2, <1>5, CleanLater
  <2> QED BY <1>1, <2>1, <2>2 DEF CleanInv
<1>7. PurgedInv'
  <2> SUFFICES ASSUME NEW e \in purged, e[2] # None PROVE work'[e[2]].pc = "ended"
    BY DEF PurgedInv
  <2>1. e[2] \in Workers BY ExchangeType DEF HInv, TypeOK
  <2>2. work[e[2]].pc = "ended" BY DEF HInv, PurgedInv
  <2> QED BY <2>1, <2>2, <1>1 DEF Like
<1> QED BY <1>2, <1>3, <1>4, <1>6, <1>7 DEF HInv

\* What was clean before such a step is clean after it.
LEMMA StaysClean ==
  ASSUME HInv, NEW w \in Workers, NEW n, NEW base, Others(base),
         work' = [base EXCEPT ![w] = n], n.pc # "new"
  PROVE  /\ \A s \in History : Clean(s, purged, work) => Clean(s, purged, work')
         /\ work'[w].pc # "new"
<1>1. \A v \in Workers : work[v].pc # "new" => work'[v].pc # "new"
  BY DEF Others, Like
<1> QED BY <1>1, CleanLater DEF Others

\* An active worker's exchanges have not been purged.
LEMMA NotPurged ==
  ASSUME HInv, NEW w \in Workers, work[w].pc # "ended", NEW k
  PROVE  <<k, w>> \notin purged
<1> SUFFICES ASSUME <<k, w>> \in purged PROVE FALSE OBVIOUS
<1>1. <<k, w>>[2] = w OBVIOUS
<1>2. work[w].pc = "ended" BY <1>1, WorkersSplit DEF HInv, PurgedInv
<1> QED BY <1>2

(* ------------------------------ the actions ------------------------------ *)

LEMMA InitHInv == Init => HInv
<1> SUFFICES ASSUME Init PROVE HInv OBVIOUS
<1>0. \A w \in Workers : Fresh(w) \in WorkerState
  BY SettingsAssumption, EmptyHistory DEF Fresh, Off, WorkerState
<1>1. file \in File /\ owed \subseteq Exchanges
  <2>1. NoFile \in File BY EmptyHistory DEF NoFile, File
  <2>2. [exists |-> TRUE, ok |-> TRUE, data |-> <<Old>>] \in File
    BY OneElement, ExchangeType DEF File
  <2>3. file \in File BY <2>1, <2>2 DEF Init
  <2> QED BY <2>3, ContentType DEF Init, File
<1>2. TypeOK
  BY <1>0, <1>1, EmptyHistory, SettingsAssumption DEF Init, TypeOK
<1>3. \A w \in Workers : WorkerOK(w, work[w])
  BY WorkersSplit DEF Init, WorkerOK, Fresh, Off
<1>4. OneCompaction
  BY WorkersSplit DEF Init, OneCompaction, Compacting, Idle, Fresh, Off
<1>5. CleanInv
  <2>1. Clean(NoFile.data, purged, work) BY EmptyClean DEF NoFile
  <2>2. Clean(<<Old>>, purged, work)
    BY SingleClean, ExchangeType DEF Init
  <2>3. Clean(file.data, purged, work) BY <2>1, <2>2 DEF Init
  <2> QED BY <2>3, EmptyClean DEF Init, CleanInv, Fresh, Off
<1> QED BY <1>2, <1>3, <1>4, <1>5 DEF Init, HInv, PurgedInv

\* Steps that only move w on: no history, no file, no lock changes.
LEMMA MoveOn ==
  ASSUME HInv, NEW w \in Workers, NEW n \in WorkerState,
         work' = [work EXCEPT ![w] = n],
         UNCHANGED <<live, hist, file, lock, crashes, ghosts>>,
         work[w].pc # "ended", n.pc # "new",
         WorkerOK(w, n),
         n.obj \in {work[w].obj, None},
         \/ n.data \in {<<>>, work[w].data, file.data}
         \/ work[w].obj \in Objects /\ n.data = hist[work[w].obj],
         n.snap \in {<<>>, work[w].snap},
         w \in Turns => (lock = w <=> n.what \in {"ask", "summary", "rollback"}
                                       /\ n.pc \notin {"new", "ended"})
  PROVE  HInv'
<1>1. TypeOK /\ Others(work) BY OthersFacts DEF HInv
<1>2. \A s \in History : Clean(s, purged, work) => Clean(s, purged, work')
  BY <1>1, StaysClean
<1>3. /\ file.data \in History /\ work[w].data \in History /\ work[w].snap \in History
      /\ Clean(file.data, purged, work)
      /\ Clean(work[w].data, purged, work) /\ Clean(work[w].snap, purged, work)
  BY DEF HInv, TypeOK, CleanInv, File, WorkerState
<1>4. \A o \in Objects : hist[o] \in History /\ (o \notin Unused => Clean(hist[o], purged, work))
  BY DEF HInv, TypeOK, CleanInv
<1>5. work[w].obj \in Objects => work[w].obj \notin Unused BY DEF Unused
<1>6. Clean(n.data, purged, work') /\ Clean(n.snap, purged, work')
  BY <1>2, <1>3, <1>4, <1>5, EmptyClean
<1>7. \A o \in Objects : (o \notin Unused \/ o = live' \/ o = n.obj) =>
           Clean(hist'[o], purged, work')
  BY <1>2, <1>4, <1>5, WorkersSplit DEF Unused
<1> QED BY <1>1, <1>2, <1>3, <1>6, <1>7, WorkerStep DEF HInv, TypeOK, ghosts

LEMMA EndedFacts ==
  ASSUME NEW w \in Workers
  PROVE  /\ Ended(w) \in WorkerState /\ WorkerOK(w, Ended(w))
         /\ Ended(w).pc = "ended" /\ Ended(w).obj = None
         /\ Ended(w).data = <<>> /\ Ended(w).snap = <<>>
<1> DEFINE k == IF w \in Turns THEN "answer" ELSE "inject"
<1>1. Ended(w) = [pc |-> "ended", obj |-> None, nudges |-> 0, stale |-> FALSE,
                  what |-> k, data |-> <<>>, snap |-> <<>>]
  BY DEF Ended, Off
<1>k. k \in {"answer", "inject"} /\ (k = "answer" <=> w \in Turns) OBVIOUS
<1> HIDE DEF k
<1>2. 0 \in 0 .. MaxNudges BY SettingsAssumption
<1>3. Ended(w) \in WorkerState BY <1>1, <1>2, <1>k, EmptyHistory DEF WorkerState
<1>4. WorkerOK(w, Ended(w)) BY <1>1, <1>k, WorkersSplit DEF WorkerOK
<1> QED BY <1>1, <1>3, <1>4

\* The same for a turn that tells the user of its compaction.
LEMMA NotifyingFacts ==
  ASSUME NEW w \in Turns
  PROVE  /\ Notifying(w) \in WorkerState /\ WorkerOK(w, Notifying(w))
         /\ Notifying(w).pc = "notifying" /\ Notifying(w).obj = None
         /\ Notifying(w).what = "summary" /\ Notifying(w).stale = FALSE
         /\ Notifying(w).data = <<>> /\ Notifying(w).snap = <<>>
<1>0. 0 \in 0 .. MaxNudges BY SettingsAssumption
<1>1. Notifying(w) \in WorkerState BY <1>0, EmptyHistory, WorkersSplit DEF WorkerState, Notifying
<1>2. WorkerOK(w, Notifying(w)) BY WorkersSplit DEF WorkerOK, Notifying
<1> QED BY <1>1, <1>2 DEF Notifying

LEMMA RestoringHInv ==
  ASSUME HInv, NEW w \in Workers, Restoring(w) PROVE HInv'
<1> DEFINE n == [work[w] EXCEPT !.pc = "restoring"]
<1>1. n \in WorkerState /\ work' = [work EXCEPT ![w] = n] /\ work[w].pc = "new"
  BY DEF HInv, TypeOK, WorkerState, Restoring
<1>2. WorkerOK(w, work[w]) /\ work[w] \in WorkerState BY DEF HInv, TypeOK
<1>3. WorkerOK(w, n) BY <1>1, <1>2 DEF WorkerOK, WorkerState
<1>4. w \in Turns => lock # w /\ work[w].what = "answer"
  BY <1>1, <1>2 DEF HInv, OneCompaction, Compacting, Idle, WorkerOK
<1>5. n.obj = work[w].obj /\ n.data = work[w].data /\ n.snap = work[w].snap
      /\ n.pc = "restoring" /\ n.what = work[w].what
  BY <1>2 DEF WorkerState
<1> HIDE DEF n
<1> QED BY <1>1, <1>3, <1>4, <1>5, MoveOn DEF Restoring

LEMMA RestoreReadHInv ==
  ASSUME HInv, NEW w \in Workers, RestoreRead(w) PROVE HInv'
<1> DEFINE n == [work[w] EXCEPT !.pc = "restored",
                                !.data = IF file.ok THEN file.data ELSE <<>>]
<1>0. file.data \in History BY DEF HInv, TypeOK, File
<1>1. n \in WorkerState /\ work' = [work EXCEPT ![w] = n] /\ work[w].pc = "restoring"
  BY <1>0, EmptyHistory DEF HInv, TypeOK, WorkerState, RestoreRead
<1>2. WorkerOK(w, work[w]) /\ work[w] \in WorkerState BY DEF HInv, TypeOK
<1>3. WorkerOK(w, n) BY <1>1, <1>2 DEF WorkerOK, WorkerState
<1>4. w \in Turns => lock # w /\ work[w].what = "answer"
  BY <1>1, <1>2 DEF HInv, OneCompaction, Compacting, Idle, WorkerOK
<1>5. n.obj = work[w].obj /\ n.data \in {<<>>, file.data} /\ n.snap = work[w].snap
      /\ n.pc = "restored" /\ n.what = work[w].what
  BY <1>2 DEF WorkerState
<1> HIDE DEF n
<1> QED BY <1>1, <1>3, <1>4, <1>5, MoveOn DEF RestoreRead

LEMMA SendMessageHInv ==
  ASSUME HInv, NEW w \in Workers, SendMessage(w) PROVE HInv'
<1> DEFINE n == [work[w] EXCEPT !.pc = "sending"]
<1>1. n \in WorkerState /\ work' = [work EXCEPT ![w] = n] /\ work[w].pc = "ready"
  BY DEF HInv, TypeOK, WorkerState, SendMessage
<1>2. WorkerOK(w, work[w]) /\ work[w] \in WorkerState BY DEF HInv, TypeOK
<1>3. WorkerOK(w, n) BY <1>1, <1>2 DEF WorkerOK, WorkerState
<1>4. w \in Turns => (lock = w <=> work[w].what \in {"ask", "summary", "rollback"})
  BY <1>1 DEF HInv, OneCompaction, Compacting, Idle
<1>5. n.obj = work[w].obj /\ n.data = work[w].data /\ n.snap = work[w].snap
      /\ n.pc = "sending" /\ n.what = work[w].what
  BY <1>2 DEF WorkerState
<1> HIDE DEF n
<1> QED BY <1>1, <1>3, <1>4, <1>5, MoveOn DEF SendMessage

LEMMA ModelSilentHInv ==
  ASSUME HInv, NEW w \in Workers, ModelSilent(w) PROVE HInv'
<1> DEFINE n == Saving(work[w], "blank", hist[work[w].obj])
<1>1. work' = [work EXCEPT ![w] = n] /\ work[w].pc = "sending" /\ work[w].what = "answer"
  BY DEF ModelSilent
<1>2. WorkerOK(w, work[w]) /\ work[w] \in WorkerState BY DEF HInv, TypeOK
<1>3. work[w].obj \in Objects /\ hist[work[w].obj] \in History
  BY <1>1, <1>2 DEF WorkerOK, HInv, TypeOK
<1>4. n \in WorkerState /\ WorkerOK(w, n)
  BY <1>1, <1>2, <1>3 DEF WorkerOK, WorkerState, Saving
<1>5. w \in Turns => lock # w
  BY <1>1 DEF HInv, OneCompaction, Compacting
<1>6. n.obj = work[w].obj /\ n.data = hist[work[w].obj] /\ n.snap = work[w].snap
      /\ n.pc = "saving" /\ n.what = "blank"
  BY <1>2 DEF WorkerState, Saving
<1> HIDE DEF n
<1> QED BY <1>1, <1>3, <1>4, <1>5, <1>6, MoveOn DEF ModelSilent

\* A turn that was not compacting is over.
LEMMA TurnOver ==
  ASSUME HInv, NEW w \in Workers, work' = [work EXCEPT ![w] = Ended(w)],
         UNCHANGED <<live, hist, file, lock, crashes, ghosts>>,
         work[w].pc # "ended",
         work[w].what \notin {"ask", "summary", "rollback"}
  PROVE  HInv'
<1>1. w \in Turns => lock # w BY DEF HInv, OneCompaction, Compacting
<1> QED BY <1>1, EndedFacts, MoveOn

LEMMA TurnFailsHInv ==
  ASSUME HInv, NEW w \in Workers, TurnFails(w) PROVE HInv'
BY TurnOver DEF TurnFails

LEMMA NoCompactionHInv ==
  ASSUME HInv, NEW w \in Workers, NoCompaction(w) PROVE HInv'
<1>1. WorkerOK(w, work[w]) BY DEF HInv
<1> QED BY <1>1, TurnOver DEF NoCompaction, WorkerOK

LEMMA SaveOpenHInv ==
  ASSUME HInv, NEW w \in Workers, SaveOpen(w) PROVE HInv'
<1> DEFINE n == [work[w] EXCEPT !.pc = "writing"]
<1>1. n \in WorkerState /\ work' = [work EXCEPT ![w] = n] /\ work[w].pc = "saving"
  BY DEF HInv, TypeOK, WorkerState, SaveOpen
<1>2. WorkerOK(w, work[w]) /\ work[w] \in WorkerState BY DEF HInv, TypeOK
<1>3. WorkerOK(w, n) BY <1>1, <1>2 DEF WorkerOK, WorkerState
<1>4. n.obj = work[w].obj /\ n.data = work[w].data /\ n.snap = work[w].snap
      /\ n.pc = "writing" /\ n.what = work[w].what
  BY <1>2 DEF WorkerState
<1>5. w \in Turns => (lock = w <=> work[w].what \in {"ask", "summary", "rollback"})
  BY <1>1 DEF HInv, OneCompaction, Compacting, Idle
<1>6. file' \in File /\ file'.data = <<>> BY EmptyHistory DEF SaveOpen, File
<1> HIDE DEF n
<1>7. Others(work) /\ \A s \in History : Clean(s, purged, work) => Clean(s, purged, work')
  BY <1>1, <1>4, OthersFacts, StaysClean DEF HInv
<1>8. /\ work[w].data \in History /\ work[w].snap \in History
      /\ Clean(work[w].data, purged, work) /\ Clean(work[w].snap, purged, work)
      /\ \A o \in Objects : hist[o] \in History /\ (o \notin Unused => Clean(hist[o], purged, work))
  BY <1>2 DEF HInv, TypeOK, CleanInv, WorkerState
<1>9. \A o \in Objects : (o \notin Unused \/ o = live' \/ o = n.obj) =>
           Clean(hist'[o], purged, work')
  BY <1>4, <1>7, <1>8 DEF SaveOpen, Unused
<1> QED
  BY <1>1, <1>3, <1>4, <1>5, <1>6, <1>7, <1>8, <1>9, EmptyClean, WorkerStep
  DEF SaveOpen, HInv, TypeOK, ghosts

\* A save that is over: the file holds what it did, or what was written.
LEMMA SaveOverHInv ==
  ASSUME HInv, NEW w \in Workers, SaveOver(w),
         work[w].pc \in {"saving", "writing"},
         file' \in File, file'.data \in {file.data, work[w].data}
  PROVE  HInv'
<1>2. WorkerOK(w, work[w]) /\ work[w] \in WorkerState BY DEF HInv, TypeOK
<1>3. work[w].obj \in Objects BY <1>2 DEF WorkerOK
<1> DEFINE n == AfterSave(w)
           kept == [work[w] EXCEPT !.data = <<>>, !.stale = FALSE]
<1>4. /\ kept \in WorkerState /\ kept.obj = work[w].obj /\ kept.data = <<>>
      /\ kept.snap = work[w].snap /\ kept.what = work[w].what
      /\ kept.nudges = work[w].nudges
  BY <1>2, EmptyHistory DEF WorkerState
<1>5. n = CASE work[w].what = "answer" -> [kept EXCEPT !.pc = "replied"]
            [] work[w].what = "ask"    -> [kept EXCEPT !.pc = "asked"]
            [] work[w].what = "blank" /\ MayNudge(w) ->
                 [kept EXCEPT !.pc = "ready", !.what = "answer", !.nudges = @ + 1]
            [] work[w].what = "blank" /\ ~MayNudge(w) ->
                 [kept EXCEPT !.pc = "replied", !.what = "answer"]
            [] work[w].what = "summary" -> Notifying(w)
            [] OTHER -> Ended(w)
  BY DEF AfterSave
<1> HIDE DEF kept, n
<1>6. /\ n \in WorkerState
      /\ n.obj \in {work[w].obj, None} /\ n.data = <<>>
      /\ n.snap \in {work[w].snap, <<>>} /\ n.pc # "new"
      /\ WorkerOK(w, n)
      /\ n.what \in {"ask", "summary", "rollback"} /\ n.pc # "ended"
           <=> work[w].what \in {"ask", "summary"}
  <2>0. work[w].what \in {"answer", "blank", "ask", "summary", "rollback", "inject"}
        /\ work[w].nudges \in 0 .. MaxNudges
        /\ kept.what \in {"answer", "blank", "ask", "summary", "rollback", "inject"}
    BY <1>2, <1>4 DEF WorkerState
  <2>1. CASE work[w].what = "answer"
    <3>1. n = [kept EXCEPT !.pc = "replied"] BY <1>5, <2>1
    <3>2. n \in WorkerState /\ n.pc = "replied" /\ n.obj = work[w].obj /\ n.data = <<>>
          /\ n.snap = work[w].snap /\ n.what = "answer"
      BY <3>1, <1>4, <2>1 DEF WorkerState
    <3> QED BY <3>2, <1>2, <1>3, <2>1 DEF WorkerOK
  <2>2. CASE work[w].what = "ask"
    <3>1. n = [kept EXCEPT !.pc = "asked"] BY <1>5, <2>2
    <3>2. n \in WorkerState /\ n.pc = "asked" /\ n.obj = work[w].obj /\ n.data = <<>>
          /\ n.snap = work[w].snap /\ n.what = "ask"
      BY <3>1, <1>4, <2>2 DEF WorkerState
    <3> QED BY <3>2, <1>2, <1>3, <2>2 DEF WorkerOK
  <2>3. CASE work[w].what = "blank" /\ MayNudge(w)
    <3>1. n = [kept EXCEPT !.pc = "ready", !.what = "answer", !.nudges = @ + 1]
      BY <1>5, <2>3
    <3>2. work[w].nudges + 1 \in 0 .. MaxNudges
      BY <2>0, <2>3, SettingsAssumption DEF MayNudge
    <3>3. n \in WorkerState /\ n.pc = "ready" /\ n.obj = work[w].obj /\ n.data = <<>>
          /\ n.snap = work[w].snap /\ n.what = "answer"
      BY <3>1, <3>2, <1>4, <2>3 DEF WorkerState
    <3> QED BY <3>3, <1>2, <1>3, <2>3 DEF WorkerOK
  <2>4. CASE work[w].what = "blank" /\ ~MayNudge(w)
    <3>1. n = [kept EXCEPT !.pc = "replied", !.what = "answer"] BY <1>5, <2>4
    <3>2. n \in WorkerState /\ n.pc = "replied" /\ n.obj = work[w].obj /\ n.data = <<>>
          /\ n.snap = work[w].snap /\ n.what = "answer"
      BY <3>1, <1>4, <2>4 DEF WorkerState
    <3> QED BY <3>2, <1>2, <1>3, <2>4 DEF WorkerOK
  <2>5. CASE work[w].what \in {"rollback", "inject"}
    <3>1. n = Ended(w) BY <1>5, <2>5
    <3> QED BY <3>1, <2>5, EndedFacts
  <2>6. CASE work[w].what = "summary"
    <3>1. n = Notifying(w) BY <1>5, <2>6
    <3>2. w \in Turns BY <2>6, <1>2, WorkersSplit DEF WorkerOK
    <3> QED BY <3>1, <3>2, <2>6, NotifyingFacts
  <2> QED BY <2>0, <2>1, <2>2, <2>3, <2>4, <2>5, <2>6
<1>7. work' = [work EXCEPT ![w] = n] BY DEF SaveOver, n
<1>8. Others(work) /\ \A s \in History : Clean(s, purged, work) => Clean(s, purged, work')
  BY <1>6, <1>7, OthersFacts, StaysClean DEF HInv
<1>9. /\ work[w].data \in History /\ work[w].snap \in History /\ file.data \in History
      /\ Clean(work[w].data, purged, work) /\ Clean(work[w].snap, purged, work)
      /\ Clean(file.data, purged, work)
      /\ \A o \in Objects : hist[o] \in History /\ (o \notin Unused => Clean(hist[o], purged, work))
  BY <1>2 DEF HInv, TypeOK, CleanInv, WorkerState, File
<1>10. \A o \in Objects : (o \notin Unused \/ o = live' \/ o = n.obj) =>
           Clean(hist'[o], purged, work')
  BY <1>6, <1>8, <1>9, WorkersSplit DEF SaveOver, Unused
<1>11. owed' \subseteq Exchanges
  BY ExchangeType DEF SaveOver, HInv, TypeOK
<1>12. /\ lock' \in Turns \cup {None}
       /\ \A t \in Turns \ {w} : lock' = t <=> lock = t
       /\ w \in Turns => (lock' = w <=> n.what \in {"ask", "summary", "rollback"}
                                         /\ n.pc \notin {"new", "ended"})
  <2>1. work[w].what \in {"ask", "summary", "rollback"} /\ w \in Turns <=> lock = w
    BY WorkersSplit DEF HInv, TypeOK, OneCompaction, Compacting, Idle
  <2>2. work[w].what \in {"ask", "summary", "rollback"} => w \in Turns
    BY <1>2, WorkersSplit DEF WorkerOK
  <2> QED BY <2>1, <2>2, <1>6, WorkersSplit DEF SaveOver, HInv, TypeOK
<1>13. Clean(file'.data, purged, work') /\ Clean(n.snap, purged, work')
       /\ Clean(n.data, purged, work')
  BY <1>6, <1>8, <1>9, EmptyClean
<1> QED
  BY <1>6, <1>7, <1>8, <1>10, <1>11, <1>12, <1>13, WorkerStep
  DEF SaveOver, HInv, TypeOK

LEMMA SaveWriteHInv ==
  ASSUME HInv, NEW w \in Workers, SaveWrite(w) PROVE HInv'
<1>1. file \in File /\ work[w].data \in History
  BY DEF HInv, TypeOK, WorkerState
<1>2. file' \in File /\ file'.data \in {file.data, work[w].data}
  BY <1>1 DEF SaveWrite, File
<1> QED BY <1>2, SaveOverHInv DEF SaveWrite

LEMMA SaveFailsHInv ==
  ASSUME HInv, NEW w \in Workers, SaveFails(w) PROVE HInv'
BY SaveOverHInv DEF SaveFails, HInv, TypeOK

\* Worker w gives its object another history h and goes on to save it.
LEMMA HistoryStep ==
  ASSUME HInv, NEW w \in Workers, NEW base, Others(base), NEW h \in History,
         NEW k \in {"answer", "ask", "summary", "rollback"},
         work' = [base EXCEPT ![w] = Saving(base[w], k, h)],
         hist' \in {hist, [hist EXCEPT ![work[w].obj] = h]},
         hist' = hist => h = hist[work[w].obj],
         UNCHANGED <<live, file, lock, crashes, cleared, purged>>,
         owed' \subseteq Exchanges,
         work[w].pc \notin {"new", "restoring", "restored", "notifying", "ended"},
         w \in Turns,
         k = "answer" <=> work[w].what \in {"answer", "blank"},
         Clean(h, purged, work)
  PROVE  HInv'
<1> DEFINE n == Saving(base[w], k, h)
<1>1. WorkerOK(w, work[w]) /\ work[w] \in WorkerState /\ base[w] \in WorkerState
      /\ Like(base[w], work[w])
  BY DEF HInv, TypeOK, Others
<1>2. work[w].obj \in Objects BY <1>1 DEF WorkerOK
<1>3. /\ n \in WorkerState /\ n.pc = "saving" /\ n.obj = work[w].obj
      /\ n.data = h /\ n.snap = work[w].snap /\ n.what = k
  BY <1>1 DEF Saving, WorkerState, Like
<1>4. WorkerOK(w, n) BY <1>1, <1>2, <1>3, WorkersSplit DEF WorkerOK
<1>5. work' = [base EXCEPT ![w] = n] OBVIOUS
<1> HIDE DEF n
<1>6. \A s \in History : Clean(s, purged, work) => Clean(s, purged, work')
  BY <1>3, <1>5, StaysClean
<1>7. /\ file.data \in History /\ work[w].snap \in History
      /\ Clean(file.data, purged, work) /\ Clean(work[w].snap, purged, work)
      /\ \A o \in Objects : hist[o] \in History /\ (o \notin Unused => Clean(hist[o], purged, work))
  BY <1>1 DEF HInv, TypeOK, CleanInv, File, WorkerState
<1>8. hist' \in [Objects -> History] BY <1>2 DEF HInv, TypeOK
<1>9. \A o \in Objects : (o \notin Unused \/ o = live' \/ o = n.obj) =>
           Clean(hist'[o], purged, work')
  BY <1>3, <1>6, <1>7 DEF Unused, HInv, TypeOK
<1>10. lock = w <=> n.what \in {"ask", "summary", "rollback"} /\ n.pc \notin {"new", "ended"}
  <2>1. work[w].what \in {"answer", "blank", "ask", "summary", "rollback"}
    BY <1>1 DEF WorkerState, WorkerOK
  <2> QED BY <2>1, <1>3 DEF HInv, OneCompaction, Compacting, Idle
<1> QED
  BY <1>3, <1>4, <1>5, <1>6, <1>7, <1>8, <1>9, <1>10, WorkerStep DEF HInv, TypeOK

LEMMA ModelAnswersHInv ==
  ASSUME HInv, NEW w \in Workers, ModelAnswers(w) PROVE HInv'
<1> DEFINE e == <<IF work[w].what = "answer" THEN "turn" ELSE "ask", w>>
           h == hist'[work[w].obj]
<1>1. /\ WorkerOK(w, work[w]) /\ work[w] \in WorkerState /\ work[w].pc = "sending"
      /\ hist' = Recorded(w, e)
      /\ work' = [work EXCEPT ![w] = Saving(work[w], work[w].what, h)]
      /\ UNCHANGED <<live, file, lock, crashes, owed, cleared, purged>>
  BY DEF HInv, TypeOK, ModelAnswers, ghosts
<1>2. /\ work[w].obj \in Objects /\ w \in Turns
      /\ work[w].what \in {"answer", "ask"}
      /\ hist[work[w].obj] \in History /\ hist \in [Objects -> History]
      /\ Clean(hist[work[w].obj], purged, work)
  BY <1>1, WorkersSplit DEF WorkerOK, HInv, TypeOK, CleanInv, Unused
<1>3. e \in Exchanges /\ e \notin purged /\ e[2] = w
  BY <1>1, ExchangeType, NotPurged
<1> HIDE DEF e
<1>4. Append(hist[work[w].obj], e) \in History
      /\ Clean(Append(hist[work[w].obj], e), purged, work)
  BY <1>1, <1>2, <1>3, AppendHistory, AppendClean
<1>5. \/ hist' = hist /\ h = hist[work[w].obj]
      \/ hist' = [hist EXCEPT ![work[w].obj] = Append(hist[work[w].obj], e)]
         /\ h = Append(hist[work[w].obj], e)
  BY <1>1, <1>2 DEF Recorded
<1>6. h \in History /\ Clean(h, purged, work) BY <1>2, <1>4, <1>5
<1>7. hist' \in {hist, [hist EXCEPT ![work[w].obj] = h]}
      /\ (hist' = hist => h = hist[work[w].obj])
  BY <1>5
<1> HIDE DEF h
<1>8. owed' \subseteq Exchanges BY <1>1 DEF HInv, TypeOK
<1> QED
  BY <1>1, <1>2, <1>6, <1>7, <1>8, HistoryStep, OthersFacts DEF HInv

LEMMA RewriteHInv ==
  ASSUME HInv, NEW w \in Workers, NEW k \in {"summary", "rollback"}, NEW h \in History,
         Rewrite(w, k, h), owed' \subseteq owed, work[w].what = "ask",
         work[w].pc \in {"ready", "sending", "saving", "writing", "asked"},
         Clean(h, purged, work)
  PROVE  HInv'
<1>1. work[w].obj \in Objects /\ w \in Turns
  BY WorkersSplit DEF HInv, WorkerOK
<1>2. Others(Rechatted(work[w].obj)) BY <1>1, OthersFacts DEF HInv
<1> DEFINE base == Rechatted(work[w].obj)
<1>3. work' = [base EXCEPT ![w] = Saving(base[w], k, h)] BY DEF Rewrite
<1>4. hist' = [hist EXCEPT ![work[w].obj] = h] /\ hist \in [Objects -> History]
  BY DEF Rewrite, HInv, TypeOK
<1>5. hist' = hist => h = hist[work[w].obj] BY <1>1, <1>4
<1>6. owed' \subseteq Exchanges BY DEF HInv, TypeOK
<1> HIDE DEF base
<1>7. Others(base) BY <1>2 DEF base
<1>8. /\ k \in {"answer", "ask", "summary", "rollback"}
      /\ k = "answer" <=> work[w].what \in {"answer", "blank"}
      /\ work[w].pc \notin {"new", "restoring", "restored", "notifying", "ended"}
  OBVIOUS
<1>9. UNCHANGED <<live, file, lock, crashes, cleared, purged>> BY DEF Rewrite
<1> QED BY <1>1, <1>3, <1>4, <1>5, <1>6, <1>7, <1>8, <1>9, HistoryStep

LEMMA ReplaceHistoryHInv ==
  ASSUME HInv, NEW w \in Workers, ReplaceHistory(w) PROVE HInv'
<1>1. work[w].what = "ask" /\ work[w].pc = "asked"
  BY DEF ReplaceHistory, HInv, WorkerOK
<1>2. <<"summary", w>> \in Exchanges /\ <<"summary", w>> \notin purged
  BY <1>1, ExchangeType, NotPurged
<1>3. << <<"summary", w>> >> \in History /\ Clean(<< <<"summary", w>> >>, purged, work)
  BY <1>1, <1>2, OneElement, SingleClean
<1> QED BY <1>1, <1>3, RewriteHInv DEF ReplaceHistory

LEMMA RollbackHInv ==
  ASSUME HInv, NEW w \in Workers, Rollback(w) PROVE HInv'
<1>1. /\ work[w].what = "ask"
      /\ work[w].pc \in {"ready", "sending", "saving", "writing", "asked"}
  BY DEF Rollback, AskFails, HInv, WorkerOK
<1>2. work[w].snap \in History /\ Clean(work[w].snap, purged, work)
  BY DEF HInv, TypeOK, WorkerState, CleanInv
<1> QED BY <1>1, <1>2, RewriteHInv DEF Rollback

LEMMA BeginCompactionHInv ==
  ASSUME HInv, NEW w \in Workers, BeginCompaction(w) PROVE HInv'
<1> DEFINE n == [work[w] EXCEPT !.pc = "ready", !.what = "ask",
                                !.snap = hist[work[w].obj]]
<1>1. /\ WorkerOK(w, work[w]) /\ work[w] \in WorkerState /\ work[w].pc = "replied"
      /\ work' = [work EXCEPT ![w] = n] /\ lock = None /\ lock' = w
  BY DEF HInv, TypeOK, BeginCompaction, AskToCompact
<1>2. /\ work[w].obj \in Objects /\ w \in Turns /\ work[w].obj \notin Unused
      /\ hist[work[w].obj] \in History
      /\ Clean(hist[work[w].obj], purged, work)
  BY <1>1, WorkersSplit DEF WorkerOK, HInv, TypeOK, CleanInv, Unused
<1>3. /\ n \in WorkerState /\ n.pc = "ready" /\ n.obj = work[w].obj /\ n.what = "ask"
      /\ n.data = work[w].data /\ n.snap = hist[work[w].obj]
  BY <1>1, <1>2 DEF WorkerState
<1>4. WorkerOK(w, n) BY <1>1, <1>2, <1>3, WorkersSplit DEF WorkerOK
<1> HIDE DEF n
<1>6. \A s \in History : Clean(s, purged, work) => Clean(s, purged, work')
  BY <1>1, <1>3, OthersFacts, StaysClean DEF HInv
<1>7. /\ file.data \in History /\ work[w].data \in History
      /\ Clean(file.data, purged, work) /\ Clean(work[w].data, purged, work)
      /\ \A o \in Objects : hist[o] \in History /\ (o \notin Unused => Clean(hist[o], purged, work))
  BY <1>1 DEF HInv, TypeOK, CleanInv, File, WorkerState
<1>8. \A t \in Turns \ {w} : lock' = t <=> lock = t
  BY <1>1, WorkersSplit
<1>9. \A o \in Objects : (o \notin Unused \/ o = live' \/ o = n.obj) =>
           Clean(hist'[o], purged, work')
  BY <1>2, <1>3, <1>6, <1>7 DEF BeginCompaction, AskToCompact, Unused
<1>10. Others(work) BY OthersFacts DEF HInv
<1>11. /\ Clean(file'.data, purged, work')
       /\ Clean(n.data, purged, work') /\ Clean(n.snap, purged, work')
  BY <1>2, <1>3, <1>6, <1>7 DEF BeginCompaction, AskToCompact
<1>12. /\ live' \in Objects \cup {None} /\ hist' \in [Objects -> History]
       /\ file' \in File /\ crashes' = crashes
       /\ owed' \subseteq Exchanges /\ cleared' = cleared /\ purged' = purged
  BY DEF HInv, TypeOK, BeginCompaction, AskToCompact, ghosts
<1> QED
  BY <1>1, <1>2, <1>3, <1>4, <1>8, <1>9, <1>10, <1>11, <1>12, WorkerStep

\* A turn or an injection gets an object whose history is clean.
LEMMA ObtainHInv ==
  ASSUME HInv, NEW w \in Workers, NEW o \in Objects, NEW histories \in [Objects -> History],
         Obtain(w, o, histories), work[w].pc \in {"new", "restored"},
         live' = o, UNCHANGED <<file, lock, crashes, ghosts>>,
         \A p \in Objects : (p \notin Unused \/ p = o) => Clean(histories[p], purged, work)
  PROVE  HInv'
<1>1. /\ WorkerOK(w, work[w]) /\ work[w] \in WorkerState
      /\ UNCHANGED <<file, lock, crashes, owed, cleared, purged>>
  BY DEF HInv, TypeOK, ghosts
<1>2. /\ work[w].what \in {"answer", "inject"} /\ work[w].snap = <<>>
      /\ (w \in Turns => work[w].what = "answer" /\ lock # w)
  BY <1>1 DEF WorkerOK, HInv, OneCompaction, Compacting
<1>3. file.data \in History /\ Clean(file.data, purged, work)
  BY DEF HInv, TypeOK, File, CleanInv
<1>4. CASE /\ w \in Turns
           /\ hist' = histories
           /\ work' = [work EXCEPT ![w].pc = "ready", ![w].obj = o, ![w].data = <<>>]
  <2> DEFINE n == [work[w] EXCEPT !.pc = "ready", !.obj = o, !.data = <<>>]
  <2>1. work' = [work EXCEPT ![w] = n] BY <1>4 DEF HInv, TypeOK
  <2>2. /\ n \in WorkerState /\ n.pc = "ready" /\ n.obj = o /\ n.data = <<>>
        /\ n.snap = <<>> /\ n.what = "answer"
    BY <1>1, <1>2, <1>4, EmptyHistory DEF WorkerState
  <2>3. WorkerOK(w, n) BY <2>2, <1>4, WorkersSplit DEF WorkerOK
  <2> HIDE DEF n
  <2>4. Others(work) /\ \A s \in History : Clean(s, purged, work) => Clean(s, purged, work')
    BY <2>1, <2>2, OthersFacts, StaysClean DEF HInv
  <2>5. \A p \in Objects : (p \notin Unused \/ p = live' \/ p = n.obj) =>
           Clean(hist'[p], purged, work')
    BY <1>4, <2>2, <2>4
  <2>6. /\ Clean(file'.data, purged, work')
        /\ Clean(n.data, purged, work') /\ Clean(n.snap, purged, work')
    BY <1>1, <1>3, <2>2, <2>4, EmptyClean
  <2>7. lock' = lock /\ lock' # w BY <1>1, <1>2, <1>4
  <2>8. /\ live' \in Objects \cup {None} /\ hist' \in [Objects -> History]
        /\ file' \in File /\ lock' \in Turns \cup {None}
        /\ owed' \subseteq Exchanges
    BY <1>1, <1>4 DEF HInv, TypeOK
  <2> QED
    BY <1>1, <2>1, <2>2, <2>3, <2>4, <2>5, <2>6, <2>7, <2>8, WorkerStep
<1>5. CASE /\ w \in Injections
           /\ hist' = [histories EXCEPT ![o] = Append(@, <<"inject", w>>)]
           /\ work' = [Rechatted(o) EXCEPT
                         ![w] = [Saving(@, "inject", hist'[o]) EXCEPT !.obj = o]]
  <2> DEFINE base == Rechatted(o)
             h == Append(histories[o], <<"inject", w>>)
             n == [Saving(base[w], "inject", h) EXCEPT !.obj = o]
  <2>1. /\ Others(base) /\ base[w] \in WorkerState /\ Like(base[w], work[w])
    BY OthersFacts DEF HInv, Others
  <2>2. hist'[o] = h /\ histories[o] \in History BY <1>5
  <2>3. work' = [base EXCEPT ![w] = n] BY <1>5, <2>2
  <2>4. <<"inject", w>> \in Exchanges /\ <<"inject", w>> \notin purged /\ <<"inject", w>>[2] = w
    BY ExchangeType, NotPurged
  <2>5. h \in History BY <2>2, <2>4, AppendHistory
  <2> HIDE DEF h, base
  <2>6. /\ n \in WorkerState /\ n.pc = "saving" /\ n.obj = o /\ n.data = h
        /\ n.snap = <<>> /\ n.what = "inject"
    BY <2>1, <2>5, <1>2 DEF Saving, WorkerState, Like
  <2>7. WorkerOK(w, n) BY <2>6, <1>5, WorkersSplit DEF WorkerOK
  <2> HIDE DEF n
  <2>8. /\ \A s \in History : Clean(s, purged, work) => Clean(s, purged, work')
        /\ work'[w].pc # "new"
    BY <2>1, <2>3, <2>6, StaysClean
  <2>9. Clean(h, purged, work')
    BY <2>2, <2>4, <2>8, AppendClean DEF h
  <2>10. hist' \in [Objects -> History] BY <1>5, <2>2, <2>5 DEF h
  <2>11. \A p \in Objects : (p \notin Unused \/ p = live' \/ p = n.obj) =>
           Clean(hist'[p], purged, work')
    <3>1. \A p \in Objects : p # o => hist'[p] = histories[p] /\ histories[p] \in History
      BY <1>5
    <3> QED BY <3>1, <2>2, <2>6, <2>8, <2>9
  <2>12. w \notin Turns BY <1>5, WorkersSplit
  <2> QED
    BY <1>1, <1>3, <2>1, <2>3, <2>6, <2>7, <2>8, <2>9, <2>10, <2>11, <2>12,
       EmptyClean, WorkerStep
    DEF HInv, TypeOK
<1> QED BY <1>4, <1>5 DEF Obtain

LEMMA FoundHInv ==
  ASSUME HInv, NEW w \in Workers, Found(w) PROVE HInv'
<1>1. live \in Objects /\ hist \in [Objects -> History] /\ live \notin Unused
  BY DEF Found, HInv, TypeOK, Unused
<1>2. \A p \in Objects : (p \notin Unused \/ p = live) => Clean(hist[p], purged, work)
  BY <1>1 DEF HInv, CleanInv
<1> QED BY <1>1, <1>2, ObtainHInv DEF Found

LEMMA CreatedHInv ==
  ASSUME HInv, NEW w \in Workers, Created(w) PROVE HInv'
<1>1. PICK o \in Objects : NextObject(o) /\ live' = o /\ Obtain(w, o, [hist EXCEPT ![o] = <<>>])
  BY DEF Created
<1> DEFINE new == [hist EXCEPT ![o] = <<>>]
<1>2. new \in [Objects -> History] BY EmptyHistory DEF HInv, TypeOK
<1>3. \A p \in Objects : (p \notin Unused \/ p = o) => Clean(new[p], purged, work)
  BY EmptyClean DEF HInv, TypeOK, CleanInv
<1>4. Obtain(w, o, new) BY <1>1
<1> HIDE DEF new
<1> QED BY <1>1, <1>2, <1>3, <1>4, ObtainHInv DEF Created

LEMMA RestoreDoneHInv ==
  ASSUME HInv, NEW w \in Workers, RestoreDone(w) PROVE HInv'
<1>1. PICK o \in Objects : /\ NextObject(o) /\ live' = o
                           /\ Obtain(w, o, [hist EXCEPT ![o] = work[w].data])
  BY DEF RestoreDone
<1> DEFINE new == [hist EXCEPT ![o] = work[w].data]
<1>0. work[w].data \in History /\ Clean(work[w].data, purged, work)
  BY DEF HInv, TypeOK, CleanInv, WorkerState
<1>2. new \in [Objects -> History] BY <1>0 DEF HInv, TypeOK
<1>3. \A p \in Objects : (p \notin Unused \/ p = o) => Clean(new[p], purged, work)
  BY <1>0 DEF HInv, TypeOK, CleanInv
<1>4. Obtain(w, o, new) BY <1>1
<1> HIDE DEF new
<1> QED BY <1>1, <1>2, <1>3, <1>4, ObtainHInv DEF RestoreDone

LEMMA MemoryFailsHInv ==
  ASSUME HInv, NEW w \in Workers, MemoryFails(w) PROVE HInv'
<1>1. /\ WorkerOK(w, work[w]) /\ work[w].what = "ask" /\ work[w].pc \notin {"new", "ended"}
      /\ work' = [work EXCEPT ![w] = Ended(w)] /\ lock' = None
  BY DEF MemoryFails, AskFails, HInv, WorkerOK
<1>2. w \in Turns /\ lock = w
  BY <1>1, WorkersSplit DEF WorkerOK, HInv, OneCompaction, Compacting, Idle
<1>3. \A s \in History : Clean(s, purged, work) => Clean(s, purged, work')
  BY <1>1, EndedFacts, OthersFacts, StaysClean DEF HInv
<1>4. /\ file.data \in History /\ Clean(file.data, purged, work)
      /\ \A o \in Objects : hist[o] \in History /\ (o \notin Unused => Clean(hist[o], purged, work))
  BY DEF HInv, TypeOK, CleanInv, File
<1>5. \A o \in Objects : (o \notin Unused \/ o = live' \/ o = Ended(w).obj) =>
           Clean(hist'[o], purged, work')
  BY <1>3, <1>4, EndedFacts, WorkersSplit DEF MemoryFails, Unused
<1>6. \A t \in Turns \ {w} : lock' = t <=> lock = t BY <1>1, <1>2, WorkersSplit
<1>7. lock' # w BY <1>1, WorkersSplit
<1>8. /\ Ended(w) \in WorkerState /\ Ended(w).pc # "new" /\ WorkerOK(w, Ended(w))
      /\ Clean(Ended(w).data, purged, work') /\ Clean(Ended(w).snap, purged, work')
      /\ Ended(w).pc = "ended" /\ Others(work)
      /\ Clean(file'.data, purged, work')
  BY <1>3, <1>4, EndedFacts, EmptyClean, OthersFacts DEF HInv, MemoryFails
<1> QED
  BY <1>1, <1>5, <1>6, <1>7, <1>8, WorkerStep
  DEF MemoryFails, HInv, TypeOK, ghosts

\* After a reset the file is gone and the session has an empty history.
LEMMA ResetFacts ==
  ASSUME HInv, Reset
  PROVE  /\ file' = NoFile /\ file' \in File /\ file'.data = <<>>
         /\ live' \in Objects /\ hist' \in [Objects -> History] /\ hist'[live'] = <<>>
         /\ \A o \in Objects : o # live' => hist'[o] = hist[o]
BY EmptyHistory DEF HInv, TypeOK, Reset, NoFile, File

LEMMA MemoryResetHInv ==
  ASSUME HInv, NEW w \in Workers, MemoryReset(w) PROVE HInv'
<1>1. /\ WorkerOK(w, work[w]) /\ work[w].pc = "asked" /\ Reset
      /\ work' = [Unlinked EXCEPT ![w] = Notifying(w)] /\ lock' = lock
  BY DEF MemoryReset, HInv
<1>2. w \in Turns /\ lock = w
  BY <1>1, WorkersSplit DEF WorkerOK, HInv, OneCompaction, Compacting, Idle
<1>3. Others(Unlinked) /\ \A s \in History : Clean(s, purged, work) => Clean(s, purged, work')
  BY <1>1, <1>2, NotifyingFacts, OthersFacts, StaysClean DEF HInv
<1>4. \A o \in Objects : hist[o] \in History /\ (o \notin Unused => Clean(hist[o], purged, work))
  BY DEF HInv, TypeOK, CleanInv
<1>5. \A o \in Objects : (o \notin Unused \/ o = live' \/ o = Notifying(w).obj) =>
           Clean(hist'[o], purged, work')
  BY <1>1, <1>2, <1>3, <1>4, NotifyingFacts, EmptyClean, ResetFacts, WorkersSplit
<1>6. \A t \in Turns \ {w} : lock' = t <=> lock = t BY <1>1
<1>7. lock' = w BY <1>1, <1>2
<1>8. /\ Notifying(w) \in WorkerState /\ Notifying(w).pc # "new" /\ WorkerOK(w, Notifying(w))
      /\ Clean(Notifying(w).data, purged, work') /\ Clean(Notifying(w).snap, purged, work')
      /\ Notifying(w).what = "summary" /\ Notifying(w).pc = "notifying"
      /\ Clean(file'.data, purged, work')
  BY <1>1, <1>2, NotifyingFacts, EmptyClean, ResetFacts
<1> QED
  BY <1>1, <1>3, <1>5, <1>6, <1>7, <1>8, ResetFacts, WorkerStep
  DEF MemoryReset, HInv, TypeOK

LEMMA NoticeOverHInv ==
  ASSUME HInv, NEW w \in Workers, NoticeOver(w) PROVE HInv'
<1>1. /\ WorkerOK(w, work[w]) /\ work[w].what = "summary" /\ work[w].pc = "notifying"
      /\ work' = [work EXCEPT ![w] = Ended(w)] /\ lock' = None
  BY DEF NoticeOver, HInv, WorkerOK
<1>2. w \in Turns /\ lock = w
  BY <1>1, WorkersSplit DEF WorkerOK, HInv, OneCompaction, Compacting, Idle
<1>3. \A s \in History : Clean(s, purged, work) => Clean(s, purged, work')
  BY <1>1, EndedFacts, OthersFacts, StaysClean DEF HInv
<1>4. /\ file.data \in History /\ Clean(file.data, purged, work)
      /\ \A o \in Objects : hist[o] \in History /\ (o \notin Unused => Clean(hist[o], purged, work))
  BY DEF HInv, TypeOK, CleanInv, File
<1>5. \A o \in Objects : (o \notin Unused \/ o = live' \/ o = Ended(w).obj) =>
           Clean(hist'[o], purged, work')
  BY <1>3, <1>4, EndedFacts, WorkersSplit DEF NoticeOver, Unused
<1>6. \A t \in Turns \ {w} : lock' = t <=> lock = t BY <1>1, <1>2, WorkersSplit
<1>7. lock' # w BY <1>1, WorkersSplit
<1>8. /\ Ended(w) \in WorkerState /\ Ended(w).pc # "new" /\ WorkerOK(w, Ended(w))
      /\ Clean(Ended(w).data, purged, work') /\ Clean(Ended(w).snap, purged, work')
      /\ Ended(w).pc = "ended" /\ Others(work)
      /\ Clean(file'.data, purged, work')
  BY <1>3, <1>4, EndedFacts, EmptyClean, OthersFacts DEF HInv, NoticeOver
<1> QED
  BY <1>1, <1>5, <1>6, <1>7, <1>8, WorkerStep
  DEF NoticeOver, HInv, TypeOK, ghosts

\* An operator's clear.  If nothing is running, all that was visible becomes
\* purged: nobody holds a copy of it, and whoever left it there has ended.
LEMMA ClearHInv == ASSUME HInv, Clear PROVE HInv'
<1>1. /\ Reset /\ work' = Unlinked /\ owed' = {} /\ UNCHANGED <<lock, crashes>>
      /\ cleared' = cleared \cup Visible
      /\ purged' = IF Quiet THEN purged \cup Visible ELSE purged
  BY DEF Clear
<1>2. /\ work' \in [Workers -> WorkerState]
      /\ \A v \in Workers : Like(work'[v], work[v])
  BY <1>1, OthersFacts DEF HInv, Others
<1>3. file.data \in History /\ Clean(file.data, purged, work)
      /\ \A o \in Objects : hist[o] \in History /\ (o \notin Unused => Clean(hist[o], purged, work))
  BY DEF HInv, TypeOK, File, CleanInv
<1>4. Visible \subseteq Exchanges
  BY <1>3, ContentType DEF Visible, HInv, TypeOK
<1>5. TypeOK' BY <1>1, <1>2, <1>4, ResetFacts DEF HInv, TypeOK
<1>6. \A v \in Workers : WorkerOK(v, work'[v])
  BY <1>2 DEF HInv, WorkerOK, Like
<1>7. OneCompaction'
  BY <1>1, <1>2, WorkersSplit DEF HInv, OneCompaction, Compacting, Idle, Like
<1>8. \A o \in Objects : o \notin Unused' => o = live' \/ \E v \in Workers : o = work[v].obj
  BY <1>2 DEF Unused, Like
<1>9. ~Quiet => CleanInv'
  <2> SUFFICES ASSUME ~Quiet PROVE CleanInv' OBVIOUS
  <2>1. purged' = purged BY <1>1
  <2>2. \A s \in History : Clean(s, purged, work) => Clean(s, purged, work')
    BY <1>2, CleanLater DEF Like
  <2>3. Clean(file'.data, purged, work') BY <1>1, ResetFacts, EmptyClean
  <2>4. \A o \in Objects \ Unused' : Clean(hist'[o], purged, work')
    BY <1>1, <1>3, <1>8, <2>2, ResetFacts, EmptyClean DEF Unused
  <2>5. \A v \in Workers : /\ Clean(work'[v].data, purged, work')
                           /\ Clean(work'[v].snap, purged, work')
    <3> SUFFICES ASSUME NEW v \in Workers
                 PROVE  /\ Clean(work'[v].data, purged, work')
                        /\ Clean(work'[v].snap, purged, work')
      OBVIOUS
    <3>1. /\ work'[v].data = work[v].data /\ work'[v].snap = work[v].snap
          /\ work[v].data \in History /\ work[v].snap \in History
      BY <1>2 DEF Like, HInv, TypeOK, WorkerState
    <3>2. Clean(work[v].data, purged, work) /\ Clean(work[v].snap, purged, work)
      BY DEF HInv, CleanInv
    <3> QED BY <3>1, <3>2, <2>2
  <2> QED BY <2>1, <2>3, <2>4, <2>5 DEF CleanInv
<1>10. Quiet => CleanInv'
  <2> SUFFICES ASSUME Quiet PROVE CleanInv' OBVIOUS
  <2>1. \A v \in Workers : /\ work[v].obj = None /\ work[v].data = <<>> /\ work[v].snap = <<>>
                           /\ work'[v].obj = None /\ work'[v].data = <<>> /\ work'[v].snap = <<>>
    BY <1>2 DEF Quiet, Idle, HInv, WorkerOK, Like
  <2>2. \A o \in Objects \ Unused' : hist'[o] = <<>>
    BY <1>1, <1>8, <2>1, ResetFacts, WorkersSplit
  <2>3. file'.data = <<>> BY <1>1, ResetFacts
  <2> QED BY <2>1, <2>2, <2>3, EmptyClean DEF CleanInv
<1>11. PurgedInv'
  <2> SUFFICES ASSUME NEW e \in purged', e[2] # None PROVE work'[e[2]].pc = "ended"
    BY DEF PurgedInv
  <2>1. e \in Exchanges /\ e[2] \in Workers
    BY <1>5, ExchangeType DEF TypeOK
  <2>2. CASE e \in purged
    BY <2>1, <2>2, <1>2 DEF HInv, PurgedInv, Like
  <2>3. CASE e \notin purged
    <3>1. Quiet /\ e \in Visible BY <1>1, <2>3
    <3>2. \/ e \in Content(file.data)
          \/ live \in Objects /\ e \in Content(hist[live])
      BY <3>1 DEF Visible, HInv, TypeOK
    <3>3. live \in Objects => live \notin Unused BY DEF Unused
    <3>4. work[e[2]].pc # "new"
      BY <3>2, <3>3, <1>3 DEF Clean, Content
    <3> QED BY <3>1, <3>4, <2>1, <1>2 DEF Quiet, Idle, Like
  <2> QED BY <2>2, <2>3
<1> QED BY <1>5, <1>6, <1>7, <1>9, <1>10, <1>11 DEF HInv

LEMMA CrashHInv == ASSUME HInv, Crash PROVE HInv'
<1>1. /\ live' = None /\ lock' = None /\ UNCHANGED <<hist, file, owed, cleared, purged>>
      /\ work' = [w \in Workers |-> IF Idle(w) THEN work[w] ELSE Ended(w)]
      /\ crashes' = crashes + 1 /\ crashes < MaxCrashes
  BY DEF Crash, ghosts
<1>2. crashes' \in 0 .. MaxCrashes
  BY <1>1, SettingsAssumption DEF HInv, TypeOK
<1>3. work' \in [Workers -> WorkerState] BY <1>1, EndedFacts DEF HInv, TypeOK
<1>4. TypeOK' BY <1>1, <1>2, <1>3 DEF HInv, TypeOK
<1>5. \A v \in Workers : WorkerOK(v, work'[v])
  BY <1>1, EndedFacts DEF HInv
<1>6. \A v \in Workers :
        /\ work'[v].pc \in {"new", "ended"} /\ work'[v].obj = None
        /\ work'[v].data = <<>> /\ work'[v].snap = <<>>
        /\ work[v].pc # "new" => work'[v].pc # "new"
        /\ work[v].pc = "ended" => work'[v].pc = "ended"
  BY <1>1, EndedFacts DEF HInv, WorkerOK, Idle
<1>7. OneCompaction'
  BY <1>1, <1>6, WorkersSplit DEF OneCompaction, Compacting, Idle
<1>8. CleanInv'
  <2>1. Clean(file'.data, purged', work')
    BY <1>1, <1>6, CleanLater DEF HInv, TypeOK, File, CleanInv
  <2>2. Unused' = Objects BY <1>1, <1>6, WorkersSplit DEF Unused
  <2> QED BY <2>1, <2>2, <1>6, EmptyClean DEF CleanInv
<1>9. PurgedInv'
  <2> SUFFICES ASSUME NEW e \in purged, e[2] # None PROVE work'[e[2]].pc = "ended"
    BY <1>1 DEF PurgedInv
  <2>1. e[2] \in Workers BY ExchangeType DEF HInv, TypeOK
  <2> QED BY <2>1, <1>6 DEF HInv, PurgedInv
<1> QED BY <1>4, <1>5, <1>7, <1>8, <1>9 DEF HInv

LEMMA StutterHInv == ASSUME HInv, UNCHANGED vars PROVE HInv'
<1>1. Unused' = Unused BY DEF Unused, vars
<1> QED
  BY <1>1 DEF vars, HInv, TypeOK, OneCompaction, Compacting, Idle, CleanInv, PurgedInv

(* ------------------------------- theorems ------------------------------- *)

\* HInv holds initially and survives every action.
THEOREM HistoryInvariance == Spec => []HInv
<1>1. Init => HInv BY InitHInv
<1>2. HInv /\ [Next]_vars => HInv'
  <2> SUFFICES ASSUME HInv, [Next]_vars PROVE HInv' OBVIOUS
  <2>1. ASSUME NEW w \in Workers, Start(w) PROVE HInv'
    BY <2>1, FoundHInv, CreatedHInv, RestoringHInv DEF Start
  <2>2. ASSUME NEW w \in Workers, Step(w) PROVE HInv'
    BY <2>2, RestoreReadHInv, RestoreDoneHInv, SaveOpenHInv, SaveWriteHInv,
       SaveFailsHInv, SendMessageHInv, ModelAnswersHInv, ModelSilentHInv,
       TurnFailsHInv, NoCompactionHInv, BeginCompactionHInv, ReplaceHistoryHInv,
       RollbackHInv, MemoryResetHInv, MemoryFailsHInv
    DEF Step
  <2> QED BY <2>1, <2>2, NoticeOverHInv, ClearHInv, CrashHInv, StutterHInv DEF Next, Finished
<1> QED BY <1>1, <1>2, PTL DEF Spec

\* Histories, workers and file keep their shape (session.py, service.py).
THEOREM HistoryTypeCorrect == Spec => []TypeOK
<1>1. HInv => TypeOK BY DEF HInv
<1> QED BY <1>1, HistoryInvariance, PTL

\* _maybe_auto_summarize_session: one turn at a time compacts a session, and
\* exactly the one that holds the lock.
THEOREM CompactionIsExclusive == Spec => []OneCompaction
<1>1. HInv => OneCompaction BY DEF HInv
<1> QED BY <1>1, HistoryInvariance, PTL

\* /clear while nothing runs: what it removed never becomes visible again.
THEOREM QuietClearHolds == Spec => []QuietClearIsFinal
<1>1. HInv => QuietClearIsFinal
  <2> SUFFICES ASSUME HInv PROVE QuietClearIsFinal OBVIOUS
  <2>1. purged \cap Content(file.data) = {} BY DEF HInv, CleanInv, Clean, Content
  <2>2. live # None => purged \cap Content(hist[live]) = {}
    BY DEF HInv, TypeOK, CleanInv, Clean, Content, Unused
  <2> QED BY <2>1, <2>2 DEF QuietClearIsFinal, Visible
<1> QED BY <1>1, HistoryInvariance, PTL

(* ------------------------- one worker at a time -------------------------- *)

LEMMA AppendContent ==
  ASSUME NEW s \in History, NEW e \in Exchanges
  PROVE  Content(Append(s, e)) = Content(s) \cup {e}
BY AppendHistory DEF Content

LEMMA SingleContent == ASSUME NEW e \in Exchanges PROVE Content(<<e>>) = {e}
BY OneElement DEF Content

\* Nobody but w is under way.
Solo(w) == \A v \in Workers \ {w} : Idle(v) /\ ~ work[v].stale

\* What AloneInv, PromptInv and RetainedInv say of the one worker under way.
AloneAt(w) ==
  /\ work[w].obj \in {None, live}
  /\ ~ work[w].stale
  /\ work[w].pc \in {"restoring", "restored"} => live = None

PromptAt(w) ==
  (Mode = "compress" /\ crashes = 0) =>
    /\ live = None => NoAsk(file.data) /\ NoAsk(work[w].data)
    /\ live # None /\ work[w].what # "ask" => NoAsk(hist[live])
    /\ work[w].what \in {"ask", "summary", "rollback"} => NoAsk(work[w].snap)

RetainedAt(w) ==
  /\ ~ file.ok \/ ~ file.exists => file.data = <<>>
  /\ work[w].pc # "writing" => owed \subseteq Content(file.data)
  /\ live # None => owed \subseteq Content(hist[live])
  /\ work[w].pc = "restored" => owed \subseteq Content(work[w].data)
  /\ work[w].pc \in {"saving", "writing"} =>
       work[w].data = hist[live] /\ Promised(w, work[w])
  /\ work[w].pc = "writing" => file.data = <<>>
  /\ work[w].what = "ask" => owed \subseteq Content(work[w].snap)

LEMMA EmptyNoAsk == NoAsk(<<>>)
BY EmptyHistory DEF NoAsk

\* A compaction is under way exactly while its turn holds the lock.
LEMMA LockFacts ==
  ASSUME HInv, NEW w \in Workers, Solo(w)
  PROVE  /\ lock \in {None, w}
         /\ lock = w <=> work[w].what \in {"ask", "summary", "rollback"}
         /\ w # None
<1>1. WorkerOK(w, work[w]) BY DEF HInv
<1>2. lock \in {None, w}
  BY DEF HInv, TypeOK, OneCompaction, Compacting, Solo, Workers
<1>3. w \in Turns => (lock = w <=> work[w].what \in {"ask", "summary", "rollback"})
  BY <1>1 DEF HInv, OneCompaction, Compacting, Idle, WorkerOK
<1>4. w \notin Turns => lock # w /\ work[w].what = "inject"
  BY <1>1, WorkersSplit DEF HInv, TypeOK, WorkerOK
<1> QED BY <1>2, <1>3, <1>4, WorkersSplit

LEMMA SoloBefore ==
  ASSUME HInv, NEW w \in Workers, Solo(w), AloneInv
  PROVE  AloneAt(w) /\ (PromptInv => PromptAt(w)) /\ (RetainedInv => RetainedAt(w))
<1>1. AloneAt(w) BY DEF AloneInv, AloneAt
<1>2. PromptInv => PromptAt(w)
  BY LockFacts DEF PromptInv, PromptAt
<1>3. RetainedInv => RetainedAt(w)
  BY DEF RetainedInv, RetainedAt, Solo, Idle
<1> QED BY <1>1, <1>2, <1>3

LEMMA SoloAfter ==
  ASSUME HInv', NEW w \in Workers, Solo(w)'
  PROVE  /\ AloneAt(w)' => AloneInv'
         /\ PromptAt(w)' => PromptInv'
         /\ RetainedAt(w)' => RetainedInv'
<1>1. \A v \in Workers \ {w} :
        /\ work'[v].pc \in {"new", "ended"} /\ ~ work'[v].stale
        /\ work'[v].obj = None /\ work'[v].data = <<>>
        /\ work'[v].what \in {"answer", "inject"}
  BY DEF HInv, WorkerOK, Solo, Idle
<1>2. AloneAt(w)' => AloneInv'
  BY <1>1 DEF AloneInv, AloneAt, Idle
<1>3. /\ lock' \in {None, w}
      /\ lock' = w <=> work'[w].what \in {"ask", "summary", "rollback"}
      /\ w # None
  <2>1. WorkerOK(w, work'[w]) BY DEF HInv
  <2>2. lock' \in {None, w}
    BY DEF HInv, TypeOK, OneCompaction, Compacting, Solo, Workers
  <2>3. w \in Turns => (lock' = w <=> work'[w].what \in {"ask", "summary", "rollback"})
    BY <2>1 DEF HInv, OneCompaction, Compacting, Idle, WorkerOK
  <2>4. w \notin Turns => lock' # w /\ work'[w].what = "inject"
    BY <2>1, WorkersSplit DEF HInv, TypeOK, WorkerOK
  <2> QED BY <2>2, <2>3, <2>4, WorkersSplit
<1>4. PromptAt(w)' => PromptInv'
  <2> SUFFICES ASSUME PromptAt(w)', Mode' = "compress", crashes' = 0
               PROVE  /\ live' = None => /\ NoAsk(file'.data)
                                         /\ \A v \in Workers : NoAsk(work'[v].data)
                      /\ live' # None /\ (lock' = None \/ work'[lock'].what \in {"summary", "rollback"})
                           => NoAsk(hist'[live'])
                      /\ lock' # None => NoAsk(work'[lock'].snap)
    BY DEF PromptInv
  <2>1. /\ live' = None => NoAsk(file'.data) /\ NoAsk(work'[w].data)
        /\ live' # None /\ work'[w].what # "ask" => NoAsk(hist'[live'])
        /\ work'[w].what \in {"ask", "summary", "rollback"} => NoAsk(work'[w].snap)
    BY DEF PromptAt
  <2> QED BY <2>1, <1>1, <1>3, EmptyNoAsk
<1>5. RetainedAt(w)' => RetainedInv'
  BY <1>1 DEF RetainedInv, RetainedAt
<1> QED BY <1>2, <1>4, <1>5

\* The others keep their state: only those sending or writing would not.
LEMMA SoloWork ==
  ASSUME HInv, NEW w \in Workers, Solo(w), NEW n, NEW base,
         base \in {work, Unlinked} \/ \E o \in Objects : base = Rechatted(o),
         work' = [base EXCEPT ![w] = n]
  PROVE  Solo(w)' /\ work'[w] = n
<1>1. Others(base)
  BY OthersFacts DEF HInv
<1>2. work'[w] = n /\ \A v \in Workers \ {w} : work'[v] = base[v]
  BY <1>1 DEF Others
<1>3. \A v \in Workers \ {w} : base[v] = work[v]
  BY DEF Solo, Idle, Unlinked, Rechatted
<1> QED BY <1>2, <1>3 DEF Solo, Idle

\* Whoever starts or goes on is alone.
LEMMA SoloStart ==
  ASSUME HInv, AloneInv, Sequential, NEW w \in Workers,
         Start(w) \/ Step(w) \/ NoticeOver(w)
  PROVE  Solo(w)
<1>1. \A v \in Workers \ {w} : Idle(v)
  <2>1. CASE Start(w)
    BY <2>1 DEF Start, Found, Created, Restoring, MayStart, Sequential
  <2>2. CASE Step(w) \/ NoticeOver(w)
    <3>1. ~ Idle(w)
      BY <2>2 DEF NoticeOver, Step, RestoreRead, RestoreDone, SaveOpen, SaveWrite, SaveFails,
         SendMessage, ModelAnswers, ModelSilent, TurnFails, NoCompaction,
         BeginCompaction, AskToCompact, ReplaceHistory, Rollback, MemoryReset,
         MemoryFails, AskFails, Idle
    <3> QED BY <3>1 DEF AloneInv
  <2> QED BY <2>1, <2>2
<1> QED BY <1>1 DEF Solo, AloneInv

\* What the lemmas below show of each action of the worker under way.
Carried(w) ==
  /\ Solo(w)' /\ AloneAt(w)'
  /\ PromptAt(w) => PromptAt(w)'
  /\ Allowed \subseteq {"clear"} /\ RetainedAt(w) => RetainedAt(w)'

\* Steps that change neither history nor file nor what is owed.
LEMMA CarryOn ==
  ASSUME HInv, NEW w \in Workers, Solo(w), AloneAt(w), NEW n,
         work' = [work EXCEPT ![w] = n],
         UNCHANGED <<live, hist, file, crashes, owed>>,
         ~ n.stale,
         n.obj \in {None, work[w].obj},
         n.pc \in {"restoring", "restored"} => live = None,
         n.data \in {<<>>, work[w].data, file.data} \/ live # None,
         \/ n.what = work[w].what /\ n.snap = work[w].snap
         \/ /\ n.what = "ask" /\ work[w].what = "answer"
            /\ live # None /\ n.snap = hist[live]
         \/ /\ n.what \in {"answer", "blank", "inject"}
            /\ work[w].what # "ask" \/ Mode = "memory",
         Allowed \subseteq {"clear"} /\ RetainedAt(w) =>
           /\ (n.pc = "writing") = (work[w].pc = "writing")
           /\ n.pc = "restored" => owed \subseteq Content(n.data)
           /\ n.pc \in {"saving", "writing"} => n.data = hist[live] /\ Promised(w, n)
  PROVE  Carried(w)
<1>1. Solo(w)' /\ work'[w] = n BY SoloWork
<1>2. AloneAt(w)' BY <1>1 DEF AloneAt
<1>3. PromptAt(w) => PromptAt(w)'
  BY <1>1, EmptyNoAsk, SettingsAssumption DEF PromptAt, Mode
<1>4. Allowed \subseteq {"clear"} /\ RetainedAt(w) => RetainedAt(w)'
  BY <1>1 DEF RetainedAt
<1> QED BY <1>1, <1>2, <1>3, <1>4 DEF Carried

LEMMA RestoringCarried ==
  ASSUME HInv, NEW w \in Workers, Solo(w), AloneAt(w), Restoring(w) PROVE Carried(w)
<1> DEFINE n == [work[w] EXCEPT !.pc = "restoring"]
<1>1. /\ work' = [work EXCEPT ![w] = n] /\ work[w].pc = "new" /\ live = None
      /\ WorkerOK(w, work[w]) /\ work[w] \in WorkerState
      /\ UNCHANGED <<live, hist, file, crashes, owed>>
  BY DEF HInv, TypeOK, Restoring, ghosts
<1>2. /\ n.pc = "restoring" /\ n.obj = work[w].obj /\ n.data = work[w].data
      /\ n.snap = work[w].snap /\ n.what = work[w].what /\ n.stale = work[w].stale
  BY <1>1 DEF WorkerState
<1> HIDE DEF n
<1>3. work[w].what \in {"answer", "inject"} BY <1>1 DEF WorkerOK
<1> QED BY <1>1, <1>2, <1>3, CarryOn DEF AloneAt

LEMMA RestoreReadCarried ==
  ASSUME HInv, NEW w \in Workers, Solo(w), AloneAt(w), RestoreRead(w) PROVE Carried(w)
<1> DEFINE n == [work[w] EXCEPT !.pc = "restored",
                                !.data = IF file.ok THEN file.data ELSE <<>>]
<1>1. /\ work' = [work EXCEPT ![w] = n] /\ work[w].pc = "restoring" /\ live = None
      /\ WorkerOK(w, work[w]) /\ work[w] \in WorkerState
      /\ UNCHANGED <<live, hist, file, crashes, owed>>
  BY DEF HInv, TypeOK, RestoreRead, ghosts, AloneAt
<1>2. /\ n.pc = "restored" /\ n.obj = work[w].obj
      /\ n.data = IF file.ok THEN file.data ELSE <<>>
      /\ n.snap = work[w].snap /\ n.what = work[w].what /\ n.stale = work[w].stale
  BY <1>1 DEF WorkerState
<1> HIDE DEF n
<1>3. work[w].what \in {"answer", "inject"} BY <1>1 DEF WorkerOK
<1>4. RetainedAt(w) => owed \subseteq Content(n.data)
  BY <1>1, <1>2 DEF RetainedAt
<1>5. n.data \in {<<>>, file.data} BY <1>2
<1> QED BY <1>1, <1>2, <1>3, <1>4, <1>5, CarryOn DEF AloneAt

\* At work on the session: with the object that is live.
LEMMA AtWork ==
  ASSUME HInv, NEW w \in Workers, AloneAt(w),
         work[w].pc \in {"ready", "sending", "saving", "writing", "replied", "asked"}
  PROVE  /\ WorkerOK(w, work[w]) /\ work[w] \in WorkerState
         /\ live \in Objects /\ live # None /\ work[w].obj = live
         /\ hist \in [Objects -> History] /\ hist[live] \in History
<1>1. WorkerOK(w, work[w]) /\ work[w] \in WorkerState /\ hist \in [Objects -> History]
  BY DEF HInv, TypeOK
<1>2. work[w].obj \in Objects BY <1>1 DEF WorkerOK
<1> QED BY <1>1, <1>2, WorkersSplit DEF AloneAt

LEMMA SendMessageCarried ==
  ASSUME HInv, NEW w \in Workers, Solo(w), AloneAt(w), SendMessage(w) PROVE Carried(w)
<1> DEFINE n == [work[w] EXCEPT !.pc = "sending"]
<1>1. /\ work' = [work EXCEPT ![w] = n] /\ work[w].pc = "ready"
      /\ UNCHANGED <<live, hist, file, crashes, owed>>
  BY DEF HInv, TypeOK, SendMessage, ghosts
<1>2. work[w] \in WorkerState /\ live # None /\ work[w].obj = live
  BY <1>1, AtWork
<1>3. /\ n.pc = "sending" /\ n.obj = work[w].obj /\ n.data = work[w].data
      /\ n.snap = work[w].snap /\ n.what = work[w].what /\ n.stale = work[w].stale
  BY <1>2 DEF WorkerState
<1> HIDE DEF n
<1> QED BY <1>1, <1>2, <1>3, CarryOn DEF AloneAt

LEMMA ModelSilentCarried ==
  ASSUME HInv, NEW w \in Workers, Solo(w), AloneAt(w), ModelSilent(w) PROVE Carried(w)
<1> DEFINE n == Saving(work[w], "blank", hist[work[w].obj])
<1>1. /\ work' = [work EXCEPT ![w] = n] /\ work[w].pc = "sending" /\ work[w].what = "answer"
      /\ UNCHANGED <<live, hist, file, crashes, owed>>
  BY DEF ModelSilent, ghosts
<1>2. work[w] \in WorkerState /\ live # None /\ work[w].obj = live
  BY <1>1, AtWork
<1>3. /\ n.pc = "saving" /\ n.obj = work[w].obj /\ n.data = hist[live]
      /\ n.snap = work[w].snap /\ n.what = "blank" /\ n.stale = FALSE
  BY <1>2 DEF WorkerState, Saving
<1>4. Promised(w, n) BY <1>3 DEF Promised
<1> HIDE DEF n
<1> QED BY <1>1, <1>2, <1>3, <1>4, CarryOn

\* A turn that is over, unless it dies in the middle of a save.
LEMMA OverCarried ==
  ASSUME HInv, NEW w \in Workers, Solo(w), AloneAt(w),
         work' = [work EXCEPT ![w] = Ended(w)],
         UNCHANGED <<live, hist, file, crashes, owed>>,
         work[w].what # "ask" \/ Mode = "memory",
         work[w].pc = "writing" => "disk" \in Allowed
  PROVE  Carried(w)
<1> DEFINE n == Ended(w)
<1>1. /\ n.pc = "ended" /\ n.obj = None /\ n.data = <<>> /\ n.stale = FALSE
      /\ n.what \in {"answer", "inject"}
  BY DEF Ended, Off
<1>2. work' = [work EXCEPT ![w] = n] OBVIOUS
<1> HIDE DEF n
<1> QED BY <1>1, <1>2, CarryOn

LEMMA TurnFailsCarried ==
  ASSUME HInv, NEW w \in Workers, Solo(w), AloneAt(w), TurnFails(w) PROVE Carried(w)
BY OverCarried DEF TurnFails, ghosts

LEMMA NoCompactionCarried ==
  ASSUME HInv, NEW w \in Workers, Solo(w), AloneAt(w), NoCompaction(w) PROVE Carried(w)
BY OverCarried DEF NoCompaction, ghosts, HInv, WorkerOK

LEMMA MemoryFailsCarried ==
  ASSUME HInv, NEW w \in Workers, Solo(w), AloneAt(w), MemoryFails(w) PROVE Carried(w)
BY OverCarried DEF MemoryFails, AskFails, ghosts

LEMMA NoticeOverCarried ==
  ASSUME HInv, NEW w \in Workers, Solo(w), AloneAt(w), NoticeOver(w) PROVE Carried(w)
BY OverCarried DEF NoticeOver, ghosts, HInv, WorkerOK

LEMMA BeginCompactionCarried ==
  ASSUME HInv, NEW w \in Workers, Solo(w), AloneAt(w), BeginCompaction(w) PROVE Carried(w)
<1> DEFINE n == [work[w] EXCEPT !.pc = "ready", !.what = "ask",
                                !.snap = hist[work[w].obj]]
<1>1. /\ work' = [work EXCEPT ![w] = n] /\ work[w].pc = "replied"
      /\ UNCHANGED <<live, hist, file, crashes, owed>>
  BY DEF HInv, TypeOK, BeginCompaction, AskToCompact, ghosts
<1>2. /\ WorkerOK(w, work[w]) /\ work[w] \in WorkerState
      /\ live # None /\ work[w].obj = live
  BY <1>1, AtWork
<1>3. /\ n.pc = "ready" /\ n.obj = work[w].obj /\ n.data = work[w].data
      /\ n.snap = hist[live] /\ n.what = "ask" /\ n.stale = work[w].stale
  BY <1>2 DEF WorkerState
<1> HIDE DEF n
<1>4. work[w].what = "answer" BY <1>1, <1>2 DEF WorkerOK
<1> QED BY <1>1, <1>2, <1>3, <1>4, CarryOn DEF AloneAt

\* The live object gets history h, which w goes on to save.
LEMMA RewriteCarried ==
  ASSUME HInv, NEW w \in Workers, Solo(w), NEW n, NEW base,
         base \in {work, Unlinked} \/ \E o \in Objects : base = Rechatted(o),
         work' = [base EXCEPT ![w] = n],
         live' \in Objects, hist'[live'] = n.data,
         UNCHANGED <<file, crashes>>,
         n.pc = "saving", n.obj = live', ~ n.stale,
         n.what # "ask" => (PromptAt(w) /\ Mode = "compress" /\ crashes = 0 => NoAsk(n.data)),
         n.what \in {"ask", "summary", "rollback"} =>
           n.snap = work[w].snap /\ work[w].what \in {"ask", "summary", "rollback"},
         n.what = "ask" => work[w].what = "ask" /\ owed' \subseteq owed,
         Allowed \subseteq {"clear"} /\ RetainedAt(w) =>
           /\ work[w].pc # "writing"
           /\ owed' \subseteq owed /\ owed' \subseteq Content(n.data) /\ Promised(w, n)
  PROVE  Carried(w)
<1>1. Solo(w)' /\ work'[w] = n BY SoloWork
<1>2. live' # None BY WorkersSplit
<1>3. AloneAt(w)' BY <1>1 DEF AloneAt
<1>4. PromptAt(w) => PromptAt(w)'
  BY <1>1, <1>2 DEF PromptAt, Mode
<1>5. Allowed \subseteq {"clear"} /\ RetainedAt(w) => RetainedAt(w)'
  BY <1>1, <1>2 DEF RetainedAt
<1> QED BY <1>1, <1>3, <1>4, <1>5 DEF Carried

LEMMA AppendNoAsk ==
  ASSUME NEW s \in History, NEW e \in Exchanges, e[1] # "ask", NoAsk(s)
  PROVE  NoAsk(Append(s, e))
<1>1. \A t \in Turns : <<"ask", t>>[1] = "ask" OBVIOUS
<1>2. \A t \in Turns : <<"ask", t>> # e BY <1>1
<1> QED BY <1>2, AppendContent DEF NoAsk

LEMMA ModelAnswersCarried ==
  ASSUME HInv, NEW w \in Workers, Solo(w), AloneAt(w), ModelAnswers(w) PROVE Carried(w)
<1> DEFINE e == <<IF work[w].what = "answer" THEN "turn" ELSE "ask", w>>
           h == Append(hist[live], e)
           n == Saving(work[w], work[w].what, h)
<1>1. /\ WorkerOK(w, work[w]) /\ work[w] \in WorkerState /\ work[w].pc = "sending"
      /\ live \in Objects /\ work[w].obj = live /\ ~ work[w].stale
      /\ hist \in [Objects -> History] /\ hist[live] \in History
      /\ live # None
  BY AtWork DEF ModelAnswers, AloneAt
<1>2. work[w].what \in {"answer", "ask"} BY <1>1 DEF WorkerOK
<1>3. /\ e \in Exchanges
      /\ e[1] # "ask" <=> work[w].what = "answer"
      /\ work[w].what = "answer" => e = <<"turn", w>>
  BY <1>2, ExchangeType
<1> HIDE DEF e
<1>4. /\ hist' = [hist EXCEPT ![live] = h] /\ work' = [work EXCEPT ![w] = n]
      /\ UNCHANGED <<live, file, crashes, owed>>
  BY <1>1 DEF ModelAnswers, Recorded, ghosts, e
<1>5. h \in History /\ Content(h) = Content(hist[live]) \cup {e}
  BY <1>1, <1>3, AppendHistory, AppendContent
<1>6. /\ n.pc = "saving" /\ n.obj = live /\ n.data = h /\ n.stale = FALSE
      /\ n.snap = work[w].snap /\ n.what = work[w].what
  BY <1>1 DEF Saving, WorkerState
<1>7. n.what # "ask" => (PromptAt(w) /\ Mode = "compress" /\ crashes = 0 => NoAsk(n.data))
  BY <1>1, <1>2, <1>3, <1>6, AppendNoAsk DEF PromptAt
<1>8. Promised(w, n) BY <1>2, <1>3, <1>5, <1>6 DEF Promised
<1>9. RetainedAt(w) => owed \subseteq Content(n.data)
  BY <1>1, <1>5, <1>6 DEF RetainedAt
<1>10. hist'[live'] = n.data BY <1>1, <1>4, <1>6
<1> HIDE DEF n
<1> QED BY <1>1, <1>2, <1>4, <1>6, <1>7, <1>8, <1>9, <1>10, RewriteCarried

\* The prompt of a compaction, or its answer, was under way.
LEMMA AskedFacts ==
  ASSUME HInv, NEW w \in Workers, AloneAt(w), AskFails(w) \/ work[w].pc = "asked"
  PROVE  /\ work[w].what = "ask" /\ work[w] \in WorkerState /\ w \in Turns
         /\ live \in Objects /\ live # None /\ work[w].obj = live
         /\ hist \in [Objects -> History]
         /\ work[w].pc = "writing" => "disk" \in Allowed
<1>1. work[w].pc \in {"ready", "sending", "saving", "writing", "asked"} BY DEF AskFails
<1>2. WorkerOK(w, work[w]) BY DEF HInv
<1>3. work[w].what = "ask" BY <1>2 DEF AskFails, WorkerOK
<1>4. w \in Turns BY <1>2, <1>3, WorkersSplit DEF WorkerOK
<1> QED BY <1>1, <1>3, <1>4, AtWork DEF AskFails

\* Rewriting the history in the middle of a compaction.
LEMMA CompactCarried ==
  ASSUME HInv, NEW w \in Workers, Solo(w), AloneAt(w), AskFails(w) \/ work[w].pc = "asked",
         NEW k \in {"summary", "rollback"}, NEW h, Rewrite(w, k, h),
         PromptAt(w) /\ Mode = "compress" /\ crashes = 0 => NoAsk(h),
         owed' \subseteq owed,
         RetainedAt(w) => owed' \subseteq Content(h),
         k = "summary" => <<"summary", w>> \in Content(h)
  PROVE  Carried(w)
<1> DEFINE base == Rechatted(live)
           n == Saving(base[w], k, h)
<1>1. /\ work[w].what = "ask" /\ work[w] \in WorkerState
      /\ live \in Objects /\ work[w].obj = live /\ hist \in [Objects -> History]
      /\ work[w].pc = "writing" => "disk" \in Allowed
  BY AskedFacts
<1>2. base[w] \in WorkerState /\ Like(base[w], work[w])
  BY <1>1, OthersFacts DEF HInv, Others
<1>3. /\ work' = [base EXCEPT ![w] = n] /\ hist' = [hist EXCEPT ![live] = h]
      /\ UNCHANGED <<live, file, crashes>>
  BY <1>1 DEF Rewrite
<1> HIDE DEF base
<1>4. /\ n.pc = "saving" /\ n.obj = live /\ n.data = h /\ n.stale = FALSE
      /\ n.snap = work[w].snap /\ n.what = k
  BY <1>1, <1>2 DEF Saving, WorkerState, Like
<1>5. Promised(w, n) BY <1>4 DEF Promised
<1>6. \E o \in Objects : base = Rechatted(o) BY <1>1 DEF base
<1>7. hist'[live'] = n.data /\ live' \in Objects /\ n.obj = live'
  BY <1>1, <1>3, <1>4
<1> HIDE DEF n
<1> QED BY <1>1, <1>3, <1>4, <1>5, <1>6, <1>7, RewriteCarried

LEMMA ReplaceHistoryCarried ==
  ASSUME HInv, NEW w \in Workers, Solo(w), AloneAt(w), ReplaceHistory(w) PROVE Carried(w)
<1> DEFINE h == << <<"summary", w>> >>
<1>1. work[w].what = "ask" BY AskedFacts DEF ReplaceHistory
<1>2. Content(h) = {<<"summary", w>>} BY SingleContent, ExchangeType
<1>3. NoAsk(h) BY <1>2 DEF NoAsk
<1>4. owed' \subseteq owed /\ (RetainedAt(w) => owed' = {})
  BY <1>1 DEF ReplaceHistory, RetainedAt
<1>5. Rewrite(w, "summary", h) /\ work[w].pc = "asked" BY DEF ReplaceHistory
<1> HIDE DEF h
<1> QED BY <1>2, <1>3, <1>4, <1>5, CompactCarried

LEMMA RollbackCarried ==
  ASSUME HInv, NEW w \in Workers, Solo(w), AloneAt(w), Rollback(w) PROVE Carried(w)
<1>1. work[w].what = "ask" BY AskedFacts DEF Rollback
<1>2. PromptAt(w) /\ Mode = "compress" /\ crashes = 0 => NoAsk(work[w].snap)
  BY <1>1 DEF PromptAt
<1>3. owed' = owed /\ (RetainedAt(w) => owed \subseteq Content(work[w].snap))
  BY <1>1 DEF Rollback, RetainedAt
<1> QED BY <1>1, <1>2, <1>3, CompactCarried DEF Rollback

LEMMA MemoryResetCarried ==
  ASSUME HInv, NEW w \in Workers, Solo(w), AloneAt(w), MemoryReset(w) PROVE Carried(w)
<1>1. /\ Solo(w)' /\ work'[w] = Notifying(w)
  BY SoloWork DEF MemoryReset
<1>2. /\ Notifying(w).pc = "notifying" /\ Notifying(w).obj = None
      /\ Notifying(w).stale = FALSE /\ Notifying(w).data = <<>>
      /\ Notifying(w).what = "summary"
  BY DEF Notifying
<1>3. /\ file'.data = <<>> /\ live' \in Objects /\ live' # None /\ hist'[live'] = <<>>
  BY ResetFacts, WorkersSplit DEF MemoryReset
<1>4. work[w].what = "ask" /\ Mode # "compress" /\ crashes' = crashes
  BY AskedFacts DEF MemoryReset
<1>5. RetainedAt(w) => owed' = {}
  BY <1>4 DEF RetainedAt, MemoryReset
<1>6. AloneAt(w)' BY <1>1, <1>2 DEF AloneAt
<1>7. PromptAt(w)' BY <1>4 DEF PromptAt, Mode
<1>8. RetainedAt(w) => RetainedAt(w)'
  BY <1>1, <1>2, <1>3, <1>5 DEF RetainedAt
<1> QED BY <1>1, <1>6, <1>7, <1>8 DEF Carried

LEMMA SaveOpenCarried ==
  ASSUME HInv, NEW w \in Workers, Solo(w), AloneAt(w), SaveOpen(w) PROVE Carried(w)
<1> DEFINE n == [work[w] EXCEPT !.pc = "writing"]
<1>1. /\ work' = [work EXCEPT ![w] = n] /\ work[w].pc = "saving"
      /\ file' = [exists |-> TRUE, ok |-> FALSE, data |-> <<>>]
      /\ UNCHANGED <<live, hist, crashes, owed>>
  BY DEF HInv, TypeOK, SaveOpen, ghosts
<1>2. work[w] \in WorkerState /\ live # None /\ work[w].obj = live
  BY <1>1, AtWork
<1>3. /\ n.pc = "writing" /\ n.obj = work[w].obj /\ n.data = work[w].data
      /\ n.snap = work[w].snap /\ n.what = work[w].what /\ n.stale = work[w].stale
  BY <1>2 DEF WorkerState
<1> HIDE DEF n
<1>4. Solo(w)' /\ work'[w] = n BY <1>1, SoloWork
<1>5. AloneAt(w)' BY <1>1, <1>3, <1>4 DEF AloneAt
<1>6. PromptAt(w) => PromptAt(w)' BY <1>1, <1>2, <1>3, <1>4 DEF PromptAt, Mode
<1>7. RetainedAt(w) => RetainedAt(w)'
  BY <1>1, <1>3, <1>4 DEF RetainedAt, Promised
<1> QED BY <1>4, <1>5, <1>6, <1>7 DEF Carried

\* What becomes of the worker when its save is over.
LEMMA AfterSaveFacts ==
  ASSUME HInv, NEW w \in Workers, work[w].pc \in {"saving", "writing"}
  PROVE  /\ AfterSave(w).pc \in {"replied", "asked", "ready", "notifying", "ended"}
         /\ AfterSave(w).obj \in {None, work[w].obj}
         /\ AfterSave(w).stale = FALSE
         /\ \/ AfterSave(w).what = "ask" /\ work[w].what = "ask"
               /\ AfterSave(w).snap = work[w].snap
            \/ AfterSave(w).what \in {"answer", "inject"} /\ work[w].what # "ask"
            \/ AfterSave(w) = Notifying(w) /\ work[w].what = "summary"
<1>1. work[w] \in WorkerState BY DEF HInv, TypeOK
<1> DEFINE kept == [work[w] EXCEPT !.data = <<>>, !.stale = FALSE]
<1>2. /\ kept \in WorkerState /\ kept.obj = work[w].obj /\ kept.stale = FALSE
      /\ kept.snap = work[w].snap /\ kept.what = work[w].what
  BY <1>1, EmptyHistory DEF WorkerState
<1>3. Ended(w).pc = "ended" /\ Ended(w).obj = None /\ Ended(w).stale = FALSE
      /\ Ended(w).what \in {"answer", "inject"}
  BY DEF Ended, Off
<1>4. AfterSave(w) =
        CASE work[w].what = "answer" -> [kept EXCEPT !.pc = "replied"]
          [] work[w].what = "ask"    -> [kept EXCEPT !.pc = "asked"]
          [] work[w].what = "blank" /\ MayNudge(w) ->
               [kept EXCEPT !.pc = "ready", !.what = "answer", !.nudges = @ + 1]
          [] work[w].what = "blank" /\ ~MayNudge(w) ->
               [kept EXCEPT !.pc = "replied", !.what = "answer"]
          [] work[w].what = "summary" -> Notifying(w)
          [] OTHER -> Ended(w)
  BY DEF AfterSave
<1> HIDE DEF kept
<1>5. CASE work[w].what = "answer"
  <2>1. AfterSave(w) = [kept EXCEPT !.pc = "replied"] BY <1>4, <1>5
  <2> QED BY <2>1, <1>2, <1>5 DEF WorkerState
<1>6. CASE work[w].what = "ask"
  <2>1. AfterSave(w) = [kept EXCEPT !.pc = "asked"] BY <1>4, <1>6
  <2> QED BY <2>1, <1>2, <1>6 DEF WorkerState
<1>7. CASE work[w].what = "blank" /\ MayNudge(w)
  <2>1. AfterSave(w) = [kept EXCEPT !.pc = "ready", !.what = "answer", !.nudges = @ + 1]
    BY <1>4, <1>7
  <2> QED BY <2>1, <1>2, <1>7 DEF WorkerState
<1>8. CASE work[w].what = "blank" /\ ~MayNudge(w)
  <2>1. AfterSave(w) = [kept EXCEPT !.pc = "replied", !.what = "answer"]
    BY <1>4, <1>8
  <2> QED BY <2>1, <1>2, <1>8 DEF WorkerState
<1>9. CASE work[w].what \notin {"answer", "ask", "blank", "summary"}
  <2>1. AfterSave(w) = Ended(w) BY <1>4, <1>9
  <2> QED BY <2>1, <1>3, <1>9
<1>10. CASE work[w].what = "summary"
  <2>1. AfterSave(w) = Notifying(w) BY <1>4, <1>10
  <2>2. /\ Notifying(w).pc = "notifying" /\ Notifying(w).obj = None
        /\ Notifying(w).stale = FALSE
    BY DEF Notifying
  <2> QED BY <2>1, <2>2, <1>10
<1> QED BY <1>5, <1>6, <1>7, <1>8, <1>9, <1>10

LEMMA SaveOverCarried ==
  ASSUME HInv, NEW w \in Workers, Solo(w), AloneAt(w), SaveOver(w),
         work[w].pc \in {"saving", "writing"},
         Allowed \subseteq {"clear"} => SaveWrite(w)
  PROVE  Carried(w)
<1> DEFINE n == AfterSave(w)
<1>1. /\ work[w].obj = live /\ live # None /\ ~ work[w].stale /\ WorkerOK(w, work[w])
  BY AtWork DEF AloneAt
<1>2. work' = [work EXCEPT ![w] = n] /\ UNCHANGED <<live, hist, crashes>>
  BY DEF SaveOver
<1>3. /\ n.pc \in {"replied", "asked", "ready", "notifying", "ended"}
      /\ n.obj \in {None, live} /\ n.stale = FALSE
      /\ \/ n.what = "ask" /\ work[w].what = "ask" /\ n.snap = work[w].snap
         \/ n.what \in {"answer", "inject"} /\ work[w].what # "ask"
         \/ /\ n.what = "summary" /\ n.snap = <<>> /\ NoAsk(n.snap)
            /\ work[w].what = "summary"
  <2>1. Notifying(w).what = "summary" /\ Notifying(w).snap = <<>>
    BY DEF Notifying
  <2> QED BY <1>1, <2>1, AfterSaveFacts, EmptyNoAsk
<1> HIDE DEF n
<1>4. Solo(w)' /\ work'[w] = n BY <1>2, SoloWork
<1>5. AloneAt(w)' BY <1>2, <1>3, <1>4 DEF AloneAt
<1>6. PromptAt(w) => PromptAt(w)' BY <1>1, <1>2, <1>3, <1>4 DEF PromptAt, Mode
<1>7. ASSUME Allowed \subseteq {"clear"}, RetainedAt(w) PROVE RetainedAt(w)'
  <2>1. /\ file.data = <<>> /\ work[w].data = hist[live] /\ Promised(w, work[w])
        /\ owed \subseteq Content(hist[live])
        /\ work[w].what = "ask" => owed \subseteq Content(work[w].snap)
    BY <1>1, <1>7 DEF RetainedAt, SaveWrite
  <2>2. work[w].data \in History BY DEF HInv, TypeOK, WorkerState
  <2>3. /\ file' = [exists |-> TRUE, data |-> work[w].data,
                    ok |-> Len(file.data) <= Len(work[w].data)]
    BY <1>1, <1>7 DEF SaveWrite
  <2>4. Len(file.data) <= Len(work[w].data)
    BY <2>1, <2>2 DEF History
  <2>5. file'.ok /\ file'.exists /\ file'.data = hist[live]
    BY <2>1, <2>3, <2>4
  <2>6. owed' \subseteq Content(hist[live])
    BY <2>1 DEF SaveOver, Promised
  <2>7. work[w].what = "ask" => owed' = owed BY DEF SaveOver
  <2> QED BY <1>2, <1>3, <1>4, <2>1, <2>5, <2>6, <2>7 DEF RetainedAt
<1> QED BY <1>4, <1>5, <1>6, <1>7 DEF Carried

\* A worker gets the live object, whose history is h before it does anything.
LEMMA ObtainCarried ==
  ASSUME HInv, NEW w \in Workers, Solo(w), AloneAt(w), NEW o \in Objects,
         NEW histories \in [Objects -> History], Obtain(w, o, histories),
         work[w].pc \in {"new", "restored"},
         live' = o, UNCHANGED <<file, crashes, owed>>,
         PromptAt(w) /\ Mode = "compress" /\ crashes = 0 => NoAsk(histories[o]),
         RetainedAt(w) => owed \subseteq Content(histories[o])
  PROVE  Carried(w)
<1>1. WorkerOK(w, work[w]) /\ work[w] \in WorkerState BY DEF HInv, TypeOK
<1>2. o # None BY WorkersSplit
<1>3. CASE /\ w \in Turns
           /\ hist' = histories
           /\ work' = [work EXCEPT ![w].pc = "ready", ![w].obj = o, ![w].data = <<>>]
  <2> DEFINE n == [work[w] EXCEPT !.pc = "ready", !.obj = o, !.data = <<>>]
  <2>1. work' = [work EXCEPT ![w] = n] BY <1>3 DEF HInv, TypeOK
  <2>2. /\ n.pc = "ready" /\ n.obj = o /\ n.data = <<>>
        /\ n.stale = work[w].stale /\ n.what \in {"answer", "inject"}
    BY <1>1 DEF WorkerState, WorkerOK
  <2> HIDE DEF n
  <2>3. Solo(w)' /\ work'[w] = n BY <2>1, SoloWork
  <2>4. AloneAt(w)' BY <1>2, <2>2, <2>3 DEF AloneAt
  <2>5. PromptAt(w) => PromptAt(w)' BY <1>2, <1>3, <2>2, <2>3 DEF PromptAt, Mode
  <2>6. RetainedAt(w) => RetainedAt(w)'
    BY <1>2, <1>3, <2>2, <2>3 DEF RetainedAt
  <2> QED BY <2>3, <2>4, <2>5, <2>6 DEF Carried
<1>4. CASE /\ w \in Injections
           /\ hist' = [histories EXCEPT ![o] = Append(@, <<"inject", w>>)]
           /\ work' = [Rechatted(o) EXCEPT
                         ![w] = [Saving(@, "inject", hist'[o]) EXCEPT !.obj = o]]
  <2> DEFINE base == Rechatted(o)
             e == <<"inject", w>>
             h == Append(histories[o], e)
             n == [Saving(base[w], "inject", h) EXCEPT !.obj = o]
  <2>1. base[w] \in WorkerState /\ Like(base[w], work[w])
    BY OthersFacts DEF HInv, Others
  <2>2. hist'[o] = h /\ histories[o] \in History BY <1>4
  <2>3. work' = [base EXCEPT ![w] = n] BY <1>4, <2>2
  <2>4. e \in Exchanges /\ e[1] # "ask" BY ExchangeType
  <2> HIDE DEF base, e
  <2>5. h \in History /\ Content(h) = Content(histories[o]) \cup {e}
    BY <2>2, <2>4, AppendHistory, AppendContent
  <2>6. NoAsk(histories[o]) => NoAsk(h) BY <2>2, <2>4, AppendNoAsk
  <2> HIDE DEF h
  <2>7. /\ n.pc = "saving" /\ n.obj = o /\ n.data = h /\ n.stale = FALSE
        /\ n.what = "inject"
    BY <2>1, <2>5 DEF Saving, WorkerState, Like
  <2> HIDE DEF n
  <2>8. Promised(w, n) BY <2>5, <2>7 DEF Promised, e
  <2>9. \E p \in Objects : base = Rechatted(p) BY DEF base
  <2>10. hist'[live'] = n.data /\ live' \in Objects /\ n.obj = live'
    BY <2>2, <2>7
  <2>11. n.what # "ask" => (PromptAt(w) /\ Mode = "compress" /\ crashes = 0 => NoAsk(n.data))
    BY <2>6, <2>7
  <2>12. RetainedAt(w) => owed' \subseteq owed /\ owed' \subseteq Content(n.data)
    BY <2>5, <2>7
  <2> QED
    BY <2>3, <2>7, <2>8, <2>9, <2>10, <2>11, <2>12, RewriteCarried
<1> QED BY <1>3, <1>4 DEF Obtain

LEMMA FoundCarried ==
  ASSUME HInv, NEW w \in Workers, Solo(w), AloneAt(w), Found(w) PROVE Carried(w)
<1>1. /\ live \in Objects /\ live # None /\ hist \in [Objects -> History]
      /\ work[w].pc = "new" /\ Obtain(w, live, hist)
      /\ UNCHANGED <<live, file, crashes, owed>>
  BY DEF Found, HInv, TypeOK, ghosts
<1>2. work[w].what # "ask" BY <1>1 DEF HInv, WorkerOK
<1>3. PromptAt(w) /\ Mode = "compress" /\ crashes = 0 => NoAsk(hist[live])
  BY <1>1, <1>2 DEF PromptAt
<1>4. RetainedAt(w) => owed \subseteq Content(hist[live]) BY <1>1 DEF RetainedAt
<1> QED BY <1>1, <1>3, <1>4, ObtainCarried

LEMMA CreatedCarried ==
  ASSUME HInv, NEW w \in Workers, Solo(w), AloneAt(w), Created(w) PROVE Carried(w)
<1>1. PICK o \in Objects : live' = o /\ Obtain(w, o, [hist EXCEPT ![o] = <<>>])
  BY DEF Created
<1> DEFINE new == [hist EXCEPT ![o] = <<>>]
<1>2. new \in [Objects -> History] /\ new[o] = <<>>
  BY EmptyHistory DEF HInv, TypeOK
<1>3. /\ work[w].pc = "new" /\ ~ file.exists /\ Obtain(w, o, new)
      /\ UNCHANGED <<file, crashes, owed>>
  BY <1>1 DEF Created, ghosts
<1> HIDE DEF new
<1>4. RetainedAt(w) => owed \subseteq Content(new[o])
  BY <1>2, <1>3 DEF RetainedAt
<1> QED BY <1>1, <1>2, <1>3, <1>4, EmptyNoAsk, ObtainCarried

LEMMA RestoreDoneCarried ==
  ASSUME HInv, NEW w \in Workers, Solo(w), AloneAt(w), RestoreDone(w) PROVE Carried(w)
<1>1. PICK o \in Objects : live' = o /\ Obtain(w, o, [hist EXCEPT ![o] = work[w].data])
  BY DEF RestoreDone
<1> DEFINE new == [hist EXCEPT ![o] = work[w].data]
<1>2. new \in [Objects -> History] /\ new[o] = work[w].data
  BY DEF HInv, TypeOK, WorkerState
<1>3. /\ work[w].pc = "restored" /\ live = None /\ Obtain(w, o, new)
      /\ UNCHANGED <<file, crashes, owed>>
  BY <1>1 DEF RestoreDone, AloneAt, ghosts
<1> HIDE DEF new
<1>4. RetainedAt(w) => owed \subseteq Content(new[o])
  BY <1>2, <1>3 DEF RetainedAt
<1>5. PromptAt(w) /\ Mode = "compress" /\ crashes = 0 => NoAsk(new[o])
  BY <1>2, <1>3 DEF PromptAt
<1> QED BY <1>1, <1>2, <1>3, <1>4, <1>5, ObtainCarried

LEMMA SaveWriteCarried ==
  ASSUME HInv, NEW w \in Workers, Solo(w), AloneAt(w), SaveWrite(w) PROVE Carried(w)
BY SaveOverCarried DEF SaveWrite

LEMMA SaveFailsCarried ==
  ASSUME HInv, NEW w \in Workers, Solo(w), AloneAt(w), SaveFails(w) PROVE Carried(w)
BY SaveOverCarried DEF SaveFails

\* One worker's step, by the action it takes.
LEMMA WorkerCarries ==
  ASSUME HInv, HInv', AloneInv, Sequential, NEW w \in Workers,
         Start(w) \/ Step(w) \/ NoticeOver(w)
  PROVE  /\ AloneInv'
         /\ PromptInv => PromptInv'
         /\ Allowed \subseteq {"clear"} /\ RetainedInv => RetainedInv'
<1>1. Solo(w) BY SoloStart
<1>2. AloneAt(w) /\ (PromptInv => PromptAt(w)) /\ (RetainedInv => RetainedAt(w))
  BY <1>1, SoloBefore
<1>3. Carried(w)
  <2>1. CASE Start(w)
    BY <2>1, <1>1, <1>2, FoundCarried, CreatedCarried, RestoringCarried DEF Start
  <2>2. CASE Step(w)
    BY <2>2, <1>1, <1>2, RestoreReadCarried, RestoreDoneCarried, SaveOpenCarried,
       SaveWriteCarried, SaveFailsCarried, SendMessageCarried, ModelAnswersCarried,
       ModelSilentCarried, TurnFailsCarried, NoCompactionCarried,
       BeginCompactionCarried, ReplaceHistoryCarried, RollbackCarried,
       MemoryResetCarried, MemoryFailsCarried
    DEF Step
  <2>3. CASE NoticeOver(w) BY <2>3, <1>1, <1>2, NoticeOverCarried
  <2> QED BY <2>1, <2>2, <2>3
<1> QED BY <1>2, <1>3, SoloAfter DEF Carried

LEMMA ClearCarries ==
  ASSUME HInv, AloneInv, Sequential, Clear
  PROVE  AloneInv' /\ PromptInv' /\ (RetainedInv => RetainedInv')
<1>1. /\ Quiet /\ Reset /\ work' = Unlinked /\ owed' = {} /\ lock' = lock
      /\ crashes' = crashes
  BY DEF Clear, Sequential
<1>2. /\ file'.data = <<>> /\ live' \in Objects /\ live' # None /\ hist'[live'] = <<>>
  BY <1>1, ResetFacts, WorkersSplit
<1>3. work' = work
  BY <1>1 DEF Unlinked, Quiet, Idle, HInv, TypeOK
<1>4. \A v \in Workers : /\ work[v].pc \in {"new", "ended"} /\ ~ work[v].stale
                         /\ work[v].obj = None /\ work[v].what \in {"answer", "inject"}
  BY <1>1 DEF Quiet, Idle, HInv, WorkerOK, AloneInv
<1>5. AloneInv' BY <1>3, <1>4 DEF AloneInv, Idle
<1>6. lock = None
  BY <1>4, WorkersSplit DEF HInv, TypeOK, OneCompaction, Compacting
<1>7. PromptInv' BY <1>1, <1>2, <1>6, EmptyNoAsk DEF PromptInv
<1>8. RetainedInv' BY <1>1, <1>2, <1>3, <1>4 DEF RetainedInv
<1> QED BY <1>5, <1>7, <1>8

\* A restart: what is owed is in the file, whoever was under way has not got
\* hold of it yet.
LEMMA CrashCarries ==
  ASSUME HInv, AloneInv, Crash
  PROVE  /\ AloneInv' /\ PromptInv'
         /\ Allowed \subseteq {"clear"} /\ RetainedInv => RetainedInv'
<1>1. /\ live' = None /\ UNCHANGED <<hist, file, owed>>
      /\ work' = [w \in Workers |-> IF Idle(w) THEN work[w] ELSE Ended(w)]
      /\ crashes' = crashes + 1
      /\ "tear" \in Allowed \/ \A w \in Workers : work[w].pc # "writing"
  BY DEF Crash, ghosts
<1>2. \A v \in Workers : /\ work'[v].pc \in {"new", "ended"} /\ ~ work'[v].stale
                         /\ work'[v].obj = None /\ work'[v].what \in {"answer", "inject"}
  <2> SUFFICES ASSUME NEW v \in Workers
               PROVE  /\ work'[v].pc \in {"new", "ended"} /\ ~ work'[v].stale
                      /\ work'[v].obj = None /\ work'[v].what \in {"answer", "inject"}
    OBVIOUS
  <2>1. CASE Idle(v)
    BY <2>1, <1>1 DEF Idle, HInv, WorkerOK, AloneInv
  <2>2. CASE ~ Idle(v)
    BY <2>2, <1>1 DEF Ended, Off
  <2> QED BY <2>1, <2>2
<1>3. AloneInv' BY <1>2 DEF AloneInv, Idle
<1>4. crashes' # 0 BY <1>1 DEF HInv, TypeOK
<1>5. PromptInv' BY <1>4 DEF PromptInv
<1>6. Allowed \subseteq {"clear"} /\ RetainedInv => RetainedInv'
  BY <1>1, <1>2 DEF RetainedInv
<1> QED BY <1>3, <1>5, <1>6

LEMMA StutterCarries ==
  ASSUME UNCHANGED vars
  PROVE  /\ AloneInv => AloneInv'
         /\ PromptInv => PromptInv'
         /\ RetainedInv => RetainedInv'
BY DEF vars, ghosts, AloneInv, PromptInv, RetainedInv, Idle, Mode

LEMMA InitCarries == Init => AloneInv /\ PromptInv /\ RetainedInv
<1> SUFFICES ASSUME Init PROVE AloneInv /\ PromptInv /\ RetainedInv OBVIOUS
<1>1. \A w \in Workers : /\ work[w].pc = "new" /\ work[w].obj = None /\ ~ work[w].stale
                         /\ work[w].data = <<>> /\ work[w].what \in {"answer", "inject"}
  BY DEF Init, Fresh, Off
<1>2. NoAsk(file.data) /\ Content(file.data) = owed
      /\ (~ file.ok \/ ~ file.exists => file.data = <<>>)
  <2>1. NoAsk(<<Old>>)
    <3>1. \A t \in Turns : <<"ask", t>>[1] # Old[1] BY DEF Old
    <3> QED BY <3>1, SingleContent, ExchangeType DEF NoAsk
  <2> QED BY <2>1, EmptyNoAsk DEF Init, NoFile
<1>3. AloneInv BY <1>1 DEF AloneInv, Idle
<1>4. PromptInv BY <1>1, <1>2, EmptyNoAsk DEF PromptInv, Init
<1>5. RetainedInv BY <1>1, <1>2 DEF RetainedInv, Init
<1> QED BY <1>3, <1>4, <1>5

\* What a session without overlapping turns keeps to, whatever fails.
LEMMA SequentialInvariance ==
  ASSUME Sequential PROVE Spec => [](HInv /\ AloneInv /\ PromptInv)
<1>1. Init => AloneInv /\ PromptInv BY InitCarries
<1>2. HInv /\ HInv' /\ AloneInv /\ PromptInv /\ [Next]_vars => AloneInv' /\ PromptInv'
  BY WorkerCarries, ClearCarries, CrashCarries, StutterCarries DEF Next, Finished
<1> QED BY <1>1, <1>2, HistoryInvariance, PTL DEF Spec

\* maybe_auto_summarize_session: with one turn at a time, a compaction that
\* failed at any point leaves no prompt behind in a session's history.
THEOREM PromptIsTakenBack == ASSUME Sequential PROVE Spec => []NoPromptLeft
<1>1. HInv /\ AloneInv /\ PromptInv => NoPromptLeft
  BY EmptyHistory DEF PromptInv, NoPromptLeft, NoAsk, Kept
<1> QED BY <1>1, SequentialInvariance, PTL

\* Where turns come one after another and no write fails or is torn by a
\* restart, each exchange whose reply went out is in the history, or
\* in the file for the next process, until a summary or a clear.
THEOREM RepliesAreRetained ==
  ASSUME Allowed \subseteq {"clear"} PROVE Spec => []HistoryRetained
<1>0. Sequential BY DEF Sequential
<1>1. Init => AloneInv /\ RetainedInv BY InitCarries
<1>2. HInv /\ HInv' /\ AloneInv /\ RetainedInv /\ [Next]_vars => AloneInv' /\ RetainedInv'
  BY <1>0, WorkerCarries, ClearCarries, CrashCarries, StutterCarries DEF Next, Finished
<1>3. RetainedInv => HistoryRetained
  BY EmptyHistory DEF RetainedInv, HistoryRetained, Quiet, Idle, Kept
<1> QED BY <1>1, <1>2, <1>3, HistoryInvariance, PTL DEF Spec
=============================================================================
