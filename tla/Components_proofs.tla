-------------------------- MODULE Components_proofs --------------------------
(***************************************************************************)
(* Proofs about the components of Components that are not channels, for    *)
(* every configuration.  A step of the system is a step of a component or  *)
(* leaves its variables alone, so an inductive invariant of the component  *)
(* is one of the system.                                                   *)
(***************************************************************************)
EXTENDS Components, FiniteSetTheorems, TLAPS

-----------------------------------------------------------------------------
(* Planning mode: types, FileInv and what an exit knows are inductive        *)
(* together.                                                                 *)
PlanningInv == Planning!TypeOK /\ Planning!ExitKnowsItsPlan /\ Planning!FileInv

LEMMA PlanningCallers ==
    ASSUME NEW c \in PlanningConf.Callers
    PROVE  /\ Planning!Kind(c) \in {"enter", "exit", "create", "replace"}
           /\ Planning!Session(c) \in PlanningConf.Sessions
           /\ c # Planning!NoCaller
  BY PlanningAssumption DEF Planning!Kind, Planning!Session, Planning!NoCaller

LEMMA PlanningStarts == Init => PlanningInv
  <1>. SUFFICES ASSUME Planning!Init PROVE PlanningInv
    BY DEF Init
  <1>. USE DEF Planning!Init
  <1>1. Planning!TypeOK
    <2>1. /\ 0 \in 0..PlanningConf.MaxSeconds
          /\ artifact \in [PlanningConf.Sessions \X (0..PlanningConf.MaxSeconds) -> SUBSET PlanningConf.Callers]
      BY PlanningAssumption
    <2>. QED BY <2>1 DEF Planning!TypeOK
  <1>2. Planning!ExitKnowsItsPlan
    BY DEF Planning!ExitKnowsItsPlan
  <1>3. Planning!FileInv
    BY DEF Planning!FileInv, Planning!Opened, Planning!Created, Planning!Replacing, Planning!Lost
  <1>. QED BY <1>1, <1>2, <1>3 DEF PlanningInv

LEMMA PlanningTypes ==
    ASSUME PlanningInv, Planning!Next
    PROVE  Planning!TypeOK'
  <1>. USE DEF Planning!TypeOK, PlanningInv, Planning!To
  <1>1. ASSUME NEW c \in PlanningConf.Callers, Planning!Enter(c) PROVE Planning!TypeOK'
    BY <1>1, PlanningCallers DEF Planning!Enter
  <1>2. ASSUME NEW c \in PlanningConf.Callers, Planning!BeginExit(c) PROVE Planning!TypeOK'
    <2>. Planning!Session(c) \in PlanningConf.Sessions BY PlanningCallers
    <2>1. CASE planning[Planning!Session(c)]
      <3>1. plan[Planning!Session(c)] \in PlanningConf.Callers
        BY <2>1 DEF Planning!ExitKnowsItsPlan
      <3>. QED BY <1>2, <2>1, <3>1 DEF Planning!BeginExit
    <2>2. CASE ~planning[Planning!Session(c)]
      BY <1>2, <2>2 DEF Planning!BeginExit
    <2>. QED BY <2>1, <2>2
  <1>3. ASSUME NEW c \in PlanningConf.Callers, Planning!OpenArtifact(c) PROVE Planning!TypeOK'
    BY <1>3, PlanningCallers DEF Planning!OpenArtifact
  <1>4. ASSUME NEW c \in PlanningConf.Callers, Planning!FinishExit(c) PROVE Planning!TypeOK'
    BY <1>4, PlanningCallers DEF Planning!FinishExit
  <1>5. ASSUME NEW c \in PlanningConf.Callers, Planning!ExitFails(c) PROVE Planning!TypeOK'
    BY <1>5 DEF Planning!ExitFails
  <1>6. ASSUME NEW c \in PlanningConf.Callers, Planning!BeginCreate(c) PROVE Planning!TypeOK'
    BY <1>6 DEF Planning!BeginCreate
  <1>7. ASSUME NEW c \in PlanningConf.Callers, Planning!OpenNew(c) PROVE Planning!TypeOK'
    BY <1>7 DEF Planning!OpenNew
  <1>8. ASSUME NEW c \in PlanningConf.Callers, Planning!WriteNew(c) PROVE Planning!TypeOK'
    BY <1>8 DEF Planning!WriteNew
  <1>9. ASSUME NEW c \in PlanningConf.Callers, Planning!BeginReplace(c) PROVE Planning!TypeOK'
    BY <1>9 DEF Planning!BeginReplace
  <1>10. ASSUME NEW c \in PlanningConf.Callers, Planning!OpenForReplace(c) PROVE Planning!TypeOK'
    BY <1>10 DEF Planning!OpenForReplace
  <1>11. ASSUME NEW c \in PlanningConf.Callers, Planning!WriteReplaced(c) PROVE Planning!TypeOK'
    BY <1>11 DEF Planning!WriteReplaced
  <1>12. ASSUME NEW s \in PlanningConf.Sessions, Planning!Clear(s) PROVE Planning!TypeOK'
    BY <1>12 DEF Planning!Clear
  <1>13. ASSUME Planning!Tick PROVE Planning!TypeOK'
    BY <1>13, PlanningAssumption DEF Planning!Tick
  <1>14. ASSUME NEW c \in PlanningConf.Callers, Planning!FileFails(c) PROVE Planning!TypeOK'
    <2>1. \A d \in PlanningConf.Callers : call[d].seen \cup {d} \in SUBSET PlanningConf.Callers
      OBVIOUS
    <2>2. text' \in SUBSET PlanningConf.Callers
      BY <1>14, <2>1 DEF Planning!FileFails
    <2>3. call' = [call EXCEPT ![c].pc = "error"] \/ call' = [call EXCEPT ![c].pc = "broken"]
      BY <1>14 DEF Planning!FileFails
    <2>4. call' \in [PlanningConf.Callers -> [pc : {"new", "begun", "open", "ok", "error", "broken"},
                             seen : SUBSET PlanningConf.Callers, second : 0..PlanningConf.MaxSeconds]]
      <3>1. CASE call' = [call EXCEPT ![c].pc = "error"]
        BY <3>1
      <3>2. CASE call' = [call EXCEPT ![c].pc = "broken"]
        BY <3>2
      <3>. QED BY <2>3, <3>1, <3>2
    <2>. QED BY <1>14, <2>2, <2>4 DEF Planning!FileFails
  <1>. QED
    BY <1>1, <1>2, <1>3, <1>4, <1>5, <1>6, <1>7, <1>8, <1>9, <1>10, <1>11, <1>12, <1>13, <1>14 DEF Planning!Next

LEMMA PlanningKnown ==
    ASSUME PlanningInv, Planning!Next
    PROVE  Planning!ExitKnowsItsPlan'
  <1>. USE DEF Planning!TypeOK, PlanningInv, Planning!To, Planning!ExitKnowsItsPlan
  <1>1. ASSUME NEW c \in PlanningConf.Callers, Planning!Enter(c) PROVE Planning!ExitKnowsItsPlan'
    BY <1>1, PlanningCallers DEF Planning!Enter
  <1>2. ASSUME NEW c \in PlanningConf.Callers, Planning!BeginExit(c) PROVE Planning!ExitKnowsItsPlan'
    BY <1>2, PlanningCallers DEF Planning!BeginExit
  <1>3. ASSUME NEW c \in PlanningConf.Callers,
               Planning!OpenArtifact(c) \/ Planning!ExitFails(c) \/ Planning!BeginCreate(c) \/ Planning!OpenNew(c)
               \/ Planning!WriteNew(c) \/ Planning!OpenForReplace(c) \/ Planning!WriteReplaced(c)
               \/ Planning!FileFails(c)
        PROVE  Planning!ExitKnowsItsPlan'
    <2>1. /\ planning' = planning /\ plan' = plan
          /\ \A d \in PlanningConf.Callers : call'[d].seen = call[d].seen
      BY <1>3 DEF Planning!OpenArtifact, Planning!ExitFails, Planning!BeginCreate, Planning!OpenNew,
             Planning!WriteNew, Planning!OpenForReplace, Planning!WriteReplaced, Planning!FileFails
    <2>. QED BY <2>1 DEF Planning!Kind
  <1>4. ASSUME NEW c \in PlanningConf.Callers, Planning!FinishExit(c) PROVE Planning!ExitKnowsItsPlan'
    BY <1>4, PlanningCallers DEF Planning!FinishExit
  <1>5. ASSUME NEW c \in PlanningConf.Callers, Planning!BeginReplace(c) PROVE Planning!ExitKnowsItsPlan'
    BY <1>5, PlanningCallers DEF Planning!BeginReplace
  <1>6. ASSUME NEW s \in PlanningConf.Sessions, Planning!Clear(s) PROVE Planning!ExitKnowsItsPlan'
    BY <1>6 DEF Planning!Clear
  <1>7. ASSUME Planning!Tick PROVE Planning!ExitKnowsItsPlan'
    BY <1>7 DEF Planning!Tick
  <1>. QED
    BY <1>1, <1>2, <1>3, <1>4, <1>5, <1>6, <1>7 DEF Planning!Next

(* The calls that neither touch the file nor change who has it, and the      *)
(* call of a caller who stays what it was to the file.                       *)
LEMMA FileRests ==
    ASSUME PlanningInv, exists' = exists, text' = text,
           \A c \in PlanningConf.Callers :
              /\ (Planning!Opened(c))' = Planning!Opened(c)
              /\ (Planning!Created(c))' = Planning!Created(c)
              /\ (Planning!Replacing(c))' = Planning!Replacing(c)
              /\ call'[c].pc = "broken" <=> call[c].pc = "broken"
              /\ (Planning!Kind(c) = "replace" => call'[c] = call[c])
    PROVE  Planning!FileInv'
  <1>1. \A c : (Planning!Lost(c))' <=> Planning!Lost(c)
    BY DEF Planning!Lost, Planning!Kind
  <1>. QED BY <1>1 DEF PlanningInv, Planning!FileInv, Planning!Kind, Planning!Opened, Planning!Created, Planning!Replacing

(* A text that is lost stays so, as broken calls stay broken.                *)
LEMMA LostStays ==
    ASSUME \A c \in PlanningConf.Callers : call[c].pc = "broken" => call'[c] = call[c], NEW c, Planning!Lost(c)
    PROVE  (Planning!Lost(c))'
  BY DEF Planning!Lost, Planning!Kind

LEMMA PlanningFiles ==
    ASSUME PlanningInv, Planning!Next
    PROVE  Planning!FileInv'
  <1>. USE DEF Planning!TypeOK, PlanningInv, Planning!To
  <1>. USE DEF Planning!Opened, Planning!Created, Planning!Replacing
  <1>1. ASSUME NEW c \in PlanningConf.Callers,
               \/ Planning!Enter(c) \/ Planning!BeginExit(c) \/ Planning!OpenArtifact(c) \/ Planning!FinishExit(c)
               \/ Planning!ExitFails(c)
        PROVE  Planning!FileInv'
    <2>1. /\ exists' = exists /\ text' = text /\ Planning!Kind(c) \in {"enter", "exit"}
          /\ call[c].pc \in {"new", "begun", "open"} /\ call'[c].pc \in {"begun", "open", "ok", "error"}
          /\ \A d \in PlanningConf.Callers : d # c => call'[d] = call[d]
      BY <1>1 DEF Planning!Enter, Planning!BeginExit, Planning!OpenArtifact, Planning!FinishExit, Planning!ExitFails
    <2>. QED BY <2>1, FileRests DEF Planning!Kind
  <1>2. ASSUME Planning!Tick \/ \E s \in PlanningConf.Sessions : Planning!Clear(s) PROVE Planning!FileInv'
    BY <1>2, FileRests DEF Planning!Tick, Planning!Clear, Planning!Kind
  <1>3. ASSUME NEW c \in PlanningConf.Callers, Planning!BeginCreate(c) PROVE Planning!FileInv'
    <2>1. /\ exists' = exists /\ text' = text /\ Planning!Kind(c) = "create" /\ call[c].pc = "new"
          /\ call'[c].pc \in {"begun", "error"}
          /\ \A d \in PlanningConf.Callers : d # c => call'[d] = call[d]
      BY <1>3 DEF Planning!BeginCreate
    <2>. QED BY <2>1, FileRests DEF Planning!Kind
  <1>4. ASSUME NEW c \in PlanningConf.Callers, Planning!OpenNew(c) PROVE Planning!FileInv'
    <2>1. /\ text' = text /\ Planning!Kind(c) = "create" /\ call[c].pc = "begun"
          /\ exists' = TRUE
          /\ call'[c].pc = IF exists THEN "error" ELSE "open"
          /\ \A d \in PlanningConf.Callers : d # c => call'[d] = call[d]
      BY <1>4 DEF Planning!OpenNew
    <2>2. CASE exists
      BY <2>1, <2>2, FileRests DEF Planning!Kind
    <2>3. CASE ~exists
      BY <2>1, <2>3 DEF Planning!FileInv, Planning!Kind
    <2>. QED BY <2>2, <2>3
  <1>5. ASSUME NEW c \in PlanningConf.Callers, Planning!Kind(c) = "create", call[c].pc = "open",
               exists' = exists, call'[c].pc \in {"ok", "broken"}, text' \in SUBSET PlanningConf.Callers,
               call'[c].pc = "ok" => c \in text',
               \A d \in PlanningConf.Callers : d # c => call'[d] = call[d]
        PROVE  Planning!FileInv'
    <2>1. exists /\ \A d \in PlanningConf.Callers : call[d].pc # "broken"
      BY <1>5 DEF Planning!FileInv
    <2>2. \A d \in PlanningConf.Callers : ~Planning!Replacing(d) /\ (Planning!Opened(d) => d = c)
      BY <1>5 DEF Planning!FileInv
    <2>3. \A d \in PlanningConf.Callers :
             /\ ~(Planning!Replacing(d))' /\ ((Planning!Opened(d))' => d = c /\ call'[c].pc = "ok")
             /\ call'[d].pc = "broken" => d = c /\ call'[c].pc = "broken"
      BY <1>5, <2>1, <2>2 DEF Planning!Kind
    <2>. HIDE DEF Planning!Opened, Planning!Replacing
    <2>4. \A d \in PlanningConf.Callers : (Planning!Created(d))' <=> (Planning!Opened(d))'
      BY <2>3 DEF Planning!Opened
    <2>. QED BY <1>5, <2>1, <2>3, <2>4 DEF Planning!FileInv
  <1>6. ASSUME NEW c \in PlanningConf.Callers, Planning!BeginReplace(c) PROVE Planning!FileInv'
    <2>1. /\ exists' = exists /\ text' = text /\ Planning!Kind(c) = "replace" /\ call[c].pc = "new"
          /\ \A d \in PlanningConf.Callers : d # c => call'[d] = call[d]
          /\ \/ call'[c].pc = "error"
             \/ /\ exists /\ (text # {} \/ \E d \in PlanningConf.Callers : call[d].pc = "broken")
                /\ call'[c].pc = "begun" /\ call'[c].seen = text
      BY <1>6 DEF Planning!BeginReplace
    <2>2. \A d \in PlanningConf.Callers :
             /\ (Planning!Opened(d))' = Planning!Opened(d) /\ (Planning!Created(d))' = Planning!Created(d)
             /\ Planning!Kind(d) = "replace" => (call'[d].pc = "open" <=> call[d].pc = "open")
             /\ call'[d].pc = "broken" <=> call[d].pc = "broken"
      BY <2>1 DEF Planning!Kind
    <2>3. \A d : Planning!Lost(d) <=> (Planning!Lost(d))'
      BY <2>1 DEF Planning!Lost, Planning!Kind
    <2>4. CASE call'[c].pc = "error"
      BY <2>1, <2>2, <2>3, <2>4 DEF Planning!FileInv, Planning!Kind
    <2>5. CASE /\ exists /\ (text # {} \/ \E d \in PlanningConf.Callers : call[d].pc = "broken")
               /\ call'[c].pc = "begun" /\ call'[c].seen = text
      <3>1. \A d \in PlanningConf.Callers : Planning!Opened(d) => Planning!Created(d) /\ (d \in text \/ Planning!Lost(d))
        BY <2>1, <2>5 DEF Planning!FileInv, Planning!Kind
      <3>2. \A d \in PlanningConf.Callers : (Planning!Replacing(d))' => d = c \/ (Planning!Replacing(d) /\ call'[d] = call[d])
        BY <2>1
      <3>3. \A d, e \in PlanningConf.Callers : (Planning!Opened(d))' /\ (Planning!Replacing(e))'
               => (Planning!Created(d))' /\ (d \in call'[e].seen \/ (Planning!Lost(d))')
        <4>1. \A d, e \in PlanningConf.Callers : Planning!Opened(d) /\ Planning!Replacing(e)
                 => Planning!Created(d) /\ (d \in call[e].seen \/ Planning!Lost(d))
          BY DEF Planning!FileInv
        <4>. HIDE DEF Planning!Opened, Planning!Created, Planning!Replacing
        <4>. QED BY <2>2, <2>3, <2>5, <3>1, <3>2, <4>1
      <3>. QED BY <2>1, <2>2, <2>3, <2>5, <3>3 DEF Planning!FileInv, Planning!Kind
    <2>. QED BY <2>1, <2>4, <2>5
  <1>7. ASSUME NEW c \in PlanningConf.Callers, Planning!OpenForReplace(c) PROVE Planning!FileInv'
    <2>1. /\ exists' = exists /\ text' = {} /\ Planning!Kind(c) = "replace" /\ call[c].pc = "begun"
          /\ \A d \in PlanningConf.Callers : d # c => call'[d] = call[d]
          /\ call'[c].pc = "open" /\ call'[c].seen = call[c].seen
      BY <1>7 DEF Planning!OpenForReplace
    <2>2. \A d : Planning!Lost(d) <=> (Planning!Lost(d))'
      BY <2>1 DEF Planning!Lost, Planning!Kind
    <2>. QED BY <2>1, <2>2 DEF Planning!FileInv, Planning!Kind
  <1>8. ASSUME NEW c \in PlanningConf.Callers, Planning!Kind(c) = "replace", call[c].pc = "open",
               exists' = exists, call'[c].seen = call[c].seen,
               \/ call'[c].pc = "ok" /\ text' = call[c].seen \cup {c}
               \/ call'[c].pc = "broken",
               \A d \in PlanningConf.Callers : d # c => call'[d] = call[d]
        PROVE  Planning!FileInv'
    <2>1. \A d \in PlanningConf.Callers :
             /\ (Planning!Opened(d))' = Planning!Opened(d) /\ (Planning!Created(d))' = Planning!Created(d)
             /\ (Planning!Replacing(d))' => Planning!Replacing(d) /\ call'[d] = call[d]
             /\ call'[d].pc = "broken" => call[d].pc = "broken" \/ (d = c /\ call'[c].pc = "broken")
      BY <1>8 DEF Planning!Kind
    <2>2. \A d : Planning!Lost(d) => (Planning!Lost(d))'
      BY <1>8, LostStays
    <2>3. call'[c].pc = "broken" => \A d \in call[c].seen : (Planning!Lost(d))'
      BY <1>8 DEF Planning!Lost, Planning!Kind
    <2>4. exists /\ \A d \in PlanningConf.Callers :
             Planning!Opened(d) => Planning!Created(d) /\ (d \in call[c].seen \/ Planning!Lost(d))
      BY <1>8 DEF Planning!FileInv
    <2>5. \A d \in PlanningConf.Callers : (Planning!Created(d))' => (d \in text' \/ (Planning!Lost(d))') /\ (text' # {} \/ (Planning!Lost(d))')
      <3>1. \A d \in PlanningConf.Callers : (Planning!Created(d))' => d \in call[c].seen \/ Planning!Lost(d)
        BY <2>1, <2>4
      <3>. QED BY <1>8, <2>2, <2>3, <3>1
    <2>. QED BY <1>8, <2>1, <2>2, <2>3, <2>4, <2>5 DEF Planning!FileInv
  <1>9. ASSUME NEW c \in PlanningConf.Callers, Planning!WriteNew(c) PROVE Planning!FileInv'
    <2>1. /\ exists' = exists /\ Planning!Kind(c) = "create" /\ call[c].pc = "open"
          /\ text' = text \cup {c} /\ call'[c].pc = "ok" /\ text' \in SUBSET PlanningConf.Callers
          /\ \A d \in PlanningConf.Callers : d # c => call'[d] = call[d]
      BY <1>9 DEF Planning!WriteNew
    <2>. QED BY <1>5, <2>1
  <1>10. ASSUME NEW c \in PlanningConf.Callers, Planning!WriteReplaced(c) PROVE Planning!FileInv'
    <2>1. /\ exists' = exists /\ text' = call[c].seen \cup {c} /\ Planning!Kind(c) = "replace"
          /\ call[c].pc = "open" /\ call'[c].pc = "ok" /\ call'[c].seen = call[c].seen
          /\ \A d \in PlanningConf.Callers : d # c => call'[d] = call[d]
      BY <1>10 DEF Planning!WriteReplaced
    <2>. QED BY <1>8, <2>1
  <1>11. ASSUME NEW c \in PlanningConf.Callers, Planning!FileFails(c) PROVE Planning!FileInv'
    <2>1. /\ exists' = exists /\ Planning!Kind(c) \in {"create", "replace"}
          /\ call[c].pc \in {"begun", "open"} /\ call'[c].seen = call[c].seen
          /\ call[c].pc = "begun" => call'[c].pc = "error" /\ text' = text
          /\ call[c].pc = "open" => call'[c].pc = "broken" /\ text' \in SUBSET PlanningConf.Callers
          /\ \A d \in PlanningConf.Callers : d # c => call'[d] = call[d]
      BY <1>11 DEF Planning!FileFails
    <2>2. CASE call[c].pc = "begun"
      <3>1. \A d \in PlanningConf.Callers :
               /\ (Planning!Opened(d))' = Planning!Opened(d) /\ (Planning!Created(d))' = Planning!Created(d)
               /\ (Planning!Replacing(d))' => Planning!Replacing(d) /\ call'[d] = call[d]
               /\ Planning!Kind(d) = "replace" => (call'[d].pc = "open" <=> call[d].pc = "open")
               /\ call'[d].pc = "broken" <=> call[d].pc = "broken"
        BY <2>1, <2>2 DEF Planning!Kind
      <3>2. \A d : Planning!Lost(d) <=> (Planning!Lost(d))'
        BY <2>1, <2>2 DEF Planning!Lost, Planning!Kind
      <3>. QED BY <2>1, <2>2, <3>1, <3>2 DEF Planning!FileInv, Planning!Kind
    <2>3. CASE call[c].pc = "open" /\ Planning!Kind(c) = "create"
      BY <1>5, <2>1, <2>3
    <2>4. CASE call[c].pc = "open" /\ Planning!Kind(c) = "replace"
      BY <1>8, <2>1, <2>4
    <2>. QED BY <2>1, <2>2, <2>3, <2>4
  <1>. QED
    BY <1>1, <1>2, <1>3, <1>4, <1>6, <1>7, <1>9, <1>10, <1>11 DEF Planning!Next

LEMMA PlanningSteps == PlanningInv /\ [Next]_vars => PlanningInv'
  <1>1. ASSUME PlanningInv, Planning!Next PROVE PlanningInv'
    BY <1>1, PlanningTypes, PlanningKnown, PlanningFiles DEF PlanningInv
  <1>2. ASSUME PlanningInv, UNCHANGED modes PROVE PlanningInv'
    BY <1>2 DEF modes, PlanningInv, Planning!TypeOK, Planning!ExitKnowsItsPlan, Planning!FileInv, Planning!Opened,
           Planning!Created, Planning!Replacing, Planning!Kind, Planning!Lost
  <1>. QED BY <1>1, <1>2 DEF Next, vars

LEMMA PlanningInvariance == Spec => []PlanningInv
  <1>. QED BY PlanningStarts, PlanningSteps, PTL DEF Spec

(* An exit knows the plan it ends, and a file reported as created keeps its  *)
(* text, whatever calls of all sessions interleave, unless a replacement     *)
(* that had read it broke off with the file open (_session_mode and          *)
(* _planning_state; write_new_file and replace_file_text).                   *)
THEOREM CreatedFilesKeepTheirText == Spec => []FilesAgree
  <1>1. PlanningInv => FilesAgree
    BY DEF PlanningInv, FilesAgree, Planning!CreatedTextStays, Planning!FileInv, Planning!Created
  <1>. QED BY <1>1, PlanningInvariance, PTL

(* Only an exit that has written its plan whole, or a clear, ends planning   *)
(* mode (exit_planning_mode, post_session_planning_exit).                    *)
THEOREM PlansAreOnDisk == Spec => LeavesWithPlan
  <1>. DEFINE Leaves == \A s \in PlanningConf.Sessions :
         planning[s] /\ ~planning'[s] /\ ~Planning!Clear(s) =>
            \E c \in PlanningConf.Callers :
               Planning!Session(c) = s /\ c \in artifact'[Planning!PathOf(c)] /\ call'[c].pc = "ok"
  <1>1. ASSUME PlanningInv, Planning!Next PROVE Leaves
    <2>. SUFFICES ASSUME NEW s \in PlanningConf.Sessions,
                         planning[s], ~planning'[s], ~Planning!Clear(s)
                  PROVE  \E c \in PlanningConf.Callers :
               Planning!Session(c) = s /\ c \in artifact'[Planning!PathOf(c)] /\ call'[c].pc = "ok"
      OBVIOUS
    <2>. USE DEF PlanningInv, Planning!TypeOK
    <2>1. ASSUME NEW t \in PlanningConf.Sessions, Planning!Clear(t) PROVE FALSE
      <3>1. t # s
        BY <2>1
      <3>. QED BY <1>1, <2>1, <3>1 DEF Planning!Clear
    <2>2. ASSUME NEW c \in PlanningConf.Callers, Planning!Enter(c) PROVE FALSE
      BY <1>1, <2>2, PlanningCallers DEF Planning!Enter
    <2>3. CASE \E c \in PlanningConf.Callers : Planning!FinishExit(c)
      <3>1. PICK c \in PlanningConf.Callers : Planning!FinishExit(c)
        BY <2>3
      <3>2. /\ Planning!PathOf(c) \in PlanningConf.Sessions \X (0..PlanningConf.MaxSeconds)
            /\ Planning!Session(c) \in PlanningConf.Sessions
        BY <1>1, PlanningCallers DEF Planning!PathOf
      <3>3. Planning!Session(c) = s
        BY <1>1, <3>1, <3>2 DEF Planning!FinishExit
      <3>4. c \in artifact'[Planning!PathOf(c)] /\ call'[c].pc = "ok"
        BY <1>1, <3>1, <3>2 DEF Planning!FinishExit, Planning!To
      <3>. QED BY <3>3, <3>4
    <2>4. ASSUME planning' = planning PROVE FALSE
      BY <2>4
    <2>. QED
      BY <1>1, <2>1, <2>2, <2>3, <2>4 DEF Planning!Next, Planning!BeginExit, Planning!OpenArtifact, Planning!ExitFails,
         Planning!BeginCreate, Planning!OpenNew, Planning!WriteNew, Planning!BeginReplace, Planning!OpenForReplace,
         Planning!WriteReplaced, Planning!FileFails, Planning!Tick
  <1>2. PlanningInv /\ [Next]_vars => [Leaves]_(Planning!vars)
    <2>1. UNCHANGED modes => UNCHANGED Planning!vars
      BY DEF modes, Planning!vars
    <2>. QED BY <1>1, <2>1 DEF Next, vars
  <1>. QED BY <1>2, PlanningInvariance, PTL DEF Spec, LeavesWithPlan, Planning!LeavesWithPlan

-----------------------------------------------------------------------------
(* The dispatch of drafts: a check of the budget sees enough of the past.    *)
DispatchInv == Dispatch!TypeOK /\ Dispatch!BudgetInv /\ WithinBudget

Limit(k) == DispatchConf.Limits[k[1]]

LEMMA DispatchBounds ==
    /\ DispatchConf.Minute \in Nat /\ DispatchConf.Hour \in Nat /\ DispatchConf.Minute <= DispatchConf.Hour
    /\ DispatchConf.MaxTime \in Nat /\ IsFiniteSet(DispatchConf.Drafts)
  BY DispatchAssumption

LEMMA DispatchConstants ==
    /\ Dispatch!Keys' = Dispatch!Keys /\ Dispatch!Sources' = Dispatch!Sources
    /\ \A d : (Dispatch!Key(d))' = Dispatch!Key(d)
  BY DEF Dispatch!Keys, Dispatch!Sources, Dispatch!Key

LEMMA DispatchCardinality == \A S : Dispatch!Cardinality(S) = Cardinality(S)
  BY DEF Dispatch!Cardinality, Cardinality

LEMMA LimitTypes ==
    ASSUME NEW k, k[1] \in DOMAIN DispatchConf.Limits
    PROVE  Limit(k).per_session \in Nat /\ Limit(k).per_minute \in Nat /\ Limit(k).per_hour \in Nat
  BY DispatchAssumption DEF Limit

LEMMA DraftKeys ==
    ASSUME NEW d \in DispatchConf.Drafts
    PROVE  /\ Dispatch!Key(d) \in Dispatch!Keys /\ Dispatch!Key(d)[1] = DispatchConf.Draft[d].channel
           /\ DispatchConf.Draft[d].source \in Dispatch!Sources
  BY DEF Dispatch!Key, Dispatch!Keys, Dispatch!Sources

LEMMA ChargedFinite ==
    ASSUME NEW k
    PROVE  /\ IsFiniteSet(Dispatch!Charged(k)) /\ Cardinality(Dispatch!Charged(k)) \in Nat
           /\ \A from, length : /\ IsFiniteSet(Dispatch!ChargedIn(k, from, length))
                                /\ Cardinality(Dispatch!ChargedIn(k, from, length)) \in Nat
  <1>1. \A S \in SUBSET DispatchConf.Drafts : IsFiniteSet(S) /\ Cardinality(S) \in Nat
    BY DispatchAssumption, FS_Subset, FS_CardinalityType
  <1>. QED BY <1>1 DEF Dispatch!Charged, Dispatch!ChargedIn

(* As many stamps as charges they stand for.                                 *)
LEMMA StampsCount ==
    ASSUME NEW S \in SUBSET DispatchConf.Drafts, NEW T, IsFiniteSet(T),
           \A d \in S : <<charged[d], d>> \in T
    PROVE  Cardinality(S) <= Cardinality(T)
  <1>. DEFINE f == [d \in S |-> <<charged[d], d>>]
  <1>1. f \in Injection(S, T)
    BY DEF Injection, IsInjective
  <1>. QED BY <1>1, FS_Injection

LEMMA StampsFinite ==
    ASSUME DispatchInv, NEW k \in Dispatch!Keys
    PROVE  /\ IsFiniteSet(timestamps[k])
           /\ IsFiniteSet(Dispatch!Pruned(k)) /\ IsFiniteSet(Dispatch!InMinute(k))
           /\ Cardinality(Dispatch!Pruned(k)) \in Nat /\ Cardinality(Dispatch!InMinute(k)) \in Nat
  <1>1. /\ IsFiniteSet(0..DispatchConf.MaxTime) /\ IsFiniteSet(DispatchConf.Drafts)
    <2>1. 0 \in Int /\ DispatchConf.MaxTime \in Int
      BY DispatchBounds
    <2>. QED BY <2>1, DispatchBounds, FS_Interval
  <1>2. IsFiniteSet((0..DispatchConf.MaxTime) \X DispatchConf.Drafts)
    BY <1>1, FS_Product
  <1>3. \A T \in SUBSET ((0..DispatchConf.MaxTime) \X DispatchConf.Drafts) : IsFiniteSet(T) /\ Cardinality(T) \in Nat
    BY <1>2, FS_Subset, FS_CardinalityType
  <1>4. timestamps[k] \in SUBSET ((0..DispatchConf.MaxTime) \X DispatchConf.Drafts)
    BY DEF DispatchInv, Dispatch!TypeOK
  <1>. QED BY <1>3, <1>4 DEF Dispatch!Pruned, Dispatch!InMinute

LEMMA DispatchStarts == Init => DispatchInv
  <1>. SUFFICES ASSUME Dispatch!Init PROVE DispatchInv
    BY DEF Init
  <1>. USE DEF Dispatch!Init
  <1>1. \A k : Dispatch!Charged(k) = {}
    BY DispatchBounds DEF Dispatch!Charged
  <1>2. Dispatch!TypeOK
    BY DispatchBounds DEF Dispatch!TypeOK
  <1>0. Cardinality({}) = 0
    BY FS_EmptySet
  <1>3. Dispatch!BudgetInv
    <2>1. \A d \in DispatchConf.Drafts : ~(charged[d] <= DispatchConf.MaxTime)
      BY DispatchBounds
    <2>. QED BY <1>0, <1>1, <2>1, DispatchCardinality DEF Dispatch!BudgetInv
  <1>4. \A k, from, length : Dispatch!ChargedIn(k, from, length) = {}
    BY <1>1 DEF Dispatch!ChargedIn
  <1>5. Dispatch!WindowLimits
    <2>1. ASSUME NEW k \in Dispatch!Keys, k[1] \in DOMAIN DispatchConf.Limits
          PROVE  /\ Cardinality({}) <= DispatchConf.Limits[k[1]].per_session
                 /\ Cardinality({}) <= DispatchConf.Limits[k[1]].per_minute
                 /\ Cardinality({}) <= DispatchConf.Limits[k[1]].per_hour
      BY <1>0, <2>1, LimitTypes DEF Limit
    <2>. QED BY <1>1, <1>4, <2>1, DispatchCardinality DEF Dispatch!WindowLimits
  <1>6. Dispatch!SendsAreCharged /\ Dispatch!TracesAreSent
    BY DEF Dispatch!SendsAreCharged, Dispatch!TracesAreSent
  <1>. QED BY <1>2, <1>3, <1>5, <1>6 DEF DispatchInv, WithinBudget

(* What a dispatch does to the budget: nothing but forgetting, or a charge   *)
(* that passes the limits.                                                   *)
Forgets(d) ==
    /\ UNCHANGED <<charged, per_session_counts, odNow>>
    /\ \/ timestamps' = timestamps
       \/ timestamps' = [timestamps EXCEPT ![Dispatch!Key(d)] = Dispatch!Pruned(Dispatch!Key(d))]
Charges(d) ==
    LET k == Dispatch!Key(d) IN
    /\ k[1] \in DOMAIN DispatchConf.Limits
    /\ Dispatch!Allowed(k, Limit(k))
    /\ timestamps' = [timestamps EXCEPT ![k] = Dispatch!Pruned(k) \cup {<<odNow, d>>}]
    /\ per_session_counts' = [per_session_counts EXCEPT ![k] = @ + 1]
    /\ charged' = [charged EXCEPT ![d] = odNow]
    /\ odNow' = odNow

LEMMA DispatchCases ==
    ASSUME NEW d \in DispatchConf.Drafts, Dispatch!Dispatch(d)
    PROVE  Forgets(d) \/ Charges(d)
  BY DraftKeys DEF Dispatch!Dispatch, Dispatch!Charge, Forgets, Charges, Limit

LEMMA DispatchTypes ==
    ASSUME DispatchInv, Dispatch!Next
    PROVE  Dispatch!TypeOK'
  <1>. USE DEF DispatchInv, Dispatch!TypeOK
  <1>1. ASSUME NEW d \in DispatchConf.Drafts, Dispatch!Dispatch(d) PROVE Dispatch!TypeOK'
    <2>. DEFINE k == Dispatch!Key(d)
    <2>1. k \in Dispatch!Keys
      BY DraftKeys
    <2>2. /\ Dispatch!Pruned(k) \cup {<<odNow, d>>} \in SUBSET ((0..DispatchConf.MaxTime) \X DispatchConf.Drafts)
          /\ Dispatch!Pruned(k) \in SUBSET ((0..DispatchConf.MaxTime) \X DispatchConf.Drafts)
      BY <2>1 DEF Dispatch!Pruned
    <2>3. /\ timestamps' \in [Dispatch!Keys -> SUBSET ((0..DispatchConf.MaxTime) \X DispatchConf.Drafts)]
          /\ per_session_counts' \in [Dispatch!Keys -> Nat]
          /\ charged' \in [DispatchConf.Drafts -> 0..(DispatchConf.MaxTime + 1)]
      <3>1. CASE Forgets(d)
        BY <2>1, <2>2, <3>1 DEF Forgets
      <3>2. CASE Charges(d)
        <4>1. odNow \in 0..(DispatchConf.MaxTime + 1)
          BY DispatchBounds
        <4>. QED BY <2>1, <2>2, <3>2, <4>1 DEF Charges
      <3>. QED BY <1>1, <3>1, <3>2, DispatchCases
    <2>4. odPc' \in [DispatchConf.Drafts -> {"committed", "sending", "sent", "failed", "rate_limited", "not_found"}]
      BY <1>1 DEF Dispatch!Dispatch
    <2>. QED BY <1>1, <2>3, <2>4 DEF Dispatch!Dispatch
  <1>2. ASSUME NEW d \in DispatchConf.Drafts, Dispatch!Sent(d) PROVE Dispatch!TypeOK'
    <2>1. Dispatch!Key(d) \in Dispatch!Keys /\ DispatchConf.Draft[d].source \in Dispatch!Sources
      BY DraftKeys
    <2>2. Append(injections[DispatchConf.Draft[d].source], Dispatch!Key(d)) \in Seq(Dispatch!Keys)
      BY <2>1
    <2>3. injections' \in [Dispatch!Sources -> Seq(Dispatch!Keys)]
      BY <1>2, <2>1, <2>2 DEF Dispatch!Sent
    <2>. QED BY <1>2, <2>1, <2>3 DEF Dispatch!Sent
  <1>3. ASSUME NEW d \in DispatchConf.Drafts, Dispatch!SendFails(d) PROVE Dispatch!TypeOK'
    BY <1>3 DEF Dispatch!SendFails
  <1>4. ASSUME NEW s \in Dispatch!Sources, Dispatch!Consume(s) PROVE Dispatch!TypeOK'
    BY <1>4 DEF Dispatch!Consume
  <1>5. ASSUME Dispatch!Tick PROVE Dispatch!TypeOK'
    BY <1>5, DispatchAssumption DEF Dispatch!Tick
  <1>. QED BY <1>1, <1>2, <1>3, <1>4, <1>5 DEF Dispatch!Next

LEMMA ForgettingKeepsBudget ==
    ASSUME DispatchInv, NEW d \in DispatchConf.Drafts, Forgets(d),
           \A e \in DispatchConf.Drafts : odPc[e] # "committed" => odPc'[e] # "committed"
    PROVE  Dispatch!BudgetInv' /\ Dispatch!WindowLimits'
  <1>1. \A k : (Dispatch!Charged(k))' = Dispatch!Charged(k)
    BY DEF Forgets, Dispatch!Charged
  <1>2. \A k \in Dispatch!Keys : \/ timestamps'[k] = timestamps[k]
                                 \/ timestamps'[k] = Dispatch!Pruned(k)
    BY DraftKeys DEF Forgets, DispatchInv, Dispatch!TypeOK
  <1>3. Dispatch!BudgetInv'
    BY <1>1, <1>2 DEF Forgets, DispatchInv, Dispatch!BudgetInv, Dispatch!Pruned
  <1>4. \A k, from, length : (Dispatch!ChargedIn(k, from, length))' = Dispatch!ChargedIn(k, from, length)
    BY <1>1 DEF Forgets, Dispatch!ChargedIn
  <1>5. Dispatch!WindowLimits'
    BY <1>1, <1>4 DEF DispatchInv, WithinBudget, Dispatch!WindowLimits
  <1>. QED BY <1>3, <1>5

LEMMA ChargingKeepsBudget ==
    ASSUME DispatchInv, NEW d \in DispatchConf.Drafts, odPc[d] = "committed", Charges(d),
           \A e \in DispatchConf.Drafts : (odPc[e] # "committed" \/ e = d) => odPc'[e] # "committed"
    PROVE  Dispatch!BudgetInv' /\ Dispatch!WindowLimits'
  <1>. DEFINE k == Dispatch!Key(d)
  <1>. USE DispatchBounds
  <1>1. /\ k \in Dispatch!Keys /\ k[1] \in DOMAIN DispatchConf.Limits
        /\ odNow \in 0..DispatchConf.MaxTime
        /\ charged \in [DispatchConf.Drafts -> 0..(DispatchConf.MaxTime + 1)]
        /\ timestamps \in [Dispatch!Keys -> SUBSET ((0..DispatchConf.MaxTime) \X DispatchConf.Drafts)]
        /\ per_session_counts \in [Dispatch!Keys -> Nat]
    BY DraftKeys DEF Charges, DispatchInv, Dispatch!TypeOK
  <1>2. \A e \in DispatchConf.Drafts : charged[e] <= DispatchConf.MaxTime => charged[e] <= odNow /\ e # d
    BY DEF DispatchInv, Dispatch!BudgetInv
  <1>. USE DispatchCardinality
  <1>14. \A j \in Dispatch!Keys :
             /\ timestamps[j] \subseteq {<<charged[e], e>> : e \in Dispatch!Charged(j)}
             /\ \A e \in Dispatch!Charged(j) : odNow - charged[e] < DispatchConf.Hour => <<charged[e], e>> \in timestamps[j]
             /\ per_session_counts[j] = Cardinality(Dispatch!Charged(j))
    BY DEF DispatchInv, Dispatch!BudgetInv
  <1>3. /\ odNow' = odNow /\ charged'[d] = odNow
        /\ \A e \in DispatchConf.Drafts : e # d => charged'[e] = charged[e]
        /\ timestamps'[k] = Dispatch!Pruned(k) \cup {<<odNow, d>>}
        /\ per_session_counts'[k] = per_session_counts[k] + 1
        /\ \A j \in Dispatch!Keys : j # k => timestamps'[j] = timestamps[j] /\ per_session_counts'[j] = per_session_counts[j]
    BY <1>1 DEF Charges
  <1>4. /\ (Dispatch!Charged(k))' = Dispatch!Charged(k) \cup {d} /\ d \notin Dispatch!Charged(k)
        /\ \A j : j # k => (Dispatch!Charged(j))' = Dispatch!Charged(j)
    <2>1. \A e \in DispatchConf.Drafts : charged'[e] <= DispatchConf.MaxTime <=> (charged[e] <= DispatchConf.MaxTime \/ e = d)
      BY <1>1, <1>3
    <2>. QED BY <1>2, <2>1 DEF Dispatch!Charged
  <1>5. \A j : \A e \in Dispatch!Charged(j) : e \in DispatchConf.Drafts /\ e # d /\ charged'[e] = charged[e]
                                               /\ charged[e] <= odNow /\ charged[e] \in 0..DispatchConf.MaxTime
    BY <1>1, <1>2, <1>3 DEF Dispatch!Charged
  <1>6. Dispatch!BudgetInv'
    <2>1. \A e \in DispatchConf.Drafts : charged'[e] <= DispatchConf.MaxTime => charged'[e] <= odNow' /\ odPc'[e] # "committed"
      BY <1>1, <1>2, <1>3 DEF DispatchInv, Dispatch!BudgetInv
    <2>2. ASSUME NEW j \in Dispatch!Keys
          PROVE  /\ timestamps'[j] \subseteq {<<charged'[e], e>> : e \in (Dispatch!Charged(j))'}
                 /\ \A e \in (Dispatch!Charged(j))' : odNow' - charged'[e] < DispatchConf.Hour => <<charged'[e], e>> \in timestamps'[j]
                 /\ per_session_counts'[j] = Cardinality((Dispatch!Charged(j))')
      <3>1. CASE j # k
        BY <1>2, <1>14, <1>3, <1>4, <1>5, <3>1
      <3>2. CASE j = k
        <4>1. timestamps'[k] \subseteq {<<charged'[e], e>> : e \in (Dispatch!Charged(k))'}
          BY <1>1, <1>2, <1>14, <1>3, <1>4, <1>5 DEF Dispatch!Pruned
        <4>2. ASSUME NEW e \in (Dispatch!Charged(k))', odNow' - charged'[e] < DispatchConf.Hour
              PROVE  <<charged'[e], e>> \in timestamps'[k]
          <5>1. CASE e = d
            BY <1>3, <5>1
          <5>2. CASE e \in Dispatch!Charged(k)
            BY <1>1, <1>14, <1>3, <1>5, <4>2, <5>2 DEF Dispatch!Pruned
          <5>. QED BY <1>4, <4>2, <5>1, <5>2
        <4>3. per_session_counts'[k] = Cardinality((Dispatch!Charged(k))')
          <5>1. Cardinality(Dispatch!Charged(k) \cup {d}) = Cardinality(Dispatch!Charged(k)) + 1
            BY <1>4, ChargedFinite, FS_AddElement
          <5>. QED BY <1>1, <1>14, <1>3, <1>4, <5>1
        <4>. QED BY <3>2, <4>1, <4>2, <4>3
      <3>. QED BY <3>1, <3>2
    <2>. QED BY <2>1, <2>2, DispatchConstants DEF Dispatch!BudgetInv
  <1>7. /\ per_session_counts[k] < Limit(k).per_session
        /\ Cardinality(Dispatch!InMinute(k)) < Limit(k).per_minute
        /\ Cardinality(Dispatch!Pruned(k)) < Limit(k).per_hour
    <2>1. Dispatch!Allowed(k, Limit(k))
      BY DEF Charges
    <2>. QED BY <2>1 DEF Dispatch!Allowed
  <1>8. ASSUME NEW from \in Int, NEW length \in Nat
        PROVE  /\ \A j : j # k => (Dispatch!ChargedIn(j, from, length))' = Dispatch!ChargedIn(j, from, length)
               /\ from > odNow \/ from + length <= odNow => (Dispatch!ChargedIn(k, from, length))' = Dispatch!ChargedIn(k, from, length)
               /\ from <= odNow /\ odNow < from + length => (Dispatch!ChargedIn(k, from, length))' = Dispatch!ChargedIn(k, from, length) \cup {d}
    BY <1>1, <1>3, <1>4, <1>5, <1>8 DEF Dispatch!ChargedIn
  <1>9. ASSUME NEW from \in Int, NEW T, IsFiniteSet(T), NEW length \in Nat, odNow < from + length,
               \A e \in Dispatch!Charged(k) : odNow - charged[e] < length => <<charged[e], e>> \in T
        PROVE  Cardinality(Dispatch!ChargedIn(k, from, length)) <= Cardinality(T)
    <2>1. Dispatch!ChargedIn(k, from, length) \in SUBSET DispatchConf.Drafts
      BY DEF Dispatch!ChargedIn, Dispatch!Charged
    <2>2. \A e \in Dispatch!ChargedIn(k, from, length) : <<charged[e], e>> \in T
      BY <1>1, <1>5, <1>9 DEF Dispatch!ChargedIn
    <2>. QED BY <1>9, <2>1, <2>2, StampsCount
  <1>10. /\ \A e \in Dispatch!Charged(k) : odNow - charged[e] < DispatchConf.Minute => <<charged[e], e>> \in Dispatch!InMinute(k)
         /\ \A e \in Dispatch!Charged(k) : odNow - charged[e] < DispatchConf.Hour => <<charged[e], e>> \in Dispatch!Pruned(k)
    BY <1>1, <1>14, <1>5 DEF Dispatch!InMinute, Dispatch!Pruned
  <1>11. ASSUME NEW j \in Dispatch!Keys, j[1] \in DOMAIN DispatchConf.Limits, NEW from \in 0..DispatchConf.MaxTime
         PROVE  /\ Cardinality((Dispatch!ChargedIn(j, from, DispatchConf.Minute))') <= Limit(j).per_minute
                /\ Cardinality((Dispatch!ChargedIn(j, from, DispatchConf.Hour))') <= Limit(j).per_hour
    <2>1. /\ Cardinality(Dispatch!ChargedIn(j, from, DispatchConf.Minute)) <= Limit(j).per_minute
          /\ Cardinality(Dispatch!ChargedIn(j, from, DispatchConf.Hour)) <= Limit(j).per_hour
      BY <1>11 DEF DispatchInv, WithinBudget, Dispatch!WindowLimits, Limit
    <2>2. from \in Int /\ odNow \in Int
      BY <1>1
    <2>3. ASSUME NEW length \in Nat, j = k, odNow < from + length, from <= odNow, NEW T, IsFiniteSet(T), NEW limit \in Nat,
                 \A e \in Dispatch!Charged(k) : odNow - charged[e] < length => <<charged[e], e>> \in T,
                 Cardinality(T) < limit, Cardinality(T) \in Nat
          PROVE  Cardinality((Dispatch!ChargedIn(j, from, length))') <= limit
      <3>1. (Dispatch!ChargedIn(k, from, length))' = Dispatch!ChargedIn(k, from, length) \cup {d}
        BY <1>8, <2>2, <2>3
      <3>2. Cardinality(Dispatch!ChargedIn(k, from, length)) <= Cardinality(T)
        BY <1>9, <2>2, <2>3
      <3>3. d \notin Dispatch!ChargedIn(k, from, length)
        BY <1>4 DEF Dispatch!ChargedIn
      <3>4. Cardinality(Dispatch!ChargedIn(k, from, length) \cup {d}) = Cardinality(Dispatch!ChargedIn(k, from, length)) + 1
        BY <3>3, ChargedFinite, FS_AddElement
      <3>5. Cardinality(Dispatch!ChargedIn(k, from, length)) \in Nat
        BY ChargedFinite
      <3>. QED BY <2>3, <3>1, <3>2, <3>4, <3>5
    <2>4. /\ IsFiniteSet(Dispatch!InMinute(k)) /\ Cardinality(Dispatch!InMinute(k)) \in Nat
          /\ IsFiniteSet(Dispatch!Pruned(k)) /\ Cardinality(Dispatch!Pruned(k)) \in Nat
          /\ Limit(k).per_minute \in Nat /\ Limit(k).per_hour \in Nat
      BY <1>1, StampsFinite, LimitTypes
    <2>5. Cardinality((Dispatch!ChargedIn(j, from, DispatchConf.Minute))') <= Limit(j).per_minute
      <3>1. CASE j = k /\ odNow < from + DispatchConf.Minute /\ from <= odNow
        BY <1>7, <1>10, <2>3, <2>4, <3>1
      <3>2. CASE ~(j = k /\ odNow < from + DispatchConf.Minute /\ from <= odNow)
        <4>1. (Dispatch!ChargedIn(j, from, DispatchConf.Minute))' = Dispatch!ChargedIn(j, from, DispatchConf.Minute)
          BY <1>8, <2>2, <3>2
        <4>. QED BY <2>1, <4>1
      <3>. QED BY <3>1, <3>2
    <2>6. Cardinality((Dispatch!ChargedIn(j, from, DispatchConf.Hour))') <= Limit(j).per_hour
      <3>1. CASE j = k /\ odNow < from + DispatchConf.Hour /\ from <= odNow
        BY <1>7, <1>10, <2>3, <2>4, <3>1
      <3>2. CASE ~(j = k /\ odNow < from + DispatchConf.Hour /\ from <= odNow)
        <4>1. (Dispatch!ChargedIn(j, from, DispatchConf.Hour))' = Dispatch!ChargedIn(j, from, DispatchConf.Hour)
          BY <1>8, <2>2, <3>2
        <4>. QED BY <2>1, <4>1
      <3>. QED BY <3>1, <3>2
    <2>. QED BY <2>5, <2>6
  <1>12. ASSUME NEW j \in Dispatch!Keys, j[1] \in DOMAIN DispatchConf.Limits
         PROVE  Cardinality((Dispatch!Charged(j))') <= Limit(j).per_session
    <2>1. Cardinality(Dispatch!Charged(j)) <= Limit(j).per_session
      BY <1>12 DEF DispatchInv, WithinBudget, Dispatch!WindowLimits, Limit
    <2>2. CASE j # k
      BY <1>4, <2>1, <2>2
    <2>3. CASE j = k
      <3>1. Cardinality((Dispatch!Charged(k))') = Cardinality(Dispatch!Charged(k)) + 1
        BY <1>4, ChargedFinite, FS_AddElement
      <3>. QED BY <1>1, <1>14, <1>7, <2>3, <3>1, ChargedFinite, LimitTypes
    <2>. QED BY <2>2, <2>3
  <1>13. Dispatch!WindowLimits'
    BY <1>11, <1>12, DispatchConstants DEF Dispatch!WindowLimits, Limit
  <1>. QED BY <1>6, <1>13

LEMMA DispatchBudget ==
    ASSUME DispatchInv, Dispatch!Next
    PROVE  Dispatch!BudgetInv' /\ Dispatch!WindowLimits'
  <1>1. ASSUME NEW d \in DispatchConf.Drafts, Dispatch!Dispatch(d) PROVE Dispatch!BudgetInv' /\ Dispatch!WindowLimits'
    <2>1. /\ odPc[d] = "committed"
          /\ \A e \in DispatchConf.Drafts : (odPc[e] # "committed" \/ e = d) => odPc'[e] # "committed"
      BY <1>1 DEF Dispatch!Dispatch, DispatchInv, Dispatch!TypeOK
    <2>. QED BY <1>1, <2>1, DispatchCases, ForgettingKeepsBudget, ChargingKeepsBudget
  <1>2. ASSUME NEW d \in DispatchConf.Drafts, Dispatch!Sent(d) \/ Dispatch!SendFails(d)
        PROVE  Dispatch!BudgetInv' /\ Dispatch!WindowLimits'
    <2>1. Forgets(d)
      BY <1>2 DEF Forgets, Dispatch!Sent, Dispatch!SendFails
    <2>2. \A e \in DispatchConf.Drafts : odPc[e] # "committed" => odPc'[e] # "committed"
      BY <1>2 DEF Dispatch!Sent, Dispatch!SendFails, DispatchInv, Dispatch!TypeOK
    <2>. QED BY <2>1, <2>2, ForgettingKeepsBudget
  <1>3. ASSUME odNow \in Nat, odNow' \in Nat, odNow <= odNow', UNCHANGED <<timestamps, per_session_counts, odPc, charged>>
        PROVE  Dispatch!BudgetInv' /\ Dispatch!WindowLimits'
    <2>1. \A k : (Dispatch!Charged(k))' = Dispatch!Charged(k)
      BY <1>3 DEF Dispatch!Charged
    <2>2. Dispatch!BudgetInv'
      <3>1. \A d \in DispatchConf.Drafts : charged[d] \in Int
        BY DispatchAssumption DEF DispatchInv, Dispatch!TypeOK
      <3>2. \A k : \A d \in Dispatch!Charged(k) : charged[d] \in Int
        BY <3>1 DEF Dispatch!Charged
      <3>. QED BY <1>3, <2>1, <3>1, <3>2, DispatchAssumption DEF DispatchInv, Dispatch!BudgetInv
    <2>3. \A k, from, length : (Dispatch!ChargedIn(k, from, length))' = Dispatch!ChargedIn(k, from, length)
      BY <1>3, <2>1 DEF Dispatch!ChargedIn
    <2>4. Dispatch!WindowLimits'
      BY <2>1, <2>3 DEF DispatchInv, WithinBudget, Dispatch!WindowLimits
    <2>. QED BY <2>2, <2>4
  <1>4. odNow \in Nat
    BY DispatchAssumption DEF DispatchInv, Dispatch!TypeOK
  <1>5. ASSUME NEW s \in Dispatch!Sources, Dispatch!Consume(s) PROVE Dispatch!BudgetInv' /\ Dispatch!WindowLimits'
    BY <1>3, <1>4, <1>5 DEF Dispatch!Consume
  <1>6. ASSUME Dispatch!Tick PROVE Dispatch!BudgetInv' /\ Dispatch!WindowLimits'
    BY <1>3, <1>4, <1>6 DEF Dispatch!Tick
  <1>. QED BY <1>1, <1>2, <1>5, <1>6 DEF Dispatch!Next

LEMMA DispatchCharges ==
    ASSUME DispatchInv, Dispatch!Next
    PROVE  Dispatch!SendsAreCharged'
  <1>. USE DispatchAssumption DEF DispatchInv, Dispatch!TypeOK, WithinBudget, Dispatch!SendsAreCharged
  <1>1. ASSUME NEW d \in DispatchConf.Drafts, Dispatch!Dispatch(d) PROVE Dispatch!SendsAreCharged'
    <2>1. \A e \in DispatchConf.Drafts : e # d => odPc'[e] = odPc[e] /\ charged'[e] = charged[e]
      BY <1>1 DEF Dispatch!Dispatch, Dispatch!Charge
    <2>2. /\ DispatchConf.Draft[d].channel \in DOMAIN DispatchConf.Limits
          /\ odPc'[d] \in {"sending", "sent", "failed"}
          => charged'[d] <= DispatchConf.MaxTime
      BY <1>1 DEF Dispatch!Dispatch, Dispatch!Charge
    <2>. QED BY <2>1, <2>2
  <1>2. ASSUME NEW d \in DispatchConf.Drafts, Dispatch!Sent(d) \/ Dispatch!SendFails(d) PROVE Dispatch!SendsAreCharged'
    BY <1>2 DEF Dispatch!Sent, Dispatch!SendFails
  <1>3. ASSUME Dispatch!Tick \/ \E s \in Dispatch!Sources : Dispatch!Consume(s) PROVE Dispatch!SendsAreCharged'
    BY <1>3 DEF Dispatch!Tick, Dispatch!Consume
  <1>. QED BY <1>1, <1>2, <1>3 DEF Dispatch!Next

LEMMA DispatchTraces ==
    ASSUME DispatchInv, Dispatch!Next
    PROVE  Dispatch!TracesAreSent'
  <1>. USE DEF DispatchInv, Dispatch!TypeOK, WithinBudget, Dispatch!TracesAreSent
  <1>1. ASSUME \A d \in DispatchConf.Drafts : odPc[d] = "sent" => odPc'[d] = "sent", UNCHANGED <<tracked, injections>>
        PROVE  Dispatch!TracesAreSent'
    BY <1>1, DispatchConstants
  <1>2. ASSUME NEW d \in DispatchConf.Drafts, Dispatch!Dispatch(d) \/ Dispatch!SendFails(d) PROVE Dispatch!TracesAreSent'
    BY <1>1, <1>2 DEF Dispatch!Dispatch, Dispatch!SendFails
  <1>3. ASSUME NEW d \in DispatchConf.Drafts, Dispatch!Sent(d) PROVE Dispatch!TracesAreSent'
    <2>1. /\ odPc'[d] = "sent" /\ \A e \in DispatchConf.Drafts : odPc[e] = "sent" => odPc'[e] = "sent"
          /\ \A k \in tracked' : k \in tracked \/ k = Dispatch!Key(d)
      BY <1>3 DEF Dispatch!Sent
    <2>2. ASSUME NEW s \in Dispatch!Sources, NEW n \in 1..Len(injections'[s])
          PROVE  \/ n \in 1..Len(injections[s]) /\ injections'[s][n] = injections[s][n]
                 \/ /\ injections'[s][n] = Dispatch!Key(d) /\ DispatchConf.Draft[d].source = s
                    /\ Dispatch!Key(d) # s
      <3>1. injections[s] \in Seq(Dispatch!Keys) /\ Dispatch!Key(d) \in Dispatch!Keys
        BY DraftKeys
      <3>2. CASE injections'[s] = injections[s]
        BY <3>2
      <3>3. CASE /\ injections'[s] = Append(injections[s], Dispatch!Key(d))
                 /\ DispatchConf.Draft[d].source = s /\ Dispatch!Key(d) # s
        BY <3>1, <3>3
      <3>4. \/ injections'[s] = injections[s]
            \/ /\ injections'[s] = Append(injections[s], Dispatch!Key(d))
               /\ DispatchConf.Draft[d].source = s /\ Dispatch!Key(d) # s
        <4>1. CASE DispatchConf.Draft[d].source = s /\ Dispatch!Key(d) # s
          BY <1>3, <3>1, <4>1 DEF Dispatch!Sent
        <4>2. CASE DispatchConf.Draft[d].source # s
          BY <1>3, <4>2 DEF Dispatch!Sent
        <4>3. CASE DispatchConf.Draft[d].source = s /\ Dispatch!Key(d) = s
          BY <1>3, <4>3 DEF Dispatch!Sent
        <4>. QED BY <4>1, <4>2, <4>3
      <3>. QED BY <3>2, <3>3, <3>4
    <2>3. \A k \in tracked' : \E e \in DispatchConf.Drafts : Dispatch!Key(e) = k /\ odPc'[e] = "sent"
      BY <2>1
    <2>4. \A s \in Dispatch!Sources : \A n \in 1..Len(injections'[s]) :
             \E e \in DispatchConf.Drafts : /\ Dispatch!Key(e) = injections'[s][n] /\ DispatchConf.Draft[e].source = s
                                            /\ odPc'[e] = "sent" /\ Dispatch!Key(e) # s
      <3>. SUFFICES ASSUME NEW s \in Dispatch!Sources, NEW n \in 1..Len(injections'[s])
                    PROVE  \E e \in DispatchConf.Drafts :
                              /\ Dispatch!Key(e) = injections'[s][n] /\ DispatchConf.Draft[e].source = s
                              /\ odPc'[e] = "sent" /\ Dispatch!Key(e) # s
        OBVIOUS
      <3>1. CASE n \in 1..Len(injections[s]) /\ injections'[s][n] = injections[s][n]
        BY <2>1, <3>1
      <3>2. CASE /\ injections'[s][n] = Dispatch!Key(d) /\ DispatchConf.Draft[d].source = s
                 /\ Dispatch!Key(d) # s
        BY <2>1, <3>2
      <3>. QED BY <2>2, <3>1, <3>2
    <2>. QED BY <2>3, <2>4, DispatchConstants
  <1>4. ASSUME NEW s \in Dispatch!Sources, Dispatch!Consume(s) PROVE Dispatch!TracesAreSent'
    <2>1. /\ tracked' = tracked /\ odPc' = odPc
          /\ \A t \in Dispatch!Sources : injections'[t] = injections[t] \/ injections'[t] = <<>>
      BY <1>4 DEF Dispatch!Consume
    <2>2. \A t \in Dispatch!Sources : \A n \in 1..Len(injections'[t]) :
             n \in 1..Len(injections[t]) /\ injections'[t][n] = injections[t][n]
      BY <2>1
    <2>3. \A k \in tracked' : \E e \in DispatchConf.Drafts : Dispatch!Key(e) = k /\ odPc'[e] = "sent"
      BY <2>1
    <2>4. \A t \in Dispatch!Sources : \A n \in 1..Len(injections'[t]) :
             \E e \in DispatchConf.Drafts : /\ Dispatch!Key(e) = injections'[t][n] /\ DispatchConf.Draft[e].source = t
                                            /\ odPc'[e] = "sent" /\ Dispatch!Key(e) # t
      <3>. SUFFICES ASSUME NEW t \in Dispatch!Sources, NEW n \in 1..Len(injections'[t])
                    PROVE  \E e \in DispatchConf.Drafts :
                              /\ Dispatch!Key(e) = injections'[t][n] /\ DispatchConf.Draft[e].source = t
                              /\ odPc'[e] = "sent" /\ Dispatch!Key(e) # t
        OBVIOUS
      <3>1. n \in 1..Len(injections[t]) /\ injections'[t][n] = injections[t][n]
        BY <2>2
      <3>. QED BY <2>1, <3>1
    <2>. QED BY <2>3, <2>4, DispatchConstants
  <1>5. ASSUME Dispatch!Tick PROVE Dispatch!TracesAreSent'
    BY <1>1, <1>5 DEF Dispatch!Tick
  <1>. QED BY <1>2, <1>3, <1>4, <1>5 DEF Dispatch!Next

LEMMA DispatchSteps == DispatchInv /\ [Next]_vars => DispatchInv'
  <1>1. ASSUME DispatchInv, Dispatch!Next PROVE DispatchInv'
    BY <1>1, DispatchTypes, DispatchBudget, DispatchCharges, DispatchTraces DEF DispatchInv, WithinBudget
  <1>2. ASSUME DispatchInv, UNCHANGED dispatch PROVE DispatchInv'
    <2>. USE <1>2 DEF dispatch, Dispatch!Keys, Dispatch!Sources, Dispatch!Key
    <2>1. Dispatch!TypeOK'
      BY DEF DispatchInv, Dispatch!TypeOK
    <2>2. Dispatch!BudgetInv'
      BY DEF DispatchInv, Dispatch!BudgetInv, Dispatch!Charged
    <2>3. Dispatch!WindowLimits'
      BY DEF DispatchInv, WithinBudget, Dispatch!WindowLimits, Dispatch!ChargedIn, Dispatch!Charged
    <2>4. Dispatch!SendsAreCharged' /\ Dispatch!TracesAreSent'
      BY DEF DispatchInv, WithinBudget, Dispatch!SendsAreCharged, Dispatch!TracesAreSent
    <2>. QED BY <2>1, <2>2, <2>3, <2>4 DEF DispatchInv, WithinBudget
  <1>. QED BY <1>1, <1>2 DEF Next, vars

(* No minute, hour or process sees more sends of a conversation than its     *)
(* limits, for any limits and any number of overlapping dispatches; what is  *)
(* sent was charged, and only what was sent leaves a trace (check_and_charge, *)
(* dispatch_outbound_draft).                                                 *)
THEOREM BudgetsAreKept == Spec => []WithinBudget
  <1>1. DispatchInv => WithinBudget
    BY DEF DispatchInv
  <1>. QED BY <1>1, DispatchStarts, DispatchSteps, PTL DEF Spec
-----------------------------------------------------------------------------
(* The agent-to-agent exchange.                                              *)
X == ExchangeConf

LEMMA ExchangeConstants ==
    /\ X.MaxHops \in Nat /\ X.MaxEnvelopes \in Nat
    /\ Exchange!Peers = X.Runtimes \cup X.Foreign /\ Exchange!Sessions = X.Locals \cup Exchange!Peers
    /\ Exchange!Ids = 1..X.MaxEnvelopes /\ Exchange!NoRoute = "none"
    /\ X.Locals \cap Exchange!Peers = {} /\ "none" \notin Exchange!Sessions
    /\ Exchange!Peers' = Exchange!Peers /\ Exchange!Sessions' = Exchange!Sessions /\ Exchange!Ids' = Exchange!Ids
    /\ Exchange!Envelope' = Exchange!Envelope /\ Exchange!Ended' = Exchange!Ended
  BY ExchangeAssumption DEF X, Exchange!Peers, Exchange!Sessions, Exchange!Ids, Exchange!NoRoute,
     Exchange!Envelope, Exchange!Ended

LEMMA AsksAreTyped ==
    /\ \A a \in X.Asks : /\ a[1] \in X.Runtimes /\ a[2] \in Exchange!Sessions \cup {"none"}
                         /\ a[3] \in Exchange!Peers /\ a[4] \in BOOLEAN
    /\ \A a \in X.ForeignAsks : a[1] \in X.Foreign /\ a[2] \in X.Runtimes /\ a[3] \in 0..X.MaxHops
  BY ExchangeAssumption DEF X, Exchange!Peers, Exchange!Sessions

LEMMA ExchangeInvTyped == Exchange!ExchangeInv => Exchange!TypeOK
  <1>. SUFFICES ASSUME Exchange!ExchangeInv PROVE Exchange!TypeOK
    OBVIOUS
  <1>. USE DEF Exchange!ExchangeInv
  <1>1. env \in Seq(Exchange!Envelope) /\ xWire \subseteq Exchange!Ids
    BY ExchangeConstants DEF X, Exchange!EnvelopesOK
  <1>. QED
    BY <1>1 DEF Exchange!TypeOK, Exchange!QueuesOK, Exchange!TurnsOK, Exchange!RequestsOK, Exchange!ToldOK

(* Envelopes are only ever added.                                            *)
Grown == /\ env' \in Seq(Exchange!Envelope) /\ Len(env) <= Len(env')
         /\ \A i \in 1..Len(env) : env'[i] = env[i]

LEMMA EnvelopesStay ==
    ASSUME Exchange!EnvelopesOK, env' = env, xWire' \subseteq xWire
    PROVE  Exchange!EnvelopesOK' /\ Grown
  BY ExchangeConstants DEF X, Exchange!EnvelopesOK, Exchange!EnvelopeOK, Exchange!RepliesAreBounded, Grown

LEMMA QueuesStay ==
    ASSUME Exchange!QueuesOK, Exchange!EnvelopesOK, Grown, inbox' = inbox
    PROVE  Exchange!QueuesOK'
  <1>1. ASSUME NEW r \in X.Runtimes, NEW p \in Exchange!Peers, NEW n \in 1..Len(inbox[r][p])
        PROVE  inbox[r][p][n] \in 1..Len(env') /\ env'[inbox[r][p][n]].to = r
    <2>1. inbox[r][p][n] \in 1..Len(env) /\ env[inbox[r][p][n]].to = r
      BY <1>1 DEF X, Exchange!QueuesOK
    <2>. QED BY <2>1 DEF Exchange!EnvelopesOK, Grown
  <1>2. inbox' \in [X.Runtimes -> [Exchange!Peers -> Seq(Exchange!Ids)]]
    BY DEF X, Exchange!QueuesOK
  <1>3. \A r \in X.Runtimes, p \in Exchange!Peers : \A n \in 1..Len(inbox'[r][p]) :
           inbox'[r][p][n] \in 1..Len(env') /\ env'[inbox'[r][p][n]].to = r
    BY <1>1
  <1>. QED BY <1>2, <1>3, ExchangeConstants DEF X, Exchange!QueuesOK

LEMMA TurnsStay ==
    ASSUME Exchange!TurnsOK, Exchange!EnvelopesOK, Grown, UNCHANGED <<xTurn, bound>>
    PROVE  Exchange!TurnsOK'
  <1>1. ASSUME NEW r \in X.Runtimes, NEW p \in Exchange!Peers, xTurn[r][p] # 0
        PROVE  /\ xTurn[r][p] \in 1..Len(env') /\ bound[r][p] = xTurn[r][p]
               /\ env'[xTurn[r][p]] = env[xTurn[r][p]] /\ env[xTurn[r][p]].to = r
               /\ env[xTurn[r][p]].kind = "ask" => env[xTurn[r][p]].hop < X.MaxHops
    <2>1. /\ xTurn[r][p] \in 1..Len(env) /\ bound[r][p] = xTurn[r][p] /\ env[xTurn[r][p]].to = r
          /\ env[xTurn[r][p]].kind = "ask" => env[xTurn[r][p]].hop < X.MaxHops
      BY <1>1 DEF X, Exchange!TurnsOK, Exchange!IsAsk
    <2>. QED BY <2>1 DEF Exchange!EnvelopesOK, Grown
  <1>2. /\ xTurn' \in [X.Runtimes -> [Exchange!Peers -> 0..X.MaxEnvelopes]]
        /\ bound' \in [X.Runtimes -> [Exchange!Peers -> 0..X.MaxEnvelopes]]
    BY DEF X, Exchange!TurnsOK
  <1>3. \A r \in X.Runtimes, p \in Exchange!Peers : xTurn'[r][p] # 0 =>
           /\ xTurn'[r][p] \in 1..Len(env') /\ bound'[r][p] = xTurn'[r][p] /\ env'[xTurn'[r][p]].to = r
           /\ env'[xTurn'[r][p]].kind = "ask" => env'[xTurn'[r][p]].hop < X.MaxHops
    BY <1>1
  <1>. QED BY <1>2, <1>3, ExchangeConstants DEF X, Exchange!TurnsOK, Exchange!IsAsk

LEMMA RequestsStay ==
    ASSUME Exchange!RequestsOK, Exchange!EnvelopesOK, Grown, UNCHANGED <<waiters, req>>
    PROVE  Exchange!RequestsOK'
  BY ExchangeConstants DEF X, Exchange!EnvelopesOK, Exchange!RequestsOK, Exchange!RequestOK,
     Exchange!WaitersAreRequests, Grown

LEMMA AnswersStay ==
    ASSUME Exchange!AnswersResume, Exchange!EnvelopesOK, Exchange!QueuesOK, Grown, inbox' = inbox,
           \A i \in 1..Len(env) : req'[i] \in {"posting", "waiting"} => req[i] \in {"posting", "waiting"}
    PROVE  Exchange!AnswersResume'
  <1>1. ASSUME NEW r \in X.Runtimes, NEW p \in Exchange!Peers, NEW n \in 1..Len(inbox[r][p]),
               env'[inbox[r][p][n]].kind = "result"
        PROVE  req'[env'[inbox[r][p][n]].re] \notin {"posting", "waiting"}
    <2>1. inbox[r][p][n] \in 1..Len(env)
      BY <1>1 DEF X, Exchange!QueuesOK
    <2>2. env'[inbox[r][p][n]] = env[inbox[r][p][n]]
      BY <2>1 DEF Grown
    <2>3. env[inbox[r][p][n]].re \in 1..Len(env)
      BY <1>1, <2>1, <2>2 DEF Exchange!EnvelopesOK, Exchange!RepliesAreBounded
    <2>4. req[env[inbox[r][p][n]].re] \notin {"posting", "waiting"}
      BY <1>1, <2>2 DEF X, Exchange!AnswersResume
    <2>. QED BY <2>2, <2>3, <2>4
  <1>. QED BY <1>1, ExchangeConstants DEF X, Exchange!AnswersResume

LEMMA ToldStays ==
    ASSUME Exchange!ToldOK, Exchange!EnvelopesOK, Grown, told' = told
    PROVE  Exchange!ToldOK'
  BY ExchangeConstants DEF X, Exchange!EnvelopesOK, Exchange!RepliesAreBounded, Exchange!ToldOK,
     Exchange!AnswerGoesToAsker, Grown

(* A new envelope is as the invariant wants it.                              *)
Fits(e) ==
    /\ e \in Exchange!Envelope /\ e.stored <= Len(env)
    /\ e.by \in X.Locals => e.kind = "ask" /\ e.origin = e.by
    /\ e.kind = "result" =>
          /\ e.re \in 1..Len(env) /\ e.to = env[e.re].from /\ e.origin = env[e.re].origin
          /\ e.hop = env[e.re].hop + 1
          /\ \/ env[e.re].kind = "ask" /\ env[e.re].to = e.from
             \/ \E j \in 1..Len(env) : env[j].kind = "result" /\ env[j].to = e.from /\ env[j].stored = e.re

LEMMA EnvelopePosted ==
    ASSUME Exchange!EnvelopesOK, NEW e, Fits(e), Exchange!Post(e)
    PROVE  /\ Exchange!EnvelopesOK' /\ Grown
           /\ Len(env') = Len(env) + 1 /\ Len(env') \in Exchange!Ids /\ env'[Len(env) + 1] = e
  <1>1. /\ env \in Seq(Exchange!Envelope) /\ e \in Exchange!Envelope
        /\ env' = Append(env, e) /\ Len(env) < X.MaxEnvelopes /\ Len(env) \in Nat
    BY DEF X, Exchange!EnvelopesOK, Exchange!Post, Fits
  <1>2. /\ env' \in Seq(Exchange!Envelope) /\ Len(env') = Len(env) + 1 /\ env'[Len(env) + 1] = e
        /\ \A i \in 1..Len(env) : env'[i] = env[i]
    BY <1>1
  <1>3. Grown /\ Len(env') \in Exchange!Ids
    BY <1>1, <1>2, ExchangeConstants DEF Grown, X
  <1>4. xWire' \subseteq 1..Len(env')
    <2>1. xWire \subseteq 1..Len(env) /\ xWire' = xWire \cup {Len(env) + 1}
      BY DEF Exchange!EnvelopesOK, Exchange!Post
    <2>2. \A i \in 1..Len(env) : i \in 1..Len(env')
      BY <1>1, <1>2
    <2>3. Len(env) + 1 \in 1..Len(env')
      BY <1>1, <1>2
    <2>. QED BY <2>1, <2>2, <2>3
  <1>5. ASSUME NEW i \in 1..Len(env')
        PROVE  Exchange!EnvelopeOK(i)'
    <2>1. CASE i = Len(env) + 1
      <3>1. env'[i] = e /\ e.stored < i
        BY <1>1, <1>2, <2>1, ExchangeConstants DEF Fits, Exchange!Envelope, X
      <3>2. e.by \in X.Locals => e.kind = "ask" /\ e.origin = e.by
        BY DEF Fits
      <3>3. e.kind = "result" => e.origin = env'[e.re].origin
        BY <1>2 DEF Fits
      <3>. QED BY <3>1, <3>2, <3>3 DEF X, Exchange!EnvelopeOK
    <2>2. CASE i \in 1..Len(env)
      <3>1. /\ env'[i] = env[i] /\ Exchange!EnvelopeOK(i)
            /\ env[i].kind = "result" => env[i].re \in 1..Len(env)
        BY <1>1, <1>2, <2>2 DEF Exchange!EnvelopesOK, Exchange!RepliesAreBounded
      <3>. QED BY <1>2, <3>1 DEF X, Exchange!EnvelopeOK
    <2>. QED BY <1>1, <1>2, <2>1, <2>2
  <1>6. ASSUME NEW i \in 1..Len(env'), env'[i].kind = "result"
        PROVE  /\ env'[i].re \in 1..(i - 1) /\ env'[i].to = env'[env'[i].re].from
               /\ env'[i].hop = env'[env'[i].re].hop + 1 /\ env'[i].hop <= X.MaxHops
               /\ \/ env'[env'[i].re].kind = "ask" /\ env'[env'[i].re].to = env'[i].from
                  \/ \E j \in 1..(i - 1) :
                         env'[j].kind = "result" /\ env'[j].to = env'[i].from /\ env'[j].stored = env'[i].re
    <2>1. CASE i = Len(env) + 1
      <3>1. env'[i] = e /\ e.hop <= X.MaxHops
        BY <1>1, <1>2, <2>1, ExchangeConstants DEF Exchange!Envelope, X
      <3>2. e.re \in 1..Len(env) /\ env'[e.re] = env[e.re] /\ e.to = env[e.re].from /\ e.hop = env[e.re].hop + 1
        BY <1>2, <1>6, <3>1 DEF Fits
      <3>3. \/ env[e.re].kind = "ask" /\ env[e.re].to = e.from
            \/ \E j \in 1..Len(env) : env'[j].kind = "result" /\ env'[j].to = e.from /\ env'[j].stored = e.re
        BY <1>2, <1>6, <3>1 DEF Fits
      <3>. QED BY <1>1, <2>1, <3>1, <3>2, <3>3
    <2>2. CASE i \in 1..Len(env)
      <3>1. env'[i] = env[i] /\ \A j \in 1..(i - 1) : env'[j] = env[j]
        BY <1>1, <1>2, <2>2
      <3>2. /\ env[i].re \in 1..(i - 1) /\ env[i].to = env[env[i].re].from
            /\ env[i].hop = env[env[i].re].hop + 1 /\ env[i].hop <= X.MaxHops
            /\ \/ env[env[i].re].kind = "ask" /\ env[env[i].re].to = env[i].from
               \/ \E j \in 1..(i - 1) :
                      env[j].kind = "result" /\ env[j].to = env[i].from /\ env[j].stored = env[i].re
        BY <1>6, <2>2, <3>1 DEF X, Exchange!EnvelopesOK, Exchange!RepliesAreBounded
      <3>3. env'[env[i].re] = env[env[i].re]
        BY <3>1, <3>2
      <3>. QED BY <3>1, <3>2, <3>3
    <2>. QED BY <1>1, <1>2, <2>1, <2>2
  <1>7. Exchange!RepliesAreBounded'
    BY <1>6 DEF X, Exchange!RepliesAreBounded
  <1>8. Len(env') <= X.MaxEnvelopes
    BY <1>1, <1>2, ExchangeConstants
  <1>. QED BY <1>2, <1>3, <1>4, <1>5, <1>7, <1>8, ExchangeConstants DEF X, Exchange!EnvelopesOK

(* A request that moves on keeps its waiter while it waits, and one that     *)
(* ends gives it up.                                                         *)
LEMMA RequestMoves ==
    ASSUME Exchange!RequestsOK, env' = env, NEW i \in Exchange!Ids, NEW v, req' = [req EXCEPT ![i] = v],
           \/ /\ waiters' = waiters
              /\ \/ req[i] = "posting" /\ v = "waiting"
                 \/ req[i] = "waiting" /\ v = "expired"
                 \/ req[i] = "answered" /\ v = "resolved"
           \/ /\ waiters' = [waiters EXCEPT ![env[i].from] = @ \ {i}]
              /\ req[i] # "none" /\ v \in {"answered", "expired", "resolved"} \cup Exchange!Ended
    PROVE  Exchange!RequestsOK'
  <1>1. /\ waiters \in [X.Runtimes -> SUBSET Exchange!Ids] /\ \A r \in X.Runtimes : waiters[r] \subseteq 1..Len(env)
        /\ req \in [Exchange!Ids ->
               {"none", "posting", "answered", "waiting", "expired", "resolved"} \cup Exchange!Ended]
        /\ \A j \in Exchange!Ids :
              /\ req[j] # "none" => j <= Len(env) /\ env[j].kind = "ask" /\ env[j].from \in X.Runtimes
              /\ req[j] \in {"posting", "waiting"} => j \in waiters[env[j].from]
        /\ \A r \in X.Runtimes : \A j \in waiters[r] :
              env[j].from = r /\ req[j] \in {"posting", "waiting", "expired"}
    BY DEF X, Exchange!RequestsOK, Exchange!RequestOK, Exchange!WaitersAreRequests
  <1>2. /\ v \in {"none", "posting", "answered", "waiting", "expired", "resolved"} \cup Exchange!Ended
        /\ v # "none" /\ v # "posting" /\ req[i] # "none"
        /\ v = "waiting" => req[i] = "posting" /\ waiters' = waiters
    BY DEF Exchange!Ended
  <1>3. /\ req' \in [Exchange!Ids ->
               {"none", "posting", "answered", "waiting", "expired", "resolved"} \cup Exchange!Ended]
        /\ req'[i] = v /\ \A j \in Exchange!Ids : j # i => req'[j] = req[j]
    BY <1>1, <1>2
  <1>4. /\ waiters' \in [X.Runtimes -> SUBSET Exchange!Ids]
        /\ \A r \in X.Runtimes : waiters'[r] \subseteq waiters[r]
        /\ \A r \in X.Runtimes : \A j \in Exchange!Ids : j # i /\ j \in waiters[r] => j \in waiters'[r]
    BY <1>1
  <1>5. ASSUME NEW r \in X.Runtimes, NEW j \in waiters'[r]
        PROVE  env[j].from = r /\ req'[j] \in {"posting", "waiting", "expired"}
    <2>1. env[j].from = r /\ req[j] \in {"posting", "waiting", "expired"} /\ j \in Exchange!Ids
      BY <1>1, <1>4, <1>5
    <2>2. CASE j # i
      BY <1>3, <2>1, <2>2
    <2>3. CASE j = i /\ \/ req[i] = "posting" /\ v = "waiting"
                        \/ req[i] = "waiting" /\ v = "expired"
                        \/ req[i] = "answered" /\ v = "resolved"
      BY <1>3, <2>1, <2>3
    <2>4. CASE j = i /\ waiters' = [waiters EXCEPT ![env[i].from] = @ \ {i}]
      BY <1>1, <1>5, <2>1, <2>4
    <2>. QED BY <2>2, <2>3, <2>4
  <1>6. ASSUME NEW j \in Exchange!Ids
        PROVE  /\ req'[j] # "none" => j <= Len(env) /\ env[j].kind = "ask" /\ env[j].from \in X.Runtimes
               /\ req'[j] \in {"posting", "waiting"} => j \in waiters'[env[j].from]
    <2>1. CASE j # i
      BY <1>1, <1>3, <1>4, <2>1
    <2>2. CASE j = i
      BY <1>1, <1>2, <1>3, <2>2
    <2>. QED BY <2>1, <2>2
  <1>. QED BY <1>1, <1>3, <1>4, <1>5, <1>6, ExchangeConstants
           DEF X, Exchange!RequestsOK, Exchange!RequestOK, Exchange!WaitersAreRequests

LEMMA RestingExchange ==
    ASSUME Exchange!ExchangeInv, UNCHANGED exchange
    PROVE  Exchange!ExchangeInv'
  <1>1. Exchange!EnvelopesOK' /\ Grown
    BY EnvelopesStay DEF exchange, Exchange!ExchangeInv
  <1>2. xClosed' \subseteq X.MayClose
    BY DEF exchange, X, Exchange!ExchangeInv
  <1>. QED BY <1>1, <1>2, QueuesStay, TurnsStay, RequestsStay, AnswersStay, ToldStays
           DEF exchange, X, Exchange!ExchangeInv

(* The steps of a request, and a POST that fails.                            *)
LEMMA RequestStep ==
    ASSUME Exchange!ExchangeInv, NEW i \in Exchange!Ids,
           \/ Exchange!Posted(i) \/ Exchange!PostFails(i) \/ Exchange!TimerFires(i) \/ Exchange!RequestReturns(i)
    PROVE  Exchange!ExchangeInv'
  <1>. USE DEF Exchange!ExchangeInv
  <1>1. /\ env' = env /\ xWire' \subseteq xWire /\ UNCHANGED <<inbox, xTurn, bound, told, xClosed>>
    BY DEF Exchange!Posted, Exchange!PostFails, Exchange!TimerFires, Exchange!RequestReturns
  <1>2. Exchange!EnvelopesOK' /\ Grown
    BY <1>1, EnvelopesStay
  <1>3. /\ Exchange!RequestsOK'
        /\ \A j \in 1..Len(env) : req'[j] \in {"posting", "waiting"} => req[j] \in {"posting", "waiting"}
    <2>. SUFFICES ASSUME \/ UNCHANGED <<waiters, req>>
                         \/ \E v : /\ req' = [req EXCEPT ![i] = v]
                                   /\ \/ /\ waiters' = waiters
                                         /\ \/ req[i] = "posting" /\ v = "waiting"
                                            \/ req[i] = "waiting" /\ v = "expired"
                                            \/ req[i] = "answered" /\ v = "resolved"
                                      \/ /\ waiters' = [waiters EXCEPT ![env[i].from] = @ \ {i}]
                                         /\ req[i] # "none" /\ v \in {"answered", "expired", "resolved"} \cup Exchange!Ended
                  PROVE  /\ Exchange!RequestsOK'
                         /\ \A j \in 1..Len(env) :
                               req'[j] \in {"posting", "waiting"} => req[j] \in {"posting", "waiting"}
      <3>1. CASE Exchange!Posted(i)
        BY <3>1 DEF Exchange!Posted
      <3>2. CASE Exchange!PostFails(i)
        BY <3>2 DEF Exchange!PostFails, Exchange!EndRequest, Exchange!Ended
      <3>3. CASE Exchange!TimerFires(i)
        BY <3>3 DEF Exchange!TimerFires
      <3>4. CASE Exchange!RequestReturns(i)
        BY <3>4 DEF Exchange!RequestReturns, Exchange!EndRequest, Exchange!Ended
      <3>. QED BY <3>1, <3>2, <3>3, <3>4
    <2>1. CASE UNCHANGED <<waiters, req>>
      BY <1>2, <2>1, RequestsStay
    <2>2. ASSUME NEW v, req' = [req EXCEPT ![i] = v],
                 \/ /\ waiters' = waiters
                    /\ \/ req[i] = "posting" /\ v = "waiting"
                       \/ req[i] = "waiting" /\ v = "expired"
                       \/ req[i] = "answered" /\ v = "resolved"
                 \/ /\ waiters' = [waiters EXCEPT ![env[i].from] = @ \ {i}]
                    /\ req[i] # "none" /\ v \in {"answered", "expired", "resolved"} \cup Exchange!Ended
          PROVE  /\ Exchange!RequestsOK'
                 /\ \A j \in 1..Len(env) : req'[j] \in {"posting", "waiting"} => req[j] \in {"posting", "waiting"}
      <3>1. Exchange!RequestsOK'
        BY <1>1, <2>2, RequestMoves
      <3>2. /\ req \in [Exchange!Ids ->
                   {"none", "posting", "answered", "waiting", "expired", "resolved"} \cup Exchange!Ended]
            /\ 1..Len(env) \subseteq Exchange!Ids
        BY ExchangeConstants DEF X, Exchange!RequestsOK, Exchange!EnvelopesOK
      <3>. QED BY <2>2, <3>1, <3>2 DEF Exchange!Ended
    <2>. QED BY <2>1, <2>2
  <1>. QED BY <1>1, <1>2, <1>3, QueuesStay, TurnsStay, AnswersStay, ToldStays DEF X

(* What other software asks is an envelope like any other.                   *)
LEMMA ForeignAskStep ==
    ASSUME Exchange!ExchangeInv, NEW a \in X.ForeignAsks, Exchange!ForeignAsk(a)
    PROVE  Exchange!ExchangeInv'
  <1>. USE DEF Exchange!ExchangeInv
  <1>. DEFINE e == [kind |-> "ask", from |-> a[1], to |-> a[2], re |-> 0, hop |-> a[3], by |-> a[1],
                    origin |-> "none", stored |-> 0]
  <1>1. Exchange!Post(e) /\ UNCHANGED <<inbox, xTurn, bound, waiters, req, told, xClosed>>
    BY DEF Exchange!ForeignAsk, Exchange!NoRoute
  <1>2. Fits(e)
    <2>1. e \in Exchange!Envelope
      BY AsksAreTyped, ExchangeConstants DEF X, Exchange!Envelope
    <2>2. Len(env) \in Nat /\ e.by \notin X.Locals
      BY AsksAreTyped, ExchangeConstants DEF Exchange!EnvelopesOK
    <2>. QED BY <2>1, <2>2 DEF Fits
  <1>3. Exchange!EnvelopesOK' /\ Grown
    BY <1>1, <1>2, EnvelopePosted
  <1>. QED BY <1>1, <1>3, QueuesStay, TurnsStay, RequestsStay, AnswersStay, ToldStays DEF X

(* An ask of a session carries the route of its turn's message, or its own.  *)
LEMMA AskStep ==
    ASSUME Exchange!ExchangeInv, NEW a \in X.Asks, Exchange!Ask(a)
    PROVE  Exchange!ExchangeInv'
  <1>. USE DEF Exchange!ExchangeInv
  <1>. DEFINE r == a[1]  s == a[2]  k == Len(env) + 1
              e == [kind |-> "ask", from |-> r, to |-> a[3], re |-> 0, hop |-> 0, by |-> s,
                    origin |-> Exchange!OriginOf(r, s), stored |-> Exchange!StoredOf(r, s)]
  <1>1. /\ Exchange!Post(e) /\ UNCHANGED <<inbox, xTurn, bound, told, xClosed>>
        /\ s \in Exchange!Peers => xTurn[r][s] # 0
        /\ \/ UNCHANGED <<waiters, req>>
           \/ /\ waiters' = [waiters EXCEPT ![r] = @ \cup {k}]
              /\ req' = [req EXCEPT ![k] = "posting"]
    BY DEF Exchange!Ask
  <1>2. r \in X.Runtimes /\ s \in Exchange!Sessions \cup {"none"} /\ a[3] \in Exchange!Peers
    BY AsksAreTyped
  <1>3. env \in Seq(Exchange!Envelope) /\ Len(env) \in Nat /\ Len(env) <= X.MaxEnvelopes
    BY DEF X, Exchange!EnvelopesOK
  <1>4. /\ Exchange!OriginOf(r, s) \in Exchange!Sessions \cup {"none"}
        /\ s \in X.Locals => Exchange!OriginOf(r, s) = s
        /\ Exchange!StoredOf(r, s) \in 0..X.MaxEnvelopes /\ Exchange!StoredOf(r, s) <= Len(env)
    <2>1. CASE s \in Exchange!Peers
      <3>1. bound[r][s] \in 1..Len(env)
        BY <1>1, <1>2, <2>1 DEF X, Exchange!TurnsOK
      <3>2. env[bound[r][s]] \in Exchange!Envelope /\ env[bound[r][s]].stored < bound[r][s]
        BY <1>3, <3>1 DEF Exchange!EnvelopesOK, Exchange!EnvelopeOK
      <3>3. /\ env[bound[r][s]].origin \in Exchange!Sessions \cup {"none"}
            /\ env[bound[r][s]].stored \in 0..X.MaxEnvelopes
        BY <3>2, ExchangeConstants DEF Exchange!Envelope, X
      <3>. QED BY <1>2, <1>3, <2>1, <3>1, <3>2, <3>3, ExchangeConstants
               DEF Exchange!OriginOf, Exchange!StoredOf, X
    <2>2. CASE s \notin Exchange!Peers
      BY <1>2, <1>3, <2>2, ExchangeConstants DEF Exchange!OriginOf, Exchange!StoredOf
    <2>. QED BY <2>1, <2>2
  <1>5. Fits(e)
    <2>1. e \in Exchange!Envelope
      <3>1. r \in Exchange!Peers
        BY <1>2, ExchangeConstants
      <3>. HIDE DEF r, s
      <3>2. /\ 0 \in 0..X.MaxHops /\ 0 \in 0..X.MaxEnvelopes
        BY ExchangeConstants
      <3>. QED BY <1>2, <1>4, <3>1, <3>2, ExchangeConstants DEF X, Exchange!Envelope
    <2>. QED BY <1>4, <2>1 DEF Fits
  <1>6. /\ Exchange!EnvelopesOK' /\ Grown
        /\ Len(env') = k /\ k \in Exchange!Ids /\ env'[k] = e
    BY <1>1, <1>5, EnvelopePosted
  <1>. HIDE DEF r, s, e
  <1>7. env'[k].kind = "ask" /\ env'[k].from = r
    BY <1>6 DEF e
  <1>8. /\ Exchange!RequestsOK'
        /\ \A i \in 1..Len(env) : req'[i] \in {"posting", "waiting"} => req[i] \in {"posting", "waiting"}
    <2>1. CASE UNCHANGED <<waiters, req>>
      BY <1>6, <2>1, RequestsStay
    <2>2. CASE waiters' = [waiters EXCEPT ![r] = @ \cup {k}] /\ req' = [req EXCEPT ![k] = "posting"]
      <3>1. /\ waiters \in [X.Runtimes -> SUBSET Exchange!Ids]
            /\ \A q \in X.Runtimes : waiters[q] \subseteq 1..Len(env)
            /\ req \in [Exchange!Ids ->
                   {"none", "posting", "answered", "waiting", "expired", "resolved"} \cup Exchange!Ended]
            /\ \A j \in Exchange!Ids :
                  /\ req[j] # "none" => j <= Len(env) /\ env[j].kind = "ask" /\ env[j].from \in X.Runtimes
                  /\ req[j] \in {"posting", "waiting"} => j \in waiters[env[j].from]
            /\ \A q \in X.Runtimes : \A j \in waiters[q] :
                  env[j].from = q /\ req[j] \in {"posting", "waiting", "expired"}
        BY DEF X, Exchange!RequestsOK, Exchange!RequestOK, Exchange!WaitersAreRequests
      <3>2. /\ req' \in [Exchange!Ids ->
                   {"none", "posting", "answered", "waiting", "expired", "resolved"} \cup Exchange!Ended]
            /\ req'[k] = "posting" /\ \A j \in Exchange!Ids : j # k => req'[j] = req[j]
        BY <1>6, <2>2, <3>1
      <3>3. /\ waiters' \in [X.Runtimes -> SUBSET Exchange!Ids]
            /\ waiters'[r] = waiters[r] \cup {k} /\ \A q \in X.Runtimes : q # r => waiters'[q] = waiters[q]
        BY <1>2, <1>6, <2>2, <3>1
      <3>4. Exchange!Ids = 1..X.MaxEnvelopes /\ \A j \in Exchange!Ids : j # k /\ j <= Len(env') => j \in 1..Len(env)
        BY <1>3, <1>6, ExchangeConstants
      <3>5. ASSUME NEW j \in Exchange!Ids
            PROVE  /\ req'[j] # "none" => j <= Len(env') /\ env'[j].kind = "ask" /\ env'[j].from \in X.Runtimes
                   /\ req'[j] \in {"posting", "waiting"} => j \in waiters'[env'[j].from]
        <4>1. CASE j = k
          BY <1>2, <1>3, <1>6, <1>7, <3>2, <3>3, <4>1
        <4>2. CASE j # k
          <5>1. req'[j] = req[j] /\ (req[j] # "none" => j \in 1..Len(env) /\ env'[j] = env[j])
            BY <1>3, <1>6, <3>1, <3>2, <3>4, <4>2 DEF Grown
          <5>2. req[j] # "none" => j <= Len(env') /\ env'[j].kind = "ask" /\ env'[j].from \in X.Runtimes
            BY <1>3, <1>6, <3>1, <5>1 DEF Grown
          <5>3. req[j] \in {"posting", "waiting"} => j \in waiters'[env'[j].from]
            <6>. SUFFICES ASSUME req[j] \in {"posting", "waiting"} PROVE j \in waiters'[env'[j].from]
              OBVIOUS
            <6>1. env'[j] = env[j] /\ j \in waiters[env[j].from] /\ env[j].from \in X.Runtimes
              BY <3>1, <5>1
            <6>. QED BY <3>3, <6>1
          <5>. QED BY <5>1, <5>2, <5>3
        <4>. QED BY <4>1, <4>2
      <3>6. ASSUME NEW q \in X.Runtimes, NEW j \in waiters'[q]
            PROVE  j \in 1..Len(env') /\ env'[j].from = q /\ req'[j] \in {"posting", "waiting", "expired"}
        <4>1. CASE j = k
          <5>1. q = r
            BY <1>3, <3>1, <3>3, <3>6, <4>1
          <5>. QED BY <1>3, <1>6, <1>7, <3>2, <4>1, <5>1
        <4>2. CASE j # k
          <5>1. j \in waiters[q]
            BY <3>3, <3>6, <4>2
          <5>2. j \in 1..Len(env) /\ env'[j] = env[j] /\ req'[j] = req[j]
            BY <1>3, <1>6, <3>1, <3>2, <4>2, <5>1 DEF Grown
          <5>. QED BY <1>3, <1>6, <3>1, <5>1, <5>2 DEF Grown
        <4>. QED BY <4>1, <4>2
      <3>7. \A q \in X.Runtimes : waiters'[q] \subseteq 1..Len(env')
        BY <3>6
      <3>8. Exchange!RequestsOK'
        BY <3>2, <3>3, <3>5, <3>6, <3>7, ExchangeConstants
        DEF X, Exchange!RequestsOK, Exchange!RequestOK, Exchange!WaitersAreRequests
      <3>. QED BY <1>3, <3>1, <3>2, <3>4, <3>8, ExchangeConstants
    <2>. QED BY <1>1, <2>1, <2>2
  <1>. QED BY <1>1, <1>6, <1>8, QueuesStay, TurnsStay, AnswersStay, ToldStays DEF X

(* The message that comes in at r from p is one r was sent, and no request   *)
(* waits for it.                                                             *)
LEMMA MessageQueued ==
    ASSUME Exchange!ExchangeInv, UNCHANGED <<env, req>>,
           NEW i \in 1..Len(env), NEW r \in X.Runtimes, NEW p \in Exchange!Peers, env[i].to = r,
           inbox' = [inbox EXCEPT ![r][p] = Append(@, i)],
           env[i].kind = "result" => req[env[i].re] \notin {"posting", "waiting"}
    PROVE  Exchange!QueuesOK' /\ Exchange!AnswersResume'
  <1>. USE DEF Exchange!ExchangeInv
  <1>1. /\ inbox \in [X.Runtimes -> [Exchange!Peers -> Seq(Exchange!Ids)]] /\ i \in Exchange!Ids
        /\ \A q \in X.Runtimes, o \in Exchange!Peers : \A n \in 1..Len(inbox[q][o]) :
              /\ inbox[q][o][n] \in 1..Len(env) /\ env[inbox[q][o][n]].to = q
              /\ env[inbox[q][o][n]].kind = "result" => req[env[inbox[q][o][n]].re] \notin {"posting", "waiting"}
    <2>1. inbox \in [X.Runtimes -> [Exchange!Peers -> Seq(Exchange!Ids)]] /\ i \in Exchange!Ids
      <3>1. Len(env) \in Nat /\ Len(env) <= X.MaxEnvelopes
        BY DEF X, Exchange!EnvelopesOK
      <3>2. inbox \in [X.Runtimes -> [Exchange!Peers -> Seq(Exchange!Ids)]]
        BY DEF X, Exchange!QueuesOK
      <3>3. Exchange!Ids = 1..X.MaxEnvelopes /\ X.MaxEnvelopes \in Nat
        BY ExchangeConstants
      <3>. HIDE DEF Exchange!ExchangeInv
      <3>4. i \in Exchange!Ids
        BY <3>1, <3>3
      <3>. QED BY <3>2, <3>4
    <2>2. ASSUME NEW q \in X.Runtimes, NEW o \in Exchange!Peers, NEW n \in 1..Len(inbox[q][o])
          PROVE  /\ inbox[q][o][n] \in 1..Len(env) /\ env[inbox[q][o][n]].to = q
                 /\ env[inbox[q][o][n]].kind = "result" =>
                        req[env[inbox[q][o][n]].re] \notin {"posting", "waiting"}
      BY <2>2 DEF X, Exchange!QueuesOK, Exchange!AnswersResume
    <2>. QED BY <2>1, <2>2
  <1>2. ASSUME NEW q \in X.Runtimes, NEW o \in Exchange!Peers
        PROVE  inbox'[q][o] = IF q = r /\ o = p THEN Append(inbox[q][o], i) ELSE inbox[q][o]
    BY <1>1
  <1>3. inbox' \in [X.Runtimes -> [Exchange!Peers -> Seq(Exchange!Ids)]]
    <2>1. Append(inbox[r][p], i) \in Seq(Exchange!Ids)
      BY <1>1
    <2>. QED BY <1>1, <2>1
  <1>4. ASSUME NEW q \in X.Runtimes, NEW o \in Exchange!Peers, NEW n \in 1..Len(inbox'[q][o])
        PROVE  /\ inbox'[q][o][n] \in 1..Len(env) /\ env[inbox'[q][o][n]].to = q
               /\ env[inbox'[q][o][n]].kind = "result" =>
                      req[env[inbox'[q][o][n]].re] \notin {"posting", "waiting"}
    <2>1. CASE q = r /\ o = p
      <3>1. inbox[q][o] \in Seq(Exchange!Ids) /\ inbox'[q][o] = Append(inbox[q][o], i)
        BY <1>1, <1>2, <2>1
      <3>2. (n \in 1..Len(inbox[q][o]) /\ inbox'[q][o][n] = inbox[q][o][n]) \/ inbox'[q][o][n] = i
        BY <1>4, <3>1
      <3>. QED BY <1>1, <2>1, <3>2
    <2>2. CASE ~(q = r /\ o = p)
      BY <1>1, <1>2, <1>4, <2>2
    <2>. QED BY <2>1, <2>2
  <1>5. Exchange!QueuesOK'
    <2>1. \A q \in X.Runtimes, o \in Exchange!Peers : \A n \in 1..Len(inbox'[q][o]) :
             inbox'[q][o][n] \in 1..Len(env') /\ env'[inbox'[q][o][n]].to = q
      BY <1>4
    <2>. QED BY <1>3, <2>1, ExchangeConstants DEF X, Exchange!QueuesOK
  <1>6. Exchange!AnswersResume'
    <2>1. \A q \in X.Runtimes, o \in Exchange!Peers : \A n \in 1..Len(inbox'[q][o]) :
             env'[inbox'[q][o][n]].kind = "result" => req'[env'[inbox'[q][o][n]].re] \notin {"posting", "waiting"}
      BY <1>4
    <2>. QED BY <2>1, ExchangeConstants DEF X, Exchange!AnswersResume
  <1>. QED BY <1>5, <1>6

(* An envelope that arrives resumes a request or is queued.                  *)
LEMMA TakenStep ==
    ASSUME Exchange!ExchangeInv, NEW i \in Exchange!Ids, Exchange!Taken(i)
    PROVE  Exchange!ExchangeInv'
  <1>. USE DEF Exchange!ExchangeInv
  <1>. DEFINE e == env[i]
  <1>1. /\ i \in 1..Len(env) /\ Exchange!Enqueue(i) /\ env' = env /\ xWire' \subseteq xWire
        /\ UNCHANGED <<xTurn, bound, told, xClosed>>
    BY DEF Exchange!Taken, Exchange!EnvelopesOK
  <1>2. /\ e.to \in Exchange!Peers /\ e.from \in Exchange!Peers
        /\ e.kind = "result" => e.re \in 1..Len(env) /\ e.re \in Exchange!Ids /\ e.to = env[e.re].from
    <2>1. e \in Exchange!Envelope
      BY <1>1 DEF Exchange!EnvelopesOK
    <2>2. e.kind = "result" => e.re \in 1..(i - 1) /\ e.to = env[e.re].from
      BY <1>1 DEF Exchange!EnvelopesOK, Exchange!RepliesAreBounded
    <2>. QED BY <1>1, <2>1, <2>2, ExchangeConstants DEF Exchange!Envelope, Exchange!EnvelopesOK, X
  <1>3. Exchange!EnvelopesOK' /\ Grown
    BY <1>1, EnvelopesStay
  <1>4. Exchange!TurnsOK' /\ Exchange!ToldOK' /\ xClosed' \subseteq X.MayClose
    BY <1>1, <1>3, TurnsStay, ToldStays DEF X
  <1>5. CASE e.kind = "result" /\ e.to \in X.Runtimes /\ e.re \in waiters[e.to]
    <2>. DEFINE v == CASE req[e.re] = "posting" -> "answered"
                       [] req[e.re] = "waiting" -> "resolved" [] OTHER -> req[e.re]
    <2>1. /\ waiters' = [waiters EXCEPT ![e.to] = @ \ {e.re}] /\ req' = [req EXCEPT ![e.re] = v] /\ inbox' = inbox
      <3>1. req \in [Exchange!Ids ->
                {"none", "posting", "answered", "waiting", "expired", "resolved"} \cup Exchange!Ended]
        BY DEF Exchange!RequestsOK
      <3>. QED BY <1>1, <1>2, <1>5, <3>1 DEF Exchange!Enqueue, X
    <2>2. req[e.re] \in {"posting", "waiting", "expired"}
      BY <1>5 DEF X, Exchange!RequestsOK, Exchange!WaitersAreRequests
    <2>3. v \in {"answered", "expired", "resolved"} /\ req[e.re] # "none"
      BY <2>2
    <2>. HIDE DEF v
    <2>4. Exchange!RequestsOK'
      BY <1>1, <1>2, <1>5, <2>1, <2>3, RequestMoves
    <2>5. \A j \in 1..Len(env) : req'[j] \in {"posting", "waiting"} => req[j] \in {"posting", "waiting"}
      <3>1. req \in [Exchange!Ids ->
                {"none", "posting", "answered", "waiting", "expired", "resolved"} \cup Exchange!Ended]
            /\ 1..Len(env) \subseteq Exchange!Ids
        BY ExchangeConstants DEF X, Exchange!RequestsOK, Exchange!EnvelopesOK
      <3>. QED BY <1>2, <1>5, <2>1, <2>3, <3>1
    <2>. QED BY <1>3, <1>4, <2>1, <2>4, <2>5, QueuesStay, AnswersStay DEF X
  <1>6. CASE ~(e.kind = "result" /\ e.to \in X.Runtimes /\ e.re \in waiters[e.to])
    <2>1. /\ UNCHANGED <<waiters, req>>
          /\ inbox' = IF e.to \in xClosed \cup X.Foreign THEN inbox
                      ELSE [inbox EXCEPT ![e.to][e.from] = Append(@, i)]
      BY <1>1, <1>6 DEF Exchange!Enqueue, X
    <2>2. Exchange!RequestsOK'
      BY <1>3, <2>1, RequestsStay
    <2>3. CASE e.to \in xClosed \cup X.Foreign
      BY <1>3, <1>4, <2>1, <2>2, <2>3, QueuesStay, AnswersStay DEF X
    <2>4. CASE e.to \notin xClosed \cup X.Foreign
      <3>1. e.to \in X.Runtimes
        BY <1>2, <2>4, ExchangeConstants
      <3>2. e.kind = "result" => req[e.re] \notin {"posting", "waiting"}
        BY <1>2, <1>6, <3>1 DEF Exchange!RequestsOK, Exchange!RequestOK
      <3>. QED BY <1>1, <1>2, <1>3, <1>4, <2>1, <2>2, <2>4, <3>1, <3>2, MessageQueued DEF X
    <2>. QED BY <2>3, <2>4
  <1>. QED BY <1>5, <1>6

(* A turn takes the first messages of its session; the rest was queued.      *)
LEMMA StartTurnStep ==
    ASSUME Exchange!ExchangeInv, NEW r \in X.Runtimes, NEW p \in Exchange!Peers, NEW n \in Exchange!Ids,
           Exchange!StartTurn(r, p, n)
    PROVE  Exchange!ExchangeInv'
  <1>. USE DEF Exchange!ExchangeInv
  <1>. DEFINE last == inbox[r][p][n]
  <1>1. /\ n \in 1..Len(inbox[r][p]) /\ UNCHANGED <<env, xWire, waiters, req, told, xClosed>>
        /\ inbox' = [inbox EXCEPT ![r][p] = SubSeq(@, n + 1, Len(@))]
        /\ \/ UNCHANGED <<xTurn, bound>>
           \/ /\ ~(env[last].kind = "ask" /\ env[last].hop >= X.MaxHops)
              /\ xTurn' = [xTurn EXCEPT ![r][p] = last] /\ bound' = [bound EXCEPT ![r][p] = last]
    BY DEF Exchange!StartTurn, Exchange!IsAsk, X
  <1>2. Exchange!EnvelopesOK' /\ Grown
    BY <1>1, EnvelopesStay
  <1>3. Exchange!RequestsOK' /\ Exchange!ToldOK'
    BY <1>1, <1>2, RequestsStay, ToldStays
  <1>4. inbox \in [X.Runtimes -> [Exchange!Peers -> Seq(Exchange!Ids)]] /\ n \in Nat \ {0}
    <2>1. inbox \in [X.Runtimes -> [Exchange!Peers -> Seq(Exchange!Ids)]]
      BY DEF X, Exchange!QueuesOK
    <2>2. Exchange!Ids = 1..X.MaxEnvelopes /\ X.MaxEnvelopes \in Nat
      BY ExchangeConstants
    <2>3. n \in Nat \ {0}
      BY <2>2
    <2>. QED BY <2>1, <2>3
  <1>5. ASSUME NEW q \in X.Runtimes, NEW o \in Exchange!Peers
        PROVE  /\ inbox'[q][o] \in Seq(Exchange!Ids)
               /\ \A m \in 1..Len(inbox'[q][o]) : \E j \in 1..Len(inbox[q][o]) : inbox'[q][o][m] = inbox[q][o][j]
    <2>1. CASE q = r /\ o = p
      <3>1. inbox'[q][o] = SubSeq(inbox[q][o], n + 1, Len(inbox[q][o])) /\ inbox[q][o] \in Seq(Exchange!Ids)
        BY <1>1, <1>4, <2>1
      <3>2. /\ inbox'[q][o] \in Seq(Exchange!Ids) /\ Len(inbox'[q][o]) = Len(inbox[q][o]) - n
            /\ \A m \in 1..Len(inbox'[q][o]) : inbox'[q][o][m] = inbox[q][o][n + m]
        BY <1>1, <1>4, <2>1, <3>1
      <3>3. \A m \in 1..Len(inbox'[q][o]) : n + m \in 1..Len(inbox[q][o])
        BY <1>1, <1>4, <2>1, <3>1, <3>2
      <3>. QED BY <3>2, <3>3
    <2>2. CASE ~(q = r /\ o = p)
      BY <1>1, <1>4, <2>2
    <2>. QED BY <2>1, <2>2
  <1>6. inbox' \in [X.Runtimes -> [Exchange!Peers -> Seq(Exchange!Ids)]]
    <2>1. inbox'[r][p] \in Seq(Exchange!Ids) /\ inbox'[r][p] = SubSeq(inbox[r][p], n + 1, Len(inbox[r][p]))
      BY <1>1, <1>4, <1>5
    <2>. QED BY <1>1, <1>4, <2>1
  <1>7. Exchange!QueuesOK'
    <2>1. ASSUME NEW q \in X.Runtimes, NEW o \in Exchange!Peers, NEW m \in 1..Len(inbox'[q][o])
          PROVE  inbox'[q][o][m] \in 1..Len(env') /\ env'[inbox'[q][o][m]].to = q
      <3>1. PICK j \in 1..Len(inbox[q][o]) : inbox'[q][o][m] = inbox[q][o][j]
        BY <1>5, <2>1
      <3>2. inbox[q][o][j] \in 1..Len(env) /\ env[inbox[q][o][j]].to = q
        BY <3>1 DEF X, Exchange!QueuesOK
      <3>. QED BY <1>1, <3>1, <3>2
    <2>. QED BY <1>6, <2>1, ExchangeConstants DEF X, Exchange!QueuesOK
  <1>8. Exchange!AnswersResume'
    <2>1. ASSUME NEW q \in X.Runtimes, NEW o \in Exchange!Peers, NEW m \in 1..Len(inbox'[q][o]),
                 env'[inbox'[q][o][m]].kind = "result"
          PROVE  req'[env'[inbox'[q][o][m]].re] \notin {"posting", "waiting"}
      <3>1. PICK j \in 1..Len(inbox[q][o]) : inbox'[q][o][m] = inbox[q][o][j]
        BY <1>5, <2>1
      <3>2. env[inbox[q][o][j]].kind = "result" => req[env[inbox[q][o][j]].re] \notin {"posting", "waiting"}
        BY <3>1 DEF X, Exchange!AnswersResume
      <3>. QED BY <1>1, <2>1, <3>1, <3>2
    <2>. QED BY <2>1, ExchangeConstants DEF X, Exchange!AnswersResume
  <1>9. Exchange!TurnsOK'
    <2>1. CASE UNCHANGED <<xTurn, bound>>
      BY <1>2, <2>1, TurnsStay
    <2>2. CASE /\ ~(env[last].kind = "ask" /\ env[last].hop >= X.MaxHops)
               /\ xTurn' = [xTurn EXCEPT ![r][p] = last] /\ bound' = [bound EXCEPT ![r][p] = last]
      <3>1. last \in 1..Len(env) /\ env[last].to = r /\ last \in Exchange!Ids /\ env[last].hop \in Nat
        <4>1. last \in 1..Len(env) /\ env[last].to = r
          BY <1>1 DEF X, Exchange!QueuesOK
        <4>2. env[last] \in Exchange!Envelope
          BY <4>1 DEF Exchange!EnvelopesOK
        <4>. QED BY <4>1, <4>2, ExchangeConstants DEF Exchange!EnvelopesOK, Exchange!Envelope, X
      <3>. HIDE DEF last
      <3>2. /\ xTurn \in [X.Runtimes -> [Exchange!Peers -> 0..X.MaxEnvelopes]]
            /\ bound \in [X.Runtimes -> [Exchange!Peers -> 0..X.MaxEnvelopes]]
            /\ \A q \in X.Runtimes, o \in Exchange!Peers : xTurn[q][o] # 0 =>
                  /\ xTurn[q][o] \in 1..Len(env) /\ bound[q][o] = xTurn[q][o] /\ env[xTurn[q][o]].to = q
                  /\ env[xTurn[q][o]].kind = "ask" => env[xTurn[q][o]].hop < X.MaxHops
        BY DEF X, Exchange!TurnsOK, Exchange!IsAsk
      <3>3. last \in 0..X.MaxEnvelopes
        BY <3>1, ExchangeConstants
      <3>4. /\ xTurn' \in [X.Runtimes -> [Exchange!Peers -> 0..X.MaxEnvelopes]]
            /\ bound' \in [X.Runtimes -> [Exchange!Peers -> 0..X.MaxEnvelopes]]
        BY <2>2, <3>2, <3>3
      <3>5. ASSUME NEW q \in X.Runtimes, NEW o \in Exchange!Peers, xTurn'[q][o] # 0
            PROVE  /\ xTurn'[q][o] \in 1..Len(env') /\ bound'[q][o] = xTurn'[q][o] /\ env'[xTurn'[q][o]].to = q
                   /\ env'[xTurn'[q][o]].kind = "ask" => env'[xTurn'[q][o]].hop < X.MaxHops
        <4>1. CASE q = r /\ o = p
          <5>1. xTurn'[q][o] = last /\ bound'[q][o] = last
            BY <2>2, <3>2, <4>1
          <5>. QED BY <1>1, <2>2, <3>1, <4>1, <5>1, ExchangeConstants
        <4>2. CASE ~(q = r /\ o = p)
          <5>1. xTurn'[q][o] = xTurn[q][o] /\ bound'[q][o] = bound[q][o]
            BY <2>2, <3>2, <4>2
          <5>. QED BY <1>1, <3>2, <3>5, <5>1
        <4>. QED BY <4>1, <4>2
      <3>. QED BY <3>4, <3>5, ExchangeConstants DEF X, Exchange!TurnsOK, Exchange!IsAsk
    <2>. QED BY <1>1, <2>1, <2>2
  <1>. QED BY <1>1, <1>2, <1>3, <1>7, <1>8, <1>9 DEF X

(* The end of a turn, whatever is sent then.                                 *)
LEMMA TurnEnds ==
    ASSUME Exchange!TurnsOK, Exchange!EnvelopesOK, Grown, bound' = bound,
           NEW r, NEW p, xTurn' = [xTurn EXCEPT ![r][p] = 0]
    PROVE  Exchange!TurnsOK'
  <1>1. /\ xTurn \in [X.Runtimes -> [Exchange!Peers -> 0..X.MaxEnvelopes]]
        /\ bound \in [X.Runtimes -> [Exchange!Peers -> 0..X.MaxEnvelopes]]
        /\ \A q \in X.Runtimes, o \in Exchange!Peers : xTurn[q][o] # 0 =>
              /\ xTurn[q][o] \in 1..Len(env) /\ bound[q][o] = xTurn[q][o] /\ env[xTurn[q][o]].to = q
              /\ env[xTurn[q][o]].kind = "ask" => env[xTurn[q][o]].hop < X.MaxHops
    BY DEF X, Exchange!TurnsOK, Exchange!IsAsk
  <1>2. 0 \in 0..X.MaxEnvelopes
    BY ExchangeConstants
  <1>3. xTurn' \in [X.Runtimes -> [Exchange!Peers -> 0..X.MaxEnvelopes]]
    BY <1>1, <1>2
  <1>4. ASSUME NEW q \in X.Runtimes, NEW o \in Exchange!Peers, xTurn'[q][o] # 0
        PROVE  /\ xTurn'[q][o] \in 1..Len(env') /\ bound'[q][o] = xTurn'[q][o] /\ env'[xTurn'[q][o]].to = q
               /\ env'[xTurn'[q][o]].kind = "ask" => env'[xTurn'[q][o]].hop < X.MaxHops
    <2>1. xTurn'[q][o] = xTurn[q][o]
      BY <1>1, <1>4
    <2>2. xTurn[q][o] \in 1..Len(env) /\ env'[xTurn[q][o]] = env[xTurn[q][o]]
      BY <1>1, <1>4, <2>1 DEF Grown
    <2>3. xTurn[q][o] \in 1..Len(env')
      BY <2>2 DEF Grown, Exchange!EnvelopesOK
    <2>. QED BY <1>1, <1>4, <2>1, <2>2, <2>3
  <1>. QED BY <1>1, <1>3, <1>4, ExchangeConstants DEF X, Exchange!TurnsOK, Exchange!IsAsk

LEMMA TurnFailsStep ==
    ASSUME Exchange!ExchangeInv, NEW r, NEW p, Exchange!TurnFails(r, p)
    PROVE  Exchange!ExchangeInv'
  <1>. USE DEF Exchange!ExchangeInv
  <1>1. /\ xTurn' = [xTurn EXCEPT ![r][p] = 0]
        /\ UNCHANGED <<env, xWire, inbox, bound, waiters, req, told, xClosed>>
    BY DEF Exchange!TurnFails
  <1>2. Exchange!EnvelopesOK' /\ Grown
    BY <1>1, EnvelopesStay
  <1>. QED BY <1>1, <1>2, TurnEnds, QueuesStay, RequestsStay, AnswersStay, ToldStays DEF X

(* The reply to a message is one hop further, and goes on its route.         *)
LEMMA ReplyFits ==
    ASSUME Exchange!EnvelopesOK, NEW r \in X.Runtimes, NEW p \in Exchange!Peers, NEW j \in 1..Len(env),
           env[j].hop < X.MaxHops,
           \/ env[j].kind = "ask" /\ env[j].to = r
           \/ \E i \in 1..Len(env) : env[i].kind = "result" /\ env[i].to = r /\ env[i].stored = j
    PROVE  Fits(Exchange!Reply(r, p, j))
  <1>1. env[j] \in Exchange!Envelope /\ env[j].stored < j /\ Len(env) \in Nat /\ Len(env) <= X.MaxEnvelopes
    BY DEF X, Exchange!EnvelopesOK, Exchange!EnvelopeOK
  <1>2. /\ env[j].from \in Exchange!Peers /\ env[j].hop \in 0..X.MaxHops /\ env[j].stored \in 0..X.MaxEnvelopes
        /\ env[j].origin \in Exchange!Sessions \cup {"none"}
    BY <1>1, ExchangeConstants DEF Exchange!Envelope, X
  <1>3. /\ j \in 0..X.MaxEnvelopes /\ env[j].hop + 1 \in 0..X.MaxHops /\ env[j].stored <= Len(env)
        /\ r \in Exchange!Peers /\ p \in Exchange!Sessions /\ p \notin X.Locals
    BY <1>1, <1>2, ExchangeConstants
  <1>. DEFINE e == [kind |-> "result", from |-> r, to |-> env[j].from, re |-> j, hop |-> env[j].hop + 1, by |-> p,
                    origin |-> env[j].origin, stored |-> env[j].stored]
  <1>4. Exchange!Reply(r, p, j) = e
    BY DEF Exchange!Reply
  <1>5. e \in Exchange!Envelope
    BY <1>2, <1>3, ExchangeConstants DEF Exchange!Envelope, X
  <1>6. Fits(e)
    BY <1>3, <1>5 DEF Fits
  <1>. QED BY <1>4, <1>6

LEMMA EndTurnStep ==
    ASSUME Exchange!ExchangeInv, NEW r \in X.Runtimes, NEW p \in Exchange!Peers, Exchange!EndTurn(r, p)
    PROVE  Exchange!ExchangeInv'
  <1>. USE DEF Exchange!ExchangeInv
  <1>. DEFINE i == xTurn[r][p]
  <1>1. /\ i # 0 /\ xTurn' = [xTurn EXCEPT ![r][p] = 0]
        /\ UNCHANGED <<inbox, bound, waiters, req, xClosed>>
    BY DEF Exchange!EndTurn
  <1>2. /\ i \in 1..Len(env) /\ env[i].to = r
        /\ env[i].kind = "ask" => env[i].hop < X.MaxHops
    BY <1>1 DEF X, Exchange!TurnsOK, Exchange!IsAsk
  <1>3. env[i].kind \in {"ask", "result"} /\ env[i].stored \in 0..(i - 1)
    <2>1. env[i] \in Exchange!Envelope /\ env[i].stored < i
      BY <1>2 DEF Exchange!EnvelopesOK, Exchange!EnvelopeOK
    <2>. QED BY <1>2, <2>1, ExchangeConstants DEF Exchange!Envelope, X
  <1>4. \/ /\ env[i].kind = "ask"
           /\ Exchange!Post(Exchange!Reply(r, p, i)) /\ told' = told
        \/ /\ env[i].kind # "ask" /\ env[i].origin \in X.Locals
           /\ told' = told \cup {[at |-> r, session |-> env[i].origin, answer |-> i]}
           /\ UNCHANGED <<env, xWire>>
        \/ /\ env[i].kind # "ask" /\ env[i].stored # 0 /\ env[env[i].stored].hop < X.MaxHops
           /\ Exchange!Post(Exchange!Reply(r, p, env[i].stored)) /\ told' = told
        \/ UNCHANGED <<env, xWire, told>>
    BY DEF Exchange!EndTurn, Exchange!IsAsk, X
  <1>. HIDE DEF i
  <1>5. /\ Exchange!EnvelopesOK' /\ Grown
        /\ \/ told' = told
           \/ /\ env[i].kind = "result" /\ env[i].origin \in X.Locals /\ env' = env
              /\ told' = told \cup {[at |-> r, session |-> env[i].origin, answer |-> i]}
    <2>1. CASE env[i].kind = "ask" /\ Exchange!Post(Exchange!Reply(r, p, i)) /\ told' = told
      BY <1>2, <2>1, ReplyFits, EnvelopePosted
    <2>2. CASE /\ env[i].kind # "ask" /\ env[i].stored # 0 /\ env[env[i].stored].hop < X.MaxHops
               /\ Exchange!Post(Exchange!Reply(r, p, env[i].stored)) /\ told' = told
      <3>1. env[i].stored \in 1..Len(env) /\ env[i].kind = "result"
        BY <1>2, <1>3, <2>2 DEF Exchange!EnvelopesOK
      <3>. QED BY <1>2, <2>2, <3>1, ReplyFits, EnvelopePosted
    <2>3. CASE /\ env[i].kind # "ask" /\ env[i].origin \in X.Locals
               /\ told' = told \cup {[at |-> r, session |-> env[i].origin, answer |-> i]}
               /\ UNCHANGED <<env, xWire>>
      BY <1>3, <2>3, EnvelopesStay
    <2>4. CASE UNCHANGED <<env, xWire, told>>
      BY <2>4, EnvelopesStay
    <2>. QED BY <1>4, <2>1, <2>2, <2>3, <2>4
  <1>6. Exchange!ToldOK'
    <2>1. CASE told' = told
      BY <1>5, <2>1, ToldStays
    <2>2. CASE /\ env[i].kind = "result" /\ env[i].origin \in X.Locals /\ env' = env
               /\ told' = told \cup {[at |-> r, session |-> env[i].origin, answer |-> i]}
      <3>1. /\ env[i].re \in 1..Len(env) /\ env[i].to = env[env[i].re].from
            /\ env[i].origin = env[env[i].re].origin
            /\ env[env[i].re].by \in X.Locals => env[env[i].re].origin = env[env[i].re].by
        BY <1>2, <2>2 DEF X, Exchange!EnvelopesOK, Exchange!EnvelopeOK, Exchange!RepliesAreBounded
      <3>2. i \in Exchange!Ids
        BY <1>2, ExchangeConstants DEF X, Exchange!EnvelopesOK
      <3>. QED BY <1>2, <2>2, <3>1, <3>2, ExchangeConstants DEF X, Exchange!ToldOK, Exchange!AnswerGoesToAsker
    <2>. QED BY <1>5, <2>1, <2>2
  <1>. QED BY <1>1, <1>5, <1>6, TurnEnds, QueuesStay, RequestsStay, AnswersStay DEF X

(* A runtime that closes forgets all its waiters, and their requests fail.   *)
LEMMA CloseStep ==
    ASSUME Exchange!ExchangeInv, NEW r \in X.MayClose, Exchange!Close(r)
    PROVE  Exchange!ExchangeInv'
  <1>. USE DEF Exchange!ExchangeInv
  <1>1. /\ xClosed' = xClosed \cup {r} /\ waiters' = [waiters EXCEPT ![r] = {}]
        /\ req' = [i \in Exchange!Ids |-> IF i \in waiters[r] /\ req[i] # "expired" THEN "failed" ELSE req[i]]
        /\ UNCHANGED <<env, xWire, inbox, xTurn, bound, told>>
    BY DEF Exchange!Close
  <1>2. Exchange!EnvelopesOK' /\ Grown
    BY <1>1, EnvelopesStay
  <1>3. /\ waiters \in [X.Runtimes -> SUBSET Exchange!Ids] /\ \A q \in X.Runtimes : waiters[q] \subseteq 1..Len(env)
        /\ req \in [Exchange!Ids ->
               {"none", "posting", "answered", "waiting", "expired", "resolved"} \cup Exchange!Ended]
        /\ \A j \in Exchange!Ids :
              /\ req[j] # "none" => j <= Len(env) /\ env[j].kind = "ask" /\ env[j].from \in X.Runtimes
              /\ req[j] \in {"posting", "waiting"} => j \in waiters[env[j].from]
        /\ \A q \in X.Runtimes : \A j \in waiters[q] :
              env[j].from = q /\ req[j] \in {"posting", "waiting", "expired"}
    BY DEF X, Exchange!RequestsOK, Exchange!RequestOK, Exchange!WaitersAreRequests
  <1>4. /\ waiters' \in [X.Runtimes -> SUBSET Exchange!Ids]
        /\ \A q \in X.Runtimes : q # r => waiters'[q] = waiters[q]
        /\ r \in X.Runtimes => waiters'[r] = {}
    BY <1>1, <1>3
  <1>5. /\ req' \in [Exchange!Ids ->
               {"none", "posting", "answered", "waiting", "expired", "resolved"} \cup Exchange!Ended]
        /\ \A j \in Exchange!Ids : /\ req'[j] = req[j] \/ (req'[j] = "failed" /\ j \in waiters[r])
                                   /\ req[j] # "expired" /\ j \in waiters[r] => req'[j] = "failed"
    <2>1. "failed" \in {"none", "posting", "answered", "waiting", "expired", "resolved"} \cup Exchange!Ended
      BY DEF Exchange!Ended
    <2>2. \A j \in Exchange!Ids : req'[j] = IF j \in waiters[r] /\ req[j] # "expired" THEN "failed" ELSE req[j]
      BY <1>1
    <2>3. req' \in [Exchange!Ids ->
               {"none", "posting", "answered", "waiting", "expired", "resolved"} \cup Exchange!Ended]
      BY <1>1, <1>3, <2>1, Zenon
    <2>. QED BY <2>2, <2>3
  <1>6. r \in X.Runtimes
    BY ExchangeAssumption DEF X
  <1>7. ASSUME NEW j \in Exchange!Ids
        PROVE  /\ req'[j] # "none" => j <= Len(env) /\ env[j].kind = "ask" /\ env[j].from \in X.Runtimes
               /\ req'[j] \in {"posting", "waiting"} => j \in waiters'[env[j].from]
    <2>1. req'[j] # "none" => req[j] # "none"
      BY <1>3, <1>5, <1>6
    <2>2. ASSUME req'[j] \in {"posting", "waiting"}
          PROVE  j \in waiters'[env[j].from]
      <3>1. req'[j] = req[j] /\ j \notin waiters[r]
        BY <1>5, <2>2
      <3>2. j \in waiters[env[j].from] /\ env[j].from \in X.Runtimes
        BY <1>3, <2>2, <3>1
      <3>. QED BY <1>4, <3>1, <3>2
    <2>. QED BY <1>3, <2>1, <2>2
  <1>8. ASSUME NEW q \in X.Runtimes, NEW j \in waiters'[q]
        PROVE  env[j].from = q /\ req'[j] \in {"posting", "waiting", "expired"} /\ j \in 1..Len(env)
    <2>1. q # r /\ j \in waiters[q] /\ j \in Exchange!Ids
      BY <1>3, <1>4, <1>8
    <2>2. env[j].from = q /\ j \notin waiters[r]
      BY <1>3, <1>6, <2>1
    <2>. QED BY <1>3, <1>5, <2>1, <2>2
  <1>9. Exchange!RequestsOK'
    BY <1>1, <1>4, <1>5, <1>7, <1>8, ExchangeConstants
    DEF X, Exchange!RequestsOK, Exchange!RequestOK, Exchange!WaitersAreRequests
  <1>10. \A j \in 1..Len(env) : req'[j] \in {"posting", "waiting"} => req[j] \in {"posting", "waiting"}
    <2>1. 1..Len(env) \subseteq Exchange!Ids
      BY ExchangeConstants DEF X, Exchange!EnvelopesOK
    <2>. QED BY <1>5, <2>1
  <1>11. xClosed' \subseteq X.MayClose
    BY <1>1 DEF X
  <1>. QED BY <1>1, <1>2, <1>9, <1>10, <1>11, QueuesStay, TurnsStay, AnswersStay, ToldStays DEF X

LEMMA ExchangeStarts == Init => Exchange!ExchangeInv
  <1>. SUFFICES ASSUME Exchange!Init PROVE Exchange!ExchangeInv
    BY DEF Init
  <1>. USE DEF Exchange!Init
  <1>1. env = <<>> /\ Len(env) = 0 /\ env \in Seq(Exchange!Envelope) /\ 1..Len(env) = {}
    OBVIOUS
  <1>2. Exchange!EnvelopesOK
    BY <1>1, ExchangeConstants DEF X, Exchange!EnvelopesOK, Exchange!RepliesAreBounded
  <1>3. Exchange!QueuesOK /\ Exchange!AnswersResume
    <2>1. \A r \in X.Runtimes, p \in Exchange!Peers : inbox[r][p] = <<>> /\ 1..Len(inbox[r][p]) = {}
      BY DEF X
    <2>2. inbox \in [X.Runtimes -> [Exchange!Peers -> Seq(Exchange!Ids)]]
      BY DEF X
    <2>. QED BY <2>1, <2>2 DEF X, Exchange!QueuesOK, Exchange!AnswersResume
  <1>4. Exchange!TurnsOK
    <2>1. 0 \in 0..X.MaxEnvelopes
      BY ExchangeConstants
    <2>. QED BY <2>1 DEF X, Exchange!TurnsOK
  <1>5. Exchange!RequestsOK
    BY DEF X, Exchange!RequestsOK, Exchange!RequestOK, Exchange!WaitersAreRequests
  <1>6. Exchange!ToldOK
    BY DEF Exchange!ToldOK, Exchange!AnswerGoesToAsker
  <1>. QED BY <1>2, <1>3, <1>4, <1>5, <1>6 DEF Exchange!ExchangeInv

LEMMA ExchangeSteps == Exchange!ExchangeInv /\ [Next]_vars => Exchange!ExchangeInv'
  <1>1. ASSUME Exchange!ExchangeInv, Exchange!Next PROVE Exchange!ExchangeInv'
    <2>1. ASSUME NEW a \in X.Asks, Exchange!Ask(a) PROVE Exchange!ExchangeInv'
      BY <1>1, <2>1, AskStep
    <2>2. ASSUME NEW a \in X.ForeignAsks, Exchange!ForeignAsk(a) PROVE Exchange!ExchangeInv'
      BY <1>1, <2>2, ForeignAskStep
    <2>3. ASSUME NEW i \in Exchange!Ids,
                 \/ Exchange!Taken(i) \/ Exchange!Posted(i) \/ Exchange!PostFails(i)
                 \/ Exchange!TimerFires(i) \/ Exchange!RequestReturns(i)
          PROVE  Exchange!ExchangeInv'
      BY <1>1, <2>3, TakenStep, RequestStep
    <2>4. ASSUME NEW r \in X.Runtimes, NEW p \in Exchange!Peers,
                 \/ \E n \in Exchange!Ids : Exchange!StartTurn(r, p, n)
                 \/ Exchange!EndTurn(r, p) \/ Exchange!TurnFails(r, p)
          PROVE  Exchange!ExchangeInv'
      BY <1>1, <2>4, StartTurnStep, EndTurnStep, TurnFailsStep
    <2>5. ASSUME NEW r \in X.MayClose, Exchange!Close(r) PROVE Exchange!ExchangeInv'
      BY <1>1, <2>5, CloseStep
    <2>. QED BY <1>1, <2>1, <2>2, <2>3, <2>4, <2>5 DEF Exchange!Next, X
  <1>. QED BY <1>1, RestingExchange DEF Next, vars

(* An answer resumes the request that waits for it, a request that ended     *)
(* leaves no waiter, an answer is told to the session that asked, and        *)
(* automatic replies stay within the hops - for any runtimes, asks and       *)
(* number of envelopes, through posts that fail before or after they were    *)
(* taken, timeouts and shutdowns (enqueue_envelope, send_request,            *)
(* send_response, _resolve_response_target).                                 *)
THEOREM AnswersAreRouted == Spec => []AnswersFindTheirWay
  <1>1. Exchange!ExchangeInv => AnswersFindTheirWay
    BY DEF Exchange!ExchangeInv, Exchange!EnvelopesOK, Exchange!RequestsOK, Exchange!ToldOK, AnswersFindTheirWay
  <1>. QED BY <1>1, ExchangeStarts, ExchangeSteps, PTL DEF Spec

-----------------------------------------------------------------------------
(* The model turn.  An exchange that enters the history: a message that is   *)
(* results goes after the calls it is for.                                   *)
LEMMA ConcatFacts ==
    ASSUME NEW S, NEW h \in Seq(S), NEW e \in Seq(S), e # <<>>
    PROVE  /\ Len(h) \in Nat /\ Len(e) \in Nat \ {0} /\ DOMAIN h = 1..Len(h) /\ DOMAIN e = 1..Len(e)
           /\ h \o e \in Seq(S) /\ Len(h \o e) = Len(h) + Len(e)
           /\ DOMAIN (h \o e) = 1..(Len(h) + Len(e))
           /\ \A i \in 1..Len(h) : (h \o e)[i] = h[i]
           /\ \A i \in 1..Len(e) : (h \o e)[Len(h) + i] = e[i]
  <1>1. Len(h) \in Nat /\ Len(e) \in Nat \ {0} /\ DOMAIN h = 1..Len(h) /\ DOMAIN e = 1..Len(e)
    OBVIOUS
  <1>2. h \o e \in Seq(S) /\ Len(h \o e) = Len(h) + Len(e)
    OBVIOUS
  <1>3. DOMAIN (h \o e) = 1..(Len(h) + Len(e))
    BY <1>2
  <1>4. \A i \in 1..Len(h) : (h \o e)[i] = h[i]
    OBVIOUS
  <1>5. \A i \in 1..Len(e) : (h \o e)[Len(h) + i] = e[i]
    OBVIOUS
  <1>. QED BY <1>1, <1>2, <1>3, <1>4, <1>5

(* Results follow their calls in h; e is an exchange of turn t; e may follow h. *)
Follow(h) ==
    \A i \in DOMAIN h : h[i].kind = "results" =>
        i > 1 /\ h[i - 1].kind \in Turn!HasCall /\ h[i - 1].turn = h[i].turn
OfTurn(e, t) == \A i \in DOMAIN e : e[i].turn = t
CallsFirst(e) ==
    \A i \in DOMAIN e : e[i].kind = "results" /\ i # 1 => e[i - 1].kind \in Turn!HasCall
MayFollow(e, h, t) ==
    e[1].kind = "results" => h # <<>> /\ h[Len(h)].kind \in Turn!HasCall /\ h[Len(h)].turn = t
Curated(h, t) == h \in Seq(Turn!Entries) /\ Turn!InTurns(h, t) /\ Follow(h)

LEMMA EntryFacts ==
    /\ \A x \in Turn!Entries : x.turn \in Nat /\ x.role \in {"user", "model"}
    /\ \A q \in {"user", "model"}, k \in Turn!Messages \cup Turn!Answers :
          /\ mtTurn \in Nat => Turn!Entry(q, k) \in Turn!Entries
          /\ Turn!Entry(q, k).role = q /\ Turn!Entry(q, k).kind = k /\ Turn!Entry(q, k).turn = mtTurn
    /\ "results" \notin Turn!Answers /\ Turn!HasCall \subseteq Turn!Answers /\ "call" \in Turn!HasCall
    /\ "results" \in Turn!Messages
  BY DEF Turn!Entries, Turn!Entry, Turn!Messages, Turn!Answers, Turn!HasCall

LEMMA HistoryGrows ==
    ASSUME NEW t \in Nat, NEW h, NEW e \in Seq(Turn!Entries), e # <<>>, Curated(h, t),
           OfTurn(e, t), CallsFirst(e), MayFollow(e, h, t), e[Len(e)].role = "model"
    PROVE  Curated(h \o e, t) /\ h \o e # <<>> /\ (h \o e)[Len(h \o e)] = e[Len(e)]
  <1>1. /\ Len(h) \in Nat /\ Len(e) \in Nat \ {0} /\ DOMAIN h = 1..Len(h) /\ DOMAIN e = 1..Len(e)
        /\ h \o e \in Seq(Turn!Entries) /\ Len(h \o e) = Len(h) + Len(e)
        /\ DOMAIN (h \o e) = 1..(Len(h) + Len(e))
        /\ \A i \in 1..Len(h) : (h \o e)[i] = h[i]
        /\ \A i \in 1..Len(e) : (h \o e)[Len(h) + i] = e[i]
    BY ConcatFacts DEF Curated
  <1>2. h \o e # <<>> /\ (h \o e)[Len(h \o e)] = e[Len(e)]
    <2>1. Len(e) \in 1..Len(e) /\ Len(h \o e) # 0
      BY <1>1
    <2>. QED BY <1>1, <2>1
  <1>3. ASSUME NEW i \in 1..(Len(h) + Len(e)), (h \o e)[i].kind = "results"
        PROVE  i > 1 /\ (h \o e)[i - 1].kind \in Turn!HasCall /\ (h \o e)[i - 1].turn = (h \o e)[i].turn
    <2>1. CASE i \in 1..Len(h)
      <3>1. (h \o e)[i] = h[i] /\ i > 1
        BY <1>1, <1>3, <2>1 DEF Follow, Curated
      <3>2. i - 1 \in 1..Len(h)
        BY <1>1, <2>1, <3>1
      <3>3. (h \o e)[i - 1] = h[i - 1]
        BY <1>1, <3>2
      <3>. QED BY <1>1, <1>3, <2>1, <3>1, <3>3 DEF Follow, Curated
    <2>2. CASE i > Len(h)
      <3>. DEFINE k == i - Len(h)
      <3>1. k \in 1..Len(e) /\ i = Len(h) + k
        BY <1>1, <2>2
      <3>2. (h \o e)[i] = e[k] /\ e[k].turn = t /\ e[k].kind = "results"
        BY <1>1, <1>3, <3>1 DEF OfTurn
      <3>3. CASE k = 1
        <4>1. h # <<>> /\ h[Len(h)].kind \in Turn!HasCall /\ h[Len(h)].turn = t
          BY <3>2, <3>3 DEF MayFollow
        <4>2. Len(h) \in 1..Len(h) /\ i - 1 = Len(h) /\ i > 1
          BY <1>1, <3>1, <3>3, <4>1 DEF Curated
        <4>3. (h \o e)[i - 1] = h[Len(h)]
          BY <1>1, <4>2
        <4>. QED BY <3>2, <4>1, <4>2, <4>3
      <3>4. CASE k # 1
        <4>1. k - 1 \in 1..Len(e) /\ i - 1 = Len(h) + (k - 1) /\ i > 1
          BY <1>1, <3>1, <3>4
        <4>2. (h \o e)[i - 1] = e[k - 1]
          BY <1>1, <4>1
        <4>3. e[k - 1].turn = t /\ e[k - 1].kind \in Turn!HasCall
          BY <1>1, <3>1, <3>2, <3>4, <4>1 DEF OfTurn, CallsFirst
        <4>. QED BY <3>2, <4>1, <4>2, <4>3
      <3>. QED BY <3>3, <3>4
    <2>. QED BY <1>1, <2>1, <2>2
  <1>4. ASSUME NEW i \in 1..(Len(h) + Len(e)) PROVE (h \o e)[i].turn \in Nat /\ (h \o e)[i].turn <= t
    <2>1. CASE i \in 1..Len(h)
      <3>1. (h \o e)[i] = h[i] /\ h[i] \in Turn!Entries /\ h[i].turn <= t
        BY <1>1, <2>1 DEF Curated, Turn!InTurns
      <3>. QED BY <3>1, EntryFacts
    <2>2. CASE i > Len(h)
      <3>1. i - Len(h) \in 1..Len(e) /\ i = Len(h) + (i - Len(h))
        BY <1>1, <2>2
      <3>. QED BY <1>1, <3>1 DEF OfTurn
    <2>. QED BY <1>1, <2>1, <2>2
  <1>5. e[Len(e)].turn = t
    BY <1>1 DEF OfTurn
  <1>6. Turn!InTurns(h \o e, t)
    BY <1>1, <1>2, <1>4, <1>5 DEF Turn!InTurns
  <1>7. Follow(h \o e)
    BY <1>1, <1>3 DEF Follow
  <1>. QED BY <1>1, <1>2, <1>6, <1>7 DEF Curated

LEMMA CuratedHistory ==
    /\ Turn!HistoryInv <=> Curated(hist, mtTurn)
    /\ Turn!HistoryInv' <=> Curated(hist', mtTurn')
  BY DEF Turn!HistoryInv, Curated, Follow, Turn!ResultsFollowCalls

LEMMA TurnStarts == Init => Turn!TurnInv
  <1>. SUFFICES ASSUME Turn!Init PROVE Turn!TurnInv
    BY DEF Init
  <1>1. hist = <<>> /\ hist \in Seq(Turn!Entries) /\ DOMAIN hist = {}
    BY DEF Turn!Init
  <1>2. Turn!HistoryInv
    BY <1>1 DEF Turn!HistoryInv, Turn!InTurns, Turn!ResultsFollowCalls
  <1>3. Turn!SendInv
    <2>1. mtTurn \in 0..TurnConf.MaxTurns
      BY TurnAssumption DEF Turn!Init
    <2>2. /\ mtPc = "idle" /\ message = "message" /\ emitted = FALSE /\ ran = FALSE /\ mtText = FALSE
          /\ recorded = FALSE /\ shown = FALSE
      BY DEF Turn!Init
    <2>. QED BY <2>1, <2>2 DEF Turn!SendInv, Turn!Messages
  <1>. QED BY <1>2, <1>3 DEF Turn!TurnInv

(* A later turn may go on with the history.                                  *)
LEMMA LaterTurn ==
    ASSUME NEW h, NEW t \in Nat, Curated(h, t) PROVE Curated(h, t + 1)
  <1>1. \A i \in DOMAIN h : h[i].turn \in Nat /\ h[i].turn <= t /\ h[i].turn <= h[Len(h)].turn
    <2>1. \A i \in DOMAIN h : h[i] \in Turn!Entries
      BY DEF Curated
    <2>. QED BY <2>1, EntryFacts DEF Curated, Turn!InTurns
  <1>2. \A i \in DOMAIN h : h[i].turn <= t + 1
    BY <1>1
  <1>. QED BY <1>1, <1>2 DEF Curated, Turn!InTurns

(* The turn returns, or its locals are set for another send.                 *)
LEMMA TurnReturns ==
    ASSUME Turn!TurnInv, mtTurn' \in {mtTurn, mtTurn + 1}, mtTurn' \in 0..TurnConf.MaxTurns, hist' = hist,
           \/ \E r : Turn!End(r)
           \/ \E m \in {"message", "file", "nudge"}, s \in BOOLEAN : Turn!Send(m, s) /\ shown' = FALSE
    PROVE  Turn!TurnInv'
  <1>1. Turn!HistoryInv'
    <2>1. mtTurn \in Nat /\ Curated(hist, mtTurn)
      BY CuratedHistory, TurnAssumption DEF Turn!TurnInv, Turn!SendInv
    <2>2. Curated(hist, mtTurn')
      BY <2>1, LaterTurn
    <2>. QED BY <2>2, CuratedHistory
  <1>2. CASE \E r : Turn!End(r)
    <2>1. Turn!SendInv'
      BY <1>2 DEF Turn!SendInv, Turn!End, Turn!Messages
    <2>. QED BY <1>1, <2>1 DEF Turn!TurnInv
  <1>3. ASSUME NEW m \in {"message", "file", "nudge"}, NEW s \in BOOLEAN, Turn!Send(m, s), shown' = FALSE
        PROVE Turn!TurnInv'
    <2>1. Turn!SendInv'
      BY <1>3 DEF Turn!SendInv, Turn!Send, Turn!Messages
    <2>. QED BY <1>1, <2>1 DEF Turn!TurnInv
  <1>. QED BY <1>2, <1>3

(* An answer of the model enters the history, with the message.              *)
LEMMA StreamAnswers ==
    ASSUME Turn!TurnInv, NEW a \in Turn!Answers, NEW space \in BOOLEAN, NEW keeps \in BOOLEAN,
           Turn!StreamRound(a, space, keeps)
    PROVE  Turn!TurnInv'
  <1>. DEFINE q == Turn!Entry("user", message)
             w == Turn!Entry("model", a)
             e == <<q, w>>
  <1>1. /\ mtTurn \in 0..TurnConf.MaxTurns /\ mtTurn \in Nat /\ message \in Turn!Messages
        /\ mtTurn' = mtTurn /\ mtPc = "stream" /\ hist' = IF keeps THEN hist \o e ELSE hist
    BY TurnAssumption DEF Turn!TurnInv, Turn!SendInv, Turn!StreamRound, Turn!still
  <1>2. /\ q \in Turn!Entries /\ w \in Turn!Entries /\ q.turn = mtTurn /\ w.turn = mtTurn
        /\ q.kind = message /\ w.kind = a /\ w.role = "model"
    BY <1>1, EntryFacts
  <1>. HIDE DEF q, w
  <1>3. e \in Seq(Turn!Entries) /\ e # <<>> /\ DOMAIN e = {1, 2} /\ Len(e) = 2 /\ e[1] = q /\ e[2] = w
    BY <1>2
  <1>4. OfTurn(e, mtTurn) /\ CallsFirst(e) /\ MayFollow(e, hist, mtTurn) /\ e[Len(e)] = w
    <2>1. OfTurn(e, mtTurn) /\ CallsFirst(e) /\ e[Len(e)] = w
      BY <1>2, <1>3, EntryFacts DEF OfTurn, CallsFirst
    <2>2. message = "results" => Turn!EndsInCall
      BY <1>1 DEF Turn!TurnInv, Turn!SendInv
    <2>. QED BY <1>2, <1>3, <2>1, <2>2 DEF MayFollow, Turn!EndsInCall
  <1>. HIDE DEF e
  <1>5. Curated(hist, mtTurn)
    BY CuratedHistory DEF Turn!TurnInv
  <1>6. Curated(hist \o e, mtTurn) /\ hist \o e # <<>> /\ (hist \o e)[Len(hist \o e)] = w
    BY <1>1, <1>2, <1>3, <1>4, <1>5, HistoryGrows
  <1>7. Turn!HistoryInv'
    BY <1>1, <1>5, <1>6, CuratedHistory
  <1>8. keeps /\ a \in Turn!HasCall => Turn!EndsInCall'
    BY <1>1, <1>2, <1>6 DEF Turn!EndsInCall
  <1>9. Turn!SendInv'
    <2>1. CASE a \in Turn!HasCall
      <3>1. /\ mtPc' = "tools" /\ recorded' = keeps /\ UNCHANGED <<mtTurn, message, ran>>
            /\ emitted' = (emitted \/ space \/ a \in Turn!HasText) /\ mtText' = (mtText \/ a \in Turn!HasText)
            /\ shown' = (shown \/ a \in Turn!HasText)
        BY <2>1 DEF Turn!StreamRound, Turn!still
      <3>2. {emitted', ran', mtText', recorded', shown'} \subseteq BOOLEAN /\ message' \in Turn!Messages
        BY <1>1, <3>1 DEF Turn!TurnInv, Turn!SendInv
      <3>3. (shown' => mtText' /\ emitted') /\ (message' \in {"results", "strays"} => ran')
        BY <1>1, <3>1 DEF Turn!TurnInv, Turn!SendInv
      <3>. QED BY <1>1, <1>8, <2>1, <3>1, <3>2, <3>3 DEF Turn!SendInv
    <2>2. CASE a \notin Turn!HasCall
      <3>1. /\ Turn!Sent(mtText \/ a \in Turn!HasText) /\ shown' = (shown \/ a \in Turn!HasText)
        BY <2>2 DEF Turn!StreamRound
      <3>2. mtText' \in BOOLEAN /\ shown' \in BOOLEAN /\ (shown' => mtText')
        BY <3>1 DEF Turn!TurnInv, Turn!SendInv, Turn!Sent
      <3>. QED BY <1>1, <3>1, <3>2 DEF Turn!SendInv, Turn!Sent, Turn!Messages
    <2>. QED BY <2>1, <2>2
  <1>. QED BY <1>7, <1>9 DEF Turn!TurnInv

LEMMA PlainSendAnswers ==
    ASSUME Turn!TurnInv, NEW a \in Turn!Answers, NEW called \in BOOLEAN, NEW keeps \in BOOLEAN,
           Turn!PlainAnswers(a, called, keeps)
    PROVE  Turn!TurnInv'
  <1>. DEFINE q == Turn!Entry("user", message)
             c == Turn!Entry("model", "call")
             r == Turn!Entry("user", "results")
             w == Turn!Entry("model", a)
             e == IF called THEN <<q, c, r, w>> ELSE <<q, w>>
  <1>1. /\ mtTurn \in 0..TurnConf.MaxTurns /\ mtTurn \in Nat /\ message \in Turn!Messages
        /\ message # "results" /\ ~shown /\ mtTurn' = mtTurn /\ mtPc = "plain"
        /\ hist' = IF ~keeps THEN hist ELSE hist \o <<q>> \o (IF called THEN <<c, r>> ELSE <<>>) \o <<w>>
        /\ Turn!Sent(a \in Turn!HasText) /\ shown' = shown
    BY TurnAssumption DEF Turn!TurnInv, Turn!SendInv, Turn!PlainAnswers, Turn!still
  <1>2. /\ q \in Turn!Entries /\ c \in Turn!Entries /\ r \in Turn!Entries /\ w \in Turn!Entries
        /\ q.turn = mtTurn /\ w.turn = mtTurn /\ c.turn = mtTurn /\ r.turn = mtTurn
        /\ q.kind = message /\ w.kind = a /\ c.kind = "call" /\ r.kind = "results" /\ w.role = "model"
    <2>1. "call" \in Turn!Answers /\ "results" \in Turn!Messages
      BY EntryFacts
    <2>. QED BY <1>1, <2>1, EntryFacts
  <1>3. a # "results" /\ "call" \in Turn!HasCall
    BY EntryFacts
  <1>. HIDE DEF q, c, r, w
  <1>4. Curated(hist, mtTurn) /\ hist \in Seq(Turn!Entries)
    BY CuratedHistory DEF Turn!TurnInv, Curated
  <1>5. keeps => hist' = hist \o e
    <2>1. CASE called
      BY <1>1, <1>2, <1>4, <2>1
    <2>2. CASE ~called
      <3>1. keeps => hist' = hist \o <<q>> \o <<>> \o <<w>>
        BY <1>1, <2>2
      <3>2. hist \o <<q>> \o <<>> \o <<w>> = hist \o <<q, w>>
        BY <1>2, <1>4
      <3>3. e = <<q, w>>
        BY <2>2
      <3>. QED BY <3>1, <3>2, <3>3
    <2>. QED BY <2>1, <2>2
  <1>6. /\ e \in Seq(Turn!Entries) /\ e # <<>> /\ e[1] = q /\ e[Len(e)] = w
        /\ \A i \in DOMAIN e : e[i].turn = mtTurn /\ (e[i].kind = "results" /\ i # 1 => e[i - 1].kind \in Turn!HasCall)
    <2>1. CASE called
      <3>1. /\ e = <<q, c, r, w>> /\ e \in Seq(Turn!Entries) /\ e # <<>> /\ DOMAIN e = 1..4 /\ Len(e) = 4
            /\ e[1] = q /\ e[2] = c /\ e[3] = r /\ e[4] = w
        BY <1>2, <2>1
      <3>2. \A i \in DOMAIN e : i = 1 \/ i = 2 \/ i = 3 \/ i = 4
        BY <3>1
      <3>3. \A i \in DOMAIN e : e[i].turn = mtTurn
        BY <1>2, <3>1, <3>2
      <3>4. e[2].kind # "results" /\ e[4].kind # "results" /\ e[3 - 1].kind = "call"
        BY <1>2, <1>3, <3>1
      <3>5. \A i \in DOMAIN e : e[i].kind = "results" /\ i # 1 => i = 3
        BY <3>2, <3>4
      <3>. HIDE DEF e
      <3>. QED BY <1>3, <3>1, <3>3, <3>4, <3>5
    <2>2. CASE ~called
      <3>1. e = <<q, w>> /\ e \in Seq(Turn!Entries) /\ e # <<>> /\ DOMAIN e = {1, 2} /\ Len(e) = 2 /\ e[1] = q /\ e[2] = w
        BY <1>2, <2>2
      <3>. HIDE DEF e
      <3>. QED BY <1>2, <1>3, <3>1
    <2>. QED BY <2>1, <2>2
  <1>. HIDE DEF e
  <1>7. OfTurn(e, mtTurn) /\ CallsFirst(e) /\ MayFollow(e, hist, mtTurn)
    <2>1. e[1].kind # "results"
      BY <1>1, <1>2, <1>6
    <2>. QED BY <1>6, <2>1 DEF OfTurn, CallsFirst, MayFollow
  <1>8. Curated(hist \o e, mtTurn)
    BY <1>1, <1>2, <1>4, <1>6, <1>7, HistoryGrows
  <1>9. Turn!HistoryInv'
    BY <1>1, <1>4, <1>5, <1>8, CuratedHistory
  <1>10. Turn!SendInv'
    <2>1. shown' = FALSE
      BY <1>1 DEF Turn!TurnInv, Turn!SendInv
    <2>2. /\ mtPc' = "sent" /\ message' = "message" /\ emitted' = FALSE /\ ran' = FALSE /\ recorded' = FALSE
          /\ mtText' \in BOOLEAN
      BY <1>1 DEF Turn!Sent
    <2>. QED BY <1>1, <2>1, <2>2 DEF Turn!SendInv, Turn!Messages
  <1>. QED BY <1>9, <1>10 DEF Turn!TurnInv

(* Stripping its files leaves the history's results and calls where they     *)
(* were.                                                                     *)
LEMMA StrippingKeeps ==
    ASSUME Turn!TurnInv, Turn!StaleFile
    PROVE  Turn!TurnInv'
  <1>1. CASE \E r : Turn!End(r) /\ hist' = hist /\ mtTurn' = mtTurn
    BY <1>1, TurnReturns DEF Turn!TurnInv, Turn!SendInv
  <1>2. CASE /\ hist' = Turn!Stripped(hist) /\ mtPc = "plain"
             /\ UNCHANGED <<mtPc, mtTurn, message, emitted, ran, mtText, recorded, shown, toolRounds>>
    <2>1. /\ hist \in Seq(Turn!Entries) /\ DOMAIN hist = 1..Len(hist) /\ Len(hist) \in Nat
          /\ \A i \in 1..Len(hist) : hist[i] \in Turn!Entries
      BY DEF Turn!TurnInv, Turn!HistoryInv
    <2>. DEFINE new(x) == IF x.kind = "file" THEN [x EXCEPT !.kind = "message"] ELSE x
    <2>2. hist' = [i \in 1..Len(hist) |-> new(hist[i])]
      BY <1>2, <2>1 DEF Turn!Stripped
    <2>3. ASSUME NEW x \in Turn!Entries
          PROVE  /\ new(x) \in Turn!Entries /\ new(x).turn = x.turn /\ new(x).role = x.role
                 /\ new(x).kind = "results" => x.kind = "results"
                 /\ x.kind \in Turn!HasCall => new(x).kind \in Turn!HasCall
      BY DEF Turn!Entries, Turn!Messages, Turn!HasCall
    <2>. HIDE DEF new
    <2>4. /\ hist' \in Seq(Turn!Entries) /\ DOMAIN hist' = 1..Len(hist) /\ Len(hist') = Len(hist)
          /\ \A i \in 1..Len(hist) : hist'[i] = new(hist[i])
      BY <2>1, <2>2, <2>3
    <2>5. ASSUME NEW i \in 1..Len(hist), hist'[i].kind = "results"
          PROVE  i > 1 /\ hist'[i - 1].kind \in Turn!HasCall /\ hist'[i - 1].turn = hist'[i].turn
      <3>1. hist[i].kind = "results"
        BY <2>1, <2>3, <2>4, <2>5
      <3>2. i > 1 /\ hist[i - 1].kind \in Turn!HasCall /\ hist[i - 1].turn = hist[i].turn
        BY <2>1, <3>1 DEF Turn!TurnInv, Turn!HistoryInv, Turn!ResultsFollowCalls
      <3>3. i - 1 \in 1..Len(hist)
        BY <2>1, <3>2
      <3>. QED BY <2>1, <2>3, <2>4, <3>2, <3>3
    <2>6. Follow(hist')
      BY <2>4, <2>5 DEF Follow
    <2>7. Turn!InTurns(hist', mtTurn)
      <3>1. Turn!InTurns(hist, mtTurn)
        BY DEF Turn!TurnInv, Turn!HistoryInv
      <3>2. \A i \in 1..Len(hist) : hist'[i].turn = hist[i].turn /\ hist'[i].role = hist[i].role
        BY <2>1, <2>3, <2>4
      <3>3. hist # <<>> <=> Len(hist) \in 1..Len(hist)
        BY <2>1
      <3>4. hist' # <<>> <=> Len(hist) \in 1..Len(hist)
        BY <2>1, <2>4
      <3>5. ASSUME NEW i \in 1..Len(hist) PROVE hist[i].turn <= mtTurn /\ hist[i].turn <= hist[Len(hist)].turn /\ Len(hist) \in 1..Len(hist)
        BY <2>1, <3>1 DEF Turn!InTurns
      <3>6. \A i \in DOMAIN hist' : hist'[i].turn <= mtTurn /\ hist'[i].turn <= hist'[Len(hist')].turn
        BY <2>4, <3>2, <3>5
      <3>. QED BY <2>4, <3>1, <3>2, <3>3, <3>4, <3>6 DEF Turn!InTurns
    <2>8. Turn!HistoryInv'
      BY <1>2, <2>4, <2>6, <2>7, CuratedHistory DEF Curated
    <2>9. Turn!SendInv'
      BY <1>2 DEF Turn!TurnInv, Turn!SendInv
    <2>. QED BY <2>8, <2>9 DEF Turn!TurnInv
  <1>. QED BY <1>1, <1>2 DEF Turn!StaleFile

LEMMA TurnSteps == Turn!TurnInv /\ [Next]_vars => Turn!TurnInv'
  <1>. SUFFICES ASSUME Turn!TurnInv, [Next]_vars PROVE Turn!TurnInv'
    OBVIOUS
  <1>0. UNCHANGED <<hist, mtTurn>> => Turn!HistoryInv'
    BY CuratedHistory DEF Turn!TurnInv
  <1>1. UNCHANGED modelTurn => Turn!TurnInv'
    BY <1>0 DEF modelTurn, Turn!TurnInv, Turn!SendInv, Turn!EndsInCall
  <1>2. mtTurn \in 0..TurnConf.MaxTurns /\ mtTurn \in Nat
    BY TurnAssumption DEF Turn!TurnInv, Turn!SendInv
  <1>3. CASE Turn!RunTools
    <2>1. mtPc = "tools" /\ UNCHANGED <<hist, mtTurn, shown>>
      BY <1>3 DEF Turn!RunTools, Turn!still
    <2>2. CASE round < TurnConf.MaxRemoteCalls
      <3>1. /\ mtPc' = "stream" /\ ran' = TRUE /\ message' = IF recorded THEN "results" ELSE "strays"
            /\ UNCHANGED <<emitted, mtText, recorded>>
        BY <1>3, <2>2 DEF Turn!RunTools
      <3>2. Turn!SendInv'
        BY <2>1, <3>1 DEF Turn!TurnInv, Turn!SendInv, Turn!EndsInCall, Turn!Messages
      <3>. QED BY <1>0, <2>1, <3>2 DEF Turn!TurnInv
    <2>3. CASE ~(round < TurnConf.MaxRemoteCalls)
      <3>1. Turn!Sent(mtText)
        BY <1>3, <2>3 DEF Turn!RunTools
      <3>2. Turn!SendInv'
        BY <2>1, <3>1 DEF Turn!Sent, Turn!TurnInv, Turn!SendInv, Turn!Messages
      <3>. QED BY <1>0, <2>1, <3>2 DEF Turn!TurnInv
    <2>. QED BY <2>2, <2>3
  <1>4. ASSUME NEW unsupported \in BOOLEAN, NEW partial \in BOOLEAN, Turn!StreamFails(unsupported, partial)
        PROVE Turn!TurnInv'
    <2>1. CASE emitted \/ partial \/ ran
      BY <1>2, <1>4, <2>1, TurnReturns DEF Turn!StreamFails
    <2>2. CASE ~(emitted \/ partial \/ ran)
      <3>1. /\ mtPc' = "plain" /\ UNCHANGED <<mtTurn, hist, message, emitted, ran, mtText, recorded, shown>> /\ ~emitted /\ ~ran
            /\ mtPc = "stream"
        BY <1>4, <2>2 DEF Turn!StreamFails, Turn!send
      <3>2. Turn!SendInv'
        BY <3>1 DEF Turn!TurnInv, Turn!SendInv
      <3>. QED BY <1>0, <3>1, <3>2 DEF Turn!TurnInv
    <2>. QED BY <2>1, <2>2
  <1>5. ASSUME NEW name, Turn!UnknownTool(name) PROVE Turn!TurnInv'
    <2>1. CASE Turn!End(Turn!Error)
      BY <1>2, <1>5, <2>1, TurnReturns DEF Turn!UnknownTool
    <2>2. CASE UNCHANGED <<mtPc, mtTurn, hist, message, emitted, ran, mtText, recorded, shown, toolRounds>>
      BY <1>0, <2>2 DEF Turn!TurnInv, Turn!SendInv, Turn!EndsInCall
    <2>. QED BY <1>5, <2>1, <2>2 DEF Turn!UnknownTool
  <1>6. CASE Turn!Finish
    <2>1. mtTurn' = mtTurn /\ hist' = hist /\ mtPc = "sent"
      BY <1>6 DEF Turn!Finish
    <2>2. \/ \E r : Turn!End(r)
          \/ Turn!Send("nudge", live) /\ shown' = shown /\ ~mtText
      BY <1>6 DEF Turn!Finish
    <2>3. CASE \E r : Turn!End(r)
      BY <1>2, <2>1, <2>3, TurnReturns
    <2>4. CASE Turn!Send("nudge", live) /\ shown' = shown /\ ~mtText
      <3>1. shown' = FALSE
        BY <2>4 DEF Turn!TurnInv, Turn!SendInv
      <3>2. Turn!SendInv'
        BY <1>2, <2>1, <2>4, <3>1 DEF Turn!Send, Turn!SendInv, Turn!Messages
      <3>. QED BY <1>0, <2>1, <3>2 DEF Turn!TurnInv
    <2>. QED BY <2>2, <2>3, <2>4
  <1>7. CASE Turn!Fails
    BY <1>2, <1>7, TurnReturns DEF Turn!Fails
  <1>8. ASSUME NEW m \in {"message", "file"}, NEW l \in BOOLEAN, Turn!Begin(m, l) PROVE Turn!TurnInv'
    <2>1. mtTurn' = mtTurn + 1 /\ mtTurn' \in 0..TurnConf.MaxTurns /\ hist' = hist /\ Turn!Send(m, l)
      BY <1>2, <1>8, TurnAssumption DEF Turn!Begin
    <2>2. shown' = FALSE
      BY <1>8 DEF Turn!Begin, Turn!TurnInv, Turn!SendInv
    <2>. QED BY <2>1, <2>2, TurnReturns
  <1>. QED BY <1>1, <1>3, <1>4, <1>5, <1>6, <1>7, <1>8, StreamAnswers, PlainSendAnswers, StrippingKeeps
    DEF Turn!Next, Turn!Step, Next, vars

(* The latest text is that of the history's last entry.                      *)
LEMMA LatestIsLast ==
    Turn!HistoryInv /\ Turn!LatestText # Turn!NoReply => hist # <<>> /\ Turn!LatestText = hist[Len(hist)].turn
  <1>. SUFFICES ASSUME Turn!HistoryInv, Turn!LatestText # Turn!NoReply
       PROVE  hist # <<>> /\ Turn!LatestText = hist[Len(hist)].turn
    OBVIOUS
  <1>. DEFINE last == {i \in DOMAIN hist : hist[i].role = "model" /\ \A j \in DOMAIN hist : j > i => hist[j].role = "user"}
  <1>1. /\ hist \in Seq(Turn!Entries) /\ (hist # <<>> => hist[Len(hist)].role = "model")
        /\ DOMAIN hist = 1..Len(hist) /\ Len(hist) \in Nat
    BY DEF Turn!HistoryInv, Turn!InTurns
  <1>2. (\E i \in last : hist[i].kind \in Turn!HasText) /\ Turn!LatestText = hist[CHOOSE i \in last : TRUE].turn
    BY DEF Turn!LatestText
  <1>3. hist # <<>> /\ Len(hist) \in DOMAIN hist
    BY <1>1, <1>2
  <1>4. \A i \in last : i = Len(hist)
    BY <1>1, <1>3
  <1>5. (CHOOSE i \in last : TRUE) \in last
    BY <1>2
  <1>. QED BY <1>2, <1>3, <1>4, <1>5

(* A send falls back only untouched; what was shown is returned.             *)
LEMMA TurnActions ==
    Turn!TurnInv /\ [Next]_vars =>
        /\ [mtPc = "stream" /\ mtPc' = "plain" => ~emitted /\ ~ran /\ toolRounds = 0]_Turn!vars
        /\ [(mtPc # "idle" /\ mtPc' = "idle") =>
               /\ shown => reply' \in {mtTurn, Turn!Error}
               /\ reply' \in 1..(mtTurn - 1) => \A i \in DOMAIN hist : hist[i].turn # mtTurn]_Turn!vars
  <1>. SUFFICES ASSUME Turn!TurnInv, [Next]_vars
       PROVE  /\ (mtPc = "stream" /\ mtPc' = "plain" => ~emitted /\ ~ran /\ toolRounds = 0) \/ UNCHANGED Turn!vars
              /\ ((mtPc # "idle" /\ mtPc' = "idle") =>
                    /\ shown => reply' \in {mtTurn, Turn!Error}
                    /\ reply' \in 1..(mtTurn - 1) => \A i \in DOMAIN hist : hist[i].turn # mtTurn) \/ UNCHANGED Turn!vars
    OBVIOUS
  <1>1. CASE UNCHANGED modelTurn
    BY <1>1 DEF modelTurn, Turn!vars
  <1>2. CASE Turn!Next
    <2>1. ASSUME mtPc = "stream", mtPc' = "plain" PROVE ~emitted /\ ~ran /\ toolRounds = 0
      <3>1. \E u, p \in BOOLEAN : Turn!StreamFails(u, p)
        BY <1>2, <2>1 DEF Turn!Next, Turn!Step, Turn!StreamRound, Turn!RunTools, Turn!PlainAnswers, Turn!UnknownTool,
           Turn!StaleFile, Turn!Finish, Turn!Fails, Turn!Begin, Turn!End, Turn!Sent
      <3>. QED BY <2>1, <3>1 DEF Turn!StreamFails, Turn!End, Turn!TurnInv, Turn!SendInv
    <2>2. ASSUME mtPc # "idle", mtPc' = "idle"
          PROVE  /\ shown => reply' \in {mtTurn, Turn!Error}
                 /\ reply' \in 1..(mtTurn - 1) => \A i \in DOMAIN hist : hist[i].turn # mtTurn
      <3>0. mtTurn \in 0..TurnConf.MaxTurns /\ TurnConf.MaxTurns \in Nat
        BY TurnAssumption DEF Turn!TurnInv, Turn!SendInv
      <3>1. \/ Turn!End(Turn!Error) \/ Turn!Finish
        BY <1>2, <2>2 DEF Turn!Next, Turn!Step, Turn!StreamRound, Turn!RunTools, Turn!PlainAnswers, Turn!UnknownTool,
           Turn!StaleFile, Turn!Fails, Turn!Begin, Turn!StreamFails, Turn!Sent, Turn!Send
      <3>2. CASE Turn!End(Turn!Error)
        BY <3>0, <3>2 DEF Turn!End, Turn!Error
      <3>3. CASE Turn!Finish
        <4>1. CASE mtText
          <5>1. reply' = mtTurn
            BY <3>3, <4>1 DEF Turn!Finish, Turn!End
          <5>. QED BY <3>0, <5>1
        <4>2. CASE ~mtText /\ Turn!LatestText # Turn!NoReply
          <5>1. reply' = Turn!LatestText /\ ~shown
            BY <3>3, <4>2 DEF Turn!Finish, Turn!End, Turn!TurnInv, Turn!SendInv
          <5>2. reply' = hist[Len(hist)].turn /\ Turn!InTurns(hist, mtTurn) /\ hist \in Seq(Turn!Entries)
            BY <4>2, <5>1, LatestIsLast DEF Turn!TurnInv, Turn!HistoryInv
          <5>3. \A i \in DOMAIN hist : hist[i].turn \in Nat /\ hist[i].turn <= reply'
            <6>1. \A i \in DOMAIN hist : hist[i] \in Turn!Entries
              BY <5>2
            <6>. QED BY <5>2, <6>1, EntryFacts DEF Turn!InTurns
          <5>. QED BY <3>0, <5>1, <5>3
        <4>3. CASE ~mtText /\ Turn!LatestText = Turn!NoReply
          <5>1. reply' = Turn!Fallback /\ ~shown
            BY <2>2, <3>3, <4>3 DEF Turn!Finish, Turn!End, Turn!Send, Turn!TurnInv, Turn!SendInv
          <5>. QED BY <3>0, <5>1 DEF Turn!Fallback
        <4>. QED BY <3>3, <4>1, <4>2, <4>3 DEF Turn!TurnInv, Turn!SendInv
      <3>. QED BY <3>1, <3>2, <3>3
    <2>. QED BY <2>1, <2>2
  <1>. QED BY <1>1, <1>2 DEF Next, vars

(* A streamed send falls back to a plain one only untouched; a turn that has *)
(* shown text returns its own or the error, and an older turn's only if      *)
(* nothing of it was recorded; and results of tools follow their calls in    *)
(* the curated history if google-genai recorded these: for any number of     *)
(* turns, rounds, nudges and names, and whichever answers are left out       *)
(* (_send_chat_message, _recover_from_unknown_tool_call, send_message).      *)
THEOREM TurnsStayConsistent == Spec => TurnIsConsistent
  <1>1. Turn!TurnInv => Turn!ResultsFollowCalls
    BY DEF Turn!TurnInv, Turn!HistoryInv
  <1>. QED BY <1>1, TurnStarts, TurnSteps, TurnActions, PTL
    DEF Spec, TurnIsConsistent, Turn!FallsBackUntouched, Turn!ShownIsReturned
-----------------------------------------------------------------------------
(* The assembly of streamed chunks: until the stream ends its shape is known *)
(* chunk by chunk, and what ends it adds a chunk or two.                     *)
StreamPart == [kind : {"text", "call"}, n : Nat, fragments : Nat]
StreamChunk == [parts : Seq(StreamPart), final : BOOLEAN]
StreamTool == [fragments : Nat, stopped : BOOLEAN]
StreamCall == [call : Nat, fragments : Nat]

(* The calls of the upstream, once each.                                     *)
GoodCalls(c) ==
    /\ c \in Seq(StreamPart)
    /\ \A i \in 1..Len(c) : /\ c[i].kind = "call" /\ c[i].n \in 1..Len(tools)
                            /\ c[i].fragments = tools[c[i].n].fragments
    /\ \A i, j \in 1..Len(c) : c[i].n = c[j].n => i = j
AllCalls(c) == \A t \in 1..Len(tools) : \E i \in 1..Len(c) : c[i].n = t

LEMMA StreamConstants == StreamConf.MaxTools \in Nat /\ Stream!Tools = 1..StreamConf.MaxTools
  BY StreamAssumption DEF Stream!Tools

LEMMA StreamCardinality == \A S : Stream!Cardinality(S) = Cardinality(S)
  BY DEF Stream!Cardinality, Cardinality

LEMMA StreamParts ==
    /\ \A d \in Nat : /\ Stream!Text(d) \in StreamPart /\ Stream!Text(d).kind = "text" /\ Stream!Text(d).n = d
    /\ \A t, f \in Nat : /\ Stream!Call(t, f) \in StreamPart /\ Stream!Call(t, f).kind = "call"
                         /\ Stream!Call(t, f).n = t /\ Stream!Call(t, f).fragments = f
    /\ \A s \in Seq(StreamPart), f \in BOOLEAN :
          /\ Stream!Chunk(s, f) \in StreamChunk
          /\ Stream!Chunk(s, f).parts = s /\ Stream!Chunk(s, f).final = f
  BY DEF Stream!Text, Stream!Call, Stream!Chunk, StreamPart, StreamChunk

LEMMA AssembledTypes == Stream!Assembled <=>
    /\ texts \in Nat /\ psPending \in Nat
    /\ tools \in Seq(StreamTool) /\ Len(tools) <= StreamConf.MaxTools
    /\ buckets \in [Stream!Tools -> Nat] /\ calls \in Seq(StreamCall) /\ psChunks \in Seq(StreamChunk)
  BY DEF Stream!Assembled, StreamTool, StreamCall, StreamChunk, StreamPart

LEMMA StreamElements ==
    /\ \A t \in StreamTool : t.fragments \in Nat /\ t.stopped \in BOOLEAN
    /\ \A c \in StreamCall : c.call \in Nat /\ c.fragments \in Nat
    /\ \A p \in StreamPart : p.kind \in {"text", "call"} /\ p.n \in Nat /\ p.fragments \in Nat
    /\ \A h \in StreamChunk : h.parts \in Seq(StreamPart) /\ h.final \in BOOLEAN
  BY DEF StreamTool, StreamCall, StreamChunk, StreamPart

(* What the three properties say of a stream whose chunks are its deltas,    *)
(* the latest of them held back.                                             *)
LEMMA DelayedIsValid ==
    ASSUME Stream!Assembled, Stream!Delayed, over # "finished"
    PROVE  Stream!ChunksAreValid /\ Stream!TextIsWhole /\ Stream!CallsAreWhole
  <1>. USE AssembledTypes, StreamElements DEF Stream!Delayed
  <1>1. \A n \in 1..Len(psChunks) :
          /\ psChunks[n].parts = <<Stream!Text(n)>> /\ psChunks[n].final = FALSE
          /\ psChunks[n].parts[1].kind = "text" /\ psChunks[n].parts[1].n = n
    <2>. SUFFICES ASSUME NEW n \in 1..Len(psChunks)
                  PROVE  /\ psChunks[n].parts = <<Stream!Text(n)>> /\ psChunks[n].final = FALSE
                         /\ psChunks[n].parts[1].kind = "text" /\ psChunks[n].parts[1].n = n
      OBVIOUS
    <2>1. psChunks[n] = Stream!Chunk(<<Stream!Text(n)>>, FALSE)
      OBVIOUS
    <2>2. psChunks[n].parts = <<Stream!Text(n)>> /\ psChunks[n].final = FALSE
      BY <2>1 DEF Stream!Chunk
    <2>. QED BY <2>2, StreamParts
  <1>2. \A p : p \in Stream!Places <=> \E n \in 1..Len(psChunks) : p = <<n, 1>>
    BY <1>1 DEF Stream!Places
  <1>3. \A n \in 1..Len(psChunks) : Stream!At(<<n, 1>>).kind = "text" /\ Stream!At(<<n, 1>>).n = n
    BY <1>1 DEF Stream!At
  <1>4. Stream!CallPlaces = {} /\ Stream!TextPlaces = Stream!Places
    BY <1>2, <1>3 DEF Stream!CallPlaces, Stream!TextPlaces
  <1>5. Stream!ChunksAreValid
    BY <1>1 DEF Stream!ChunksAreValid
  <1>6. Stream!TextIsWhole
    <2>1. \A p, q \in Stream!TextPlaces : Stream!Before(p, q) => Stream!At(p).n < Stream!At(q).n
      BY <1>2, <1>3, <1>4 DEF Stream!Before
    <2>2. {Stream!At(p).n : p \in Stream!TextPlaces} = 1..Len(psChunks)
      <3>1. ASSUME NEW n \in 1..Len(psChunks) PROVE \E p \in Stream!TextPlaces : n = Stream!At(p).n
        BY <1>2, <1>3, <1>4
      <3>2. ASSUME NEW p \in Stream!TextPlaces PROVE Stream!At(p).n \in 1..Len(psChunks)
        BY <1>2, <1>3, <1>4
      <3>. QED BY <3>1, <3>2
    <2>3. 1..Len(psChunks) = (1..texts) \ {psPending}
      OBVIOUS
    <2>. QED BY <2>1, <2>2, <2>3 DEF Stream!TextIsWhole
  <1>7. Stream!CallsAreWhole
    BY <1>4 DEF Stream!CallsAreWhole
  <1>. QED BY <1>5, <1>6, <1>7

(* The calls that are sent at the end.                                       *)
LEMMA CollectedCalls ==
    ASSUME Stream!Assembled, Stream!Gathered, upstream \in {"anthropic", "openai"}
    PROVE  /\ GoodCalls(Stream!Collected)
           /\ (\A t \in 1..Len(tools) : tools[t].stopped) \/ upstream = "openai" => AllCalls(Stream!Collected)
  <1>t. /\ tools \in Seq(StreamTool) /\ Len(tools) \in Nat /\ Len(tools) <= StreamConf.MaxTools
        /\ calls \in Seq(StreamCall) /\ Len(calls) \in Nat /\ buckets \in [Stream!Tools -> Nat]
    BY AssembledTypes
  <1>e. /\ \A t \in 1..Len(tools) : /\ tools[t].fragments \in Nat /\ tools[t].stopped \in BOOLEAN
                                    /\ t \in Stream!Tools /\ t \in Nat
        /\ \A i \in 1..Len(calls) : calls[i].call \in Nat /\ calls[i].fragments \in Nat
    BY <1>t, StreamConstants, StreamElements
  <1>1. CASE upstream = "anthropic"
    <2>1. Stream!Collected = [i \in 1..Len(calls) |-> Stream!Call(calls[i].call, calls[i].fragments)]
      BY <1>1 DEF Stream!Collected
    <2>2. \A i \in 1..Len(calls) :
            LET c == Stream!Call(calls[i].call, calls[i].fragments) IN
            c \in StreamPart /\ c.kind = "call" /\ c.n = calls[i].call /\ c.fragments = calls[i].fragments
      BY <1>e, StreamParts
    <2>3. Stream!Collected \in Seq(StreamPart) /\ Len(Stream!Collected) = Len(calls)
      BY <1>t, <2>1, <2>2
    <2>. DEFINE c == Stream!Collected
    <2>4. \A i \in 1..Len(calls) : c[i].kind = "call" /\ c[i].n = calls[i].call /\ c[i].fragments = calls[i].fragments
      BY <2>1, <2>2
    <2>c. c \in Seq(StreamPart) /\ Len(c) = Len(calls)
      BY <2>3
    <2>. HIDE DEF c
    <2>5. GoodCalls(c)
      <3>1. \A i \in 1..Len(calls) : /\ c[i].n \in 1..Len(tools)
                                      /\ c[i].fragments = tools[c[i].n].fragments
        BY <1>t, <2>4 DEF Stream!Gathered
      <3>2. \A i, j \in 1..Len(calls) : c[i].n = c[j].n => i = j
        BY <1>t, <2>4 DEF Stream!Gathered
      <3>. QED BY <2>c, <2>4, <3>1, <3>2 DEF GoodCalls
    <2>6. (\A t \in 1..Len(tools) : tools[t].stopped) => AllCalls(c)
      BY <1>1, <1>t, <2>c, <2>4 DEF AllCalls, Stream!Gathered
    <2>. QED BY <1>1, <2>5, <2>6 DEF c
  <1>2. CASE upstream # "anthropic"
    <2>. DEFINE s == Stream!Sorted(Stream!Open)
                k == Len(tools)
    <2>k. k \in Nat
      BY <1>t
    <2>0. \A t \in 1..k : tools[t].fragments \in Nat \ {0} /\ t \in Stream!Tools
      BY <1>e DEF Stream!Gathered
    <2>1. Stream!Open = 1..k /\ \A t \in 1..k : buckets[t] = tools[t].fragments
      <3>1. \A t \in Stream!Tools : buckets[t] = IF t <= k THEN tools[t].fragments ELSE 0
        BY <1>2, <1>t DEF Stream!Gathered
      <3>2. \A t \in Stream!Tools : t <= k <=> t \in 1..k
        BY <2>k, StreamConstants
      <3>. HIDE DEF k
      <3>. QED BY <2>0, <3>1, <3>2 DEF Stream!Open
    <2>. HIDE DEF s, k
    <2>2. Stream!Cardinality(Stream!Open) = k
      <3>1. Stream!Cardinality(1..k) = Cardinality(1..k)
        BY StreamCardinality
      <3>2. Cardinality(1..k) = k
        BY <2>k, FS_Interval
      <3>. QED BY <2>1, <3>1, <3>2
    <2>3. [i \in 1..k |-> i] \in [1..k -> 1..k] /\ {[i \in 1..k |-> i][j] : j \in 1..k} = 1..k
      OBVIOUS
    <2>4. s \in [1..k -> 1..k] /\ {s[i] : i \in 1..k} = 1..k /\ \A i, j \in 1..k : i < j => s[i] < s[j]
      <3>. DEFINE Ascends(f) == {f[i] : i \in DOMAIN f} = 1..k /\ \A i, j \in DOMAIN f : i < j => f[i] < f[j]
      <3>1. s = CHOOSE f \in [1..k -> 1..k] : Ascends(f)
        BY <2>1, <2>2 DEF Stream!Sorted, s
      <3>2. \E f \in [1..k -> 1..k] : Ascends(f)
        <4>. WITNESS [i \in 1..k |-> i] \in [1..k -> 1..k]
        <4>. QED BY <2>k, <2>3
      <3>. HIDE DEF Ascends
      <3>3. s \in [1..k -> 1..k] /\ Ascends(s)
        BY <3>1, <3>2
      <3>. QED BY <3>3 DEF Ascends
    <2>5. Stream!Collected = [i \in 1..k |-> Stream!Call(s[i], buckets[s[i]])]
      BY <1>2, <2>2 DEF Stream!Collected, s
    <2>. DEFINE c == Stream!Collected
    <2>6. \A i \in 1..k : s[i] \in 1..k /\ s[i] \in Nat /\ buckets[s[i]] = tools[s[i]].fragments
                          /\ buckets[s[i]] \in Nat
      <3>1. \A t \in 1..k : t \in Nat /\ buckets[t] = tools[t].fragments /\ buckets[t] \in Nat
        BY <2>k, <2>0, <2>1
      <3>2. \A i \in 1..k : s[i] \in 1..k
        BY <2>4
      <3>. QED BY <3>1, <3>2
    <2>7. \A i \in 1..k : c[i] \in StreamPart /\ c[i].kind = "call" /\ c[i].n = s[i]
                          /\ c[i].fragments = tools[s[i]].fragments
      BY <2>5, <2>6, StreamParts
    <2>8. c \in Seq(StreamPart) /\ Len(c) = k
      <3>1. c = [i \in 1..k |-> c[i]]
        BY <2>5
      <3>2. \A i \in 1..k : c[i] \in StreamPart
        BY <2>7
      <3>. HIDE DEF c
      <3>. QED BY <2>k, <3>1, <3>2
    <2>. HIDE DEF c
    <2>9. \A i, j \in 1..k : s[i] = s[j] => i = j
      <3>. SUFFICES ASSUME NEW i \in 1..k, NEW j \in 1..k, i < j PROVE s[i] # s[j]
        BY <2>k
      <3>. QED BY <2>k, <2>4, <2>6
    <2>10. \A t \in 1..k : \E i \in 1..k : s[i] = t
      BY <2>4
    <2>11. GoodCalls(c)
      BY <2>6, <2>7, <2>8, <2>9 DEF GoodCalls, k
    <2>12. AllCalls(c)
      <3>. SUFFICES ASSUME NEW t \in 1..k PROVE \E i \in 1..Len(c) : c[i].n = t
        BY DEF AllCalls, k
      <3>. QED BY <2>7, <2>8, <2>10
    <2>. QED BY <2>11, <2>12 DEF c
  <1>. QED BY <1>1, <1>2

(* What finalize makes of the chunks, when c are the calls it sends.         *)
Base == IF texts = 0 THEN psChunks ELSE Append(psChunks, Stream!Chunk(<<Stream!Text(texts)>>, FALSE))

LEMMA BaseShape ==
    ASSUME Stream!Assembled, Stream!Delayed
    PROVE  /\ Base \in Seq(StreamChunk) /\ Len(Base) = texts
           /\ \A n \in 1..texts : /\ Base[n].parts = <<Stream!Text(n)>> /\ Base[n].final = FALSE
  <1>t. psChunks \in Seq(StreamChunk) /\ Len(psChunks) \in Nat /\ texts \in Nat
    BY AssembledTypes
  <1>1. \A n \in Nat : LET h == Stream!Chunk(<<Stream!Text(n)>>, FALSE) IN
          h \in StreamChunk /\ h.parts = <<Stream!Text(n)>> /\ h.final = FALSE
    <2>. SUFFICES ASSUME NEW n \in Nat
                  PROVE  LET h == Stream!Chunk(<<Stream!Text(n)>>, FALSE) IN
                         h \in StreamChunk /\ h.parts = <<Stream!Text(n)>> /\ h.final = FALSE
      OBVIOUS
    <2>1. <<Stream!Text(n)>> \in Seq(StreamPart)
      BY StreamParts
    <2>. QED BY <2>1, StreamParts
  <1>2. CASE texts = 0
    BY <1>t, <1>2 DEF Base, Stream!Delayed
  <1>3. CASE texts # 0
    <2>. DEFINE h == Stream!Chunk(<<Stream!Text(texts)>>, FALSE)
    <2>1. Base = Append(psChunks, h) /\ h \in StreamChunk /\ Len(psChunks) = texts - 1
      BY <1>t, <1>1, <1>3 DEF Base, Stream!Delayed
    <2>2. \A n \in 1..Len(psChunks) : psChunks[n] = Stream!Chunk(<<Stream!Text(n)>>, FALSE)
      BY DEF Stream!Delayed
    <2>. HIDE DEF h
    <2>3. Base \in Seq(StreamChunk) /\ Len(Base) = texts /\ Base[texts] = h
          /\ \A n \in 1..(texts - 1) : Base[n] = psChunks[n]
      BY <1>t, <1>3, <2>1
    <2>5. \A n \in 1..texts : n \in Nat /\ (n = texts \/ n \in 1..(texts - 1))
      BY <1>t
    <2>4. \A n \in 1..texts : n \in Nat /\ Base[n] = Stream!Chunk(<<Stream!Text(n)>>, FALSE)
      BY <1>t, <2>1, <2>2, <2>3, <2>5 DEF h
    <2>. QED BY <1>1, <2>3, <2>4
  <1>. QED BY <1>2, <1>3

(* The chunks of a stream that was flushed: its deltas, followed by the      *)
(* calls, or by nothing when there are some, or by an empty text.            *)
Laid(c) ==
    IF c = <<>>
    THEN /\ Len(psChunks) = IF texts = 0 THEN 1 ELSE texts
         /\ \A n \in 1..Len(psChunks) : /\ psChunks[n].parts = <<Stream!Text(IF texts = 0 THEN 0 ELSE n)>>
                                        /\ psChunks[n].final = FALSE \/ n = Len(psChunks)
         /\ psChunks[Len(psChunks)].final = TRUE
    ELSE /\ Len(psChunks) = texts + 1
         /\ \A n \in 1..texts : psChunks[n].parts = <<Stream!Text(n)>> /\ psChunks[n].final = FALSE
         /\ psChunks[texts + 1].parts = c /\ psChunks[texts + 1].final = TRUE

Flushed ==
    /\ Stream!Assembled /\ psPending = 0 /\ over \in {"finished", "closed"}
    /\ \E c : GoodCalls(c) /\ Laid(c) /\ (over = "finished" => AllCalls(c))

LEMMA OneText ==
    \A d \in Nat : /\ DOMAIN <<Stream!Text(d)>> = {1} /\ <<Stream!Text(d)>> # <<>>
                   /\ <<Stream!Text(d)>>[1] = Stream!Text(d)
  OBVIOUS

LEMMA FlushedIsValid == Flushed => Stream!ChunksAreValid /\ Stream!TextIsWhole /\ Stream!CallsAreWhole
  <1>. SUFFICES ASSUME Flushed PROVE Stream!ChunksAreValid /\ Stream!TextIsWhole /\ Stream!CallsAreWhole
    OBVIOUS
  <1>t. /\ psChunks \in Seq(StreamChunk) /\ Len(psChunks) \in Nat /\ texts \in Nat
        /\ tools \in Seq(StreamTool) /\ Len(tools) \in Nat /\ DOMAIN tools = 1..Len(tools)
        /\ psPending = 0 /\ over \in {"finished", "closed"} /\ DOMAIN psChunks = 1..Len(psChunks)
    BY AssembledTypes DEF Flushed
  <1>c. PICK c : GoodCalls(c) /\ Laid(c) /\ (over = "finished" => AllCalls(c))
    BY DEF Flushed
  <1>l. c \in Seq(StreamPart) /\ Len(c) \in Nat
    BY <1>c DEF GoodCalls
  <1>1. CASE c = <<>>
    <2>. DEFINE d(n) == IF texts = 0 THEN 0 ELSE n
    <2>1. /\ \A n \in 1..Len(psChunks) : /\ psChunks[n].parts = <<Stream!Text(d(n))>>
                                         /\ psChunks[n].final = FALSE \/ n = Len(psChunks)
          /\ psChunks[Len(psChunks)].final = TRUE /\ Len(psChunks) = IF texts = 0 THEN 1 ELSE texts
      BY <1>c, <1>1 DEF Laid
    <2>2. /\ \A n \in 1..Len(psChunks) : d(n) \in Nat
          /\ texts = 0 => \A n \in 1..Len(psChunks) : d(n) = 0
          /\ texts # 0 => \A n \in 1..Len(psChunks) : d(n) = n
      OBVIOUS
    <2>. HIDE DEF d
    <2>d. \A n \in 1..Len(psChunks) : DOMAIN psChunks[n].parts = {1} /\ psChunks[n].parts # <<>>
                                      /\ psChunks[n].parts[1] = Stream!Text(d(n))
      BY <2>1, <2>2, OneText
    <2>3. \A p : p \in Stream!Places <=> \E n \in 1..Len(psChunks) : p = <<n, 1>>
      BY <1>t, <2>d DEF Stream!Places
    <2>4. \A n \in 1..Len(psChunks) : Stream!At(<<n, 1>>) = Stream!Text(d(n))
      BY <2>d DEF Stream!At
    <2>5. Stream!ChunksAreValid
      <3>1. Len(psChunks) \in 1..Len(psChunks)
        BY <1>t, <2>1
      <3>. QED BY <1>t, <2>1, <2>d, <3>1 DEF Stream!ChunksAreValid
    <2>6. Stream!CallPlaces = {}
      BY <2>2, <2>3, <2>4, StreamParts DEF Stream!CallPlaces
    <2>7. over = "finished" => Len(tools) = 0
      BY <1>t, <1>c, <1>1 DEF AllCalls
    <2>8. Stream!CallsAreWhole
      BY <1>t, <2>6, <2>7 DEF Stream!CallsAreWhole
    <2>9. CASE texts = 0
      <3>1. Stream!TextPlaces = {}
        BY <2>2, <2>3, <2>4, <2>9, StreamParts DEF Stream!TextPlaces
      <3>2. {Stream!At(p).n : p \in Stream!TextPlaces} = (1..texts) \ {psPending}
        BY <3>1, <2>9
      <3>. QED BY <1>t, <3>1, <3>2, <2>5, <2>8 DEF Stream!TextIsWhole
    <2>10. CASE texts # 0
      <3>1. \A n \in 1..texts : Stream!At(<<n, 1>>).kind = "text" /\ Stream!At(<<n, 1>>).n = n /\ n # 0
        <4>1. \A n \in 1..texts : d(n) = n /\ n \in Nat /\ n # 0 /\ n \in 1..Len(psChunks)
          BY <1>t, <2>1, <2>2, <2>10
        <4>2. \A n \in 1..texts : Stream!At(<<n, 1>>) = Stream!Text(n)
          BY <4>1, <2>4
        <4>3. \A n \in 1..texts : Stream!Text(n).kind = "text" /\ Stream!Text(n).n = n
          BY <4>1, StreamParts
        <4>. QED BY <4>1, <4>2, <4>3
      <3>2. \A p : p \in Stream!TextPlaces <=> \E n \in 1..texts : p = <<n, 1>>
        BY <2>1, <2>3, <3>1, <2>10 DEF Stream!TextPlaces
      <3>3. {Stream!At(p).n : p \in Stream!TextPlaces} = 1..texts
        <4>1. ASSUME NEW n \in 1..texts PROVE \E p \in Stream!TextPlaces : n = Stream!At(p).n
          BY <3>1, <3>2
        <4>2. ASSUME NEW p \in Stream!TextPlaces PROVE Stream!At(p).n \in 1..texts
          BY <3>1, <3>2
        <4>. QED BY <4>1, <4>2
      <3>4. \A p, q \in Stream!TextPlaces : Stream!Before(p, q) => Stream!At(p).n < Stream!At(q).n
        BY <3>1, <3>2 DEF Stream!Before
      <3>5. 1..texts = (1..texts) \ {psPending}
        BY <1>t
      <3>. QED BY <1>t, <3>3, <3>4, <3>5, <2>5, <2>8 DEF Stream!TextIsWhole
    <2>. QED BY <2>9, <2>10
  <1>2. CASE c # <<>>
    <2>. DEFINE k == texts + 1
    <2>1. /\ Len(psChunks) = k /\ psChunks[k].parts = c /\ psChunks[k].final = TRUE
          /\ \A n \in 1..texts : psChunks[n].parts = <<Stream!Text(n)>> /\ psChunks[n].final = FALSE
      BY <1>c, <1>2 DEF Laid
    <2>2. \A n : n \in 1..k <=> n \in 1..texts \/ n = k
      BY <1>t
    <2>3. k \in Nat /\ \A n \in 1..texts : n \in Nat /\ n < k /\ n # 0
      BY <1>t
    <2>. HIDE DEF k
    <2>4. DOMAIN c = 1..Len(c)
      BY <1>l
    <2>5. \A p : p \in Stream!Places <=> (\E n \in 1..texts : p = <<n, 1>>) \/ \E i \in 1..Len(c) : p = <<k, i>>
      <3>1. \A n \in 1..texts : DOMAIN psChunks[n].parts = {1}
        BY <2>1, <2>3, OneText
      <3>2. DOMAIN psChunks[k].parts = 1..Len(c)
        BY <2>1, <2>4
      <3>3. \A p : p \in Stream!Places <=> \E n \in 1..k : \E i \in DOMAIN psChunks[n].parts : p = <<n, i>>
        BY <1>t, <2>1 DEF Stream!Places
      <3>. QED BY <2>2, <3>1, <3>2, <3>3
    <2>6. \A n \in 1..texts : Stream!At(<<n, 1>>).kind = "text" /\ Stream!At(<<n, 1>>).n = n /\ n # 0
      BY <2>1, <2>3, OneText, StreamParts DEF Stream!At
    <2>7. \A i \in 1..Len(c) : Stream!At(<<k, i>>) = c[i] /\ c[i].kind = "call"
      BY <1>c, <2>1 DEF Stream!At, GoodCalls
    <2>8. Stream!ChunksAreValid
      <3>1. \A n \in 1..k : psChunks[n].parts # <<>> /\ (psChunks[n].final => n = k)
        BY <1>2, <2>1, <2>2, <2>3, OneText
      <3>2. psChunks # <<>> /\ DOMAIN psChunks = 1..k /\ over # "broken" /\ psChunks[Len(psChunks)].final
        BY <1>t, <2>1, <2>2, <2>3
      <3>. QED BY <2>1, <3>1, <3>2 DEF Stream!ChunksAreValid
    <2>9. \A p : p \in Stream!TextPlaces <=> \E n \in 1..texts : p = <<n, 1>>
      BY <2>5, <2>6, <2>7 DEF Stream!TextPlaces
    <2>10. \A p : p \in Stream!CallPlaces <=> \E i \in 1..Len(c) : p = <<k, i>>
      BY <2>5, <2>6, <2>7 DEF Stream!CallPlaces
    <2>11. Stream!TextIsWhole
      <3>1. {Stream!At(p).n : p \in Stream!TextPlaces} = 1..texts
        <4>1. ASSUME NEW n \in 1..texts PROVE \E p \in Stream!TextPlaces : n = Stream!At(p).n
          BY <2>6, <2>9
        <4>2. ASSUME NEW p \in Stream!TextPlaces PROVE Stream!At(p).n \in 1..texts
          BY <2>6, <2>9
        <4>. QED BY <4>1, <4>2
      <3>2. \A p, q \in Stream!TextPlaces : Stream!Before(p, q) => Stream!At(p).n < Stream!At(q).n
        BY <2>6, <2>9 DEF Stream!Before
      <3>3. 1..texts = (1..texts) \ {psPending}
        BY <1>t
      <3>. QED BY <1>t, <3>1, <3>2, <3>3 DEF Stream!TextIsWhole
    <2>12. Stream!CallsAreWhole
      <3>1. \A p, q \in Stream!CallPlaces : Stream!At(p).n = Stream!At(q).n => p = q
        BY <1>c, <2>7, <2>10 DEF GoodCalls
      <3>2. \A p \in Stream!CallPlaces :
              /\ Stream!At(p).n \in DOMAIN tools /\ Stream!At(p).fragments = tools[Stream!At(p).n].fragments
        BY <1>c, <1>t, <2>7, <2>10 DEF GoodCalls
      <3>3. over = "finished" => {Stream!At(p).n : p \in Stream!CallPlaces} = DOMAIN tools
        <4>. SUFFICES ASSUME AllCalls(c), NEW t \in DOMAIN tools
                      PROVE  \E p \in Stream!CallPlaces : t = Stream!At(p).n
          BY <1>c, <3>2
        <4>1. PICK i \in 1..Len(c) : c[i].n = t
          BY <1>t DEF AllCalls
        <4>2. <<k, i>> \in Stream!CallPlaces /\ Stream!At(<<k, i>>).n = t
          BY <4>1, <2>7, <2>10
        <4>. QED BY <4>2
      <3>. QED BY <3>1, <3>2, <3>3 DEF Stream!CallsAreWhole
    <2>. QED BY <2>8, <2>11, <2>12
  <1>. QED BY <1>1, <1>2

(* What the end of a stream leaves.                                          *)
LEMMA FlushLeaves ==
    ASSUME Stream!Assembled, Stream!Delayed, Stream!Gathered, upstream \in {"anthropic", "openai"}, Stream!Finalize,
           UNCHANGED <<upstream, texts, tools>>, over' \in {"finished", "closed"},
           over' = "finished" => \A t \in 1..Len(tools) : tools[t].stopped
    PROVE  Flushed'
  <1>c. PICK c : c = Stream!Collected
    OBVIOUS
  <1>t. /\ psChunks \in Seq(StreamChunk) /\ Len(psChunks) \in Nat /\ texts \in Nat
        /\ tools \in Seq(StreamTool) /\ Len(tools) \in Nat /\ psPending = texts
        /\ buckets \in [Stream!Tools -> Nat] /\ Len(tools) <= StreamConf.MaxTools
    BY AssembledTypes DEF Stream!Delayed
  <1>1. GoodCalls(c) /\ (over' = "finished" => AllCalls(c))
    BY <1>c, CollectedCalls
  <1>2. c \in Seq(StreamPart)
    BY <1>1 DEF GoodCalls
  <1>3. psChunks' = IF c = <<>> THEN Append(psChunks, Stream!Chunk(<<Stream!Text(texts)>>, TRUE))
                    ELSE Append(Base, Stream!Chunk(c, TRUE))
    BY <1>t, <1>c DEF Stream!Finalize, Base
  <1>4. /\ Base \in Seq(StreamChunk) /\ Len(Base) = texts
        /\ \A n \in 1..texts : Base[n].parts = <<Stream!Text(n)>> /\ Base[n].final = FALSE
    BY BaseShape
  <1>5. psChunks' \in Seq(StreamChunk) /\ Laid(c)'
    <2>1. CASE c = <<>>
      <3>. DEFINE h == Stream!Chunk(<<Stream!Text(texts)>>, TRUE)
                  k == Len(psChunks) + 1
      <3>1. h \in StreamChunk /\ h.parts = <<Stream!Text(texts)>> /\ h.final = TRUE
        <4>1. <<Stream!Text(texts)>> \in Seq(StreamPart)
          BY <1>t, StreamParts
        <4>. QED BY <4>1, StreamParts
      <3>2. \A n \in 1..Len(psChunks) : psChunks[n].parts = <<Stream!Text(n)>> /\ psChunks[n].final = FALSE
        <4>. SUFFICES ASSUME NEW n \in 1..Len(psChunks)
                      PROVE  psChunks[n].parts = <<Stream!Text(n)>> /\ psChunks[n].final = FALSE
          OBVIOUS
        <4>1. psChunks[n] = Stream!Chunk(<<Stream!Text(n)>>, FALSE)
          BY DEF Stream!Delayed
        <4>. QED BY <4>1 DEF Stream!Chunk
      <3>3. Len(psChunks) = IF texts = 0 THEN 0 ELSE texts - 1
        BY DEF Stream!Delayed
      <3>4. psChunks' = Append(psChunks, h)
        BY <1>3, <2>1
      <3>. HIDE DEF h
      <3>5. /\ psChunks' \in Seq(StreamChunk) /\ Len(psChunks') = k /\ psChunks'[k] = h
            /\ \A n \in 1..Len(psChunks) : psChunks'[n] = psChunks[n]
        BY <1>t, <3>1, <3>4
      <3>6. k = IF texts = 0 THEN 1 ELSE texts
        BY <1>t, <3>3
      <3>7. \A n \in 1..k : \/ n = k /\ texts = (IF texts = 0 THEN 0 ELSE n)
                            \/ n \in 1..Len(psChunks) /\ n = (IF texts = 0 THEN 0 ELSE n)
        BY <1>t, <3>3
      <3>. HIDE DEF k
      <3>8. \A n \in 1..k : /\ psChunks'[n].parts = <<Stream!Text(IF texts = 0 THEN 0 ELSE n)>>
                            /\ psChunks'[n].final = FALSE \/ n = k
        BY <3>1, <3>2, <3>5, <3>7
      <3>9. texts' = texts
        OBVIOUS
      <3>. QED BY <2>1, <3>1, <3>5, <3>6, <3>8, <3>9 DEF Laid
    <2>2. CASE c # <<>>
      <3>. DEFINE h == Stream!Chunk(c, TRUE)
      <3>1. h \in StreamChunk /\ h.parts = c /\ h.final = TRUE
        BY <1>2, StreamParts
      <3>2. psChunks' = Append(Base, h)
        BY <1>3, <2>2
      <3>. HIDE DEF h
      <3>3. /\ psChunks' \in Seq(StreamChunk) /\ Len(psChunks') = texts + 1 /\ psChunks'[texts + 1] = h
            /\ \A n \in 1..texts : psChunks'[n] = Base[n]
        BY <1>4, <1>t, <3>1, <3>2
      <3>4. texts' = texts
        OBVIOUS
      <3>. QED BY <2>2, <1>4, <3>1, <3>3, <3>4 DEF Laid
    <2>. QED BY <2>1, <2>2
  <1>6. Stream!Assembled'
    <2>1. buckets' \in [Stream!Tools -> Nat] /\ psPending' = 0 /\ calls' = <<>>
      BY <1>t DEF Stream!Finalize
    <2>2. calls' \in Seq(StreamCall)
      BY <2>1
    <2>3. /\ texts' \in Nat /\ psPending' \in Nat /\ tools' \in Seq(StreamTool) /\ Len(tools') <= StreamConf.MaxTools
          /\ buckets' \in [Stream!Tools -> Nat]
      BY <1>t, <2>1
    <2>. QED BY <1>5, <2>2, <2>3, AssembledTypes, StreamConstants
         DEF Stream!Assembled, StreamTool, StreamCall, StreamChunk, StreamPart
  <1>7. GoodCalls(c)' /\ (over' = "finished" => AllCalls(c)')
    BY <1>1 DEF GoodCalls, AllCalls
  <1>8. psPending' = 0
    BY DEF Stream!Finalize
  <1>. QED BY <1>5, <1>6, <1>7, <1>8 DEF Flushed

-----------------------------------------------------------------------------
StreamInvariant == Stream!StreamInv /\ upstream \in {"anthropic", "openai"}

LEMMA StreamStarts == Init => StreamInvariant
  <1>. SUFFICES ASSUME Stream!Init PROVE StreamInvariant
    BY DEF Init
  <1>. USE DEF Stream!Init
  <1>1. Stream!Assembled
    <2>1. texts \in Nat /\ psPending \in Nat /\ Len(tools) <= StreamConf.MaxTools /\ buckets \in [Stream!Tools -> Nat]
      BY StreamConstants
    <2>2. tools \in Seq(StreamTool) /\ calls \in Seq(StreamCall) /\ psChunks \in Seq(StreamChunk)
      OBVIOUS
    <2>. QED BY <2>1, <2>2, AssembledTypes
  <1>2. Stream!Delayed /\ Stream!Gathered
    BY StreamConstants DEF Stream!Delayed, Stream!Gathered
  <1>. QED BY <1>1, <1>2, DelayedIsValid DEF StreamInvariant, Stream!StreamInv

(* A step that leaves the stream open keeps the shape of its chunks.         *)
LEMMA OpenStreamIsValid ==
    (Stream!Assembled /\ Stream!Delayed /\ over # "finished"
       => Stream!ChunksAreValid /\ Stream!TextIsWhole /\ Stream!CallsAreWhole)'
  BY DelayedIsValid, PTL

LEMMA FlushedStaysValid == (Flushed => Stream!ChunksAreValid /\ Stream!TextIsWhole /\ Stream!CallsAreWhole)'
  BY FlushedIsValid, PTL

LEMMA TextDeltaStep ==
    ASSUME Stream!Assembled, Stream!Delayed, Stream!Gathered, Stream!TextDelta
    PROVE  (Stream!Assembled /\ Stream!Delayed /\ Stream!Gathered)'
  <1>t. /\ psChunks \in Seq(StreamChunk) /\ Len(psChunks) \in Nat /\ texts \in Nat /\ psPending = texts
        /\ tools \in Seq(StreamTool) /\ Len(tools) <= StreamConf.MaxTools
        /\ buckets \in [Stream!Tools -> Nat] /\ calls \in Seq(StreamCall)
    BY AssembledTypes DEF Stream!Delayed
  <1>n. /\ texts' = texts + 1 /\ psPending' = texts + 1 /\ psChunks' = Base
        /\ UNCHANGED <<upstream, tools, buckets, calls, over>>
    BY <1>t DEF Stream!TextDelta, Base
  <1>1. Base \in Seq(StreamChunk) /\ Len(Base) = texts
    BY BaseShape
  <1>2. \A n \in 1..texts : Base[n] = Stream!Chunk(<<Stream!Text(n)>>, FALSE)
    <2>1. \A n \in 1..texts : Base[n] \in StreamChunk
      BY <1>1
    <2>2. \A h \in StreamChunk : h = Stream!Chunk(h.parts, h.final)
      BY DEF StreamChunk, Stream!Chunk
    <2>. QED BY <2>1, <2>2, BaseShape
  <1>3. Stream!Assembled'
    <2>1. /\ texts' \in Nat /\ psPending' \in Nat /\ tools' \in Seq(StreamTool) /\ Len(tools') <= StreamConf.MaxTools
          /\ buckets' \in [Stream!Tools -> Nat] /\ calls' \in Seq(StreamCall) /\ psChunks' \in Seq(StreamChunk)
      BY <1>t, <1>n, <1>1
    <2>. QED BY <2>1 DEF Stream!Assembled, StreamTool, StreamCall, StreamChunk, StreamPart, Stream!Tools
  <1>4. Stream!Delayed'
    BY <1>t, <1>n, <1>1, <1>2 DEF Stream!Delayed, Stream!Chunk, Stream!Text
  <1>5. Stream!Gathered'
    BY <1>n DEF Stream!Gathered, Stream!Tools
  <1>. QED BY <1>3, <1>4, <1>5

(* The steps of a call leave the texts alone.                                *)
LEMMA CallStep ==
    ASSUME Stream!Assembled, Stream!Delayed, UNCHANGED <<texts, psPending, psChunks>>,
           tools' \in Seq(StreamTool), Len(tools') <= StreamConf.MaxTools,
           buckets' \in [Stream!Tools -> Nat], calls' \in Seq(StreamCall)
    PROVE  (Stream!Assembled /\ Stream!Delayed)'
  <1>1. Stream!Assembled'
    <2>1. texts' \in Nat /\ psPending' \in Nat /\ psChunks' \in Seq(StreamChunk)
      BY AssembledTypes
    <2>. QED BY <2>1 DEF Stream!Assembled, StreamTool, StreamCall, StreamChunk, StreamPart, Stream!Tools
  <1>2. Stream!Delayed'
    BY DEF Stream!Delayed, Stream!Chunk, Stream!Text
  <1>. QED BY <1>1, <1>2

LEMMA ToolStartStep ==
    ASSUME Stream!Assembled, Stream!Gathered, Stream!ToolStart
    PROVE  /\ tools' \in Seq(StreamTool) /\ Len(tools') <= StreamConf.MaxTools
           /\ buckets' \in [Stream!Tools -> Nat] /\ calls' \in Seq(StreamCall) /\ Stream!Gathered'
  <1>. DEFINE e == [fragments |-> 1, stopped |-> FALSE]
              k == Len(tools) + 1
  <1>t. /\ tools \in Seq(StreamTool) /\ Len(tools) \in Nat /\ k \in Stream!Tools /\ k \in Nat
        /\ buckets \in [Stream!Tools -> Nat] /\ calls \in Seq(StreamCall) /\ Len(calls) \in Nat
        /\ \A t \in Stream!Tools : t \in Nat
    BY AssembledTypes, StreamConstants DEF Stream!ToolStart
  <1>1. e \in StreamTool /\ e.fragments = 1 /\ e.stopped = FALSE
    BY DEF StreamTool
  <1>2. /\ tools' = Append(tools, e) /\ buckets' = [buckets EXCEPT ![k] = 1] /\ k <= StreamConf.MaxTools
        /\ UNCHANGED <<upstream, calls>>
    BY <1>t, StreamConstants DEF Stream!ToolStart
  <1>. HIDE DEF e
  <1>3. tools' \in Seq(StreamTool) /\ Len(tools') = k /\ tools'[k] = e /\ \A t \in 1..Len(tools) : tools'[t] = tools[t]
    BY <1>t, <1>1, <1>2
  <1>4. \A t \in Nat : t \in 1..k <=> t \in 1..Len(tools) \/ t = k
    BY <1>t
  <1>5. buckets' \in [Stream!Tools -> Nat] /\ buckets'[k] = 1 /\ \A t \in Stream!Tools : t # k => buckets'[t] = buckets[t]
    BY <1>t, <1>2
  <1>6. \A t \in 1..Len(tools') : tools'[t].fragments > 0
    BY <1>1, <1>3, <1>4, <1>t DEF Stream!Gathered
  <1>7. \A t \in Stream!Tools :
          buckets'[t] = IF t <= Len(tools') /\ ~(upstream = "anthropic" /\ tools'[t].stopped)
                        THEN tools'[t].fragments ELSE 0
    <2>. SUFFICES ASSUME NEW t \in Stream!Tools
                  PROVE  buckets'[t] = IF t <= k /\ ~(upstream = "anthropic" /\ tools'[t].stopped)
                                       THEN tools'[t].fragments ELSE 0
      BY <1>3
    <2>1. CASE t = k
      BY <2>1, <1>t, <1>1, <1>3, <1>5
    <2>2. CASE t # k
      <3>1. t <= k <=> t <= Len(tools)
        BY <2>2, <1>t
      <3>2. t <= Len(tools) => tools'[t] = tools[t]
        BY <1>t, <1>3, StreamConstants
      <3>. QED BY <2>2, <3>1, <3>2, <1>5 DEF Stream!Gathered
    <2>. QED BY <2>1, <2>2
  <1>8. \A i \in 1..Len(calls) : LET t == calls[i].call IN
          t \in 1..Len(tools') /\ tools'[t].stopped /\ calls[i].fragments = tools'[t].fragments
    BY <1>3, <1>4, <1>t DEF Stream!Gathered
  <1>9. upstream = "anthropic" =>
          \A t \in 1..Len(tools') : tools'[t].stopped => \E i \in 1..Len(calls) : calls[i].call = t
    BY <1>1, <1>3, <1>4, <1>t DEF Stream!Gathered
  <1>10. Stream!Gathered'
    BY <1>2, <1>6, <1>7, <1>8, <1>9 DEF Stream!Gathered, Stream!Tools
  <1>. QED BY <1>t, <1>2, <1>3, <1>5, <1>10

LEMMA ToolDeltaStep ==
    ASSUME Stream!Assembled, Stream!Gathered, NEW x \in Stream!Tools, Stream!ToolDelta(x)
    PROVE  /\ tools' \in Seq(StreamTool) /\ Len(tools') <= StreamConf.MaxTools
           /\ buckets' \in [Stream!Tools -> Nat] /\ calls' \in Seq(StreamCall) /\ Stream!Gathered'
  <1>. DEFINE e == [tools[x] EXCEPT !.fragments = @ + 1]
  <1>t. /\ tools \in Seq(StreamTool) /\ Len(tools) \in Nat /\ Len(tools) <= StreamConf.MaxTools
        /\ buckets \in [Stream!Tools -> Nat] /\ calls \in Seq(StreamCall)
        /\ x \in 1..Len(tools) /\ tools[x] \in StreamTool /\ ~tools[x].stopped
    BY AssembledTypes, StreamConstants DEF Stream!ToolDelta
  <1>1. e \in StreamTool /\ e.fragments = tools[x].fragments + 1 /\ e.stopped = tools[x].stopped
        /\ tools[x].fragments \in Nat
    <2>1. tools[x].fragments \in Nat /\ tools[x].fragments + 1 \in Nat
      BY <1>t, StreamElements
    <2>2. \A s \in StreamTool, f \in Nat : LET d == [s EXCEPT !.fragments = f] IN
            d \in StreamTool /\ d.fragments = f /\ d.stopped = s.stopped
      BY DEF StreamTool
    <2>. QED BY <1>t, <2>1, <2>2
  <1>2. /\ tools' = [tools EXCEPT ![x] = e]
        /\ buckets' = [buckets EXCEPT ![x] = IF @ = 0 THEN 0 ELSE @ + 1] /\ UNCHANGED <<upstream, calls>>
    BY <1>t DEF Stream!ToolDelta
  <1>. HIDE DEF e
  <1>3. /\ tools' \in Seq(StreamTool) /\ Len(tools') = Len(tools) /\ tools'[x] = e
        /\ \A t \in 1..Len(tools) : t # x => tools'[t] = tools[t]
    BY <1>t, <1>1, <1>2
  <1>4. buckets[x] = tools[x].fragments /\ tools[x].fragments > 0
    BY <1>t, StreamConstants DEF Stream!Gathered
  <1>5. /\ buckets' \in [Stream!Tools -> Nat] /\ buckets'[x] = tools[x].fragments + 1
        /\ \A t \in Stream!Tools : t # x => buckets'[t] = buckets[t]
    BY <1>t, <1>1, <1>2, <1>4
  <1>6. \A t \in 1..Len(tools') : tools'[t].fragments > 0
    BY <1>1, <1>3, <1>t DEF Stream!Gathered
  <1>7. \A t \in Stream!Tools :
          buckets'[t] = IF t <= Len(tools') /\ ~(upstream = "anthropic" /\ tools'[t].stopped)
                        THEN tools'[t].fragments ELSE 0
    <2>. SUFFICES ASSUME NEW t \in Stream!Tools
                  PROVE  buckets'[t] = IF t <= Len(tools) /\ ~(upstream = "anthropic" /\ tools'[t].stopped)
                                       THEN tools'[t].fragments ELSE 0
      BY <1>3
    <2>1. CASE t = x
      BY <2>1, <1>t, <1>1, <1>3, <1>5
    <2>2. CASE t # x
      <3>1. t <= Len(tools) => tools'[t] = tools[t]
        BY <1>t, <1>3, <2>2, StreamConstants
      <3>. QED BY <2>2, <3>1, <1>5 DEF Stream!Gathered
    <2>. QED BY <2>1, <2>2
  <1>8. \A i \in 1..Len(calls) : LET t == calls[i].call IN
          t \in 1..Len(tools') /\ tools'[t].stopped /\ calls[i].fragments = tools'[t].fragments
    BY <1>3, <1>t DEF Stream!Gathered
  <1>9. upstream = "anthropic" =>
          \A t \in 1..Len(tools') : tools'[t].stopped => \E i \in 1..Len(calls) : calls[i].call = t
    BY <1>1, <1>3, <1>t DEF Stream!Gathered
  <1>10. Stream!Gathered'
    BY <1>2, <1>6, <1>7, <1>8, <1>9 DEF Stream!Gathered, Stream!Tools
  <1>. QED BY <1>t, <1>2, <1>3, <1>5, <1>10

LEMMA ToolStopStep ==
    ASSUME Stream!Assembled, Stream!Gathered, NEW x \in Stream!Tools, Stream!ToolStop(x)
    PROVE  /\ tools' \in Seq(StreamTool) /\ Len(tools') <= StreamConf.MaxTools
           /\ buckets' \in [Stream!Tools -> Nat] /\ calls' \in Seq(StreamCall) /\ Stream!Gathered'
  <1>. DEFINE e == [tools[x] EXCEPT !.stopped = TRUE]
              c == [call |-> x, fragments |-> buckets[x]]
  <1>t. /\ tools \in Seq(StreamTool) /\ Len(tools) \in Nat /\ Len(tools) <= StreamConf.MaxTools
        /\ buckets \in [Stream!Tools -> Nat] /\ calls \in Seq(StreamCall) /\ Len(calls) \in Nat
        /\ x \in 1..Len(tools) /\ tools[x] \in StreamTool /\ ~tools[x].stopped /\ x \in Nat
    BY AssembledTypes, StreamConstants DEF Stream!ToolStop
  <1>1. e \in StreamTool /\ e.fragments = tools[x].fragments /\ e.stopped = TRUE
    BY <1>t DEF StreamTool
  <1>2. tools' = [tools EXCEPT ![x] = e] /\ upstream' = upstream
    BY <1>t DEF Stream!ToolStop
  <1>c. c \in StreamCall /\ c.call = x /\ c.fragments = buckets[x]
    BY <1>t DEF StreamCall
  <1>. HIDE DEF e
  <1>3. /\ tools' \in Seq(StreamTool) /\ Len(tools') = Len(tools) /\ tools'[x] = e
        /\ \A t \in 1..Len(tools) : t # x => tools'[t] = tools[t]
    BY <1>t, <1>1, <1>2
  <1>4. buckets[x] = tools[x].fragments
    BY <1>t, StreamConstants DEF Stream!Gathered
  <1>6. \A t \in 1..Len(tools') : tools'[t].fragments > 0 /\ tools'[t].fragments = tools[t].fragments
    BY <1>1, <1>3, <1>t DEF Stream!Gathered
  <1>7. CASE upstream = "anthropic"
    <2>1. calls' = Append(calls, c) /\ buckets' = [buckets EXCEPT ![x] = 0]
      BY <1>7 DEF Stream!ToolStop
    <2>. HIDE DEF c
    <2>2. /\ buckets' \in [Stream!Tools -> Nat] /\ buckets'[x] = 0
          /\ \A t \in Stream!Tools : t # x => buckets'[t] = buckets[t]
      BY <1>t, <2>1
    <2>3. /\ calls' \in Seq(StreamCall) /\ Len(calls') = Len(calls) + 1 /\ calls'[Len(calls) + 1] = c
          /\ \A i \in 1..Len(calls) : calls'[i] = calls[i]
      BY <1>t, <1>c, <2>1
    <2>4. \A t \in Stream!Tools :
            buckets'[t] = IF t <= Len(tools') /\ ~(upstream = "anthropic" /\ tools'[t].stopped)
                          THEN tools'[t].fragments ELSE 0
      <3>. SUFFICES ASSUME NEW t \in Stream!Tools
                    PROVE  buckets'[t] = IF t <= Len(tools) /\ ~tools'[t].stopped THEN tools'[t].fragments ELSE 0
        BY <1>3, <1>7
      <3>1. CASE t = x
        BY <3>1, <1>t, <1>1, <1>3, <2>2
      <3>2. CASE t # x
        <4>1. t <= Len(tools) => tools'[t] = tools[t]
          BY <1>t, <1>3, <3>2, StreamConstants
        <4>. QED BY <3>2, <4>1, <2>2, <1>7 DEF Stream!Gathered
      <3>. QED BY <3>1, <3>2
    <2>5. \A i \in 1..Len(calls) : /\ calls[i].call \in 1..Len(tools) /\ tools[calls[i].call].stopped
                                   /\ calls[i].call # x /\ calls[i].fragments = tools[calls[i].call].fragments
      BY <1>t DEF Stream!Gathered
    <2>6. \A i \in 1..Len(calls') : i \in 1..Len(calls) \/ i = Len(calls) + 1
      BY <1>t, <2>3
    <2>7. \A i \in 1..Len(calls') : /\ calls'[i].call \in 1..Len(tools') /\ tools'[calls'[i].call].stopped
                                    /\ calls'[i].fragments = tools'[calls'[i].call].fragments
      <3>1. \A i \in 1..Len(calls) : /\ calls'[i].call \in 1..Len(tools') /\ tools'[calls'[i].call].stopped
                                     /\ calls'[i].fragments = tools'[calls'[i].call].fragments
        BY <1>3, <2>3, <2>5
      <3>2. calls'[Len(calls) + 1].call = x /\ calls'[Len(calls) + 1].fragments = tools'[x].fragments
            /\ tools'[x].stopped
        BY <1>c, <1>1, <1>3, <1>4, <2>3
      <3>. QED BY <1>t, <1>3, <2>6, <3>1, <3>2
    <2>8. \A i, j \in 1..Len(calls') : calls'[i].call = calls'[j].call => i = j
      <3>1. \A i \in 1..Len(calls) : calls'[i].call = calls[i].call /\ calls[i].call # x
        BY <2>3, <2>5
      <3>2. calls'[Len(calls) + 1].call = x
        BY <1>c, <2>3
      <3>3. \A i, j \in 1..Len(calls) : calls[i].call = calls[j].call => i = j
        BY DEF Stream!Gathered
      <3>. QED BY <2>6, <3>1, <3>2, <3>3
    <2>9. \A t \in 1..Len(tools') : tools'[t].stopped => \E i \in 1..Len(calls') : calls'[i].call = t
      <3>. SUFFICES ASSUME NEW t \in 1..Len(tools), tools'[t].stopped
                    PROVE  \E i \in 1..Len(calls') : calls'[i].call = t
        BY <1>3
      <3>1. CASE t = x
        <4>1. Len(calls) + 1 \in 1..Len(calls') /\ calls'[Len(calls) + 1].call = x
          BY <1>t, <1>c, <2>3
        <4>. QED BY <3>1, <4>1
      <3>2. CASE t # x
        <4>1. PICK i \in 1..Len(calls) : calls[i].call = t
          BY <3>2, <1>3, <1>7 DEF Stream!Gathered
        <4>2. i \in 1..Len(calls') /\ calls'[i] = calls[i]
          BY <1>t, <2>3
        <4>. QED BY <4>1, <4>2
      <3>. QED BY <3>1, <3>2
    <2>10. Stream!Gathered'
      BY <1>2, <1>6, <2>4, <2>7, <2>8, <2>9 DEF Stream!Gathered, Stream!Tools
    <2>. QED BY <1>t, <1>3, <2>2, <2>3, <2>10
  <1>8. CASE upstream # "anthropic"
    <2>1. calls' = calls /\ buckets' = buckets
      BY <1>8 DEF Stream!ToolStop
    <2>2. \A t \in Stream!Tools : buckets[t] = IF t <= Len(tools') THEN tools'[t].fragments ELSE 0
      <3>1. \A t \in Stream!Tools : t <= Len(tools) => t \in 1..Len(tools)
        BY StreamConstants, <1>t
      <3>. QED BY <1>3, <1>6, <1>8, <3>1 DEF Stream!Gathered
    <2>3. \A i \in 1..Len(calls) : LET t == calls[i].call IN
            t \in 1..Len(tools') /\ tools'[t].stopped /\ calls[i].fragments = tools'[t].fragments
      BY <1>1, <1>3, <1>6, <1>t DEF Stream!Gathered
    <2>4. \A i, j \in 1..Len(calls) : calls[i].call = calls[j].call => i = j
      BY DEF Stream!Gathered
    <2>5. Stream!Gathered'
      BY <1>2, <1>6, <1>8, <2>1, <2>2, <2>3, <2>4 DEF Stream!Gathered, Stream!Tools
    <2>. QED BY <1>t, <1>3, <2>1, <2>5
  <1>. QED BY <1>7, <1>8

LEMMA StreamSteps == StreamInvariant /\ [Next]_vars => StreamInvariant'
  <1>. SUFFICES ASSUME StreamInvariant, [Next]_vars PROVE StreamInvariant'
    OBVIOUS
  <1>. USE DEF StreamInvariant, Stream!StreamInv
  <1>1. CASE UNCHANGED proxyStream
    <2>1. UNCHANGED <<upstream, texts, tools, psPending, buckets, calls, psChunks, over>>
      BY <1>1 DEF proxyStream
    <2>2. (Stream!Assembled <=> Stream!Assembled') /\ (Stream!ChunksAreValid <=> Stream!ChunksAreValid')
      BY <2>1 DEF Stream!Assembled, Stream!Tools, Stream!ChunksAreValid
    <2>3. (Stream!Delayed <=> Stream!Delayed') /\ (Stream!Gathered <=> Stream!Gathered')
      BY <2>1 DEF Stream!Delayed, Stream!Gathered, Stream!Tools, Stream!Chunk, Stream!Text
    <2>4. Stream!TextPlaces' = Stream!TextPlaces /\ Stream!CallPlaces' = Stream!CallPlaces
      BY <2>1 DEF Stream!Places, Stream!At, Stream!TextPlaces, Stream!CallPlaces
    <2>5. (Stream!TextIsWhole <=> Stream!TextIsWhole') /\ (Stream!CallsAreWhole <=> Stream!CallsAreWhole')
      BY <2>1, <2>4 DEF Stream!TextIsWhole, Stream!CallsAreWhole, Stream!At, Stream!Before
    <2>. QED BY <2>1, <2>2, <2>3, <2>5
  <1>2. CASE Stream!Next
    <2>1. over = "no" /\ Stream!Assembled /\ Stream!Delayed /\ Stream!Gathered
      BY <1>2 DEF Stream!Next, Stream!TextDelta, Stream!ToolStart, Stream!ToolDelta, Stream!ToolStop,
         Stream!Stop, Stream!Closed, Stream!Broken
    <2>2. ASSUME (Stream!Assembled /\ Stream!Delayed /\ Stream!Gathered)', UNCHANGED <<upstream, over>>
          PROVE  StreamInvariant'
      BY <2>1, <2>2, OpenStreamIsValid
    <2>3. CASE Stream!TextDelta
      BY <2>1, <2>2, <2>3, TextDeltaStep DEF Stream!TextDelta
    <2>4. CASE Stream!ToolStart
      <3>1. UNCHANGED <<upstream, over, texts, psPending, psChunks>>
        BY <2>4 DEF Stream!ToolStart
      <3>. QED BY <2>1, <2>2, <2>4, <3>1, ToolStartStep, CallStep
    <2>5. ASSUME NEW x \in Stream!Tools, Stream!ToolDelta(x) PROVE StreamInvariant'
      <3>1. UNCHANGED <<upstream, over, texts, psPending, psChunks>>
        BY <2>5 DEF Stream!ToolDelta
      <3>. QED BY <2>1, <2>2, <2>5, <3>1, ToolDeltaStep, CallStep
    <2>6. ASSUME NEW x \in Stream!Tools, Stream!ToolStop(x) PROVE StreamInvariant'
      <3>1. UNCHANGED <<upstream, over, texts, psPending, psChunks>>
        BY <2>6 DEF Stream!ToolStop
      <3>. QED BY <2>1, <2>2, <2>6, <3>1, ToolStopStep, CallStep
    <2>7. ASSUME Flushed', upstream' = upstream PROVE StreamInvariant'
      <3>1. Stream!Assembled' /\ over' # "no"
        BY <2>7 DEF Flushed
      <3>. QED BY <2>7, <3>1, FlushedStaysValid
    <2>8. ASSUME Stream!Assembled', Stream!Delayed', over' \in {"closed", "broken"}, upstream' = upstream
          PROVE  StreamInvariant'
      BY <2>8, OpenStreamIsValid
    <2>9. CASE Stream!Stop
      <3>1. /\ Stream!Finalize /\ over' = "finished" /\ UNCHANGED <<upstream, texts, tools>>
            /\ \A t \in 1..Len(tools) : tools[t].stopped
        BY <2>1, <2>9, AssembledTypes DEF Stream!Stop
      <3>. QED BY <2>1, <2>7, <3>1, FlushLeaves
    <2>10. CASE Stream!Closed
      <3>1. over' = "closed" /\ UNCHANGED <<upstream, texts, tools>>
        BY <2>10 DEF Stream!Closed
      <3>2. CASE upstream = "openai"
        <4>1. Stream!Finalize
          BY <2>10, <3>2 DEF Stream!Closed
        <4>. QED BY <2>1, <2>7, <3>1, <4>1, FlushLeaves
      <3>3. CASE upstream # "openai"
        <4>1. UNCHANGED <<psPending, buckets, calls, psChunks>>
          BY <2>10, <3>3 DEF Stream!Closed
        <4>2. Stream!Assembled' /\ Stream!Delayed'
          BY <2>1, <3>1, <4>1 DEF Stream!Assembled, Stream!Delayed, Stream!Tools, Stream!Chunk, Stream!Text
        <4>. QED BY <2>8, <3>1, <4>2
      <3>. QED BY <3>2, <3>3
    <2>11. CASE Stream!Broken
      <3>1. over' = "broken" /\ UNCHANGED <<upstream, texts, tools, psPending, buckets, calls, psChunks>>
        BY <2>11 DEF Stream!Broken
      <3>2. Stream!Assembled' /\ Stream!Delayed'
        BY <2>1, <3>1 DEF Stream!Assembled, Stream!Delayed, Stream!Tools, Stream!Chunk, Stream!Text
      <3>. QED BY <2>8, <3>1, <3>2
    <2>. QED BY <1>2, <2>3, <2>4, <2>5, <2>6, <2>9, <2>10, <2>11 DEF Stream!Next
  <1>. QED BY <1>1, <1>2 DEF Next, vars

(* What google-genai is sent of a streamed answer is valid, and the texts    *)
(* and calls of the upstream, whole and in order, whatever comes between     *)
(* them and wherever the stream ends.                                        *)
THEOREM StreamsStayWhole == Spec => []StreamIsWhole
  <1>1. StreamInvariant => StreamIsWhole
    BY DEF StreamInvariant, Stream!StreamInv, StreamIsWhole
  <1>. QED BY <1>1, StreamStarts, StreamSteps, PTL DEF Spec
=============================================================================
