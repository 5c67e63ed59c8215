----------------------------- MODULE PlanningMode -----------------------------
(***************************************************************************)
(* Planning mode and the tools it gates.  A session enters planning mode   *)
(* by the model's tool or the operator's request, and leaves it by either  *)
(* once a plan has been written under plans/active/, or with /clear.  The  *)
(* file tools write_new_file and replace_file_text pass the gate first and *)
(* then work on files all sessions share, with awaits and without a lock.  *)
(*   Callers are tool calls and control requests, each made once.  A file  *)
(* is the set of the texts in it; opening it for writing empties it.       *)
(***************************************************************************)
EXTENDS Naturals, FiniteSets

CONSTANTS
    Sessions,
    Callers,
    Calls,      \* [Callers -> [kind, session]], kind "enter", "exit" (tool or
                \* control API), "create", "replace" (of the one file)
    MaxSeconds  \* bound: seconds; a plan's file is named by session and second

VARIABLES
    planning,   \* _session_mode is PLANNING
    plan,       \* _planning_state: the caller who entered, NoCaller if absent
    now,        \* the second
    call,       \* [Callers -> [pc, seen, second]]
    artifact,   \* plan files: [Sessions \X seconds -> the exits whose plan it is]
    exists,     \* the workspace file exists
    text,       \* what is in it: the callers whose text it holds
    forbidden   \* goal.forbidden_actions of a task's session names the tools

vars == <<planning, plan, now, call, artifact, exists, text, forbidden>>

NoCaller == "none"
Kind(c) == Calls[c].kind
Session(c) == Calls[c].session
PathOf(c) == <<Session(c), call[c].second>>

TypeOK ==
    /\ planning \in [Sessions -> BOOLEAN]
    /\ plan \in [Sessions -> Callers \cup {NoCaller}]
    /\ now \in 0..MaxSeconds
    /\ call \in [Callers -> [pc : {"new", "begun", "open", "ok", "error", "broken"},
                             seen : SUBSET Callers, second : 0..MaxSeconds]]
    /\ artifact \in [Sessions \X (0..MaxSeconds) -> SUBSET Callers]
    /\ exists \in BOOLEAN /\ text \subseteq Callers /\ forbidden \subseteq Sessions

Init ==
    /\ planning = [s \in Sessions |-> FALSE] /\ plan = [s \in Sessions |-> NoCaller]
    /\ now = 0
    /\ call = [c \in Callers |-> [pc |-> "new", seen |-> {}, second |-> 0]]
    /\ artifact = [p \in Sessions \X (0..MaxSeconds) |-> {}]
    /\ exists = FALSE /\ text = {} /\ forbidden \in SUBSET Sessions

-----------------------------------------------------------------------------
To(c, pc) == call' = [call EXCEPT ![c].pc = pc]

Enter(c) ==
    LET s == Session(c) IN
    /\ Kind(c) = "enter" /\ call[c].pc = "new"
    /\ planning' = [planning EXCEPT ![s] = TRUE] /\ plan' = [plan EXCEPT ![s] = c]
    /\ To(c, "ok")
    /\ UNCHANGED <<now, artifact, exists, text, forbidden>>

(* Variant: the session goes back to normal before the plan is written.    *)
BeginExit_Early(c) ==
    LET s == Session(c) IN
    /\ Kind(c) = "exit" /\ call[c].pc = "new"
    /\ IF planning[s]
       THEN call' = [call EXCEPT ![c] = [pc |-> "begun", seen |-> {plan[s]}, second |-> now]]
       ELSE To(c, "error")
    /\ planning' = [planning EXCEPT ![s] = FALSE] /\ plan' = [plan EXCEPT ![s] = NoCaller]
    /\ UNCHANGED <<now, artifact, exists, text, forbidden>>

(* exit_planning_mode and the control request: the mode is checked and the *)
(* planning state read, then the directory is made ...                     *)
BeginExit(c) ==
    /\ Kind(c) = "exit" /\ call[c].pc = "new"
    /\ IF planning[Session(c)]
       THEN call' = [call EXCEPT ![c] = [pc |-> "begun", seen |-> {plan[Session(c)]}, second |-> now]]
       ELSE To(c, "error")
    /\ UNCHANGED <<planning, plan, now, artifact, exists, text, forbidden>>

(* ... the plan's file is opened ...                                       *)
OpenArtifact(c) ==
    /\ Kind(c) = "exit" /\ call[c].pc = "begun"
    /\ To(c, "open")
    /\ artifact' = [artifact EXCEPT ![PathOf(c)] = {}]
    /\ UNCHANGED <<planning, plan, now, exists, text, forbidden>>

(* ... and written; only then the session goes back to normal.             *)
FinishExit(c) ==
    LET s == Session(c) IN
    /\ Kind(c) = "exit" /\ call[c].pc = "open"
    /\ artifact' = [artifact EXCEPT ![PathOf(c)] = {c}]
    /\ planning' = [planning EXCEPT ![s] = FALSE] /\ plan' = [plan EXCEPT ![s] = NoCaller]
    /\ To(c, "ok")
    /\ UNCHANGED <<now, exists, text, forbidden>>

ExitFails(c) ==
    /\ Kind(c) = "exit" /\ call[c].pc \in {"begun", "open"}
    /\ To(c, "error")
    /\ UNCHANGED <<planning, plan, now, artifact, exists, text, forbidden>>

(* clear_session_mode: /clear, and the operator's clearing of a session.   *)
Clear(s) ==
    /\ planning[s]
    /\ planning' = [planning EXCEPT ![s] = FALSE] /\ plan' = [plan EXCEPT ![s] = NoCaller]
    /\ UNCHANGED <<now, call, artifact, exists, text, forbidden>>

-----------------------------------------------------------------------------
(* _enforce_planning_gate, at the start of a tool.                         *)
Denied(c) == planning[Session(c)] \/ Session(c) \in forbidden

(* Variant: the new file is opened in mode "w".                            *)
OpenNew_Overwrites(c) ==
    /\ Kind(c) = "create" /\ call[c].pc = "begun"
    /\ To(c, "open")
    /\ exists' = TRUE /\ text' = {}
    /\ UNCHANGED <<planning, plan, now, artifact, forbidden>>

(* write_new_file looks for the file, makes its directory, and opens it    *)
(* in mode "x", which fails when another call made it meanwhile.           *)
BeginCreate(c) ==
    /\ Kind(c) = "create" /\ call[c].pc = "new"
    /\ To(c, IF Denied(c) \/ exists THEN "error" ELSE "begun")
    /\ UNCHANGED <<planning, plan, now, artifact, exists, text, forbidden>>

OpenNew(c) ==
    /\ Kind(c) = "create" /\ call[c].pc = "begun"
    /\ To(c, IF exists THEN "error" ELSE "open")
    /\ exists' = TRUE
    /\ UNCHANGED <<planning, plan, now, artifact, text, forbidden>>

WriteNew(c) ==
    /\ Kind(c) = "create" /\ call[c].pc = "open"
    /\ To(c, "ok")
    /\ text' = text \cup {c}
    /\ UNCHANGED <<planning, plan, now, artifact, exists, forbidden>>

(* replace_file_text reads the file and looks for old_text in it: an empty *)
(* file is an error, and a write that broke off leaves fragments in which  *)
(* it may be found.  Then the file is opened in mode "w" and written.      *)
BeginReplace(c) ==
    /\ Kind(c) = "replace" /\ call[c].pc = "new"
    /\ \/ To(c, "error")
       \/ /\ ~Denied(c) /\ exists /\ (text # {} \/ \E d \in Callers : call[d].pc = "broken")
          /\ call' = [call EXCEPT ![c] = [pc |-> "begun", seen |-> text, second |-> now]]
    /\ UNCHANGED <<planning, plan, now, artifact, exists, text, forbidden>>

OpenForReplace(c) ==
    /\ Kind(c) = "replace" /\ call[c].pc = "begun"
    /\ To(c, "open")
    /\ text' = {}
    /\ UNCHANGED <<planning, plan, now, artifact, exists, forbidden>>

WriteReplaced(c) ==
    /\ Kind(c) = "replace" /\ call[c].pc = "open"
    /\ To(c, "ok")
    /\ text' = call[c].seen \cup {c}
    /\ UNCHANGED <<planning, plan, now, artifact, exists, forbidden>>

(* The file operation of either tool fails or its turn is cancelled: until *)
(* the file is open nothing has changed, and then it has been emptied and  *)
(* any part of the text may have been written.                             *)
FileFails(c) ==
    /\ Kind(c) \in {"create", "replace"}
    /\ \/ call[c].pc = "begun" /\ To(c, "error") /\ UNCHANGED text
       \/ call[c].pc = "open" /\ To(c, "broken") /\ text' \in SUBSET (call[c].seen \cup {c})
    /\ UNCHANGED <<planning, plan, now, artifact, exists, forbidden>>

Tick ==
    /\ now < MaxSeconds
    /\ now' = now + 1
    /\ UNCHANGED <<planning, plan, call, artifact, exists, text, forbidden>>

-----------------------------------------------------------------------------
Next ==
    \/ \E c \in Callers :
         \/ Enter(c) \/ BeginExit(c) \/ OpenArtifact(c) \/ FinishExit(c) \/ ExitFails(c)
         \/ BeginCreate(c) \/ OpenNew(c) \/ WriteNew(c)
         \/ BeginReplace(c) \/ OpenForReplace(c) \/ WriteReplaced(c)
         \/ FileFails(c)
    \/ \E s \in Sessions : Clear(s)
    \/ Tick

Spec == Init /\ [][Next]_vars

-----------------------------------------------------------------------------
(* A session leaves planning mode, other than by being cleared, only in    *)
(* the step that has put a plan of its own on disk whole: an exit that     *)
(* failed half-way, or that another one overtook, releases no tool.        *)
LeavesWithPlan ==
    [][\A s \in Sessions :
         planning[s] /\ ~planning'[s] /\ ~Clear(s) =>
            \E c \in Callers : Session(c) = s /\ c \in artifact'[PathOf(c)] /\ call'[c].pc = "ok"]_vars

(* The mode and its record come and go together, so that an exit under way *)
(* never writes a plan for no objective (the fallbacks of exit_planning_   *)
(* mode for a missing state are never used).                               *)
ExitKnowsItsPlan ==
    /\ \A s \in Sessions : planning[s] <=> plan[s] # NoCaller
    /\ \A c \in Callers : Kind(c) = "exit" => NoCaller \notin call[c].seen

(* The text of a file that write_new_file reported created stays in it,    *)
(* however creates and replacements of all sessions interleave, but for    *)
(* the time a replacement has the file open; it is lost for good only to a *)
(* replacement that had read it, opened the file for writing and broke off.*)
Lost(c) == \E r \in Callers : Kind(r) = "replace" /\ call[r].pc = "broken" /\ c \in call[r].seen
CreatedTextStays ==
    (\A c \in Callers : Kind(c) = "replace" => call[c].pc # "open") =>
        \A c \in Callers : Kind(c) = "create" /\ call[c].pc = "ok" => c \in text \/ Lost(c)

-----------------------------------------------------------------------------
(* What makes CreatedTextStays inductive: one create at most gets to open  *)
(* the file, replacements start only once its text is in, and everything   *)
(* they have read has it; the file is empty again only while one of them   *)
(* has it open; all but for a text that is lost.                           *)
Opened(c) == Kind(c) = "create" /\ call[c].pc \in {"open", "ok"}
Created(c) == Kind(c) = "create" /\ call[c].pc = "ok"
Replacing(c) == Kind(c) = "replace" /\ call[c].pc \in {"begun", "open"}

FileInv ==
    /\ ~exists => text = {} /\ \A c \in Callers : ~Opened(c) /\ ~Replacing(c) /\ call[c].pc # "broken"
    /\ \A c, d \in Callers : Opened(c) /\ Opened(d) => c = d
    /\ \A c, r \in Callers : Opened(c) /\ Replacing(r) => Created(c) /\ (c \in call[r].seen \/ Lost(c))
    /\ \A c, d \in Callers : Opened(c) /\ call[d].pc = "broken" => Created(c) /\ Lost(c)
    /\ \A c \in Callers : Opened(c) /\ ~Created(c) => text = {}
    /\ text # {} => \A c \in Callers : Created(c) => c \in text \/ Lost(c)
    /\ text = {} => \A c \in Callers : Created(c) =>
           Lost(c) \/ \E r \in Callers : Kind(r) = "replace" /\ call[r].pc = "open"
=============================================================================
