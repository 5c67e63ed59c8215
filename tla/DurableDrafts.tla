---------------------------- MODULE DurableDrafts ----------------------------
(***************************************************************************)
(* What the approval workflow promises about each draft, with no cache, no  *)
(* lock and no requests: a durable status that only moves forward, may be   *)
(* lost while it is not final, and licenses exactly one performance of the  *)
(* effect once it says so.                                                  *)
(***************************************************************************)
EXTENDS Naturals

CONSTANTS CommandDrafts, OutboundDrafts

VARIABLES
  durable,  \* [Drafts -> status]: what survives a restart
  done      \* [Drafts -> Nat]: performances of the effect so far

Drafts == CommandDrafts \cup OutboundDrafts

Unread   == {"absent", "corrupt"}
Spent    == {"used", "committed"}
Final    == Spent \cup {"denied", "discarded"}

Init == /\ durable = [d \in Drafts |-> "absent"]
        /\ done    = [d \in Drafts |-> 0]

\* A later status may reach the disk although an earlier write failed.
Forward(s) ==
  CASE s \in Unread   -> {"pending", "approved"} \cup Final
    [] s = "pending"  -> {"approved"} \cup Final
    [] s = "approved" -> {"used"}
    [] OTHER          -> {}

\* Files change (several at once when the process dies with writes under way):
\* forward, or torn while the status is not final.
Write ==
  /\ durable' \in [Drafts -> Unread \cup {"pending", "approved"} \cup Final]
  /\ \A d \in Drafts :
        \/ durable'[d] = durable[d]
        \/ durable'[d] \in Forward(durable[d])
        \/ durable'[d] = "corrupt" /\ durable[d] \notin Final
  /\ UNCHANGED done

Perform(d) ==
  /\ durable[d] \in Spent
  /\ done[d] = 0
  /\ done' = [done EXCEPT ![d] = 1]
  /\ UNCHANGED durable

Next == Write \/ \E d \in Drafts : Perform(d)

Spec == Init /\ [][Next]_<<durable, done>>
=============================================================================
