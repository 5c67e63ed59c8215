--------------------------- MODULE MCSessionHistory ---------------------------
(* Small instances of SessionHistory: two turns, of two senders or of one who *)
(* writes again before the answer, and one injected outbound turn.           *)
EXTENDS SessionHistory, TLC

CONSTANTS none, t1, t2, i1

CompressThenMemory == 0 :> "compress" @@ 1 :> "memory"
SwitchedOff == [n \in 0 .. MaxCrashes |-> "off"]
=============================================================================
