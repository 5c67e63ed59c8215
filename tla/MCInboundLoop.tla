---------------------------- MODULE MCInboundLoop ----------------------------
(* Small instances of InboundLoop.  dm is a conversation of its own; root is *)
(* a conversation whose session key is a textual prefix of thread's, as with *)
(* the Slack targets "C1" and "C1:1700.1".                                   *)
EXTENDS InboundLoop, TLC

CONSTANTS slack, cli, m1, m2, m3, ann, bob, root, thread, dm

BobSendsOne == [m \in Messages |-> IF m = m3 THEN bob ELSE ann]
AnnInThread == [k \in Keys |-> IF k = ann THEN thread ELSE dm]
DmOnCli == [s \in Sessions |-> IF s = dm THEN cli ELSE slack]

\* root covers the thread's keys as well.
TextPrefixes == [s \in Sessions |->
  IF s = root THEN {k \in Keys : SessionOf[k] \in {root, thread}}
              ELSE {k \in Keys : SessionOf[k] = s}]
=============================================================================
