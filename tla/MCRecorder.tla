----------------------------- MODULE MCRecorder -----------------------------
(* Finite instances of Recorder for TLC. *)
EXTENDS Recorder

CONSTANTS r1, r2, r3, w1, w2, k1

MCRecords == {r1, r2, r3}
MCTwoRecords == {r1, r2}
MCWorkers == {w1, w2}
MCOneWorker == {w1}
MCRules == {k1}
MCBodies == {<<r1, "request">>}
MCRuleOf == [r \in Records |-> IF r = r1 THEN k1 ELSE NoRule]

AllFaults == {"db", "store", "redis"}
NoFaults == {}
=============================================================================
