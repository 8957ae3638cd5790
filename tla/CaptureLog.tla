----------------------------- MODULE CaptureLog -----------------------------
(***************************************************************************)
(* What the capture pipeline promises about every transaction the proxy    *)
(* hands to it: a record is either refused at once (and counted), or it is *)
(* pending until it is written to the flow table or given up.  Each of the *)
(* three ends is final, and rows appear one committed batch at a time.     *)
(* Recorder.tla is shown to implement this specification.                  *)
(***************************************************************************)
CONSTANT Records            \* the transactions the proxy reports

VARIABLES pending,          \* accepted, not settled yet
          kept,             \* written to the flow table
          dropped,          \* refused by a full queue
          lost              \* accepted, but given up

vars == <<pending, kept, dropped, lost>>

Init == pending = {} /\ kept = {} /\ dropped = {} /\ lost = {}

Fresh == Records \ (pending \cup kept \cup dropped \cup lost)

Accept == \E r \in Fresh : /\ pending' = pending \cup {r}
                           /\ UNCHANGED <<kept, dropped, lost>>

Refuse == \E r \in Fresh : /\ dropped' = dropped \cup {r}
                           /\ UNCHANGED <<pending, kept, lost>>

(* One transaction of the database: the whole batch or nothing. *)
Keep == \E S \in SUBSET pending : /\ kept' = kept \cup S
                                  /\ pending' = pending \ S
                                  /\ UNCHANGED <<dropped, lost>>

GiveUp == \E S \in SUBSET pending : /\ lost' = lost \cup S
                                    /\ pending' = pending \ S
                                    /\ UNCHANGED <<kept, dropped>>

Next == Accept \/ Refuse \/ Keep \/ GiveUp

Spec == Init /\ [][Next]_vars
=============================================================================
