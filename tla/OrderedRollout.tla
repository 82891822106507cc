--------------------------- MODULE OrderedRollout ---------------------------
(***************************************************************************)
(* What run_parallel_by_depth promises its callers: devices are operated   *)
(* on group by group, a group begins only when the ones before it are      *)
(* done, and with stop_on_failure only when they all succeeded.            *)
(***************************************************************************)
CONSTANTS
    Device,
    Before,        \* pairs <<d, e>>: the group of d comes before that of e
    StopOnFailure

VARIABLE st        \* "untouched", "busy", "ok" or "failed"

Init == st = [d \in Device |-> "untouched"]

Over == IF StopOnFailure THEN {"ok"} ELSE {"ok", "failed"}

Begin(d) ==
    /\ st[d] = "untouched"
    /\ \A e \in Device : <<e, d>> \in Before => st[e] \in Over
    /\ st' = [st EXCEPT ![d] = "busy"]

Return(d, r) ==
    /\ st[d] = "busy"
    /\ st' = [st EXCEPT ![d] = r]

Next == \E d \in Device : Begin(d) \/ \E r \in {"ok", "failed"} : Return(d, r)

Spec == Init /\ [][Next]_st
=============================================================================
