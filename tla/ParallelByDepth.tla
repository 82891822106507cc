--------------------------- MODULE ParallelByDepth ---------------------------
(***************************************************************************)
(* One call of run_parallel_by_depth or of run_parallel_by_depth_ascending *)
(* (common/parallel.py): the calling thread, the worker threads of the     *)
(* pool it opens for a group, and the operations they run on the devices.  *)
(***************************************************************************)
EXTENDS Integers, FiniteSets

CONSTANTS
    Device,
    Depth,          \* bfs_depth; 0 stands for None
    Path,           \* the devices between the laptop and a device
    Ascending,      \* which of the two functions is called
    StopOnFailure,
    MaxWorkers

ASSUME ParallelAssumption ==
    /\ Depth \in [Device -> Nat]
    /\ Path \in [Device -> SUBSET Device]
    /\ Ascending \in BOOLEAN /\ StopOnFailure \in BOOLEAN
    /\ MaxWorkers \in Nat \ {0}

(* A breadth-first search gave the depths. *)
ASSUME PathAssumption ==
    \A d \in Device : \A e \in Path[d] : 0 < Depth[e] /\ Depth[e] < Depth[d]

VARIABLES
    pc,       \* the calling thread: "pick", "wait", "done" or "raised"
    group,    \* the group in progress
    status,   \* of a device: "pending" (its group has not begun), "queued",
              \* "running", and then what the operation did: "ok" or "failed"
    results   \* the dict to be returned: "ok", "failed", or "none" (no entry)

vars == <<pc, group, status, results>>

(* The group of d comes before that of e: sorted(by_depth), and devices    *)
(* without a depth after all the others.                                   *)
Closer(d, e) ==
    /\ Depth[d] # 0
    /\ \/ Depth[e] = 0
       \/ IF Ascending THEN Depth[d] < Depth[e] ELSE Depth[d] > Depth[e]

Before == {p \in Device \X Device : Closer(p[1], p[2])}

Pending == {d \in Device : status[d] = "pending"}
Running == {d \in Device : status[d] = "running"}

(* Definitions named X_Y are X with the fault Y, to check that the          *)
(* properties notice it.                                                    *)
FirstGroup_TwoDepths ==
    {d \in Pending : \A e \in Pending : Depth[e] <= Depth[d] + 1}

FirstGroup == {d \in Pending : \A e \in Pending : <<e, d>> \notin Before}

Init ==
    /\ pc = "pick" /\ group = {}
    /\ status = [d \in Device |-> "pending"]
    /\ results = [d \in Device |-> "none"]
-----------------------------------------------------------------------------
(* All devices of the next group are submitted to a pool.  A group of one  *)
(* runs in the calling thread, which differs only in what Raise does.      *)
PickGroup ==
    /\ pc = "pick" /\ Pending # {}
    /\ pc' = "wait" /\ group' = FirstGroup
    /\ status' = [d \in Device |-> IF d \in FirstGroup THEN "queued" ELSE status[d]]
    /\ UNCHANGED results

StartOperation(d) ==
    /\ pc = "wait" /\ status[d] = "queued"
    /\ Cardinality(Running) < MaxWorkers
    /\ status' = [status EXCEPT ![d] = "running"]
    /\ UNCHANGED <<pc, group, results>>

OperationReturns(d, r) ==
    /\ status[d] = "running"
    /\ status' = [status EXCEPT ![d] = r]
    /\ UNCHANGED <<pc, group, results>>

(* In a pool the future keeps the exception and the device counts as       *)
(* failed; in a group of one it ends the call, and the results with it.    *)
OperationRaises(d) ==
    /\ status[d] = "running"
    /\ status' = [status EXCEPT ![d] = "failed"]
    /\ pc' = IF group = {d} THEN "raised" ELSE pc
    /\ UNCHANGED <<group, results>>

(* as_completed yields the future of d. *)
Collect(d) ==
    /\ pc = "wait" /\ d \in group
    /\ status[d] \in {"ok", "failed"} /\ results[d] = "none"
    /\ results' = [results EXCEPT ![d] = status[d]]
    /\ UNCHANGED <<pc, group, status>>

CheckGroup_FailureForgotten ==
    /\ pc = "wait" /\ \A d \in group : results[d] # "none"
    /\ pc' = "pick" /\ group' = {}
    /\ UNCHANGED <<status, results>>

(* The pool is closed, and the failures of the group are looked at. *)
CheckGroup ==
    /\ pc = "wait" /\ \A d \in group : results[d] # "none"
    /\ group' = {}
    /\ pc' = IF StopOnFailure /\ \E d \in group : results[d] = "failed"
               THEN "done" ELSE "pick"
    /\ UNCHANGED <<status, results>>

ReturnResults ==
    /\ pc = "pick" /\ Pending = {}
    /\ pc' = "done"
    /\ UNCHANGED <<group, status, results>>

Step(d) ==
    \/ StartOperation(d)
    \/ \E r \in {"ok", "failed"} : OperationReturns(d, r)
    \/ OperationRaises(d)
    \/ Collect(d)

Next == PickGroup \/ CheckGroup \/ ReturnResults \/ \E d \in Device : Step(d)

Spec == Init /\ [][Next]_vars

(* The threads are scheduled, and operations return (they use timeouts). *)
FairSpec == Spec /\ WF_vars(Next)
-----------------------------------------------------------------------------
TypeOK ==
    /\ pc \in {"pick", "wait", "done", "raised"}
    /\ group \subseteq Device
    /\ status \in [Device -> {"pending", "queued", "running", "ok", "failed"}]
    /\ results \in [Device -> {"none", "ok", "failed"}]

(* While a device is operated on, no device on the management path to it   *)
(* has been touched ("we never reconfigure a device that sits on the       *)
(* management path to a device we're still working on").                   *)
PathIntact ==
    \A d \in Device : \A e \in Path[d] :
        status[d] = "running" => status[e] \in {"pending", "queued"}

(* With stop_on_failure, a failure keeps every later group untouched for   *)
(* good, however the other devices of its own group end.                   *)
FailureShieldsLaterGroups ==
    \A p \in Before :
        StopOnFailure /\ status[p[1]] = "failed" => status[p[2]] = "pending"

(* When the call returns, the dict has an entry for exactly the devices    *)
(* that were operated on, with what happened to them; when it returns or   *)
(* raises, no worker is left behind.                                       *)
ResultsExact ==
    /\ pc = "done" => \A d \in Device :
          results[d] = IF status[d] = "pending" THEN "none" ELSE status[d]
    /\ pc \in {"done", "raised"} => \A d \in Device :
          status[d] \notin {"queued", "running"}

(* What the caller sees of a device. *)
Stage == [d \in Device |->
            IF status[d] \in {"pending", "queued"} THEN "untouched"
            ELSE IF status[d] = "running" THEN "busy" ELSE status[d]]

Rollout == INSTANCE OrderedRollout WITH st <- Stage

(* The threads implement the ordered rollout. *)
RefinesRollout == Rollout!Spec
=============================================================================
