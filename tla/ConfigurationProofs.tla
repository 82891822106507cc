------------------------- MODULE ConfigurationProofs -------------------------
(***************************************************************************)
(* The two mechanisms that a network configuration rests on, each for any  *)
(* value of its constants.                                                 *)
(*                                                                         *)
(* The executor (ParallelByDepth) respects the order of the groups, for    *)
(* any devices, depths, number of workers and order of their threads, and  *)
(* implements the ordered rollout.                                         *)
(*                                                                         *)
(* The dead man's switch (DeadMansSwitch) of each device keeps its         *)
(* promises for any number of calls, lost sessions and power failures.     *)
(***************************************************************************)
EXTENDS DeadMansSwitch, ParallelByDepth, TLAPS

-----------------------------------------------------------------------------
(***************************************************************************)
(* The executor.                                                           *)
(***************************************************************************)
(* Only devices of the group in progress are queued or operated on. *)
GroupInv ==
    /\ pc \in {"pick", "done"} => group = {}
    /\ \A d \in Device :
          status[d] \in {"queued", "running"} => pc = "wait" /\ d \in group
    /\ \A d \in group : status[d] # "pending"

(* The dict holds what the operations did, and lacks no earlier group. *)
ResultsInv ==
    /\ \A d \in Device : results[d] # "none" => results[d] = status[d]
    /\ pc # "raised" => \A d \in Device \ group :
          status[d] # "pending" => results[d] = status[d]

(* A failure that stops the call is one of the group in progress. *)
FailureInv ==
    /\ pc = "pick" /\ StopOnFailure => \A d \in Device : status[d] # "failed"
    /\ pc = "wait" /\ StopOnFailure =>
          \A d \in Device : status[d] = "failed" => d \in group

(* Before a device is begun, the groups before its own are over. *)
OrderInv ==
    \A d, e \in Device : <<d, e>> \in Before /\ status[e] # "pending" =>
        /\ status[d] \in {"ok", "failed"}
        /\ d \notin group
        /\ StopOnFailure => status[d] = "ok"

ExecutorInv == TypeOK /\ GroupInv /\ ResultsInv /\ FailureInv /\ OrderInv

LEMMA InitExecutorInv == Init => ExecutorInv
  BY DEF Init, ExecutorInv, TypeOK, GroupInv, ResultsInv, FailureInv, OrderInv

(* The devices of the first group have no pending device before them. *)
LEMMA FirstGroupFirst ==
    ASSUME NEW d \in FirstGroup, NEW e \in Device, <<e, d>> \in Before
    PROVE  d \in Device /\ status[d] = "pending" /\ status[e] # "pending"
  BY DEF FirstGroup, Pending

LEMMA PickGroupInv == ExecutorInv /\ PickGroup => ExecutorInv'
<1> SUFFICES ASSUME ExecutorInv, PickGroup PROVE ExecutorInv'
  OBVIOUS
<1> USE DEF ExecutorInv, TypeOK, PickGroup
<1>0. FirstGroup \subseteq Device /\ \A d \in FirstGroup : status[d] = "pending"
  BY DEF FirstGroup, Pending
<1>1. TypeOK'
  BY <1>0
<1>2. GroupInv'
  BY <1>0 DEF GroupInv
<1>3. ResultsInv'
  BY <1>0 DEF ResultsInv, GroupInv
<1>4. FailureInv'
  BY <1>0 DEF FailureInv
<1>5. OrderInv'
  <2> SUFFICES ASSUME NEW d \in Device, NEW e \in Device, <<d, e>> \in Before,
                      status'[e] # "pending"
               PROVE  /\ status'[d] \in {"ok", "failed"}
                      /\ d \notin group'
                      /\ StopOnFailure => status'[d] = "ok"
    BY DEF OrderInv, Before, Closer
  <2>1. CASE e \in FirstGroup
    <3>1. status[d] # "pending"
      BY <2>1, FirstGroupFirst
    <3>2. status[d] \in {"ok", "failed"} /\ d \notin FirstGroup
      BY <1>0, <3>1 DEF GroupInv
    <3>3. QED
      BY <3>2 DEF FailureInv
  <2>2. CASE e \notin FirstGroup
    <3>1. status[e] # "pending"
      BY <2>2
    <3>2. /\ status[d] \in {"ok", "failed"}
          /\ StopOnFailure => status[d] = "ok"
      BY <3>1 DEF OrderInv
    <3>3. QED
      BY <1>0, <3>2
  <2>3. QED
    BY <2>1, <2>2
<1>6. QED
  BY <1>1, <1>2, <1>3, <1>4, <1>5

LEMMA StepInv == ASSUME NEW d \in Device PROVE ExecutorInv /\ Step(d) => ExecutorInv'
<1> SUFFICES ASSUME ExecutorInv, Step(d) PROVE ExecutorInv'
  OBVIOUS
<1> USE DEF ExecutorInv, TypeOK, GroupInv, ResultsInv, FailureInv, OrderInv, Before, Closer
<1>1. CASE StartOperation(d)
  BY <1>1 DEF StartOperation
<1>2. CASE \E r \in {"ok", "failed"} : OperationReturns(d, r)
  BY <1>2 DEF OperationReturns
<1>3. CASE OperationRaises(d)
  BY <1>3 DEF OperationRaises
<1>4. CASE Collect(d)
  BY <1>4 DEF Collect
<1>5. QED
  BY <1>1, <1>2, <1>3, <1>4 DEF Step

LEMMA NextExecutorInv == ExecutorInv /\ [Next]_vars => ExecutorInv'
<1> SUFFICES ASSUME ExecutorInv, [Next]_vars PROVE ExecutorInv'
  OBVIOUS
<1>1. CASE PickGroup
  BY <1>1, PickGroupInv
<1>2. CASE CheckGroup
  BY <1>2 DEF CheckGroup, ExecutorInv, TypeOK, GroupInv, ResultsInv, FailureInv, OrderInv,
              Before, Closer
<1>3. CASE ReturnResults
  BY <1>3 DEF ReturnResults, ExecutorInv, TypeOK, GroupInv, ResultsInv, FailureInv,
              OrderInv, Before, Closer
<1>4. ASSUME NEW d \in Device, Step(d) PROVE ExecutorInv'
  BY <1>4, StepInv
<1>5. CASE UNCHANGED vars
  BY <1>5 DEF vars, ExecutorInv, TypeOK, GroupInv, ResultsInv, FailureInv, OrderInv,
              Before, Closer
<1>6. QED
  BY <1>1, <1>2, <1>3, <1>4, <1>5 DEF Next

LEMMA ExecutorSafety == Spec => []ExecutorInv
  BY InitExecutorInv, NextExecutorInv, PTL DEF Spec

(* The variables keep their types. *)
THEOREM ExecutorTypeCorrect == Spec => []TypeOK
  BY ExecutorSafety, PTL DEF ExecutorInv

(* A device further away comes before those on the path to it. *)
LEMMA PathIsCloser ==
    ASSUME ~Ascending, NEW d \in Device, NEW e \in Path[d]
    PROVE  e \in Device /\ <<d, e>> \in Before
<1>1. e \in Device
  BY ParallelAssumption DEF ParallelAssumption
<1>2. 0 < Depth[e] /\ Depth[e] < Depth[d] /\ Depth[d] \in Nat /\ Depth[e] \in Nat
  BY <1>1, ParallelAssumption, PathAssumption DEF ParallelAssumption, PathAssumption
<1>3. Closer(d, e)
  BY <1>2 DEF Closer
<1>4. QED
  BY <1>1, <1>3 DEF Before

(* Outside-in: nothing on the path to a device is touched while it is      *)
(* operated on.                                                            *)
THEOREM PathsIntact == ASSUME ~Ascending PROVE Spec => []PathIntact
<1>1. ExecutorInv => PathIntact
  <2> SUFFICES ASSUME ExecutorInv, NEW d \in Device, NEW e \in Path[d], status[d] = "running"
               PROVE  status[e] \in {"pending", "queued"}
    BY DEF PathIntact
  <2>1. e \in Device /\ <<d, e>> \in Before
    BY PathIsCloser
  <2>2. QED
    BY <2>1 DEF ExecutorInv, OrderInv
<1>2. QED
  BY <1>1, ExecutorSafety, PTL

(* A failure keeps all later groups untouched. *)
THEOREM FailureShields == Spec => []FailureShieldsLaterGroups
<1>1. ExecutorInv => FailureShieldsLaterGroups
  BY DEF ExecutorInv, OrderInv, FailureShieldsLaterGroups, Before
<1>2. QED
  BY <1>1, ExecutorSafety, PTL

(* The dict that is returned tells exactly what was done. *)
THEOREM ResultsAreExact == Spec => []ResultsExact
<1>1. ExecutorInv => ResultsExact
  BY DEF ExecutorInv, TypeOK, GroupInv, ResultsInv, ResultsExact
<1>2. QED
  BY <1>1, ExecutorSafety, PTL

(* The threads and the dict implement the ordered rollout. *)
THEOREM Refinement == Spec => RefinesRollout
<1>1. Init => Rollout!Init
  BY DEF Init, Rollout!Init, Stage
<1>2. ExecutorInv /\ [Next]_vars => [Rollout!Next]_Stage
  <2> SUFFICES ASSUME ExecutorInv, [Next]_vars PROVE [Rollout!Next]_Stage
    OBVIOUS
  <2> USE DEF ExecutorInv, TypeOK, Stage
  <2>1. CASE PickGroup
    BY <2>1 DEF PickGroup, FirstGroup, Pending
  <2>2. CASE CheckGroup
    BY <2>2 DEF CheckGroup
  <2>3. CASE ReturnResults
    BY <2>3 DEF ReturnResults
  <2>4. ASSUME NEW d \in Device, StartOperation(d) PROVE Rollout!Begin(d)
    BY <2>4 DEF StartOperation, OrderInv, Rollout!Begin, Rollout!Over
  <2>5. ASSUME NEW d \in Device, NEW r \in {"ok", "failed"}, OperationReturns(d, r)
        PROVE  Rollout!Return(d, r)
    BY <2>5 DEF OperationReturns, Rollout!Return
  <2>6. ASSUME NEW d \in Device, OperationRaises(d) PROVE Rollout!Return(d, "failed")
    BY <2>6 DEF OperationRaises, Rollout!Return
  <2>7. ASSUME NEW d \in Device, Collect(d) PROVE UNCHANGED Stage
    BY <2>7 DEF Collect
  <2>8. CASE UNCHANGED vars
    BY <2>8 DEF vars
  <2>9. QED
    BY <2>1, <2>2, <2>3, <2>4, <2>5, <2>6, <2>7, <2>8 DEF Next, Step, Rollout!Next
<1>3. QED
  BY <1>1, <1>2, ExecutorSafety, PTL DEF Spec, RefinesRollout, Rollout!Spec

-----------------------------------------------------------------------------
(***************************************************************************)
(* The dead man's switch.                                                  *)
(***************************************************************************)
(* A session exists only between the commands of a call, to a device that  *)
(* is up; it tells which commands the device has heard.                    *)
SessionInv ==
    /\ session => up /\ command \notin {"idle", "connect", "wait"}
    /\ session /\ command = "configure" => timer
    /\ session /\ command \in {"reload cancel", "write memory"} => running = "good"
    /\ session /\ command = "write memory" => ~timer

(* A device that is reloading will run what it boots with. *)
ReloadInv == ~up => running = startup /\ ~timer

(* A result is there only between calls. *)
ReturnedInv == returned = "true" => command = "idle"

SwitchInv ==
    /\ SwitchTypeOK
    /\ SessionInv /\ ReloadInv /\ ReturnedInv
    /\ UnvalidatedRunsArmed /\ OnlyValidatedIsSaved /\ SuccessIsDurable

BudgetOK ==
    calls \in 0..MaxCalls /\ drops \in 0..MaxDrops /\ crashes \in 0..MaxCrashes

(* A budget that is not used up may be spent. *)
LEMMA Spend ==
    ASSUME NEW m \in Nat, NEW n \in 0..m, n < m
    PROVE  n + 1 \in 0..m
  OBVIOUS

LEMMA InitSwitchInv == SwitchInit => SwitchInv
<1> SUFFICES ASSUME SwitchInit PROVE SwitchInv
  OBVIOUS
<1>1. SwitchTypeOK
  <2>1. BudgetOK
    BY SwitchAssumption DEF SwitchInit, SwitchAssumption, BudgetOK
  <2>2. QED
    BY <2>1, Zenon DEF SwitchInit, SwitchTypeOK, Commands, BudgetOK
<1>2. SessionInv /\ ReloadInv /\ ReturnedInv
  BY DEF SwitchInit, SessionInv, ReloadInv, ReturnedInv
<1>3. UnvalidatedRunsArmed /\ OnlyValidatedIsSaved /\ SuccessIsDurable
  BY DEF SwitchInit, UnvalidatedRunsArmed, OnlyValidatedIsSaved, SuccessIsDurable,
     Unvalidated
<1>4. QED
  BY <1>1, <1>2, <1>3 DEF SwitchInv

(* Every step of the caller, the device and the link keeps the invariant. *)
LEMMA NextSwitchInv == SwitchInv /\ [SwitchNext]_switch_vars => SwitchInv'
<1> SUFFICES ASSUME SwitchInv, [SwitchNext]_switch_vars PROVE SwitchInv'
  OBVIOUS
<1> USE SwitchAssumption DEF SwitchAssumption, SwitchInv, SwitchTypeOK, SessionInv, ReloadInv, ReturnedInv,
      UnvalidatedRunsArmed, OnlyValidatedIsSaved, SuccessIsDurable, Commands,
      Unvalidated, caller, device, budget
<1>1. CASE Call
  BY <1>1 DEF Call
<1>2. CASE NotConnected
  BY <1>2 DEF NotConnected, Return
<1>3. CASE Connect
  BY <1>3 DEF Connect
<1>4. CASE ReloadIn
  BY <1>4 DEF ReloadIn
<1>5. CASE ConfirmReload
  <2>1. BudgetOK'
    BY <1>5 DEF ConfirmReload, BudgetOK
  <2>2. SwitchTypeOK'
    BY <1>5, <2>1, Zenon DEF ConfirmReload, BudgetOK
  <2>3. SessionInv' /\ ReloadInv' /\ ReturnedInv'
    BY <1>5, Zenon DEF ConfirmReload
  <2>4. UnvalidatedRunsArmed' /\ OnlyValidatedIsSaved' /\ SuccessIsDurable'
    BY <1>5, Zenon DEF ConfirmReload
  <2>5. QED
    BY <2>2, <2>3, <2>4, Zenon
<1>6. CASE ApplyConfig
  BY <1>6 DEF ApplyConfig
<1>7. CASE ApplyHalf
  <2>1. BudgetOK'
    BY <1>7, Spend, Zenon DEF ApplyHalf, Return, BudgetOK
  <2>2. SwitchTypeOK'
    BY <1>7, <2>1, Zenon DEF ApplyHalf, Return, BudgetOK
  <2>3. SessionInv' /\ ReloadInv' /\ ReturnedInv'
    BY <1>7, Zenon DEF ApplyHalf, Return
  <2>4. UnvalidatedRunsArmed' /\ OnlyValidatedIsSaved' /\ SuccessIsDurable'
    BY <1>7, Zenon DEF ApplyHalf, Return
  <2>5. QED
    BY <2>2, <2>3, <2>4, Zenon
<1>8. CASE Validate
  BY <1>8 DEF Validate
<1>9. CASE CancelReload
  <2>1. BudgetOK'
    BY <1>9 DEF CancelReload, BudgetOK
  <2>2. SwitchTypeOK'
    BY <1>9, <2>1, Zenon DEF CancelReload, BudgetOK
  <2>3. SessionInv' /\ ReloadInv' /\ ReturnedInv'
    BY <1>9, Zenon DEF CancelReload
  <2>4. UnvalidatedRunsArmed' /\ OnlyValidatedIsSaved' /\ SuccessIsDurable'
    BY <1>9, Zenon DEF CancelReload
  <2>5. QED
    BY <2>2, <2>3, <2>4, Zenon
<1>10. CASE WriteMem
  BY <1>10 DEF WriteMem, Return
<1>11. CASE CommandRaises
  BY <1>11 DEF CommandRaises, Return
<1>12. CASE WaitForReload
  BY <1>12 DEF WaitForReload, Return
<1>13. CASE TimerFires
  BY <1>13 DEF TimerFires
<1>14. CASE Boot
  BY <1>14 DEF Boot
<1>15. CASE SessionDrops
  <2>1. BudgetOK'
    BY <1>15, Spend, Zenon DEF SessionDrops, BudgetOK
  <2>2. SwitchTypeOK'
    BY <1>15, <2>1, Zenon DEF SessionDrops, BudgetOK
  <2>3. SessionInv' /\ ReloadInv' /\ ReturnedInv'
    BY <1>15, Zenon DEF SessionDrops
  <2>4. UnvalidatedRunsArmed' /\ OnlyValidatedIsSaved' /\ SuccessIsDurable'
    BY <1>15, Zenon DEF SessionDrops
  <2>5. QED
    BY <2>2, <2>3, <2>4, Zenon
<1>16. CASE LaptopDies
  <2>1. BudgetOK'
    BY <1>16, Spend, Zenon DEF LaptopDies, Return, BudgetOK
  <2>2. SwitchTypeOK'
    BY <1>16, <2>1, Zenon DEF LaptopDies, Return, BudgetOK
  <2>3. SessionInv' /\ ReloadInv' /\ ReturnedInv'
    BY <1>16, Zenon DEF LaptopDies, Return
  <2>4. UnvalidatedRunsArmed' /\ OnlyValidatedIsSaved' /\ SuccessIsDurable'
    BY <1>16, Zenon DEF LaptopDies, Return
  <2>5. QED
    BY <2>2, <2>3, <2>4, Zenon
<1>17. CASE UNCHANGED switch_vars
  BY <1>17 DEF switch_vars
<1>18. QED
  BY <1>1, <1>2, <1>3, <1>4, <1>5, <1>6, <1>7, <1>8, <1>9, <1>10, <1>11, <1>12,
     <1>13, <1>14, <1>15, <1>16, <1>17 DEF SwitchNext, ConfigureDevice

LEMMA SwitchSafety == SwitchSpec => []SwitchInv
  BY InitSwitchInv, NextSwitchInv, PTL DEF SwitchSpec

(* The variables keep their types. *)
THEOREM SwitchTypeCorrect == SwitchSpec => []SwitchTypeOK
  BY SwitchSafety, PTL DEF SwitchInv

(* A device reported as configured stays configured, whatever timers the   *)
(* calls before it left behind.                                            *)
THEOREM SuccessDurable == SwitchSpec => []SuccessIsDurable
  BY SwitchSafety, PTL DEF SwitchInv

(* An unvalidated configuration never runs without a reload that undoes it. *)
THEOREM SwitchArmed == SwitchSpec => []UnvalidatedRunsArmed
  BY SwitchSafety, PTL DEF SwitchInv

(* No unvalidated configuration is ever saved. *)
THEOREM SavedIsValidated == SwitchSpec => []OnlyValidatedIsSaved
  BY SwitchSafety, PTL DEF SwitchInv
=============================================================================
