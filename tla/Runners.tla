------------------------------- MODULE Runners -------------------------------
(***************************************************************************)
(* The four background runners of the dashboard: dashboard/deployment.py,  *)
(* rollback.py, simulation.py and prepare.py.  Requests, each in a thread  *)
(* of the web server, start, resume and stop them; a runner's own thread   *)
(* executes the run, keeps the phase of a Deployment record up to date and *)
(* leaves the checkpoint files behind that a later request looks for.      *)
(***************************************************************************)
EXTENDS Integers, Sequences, FiniteSets

CONSTANTS
    Request,      \* threads of the web server
    MaxCalls,     \* bound: start and resume requests
    MaxRestarts   \* bound: restarts of the server

Runner == {"deployment", "rollback", "simulation", "prepare"}

(* Runners that drive the devices or pretend to; all but prepare are named *)
(* in each other's checks.                                                 *)
Trio == {"deployment", "rollback", "simulation"}

(* Runners that keep a checkpoint. *)
Resumable == {"deployment", "rollback"}

VARIABLES
    request,   \* what a request does: the runner, the kind of call, and the
               \* runners whose status it has still to look at
    live,      \* number of threads of a runner that are alive
    step,      \* of a runner's thread: "begin", "run", "settle", "cleanup"
    resuming,  \* the run was launched by a resume
    outcome,   \* what the orchestrator returned
    stop,      \* the stop event of a runner
    mine,      \* the Deployment record that a run updates; 0 for None
    records,   \* the Deployment records, oldest first
    saved,     \* runners whose checkpoint file exists
    asked,     \* history: the run was asked to stop
    overlap,   \* history: two requests were being handled at the same time
    orphans,   \* history: records whose run a restart cut short
    calls, restarts

thread  == <<live, step, resuming, outcome, mine>>
history == <<asked, overlap, orphans>>
budget  == <<calls, restarts>>
vars    == <<request, thread, stop, records, saved, history, budget>>

Idle == [runner |-> "none", kind |-> "none", left |-> <<>>]

(* Definitions named X_Y are X with the fault Y, to check that the          *)
(* properties notice it.                                                    *)
Checks_RollbackMissing(x) ==
    CASE x = "deployment" -> <<"simulation">>
      [] x = "rollback"   -> <<"deployment", "simulation">>
      [] x = "simulation" -> <<"deployment", "rollback">>
      [] x = "prepare"    -> <<"deployment", "simulation", "rollback">>

(* The statuses that start_X and resume_X look at, in this order. *)
Checks(x) ==
    CASE x = "deployment" -> <<"simulation", "rollback">>
      [] x = "rollback"   -> <<"deployment", "simulation">>
      [] x = "simulation" -> <<"deployment", "rollback">>
      [] x = "prepare"    -> <<"deployment", "simulation", "rollback">>

NewRecord(x) == [by |-> x, phase |-> "working"]

SetPhase(x, p) ==
    records' = IF mine[x] = 0 THEN records
                              ELSE [records EXCEPT ![mine[x]].phase = p]

Init ==
    /\ request = [q \in Request |-> Idle]
    /\ live = [x \in Runner |-> 0]
    /\ step = [x \in Runner |-> "idle"]
    /\ resuming = [x \in Runner |-> FALSE]
    /\ outcome = [x \in Runner |-> "none"]
    /\ mine = [x \in Runner |-> 0]
    /\ stop = [x \in Runner |-> FALSE]
    /\ records = <<>> /\ saved = {}
    /\ asked = [x \in Runner |-> FALSE] /\ overlap = FALSE /\ orphans = {}
    /\ calls = 0 /\ restarts = 0
-----------------------------------------------------------------------------
(* Requests *)

Ask(q, x, kind) ==
    /\ request[q] = Idle /\ calls < MaxCalls
    /\ calls' = calls + 1
    /\ kind = "resume" => x \in Resumable
    /\ request' = [request EXCEPT ![q] =
                     [runner |-> x, kind |-> kind, left |-> Checks(x)]]
    /\ overlap' = (overlap \/ \E p \in Request : request[p] # Idle)
    /\ UNCHANGED <<thread, stop, records, saved, asked, orphans, restarts>>

(* X_status()["running"], under the lock of the other runner. *)
LookAtOther(q) ==
    /\ request[q].left # <<>>
    /\ request' = [request EXCEPT ![q] =
                     IF live[Head(request[q].left)] > 0
                       THEN Idle
                       ELSE [request[q] EXCEPT !.left = Tail(request[q].left)]]
    /\ UNCHANGED <<thread, stop, records, saved, history, budget>>

(* What the runner's own lock section tests. *)
MayLaunch(x, kind) ==
    /\ live[x] = 0
    /\ x = "rollback" /\ kind = "start" => "deployment" \in saved
    /\ kind = "resume" => x \in saved

Refuse(q) ==
    /\ request[q] # Idle /\ request[q].left = <<>>
    /\ ~MayLaunch(request[q].runner, request[q].kind)
    /\ request' = [request EXCEPT ![q] = Idle]
    /\ UNCHANGED <<thread, stop, records, saved, history, budget>>

StopCleared_OnlyOnStart(x, kind) ==
    IF kind = "start" THEN [stop EXCEPT ![x] = FALSE] ELSE stop

StopCleared(x, kind) == [stop EXCEPT ![x] = FALSE]

Launch(q) ==
    LET x == request[q].runner
        kind == request[q].kind
    IN  /\ request[q] # Idle /\ request[q].left = <<>>
        /\ MayLaunch(x, kind)
        /\ request' = [request EXCEPT ![q] = Idle]
        /\ stop' = StopCleared(x, kind)
        /\ live' = [live EXCEPT ![x] = @ + 1]
        /\ step' = [step EXCEPT ![x] = "begin"]
        /\ resuming' = [resuming EXCEPT ![x] = (kind = "resume")]
        /\ UNCHANGED <<outcome, mine, records, saved, history, budget>>

(* stop_X: one lock section, so that a request is over at once. *)
Stop(x) ==
    /\ live[x] > 0 /\ ~stop[x]
    /\ stop' = [stop EXCEPT ![x] = TRUE]
    /\ asked' = [asked EXCEPT ![x] = TRUE]
    /\ UNCHANGED <<request, thread, records, saved, overlap, orphans, budget>>
-----------------------------------------------------------------------------
(* The thread of a run *)

GoTo(x, s) ==
    /\ step' = [step EXCEPT ![x] = s]
    /\ UNCHANGED <<request, live, resuming, stop, history, budget>>

(* A new record, or on a resume the newest one, whoever made it. *)
BeginDeployment ==
    LET x == "deployment" IN
    /\ step[x] = "begin"
    /\ resuming[x] => x \in saved
    /\ records' = IF resuming[x] /\ records # <<>> THEN records
                    ELSE Append(records, NewRecord(x))
    /\ mine' = [mine EXCEPT ![x] = Len(records')]
    /\ GoTo(x, "run")
    /\ UNCHANGED <<outcome, saved>>

(* Unreadable inventory or checkpoint: no record is known to the run yet. *)
BeginDeploymentRaises ==
    /\ step["deployment"] = "begin"
    /\ GoTo("deployment", "cleanup")
    /\ UNCHANGED <<mine, outcome, records, saved>>

(* The newest record, or none: then the thread returns. *)
BeginRollback ==
    LET x == "rollback" IN
    /\ step[x] = "begin"
    /\ mine' = [mine EXCEPT ![x] = Len(records)]
    /\ IF records = <<>>
         THEN GoTo(x, "cleanup") /\ UNCHANGED records
         ELSE IF resuming[x] /\ x \notin saved
           THEN /\ records' = [records EXCEPT ![Len(records)].phase = "failed"]
                /\ GoTo(x, "cleanup")
           ELSE /\ records' = [records EXCEPT ![Len(records)].phase = "working"]
                /\ GoTo(x, "run")
    /\ UNCHANGED <<outcome, saved>>

BeginSimulation ==
    LET x == "simulation" IN
    /\ step[x] = "begin"
    /\ records' = Append(records, NewRecord(x))
    /\ mine' = [mine EXCEPT ![x] = Len(records')]
    /\ GoTo(x, "run")
    /\ UNCHANGED <<outcome, saved>>

BeginPrepare ==
    /\ step["prepare"] = "begin"
    /\ GoTo("prepare", "run")
    /\ UNCHANGED <<mine, outcome, records, saved>>

KeepsFile(x) == IF x \in Resumable THEN saved \cup {x} ELSE saved

(* A phase is over: checkpoint, on_phase_change, and the next one begins.  *)
Progress(x) ==
    /\ step[x] = "run" /\ ~stop[x]
    /\ SetPhase(x, "working") /\ saved' = KeepsFile(x)
    /\ GoTo(x, "run")
    /\ UNCHANGED <<mine, outcome>>

(* The orchestrator returns in the phase it was stopped after. *)
RunStopped(x) ==
    /\ x \in Resumable /\ step[x] = "run" /\ stop[x]
    /\ outcome' = [outcome EXCEPT ![x] = "working"]
    /\ SetPhase(x, "working") /\ saved' = KeepsFile(x)
    /\ GoTo(x, "settle") /\ UNCHANGED mine

(* Blocking errors; for a rollback, no deployment checkpoint to read. *)
RunFails(x) ==
    /\ x \in Resumable /\ step[x] = "run"
    /\ x = "rollback" => ~resuming[x] /\ "deployment" \notin saved
    /\ outcome' = [outcome EXCEPT ![x] = "failed"]
    /\ IF x = "deployment"
         THEN SetPhase(x, "failed") /\ saved' = saved \cup {x}
         ELSE UNCHANGED <<records, saved>>
    /\ GoTo(x, "settle") /\ UNCHANGED mine

(* A finished deployment removes its checkpoint, a finished rollback both. *)
RunCompletes(x) ==
    /\ x \in Resumable /\ step[x] = "run"
    /\ outcome' = [outcome EXCEPT ![x] = "complete"]
    /\ IF x = "deployment"
         THEN saved' = saved \ {x} /\ UNCHANGED records
         ELSE saved' = {} /\ SetPhase(x, "complete")
    /\ GoTo(x, "settle") /\ UNCHANGED mine

(* The except clause of the thread. *)
RunRaises(x) ==
    /\ x \in Trio /\ step[x] = "run"
    /\ SetPhase(x, "failed")
    /\ GoTo(x, "cleanup")
    /\ UNCHANGED <<mine, outcome, saved>>

(* A simulation that is stopped between two phases is given the phase       *)
(* failed or stopped, inside one it leaves its record as it is.             *)
SimulationEnds ==
    LET x == "simulation" IN
    /\ step[x] = "run"
    /\ \/ SetPhase(x, "complete")
       \/ stop[x] /\ \E p \in {"failed", "stopped"} : SetPhase(x, p)
       \/ stop[x] /\ UNCHANGED records
    /\ GoTo(x, "cleanup")
    /\ UNCHANGED <<mine, outcome, saved>>

PrepareEnds ==
    /\ step["prepare"] = "run"
    /\ GoTo("prepare", "cleanup")
    /\ UNCHANGED <<mine, outcome, records, saved>>

FinalPhase_StopOnly(x) == IF stop[x] THEN "stopped" ELSE outcome[x]

FinalPhase(x) ==
    IF stop[x] /\ outcome[x] \notin {"complete", "failed"}
      THEN "stopped" ELSE outcome[x]

(* The record is given the phase in which the run ended. *)
Settle_OnlyIfNotStopped(x) ==
    /\ step[x] = "settle"
    /\ IF stop[x] THEN UNCHANGED records ELSE SetPhase(x, outcome[x])
    /\ GoTo(x, "cleanup")
    /\ UNCHANGED <<mine, outcome, saved>>

Settle(x) ==
    /\ step[x] = "settle"
    /\ SetPhase(x, FinalPhase(x))
    /\ GoTo(x, "cleanup")
    /\ UNCHANGED <<mine, outcome, saved>>

(* The finally clause; the thread is no longer alive. *)
Cleanup(x) ==
    /\ step[x] = "cleanup"
    /\ live' = [live EXCEPT ![x] = @ - 1]
    /\ step' = [step EXCEPT ![x] = "idle"]
    /\ mine' = [mine EXCEPT ![x] = 0]
    /\ outcome' = [outcome EXCEPT ![x] = "none"]
    /\ resuming' = [resuming EXCEPT ![x] = FALSE]
    /\ asked' = [asked EXCEPT ![x] = FALSE]
    /\ UNCHANGED <<request, stop, records, saved, overlap, orphans, budget>>

(* Runner threads are daemons: they end with the server.  A restart with   *)
(* no thread alive would only clear stop events that Launch clears anyway. *)
RestartServer ==
    /\ restarts < MaxRestarts /\ \E x \in Runner : live[x] > 0
    /\ restarts' = restarts + 1
    /\ orphans' = orphans \cup ({mine[x] : x \in Runner} \ {0})
    /\ request' = [q \in Request |-> Idle]
    /\ live' = [x \in Runner |-> 0]
    /\ step' = [x \in Runner |-> "idle"]
    /\ resuming' = [x \in Runner |-> FALSE]
    /\ outcome' = [x \in Runner |-> "none"]
    /\ mine' = [x \in Runner |-> 0]
    /\ stop' = [x \in Runner |-> FALSE]
    /\ asked' = [x \in Runner |-> FALSE]
    /\ UNCHANGED <<records, saved, overlap, calls>>
-----------------------------------------------------------------------------
RunnerThread(x) ==
    \/ x = "deployment" /\ (BeginDeployment \/ BeginDeploymentRaises)
    \/ x = "rollback"   /\ BeginRollback
    \/ x = "simulation" /\ (BeginSimulation \/ SimulationEnds)
    \/ x = "prepare"    /\ (BeginPrepare \/ PrepareEnds)
    \/ Progress(x) \/ RunStopped(x) \/ RunFails(x) \/ RunCompletes(x)
    \/ RunRaises(x) \/ Settle(x) \/ Cleanup(x)

Handle(q) ==
    \/ \E x \in Runner, kind \in {"start", "resume"} : Ask(q, x, kind)
    \/ LookAtOther(q) \/ Refuse(q) \/ Launch(q)

Next ==
    \/ \E q \in Request : Handle(q)
    \/ \E x \in Runner : Stop(x) \/ RunnerThread(x)
    \/ RestartServer

Spec == Init /\ [][Next]_vars
-----------------------------------------------------------------------------
Phase == {"working", "stopped", "failed", "complete"}

Quiet == \A x \in Runner : live[x] = 0

(* A run sees a stop request exactly if it was made of this run: none is   *)
(* lost, and none is left over from an earlier run of the same runner.     *)
StopReachesItsRun ==
    \A x \in Runner : live[x] > 0 => (stop[x] <=> asked[x])

(* Unless two requests were handled at the same time, a deployment, a      *)
(* rollback and a simulation never run together.                           *)
ExclusiveUnlessRequestsOverlap ==
    ~overlap => Cardinality({x \in Trio : live[x] > 0}) <= 1

(* When all threads have ended, no record of a deployment still shows a    *)
(* phase in progress, unless a restart of the server cut its run short.    *)
RecordsSettle ==
    Quiet => \A i \in 1..Len(records) \ orphans :
                records[i].by = "deployment" => records[i].phase # "working"

(* "Stopped by user - checkpoint saved": a deployment that is shown as     *)
(* stopped has a checkpoint to resume from.                                *)
StoppedCanBeResumed ==
    \A i \in 1..Len(records) \ orphans :
        /\ Quiet /\ ~overlap
        /\ i = Len(records) /\ records[i] = [by |-> "deployment", phase |-> "stopped"]
        => saved # {}
=============================================================================
