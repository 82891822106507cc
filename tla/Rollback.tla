------------------------------ MODULE Rollback ------------------------------
(***************************************************************************)
(* The rollback to factory state (rollback/orchestrator.py): six phases    *)
(* that reset the devices named by the checkpoint of a deployment, its own *)
(* checkpoint, and the removal of both files at the end; the operator who  *)
(* starts, stops and resumes it; the deployments that he runs in between;  *)
(* and the power failures of the laptop.                                   *)
(*                                                                         *)
(* A phase goes through the steps                                          *)
(*    "enter"   skip the phase (_should_skip) or begin it                  *)
(*    "work"    the devices of the phase are reset, one by one             *)
(*    "save"    _save_checkpoint                                           *)
(*    "stop"    _check_stop                                                *)
(* and the end through "enter" and "remove", one for each file.            *)
(***************************************************************************)
EXTENDS Integers

CONSTANTS
    Network, Server, Appliance,  \* devices, by category
    Depth,          \* bfs_depth of a network device; 0 stands for None
    MaxErrors,      \* bound: resets that fail, in all runs
    MaxCrashes,     \* bound: power failures of the laptop
    MaxDeployments  \* bound: deployments

AllDevices == Network \cup Server \cup Appliance

(* A platform belongs to one of the three driver registries. *)
ASSUME RollbackAssumption ==
    /\ Network \cap Server = {} /\ Network \cap Appliance = {}
    /\ Server \cap Appliance = {}
    /\ Depth \in [Network -> Nat]
    /\ MaxErrors \in Nat /\ MaxCrashes \in Nat /\ MaxDeployments \in Nat
-----------------------------------------------------------------------------
(* A phase is its index in ROLLBACK_PHASE_ORDER; FAILED is not in it.      *)

FAILED        == -1
PRE_FLIGHT    == 0
NTP_RESET     == 1
SERVER_RESET  == 2
LAPTOP_PIVOT  == 3
NETWORK_RESET == 4
FINAL_CHECK   == 5
COMPLETE      == 6

Phases == FAILED .. COMPLETE
Blocks == PRE_FLIGHT .. FINAL_CHECK

(* How a run ends: with its phase, or with the power. *)
NONE    == -2
LOST    == -3
Results == LOST .. COMPLETE

(* Definitions named X_Y are X with the fault Y: no action uses them. *)
(* Phases after which the stop event is looked at. *)
StopChecked == Blocks \ {FINAL_CHECK}

VARIABLES
    running,      \* an orchestrator is executing run_full_rollback
    at, step,     \* the phase it is in, and the step of that phase
    resumeAfter,  \* the phase that _should_skip compares with
    todo, passed, failed, \* devices of the phase: to be reset, reset, not
    phase, devices, results, \* the orchestrator: phase, devices loaded, those
                             \* with a successful reset
    stop_event,   \* the stop event
    rfile, dfile, \* the checkpoint files of the rollback and the deployment
    visited,      \* devices whose reset was run since they were deployed
    clean,        \* devices whose last reset succeeded, not deployed since
    result,       \* how the last run ended
    late,         \* history: phases begun since the stop event was set
    stale,        \* history: a deployment was run since rfile was begun
    deployed,     \* history: how the last deployment ended
    errors, crashes, deployments

position == <<running, at, step, resumeAfter>>
work     == <<todo, passed, failed>>
memory   == <<phase, devices, results>>
files    == <<rfile, dfile>>
hardware == <<visited, clean>>
history  == <<result, late, stale, deployed>>
budget   == <<errors, crashes, deployments>>

vars == <<position, work, memory, stop_event, files, hardware, history, budget>>

NoFile == [exists |-> FALSE]

RollbackFiles ==
    [exists : {TRUE}, phase : Phases, results : SUBSET AllDevices]

DeploymentFiles == [exists : {TRUE}, known : SUBSET AllDevices]

Init ==
    /\ running = FALSE /\ at = PRE_FLIGHT /\ step = "enter"
    /\ resumeAfter = FAILED
    /\ todo = {} /\ passed = {} /\ failed = {}
    /\ phase = PRE_FLIGHT /\ devices = {} /\ results = {}
    /\ stop_event = FALSE /\ rfile = NoFile /\ dfile = NoFile
    /\ visited = {} /\ clean = {}
    /\ result = NONE /\ late = 0 /\ stale = FALSE /\ deployed = "none"
    /\ errors = 0 /\ crashes = 0 /\ deployments = 0
-----------------------------------------------------------------------------
(* The operator *)

(* A deployment, which never runs beside a rollback: it leaves a           *)
(* checkpoint that names the devices it knows, or completes and removes it *)
(* (module Deployment).                                                    *)
Deploy(kn, how) ==
    /\ ~running /\ deployments < MaxDeployments
    /\ deployments' = deployments + 1
    /\ dfile' = IF how = "complete" THEN NoFile
                                    ELSE [exists |-> TRUE, known |-> kn]
    /\ visited' = visited \ kn /\ clean' = clean \ kn
    /\ deployed' = how /\ stale' = rfile.exists
    /\ UNCHANGED <<position, work, memory, stop_event, rfile, result, late, errors,
                   crashes>>

(* A run begins; _load_devices_from_checkpoint finds the devices ds. *)
BeginRun(after, ds) ==
    /\ ~running
    /\ running' = TRUE /\ at' = PRE_FLIGHT /\ step' = "enter"
    /\ resumeAfter' = after /\ devices' = ds
    /\ stop_event' = FALSE /\ late' = 0 /\ result' = NONE
    /\ UNCHANGED <<work, files, hardware, stale, deployed, budget>>

(* The dashboard refuses to start without a deployment checkpoint, where   *)
(* the command line starts and fails: see PreFlightFails.                  *)
Start ==
    /\ BeginRun(FAILED, {})
    /\ phase' = PRE_FLIGHT /\ results' = {}

(* from_checkpoint: without a deployment checkpoint there are no devices,  *)
(* and no complaint.                                                       *)
Resume ==
    /\ rfile.exists
    /\ BeginRun(rfile.phase, IF dfile.exists THEN dfile.known ELSE {})
    /\ phase' = rfile.phase
    /\ results' = rfile.results \cap devices'

RequestStop ==
    /\ running /\ ~stop_event
    /\ stop_event' = TRUE
    /\ UNCHANGED <<position, work, memory, files, hardware, history, budget>>

(* The run is over, and what it kept in memory is gone with it. *)
EndRun(r) ==
    /\ running' = FALSE /\ result' = r /\ late' = 0
    /\ at' = PRE_FLIGHT /\ step' = "enter" /\ resumeAfter' = FAILED
    /\ todo' = {} /\ passed' = {} /\ failed' = {}
    /\ phase' = PRE_FLIGHT /\ devices' = {} /\ results' = {}

PowerLoss ==
    /\ running /\ crashes < MaxCrashes
    /\ crashes' = crashes + 1
    /\ EndRun(LOST)
    /\ UNCHANGED <<stop_event, files, hardware, stale, deployed, errors,
                   deployments>>
-----------------------------------------------------------------------------
(* The phases *)

ShouldSkip_OffByOne(b) == b <= resumeAfter + 1

ShouldSkip(b) == b <= resumeAfter

Skip ==
    /\ running /\ step = "enter" /\ at \in Blocks /\ ShouldSkip(at)
    /\ step' = "stop"
    /\ UNCHANGED <<running, at, resumeAfter, work, memory, stop_event, files,
                   hardware, history, budget>>

(* Phase b begins; s is its next step, ds the devices to reset. *)
Begin(b, s, ds) ==
    /\ running /\ step = "enter" /\ at = b /\ ~ShouldSkip(b)
    /\ step' = s /\ todo' = ds /\ phase' = b
    /\ late' = IF stop_event THEN late + 1 ELSE late
    /\ UNCHANGED <<running, at, resumeAfter, passed, failed, results, stop_event,
                   files, hardware, result, stale, deployed, budget>>

PreFlight ==
    /\ dfile.exists
    /\ Begin(PRE_FLIGHT, "save", {})
    /\ devices' = dfile.known

PreFlightFails ==
    /\ running /\ step = "enter" /\ at = PRE_FLIGHT /\ ~ShouldSkip(at)
    /\ ~dfile.exists
    /\ EndRun(FAILED)
    /\ UNCHANGED <<stop_event, files, hardware, stale, deployed, budget>>

RunNtpReset ==
    /\ Begin(NTP_RESET, "work", devices \cap Appliance)
    /\ UNCHANGED devices

RunServerReset ==
    /\ Begin(SERVER_RESET, "work", devices \cap Server)
    /\ UNCHANGED devices

RunNetworkReset ==
    /\ Begin(NETWORK_RESET, "work", devices \cap Network)
    /\ UNCHANGED devices

(* The pivot only announces itself, and the final check only reports. *)
RunMarker(b) ==
    /\ Begin(b, "save", {})
    /\ UNCHANGED devices

(* Network devices from the outside in, whatever failed; others at once. *)
Ready(d) ==
    /\ d \in todo
    /\ at = NETWORK_RESET => \A e \in todo : Depth[e] <= Depth[d]

Reset(d, ok) ==
    /\ running /\ step = "work" /\ Ready(d)
    /\ ok \/ errors < MaxErrors
    /\ errors' = IF ok THEN errors ELSE errors + 1
    /\ todo' = todo \ {d}
    /\ passed' = IF ok THEN passed \cup {d} ELSE passed
    /\ failed' = IF ok THEN failed ELSE failed \cup {d}
    /\ visited' = visited \cup {d}
    /\ clean' = IF ok THEN clean \cup {d} ELSE clean \ {d}
    /\ UNCHANGED <<position, memory, stop_event, files, history, crashes,
                   deployments>>

FinishWork_FailuresForgotten ==
    /\ running /\ step = "work" /\ todo = {}
    /\ results' = results \cup passed \cup failed
    /\ step' = "save" /\ passed' = {} /\ failed' = {}
    /\ UNCHANGED <<running, at, resumeAfter, todo, phase, devices, stop_event,
                   files, hardware, history, budget>>

(* results.update: a failure is a result, and no reason to end. *)
FinishWork ==
    /\ running /\ step = "work" /\ todo = {}
    /\ results' = (results \ failed) \cup passed
    /\ step' = "save" /\ passed' = {} /\ failed' = {}
    /\ UNCHANGED <<running, at, resumeAfter, todo, phase, devices, stop_event,
                   files, hardware, history, budget>>

Save ==
    /\ running /\ step = "save"
    /\ rfile' = [exists |-> TRUE, phase |-> phase, results |-> results]
    /\ step' = "stop"
    /\ stale' = (stale /\ at # PRE_FLIGHT)
    /\ UNCHANGED <<running, at, resumeAfter, work, memory, stop_event, dfile,
                   hardware, result, late, deployed, budget>>

CheckStop ==
    /\ running /\ step = "stop"
    /\ IF stop_event /\ at \in StopChecked
         THEN EndRun(phase)
         ELSE /\ at' = at + 1 /\ step' = "enter"
              /\ UNCHANGED <<running, resumeAfter, work, memory, result, late>>
    /\ UNCHANGED <<stop_event, files, hardware, stale, deployed, budget>>

(* _remove_checkpoints: the rollback's own file, then the deployment's. *)
RemoveFirst ==
    /\ running /\ at = COMPLETE /\ step = "enter"
    /\ phase' = COMPLETE /\ step' = "remove"
    /\ rfile' = NoFile
    /\ UNCHANGED <<running, at, resumeAfter, work, devices, results, stop_event,
                   dfile, hardware, history, budget>>

RemoveSecond ==
    /\ running /\ step = "remove"
    /\ dfile' = NoFile /\ deployed' = "none" /\ stale' = FALSE
    /\ EndRun(COMPLETE)
    /\ UNCHANGED <<stop_event, rfile, hardware, budget>>
-----------------------------------------------------------------------------
Body ==
    \/ PreFlight \/ PreFlightFails
    \/ RunNtpReset \/ RunServerReset \/ RunNetworkReset
    \/ \E b \in {LAPTOP_PIVOT, FINAL_CHECK} : RunMarker(b)

Next ==
    \/ \E kn \in SUBSET AllDevices, how \in {"partial", "complete"} :
          Deploy(kn, how)
    \/ Start \/ Resume \/ RequestStop \/ PowerLoss
    \/ Skip \/ Body
    \/ \E d \in AllDevices, ok \in BOOLEAN : Reset(d, ok)
    \/ FinishWork \/ Save \/ CheckStop
    \/ RemoveFirst \/ RemoveSecond

Spec == Init /\ [][Next]_vars
-----------------------------------------------------------------------------
(* Properties *)

FlagsOK ==
    /\ running \in BOOLEAN /\ stop_event \in BOOLEAN /\ stale \in BOOLEAN
    /\ deployed \in {"none", "partial", "complete"}

PlaceOK ==
    /\ at \in Blocks \cup {COMPLETE}
    /\ step \in {"enter", "work", "save", "stop", "remove"}
    /\ step = "remove" => at = COMPLETE
    /\ resumeAfter \in Phases

WorkOK ==
    /\ todo \cup passed \cup failed \subseteq devices
    /\ step # "work" => todo = {} /\ passed = {} /\ failed = {}
    /\ step = "work" => at \in {NTP_RESET, SERVER_RESET, NETWORK_RESET}
    /\ at = NETWORK_RESET => todo \subseteq Network

StateOK ==
    /\ phase \in Phases
    /\ devices \subseteq AllDevices /\ results \subseteq devices
    /\ rfile \in RollbackFiles \cup {NoFile}
    /\ dfile \in DeploymentFiles \cup {NoFile}
    /\ visited \subseteq AllDevices /\ clean \subseteq visited

HistoryOK ==
    /\ result \in Results /\ late \in Nat
    /\ errors \in 0..MaxErrors /\ crashes \in 0..MaxCrashes
    /\ deployments \in 0..MaxDeployments

(* Each variable has its type, and work is done in the phases that reset.  *)
TypeOK == FlagsOK /\ PlaceOK /\ WorkOK /\ StateOK /\ HistoryOK

(* What a phase p that is passed over implies about the devices kn. *)
ResetUpTo(p, kn) ==
    /\ p >= NTP_RESET => Appliance \cap kn \subseteq visited
    /\ p >= SERVER_RESET => Server \cap kn \subseteq visited
    /\ p >= NETWORK_RESET => Network \cap kn \subseteq visited

(* No device of the deployment is forgotten: a run that is past a phase,   *)
(* by doing or by skipping it, has that phase's resets behind it.  So the  *)
(* laptop pivots away from the management network only when all servers    *)
(* and clocks were reset, and the files are removed after everything.      *)
NoDeviceForgotten ==
    running /\ ~stale /\ dfile.exists => ResetUpTo(at - 1, dfile.known)

(* A rollback that can be resumed has its list of devices: whenever the    *)
(* power fails, also between the removals of the two files, no rollback    *)
(* checkpoint is left without the deployment checkpoint it depends on.     *)
CheckpointsPaired == rfile.exists /\ ~stale => dfile.exists

(* A device that the rollback checkpoint says was reset, was, and is.      *)
ReportTruthful == rfile.exists /\ ~stale => rfile.results \subseteq clean

(* At most one phase begins after a stop_event request. *)
StopWithinOnePhase == late <= 1
=============================================================================
