----------------------------- MODULE Deployment -----------------------------
(***************************************************************************)
(* The phase sequencer of a deployment (orchestrator.py), together with    *)
(* the checkpoint file it writes (common/checkpoint.py), the operator who  *)
(* starts, stops and resumes it, and the power failures of the laptop it   *)
(* runs on.                                                                *)
(*                                                                         *)
(* A run executes eleven blocks of run_full_deployment in turn.  A block   *)
(* goes through the steps                                                  *)
(*    "enter"  skip the block (_should_skip) or begin its phase            *)
(*    "work"   the devices of the phase are operated on, one by one        *)
(*    "save"   _save_checkpoint                                            *)
(*    "stop"   _check_stop                                                 *)
(*    "gate"   has_blocking_errors, where the block tests it               *)
(* and a power failure may come between any two of them.                   *)
(***************************************************************************)
EXTENDS Integers, FiniteSets

CONSTANTS
    Network, Server, Appliance,  \* serials in the inventory, by category
    Firmware,       \* network devices whose spec names a firmware image
    Depth,          \* bfs_depth of a network device; 0 stands for None
    Reachable,      \* devices the topology graph connects to the laptop
    RoleStrings,    \* devices whose role is a string, not a DeviceRole member
    MaxFaults,      \* bound: device operations that fail, in all runs
    MaxCrashes      \* bound: power failures of the laptop

Devices == Network \cup Server \cup Appliance

ASSUME DeploymentAssumption ==
    /\ Firmware \subseteq Network
    /\ Depth \in [Network -> Nat]
    /\ Reachable \subseteq Devices
    /\ RoleStrings \subseteq Devices
    /\ MaxFaults \in Nat
    /\ MaxCrashes \in Nat

-----------------------------------------------------------------------------
(* A phase is its index in PHASE_ORDER; FAILED is not in that list.        *)

FAILED            == -1
PRE_FLIGHT        == 0
DISCOVERY         == 1
TOPOLOGY          == 2
CABLING           == 3
FIRMWARE_UPGRADE  == 4
HEAVY_TRANSFERS   == 5
NETWORK_CONFIG    == 6
LAPTOP_PIVOT      == 7
SERVER_PROVISION  == 8
NTP_PROVISION     == 9
POST_INSTALL      == 10
FINAL_VALIDATION  == 11
FACTORY_RESET     == 12
COMPLETE          == 13

Phases == FAILED .. COMPLETE
Blocks == DISCOVERY .. FINAL_VALIDATION

(* Definitions named X_Y are X with the fault Y: no action uses them, they  *)
(* are there to check that the properties would notice.                    *)
Gated_NotAfterNetwork == {CABLING, FIRMWARE_UPGRADE}

(* Blocks that end with the has_blocking_errors test. *)
Gated == {CABLING, FIRMWARE_UPGRADE, NETWORK_CONFIG}

(* Blocks that look at the stop event after their save. *)
StopChecked == Blocks \ {FINAL_VALIDATION}

(* Blocks that go through run_parallel_by_depth with stop_on_failure. *)
ByDepth == {FIRMWARE_UPGRADE, NETWORK_CONFIG}

VARIABLES
    running,      \* an orchestrator is executing run_full_deployment
    at, step,     \* the block it is in, and the step of that block
    resumeAfter,  \* the phase that _should_skip compares with
    dry,          \* dry_run
    todo, failed, \* devices of the phase not operated on yet; those that failed
    phase, known, order, errors,  \* DeploymentState: phase, matched devices,
                                  \* topology_order, phases that recorded errors
    stop,         \* the stop event
    file,         \* the checkpoint file
    configured, handled,  \* devices that hold their configuration; servers
                          \* and appliances whose driver has run
    result,       \* how the last run ended
    late,         \* history: phases begun since the stop event was set
    recorded,     \* history: a checkpoint with errors was saved since Start
    faults, crashes

position == <<running, at, step, resumeAfter, dry>>
work     == <<todo, failed>>
memory   == <<phase, known, order, errors>>
hardware == <<configured, handled>>
history  == <<result, late, recorded>>
budget   == <<faults, crashes>>

vars == <<position, work, memory, stop, file, hardware, history, budget>>

NoFile == [exists |-> FALSE]

Snapshot(p) == [exists |-> TRUE, phase |-> p, known |-> known,
                order |-> order, errors |-> errors]

Checkpoints ==
    [exists : {TRUE}, phase : Phases, known : SUBSET Devices,
     order : SUBSET Devices, errors : SUBSET Blocks]

(* How a run ends: with its phase, with an exception, or with the power. *)
NONE   == -2
RAISED == -3
LOST   == -4
Results == LOST .. COMPLETE

Init ==
    /\ running = FALSE /\ at = DISCOVERY /\ step = "enter"
    /\ resumeAfter = PRE_FLIGHT /\ dry = FALSE
    /\ todo = {} /\ failed = {}
    /\ phase = PRE_FLIGHT /\ known = {} /\ order = {} /\ errors = {}
    /\ stop = FALSE /\ file = NoFile
    /\ configured = {} /\ handled = {}
    /\ result = NONE /\ late = 0 /\ recorded = FALSE
    /\ faults = 0 /\ crashes = 0
-----------------------------------------------------------------------------
(* The operator *)

(* A run begins: with an empty DeploymentState, or with the one that       *)
(* from_checkpoint reads back.                                             *)
BeginRun(after, d) ==
    /\ ~running
    /\ running' = TRUE /\ at' = DISCOVERY /\ step' = "enter"
    /\ resumeAfter' = after /\ dry' = d
    /\ stop' = FALSE /\ late' = 0 /\ result' = NONE
    /\ UNCHANGED <<work, file, hardware, budget>>

Start(d) ==
    /\ BeginRun(PRE_FLIGHT, d)
    /\ phase' = PRE_FLIGHT /\ known' = {} /\ order' = {} /\ errors' = {}
    /\ recorded' = FALSE

Resume_ErrorsNotRestored(d) ==
    /\ file.exists
    /\ BeginRun(file.phase, d)
    /\ phase' = file.phase /\ known' = file.known
    /\ order' = file.order /\ errors' = {}
    /\ UNCHANGED recorded

Resume(d) ==
    /\ file.exists
    /\ BeginRun(file.phase, d)
    /\ phase' = file.phase /\ known' = file.known
    /\ order' = file.order /\ errors' = file.errors
    /\ UNCHANGED recorded

RequestStop ==
    /\ running /\ ~stop
    /\ stop' = TRUE
    /\ UNCHANGED <<position, work, memory, file, hardware, history, budget>>

(* The run is over, and the state it kept in memory is gone with it. *)
EndRun(r) ==
    /\ running' = FALSE /\ result' = r /\ late' = 0
    /\ at' = DISCOVERY /\ step' = "enter" /\ resumeAfter' = PRE_FLIGHT
    /\ dry' = FALSE /\ todo' = {} /\ failed' = {}
    /\ phase' = PRE_FLIGHT /\ known' = {} /\ order' = {} /\ errors' = {}

(* Power loss: nothing survives but the file and the devices. *)
PowerLoss ==
    /\ running /\ crashes < MaxCrashes
    /\ crashes' = crashes + 1
    /\ EndRun(LOST)
    /\ UNCHANGED <<stop, file, hardware, recorded, faults>>
-----------------------------------------------------------------------------
(* Entering a block *)

ShouldSkip_OffByOne(b) == b <= resumeAfter + 1

ShouldSkip(b) == b <= resumeAfter

NextBlock(b) == IF b = FINAL_VALIDATION THEN COMPLETE ELSE b + 1

(* A skipped block does nothing, except that the errors test which follows *)
(* the cabling block stands outside its "if".                              *)
Skip ==
    /\ running /\ step = "enter" /\ at \in Blocks /\ ShouldSkip(at)
    /\ IF at = CABLING
         THEN step' = "gate" /\ UNCHANGED at
         ELSE at' = NextBlock(at) /\ UNCHANGED step
    /\ UNCHANGED <<running, resumeAfter, dry, work, memory, stop, file,
                   hardware, history, budget>>

(* The phase of block b begins; s is its next step, ds the devices to do.  *)
Begin(b, s, ds) ==
    /\ running /\ step = "enter" /\ at = b /\ ~ShouldSkip(b)
    /\ step' = s /\ todo' = ds
    /\ late' = IF stop THEN late + 1 ELSE late
    /\ UNCHANGED <<running, at, resumeAfter, dry, failed, errors, stop, file,
                   hardware, result, recorded, budget>>

(* run_discovery matches whichever devices answer this time; run_topology  *)
(* orders those that the graph connects to the laptop.                     *)
Rediscover == \E found \in SUBSET Devices :
    known' = found /\ order' = Reachable \cap found

(* Blocks that rediscover when discovered_devices is empty.  Devices that  *)
(* are not in the inventory may have been discovered when none is known.   *)
RediscoverIfNone ==
    \/ UNCHANGED <<known, order>>
    \/ known = {} /\ Rediscover

NetworkIn(ord, kn) == ord \cap kn \cap Network

RunDiscovery ==
    /\ Begin(DISCOVERY, "save", {})
    /\ phase' = DISCOVERY /\ known' \in SUBSET Devices /\ UNCHANGED order

RunTopology ==
    /\ Begin(TOPOLOGY, "save", {})
    /\ order' = Reachable \cap known /\ UNCHANGED <<phase, known>>

RunValidation ==
    /\ Begin(CABLING, "save", {})
    /\ phase' = CABLING /\ RediscoverIfNone

RunFirmwareUpgrade ==
    /\ phase' = FIRMWARE_UPGRADE /\ RediscoverIfNone
    /\ Begin(FIRMWARE_UPGRADE, "work", NetworkIn(order', known') \cap Firmware)

(* The phase is not set to NETWORK_CONFIG; with an empty topology_order it *)
(* is set back to DISCOVERY.                                               *)
RunNetworkConfig ==
    /\ IF order = {} THEN Rediscover /\ phase' = DISCOVERY
                     ELSE UNCHANGED <<known, order, phase>>
    /\ Begin(NETWORK_CONFIG, "work",
             IF errors = {} THEN NetworkIn(order', known') ELSE {})

RunServerProvisioning ==
    /\ Begin(SERVER_PROVISION, "work", Server \cap known)
    /\ phase' = SERVER_PROVISION /\ UNCHANGED <<known, order>>

RunApplianceProvisioning ==
    /\ Begin(NTP_PROVISION, "work", Appliance \cap known)
    /\ phase' = NTP_PROVISION /\ UNCHANGED <<known, order>>

(* The phases that only announce themselves. *)
RunMarker(b) ==
    /\ Begin(b, "save", {})
    /\ phase' = b /\ UNCHANGED <<known, order>>

RunMarkers == \E b \in {HEAVY_TRANSFERS, LAPTOP_PIVOT, POST_INSTALL,
                        FINAL_VALIDATION} : RunMarker(b)
-----------------------------------------------------------------------------
(* Working on the devices of a phase *)

(* run_parallel_by_depth: the deepest group first, and no further group    *)
(* once a device has failed.  run_independent_parallel: any device.        *)
Ready(d) ==
    /\ d \in todo
    /\ at \in ByDepth => /\ \A e \in todo : Depth[e] <= Depth[d]
                         /\ \A f \in failed : Depth[f] <= Depth[d]

(* What the operation leaves on the device.  A firmware upgrade leaves     *)
(* nothing that a later phase or a resume looks at.                        *)
Effect(d, ok) ==
    /\ configured' = IF at = NETWORK_CONFIG
                       THEN IF ok THEN configured \cup {d} ELSE configured \ {d}
                       ELSE configured
    /\ handled' = IF at \in {SERVER_PROVISION, NTP_PROVISION}
                    THEN handled \cup {d} ELSE handled

Operate(d, ok) ==
    /\ running /\ step = "work" /\ Ready(d)
    /\ ok \/ faults < MaxFaults
    /\ faults' = IF ok THEN faults ELSE faults + 1
    /\ todo' = todo \ {d}
    /\ failed' = IF ok THEN failed ELSE failed \cup {d}
    /\ Effect(d, ok)
    /\ UNCHANGED <<position, memory, stop, file, history, crashes>>

FinishWork_NeverOnFailure ==
    /\ running /\ step = "work" /\ todo = {} /\ failed = {}
    /\ step' = "save" /\ todo' = {}
    /\ UNCHANGED <<running, at, resumeAfter, dry, failed, memory, stop, file,
                   hardware, history, budget>>

(* The executor returns: every group is done, or one of them failed.  The  *)
(* failures become errors of the state.                                    *)
FinishWork ==
    /\ running /\ step = "work"
    /\ \/ todo = {}
       \/ failed # {} /\ \A d \in todo : ~Ready(d)
    /\ errors' = IF failed = {} THEN errors ELSE errors \cup {at}
    /\ step' = "save" /\ todo' = {} /\ failed' = {}
    /\ UNCHANGED <<running, at, resumeAfter, dry, phase, known, order, stop,
                   file, hardware, history, budget>>
-----------------------------------------------------------------------------
(* Leaving a block *)

(* _serialize_device reads role.value, which a string does not have. *)
Serialisable == known \cap RoleStrings = {}

(* Temporary file, then rename: the file changes in one step. *)
Save ==
    /\ running /\ step = "save" /\ Serialisable
    /\ file' = Snapshot(phase)
    /\ step' = "stop"
    /\ recorded' = (recorded \/ errors # {})
    /\ UNCHANGED <<running, at, resumeAfter, dry, work, memory, stop,
                   hardware, result, late, budget>>

SaveRaises ==
    /\ running /\ step = "save" /\ ~Serialisable
    /\ EndRun(RAISED)
    /\ UNCHANGED <<stop, file, hardware, recorded, budget>>

CheckStop ==
    /\ running /\ step = "stop"
    /\ IF stop /\ at \in StopChecked
         THEN EndRun(phase)
         ELSE /\ step' = "gate"
              /\ UNCHANGED <<running, at, resumeAfter, dry, work, memory,
                             result, late>>
    /\ UNCHANGED <<stop, file, hardware, recorded, budget>>

(* Blocking errors: the phase becomes FAILED, is saved, and the run ends.  *)
Block ==
    /\ running /\ step = "gate" /\ at \in Gated /\ errors # {}
    /\ file' = Snapshot(FAILED)
    /\ EndRun(FAILED)
    /\ UNCHANGED <<stop, hardware, recorded, budget>>

EndDryRun ==
    /\ running /\ step = "gate" /\ at = CABLING /\ errors = {} /\ dry
    /\ EndRun(phase)
    /\ UNCHANGED <<stop, file, hardware, recorded, budget>>

Proceed ==
    /\ running /\ step = "gate"
    /\ at \in Gated => errors = {}
    /\ ~(at = CABLING /\ dry)
    /\ at' = NextBlock(at) /\ step' = "enter"
    /\ UNCHANGED <<running, resumeAfter, dry, work, memory, stop, file,
                   hardware, history, budget>>

(* The phase becomes COMPLETE and the checkpoint file is removed. *)
Finish ==
    /\ running /\ at = COMPLETE
    /\ file' = NoFile
    /\ EndRun(COMPLETE)
    /\ UNCHANGED <<stop, hardware, recorded, budget>>
-----------------------------------------------------------------------------
Body ==
    \/ RunDiscovery \/ RunTopology \/ RunValidation
    \/ RunFirmwareUpgrade \/ RunNetworkConfig
    \/ RunServerProvisioning \/ RunApplianceProvisioning
    \/ RunMarkers

(* What the orchestrator does of itself. *)
Orchestrate ==
    \/ Skip \/ Body
    \/ \E d \in Devices, ok \in BOOLEAN : Operate(d, ok)
    \/ FinishWork
    \/ Save \/ SaveRaises \/ CheckStop
    \/ Block \/ EndDryRun \/ Proceed
    \/ Finish

Next ==
    \/ \E d \in BOOLEAN : Start(d) \/ Resume(d)
    \/ RequestStop
    \/ PowerLoss
    \/ Orchestrate

Spec == Init /\ [][Next]_vars

(* The orchestrator's thread is scheduled, and device operations return.   *)
FairSpec == Spec /\ WF_vars(Orchestrate)
-----------------------------------------------------------------------------
(* Properties *)

FlagsOK ==
    /\ running \in BOOLEAN /\ dry \in BOOLEAN /\ stop \in BOOLEAN
    /\ recorded \in BOOLEAN

PlaceOK ==
    /\ at \in Blocks \cup {COMPLETE}
    /\ step \in {"enter", "work", "save", "stop", "gate"}
    /\ resumeAfter \in Phases

WorkOK ==
    /\ todo \subseteq known /\ failed \subseteq known
    /\ step # "work" => todo = {} /\ failed = {}
    /\ step = "work" => at \in ByDepth \cup {SERVER_PROVISION, NTP_PROVISION}
    /\ at \in ByDepth => todo \cup failed \subseteq Network
    /\ at = SERVER_PROVISION => todo \subseteq Server
    /\ at = NTP_PROVISION => todo \subseteq Appliance

StateOK ==
    /\ phase \in Phases /\ errors \subseteq Blocks
    /\ known \subseteq Devices /\ order \subseteq Devices
    /\ file \in Checkpoints \cup {NoFile}
    /\ configured \subseteq Network /\ handled \subseteq Server \cup Appliance

HistoryOK ==
    /\ result \in Results
    /\ late \in Nat
    /\ faults \in 0..MaxFaults /\ crashes \in 0..MaxCrashes

(* Each variable has its type; devices are worked on in the phases that    *)
(* have devices, and firmware and configuration go to network devices.     *)
TypeOK == FlagsOK /\ PlaceOK /\ WorkOK /\ StateOK /\ HistoryOK

(* What a phase p that is passed over implies about the devices (kn, ord). *)
DoneUpTo(p, kn, ord) ==
    /\ p >= NETWORK_CONFIG => NetworkIn(ord, kn) \subseteq configured
    /\ p >= SERVER_PROVISION => Server \cap kn \subseteq handled
    /\ p >= NTP_PROVISION => Appliance \cap kn \subseteq handled

(* The checkpoint never claims more than was done: a resume may skip every *)
(* phase up to the one recorded, whenever the power failed.                *)
CheckpointHonest ==
    file.exists => DoneUpTo(file.phase, file.known, file.order)

(* A run that has gone past a phase, skipping it or not, has its work      *)
(* behind it: the laptop only pivots to a configured network, and a        *)
(* deployment only completes after every phase reached its devices.        *)
PhasesBuildOnEachOther ==
    running => DoneUpTo(at - 1, known, order)

(* Once an error has been recorded in the checkpoint of a deployment, no   *)
(* run of it touches a network device: not the run that failed, and none   *)
(* that resumes it, wherever between the failure, its checkpoint and the   *)
(* FAILED one the power went out.                                          *)
NoNetworkChangeAfterError ==
    running /\ at \in ByDepth /\ todo # {} => ~recorded

(* A stop request lets the current phase finish, and at most one more      *)
(* begins: the request may fall between a phase's check and the next one.  *)
StopWithinOnePhase == late <= 1

(* A dry run has no device to work on, whatever checkpoint it resumes: it  *)
(* meets the dry-run exit even where it skips the phase before it.         *)
DryRunTouchesNothing == dry => todo = {}

(* Whatever fails on the way, a run comes to an end.                       *)
RunEnds == running ~> ~running
=============================================================================
