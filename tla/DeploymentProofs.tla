-------------------------- MODULE DeploymentProofs --------------------------
(***************************************************************************)
(* The phase sequencer keeps its promises for any inventory, and for any   *)
(* number of failures, power losses, stops and resumes.                    *)
(***************************************************************************)
EXTENDS Deployment, TLAPS

(* A block past its entry is not one that the resume skips, but for the    *)
(* errors test after the cabling block.                                    *)
PositionInv ==
    /\ ~running => step = "enter" /\ late = 0
    /\ step \in {"work", "save", "stop"} => at > resumeAfter
    /\ step = "gate" /\ at # CABLING => at > resumeAfter
    /\ at = COMPLETE => step = "enter"

(* The phase in memory is that of the checkpoint while blocks are skipped; *)
(* afterwards it stays behind the block, and never names network_config.   *)
PhaseInv ==
    running =>
        /\ at <= resumeAfter => phase = resumeAfter
        /\ at > resumeAfter => phase <= at
        /\ at > resumeAfter /\ (step = "enter" \/ at = NETWORK_CONFIG)
             => phase < at

(* So does the phase in the file, once this run has saved for the first    *)
(* time or has been resumed from it.                                       *)
FileInv ==
    running =>
        /\ at <= resumeAfter => file.exists /\ file.phase = resumeAfter
        /\ at > resumeAfter /\ file.exists
             /\ ~(at = DISCOVERY /\ step \in {"enter", "save"}) =>
             /\ file.phase <= at
             /\ step = "enter" \/ at = NETWORK_CONFIG => file.phase < at

(* Blocks that are skipped were done. *)
SkipInv == running /\ at <= resumeAfter => DoneUpTo(resumeAfter, known, order)

AfterWork == step \in {"save", "stop", "gate"}

(* Every device of the phase has been operated on, is still to be, or has  *)
(* failed and will be an error that the gate sees.                         *)
WorkInv ==
    running =>
        /\ at = NETWORK_CONFIG /\ errors = {} =>
             /\ step = "work" =>
                  NetworkIn(order, known)
                    \subseteq configured \cup todo \cup failed
             /\ AfterWork => NetworkIn(order, known) \subseteq configured
        /\ at = SERVER_PROVISION =>
             /\ step = "work" => Server \cap known \subseteq handled \cup todo
             /\ AfterWork => Server \cap known \subseteq handled
        /\ at = NTP_PROVISION =>
             /\ step = "work" =>
                  Appliance \cap known \subseteq handled \cup todo
             /\ AfterWork => Appliance \cap known \subseteq handled

(* An error that has been recorded is in memory, and in the file if any;   *)
(* a network device is only ever operated on when there is no error.       *)
ErrorInv ==
    /\ recorded /\ running => errors # {}
    /\ recorded /\ file.exists => file.errors # {}
    /\ running /\ at = FIRMWARE_UPGRADE /\ step \in {"enter", "work"}
         => errors = {}
    /\ running /\ at = NETWORK_CONFIG /\ todo # {} => errors = {}

(* Only the phase in progress, or what follows the last one, is late. *)
StopInv ==
    /\ late <= 1
    /\ late > 0 => /\ running /\ stop
                   /\ \/ step \in {"work", "save", "stop"}
                      \/ at = FINAL_VALIDATION /\ step = "gate"
                      \/ at = COMPLETE

DryInv == dry => running /\ at <= CABLING

IInv ==
    /\ TypeOK /\ PositionInv /\ PhaseInv /\ FileInv /\ SkipInv /\ WorkInv
    /\ ErrorInv /\ StopInv /\ DryInv
    /\ CheckpointHonest /\ PhasesBuildOnEachOther
-----------------------------------------------------------------------------
USE DEF FAILED, PRE_FLIGHT, DISCOVERY, TOPOLOGY, CABLING, FIRMWARE_UPGRADE,
        HEAVY_TRANSFERS, NETWORK_CONFIG, LAPTOP_PIVOT, SERVER_PROVISION,
        NTP_PROVISION, POST_INSTALL, FINAL_VALIDATION, FACTORY_RESET,
        COMPLETE, NONE, RAISED, LOST
USE DEF position, work, memory, hardware, history, budget
USE DEF IInv, TypeOK, AfterWork

LEMMA FileType ==
    ASSUME StateOK, file.exists
    PROVE  /\ file \in Checkpoints /\ file.phase \in Phases
           /\ file.known \subseteq Devices /\ file.order \subseteq Devices
           /\ file.errors \subseteq Blocks
<1>1. file # NoFile
  <2> SUFFICES ASSUME file = NoFile PROVE FALSE
    OBVIOUS
  <2> QED
    BY Zenon DEF NoFile
<1>2. file \in Checkpoints
  BY <1>1 DEF StateOK
<1> QED
  BY <1>2 DEF Checkpoints

(* A stop request touches the stop event only. *)
LEMMA RequestStopIInv == IInv /\ RequestStop => IInv'
<1> SUFFICES ASSUME IInv, RequestStop PROVE IInv'
  OBVIOUS
<1> USE DEF RequestStop
<1>1. FlagsOK' /\ PlaceOK' /\ WorkOK'
  BY DEF FlagsOK, PlaceOK, WorkOK
<1>2. StateOK' /\ HistoryOK'
  BY DEF StateOK, HistoryOK
<1>3. PositionInv' /\ PhaseInv' /\ FileInv' /\ SkipInv'
  BY FileType DEF PositionInv, PhaseInv, FileInv, SkipInv, DoneUpTo
<1>4. WorkInv' /\ ErrorInv' /\ StopInv' /\ DryInv'
  BY DEF WorkInv, ErrorInv, StopInv, DryInv
<1>5. CheckpointHonest' /\ PhasesBuildOnEachOther'
  BY DEF CheckpointHonest, PhasesBuildOnEachOther, DoneUpTo
<1> QED
  BY <1>1, <1>2, <1>3, <1>4, <1>5

(* Skipping a block: what the checkpoint says is done, is. *)
LEMMA SkipStepIInv == IInv /\ Skip => IInv'
<1> SUFFICES ASSUME IInv, Skip PROVE IInv'
  OBVIOUS
<1> USE DEF Skip, ShouldSkip
<1>1. FlagsOK' /\ WorkOK'
  BY DEF FlagsOK, WorkOK
<1>2. StateOK' /\ HistoryOK'
  BY DEF StateOK, HistoryOK
<1>3. PositionInv' /\ SkipInv'
  BY DEF PositionInv, SkipInv, DoneUpTo
<1>4. WorkInv'
  BY DEF WorkInv
<1>5. CheckpointHonest'
  BY DEF CheckpointHonest, DoneUpTo
<1>6. PlaceOK'
  BY DEF PlaceOK, NextBlock, Blocks
<1>7. PhaseInv'
  BY DEF PhaseInv, StateOK, Phases, NextBlock, Blocks
<1>8. FileInv'
  BY FileType DEF FileInv, Phases, NextBlock, Blocks
<1>9. ErrorInv'
  BY DEF ErrorInv, WorkOK, NextBlock, Blocks
<1>10. StopInv'
  BY DEF StopInv, Blocks
<1>11. DryInv'
  BY DEF DryInv, NextBlock, Blocks
<1>12. PhasesBuildOnEachOther'
  BY DEF PhasesBuildOnEachOther, DoneUpTo, SkipInv, NextBlock, Blocks
<1> QED
  BY <1>1, <1>2, <1>3, <1>4, <1>5, <1>6, <1>7, <1>8, <1>9, <1>10, <1>11, <1>12

(* The executor returns: nothing is left to do, or there is an error. *)
LEMMA FinishWorkIInv == IInv /\ FinishWork => IInv'
<1> SUFFICES ASSUME IInv, FinishWork PROVE IInv'
  OBVIOUS
<1> USE DEF FinishWork, Ready
<1>1. FlagsOK' /\ PlaceOK' /\ WorkOK'
  BY DEF FlagsOK, PlaceOK, WorkOK
<1>2. HistoryOK'
  BY DEF HistoryOK
<1>3. PositionInv' /\ PhaseInv' /\ FileInv' /\ SkipInv'
  BY FileType DEF PositionInv, PhaseInv, FileInv, SkipInv, DoneUpTo
<1>4. ErrorInv' /\ StopInv' /\ DryInv'
  BY DEF ErrorInv, StopInv, DryInv
<1>5. CheckpointHonest' /\ PhasesBuildOnEachOther'
  BY DEF CheckpointHonest, PhasesBuildOnEachOther, DoneUpTo
<1>6. StateOK'
  BY DEF StateOK, PositionInv, PlaceOK
<1>7. WorkInv'
  BY DEF WorkInv, ByDepth
<1> QED
  BY <1>1, <1>2, <1>3, <1>4, <1>5, <1>6, <1>7

(* A save: the checkpoint may claim the phase that was just done. *)
LEMMA SaveIInv == IInv /\ Save => IInv'
<1> SUFFICES ASSUME IInv, Save PROVE IInv'
  OBVIOUS
<1> USE DEF Save, Snapshot
<1>1. FlagsOK' /\ PlaceOK' /\ WorkOK'
  BY DEF FlagsOK, PlaceOK, WorkOK
<1>2. PositionInv' /\ PhaseInv' /\ SkipInv'
  BY DEF PositionInv, PhaseInv, SkipInv, DoneUpTo
<1>3. WorkInv' /\ ErrorInv' /\ StopInv' /\ DryInv'
  BY DEF WorkInv, ErrorInv, StopInv, DryInv
<1>4. PhasesBuildOnEachOther'
  BY DEF PhasesBuildOnEachOther, DoneUpTo
<1>5. StateOK'
  BY DEF StateOK, Checkpoints
<1>6. HistoryOK'
  BY DEF HistoryOK, PositionInv, PlaceOK
<1>7. FileInv'
  BY FileType DEF FileInv, PhaseInv
<1>8. CheckpointHonest'
  BY DEF CheckpointHonest, DoneUpTo, PhasesBuildOnEachOther, PhaseInv,
         WorkInv, StateOK, Phases, PositionInv, PlaceOK, Blocks
<1> QED
  BY <1>1, <1>2, <1>3, <1>4, <1>5, <1>6, <1>7, <1>8

(* Past the errors test, the phase of the block is behind the run. *)
LEMMA ProceedIInv == IInv /\ Proceed => IInv'
<1> SUFFICES ASSUME IInv, Proceed PROVE IInv'
  OBVIOUS
<1> USE DEF Proceed
<1>1. FlagsOK' /\ WorkOK'
  BY DEF FlagsOK, WorkOK
<1>2. StateOK' /\ HistoryOK'
  BY DEF StateOK, HistoryOK
<1>3. PositionInv'
  BY DEF PositionInv
<1>4. WorkInv'
  BY DEF WorkInv
<1>5. CheckpointHonest'
  BY DEF CheckpointHonest, DoneUpTo
<1>6. PlaceOK'
  BY DEF PlaceOK, PositionInv, NextBlock, Blocks
<1>7. PhaseInv'
  BY DEF PhaseInv, StateOK, Phases, PlaceOK, NextBlock, Blocks
<1>8. FileInv'
  BY FileType DEF FileInv, Phases, PlaceOK, NextBlock, Blocks
<1>9. SkipInv'
  BY DEF SkipInv, Phases, DoneUpTo, PlaceOK, NextBlock, Blocks
<1>10. ErrorInv'
  BY DEF ErrorInv, WorkOK, PlaceOK, NextBlock, Blocks, Gated
<1>11. StopInv'
  BY DEF StopInv, PositionInv, NextBlock
<1>12. DryInv'
  BY DEF DryInv, PlaceOK, NextBlock, Blocks
<1>13. PhasesBuildOnEachOther'
  BY DEF PhasesBuildOnEachOther, PlaceOK, DoneUpTo, WorkInv, Gated, NextBlock,
         Blocks
<1> QED
  BY <1>1, <1>2, <1>3, <1>4, <1>5, <1>6, <1>7, <1>8, <1>9,
     <1>10, <1>11, <1>12, <1>13

(* A new deployment. *)
LEMMA StartIInv == IInv /\ (\E d \in BOOLEAN : Start(d)) => IInv'
<1> SUFFICES ASSUME IInv, NEW d \in BOOLEAN, Start(d) PROVE IInv'
  OBVIOUS
<1> USE DEF Start, BeginRun
<1>1. FlagsOK'
  BY DEF FlagsOK
<1>2. PositionInv' /\ PhaseInv' /\ FileInv' /\ SkipInv'
  BY FileType DEF PositionInv, PhaseInv, FileInv, SkipInv, DoneUpTo
<1>3. WorkInv' /\ ErrorInv' /\ StopInv' /\ DryInv'
  BY DEF WorkInv, ErrorInv, StopInv, DryInv
<1>4. CheckpointHonest' /\ PhasesBuildOnEachOther'
  BY DEF CheckpointHonest, PhasesBuildOnEachOther, DoneUpTo
<1>5. PlaceOK'
  BY DEF PlaceOK, Blocks, Phases
<1>6. WorkOK'
  BY DEF WorkOK, PositionInv
<1>7. StateOK'
  BY DEF StateOK, Phases
<1>8. HistoryOK'
  BY DEF HistoryOK, Results
<1> QED
  BY <1>1, <1>2, <1>3, <1>4, <1>5, <1>6, <1>7, <1>8

(* A resume takes its state from a checkpoint that is honest. *)
LEMMA ResumeIInv == IInv /\ (\E d \in BOOLEAN : Resume(d)) => IInv'
<1> SUFFICES ASSUME IInv, NEW d \in BOOLEAN, Resume(d) PROVE IInv'
  OBVIOUS
<1> USE DEF Resume, BeginRun
<1>0. /\ file.phase \in Phases /\ file.errors \subseteq Blocks
      /\ file.known \subseteq Devices /\ file.order \subseteq Devices
  BY FileType
<1>1. FlagsOK'
  BY DEF FlagsOK
<1>2. PositionInv' /\ FileInv'
  BY FileType DEF PositionInv, FileInv
<1>3. WorkInv' /\ ErrorInv' /\ StopInv' /\ DryInv'
  BY DEF WorkInv, ErrorInv, StopInv, DryInv
<1>4. CheckpointHonest' /\ PhasesBuildOnEachOther'
  BY DEF CheckpointHonest, PhasesBuildOnEachOther, DoneUpTo
<1>5. PlaceOK'
  BY <1>0 DEF PlaceOK, Blocks
<1>6. WorkOK'
  BY DEF WorkOK, PositionInv
<1>7. StateOK'
  BY <1>0 DEF StateOK
<1>8. HistoryOK'
  BY DEF HistoryOK, Results
<1>9. PhaseInv'
  BY <1>0 DEF PhaseInv, Phases
<1>10. SkipInv'
  BY <1>0 DEF SkipInv, DoneUpTo, CheckpointHonest
<1> QED
  BY <1>1, <1>2, <1>3, <1>4, <1>5, <1>6, <1>7, <1>8, <1>9, <1>10

(* One device is operated on: the checkpoint does not claim its phase yet. *)
LEMMA OperateIInv ==
    IInv /\ (\E d \in Devices, ok \in BOOLEAN : Operate(d, ok)) => IInv'
<1> SUFFICES ASSUME IInv, NEW d \in Devices, NEW ok \in BOOLEAN,
                     Operate(d, ok)
              PROVE  IInv'
  OBVIOUS
<1> USE DEF Operate, Effect, Ready
<1>1. FlagsOK' /\ PlaceOK' /\ WorkOK'
  BY DEF FlagsOK, PlaceOK, WorkOK
<1>2. PositionInv' /\ PhaseInv' /\ FileInv'
  BY FileType DEF PositionInv, PhaseInv, FileInv
<1>3. WorkInv' /\ ErrorInv' /\ StopInv' /\ DryInv'
  BY DEF WorkInv, ErrorInv, StopInv, DryInv
<1>4. PhasesBuildOnEachOther'
  BY DEF PhasesBuildOnEachOther, DoneUpTo
<1>5. StateOK'
  BY DEF StateOK, WorkOK
<1>6. HistoryOK'
  <2>1. faults' \in 0..MaxFaults
    <3>1. faults' = faults \/ (faults' = faults + 1 /\ faults < MaxFaults)
      OBVIOUS
    <3>2. faults \in 0..MaxFaults /\ MaxFaults \in Nat
      BY DeploymentAssumption DEF HistoryOK
    <3> QED
      BY <3>1, <3>2
  <2> QED
    BY <2>1 DEF HistoryOK
<1>7. SkipInv'
  BY DEF SkipInv, Phases, DoneUpTo, PositionInv, PlaceOK
<1>8. CheckpointHonest'
  <2>1. at = NETWORK_CONFIG => (file.exists => file.phase < NETWORK_CONFIG)
    BY DEF FileInv, PositionInv
  <2>2. file.exists => file.phase \in Int
    BY FileType DEF Phases
  <2>3. CASE at = NETWORK_CONFIG
    BY <2>1, <2>2, <2>3 DEF CheckpointHonest, DoneUpTo
  <2>4. CASE at # NETWORK_CONFIG
    BY <2>4 DEF CheckpointHonest, DoneUpTo
  <2> QED
    BY <2>3, <2>4
<1> QED
  BY <1>1, <1>2, <1>3, <1>4, <1>5, <1>6, <1>7, <1>8

(* Every way a run can end, given what it does to the file. *)
LEMMA EndRunIInv ==
    ASSUME IInv, NEW r \in Results, EndRun(r), FlagsOK', StateOK',
           HistoryOK', CheckpointHonest', recorded' = recorded,
           file' = file \/ ~file'.exists \/ file'.errors # {}
    PROVE  IInv'
<1> USE DEF EndRun
<1>1. FlagsOK' /\ WorkOK'
  BY DEF WorkOK
<1>2. StateOK' /\ HistoryOK'
  OBVIOUS
<1>3. PositionInv' /\ PhaseInv' /\ FileInv' /\ SkipInv'
  BY FileType DEF PositionInv, PhaseInv, FileInv, SkipInv, DoneUpTo
<1>4. WorkInv' /\ ErrorInv' /\ StopInv' /\ DryInv'
  BY DEF WorkInv, ErrorInv, StopInv, DryInv
<1>5. CheckpointHonest' /\ PhasesBuildOnEachOther'
  BY DEF PhasesBuildOnEachOther, DoneUpTo
<1>6. PlaceOK'
  BY DEF PlaceOK, Blocks, Phases
<1> QED
  BY <1>1, <1>2, <1>3, <1>4, <1>5, <1>6

(* The stop event ends the run, or nothing changes but the step. *)
LEMMA CheckStopIInv == IInv /\ CheckStop => IInv'
<1> SUFFICES ASSUME IInv, CheckStop PROVE IInv'
  OBVIOUS
<1> USE DEF CheckStop
<1>1. CASE stop /\ at \in StopChecked
  <2>1. EndRun(phase) /\ phase \in Results
    BY <1>1 DEF StateOK, Phases, Results
  <2>2. FlagsOK'
    BY <1>1 DEF FlagsOK, EndRun
  <2>3. StateOK'
    BY <1>1 DEF StateOK, EndRun, Phases
  <2>4. HistoryOK'
    BY <1>1, <2>1 DEF HistoryOK, EndRun
  <2>5. CheckpointHonest'
    BY DEF CheckpointHonest, DoneUpTo
  <2> QED
    BY <1>1, <2>1, <2>2, <2>3, <2>4, <2>5, EndRunIInv
<1>2. CASE ~(stop /\ at \in StopChecked)
  <2>1. FlagsOK' /\ PlaceOK' /\ WorkOK'
    BY <1>2 DEF FlagsOK, PlaceOK, WorkOK
  <2>2. StateOK' /\ HistoryOK'
    BY <1>2 DEF StateOK, HistoryOK
  <2>3. PositionInv' /\ PhaseInv' /\ FileInv' /\ SkipInv'
    BY <1>2, FileType DEF PositionInv, PhaseInv, FileInv, SkipInv, DoneUpTo
  <2>4. WorkInv' /\ ErrorInv' /\ DryInv'
    BY <1>2 DEF WorkInv, ErrorInv, DryInv
  <2>5. CheckpointHonest' /\ PhasesBuildOnEachOther'
    BY <1>2 DEF CheckpointHonest, PhasesBuildOnEachOther, DoneUpTo
  <2>6. StopInv'
    BY <1>2 DEF StopInv, PlaceOK, StopChecked
  <2> QED
    BY <2>1, <2>2, <2>3, <2>4, <2>5, <2>6
<1> QED
  BY <1>1, <1>2

(* What every phase's beginning has in common. *)
LEMMA BeginCommon ==
    ASSUME IInv, NEW b \in Blocks, NEW s \in {"work", "save"}, NEW ds,
           Begin(b, s, ds),
           s = "work" => b \in ByDepth \cup {SERVER_PROVISION, NTP_PROVISION}
    PROVE  /\ FlagsOK' /\ PlaceOK' /\ HistoryOK' /\ PositionInv' /\ FileInv'
           /\ SkipInv' /\ StopInv' /\ DryInv' /\ CheckpointHonest'
           /\ file' \in Checkpoints \cup {NoFile} /\ errors' \subseteq Blocks
           /\ configured' \subseteq Network
           /\ handled' \subseteq Server \cup Appliance
<1> USE DEF Begin, ShouldSkip
<1>1. FlagsOK'
  BY DEF FlagsOK
<1>2. PlaceOK'
  BY DEF PlaceOK
<1>3. HistoryOK'
  BY DEF HistoryOK
<1>4. PositionInv'
  BY DEF PositionInv, PlaceOK, Blocks, Phases
<1>5. FileInv'
  <2>1. at = b /\ b \in Int /\ resumeAfter \in Int /\ b > resumeAfter
    BY DEF PlaceOK, Blocks, Phases
  <2>2. file.exists => file.phase \in Int
    BY FileType DEF Phases
  <2>3. b # DISCOVERY /\ file.exists => file.phase < b
    BY <2>1 DEF FileInv
  <2>4. UNCHANGED <<file, running, resumeAfter, at>>
    OBVIOUS
  <2>5. /\ step' \in {"enter", "work", "save"}
        /\ b = DISCOVERY => step' = "save"
    BY DEF ByDepth
  <2> QED
    BY <2>1, <2>2, <2>3, <2>4, <2>5 DEF FileInv
<1>6. SkipInv'
  BY DEF SkipInv
<1>7. StopInv'
  BY DEF StopInv, HistoryOK, Blocks
<1>8. DryInv'
  BY DEF DryInv
<1>9. CheckpointHonest'
  BY DEF CheckpointHonest, DoneUpTo
<1>10. /\ file' \in Checkpoints \cup {NoFile} /\ errors' \subseteq Blocks
       /\ configured' \subseteq Network
       /\ handled' \subseteq Server \cup Appliance
  BY DEF StateOK
<1> QED
  BY <1>1, <1>2, <1>3, <1>4, <1>5, <1>6, <1>7, <1>8, <1>9, <1>10

(* A phase begins: what is left to show when it sets the phase to itself,  *)
(* as all but two do, or does not, and works on the devices ds.            *)
LEMMA BeginIInv ==
    ASSUME IInv, NEW b \in Blocks, NEW s \in {"work", "save"}, NEW ds,
           Begin(b, s, ds),
           s = "work" => b \in ByDepth \cup {SERVER_PROVISION, NTP_PROVISION},
           s = "save" =>
             /\ ds = {}
             /\ b \notin ByDepth \cup {SERVER_PROVISION, NTP_PROVISION},
           \/ phase' = b /\ b # NETWORK_CONFIG
           \/ phase' = phase
           \/ phase' = DISCOVERY /\ b = NETWORK_CONFIG,
           known' \subseteq Devices, order' \subseteq Devices,
           b > NETWORK_CONFIG => known' = known /\ order' = order,
           ds \subseteq known',
           b \in ByDepth => ds \subseteq Network,
           b = NETWORK_CONFIG =>
             ds = IF errors = {} THEN NetworkIn(order', known') ELSE {},
           b = SERVER_PROVISION => ds = Server \cap known,
           b = NTP_PROVISION => ds = Appliance \cap known
    PROVE  IInv'
<1> USE DEF Begin, ShouldSkip
<1>1. WorkOK'
  BY DEF WorkOK
<1>2. StateOK'
  BY BeginCommon DEF StateOK, Blocks, Phases
<1>3. PhaseInv'
  BY DEF PhaseInv, Blocks
<1>4. WorkInv'
  BY DEF WorkInv
<1>5. ErrorInv'
  BY DEF ErrorInv
<1>6. PhasesBuildOnEachOther'
  BY DEF PhasesBuildOnEachOther, Blocks, DoneUpTo
<1> QED
  BY <1>1, <1>2, <1>3, <1>4, <1>5, <1>6, BeginCommon

(* Each phase begins as BeginIInv asks. *)
LEMMA BodyIInv == IInv /\ Body => IInv'
<1> SUFFICES ASSUME IInv, Body PROVE IInv'
  OBVIOUS
<1>0. /\ known \subseteq Devices /\ order \subseteq Devices
      /\ Reachable \subseteq Devices
  BY DeploymentAssumption DEF StateOK
<1>1. CASE RunDiscovery
  BY <1>0, <1>1, BeginIInv DEF RunDiscovery, Blocks, ByDepth
<1>2. CASE RunTopology
  BY <1>0, <1>2, BeginIInv DEF RunTopology, Blocks, ByDepth
<1>3. CASE RunValidation
  BY <1>0, <1>3, BeginIInv
     DEF RunValidation, RediscoverIfNone, Rediscover, Blocks, ByDepth
<1>4. CASE RunFirmwareUpgrade
  BY <1>0, <1>4, BeginIInv
     DEF RunFirmwareUpgrade, RediscoverIfNone, Rediscover, NetworkIn, Blocks,
         ByDepth
<1>5. CASE RunNetworkConfig
  BY <1>0, <1>5, BeginIInv
     DEF RunNetworkConfig, Rediscover, NetworkIn, Blocks, ByDepth
<1>6. CASE RunServerProvisioning
  BY <1>0, <1>6, BeginIInv DEF RunServerProvisioning, Blocks, ByDepth
<1>7. CASE RunApplianceProvisioning
  BY <1>0, <1>7, BeginIInv DEF RunApplianceProvisioning, Blocks, ByDepth
<1>8. CASE RunMarkers
  BY <1>0, <1>8, BeginIInv DEF RunMarkers, RunMarker, Blocks, ByDepth
<1> QED
  BY <1>1, <1>2, <1>3, <1>4, <1>5, <1>6, <1>7, <1>8 DEF Body

(* The laptop loses power. *)
LEMMA PowerLossIInv == IInv /\ PowerLoss => IInv'
<1> SUFFICES ASSUME IInv, PowerLoss PROVE IInv'
  OBVIOUS
<1> USE DEF PowerLoss
<1>1. EndRun(LOST) /\ LOST \in Results
  BY DEF Results
<1>2. FlagsOK'
  BY DEF FlagsOK, EndRun
<1>3. StateOK'
  BY DEF StateOK, EndRun, Phases
<1>4. HistoryOK'
  BY DeploymentAssumption DEF HistoryOK, EndRun, Results
<1>5. CheckpointHonest'
  BY DEF CheckpointHonest, DoneUpTo
<1> QED
  BY <1>1, <1>2, <1>3, <1>4, <1>5, EndRunIInv

(* The save raises an exception. *)
LEMMA SaveRaisesIInv == IInv /\ SaveRaises => IInv'
<1> SUFFICES ASSUME IInv, SaveRaises PROVE IInv'
  OBVIOUS
<1> USE DEF SaveRaises
<1>1. EndRun(RAISED) /\ RAISED \in Results
  BY DEF Results
<1>2. FlagsOK'
  BY DEF FlagsOK, EndRun
<1>3. StateOK'
  BY DEF StateOK, EndRun, Phases
<1>4. HistoryOK'
  BY DEF HistoryOK, EndRun, Results
<1>5. CheckpointHonest'
  BY DEF CheckpointHonest, DoneUpTo
<1> QED
  BY <1>1, <1>2, <1>3, <1>4, <1>5, EndRunIInv

(* A dry run ends after the cabling block. *)
LEMMA EndDryRunIInv == IInv /\ EndDryRun => IInv'
<1> SUFFICES ASSUME IInv, EndDryRun PROVE IInv'
  OBVIOUS
<1> USE DEF EndDryRun
<1>1. EndRun(phase) /\ phase \in Results
  BY DEF StateOK, Phases, Results
<1>2. FlagsOK'
  BY DEF FlagsOK, EndRun
<1>3. StateOK'
  BY DEF StateOK, EndRun, Phases
<1>4. HistoryOK'
  BY <1>1 DEF HistoryOK, EndRun
<1>5. CheckpointHonest'
  BY DEF CheckpointHonest, DoneUpTo
<1> QED
  BY <1>1, <1>2, <1>3, <1>4, <1>5, EndRunIInv

(* Blocking errors end the run, with the phase FAILED in the file. *)
LEMMA BlockIInv == IInv /\ Block => IInv'
<1> SUFFICES ASSUME IInv, Block PROVE IInv'
  OBVIOUS
<1> USE DEF Block, Snapshot
<1>1. EndRun(FAILED) /\ FAILED \in Results
  BY DEF Results
<1>2. FlagsOK'
  BY DEF FlagsOK, EndRun
<1>3. StateOK'
  BY DEF StateOK, EndRun, Phases, Checkpoints
<1>4. HistoryOK'
  BY <1>1 DEF HistoryOK, EndRun
<1>5. CheckpointHonest'
  BY DEF CheckpointHonest, DoneUpTo
<1>6. file'.errors # {}
  OBVIOUS
<1> QED
  BY <1>1, <1>2, <1>3, <1>4, <1>5, <1>6, EndRunIInv

(* The deployment completes and its file is removed. *)
LEMMA FinishIInv == IInv /\ Finish => IInv'
<1> SUFFICES ASSUME IInv, Finish PROVE IInv'
  OBVIOUS
<1> USE DEF Finish
<1>1. EndRun(COMPLETE) /\ COMPLETE \in Results
  BY DEF Results
<1>2. FlagsOK'
  BY DEF FlagsOK, EndRun
<1>3. StateOK'
  BY DEF StateOK, EndRun, Phases
<1>4. HistoryOK'
  BY <1>1 DEF HistoryOK, EndRun
<1>5. ~file'.exists
  BY Zenon DEF NoFile
<1>6. CheckpointHonest'
  BY <1>5 DEF CheckpointHonest
<1> QED
  BY <1>1, <1>2, <1>3, <1>4, <1>5, <1>6, EndRunIInv

(* A step that changes nothing. *)
LEMMA StutterIInv == IInv /\ UNCHANGED vars => IInv'
<1> SUFFICES ASSUME IInv, UNCHANGED vars PROVE IInv'
  OBVIOUS
<1> USE DEF vars
<1>1. FlagsOK' /\ PlaceOK' /\ WorkOK'
  BY DEF FlagsOK, PlaceOK, WorkOK
<1>2. StateOK' /\ HistoryOK'
  BY DEF StateOK, HistoryOK
<1>3. PositionInv' /\ PhaseInv' /\ FileInv' /\ SkipInv'
  BY FileType DEF PositionInv, PhaseInv, FileInv, SkipInv, DoneUpTo
<1>4. WorkInv' /\ ErrorInv' /\ StopInv' /\ DryInv'
  BY DEF WorkInv, ErrorInv, StopInv, DryInv
<1>5. CheckpointHonest' /\ PhasesBuildOnEachOther'
  BY DEF CheckpointHonest, PhasesBuildOnEachOther, DoneUpTo
<1> QED
  BY <1>1, <1>2, <1>3, <1>4, <1>5

(* The first state. *)
LEMMA InitIInv == Init => IInv
<1> SUFFICES ASSUME Init PROVE IInv
  OBVIOUS
<1> USE DEF Init
<1>1. FlagsOK
  BY DEF FlagsOK
<1>2. PlaceOK
  BY DEF PlaceOK, Blocks, Phases
<1>3. WorkOK
  BY DEF WorkOK
<1>4. StateOK
  BY DEF StateOK, Phases
<1>5. HistoryOK
  BY DeploymentAssumption DEF HistoryOK, Results
<1>6. ~file.exists
  BY Zenon DEF NoFile
<1>7. PositionInv /\ PhaseInv /\ FileInv /\ SkipInv /\ WorkInv
  BY DEF PositionInv, PhaseInv, FileInv, SkipInv, WorkInv
<1>8. ErrorInv /\ StopInv /\ DryInv
  BY DEF ErrorInv, StopInv, DryInv
<1>9. CheckpointHonest /\ PhasesBuildOnEachOther
  BY <1>6 DEF CheckpointHonest, PhasesBuildOnEachOther
<1> QED
  BY <1>1, <1>2, <1>3, <1>4, <1>5, <1>7, <1>8, <1>9

(* The invariant is inductive. *)
LEMMA NextIInv == IInv /\ [Next]_vars => IInv'
<1> SUFFICES ASSUME IInv, [Next]_vars PROVE IInv'
  OBVIOUS
<1>1. CASE \E d \in BOOLEAN : Start(d) \/ Resume(d)
  BY <1>1, StartIInv, ResumeIInv
<1>2. CASE RequestStop
  BY <1>2, RequestStopIInv
<1>3. CASE PowerLoss
  BY <1>3, PowerLossIInv
<1>4. CASE Orchestrate
  BY <1>4, SkipStepIInv, BodyIInv, OperateIInv, FinishWorkIInv, SaveIInv,
     SaveRaisesIInv, CheckStopIInv, BlockIInv, EndDryRunIInv,
     ProceedIInv, FinishIInv
     DEF Orchestrate
<1>5. CASE UNCHANGED vars
  BY <1>5, StutterIInv
<1> QED
  BY <1>1, <1>2, <1>3, <1>4, <1>5 DEF Next
-----------------------------------------------------------------------------
(* The invariant that the promises below rest on: where a run is, what the *)
(* checkpoint and the memory claim, and what was done to the devices.      *)
THEOREM InductiveInvariant == Spec => []IInv
  BY InitIInv, NextIInv, PTL DEF Spec

(* Every variable keeps its type, and every phase works on devices of its  *)
(* own kind only.                                                          *)
THEOREM TypeCorrect == Spec => []TypeOK
  BY InductiveInvariant, PTL

(* Whenever the power fails, the checkpoint does not claim a phase whose   *)
(* devices were not all operated on, so that a resume may skip it.         *)
THEOREM CheckpointsAreHonest == Spec => []CheckpointHonest
  BY InductiveInvariant, PTL

(* No run is past a phase, by doing it or by skipping it, that left one of *)
(* its devices out.                                                        *)
THEOREM PhasesAreCumulative == Spec => []PhasesBuildOnEachOther
  BY InductiveInvariant, PTL

(* No network device is worked on in a deployment whose checkpoint has     *)
(* recorded an error, in the run that failed or in any that resumes it.    *)
THEOREM NoChangeAfterError == Spec => []NoNetworkChangeAfterError
<1>1. IInv => NoNetworkChangeAfterError
  BY DEF NoNetworkChangeAfterError, ErrorInv, WorkOK, ByDepth
<1> QED
  BY <1>1, InductiveInvariant, PTL

(* A stop request takes effect before a second phase begins. *)
THEOREM StopIsHeard == Spec => []StopWithinOnePhase
<1>1. IInv => StopWithinOnePhase
  BY DEF StopWithinOnePhase, StopInv
<1> QED
  BY <1>1, InductiveInvariant, PTL

(* A dry run never has a device to work on. *)
THEOREM DryRunIsDry == Spec => []DryRunTouchesNothing
<1>1. IInv => DryRunTouchesNothing
  BY DEF DryRunTouchesNothing, DryInv, WorkOK, ByDepth
<1> QED
  BY <1>1, InductiveInvariant, PTL
=============================================================================
