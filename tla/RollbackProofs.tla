--------------------------- MODULE RollbackProofs ---------------------------
(***************************************************************************)
(* Proofs about the way back: the rollback orchestrator and the resets of  *)
(* the devices, which it and the factory reset run.                        *)
(*                                                                         *)
(* A rollback forgets no device, for any inventory and any number of       *)
(* failures, power losses, stops, resumes and deployments in between.      *)
(*                                                                         *)
(* Of the resets, for any devices, paths between them, number of runs and  *)
(* of lost or refused requests, ResetInv is inductive.  Of a driver it     *)
(* says which of the requests of its plan are still to come (PlanInv) and  *)
(* that each of the others has done what it was for and nothing has undone *)
(* it (ProgressInv).  Of a run it says which phases are left, completed    *)
(* and failed, that a completed phase has reset all its devices, and that  *)
(* a switch is touched only when nothing is left that needs the network.   *)
(***************************************************************************)
EXTENDS Rollback, FactoryReset, TLAPS

(* Where a run can be. *)
PositionInv ==
    /\ ~running => at = PRE_FLIGHT /\ step = "enter" /\ late = 0
    /\ step \in {"work", "save"} => at > resumeAfter
    /\ step \in {"work", "save", "stop"} => at \in Blocks
    /\ step \in {"work", "save"} => phase = at
    /\ step = "remove" => ~rfile.exists

(* The run has its list of devices. *)
Loaded == at > PRE_FLIGHT \/ step # "enter" \/ resumeAfter # FAILED

(* The list is that of the deployment checkpoint, but for a stale resume. *)
LoadInv ==
    running /\ Loaded =>
        \/ dfile.exists /\ devices = dfile.known
        \/ ~dfile.exists /\ devices = {} /\ stale /\ resumeAfter # FAILED

(* The file names the phase before the one in progress. *)
FileInv ==
    /\ resumeAfter \in {FAILED} \cup Blocks
    /\ rfile.exists => rfile.phase \in Blocks
    /\ running /\ at <= resumeAfter =>
         rfile.exists /\ rfile.phase = resumeAfter
    /\ running /\ at > resumeAfter /\ rfile.exists
         /\ ~(at = PRE_FLIGHT /\ step \in {"enter", "save"}) =>
         rfile.phase = IF step = "stop" THEN at ELSE at - 1

(* What the file claims, and so what a resume skips, was done. *)
HonestInv ==
    /\ rfile.exists /\ ~stale /\ dfile.exists =>
         ResetUpTo(rfile.phase, dfile.known)
    /\ running /\ at <= resumeAfter /\ ~stale /\ dfile.exists =>
         ResetUpTo(resumeAfter, dfile.known)

(* Every device of the phase in progress was reset, or still will be. *)
WorkInv ==
    running /\ at > resumeAfter =>
        LET seen == IF step = "work" THEN visited \cup todo ELSE visited
        IN  /\ step # "enter" /\ at = NTP_RESET =>
                 devices \cap Appliance \subseteq seen
            /\ step # "enter" /\ at = SERVER_RESET =>
                 devices \cap Server \subseteq seen
            /\ step # "enter" /\ at = NETWORK_RESET =>
                 devices \cap Network \subseteq seen

(* The devices that are reset by phase p. *)
ResetBy(p) ==
    {d \in AllDevices : \/ p >= NTP_RESET /\ d \in Appliance
                        \/ p >= SERVER_RESET /\ d \in Server
                        \/ p >= NETWORK_RESET /\ d \in Network}

(* Results are those of phases that are over, in memory and in the file. *)
ResultInv ==
    /\ rfile.exists => rfile.results \subseteq ResetBy(rfile.phase)
    /\ running => results \subseteq
         ResetBy(IF at <= resumeAfter THEN resumeAfter
                 ELSE IF step \in {"enter", "work"} THEN at - 1 ELSE at)
    /\ running /\ ~stale => results \subseteq clean
    /\ passed \subseteq clean
    /\ todo \cap (passed \cup failed) = {} /\ passed \cap failed = {}
    /\ at = NTP_RESET => todo \cup passed \cup failed \subseteq Appliance
    /\ at = SERVER_RESET => todo \cup passed \cup failed \subseteq Server
    /\ at = NETWORK_RESET => todo \cup passed \cup failed \subseteq Network

(* Only the phase in progress, or the end, is late. *)
StopInv ==
    /\ late <= 1
    /\ late > 0 => /\ running /\ stop_event
                   /\ step \in {"work", "save", "stop"} \/ at = COMPLETE

IInv ==
    /\ TypeOK /\ PositionInv /\ LoadInv /\ FileInv /\ HonestInv /\ WorkInv
    /\ ResultInv /\ StopInv
    /\ NoDeviceForgotten /\ CheckpointsPaired /\ ReportTruthful
-----------------------------------------------------------------------------
USE DEF FAILED, PRE_FLIGHT, NTP_RESET, SERVER_RESET, LAPTOP_PIVOT,
        NETWORK_RESET, FINAL_CHECK, COMPLETE, NONE, LOST
USE DEF position, work, memory, files, hardware, history, budget
USE DEF IInv, TypeOK

(* A missing file does not exist. *)
LEMMA NoFileExists == NoFile.exists = FALSE
  BY DEF NoFile

(* A file that exists has the fields of one. *)
LEMMA FileType ==
    ASSUME StateOK
    PROVE  /\ rfile.exists \in BOOLEAN
           /\ rfile.exists => /\ rfile \in RollbackFiles
                              /\ rfile.phase \in Phases
                              /\ rfile.results \subseteq AllDevices
           /\ dfile.exists => /\ dfile \in DeploymentFiles
                              /\ dfile.known \subseteq AllDevices
<1>1. ~NoFile.exists
  BY NoFileExists
<1>2. ASSUME rfile.exists PROVE rfile \in RollbackFiles
  BY <1>1, <1>2 DEF StateOK
<1>3. ASSUME dfile.exists PROVE dfile \in DeploymentFiles
  BY <1>1, <1>3 DEF StateOK
<1>4. rfile.exists \in BOOLEAN
  <2>1. CASE rfile = NoFile
    BY <2>1, NoFileExists
  <2>2. CASE rfile # NoFile
    BY <2>2 DEF StateOK, RollbackFiles
  <2> QED
    BY <2>1, <2>2
<1> QED
  BY <1>2, <1>3, <1>4 DEF RollbackFiles, DeploymentFiles

(* A deployment in between makes a rollback checkpoint stale. *)
LEMMA DeployIInv ==
    IInv /\ (\E kn \in SUBSET AllDevices, how \in {"partial", "complete"} :
                Deploy(kn, how))
      => IInv'
<1> SUFFICES ASSUME IInv, NEW kn \in SUBSET AllDevices,
                     NEW how \in {"partial", "complete"}, Deploy(kn, how)
              PROVE  IInv'
  OBVIOUS
<1> USE DEF Deploy
<1>0. ~NoFile.exists
  BY NoFileExists
<1>1. FlagsOK' /\ PlaceOK' /\ WorkOK'
  BY <1>0, FileType DEF FlagsOK, PlaceOK, WorkOK
<1>2. PositionInv' /\ LoadInv' /\ FileInv'
  BY <1>0 DEF PositionInv, LoadInv, FileInv
<1>3. HonestInv' /\ WorkInv'
  BY <1>0 DEF HonestInv, WorkInv
<1>4. StopInv'
  BY <1>0 DEF StopInv
<1>5. NoDeviceForgotten' /\ CheckpointsPaired' /\ ReportTruthful'
  BY <1>0 DEF NoDeviceForgotten, CheckpointsPaired, ReportTruthful
<1>6. StateOK'
  BY <1>0 DEF StateOK, DeploymentFiles
<1>7. HistoryOK'
  BY RollbackAssumption DEF HistoryOK
<1>8. ResultInv'
  BY <1>0 DEF ResultInv, WorkOK, PositionInv
<1> QED
  BY <1>1, <1>2, <1>3, <1>4, <1>5, <1>6, <1>7, <1>8

(* A new rollback. *)
LEMMA StartIInv == IInv /\ Start => IInv'
<1> SUFFICES ASSUME IInv, Start PROVE IInv'
  OBVIOUS
<1> USE DEF Start, BeginRun
<1>1. FlagsOK'
  BY DEF FlagsOK
<1>2. PositionInv' /\ FileInv'
  BY DEF PositionInv, FileInv
<1>3. HonestInv' /\ WorkInv'
  BY DEF HonestInv, WorkInv, ResetUpTo
<1>4. ResultInv' /\ StopInv'
  BY DEF ResultInv, StopInv
<1>5. NoDeviceForgotten' /\ CheckpointsPaired' /\ ReportTruthful'
  BY DEF NoDeviceForgotten, CheckpointsPaired, ReportTruthful, ResetUpTo
<1>6. PlaceOK'
  BY DEF PositionInv, PlaceOK, Phases
<1>7. WorkOK'
  BY DEF WorkOK, PositionInv
<1>8. StateOK'
  BY DEF StateOK, Phases
<1>9. HistoryOK'
  BY DEF HistoryOK, Results
<1>10. LoadInv'
  BY DEF LoadInv, Loaded
<1> QED
  BY <1>1, <1>2, <1>3, <1>4, <1>5, <1>6, <1>7, <1>8, <1>9, <1>10

(* A resume takes its position from a checkpoint that is honest. *)
LEMMA ResumeIInv == IInv /\ Resume => IInv'
<1> SUFFICES ASSUME IInv, Resume PROVE IInv'
  OBVIOUS
<1> USE DEF Resume, BeginRun
<1>1. FlagsOK'
  BY DEF FlagsOK
<1>2. StateOK'
  BY FileType DEF StateOK
<1>3. PositionInv' /\ FileInv'
  BY DEF PositionInv, FileInv
<1>4. HonestInv' /\ WorkInv'
  BY DEF HonestInv, WorkInv, ResetUpTo
<1>5. StopInv'
  BY DEF StopInv
<1>6. NoDeviceForgotten' /\ CheckpointsPaired' /\ ReportTruthful'
  BY DEF NoDeviceForgotten, CheckpointsPaired, ReportTruthful, ResetUpTo
<1>7. PlaceOK'
  BY FileType DEF PositionInv, PlaceOK
<1>8. WorkOK'
  BY DEF WorkOK, PositionInv
<1>9. HistoryOK'
  BY DEF HistoryOK, Results
<1>10. LoadInv'
  BY DEF LoadInv, Loaded, CheckpointsPaired
<1>11. ResultInv'
  BY DEF ResultInv, FileInv, ReportTruthful, Blocks
<1> QED
  BY <1>1, <1>2, <1>3, <1>4, <1>5, <1>6, <1>7, <1>8, <1>9, <1>10, <1>11

(* A stop request touches the stop event only. *)
LEMMA RequestStopIInv == IInv /\ RequestStop => IInv'
<1> SUFFICES ASSUME IInv, RequestStop PROVE IInv'
  OBVIOUS
<1> USE DEF RequestStop
<1>1. FlagsOK' /\ PlaceOK' /\ WorkOK'
  BY DEF FlagsOK, PlaceOK, WorkOK
<1>2. StateOK' /\ HistoryOK'
  BY DEF StateOK, HistoryOK
<1>3. PositionInv' /\ FileInv'
  BY DEF PositionInv, FileInv
<1>4. HonestInv' /\ WorkInv'
  BY DEF HonestInv, WorkInv, ResetUpTo
<1>5. ResultInv' /\ StopInv'
  BY DEF ResultInv, StopInv
<1>6. NoDeviceForgotten' /\ CheckpointsPaired' /\ ReportTruthful'
  BY DEF NoDeviceForgotten, CheckpointsPaired, ReportTruthful, ResetUpTo
<1>7. LoadInv'
  BY DEF LoadInv, Loaded
<1> QED
  BY <1>1, <1>2, <1>3, <1>4, <1>5, <1>6, <1>7

(* A phase after the first begins: it resets the devices of its category. *)
LEMMA BeginIInv ==
    ASSUME IInv, NEW b \in Blocks, NEW s, NEW ds, Begin(b, s, ds),
           UNCHANGED devices,
           ds \subseteq devices,
           IF s = "work"
             THEN \/ b = NTP_RESET /\ ds = devices \cap Appliance
                  \/ b = SERVER_RESET /\ ds = devices \cap Server
                  \/ b = NETWORK_RESET /\ ds = devices \cap Network
             ELSE s = "save" /\ ds = {} /\ b \in {LAPTOP_PIVOT, FINAL_CHECK}
    PROVE  IInv'
<1> USE DEF Begin, ShouldSkip
<1>1. FlagsOK' /\ PlaceOK' /\ WorkOK'
  BY DEF FlagsOK, PlaceOK, WorkOK
<1>2. HistoryOK'
  BY DEF HistoryOK
<1>3. FileInv'
  BY DEF FileInv
<1>4. HonestInv' /\ WorkInv'
  BY DEF HonestInv, WorkInv, ResetUpTo
<1>5. NoDeviceForgotten' /\ CheckpointsPaired' /\ ReportTruthful'
  BY DEF NoDeviceForgotten, CheckpointsPaired, ReportTruthful, ResetUpTo
<1>6. StateOK'
  BY DEF StateOK, Phases
<1>7. PositionInv'
  BY DEF PositionInv, PlaceOK, Phases
<1>8. LoadInv'
  BY DEF LoadInv, Loaded
<1>9. ResultInv'
  BY DEF ResultInv, ResetBy, WorkOK
<1>10. StopInv'
  BY DEF StopInv, HistoryOK
<1> QED
  BY <1>1, <1>2, <1>3, <1>4, <1>5, <1>6, <1>7, <1>8, <1>9, <1>10

(* The list of devices is read from the deployment checkpoint. *)
LEMMA PreFlightIInv == IInv /\ PreFlight => IInv'
<1> SUFFICES ASSUME IInv, PreFlight PROVE IInv'
  OBVIOUS
<1> USE DEF PreFlight, Begin, ShouldSkip
<1>1. FlagsOK' /\ PlaceOK' /\ WorkOK'
  BY DEF FlagsOK, PlaceOK, WorkOK
<1>2. HistoryOK'
  BY DEF HistoryOK
<1>3. LoadInv' /\ FileInv'
  BY DEF LoadInv, FileInv
<1>4. HonestInv' /\ WorkInv'
  BY DEF HonestInv, WorkInv, ResetUpTo
<1>5. NoDeviceForgotten' /\ CheckpointsPaired' /\ ReportTruthful'
  BY DEF NoDeviceForgotten, CheckpointsPaired, ReportTruthful, ResetUpTo
<1>6. StateOK'
  BY FileType DEF StateOK, Phases, ResultInv, ResetBy
<1>7. PositionInv'
  BY DEF PositionInv, PlaceOK, Phases
<1>8. ResultInv'
  BY DEF ResultInv, ResetBy
<1>9. StopInv'
  BY DEF StopInv, HistoryOK
<1> QED
  BY <1>1, <1>2, <1>3, <1>4, <1>5, <1>6, <1>7, <1>8, <1>9

(* Skipping a phase: what the checkpoint claims was done. *)
LEMMA SkipStepIInv == IInv /\ Skip => IInv'
<1> SUFFICES ASSUME IInv, Skip PROVE IInv'
  OBVIOUS
<1> USE DEF Skip, ShouldSkip
<1>1. FlagsOK' /\ PlaceOK' /\ WorkOK'
  BY DEF FlagsOK, PlaceOK, WorkOK
<1>2. StateOK' /\ HistoryOK'
  BY DEF StateOK, HistoryOK
<1>3. PositionInv'
  BY DEF PositionInv
<1>4. HonestInv'
  BY DEF HonestInv, ResetUpTo
<1>5. ResultInv' /\ StopInv'
  BY DEF ResultInv, StopInv
<1>6. NoDeviceForgotten' /\ CheckpointsPaired' /\ ReportTruthful'
  BY DEF NoDeviceForgotten, CheckpointsPaired, ReportTruthful, ResetUpTo
<1>7. LoadInv'
  BY DEF LoadInv, Loaded, Blocks
<1>8. FileInv'
  BY DEF FileInv, Blocks
<1>9. WorkInv'
  BY DEF WorkInv, PlaceOK, Phases
<1> QED
  BY <1>1, <1>2, <1>3, <1>4, <1>5, <1>6, <1>7, <1>8, <1>9

(* One device is reset: no claim is about a device of this phase yet. *)
LEMMA ResetIInv ==
    IInv /\ (\E d \in AllDevices, ok \in BOOLEAN : Reset(d, ok)) => IInv'
<1> SUFFICES ASSUME IInv, NEW d \in AllDevices, NEW ok \in BOOLEAN, Reset(d, ok)
             PROVE  IInv'
  OBVIOUS
<1> USE DEF Reset, Ready
<1>a. \/ at = NTP_RESET /\ d \in Appliance
      \/ at = SERVER_RESET /\ d \in Server
      \/ at = NETWORK_RESET /\ d \in Network
  BY DEF ResultInv, WorkOK
<1>b. d \notin ResetBy(at - 1)
  BY <1>a, RollbackAssumption DEF ResetBy
<1>c. at > resumeAfter /\ resumeAfter \in Phases
  BY DEF PositionInv, PlaceOK
<1>d. results \subseteq ResetBy(at - 1)
  BY <1>a, <1>c DEF ResultInv, Phases
<1>e. running /\ ~stale => results \subseteq clean'
  BY <1>b, <1>d DEF ResultInv
<1>1. FlagsOK' /\ PlaceOK' /\ WorkOK'
  BY DEF FlagsOK, PlaceOK, WorkOK
<1>2. StateOK'
  BY DEF StateOK
<1>3. PositionInv' /\ FileInv'
  BY DEF PositionInv, FileInv
<1>4. HonestInv' /\ WorkInv'
  BY DEF HonestInv, WorkInv, ResetUpTo
<1>5. StopInv'
  BY DEF StopInv
<1>6. NoDeviceForgotten' /\ CheckpointsPaired'
  BY DEF NoDeviceForgotten, CheckpointsPaired, ResetUpTo
<1>7. HistoryOK'
  BY RollbackAssumption DEF HistoryOK
<1>8. LoadInv'
  BY DEF LoadInv, Loaded
<1>9. ResultInv'
  <2>1. passed' \subseteq clean'
    BY DEF ResultInv
  <2> QED
    BY <1>a, <1>c, <1>d, <1>e, <2>1 DEF ResultInv
<1>10. ReportTruthful'
  <2>1. rfile.exists => rfile.phase = at - 1
    BY <1>a, <1>c DEF FileInv
  <2> QED
    BY <1>b, <2>1 DEF ReportTruthful, ResultInv
<1> QED
  BY <1>1, <1>2, <1>3, <1>4, <1>5, <1>6, <1>7, <1>8, <1>9, <1>10

(* The results of the phase: nothing is left to do. *)
LEMMA FinishWorkIInv == IInv /\ FinishWork => IInv'
<1> SUFFICES ASSUME IInv, FinishWork PROVE IInv'
  OBVIOUS
<1> USE DEF FinishWork
<1>1. FlagsOK' /\ PlaceOK' /\ WorkOK'
  BY DEF FlagsOK, PlaceOK, WorkOK
<1>2. HistoryOK'
  BY DEF HistoryOK
<1>3. PositionInv' /\ FileInv'
  BY DEF PositionInv, FileInv
<1>4. HonestInv' /\ WorkInv'
  BY DEF HonestInv, WorkInv, ResetUpTo
<1>5. StopInv'
  BY DEF StopInv
<1>6. NoDeviceForgotten' /\ CheckpointsPaired' /\ ReportTruthful'
  BY DEF NoDeviceForgotten, CheckpointsPaired, ReportTruthful, ResetUpTo
<1>7. StateOK'
  BY DEF WorkOK, StateOK
<1>8. LoadInv'
  BY DEF LoadInv, Loaded
<1>9. ResultInv'
  BY FileType DEF ResultInv, ResetBy, WorkOK, LoadInv, Loaded
<1> QED
  BY <1>1, <1>2, <1>3, <1>4, <1>5, <1>6, <1>7, <1>8, <1>9

(* The checkpoint may claim the phase that was just done. *)
LEMMA SaveIInv == IInv /\ Save => IInv'
<1> SUFFICES ASSUME IInv, Save PROVE IInv'
  OBVIOUS
<1> USE DEF Save
<1>a. /\ rfile'.exists /\ rfile'.phase = at /\ rfile'.results = results
      /\ at > resumeAfter /\ at \in Blocks /\ resumeAfter \in Phases
  BY DEF PositionInv, PlaceOK
<1>b. results \subseteq ResetBy(at)
  BY <1>a DEF ResultInv, Blocks, Phases
<1>c. ~stale' => results \subseteq clean
  BY <1>b DEF ResultInv, ResetBy, FlagsOK
<1>1. FlagsOK' /\ PlaceOK' /\ WorkOK'
  BY DEF FlagsOK, PlaceOK, WorkOK
<1>2. HistoryOK'
  BY DEF HistoryOK
<1>3. PositionInv'
  BY DEF PositionInv
<1>4. WorkInv'
  BY DEF WorkInv
<1>5. StopInv'
  BY DEF StopInv
<1>6. StateOK'
  BY DEF StateOK, RollbackFiles
<1>7. LoadInv'
  BY DEF LoadInv, Loaded, FileInv, PositionInv, Blocks, FlagsOK
<1>8. FileInv'
  BY DEF FileInv, PositionInv, Blocks
<1>9. HonestInv'
  BY DEF HonestInv, FileInv, ResetUpTo, NoDeviceForgotten, LoadInv, Loaded,
         WorkInv, PositionInv, Blocks, FlagsOK
<1>10. ResultInv'
  <2>1. rfile'.results \subseteq ResetBy(rfile'.phase)
    BY <1>a, <1>b
  <2> QED
    BY <1>a, <1>b, <1>c, <2>1 DEF ResultInv
<1>11. NoDeviceForgotten'
  BY DEF NoDeviceForgotten, ResetUpTo, FlagsOK
<1>12. CheckpointsPaired'
  BY DEF CheckpointsPaired, FileInv, LoadInv, Loaded, PositionInv, Blocks,
         FlagsOK
<1>13. ReportTruthful'
  BY <1>a, <1>c DEF ReportTruthful
<1> QED
  BY <1>1, <1>2, <1>3, <1>4, <1>5, <1>6, <1>7, <1>8, <1>9, <1>10, <1>11,
    <1>12, <1>13

(* Every way a run can end, given what it does to the files. *)
LEMMA EndRunIInv ==
    ASSUME IInv, NEW r \in Results, EndRun(r), UNCHANGED rfile,
           FlagsOK', StateOK', HistoryOK', HonestInv', CheckpointsPaired',
           ReportTruthful'
    PROVE  IInv'
<1> USE DEF EndRun
<1>1. FlagsOK'
  OBVIOUS
<1>2. WorkOK'
  BY DEF WorkOK
<1>3. StateOK' /\ HistoryOK'
  OBVIOUS
<1>4. PositionInv' /\ LoadInv' /\ FileInv'
  BY DEF PositionInv, LoadInv, FileInv
<1>5. HonestInv'
  OBVIOUS
<1>6. WorkInv'
  BY DEF WorkInv
<1>7. ResultInv' /\ StopInv'
  BY DEF ResultInv, StopInv
<1>8. CheckpointsPaired' /\ ReportTruthful'
  OBVIOUS
<1>9. NoDeviceForgotten'
  BY DEF NoDeviceForgotten
<1>10. PlaceOK'
  BY DEF PlaceOK, Blocks, Phases
<1> QED
  BY <1>1, <1>2, <1>3, <1>4, <1>5, <1>6, <1>7, <1>8, <1>9, <1>10

(* A run that ends early, by failure, stop or power loss. *)
LEMMA LostIInv ==
    ASSUME IInv, NEW r \in Results, EndRun(r),
           UNCHANGED <<stop_event, files, hardware, stale, deployed, errors,
                       deployments>>,
           crashes' # crashes =>
             crashes < MaxCrashes /\ crashes' = crashes + 1
    PROVE  IInv'
<1>1. FlagsOK'
  BY DEF FlagsOK, EndRun
<1>2. StateOK'
  BY DEF StateOK, EndRun, Phases
<1>3. HistoryOK'
  BY RollbackAssumption DEF HistoryOK, EndRun
<1>4. HonestInv'
  BY DEF HonestInv, EndRun, ResetUpTo
<1>5. CheckpointsPaired' /\ ReportTruthful'
  BY DEF CheckpointsPaired, ReportTruthful
<1> QED
  BY <1>1, <1>2, <1>3, <1>4, <1>5, EndRunIInv

(* The rollback's own file goes first. *)
LEMMA RemoveFirstIInv == IInv /\ RemoveFirst => IInv'
<1> SUFFICES ASSUME IInv, RemoveFirst PROVE IInv'
  OBVIOUS
<1> USE DEF RemoveFirst
<1>0. ~NoFile.exists
  BY NoFileExists
<1>1. FlagsOK' /\ PlaceOK' /\ WorkOK'
  BY <1>0 DEF FlagsOK, PlaceOK, WorkOK
<1>2. HistoryOK'
  BY <1>0 DEF HistoryOK
<1>3. PositionInv'
  BY <1>0 DEF PositionInv
<1>4. HonestInv' /\ WorkInv'
  BY <1>0 DEF HonestInv, WorkInv, ResetUpTo
<1>5. StopInv'
  BY <1>0 DEF StopInv
<1>6. NoDeviceForgotten' /\ CheckpointsPaired' /\ ReportTruthful'
  BY <1>0 DEF NoDeviceForgotten, CheckpointsPaired, ReportTruthful, ResetUpTo
<1>7. StateOK'
  BY <1>0 DEF StateOK, Phases
<1>8. LoadInv'
  BY <1>0 DEF LoadInv, Loaded
<1>9. FileInv'
  BY <1>0 DEF FileInv, Blocks
<1>10. ResultInv'
  BY <1>0 DEF ResultInv, ResetBy
<1> QED
  BY <1>1, <1>2, <1>3, <1>4, <1>5, <1>6, <1>7, <1>8, <1>9, <1>10

(* Then the deployment's, and the rollback is complete. *)
LEMMA RemoveSecondIInv == IInv /\ RemoveSecond => IInv'
<1> SUFFICES ASSUME IInv, RemoveSecond PROVE IInv'
  OBVIOUS
<1> USE DEF RemoveSecond
<1>1. ~rfile'.exists /\ ~dfile'.exists
  <2>1. ~NoFile.exists
    BY NoFileExists
  <2> QED
    BY <2>1 DEF PositionInv
<1>2. FlagsOK'
  BY DEF FlagsOK, EndRun
<1>3. StateOK'
  BY DEF StateOK, EndRun, Phases
<1>4. HistoryOK'
  BY DEF HistoryOK, EndRun, Results
<1>5. HonestInv' /\ CheckpointsPaired' /\ ReportTruthful'
  BY <1>1 DEF HonestInv, CheckpointsPaired, ReportTruthful
<1> QED
  BY <1>2, <1>3, <1>4, <1>5, EndRunIInv DEF Results

(* The stop event ends the run, or the next phase is entered. *)
LEMMA CheckStopIInv == IInv /\ CheckStop => IInv'
<1> SUFFICES ASSUME IInv, CheckStop PROVE IInv'
  OBVIOUS
<1> USE DEF CheckStop
<1>1. CASE stop_event /\ at \in StopChecked
  BY <1>1, LostIInv DEF StateOK, Phases, Results
<1>2. CASE ~(stop_event /\ at \in StopChecked)
  <2>0. /\ running /\ step = "stop" /\ at' = at + 1 /\ step' = "enter"
        /\ UNCHANGED <<running, resumeAfter, work, memory, result, late, stop_event,
                       files, hardware, stale, deployed, budget>>
    BY <1>2
  <2>1. FlagsOK' /\ WorkOK'
    BY <1>2, <2>0 DEF FlagsOK, WorkOK
  <2>2. StateOK' /\ HistoryOK'
    BY <1>2, <2>0 DEF StateOK, HistoryOK
  <2>3. PositionInv'
    BY <1>2, <2>0 DEF PositionInv
  <2>4. WorkInv'
    BY <1>2, <2>0 DEF WorkInv
  <2>5. CheckpointsPaired' /\ ReportTruthful'
    BY <1>2, <2>0 DEF CheckpointsPaired, ReportTruthful
  <2>6. PlaceOK'
    BY <1>2, <2>0 DEF PositionInv, PlaceOK, Blocks
  <2>7. LoadInv'
    BY <1>2, <2>0 DEF LoadInv, Loaded
  <2>8. FileInv'
    BY <1>2, <2>0 DEF FileInv, PositionInv, Blocks
  <2>9. HonestInv'
    BY <1>2, <2>0 DEF HonestInv, FileInv, ResetUpTo, PositionInv, Blocks
  <2>10. ResultInv'
    BY <1>2, <2>0 DEF ResultInv, FileInv, WorkOK, PositionInv, Blocks
  <2>11. StopInv'
    BY <1>2, <2>0 DEF StopInv, PositionInv, StopChecked
  <2>12. NoDeviceForgotten'
    BY <1>2, <2>0, FileType
       DEF NoDeviceForgotten, ResetUpTo, HonestInv, WorkInv, LoadInv, Loaded,
           FileInv, PositionInv, Blocks
  <2> QED
    BY <2>1, <2>2, <2>3, <2>4, <2>5, <2>6, <2>7, <2>8, <2>9, <2>10, <2>11,
      <2>12
<1> QED
  BY <1>1, <1>2

(* A step that changes nothing. *)
LEMMA StutterIInv == IInv /\ UNCHANGED vars => IInv'
<1> SUFFICES ASSUME IInv, UNCHANGED vars PROVE IInv'
  OBVIOUS
<1> USE DEF vars
<1>1. FlagsOK' /\ PlaceOK' /\ WorkOK'
  BY DEF FlagsOK, PlaceOK, WorkOK
<1>2. StateOK' /\ HistoryOK'
  BY DEF StateOK, HistoryOK
<1>3. PositionInv' /\ FileInv'
  BY DEF PositionInv, FileInv
<1>4. HonestInv' /\ WorkInv'
  BY DEF HonestInv, WorkInv, ResetUpTo
<1>5. ResultInv' /\ StopInv'
  BY DEF ResultInv, StopInv
<1>6. NoDeviceForgotten' /\ CheckpointsPaired' /\ ReportTruthful'
  BY DEF NoDeviceForgotten, CheckpointsPaired, ReportTruthful, ResetUpTo
<1>7. LoadInv'
  BY DEF LoadInv, Loaded
<1> QED
  BY <1>1, <1>2, <1>3, <1>4, <1>5, <1>6, <1>7

(* The first state. *)
LEMMA InitIInv == Init => IInv
<1> SUFFICES ASSUME Init PROVE IInv
  OBVIOUS
<1> USE DEF Init
<1>1. ~rfile.exists /\ ~dfile.exists
  BY Zenon DEF NoFile
<1>2. FlagsOK /\ WorkOK
  BY DEF FlagsOK, WorkOK
<1>8. PlaceOK
  BY DEF PlaceOK, Blocks, Phases
<1>7. StateOK
  BY DEF StateOK, Phases
<1>3. HistoryOK
  BY RollbackAssumption DEF HistoryOK, Results
<1>4. PositionInv /\ LoadInv /\ FileInv /\ HonestInv /\ WorkInv
  BY <1>1 DEF PositionInv, LoadInv, FileInv, HonestInv, WorkInv
<1>5. ResultInv /\ StopInv
  BY <1>1 DEF ResultInv, StopInv
<1>6. NoDeviceForgotten /\ CheckpointsPaired /\ ReportTruthful
  BY <1>1 DEF NoDeviceForgotten, CheckpointsPaired, ReportTruthful
<1> QED
  BY <1>2, <1>3, <1>4, <1>5, <1>6, <1>7, <1>8

(* Each phase begins as BeginIInv asks. *)
LEMMA BodyIInv == IInv /\ Body => IInv'
<1> SUFFICES ASSUME IInv, Body PROVE IInv'
  OBVIOUS
<1>1. CASE PreFlight
  BY <1>1, PreFlightIInv
<1>2. CASE PreFlightFails
  BY <1>2, LostIInv DEF PreFlightFails, Results
<1>3. CASE RunNtpReset
  BY <1>3, BeginIInv DEF RunNtpReset, Blocks
<1>4. CASE RunServerReset
  BY <1>4, BeginIInv DEF RunServerReset, Blocks
<1>5. CASE RunNetworkReset
  BY <1>5, BeginIInv DEF RunNetworkReset, Blocks
<1>6. ASSUME NEW b \in {LAPTOP_PIVOT, FINAL_CHECK}, RunMarker(b) PROVE IInv'
  BY <1>6, BeginIInv DEF RunMarker, Blocks
<1> QED
  BY <1>1, <1>2, <1>3, <1>4, <1>5, <1>6 DEF Body

(* The invariant is inductive. *)
LEMMA NextIInv == IInv /\ [Next]_vars => IInv'
<1> SUFFICES ASSUME IInv, [Next]_vars PROVE IInv'
  OBVIOUS
<1>1. CASE \E kn \in SUBSET AllDevices, how \in {"partial", "complete"} :
              Deploy(kn, how)
  BY <1>1, DeployIInv
<1>2. CASE Start \/ Resume \/ RequestStop
  BY <1>2, StartIInv, ResumeIInv, RequestStopIInv
<1>3. CASE PowerLoss
  BY <1>3, LostIInv DEF PowerLoss, Results
<1>4. CASE Skip \/ Body
  BY <1>4, SkipStepIInv, BodyIInv
<1>5. CASE \E d \in AllDevices, ok \in BOOLEAN : Reset(d, ok)
  BY <1>5, ResetIInv
<1>6. CASE FinishWork \/ Save \/ CheckStop \/ RemoveFirst \/ RemoveSecond
  BY <1>6, FinishWorkIInv, SaveIInv, CheckStopIInv, RemoveFirstIInv,
     RemoveSecondIInv
<1>7. CASE UNCHANGED vars
  BY <1>7, StutterIInv
<1> QED
  BY <1>1, <1>2, <1>3, <1>4, <1>5, <1>6, <1>7 DEF Next
-----------------------------------------------------------------------------
(* The strengthened invariant holds of every reachable state. *)
THEOREM InductiveInvariant == Spec => []IInv
  BY InitIInv, NextIInv, PTL DEF Spec

(* Every variable keeps its type: the work in hand and the results are of  *)
(* devices that the run knows, and only phases that reset have any         *)
(* (run_full_rollback).                                                    *)
THEOREM TypeCorrect == Spec => []TypeOK
  BY InductiveInvariant, PTL

(* No run is past a phase that left one of its devices out, whatever was   *)
(* stopped, lost and resumed (_should_skip).                               *)
THEOREM NothingForgotten == Spec => []NoDeviceForgotten
  BY InductiveInvariant, PTL

(* A rollback checkpoint is never left without the deployment checkpoint   *)
(* that names its devices (_remove_checkpoints).                           *)
THEOREM FilesArePaired == Spec => []CheckpointsPaired
  BY InductiveInvariant, PTL

(* What the checkpoint reports as reset was reset by the last attempt      *)
(* (results.update).                                                       *)
THEOREM ReportsAreTrue == Spec => []ReportTruthful
  BY InductiveInvariant, PTL

(* A stop request takes effect before a second phase begins. *)
THEOREM StopIsHeard == Spec => []StopWithinOnePhase
<1>1. IInv => StopWithinOnePhase
  BY DEF StopWithinOnePhase, StopInv
<1> QED
  BY <1>1, InductiveInvariant, PTL

-----------------------------------------------------------------------------
(***************************************************************************)
(* The resets of the devices (module FactoryReset).                        *)
(***************************************************************************)
\* The requests of a plan, the phases left, and all the phases of the run.
Ops(s) == {s[i].op : i \in DOMAIN s}
Left == {phases[i] : i \in DOMAIN phases}
Names == {PhasesOf(caller)[i] : i \in DOMAIN PhasesOf(caller)}

Versions == {"prod", "factory"}
Box == [saved: Versions, running: Versions, up: BOOLEAN, forwards: BOOLEAN,
        data: SUBSET {1, 2}, bios: {"prod", "pending", "factory"}]
Requests == {"connect", "erase", "save", "reload", "bios", "raid", "eject", "reset",
             "reset_or_revert", "await", "reboot", "power_off", "erase_drive_1", "erase_drive_2"}
Steps == [op: Requests, on: {"none", "answers", "all"}]

PhaseNames == {"vm_teardown", "nsx_teardown", "vcenter_teardown", "server_wipe", "network_reset",
               "validation", "appliances", "servers", "network", "direct"}

ResetType ==
    /\ caller \in Callers /\ dry \in BOOLEAN /\ found \in SUBSET Devices
    /\ phases \in Seq(PhaseNames)
    /\ job \in [Devices -> {"none", "running", "true", "false"}]
    /\ plan \in [Devices -> Seq(Steps)]
    /\ box \in [Devices -> Box]
    /\ done \in SUBSET Devices /\ touched \in SUBSET Devices /\ swallowed \in SUBSET Devices
    /\ certs \in [Devices -> {"none", "pass", "fail"}] /\ blind \in SUBSET Devices

\* A driver works on a device of the phase, and what it has returned is kept.
JobsInv ==
    \A d \in Devices :
        /\ job[d] = "running" => Busy /\ d \in Jobs
        /\ job[d] = "true" => d \in done
        /\ d \in done => d \in Selected

\* What follows the network's phase does not need the network.
Last == {"network_reset", "network", "validation"}

\* Every phase is left, completed or failed; server_wipe cannot be failed
\* while the factory's runner goes on.
PhasesInv ==
    /\ Left \cup completed \subseteq Names
    /\ \A i, j \in DOMAIN phases : i < j /\ phases[i] \in Last => phases[j] \in Last
    /\ caller = "factory" /\ Busy => "server_wipe" \in Left \cup completed
    /\ caller # "factory" /\ (Busy \/ outcome # "none") => Names \subseteq Left \cup completed \cup badPhases

\* The factory's runner cannot succeed unless dry: its first phase fails.
FactoryFails ==
    caller = "factory" /\ ~dry /\ (Busy \/ outcome # "none") /\ badPhases = {} =>
        Busy /\ Phase = "vm_teardown"

\* A completed phase has reset all its devices.
CompletedInv ==
    /\ outcome = "complete" => badPhases = {} /\ ~Busy
    /\ ~dry => \A p \in completed : Batch(p) \cap Selected \subseteq done

\* A switch is touched when only the network's phase, or less, is left.
TouchedInv ==
    touched \cap Switches # {} =>
        /\ ~dry
        /\ caller # "direct" => Left \subseteq Last
        /\ caller = "factory" => "server_wipe" \in completed

\* What a request has brought about when it has been answered.
Holds(op, b) ==
    /\ op = "erase" => b.saved = "factory"
    /\ op \in {"reload", "reset", "reset_or_revert"} =>
          b.saved = "factory" /\ (b.up => b.running = "factory")
    /\ op = "bios" => b.bios # "prod"
    /\ op = "raid" => b.data = {}
    /\ op = "erase_drive_1" => 1 \notin b.data
    /\ op = "erase_drive_2" => 2 \notin b.data

\* rollback/network.py saves over what it has erased: nothing is claimed there.
Claimed(d) == ~ (caller = "orchestrator" /\ Kind[d] = "switch")

\* The steps that a plan may still hold, and in which order.
PlanInv ==
    \A d \in Devices : job[d] = "running" =>
        /\ Ops(plan[d]) \subseteq Ops(Plan(d))
        /\ \A i, j \in DOMAIN plan[d] : plan[d][i].op = "erase" /\ plan[d][j].op = "reload" => i < j
        /\ caller = "factory" => \A i \in DOMAIN plan[d] : plan[d][i].on # "none" => plan[d][i].op = "reboot"

\* A driver that has ignored no error has brought about what it has asked for;
\* that of resetter/server.py ignores nothing that matters.
Honest(d) == d \notin swallowed \/ (caller = "factory" /\ d \notin Switches)

ProgressInv ==
    \A d \in Devices : Claimed(d) /\ Honest(d) =>
        /\ job[d] = "running" => \A op \in Ops(Plan(d)) : op \in Ops(plan[d]) \/ Holds(op, box[d])
        /\ d \in done => \A op \in Ops(Plan(d)) : Holds(op, box[d])

\* A certificate that says "pass" stays right, if no error of a switch was unseen.
CertsInv ==
    \A d \in Devices :
        certs[d] = "pass" => caller = "factory" /\ (AtDefaults(d) \/ d \in blind \cap Switches)

ResetInv ==
    /\ ResetType /\ JobsInv /\ PhasesInv /\ FactoryFails /\ CompletedInv /\ TouchedInv
    /\ PlanInv /\ ProgressInv /\ CertsInv

-------------------------------------------------------------------------------
(***************************************************************************)
(* Plans and requests.                                                     *)
(***************************************************************************)
LEMMA PlanSteps ==
    ASSUME caller \in Callers, NEW d \in Devices
    PROVE Plan(d) \in Seq(Steps)
<1>1. /\ ResetSwitch \in Seq(Steps) /\ ResetServer \in Seq(Steps) /\ ResetClock \in Seq(Steps)
      /\ RollbackServer \in Seq(Steps) /\ RollbackClock \in Seq(Steps)
      /\ SanitiseSwitch \in Seq(Steps) /\ SanitiseServer \in Seq(Steps)
  BY DEF ResetSwitch, ResetServer, ResetClock, RollbackServer, RollbackClock,
         SanitiseSwitch, SanitiseServer, Step, Steps, Requests
<1>2. RollbackSwitch(d) \in Seq(Steps)
  <2>1. /\ <<Step("connect", "none"), Step("erase", "none"), Step("reload", "all")>> \in Seq(Steps)
        /\ <<Step("connect", "none"), Step("erase", "none"), Step("save", "none"), Step("reload", "all")>>
             \in Seq(Steps)
    BY DEF Step, Steps, Requests
  <2> QED
    BY <2>1 DEF RollbackSwitch
<1> QED
  BY <1>1, <1>2 DEF Plan

LEMMA PlanRequests ==
    ASSUME caller \in Callers, NEW d \in Devices
    PROVE /\ "save" \in Ops(Plan(d)) => ~Claimed(d)
          /\ "reload" \in Ops(Plan(d)) => "erase" \in Ops(Plan(d))
          /\ "reboot" \in Ops(Plan(d)) => "await" \in Ops(Plan(d))
          /\ "reset_or_revert" \in Ops(Plan(d)) => caller = "orchestrator"
          /\ \A i, j \in DOMAIN Plan(d) : Plan(d)[i].op = "erase" /\ Plan(d)[j].op = "reload" => i < j
          /\ caller = "factory" =>
                \A i \in DOMAIN Plan(d) : Plan(d)[i].on # "none" => Plan(d)[i].op = "reboot"
<1>1. Kind[d] \in {"switch", "asa", "server", "clock"} /\ (d \in Switches <=> Kind[d] \in {"switch", "asa"})
  BY FactoryResetAssumption DEF Switches
<1>2. CASE caller = "factory" /\ d \in Switches
  <2>1. Plan(d) = <<Step("connect", "none"), Step("erase", "none"), Step("reload", "none")>>
    BY <1>1, <1>2 DEF Plan, ResetSwitch
  <2> QED
    BY <1>2, <2>1 DEF Ops, Step
<1>3. CASE caller = "factory" /\ Kind[d] = "server"
  <2>1. Plan(d) = ResetServer
    BY <1>1, <1>3 DEF Plan
  <2> QED
    BY <1>3, <2>1 DEF Ops, Step, ResetServer
<1>4. CASE caller = "orchestrator" /\ d \in Switches
  <2>1. Plan(d) = RollbackSwitch(d)
    BY <1>1, <1>4 DEF Plan
  <2>2. CASE Kind[d] = "asa"
    BY <1>4, <2>1, <2>2 DEF RollbackSwitch, Ops, Step
  <2>3. CASE Kind[d] # "asa"
    BY <1>1, <1>4, <2>1, <2>3 DEF RollbackSwitch, Ops, Step, Claimed
  <2> QED
    BY <2>2, <2>3
<1>5. CASE caller = "orchestrator" /\ Kind[d] = "server"
  <2>1. Plan(d) = RollbackServer
    BY <1>1, <1>5 DEF Plan
  <2> QED
    BY <1>5, <2>1 DEF Ops, Step, RollbackServer
<1>6. CASE caller = "orchestrator" /\ Kind[d] = "clock"
  <2>1. Plan(d) = RollbackClock
    BY <1>1, <1>6 DEF Plan
  <2> QED
    BY <1>6, <2>1 DEF Ops, Step, RollbackClock
<1>7. CASE caller = "direct" /\ d \in Switches
  <2>1. Plan(d) = SanitiseSwitch
    BY <1>1, <1>7 DEF Plan
  <2> QED
    BY <1>7, <2>1 DEF Ops, Step, SanitiseSwitch
<1>8. CASE caller = "direct" /\ Kind[d] = "server"
  <2>1. Plan(d) = SanitiseServer
    BY <1>1, <1>8 DEF Plan
  <2> QED
    BY <1>8, <2>1 DEF Ops, Step, SanitiseServer
<1>9. CASE Kind[d] = "clock" /\ caller # "orchestrator"
  <2>1. Plan(d) = ResetClock
    BY <1>1, <1>9 DEF Plan
  <2> QED
    BY <1>9, <2>1 DEF Ops, Step, ResetClock
<1> QED
  BY <1>1, <1>2, <1>3, <1>4, <1>5, <1>6, <1>7, <1>8, <1>9 DEF Callers

\* A plan that is carried out leads where it should.
LEMMA PlanLeads ==
    ASSUME caller \in Callers, NEW d \in Devices, Claimed(d), box[d] \in Box,
           \A op \in Ops(Plan(d)) : Holds(op, box[d])
    PROVE IF caller = "direct" /\ Kind[d] # "clock" THEN Erased(d)
          ELSE (caller = "factory" => Kind[d] # "clock") => AtDefaults(d)
<1>1. Kind[d] \in {"switch", "asa", "server", "clock"} /\ (d \in Switches <=> Kind[d] \in {"switch", "asa"})
  BY FactoryResetAssumption DEF Switches
<1>2. CASE caller = "factory" /\ d \in Switches
  <2>1. "reload" \in Ops(ResetSwitch)
    BY DEF ResetSwitch, Ops, Step
  <2>2. Plan(d) = ResetSwitch
    BY <1>1, <1>2 DEF Plan
  <2> QED
    BY <1>1, <1>2, <2>1, <2>2 DEF Holds, AtDefaults
<1>3. CASE caller = "factory" /\ Kind[d] = "server"
  <2>1. {"bios", "raid", "reset"} \subseteq Ops(ResetServer)
    BY DEF ResetServer, Ops, Step
  <2>2. Plan(d) = ResetServer
    BY <1>1, <1>3 DEF Plan
  <2> QED
    BY <1>3, <2>1, <2>2 DEF Holds, AtDefaults
<1>4. CASE caller = "orchestrator" /\ d \in Switches
  <2>1. Kind[d] = "asa"
    BY <1>1, <1>4 DEF Claimed
  <2>2. Plan(d) = <<Step("connect", "none"), Step("erase", "none"), Step("reload", "all")>>
    BY <1>1, <1>4, <2>1 DEF Plan, RollbackSwitch
  <2>3. "reload" \in Ops(Plan(d))
    BY <2>2 DEF Ops, Step
  <2> QED
    BY <1>4, <2>1, <2>3 DEF Holds, AtDefaults
<1>5. CASE caller = "orchestrator" /\ Kind[d] = "server"
  <2>1. {"bios", "raid", "reset"} \subseteq Ops(RollbackServer)
    BY DEF RollbackServer, Ops, Step
  <2>2. Plan(d) = RollbackServer
    BY <1>1, <1>5 DEF Plan
  <2> QED
    BY <1>5, <2>1, <2>2 DEF Holds, AtDefaults
<1>6. CASE caller = "orchestrator" /\ Kind[d] = "clock"
  <2>1. "reset_or_revert" \in Ops(RollbackClock)
    BY DEF RollbackClock, Ops, Step
  <2>2. Plan(d) = RollbackClock
    BY <1>1, <1>6 DEF Plan
  <2> QED
    BY <1>6, <2>1, <2>2 DEF Holds, AtDefaults
<1>7. CASE caller = "direct" /\ d \in Switches
  <2>1. "erase" \in Ops(SanitiseSwitch)
    BY DEF SanitiseSwitch, Ops, Step
  <2>2. Plan(d) = SanitiseSwitch
    BY <1>1, <1>7 DEF Plan
  <2> QED
    BY <1>1, <1>7, <2>1, <2>2 DEF Holds, Erased
<1>8. CASE caller = "direct" /\ Kind[d] = "server"
  <2>1. {"erase_drive_1", "erase_drive_2"} \subseteq Ops(SanitiseServer)
    BY DEF SanitiseServer, Ops, Step
  <2>2. Plan(d) = SanitiseServer
    BY <1>1, <1>8 DEF Plan
  <2>3. box[d].data \subseteq {1, 2}
    BY DEF Box
  <2> QED
    BY <1>1, <1>8, <2>1, <2>2, <2>3 DEF Holds, Erased
<1>9. CASE Kind[d] = "clock" /\ caller = "direct"
  <2>1. "reset" \in Ops(ResetClock)
    BY DEF ResetClock, Ops, Step
  <2>2. Plan(d) = ResetClock
    BY <1>1, <1>9 DEF Plan
  <2> QED
    BY <1>9, <2>1, <2>2 DEF Holds, AtDefaults
<1> QED
  BY <1>1, <1>2, <1>3, <1>4, <1>5, <1>6, <1>7, <1>8, <1>9 DEF Callers

\* No request undoes what another has brought about, if it does not save.
Keeps(b, c) == \A op \in Requests : Holds(op, b) => Holds(op, c)

LEMMA EffectKeeps ==
    ASSUME NEW b \in Box, b.up, NEW op \in Requests \ {"save"}
    PROVE /\ Effect(op, b) \in Box /\ Keeps(b, Effect(op, b))
          /\ (op = "reload" => Holds("erase", b)) => Holds(op, Effect(op, b))
<1> USE DEF Keeps, Holds, Box, Versions
<1>1. CASE op = "erase"
  <2>1. Effect(op, b) = [b EXCEPT !.saved = "factory"]
    BY <1>1 DEF Effect
  <2> QED
    BY <1>1, <2>1
<1>2. CASE op = "reload"
  <2>1. Effect(op, b) = [b EXCEPT !.up = FALSE]
    BY <1>2 DEF Effect, Reload
  <2> QED
    BY <1>2, <2>1
<1>3. CASE op = "bios"
  <2>1. Effect(op, b) = [b EXCEPT !.bios = "pending"]
    BY <1>3 DEF Effect
  <2> QED
    BY <1>3, <2>1
<1>4. CASE op = "raid"
  <2>1. Effect(op, b) = [b EXCEPT !.data = {}]
    BY <1>4 DEF Effect, ClearRaid
  <2> QED
    BY <1>4, <2>1
<1>5. CASE op \in {"reset", "reset_or_revert"}
  <2>1. Effect(op, b) = [b EXCEPT !.up = FALSE, !.saved = "factory"]
    BY <1>5 DEF Effect, FactoryDefaults, Reload
  <2> QED
    BY <1>5, <2>1
<1>6. CASE op \in {"reboot", "power_off"}
  <2>1. Effect(op, b) = [b EXCEPT !.bios = IF b.bios = "pending" THEN "factory" ELSE b.bios]
    BY <1>6 DEF Effect, Restart
  <2> QED
    BY <1>6, <2>1
<1>7. CASE op = "erase_drive_1"
  <2>1. Effect(op, b) = [b EXCEPT !.data = b.data \ {1}]
    BY <1>7 DEF Effect, EraseSome
  <2> QED
    BY <1>7, <2>1
<1>8. CASE op = "erase_drive_2"
  <2>1. Effect(op, b) = [b EXCEPT !.data = b.data \ {2}]
    BY <1>8 DEF Effect, EraseSome
  <2> QED
    BY <1>8, <2>1
<1>9. CASE op \in {"connect", "eject", "await"}
  <2>1. Effect(op, b) = b
    BY <1>9 DEF Effect
  <2> QED
    BY <1>9, <2>1
<1> QED
  BY <1>1, <1>2, <1>3, <1>4, <1>5, <1>6, <1>7, <1>8, <1>9 DEF Requests

LEMMA SaveTypes == ASSUME NEW b \in Box PROVE Effect("save", b) \in Box
BY DEF Effect, WriteMemory, Box, Versions

-------------------------------------------------------------------------------
(***************************************************************************)
(* What a driver's step leaves alone.                                      *)
(***************************************************************************)
LEMMA TailFacts ==
    ASSUME NEW S, NEW s \in Seq(S), s # <<>>
    PROVE /\ Tail(s) \in Seq(S) /\ 1 \in DOMAIN s /\ s[1] \in S
          /\ DOMAIN Tail(s) = 1 .. Len(s) - 1
          /\ \A i \in DOMAIN Tail(s) : Tail(s)[i] = s[i + 1] /\ i + 1 \in DOMAIN s
          /\ \A i \in DOMAIN s : i = 1 \/ (i - 1 \in DOMAIN Tail(s) /\ s[i] = Tail(s)[i - 1])
OBVIOUS

LEMMA JobsKept ==
    ASSUME UNCHANGED <<caller, dry, found, types, phases>>
    PROVE /\ Jobs' = Jobs /\ Selected' = Selected /\ Phase' = Phase /\ Busy' = Busy /\ Left' = Left
          /\ Names' = Names /\ \A p : Batch(p)' = Batch(p)
<1>1. Phase' = Phase /\ Busy' = Busy /\ Left' = Left
  BY DEF Phase, Busy, Left
<1>2. Selected' = Selected /\ \A p : Batch(p)' = Batch(p)
  BY DEF Selected, Batch
<1>3. Names' = Names
  BY DEF Names
<1>4. (Batch(Phase))' = Batch(Phase)
  BY <1>1 DEF Batch
<1> QED
  BY <1>1, <1>2, <1>3, <1>4 DEF Jobs

LEMMA PlanKept == ASSUME UNCHANGED caller, NEW d \in Devices PROVE Plan(d)' = Plan(d)
BY DEF Plan

\* The part of an action of d's driver that does not depend on the plan.
Frame(d) ==
    /\ UNCHANGED <<caller_vars, run_vars>> /\ Running(d)
    /\ \E b \in Box : box' = [box EXCEPT ![d] = b] /\ (Claimed(d) => Keeps(box[d], b))
    /\ touched' \in {touched, touched \cup {d}}
    /\ swallowed' \in {swallowed, swallowed \cup {d}}
    /\ \E r \in {"running", "true", "false"} :
          /\ job' = [job EXCEPT ![d] = r]
          /\ done' = IF r = "true" THEN done \cup {d} ELSE done

LEMMA DefaultsHeld ==
    ASSUME NEW e \in Devices, box[e] \in Box, box'[e] \in Box,
           \A op \in Requests : Holds(op, box[e]) => Holds(op, box'[e]), AtDefaults(e)
    PROVE AtDefaults(e)'
<1>1. \A b \in Box : (/\ b.saved = "factory" /\ (b.up => b.running = "factory")
                      /\ Kind[e] = "server" => b.data = {} /\ b.bios # "prod")
                     <=> Holds("reset", b) /\ (Kind[e] = "server" => Holds("raid", b) /\ Holds("bios", b))
  BY DEF Holds
<1>2. {"reset", "raid", "bios"} \subseteq Requests
  BY DEF Requests
<1> QED
  BY <1>1, <1>2 DEF AtDefaults

\* Devices at their defaults, and what was claimed of them, stay so.
LEMMA StaysHeld ==
    ASSUME ResetType, NEW d \in Devices, Frame(d), NEW e \in Devices, Claimed(e)
    PROVE /\ \A op \in Requests : Holds(op, box[e]) => Holds(op, box'[e])
          /\ AtDefaults(e) => AtDefaults(e)'
<1>1. PICK b \in Box : box' = [box EXCEPT ![d] = b] /\ (Claimed(d) => Keeps(box[d], b))
  BY DEF Frame
<1>2. \A op \in Requests : Holds(op, box[e]) => Holds(op, box'[e])
  BY <1>1 DEF Keeps, ResetType
<1>3. box[e] \in Box /\ box'[e] \in Box
  BY <1>1 DEF ResetType
<1> QED
  BY <1>2, <1>3, DefaultsHeld

LEMMA FrameInv ==
    ASSUME ResetInv, NEW d \in Devices, Frame(d), plan' \in [Devices -> Seq(Steps)]
    PROVE /\ ResetType' /\ JobsInv' /\ PhasesInv' /\ FactoryFails' /\ CompletedInv' /\ TouchedInv'
          /\ CertsInv'
<1>1. /\ UNCHANGED <<caller, dry, found, types, phases, completed, badPhases, outcome, certs, blind>>
      /\ job[d] = "running" /\ d \in Jobs /\ Busy
  BY DEF Frame, caller_vars, run_vars, Running, ResetInv, JobsInv
<1>2. /\ Jobs' = Jobs /\ Selected' = Selected /\ Phase' = Phase /\ Busy' = Busy /\ Left' = Left
      /\ Names' = Names /\ \A p : Batch(p)' = Batch(p)
  BY <1>1, JobsKept
<1>3. ResetType'
  <2>1. box' \in [Devices -> Box]
    BY DEF ResetInv, ResetType, Frame
  <2>2. /\ job' \in [Devices -> {"none", "running", "true", "false"}]
        /\ done' \in SUBSET Devices /\ touched' \in SUBSET Devices /\ swallowed' \in SUBSET Devices
    BY DEF ResetInv, ResetType, Frame
  <2> QED
    BY <1>1, <2>1, <2>2 DEF ResetInv, ResetType
<1>4. done \subseteq done'
  BY DEF Frame
<1>5. JobsInv'
  <2>1. d \in Selected
    BY <1>1 DEF Jobs
  <2> QED
    BY <1>1, <1>2, <1>4, <2>1 DEF ResetInv, ResetType, JobsInv, Frame
<1>6. PhasesInv' /\ FactoryFails'
  BY <1>1, <1>2 DEF ResetInv, PhasesInv, FactoryFails
<1>7. CompletedInv'
  BY <1>1, <1>2, <1>4 DEF ResetInv, CompletedInv
<1>8. TouchedInv'
  <2>1. CASE d \notin Switches
    <3>1. touched' \cap Switches = touched \cap Switches
      BY <2>1 DEF Frame
    <3> QED
      BY <1>1, <1>2, <3>1 DEF ResetInv, TouchedInv
  <2>2. CASE d \in Switches
    <3>1. ~dry /\ d \in Batch(Phase)
      BY <1>1 DEF Jobs
    <3>2. Kind[d] \notin {"server", "clock"}
      BY <2>2 DEF Switches
    <3>3. Phase \in {"network_reset", "network", "direct"}
      BY <3>1, <3>2 DEF Batch
    <3>4. phases # <<>> /\ phases \in Seq(PhaseNames)
      BY <1>1 DEF Busy, ResetInv, ResetType
    <3>5. 1 \in DOMAIN phases /\ Phase \in Left /\ \A j \in DOMAIN phases : j = 1 \/ 1 < j
      BY <3>4 DEF Phase, Left
    <3>6. caller # "direct" => "direct" \notin Names
      BY DEF Names, PhasesOf, ResetInv, ResetType, Callers
    <3>7. caller # "direct" => Left \subseteq Last
      BY <3>3, <3>5, <3>6 DEF ResetInv, PhasesInv, Last, Left, Phase
    <3>8. caller = "factory" => "server_wipe" \in completed
      BY <1>1, <3>7 DEF ResetInv, PhasesInv, Last
    <3> QED
      BY <1>1, <1>2, <3>1, <3>7, <3>8 DEF TouchedInv
  <2> QED
    BY <2>1, <2>2
<1>9. CertsInv'
  <2> SUFFICES ASSUME NEW e \in Devices, certs'[e] = "pass"
               PROVE caller' = "factory" /\ (AtDefaults(e)' \/ e \in blind' \cap Switches)
    BY DEF CertsInv
  <2>1. caller = "factory" /\ (AtDefaults(e) \/ e \in blind \cap Switches)
    BY <1>1 DEF ResetInv, CertsInv
  <2>2. Claimed(e)
    BY <2>1 DEF Claimed
  <2> QED
    BY <1>1, <2>1, <2>2, StaysHeld DEF ResetInv
<1> QED
  BY <1>3, <1>5, <1>6, <1>7, <1>8, <1>9

-------------------------------------------------------------------------------
(***************************************************************************)
(* What becomes of the plan.                                               *)
(***************************************************************************)

\* The rest of the devices are as before.
LEMMA OthersProgress ==
    ASSUME ResetInv, NEW d \in Devices, Frame(d), plan' = [plan EXCEPT ![d] = plan'[d]],
           NEW e \in Devices \ {d}
    PROVE /\ job'[e] = job[e] /\ plan'[e] = plan[e]
          /\ (e \in done' <=> e \in done) /\ (Honest(e)' <=> Honest(e))
          /\ Claimed(e)' <=> Claimed(e)
          /\ Plan(e)' = Plan(e)
<1>1. UNCHANGED caller
  BY DEF Frame, caller_vars
<1>2. Plan(e)' = Plan(e)
  BY <1>1, PlanKept
<1> QED
  BY <1>1, <1>2 DEF Frame, Honest, Claimed, ResetInv, ResetType

\* What the plans' invariants say of one device.
PlanOf(d) ==
    job[d] = "running" =>
        /\ Ops(plan[d]) \subseteq Ops(Plan(d))
        /\ \A i, j \in DOMAIN plan[d] : plan[d][i].op = "erase" /\ plan[d][j].op = "reload" => i < j
        /\ caller = "factory" => \A i \in DOMAIN plan[d] : plan[d][i].on # "none" => plan[d][i].op = "reboot"

ProgressOf(d) ==
    Claimed(d) /\ Honest(d) =>
        /\ job[d] = "running" => \A op \in Ops(Plan(d)) : op \in Ops(plan[d]) \/ Holds(op, box[d])
        /\ d \in done => \A op \in Ops(Plan(d)) : Holds(op, box[d])

LEMMA PlanOps ==
    ASSUME caller \in Callers, NEW d \in Devices
    PROVE Ops(Plan(d)) \subseteq Requests
<1>1. ASSUME NEW s \in Seq(Steps) PROVE Ops(s) \subseteq Requests
  <2>1. \A i \in DOMAIN s : s[i] \in Steps
    OBVIOUS
  <2>2. \A t \in Steps : t.op \in Requests
    BY DEF Steps
  <2> QED
    BY <2>1, <2>2 DEF Ops
<1> QED
  BY <1>1, PlanSteps

LEMMA OthersKept ==
    ASSUME ResetInv, NEW d \in Devices, Frame(d), plan' = [plan EXCEPT ![d] = plan'[d]],
           PlanOf(d)', ProgressOf(d)'
    PROVE PlanInv' /\ ProgressInv'
<1>1. UNCHANGED caller /\ caller \in Callers
  BY DEF Frame, caller_vars, ResetInv, ResetType
<1>2. ASSUME NEW e \in Devices \ {d} PROVE PlanOf(e)' /\ ProgressOf(e)'
  <2>1. PlanOf(e) /\ ProgressOf(e)
    BY DEF ResetInv, PlanInv, ProgressInv, PlanOf, ProgressOf
  <2>2. /\ job'[e] = job[e] /\ plan'[e] = plan[e]
        /\ (e \in done' <=> e \in done) /\ (Honest(e)' <=> Honest(e))
        /\ (Claimed(e)' <=> Claimed(e)) /\ Plan(e)' = Plan(e)
    BY OthersProgress
  <2>3. PlanOf(e)'
    BY <1>1, <2>1, <2>2 DEF PlanOf
  <2>4. Claimed(e) => \A op \in Ops(Plan(e)) : Holds(op, box[e]) => Holds(op, box'[e])
    BY <1>1, PlanOps, StaysHeld DEF ResetInv
  <2>5. ProgressOf(e)'
    BY <2>1, <2>2, <2>4 DEF ProgressOf
  <2> QED
    BY <2>3, <2>5
<1>3. \A e \in Devices : PlanOf(e)' /\ ProgressOf(e)'
  BY <1>2
<1> QED
  BY <1>3 DEF PlanInv, ProgressInv, PlanOf, ProgressOf

LEMMA FailedPlan ==
    ASSUME ResetInv, NEW d \in Devices, Frame(d), Fails(d)
    PROVE plan' \in [Devices -> Seq(Steps)] /\ PlanInv' /\ ProgressInv'
<1>1. /\ UNCHANGED caller /\ caller \in Callers /\ swallowed' = swallowed
      /\ job'[d] = "false" /\ plan' = [plan EXCEPT ![d] = <<>>] /\ done' = done
  BY DEF Frame, caller_vars, ResetInv, ResetType, Fails, Answer
<1>2. plan' \in [Devices -> Seq(Steps)] /\ plan' = [plan EXCEPT ![d] = plan'[d]]
  BY <1>1 DEF ResetInv, ResetType
<1>3. PlanOf(d)'
  BY <1>1 DEF PlanOf
<1>4. ProgressOf(d)'
  <2>1. Plan(d)' = Plan(d) /\ (Claimed(d)' <=> Claimed(d)) /\ (Honest(d)' <=> Honest(d))
    BY <1>1, PlanKept DEF Claimed, Honest
  <2>2. ProgressOf(d)
    BY DEF ResetInv, ProgressInv, ProgressOf
  <2>3. Claimed(d) => \A op \in Ops(Plan(d)) : Holds(op, box[d]) => Holds(op, box'[d])
    BY <1>1, PlanOps, StaysHeld DEF ResetInv
  <2> QED
    BY <1>1, <2>1, <2>2, <2>3 DEF ProgressOf
<1> QED
  BY <1>2, <1>3, <1>4, OthersKept

\* A step further: what the step was for has been brought about, or its error
\* has been ignored.
LEMMA AdvancedPlan ==
    ASSUME ResetInv, NEW d \in Devices, Frame(d), Advance(d),
           Claimed(d) /\ Honest(d)' => Holds(Op(d), box'[d])
    PROVE plan' \in [Devices -> Seq(Steps)] /\ PlanInv' /\ ProgressInv'
<1>1. /\ UNCHANGED caller /\ caller \in Callers /\ swallowed \subseteq swallowed'
      /\ job[d] = "running" /\ plan[d] \in Seq(Steps) /\ plan[d] # <<>>
  BY DEF Frame, caller_vars, ResetInv, ResetType, Running
<1> DEFINE s == plan[d]
<1>2. /\ Tail(s) \in Seq(Steps) /\ 1 \in DOMAIN s /\ s[1] \in Steps
      /\ DOMAIN Tail(s) = 1 .. Len(s) - 1
      /\ \A i \in DOMAIN Tail(s) : Tail(s)[i] = s[i + 1] /\ i + 1 \in DOMAIN s
      /\ \A i \in DOMAIN s : i = 1 \/ (i - 1 \in DOMAIN Tail(s) /\ s[i] = Tail(s)[i - 1])
  BY <1>1, TailFacts
<1>3. /\ Plan(d)' = Plan(d) /\ (Claimed(d)' <=> Claimed(d)) /\ (Honest(d)' => Honest(d))
      /\ PlanOf(d) /\ ProgressOf(d)
  <2>1. Plan(d)' = Plan(d)
    BY <1>1, PlanKept
  <2> QED
    BY <1>1, <2>1 DEF Claimed, Honest, ResetInv, PlanInv, ProgressInv, PlanOf, ProgressOf
<1>4. Claimed(d) => \A op \in Ops(Plan(d)) : Holds(op, box[d]) => Holds(op, box'[d])
  BY <1>1, PlanOps, StaysHeld DEF ResetInv
<1>5. Ops(s) = {Op(d)} \cup Ops(Tail(s))
  BY <1>2 DEF Ops, Op
<1>6. CASE Len(s) = 1
  <2>1. /\ job'[d] \in {"true", "false"} /\ plan' = [plan EXCEPT ![d] = <<>>]
        /\ d \in done' => d \in done \/ job'[d] = "true"
    BY <1>1, <1>6 DEF Advance, Answer, ResetInv, ResetType
  <2>2. plan' \in [Devices -> Seq(Steps)] /\ plan' = [plan EXCEPT ![d] = plan'[d]]
    BY <2>1 DEF ResetInv, ResetType
  <2>3. PlanOf(d)'
    BY <2>1 DEF PlanOf
  <2>4. Ops(Tail(s)) = {}
    BY <1>2, <1>6 DEF Ops
  <2>5. ProgressOf(d)'
    BY <1>1, <1>3, <1>4, <1>5, <2>1, <2>4 DEF ProgressOf
  <2> QED
    BY <2>2, <2>3, <2>5, OthersKept
<1>7. CASE Len(s) # 1
  <2>1. plan' = [plan EXCEPT ![d] = Tail(s)] /\ job' = job /\ done' = done
    BY <1>7 DEF Advance
  <2>2. /\ plan' \in [Devices -> Seq(Steps)] /\ plan' = [plan EXCEPT ![d] = plan'[d]]
        /\ plan'[d] = Tail(s)
    BY <1>2, <2>1 DEF ResetInv, ResetType
  <2>3. PlanOf(d)'
    <3>1. /\ Ops(s) \subseteq Ops(Plan(d))
          /\ \A i, j \in DOMAIN s : s[i].op = "erase" /\ s[j].op = "reload" => i < j
          /\ caller = "factory" => \A i \in DOMAIN s : s[i].on # "none" => s[i].op = "reboot"
      BY <1>1, <1>3 DEF PlanOf
    <3>2. Ops(Tail(s)) \subseteq Ops(Plan(d))
      BY <1>5, <3>1
    <3>3. \A i, j \in DOMAIN Tail(s) : Tail(s)[i].op = "erase" /\ Tail(s)[j].op = "reload" => i < j
      <4> SUFFICES ASSUME NEW i \in DOMAIN Tail(s), NEW j \in DOMAIN Tail(s),
                          Tail(s)[i].op = "erase", Tail(s)[j].op = "reload"
                   PROVE i < j
        OBVIOUS
      <4>1. i + 1 < j + 1
        BY <1>2, <3>1
      <4> QED
        BY <1>1, <1>2, <4>1
    <3>4. caller = "factory" =>
            \A i \in DOMAIN Tail(s) : Tail(s)[i].on # "none" => Tail(s)[i].op = "reboot"
      BY <1>2, <3>1
    <3> QED
      BY <1>1, <1>3, <2>2, <3>2, <3>3, <3>4 DEF PlanOf
  <2>4. ProgressOf(d)'
    BY <1>1, <1>3, <1>4, <1>5, <2>1, <2>2 DEF ProgressOf
  <2> QED
    BY <2>2, <2>3, <2>4, OthersKept
<1> QED
  BY <1>6, <1>7

LEMMA PrefixFacts ==
    ASSUME NEW S, NEW x \in S, NEW s \in Seq(S), NEW t, t = <<x>> \o s
    PROVE /\ t \in Seq(S) /\ DOMAIN t = 1 .. Len(s) + 1 /\ t[1] = x
          /\ \A i \in DOMAIN t : i = 1 \/ (i - 1 \in DOMAIN s /\ t[i] = s[i - 1])
          /\ \A i \in DOMAIN s : i + 1 \in DOMAIN t /\ t[i + 1] = s[i]
<1>1. <<x>> \in Seq(S) /\ Len(<<x>>) = 1 /\ <<x>>[1] = x
  OBVIOUS
<1>2. t \in Seq(S) /\ Len(t) = Len(s) + 1 /\ Len(s) \in Nat
  BY <1>1
<1>3. \A i \in 1 .. Len(s) + 1 : t[i] = IF i <= 1 THEN <<x>>[i] ELSE s[i - 1]
  BY <1>1
<1>4. DOMAIN t = 1 .. Len(s) + 1 /\ DOMAIN s = 1 .. Len(s)
  BY <1>2
<1> QED
  BY <1>1, <1>2, <1>3, <1>4

LEMMA RetriedPlan ==
    ASSUME ResetInv, NEW d \in Devices, Frame(d), Op(d) = "reboot",
           plan' = [plan EXCEPT ![d] = <<Step("await", "none")>> \o @],
           UNCHANGED <<job, done, swallowed>>
    PROVE plan' \in [Devices -> Seq(Steps)] /\ PlanInv' /\ ProgressInv'
<1>1. /\ UNCHANGED caller /\ caller \in Callers
      /\ job[d] = "running" /\ plan[d] \in Seq(Steps) /\ plan[d] # <<>>
  BY DEF Frame, caller_vars, ResetInv, ResetType, Running
<1> DEFINE s == plan[d]
           await == Step("await", "none")
           t == <<await>> \o s
<1>2. await \in Steps /\ await.op = "await" /\ await.on = "none"
  BY DEF Step, Steps, Requests
<1> HIDE DEF await
<1>3. /\ t \in Seq(Steps) /\ DOMAIN t = 1 .. Len(s) + 1 /\ t[1] = await
      /\ \A i \in DOMAIN t : i = 1 \/ (i - 1 \in DOMAIN s /\ t[i] = s[i - 1])
      /\ \A i \in DOMAIN s : i + 1 \in DOMAIN t /\ t[i + 1] = s[i]
  BY <1>1, <1>2, PrefixFacts
<1>4. /\ plan' \in [Devices -> Seq(Steps)] /\ plan' = [plan EXCEPT ![d] = plan'[d]] /\ plan'[d] = t
  BY <1>3 DEF ResetInv, ResetType, await
<1> HIDE DEF t
<1>5. Ops(t) = {"await"} \cup Ops(s)
  <2>1. \A i \in DOMAIN t : t[i].op \in {"await"} \cup Ops(s)
    BY <1>2, <1>3 DEF Ops
  <2>2. \A i \in DOMAIN s : s[i].op \in Ops(t)
    BY <1>3 DEF Ops
  <2>3. "await" \in Ops(t)
    <3>1. 1 \in DOMAIN t
      BY <1>1, <1>3
    <3> QED
      BY <1>2, <1>3, <3>1 DEF Ops
  <2> QED
    BY <2>1, <2>2, <2>3 DEF Ops
<1>6. /\ Plan(d)' = Plan(d) /\ (Claimed(d)' <=> Claimed(d)) /\ (Honest(d)' <=> Honest(d))
      /\ PlanOf(d) /\ ProgressOf(d)
  <2>1. Plan(d)' = Plan(d)
    BY <1>1, PlanKept
  <2> QED
    BY <1>1, <2>1 DEF Claimed, Honest, ResetInv, PlanInv, ProgressInv, PlanOf, ProgressOf
<1>7. Claimed(d) => \A op \in Ops(Plan(d)) : Holds(op, box[d]) => Holds(op, box'[d])
  BY <1>1, PlanOps, StaysHeld DEF ResetInv
<1>8. PlanOf(d)'
  <2>1. /\ Ops(s) \subseteq Ops(Plan(d))
        /\ \A i, j \in DOMAIN s : s[i].op = "erase" /\ s[j].op = "reload" => i < j
        /\ caller = "factory" => \A i \in DOMAIN s : s[i].on # "none" => s[i].op = "reboot"
    BY <1>1, <1>6 DEF PlanOf
  <2>2. "reboot" \in Ops(s)
    BY <1>1 DEF Op, Ops
  <2>3. Ops(t) \subseteq Ops(Plan(d))
    BY <1>1, <1>5, <2>1, <2>2, PlanRequests
  <2>4. \A i, j \in DOMAIN t : t[i].op = "erase" /\ t[j].op = "reload" => i < j
    <3> SUFFICES ASSUME NEW i \in DOMAIN t, NEW j \in DOMAIN t, t[i].op = "erase", t[j].op = "reload"
                 PROVE i < j
      OBVIOUS
    <3>1. i - 1 \in DOMAIN s /\ j - 1 \in DOMAIN s /\ t[i] = s[i - 1] /\ t[j] = s[j - 1]
      BY <1>2, <1>3
    <3>2. i - 1 < j - 1
      BY <2>1, <3>1
    <3> QED
      BY <1>1, <1>3, <3>2
  <2>5. caller = "factory" => \A i \in DOMAIN t : t[i].on # "none" => t[i].op = "reboot"
    BY <1>2, <1>3, <2>1
  <2>6. plan'[d] = t /\ caller' = caller /\ Plan(d)' = Plan(d)
    BY <1>1, <1>4, <1>6
  <2> QED
    BY <2>3, <2>4, <2>5, <2>6 DEF PlanOf
<1>9. ProgressOf(d)'
  BY <1>1, <1>4, <1>5, <1>6, <1>7 DEF ProgressOf
<1> QED
  BY <1>4, <1>8, <1>9, OthersKept

-------------------------------------------------------------------------------
(***************************************************************************)
(* The drivers.                                                            *)
(***************************************************************************)

\* What is known when d's driver is about to send a request.
LEMMA NextRequest ==
    ASSUME ResetInv, NEW d \in Devices, Running(d)
    PROVE /\ box[d] \in Box /\ Op(d) \in Requests
          /\ Op(d) = "save" => ~Claimed(d)
          /\ Op(d) = "reset_or_revert" => caller = "orchestrator"
          /\ Claimed(d) /\ Honest(d) /\ Op(d) = "reload" => Holds("erase", box[d])
          /\ caller = "factory" /\ plan[d][1].on # "none" => Op(d) = "reboot"
<1> DEFINE s == plan[d]
<1>1. caller \in Callers /\ job[d] = "running" /\ s \in Seq(Steps) /\ s # <<>> /\ box[d] \in Box
  BY DEF Running, ResetInv, ResetType
<1>2. 1 \in DOMAIN s /\ s[1] \in Steps /\ \A i \in DOMAIN s : ~ (i < 1)
  BY <1>1
<1>3. Op(d) \in Requests /\ Op(d) \in Ops(s)
  BY <1>2 DEF Op, Ops, Steps
<1>4. /\ Ops(s) \subseteq Ops(Plan(d))
      /\ \A i, j \in DOMAIN s : s[i].op = "erase" /\ s[j].op = "reload" => i < j
      /\ caller = "factory" => \A i \in DOMAIN s : s[i].on # "none" => s[i].op = "reboot"
  BY <1>1 DEF ResetInv, PlanInv
<1>5. Op(d) = "reload" => "erase" \notin Ops(s)
  BY <1>2, <1>4 DEF Op, Ops
<1>6. Claimed(d) /\ Honest(d) /\ Op(d) = "reload" => Holds("erase", box[d])
  BY <1>1, <1>3, <1>4, <1>5, PlanRequests DEF ResetInv, ProgressInv
<1> QED
  BY <1>1, <1>2, <1>3, <1>4, <1>6, PlanRequests DEF Op

\* An answered request has brought about what it was for, and undone nothing.
LEMMA Answered ==
    ASSUME ResetInv, NEW d \in Devices, Running(d), box[d].up
    PROVE LET b == Effect(Op(d), box[d]) IN
          /\ b \in Box /\ (Claimed(d) => Keeps(box[d], b))
          /\ Claimed(d) /\ Honest(d) => Holds(Op(d), b)
BY NextRequest, EffectKeeps, SaveTypes

LEMMA IdleHolds == ASSUME NEW b PROVE Holds("connect", b) /\ Holds("await", b) /\ Holds("reboot", b)
BY DEF Holds

LEMMA KeepsItself == ASSUME NEW b PROVE Keeps(b, b)
BY DEF Keeps

\* Advance and Fails change job and done as Frame says.
LEMMA AnswerFrames ==
    ASSUME ResetType, NEW d \in Devices, job[d] = "running", Advance(d) \/ Fails(d)
    PROVE \E r \in {"running", "true", "false"} :
             /\ job' = [job EXCEPT ![d] = r]
             /\ done' = IF r = "true" THEN done \cup {d} ELSE done
<1>1. (job' = job /\ done' = done) \/ \E ok \in BOOLEAN : Answer(d, ok)
  BY DEF Advance, Fails
<1>2. CASE job' = job /\ done' = done
  <2>1. job' = [job EXCEPT ![d] = "running"]
    BY <1>2 DEF ResetType
  <2> QED
    BY <1>2, <2>1
<1>3. ASSUME NEW ok \in BOOLEAN, Answer(d, ok)
      PROVE \E r \in {"running", "true", "false"} :
             /\ job' = [job EXCEPT ![d] = r]
             /\ done' = IF r = "true" THEN done \cup {d} ELSE done
  <2>1. PICK r \in {"true", "false"} : job' = [job EXCEPT ![d] = r]
    BY <1>3 DEF Answer
  <2>2. job'[d] = r
    BY <2>1 DEF ResetType
  <2> QED
    BY <1>3, <2>1, <2>2 DEF Answer
<1> QED
  BY <1>1, <1>2, <1>3

LEMMA RefusalKeeps ==
    ASSUME NEW b \in Box, NEW gone
    PROVE /\ EraseSome(b, gone) \in Box /\ Keeps(b, EraseSome(b, gone))
          /\ Reload(b) \in Box /\ Keeps(b, Reload(b))
<1>1. EraseSome(b, gone) \in Box /\ Keeps(b, EraseSome(b, gone))
  BY DEF Box, Keeps, Holds, EraseSome
<1>2. Reload(b) \in Box /\ Keeps(b, Reload(b))
  BY DEF Box, Keeps, Holds, Reload
<1> QED
  BY <1>1, <1>2

\* An error that was ignored cannot be held against the driver, unless it is
\* the reboot request of resetter/server.py, of which nothing is claimed.
LEMMA SwallowedHolds ==
    ASSUME ResetInv, NEW d \in Devices, Running(d), swallowed' = swallowed \cup {d}, UNCHANGED caller,
           plan[d][1].on # "none" \/ Op(d) = "reset_or_revert" \/ d \in Switches
    PROVE \A b : Claimed(d) /\ Honest(d)' => Holds(Op(d), b)
BY NextRequest, IdleHolds DEF Honest

\* From a step's effects on box, touched and swallowed to Frame.
LEMMA DriverFrames ==
    ASSUME ResetInv, NEW d \in Devices, Running(d), UNCHANGED <<caller_vars, run_vars>>,
           NEW b \in Box, box' = [box EXCEPT ![d] = b], Claimed(d) => Keeps(box[d], b),
           touched' \in {touched, touched \cup {d}},
           \/ swallowed' \in {swallowed, swallowed \cup {d}} /\ (Advance(d) \/ Fails(d))
           \/ UNCHANGED <<job, done, swallowed>>
    PROVE Frame(d)
<1>1. ResetType /\ job[d] = "running"
  BY DEF ResetInv, Running
<1>2. \E r \in {"running", "true", "false"} :
             /\ job' = [job EXCEPT ![d] = r]
             /\ done' = IF r = "true" THEN done \cup {d} ELSE done
  <2>1. CASE Advance(d) \/ Fails(d)
    BY <1>1, <2>1, AnswerFrames
  <2>2. CASE UNCHANGED <<job, done>>
    <3>1. job' = [job EXCEPT ![d] = "running"]
      BY <1>1, <2>2 DEF ResetType
    <3> QED
      BY <2>2, <3>1
  <2> QED
    BY <2>1, <2>2
<1>3. swallowed' \in {swallowed, swallowed \cup {d}}
  OBVIOUS
<1> QED
  BY <1>2, <1>3 DEF Frame

LEMMA SameBox ==
    ASSUME ResetInv, NEW d \in Devices
    PROVE box[d] \in Box /\ box = [box EXCEPT ![d] = box[d]] /\ Keeps(box[d], box[d])
BY KeepsItself DEF ResetInv, ResetType

\* What every step of a driver keeps; the frames and the plans together.
LEMMA FailsInv ==
    ASSUME ResetInv, NEW d \in Devices, Frame(d), Fails(d)
    PROVE ResetInv'
BY FailedPlan, FrameInv DEF ResetInv

LEMMA AdvanceInv ==
    ASSUME ResetInv, NEW d \in Devices, Frame(d), Advance(d),
           Claimed(d) /\ Honest(d)' => Holds(Op(d), box'[d])
    PROVE ResetInv'
BY AdvancedPlan, FrameInv DEF ResetInv

LEMMA ConnectReset ==
    ASSUME ResetInv, NEW d \in Devices, Connect(d) \/ CannotConnect(d)
    PROVE ResetInv'
<1>1. /\ Running(d) /\ UNCHANGED <<caller_vars, run_vars, box, touched>> /\ Op(d) = "connect"
      /\ swallowed' = swallowed /\ (Advance(d) \/ Fails(d))
  BY DEF Connect, CannotConnect, Fails
<1>2. Frame(d)
  <2>1. box' = [box EXCEPT ![d] = box[d]]
    BY <1>1, SameBox
  <2> QED
    BY <1>1, <2>1, SameBox, DriverFrames
<1>3. Holds(Op(d), box'[d])
  BY <1>1, IdleHolds
<1> QED
  BY <1>1, <1>2, <1>3, FailsInv, AdvanceInv

LEMMA AwaitReset ==
    ASSUME ResetInv, NEW d \in Devices, AwaitEnds(d) \/ AwaitTimesOut(d)
    PROVE ResetInv'
<1>1. /\ Running(d) /\ UNCHANGED <<caller_vars, run_vars, box, touched>> /\ Op(d) = "await"
      /\ swallowed' = swallowed /\ (Advance(d) \/ Fails(d))
  BY DEF AwaitEnds, AwaitTimesOut, Fails
<1>2. Frame(d)
  <2>1. box' = [box EXCEPT ![d] = box[d]]
    BY <1>1, SameBox
  <2> QED
    BY <1>1, <2>1, SameBox, DriverFrames
<1>3. Holds(Op(d), box'[d])
  BY <1>1, IdleHolds
<1> QED
  BY <1>1, <1>2, <1>3, FailsInv, AdvanceInv

LEMMA RequestReset ==
    ASSUME ResetInv, NEW d \in Devices, Request(d)
    PROVE ResetInv'
<1> DEFINE b == Effect(Op(d), box[d])
<1>1. /\ Running(d) /\ UNCHANGED <<caller_vars, run_vars>> /\ box[d].up
      /\ box' = [box EXCEPT ![d] = b] /\ touched' = touched \cup {d}
      /\ swallowed' = swallowed /\ Advance(d)
  BY DEF Request, Reachable
<1>2. b \in Box /\ (Claimed(d) => Keeps(box[d], b)) /\ (Claimed(d) /\ Honest(d) => Holds(Op(d), b))
  BY <1>1, Answered
<1> HIDE DEF b
<1>3. Frame(d)
  BY <1>1, <1>2, DriverFrames
<1>4. box'[d] = b /\ (Honest(d)' => Honest(d))
  BY <1>1 DEF ResetInv, ResetType, Honest, caller_vars
<1> QED
  BY <1>1, <1>2, <1>3, <1>4, AdvanceInv

LEMMA RefusedReset ==
    ASSUME ResetInv, NEW d \in Devices, Refused(d)
    PROVE ResetInv'
<1>1. /\ Running(d) /\ UNCHANGED <<caller_vars, run_vars>>
      /\ touched' = touched \cup {d}
      /\ \/ swallowed' = swallowed /\ Fails(d)
         \/ /\ swallowed' = swallowed \cup {d} /\ Advance(d)
            /\ plan[d][1].on # "none" \/ Op(d) = "reset_or_revert" \/ d \in Switches
  BY DEF Refused, Fails, Swallow
<1>2. box[d] \in Box
  BY SameBox
<1>3. PICK b \in Box : box' = [box EXCEPT ![d] = b] /\ Keeps(box[d], b)
  <2>1. PICK gone \in SUBSET box[d].data :
          box' = [box EXCEPT ![d] = IF Op(d) = "reset_or_revert" THEN Reload(@)
                                    ELSE EraseSome(@, gone)]
    BY DEF Refused
  <2>2. CASE Op(d) = "reset_or_revert"
    <3>1. box' = [box EXCEPT ![d] = Reload(box[d])]
      BY <2>1, <2>2
    <3> QED
      BY <1>2, <3>1, RefusalKeeps
  <2>3. CASE Op(d) # "reset_or_revert"
    <3>1. box' = [box EXCEPT ![d] = EraseSome(box[d], gone)]
      BY <2>1, <2>3
    <3> QED
      BY <1>2, <3>1, RefusalKeeps
  <2> QED
    BY <2>2, <2>3
<1>4. Frame(d)
  BY <1>1, <1>3, DriverFrames
<1>5. CASE Fails(d)
  BY <1>4, <1>5, FailsInv
<1>6. CASE /\ swallowed' = swallowed \cup {d} /\ Advance(d)
           /\ plan[d][1].on # "none" \/ Op(d) = "reset_or_revert" \/ d \in Switches
  <2>1. Claimed(d) /\ Honest(d)' => Holds(Op(d), box'[d])
    BY <1>1, <1>6, SwallowedHolds DEF caller_vars
  <2> QED
    BY <1>4, <1>6, <2>1, AdvanceInv
<1> QED
  BY <1>1, <1>5, <1>6

LEMMA LostReset ==
    ASSUME ResetInv, NEW d \in Devices, Lost(d)
    PROVE ResetInv'
<1>1. /\ Running(d) /\ UNCHANGED <<caller_vars, run_vars>>
      /\ touched' = touched \cup {d}
      /\ \/ swallowed' = swallowed /\ Fails(d)
         \/ /\ swallowed' = swallowed \cup {d} /\ Advance(d)
            /\ plan[d][1].on # "none" \/ Op(d) = "reset_or_revert" \/ d \in Switches
         \/ /\ Op(d) = "reboot" /\ UNCHANGED <<job, done, swallowed>>
            /\ plan' = [plan EXCEPT ![d] = <<Step("await", "none")>> \o @]
  BY DEF Lost, Fails, Swallow
<1>2. PICK b \in Box : box' = [box EXCEPT ![d] = b] /\ (Claimed(d) => Keeps(box[d], b))
  <2>1. CASE box' = box
    BY <2>1, SameBox
  <2>2. CASE box[d].up /\ box' = [box EXCEPT ![d] = Effect(Op(d), @)]
    BY <1>1, <2>2, Answered
  <2> QED
    BY <2>1, <2>2 DEF Lost, Reachable
<1>3. Frame(d)
  BY <1>1, <1>2, DriverFrames
<1>4. CASE Fails(d)
  BY <1>3, <1>4, FailsInv
<1>5. CASE /\ swallowed' = swallowed \cup {d} /\ Advance(d)
           /\ plan[d][1].on # "none" \/ Op(d) = "reset_or_revert" \/ d \in Switches
  <2>1. Claimed(d) /\ Honest(d)' => Holds(Op(d), box'[d])
    BY <1>1, <1>5, SwallowedHolds DEF caller_vars
  <2> QED
    BY <1>3, <1>5, <2>1, AdvanceInv
<1>6. CASE /\ Op(d) = "reboot" /\ UNCHANGED <<job, done, swallowed>>
           /\ plan' = [plan EXCEPT ![d] = <<Step("await", "none")>> \o @]
  BY <1>3, <1>6, RetriedPlan, FrameInv DEF ResetInv
<1> QED
  BY <1>1, <1>4, <1>5, <1>6

LEMMA SentReset ==
    ASSUME ResetInv, NEW d \in Devices, SentToNobody(d)
    PROVE ResetInv'
<1>1. /\ Running(d) /\ UNCHANGED <<caller_vars, run_vars, box>> /\ d \in Switches
      /\ touched' = touched \cup {d} /\ swallowed' = swallowed \cup {d} /\ Advance(d)
  BY DEF SentToNobody, Swallow
<1>2. Frame(d)
  <2>1. box' = [box EXCEPT ![d] = box[d]]
    BY <1>1, SameBox
  <2> QED
    BY <1>1, <2>1, SameBox, DriverFrames
<1>3. Claimed(d) /\ Honest(d)' => Holds(Op(d), box'[d])
  BY <1>1, SwallowedHolds DEF caller_vars
<1> QED
  BY <1>1, <1>2, <1>3, AdvanceInv

LEMMA DriverReset == ASSUME ResetInv, NEW d \in Devices, Driver(d) PROVE ResetInv'
BY ConnectReset, AwaitReset, RequestReset, RefusedReset, LostReset, SentReset DEF Driver

-------------------------------------------------------------------------------
(***************************************************************************)
(* The devices and the runs.                                               *)
(***************************************************************************)
LEMMA InitReset == ResetInit => ResetInv
<1> SUFFICES ASSUME ResetInit PROVE ResetInv
  OBVIOUS
<1>1. Deployed \in Box
  BY DEF Deployed, Box, Versions
<1>2. ResetType
  <2>1. box \in [Devices -> Box]
    BY <1>1 DEF ResetInit
  <2>2. plan \in [Devices -> Seq(Steps)]
    BY DEF ResetInit
  <2>3. /\ job \in [Devices -> {"none", "running", "true", "false"}]
        /\ certs \in [Devices -> {"none", "pass", "fail"}]
    BY DEF ResetInit
  <2>4. phases \in Seq(PhaseNames) /\ dry \in BOOLEAN
    <3>1. <<>> \in Seq(PhaseNames)
      OBVIOUS
    <3> QED
      BY <3>1 DEF ResetInit
  <2> QED
    BY <2>1, <2>2, <2>3, <2>4 DEF ResetInit, ResetType
<1>3. /\ \A d \in Devices : job[d] = "none" /\ certs[d] = "none"
      /\ phases = <<>> /\ completed = {} /\ outcome = "none" /\ done = {} /\ touched = {}
  BY DEF ResetInit
<1>4. ~Busy /\ DOMAIN phases = {} /\ Left = {}
  <2>1. ~Busy /\ DOMAIN phases = {}
    BY <1>3 DEF Busy
  <2> QED
    BY <2>1 DEF Left
<1>5. JobsInv /\ FactoryFails /\ CompletedInv /\ TouchedInv /\ PlanInv /\ ProgressInv /\ CertsInv
  BY <1>3, <1>4 DEF JobsInv, FactoryFails, CompletedInv, TouchedInv, PlanInv, ProgressInv, CertsInv
<1>6. PhasesInv
  BY <1>3, <1>4 DEF PhasesInv
<1> QED
  BY <1>2, <1>5, <1>6 DEF ResetInv

\* A device that comes back has what it has saved.
LEMMA ReturnsReset == ASSUME ResetInv, NEW d \in Devices, Returns(d) PROVE ResetInv'
<1>1. /\ UNCHANGED <<caller, dry, found, types, phases, completed, badPhases, outcome, certs, blind>>
      /\ UNCHANGED <<job, plan, done, touched, swallowed>>
  BY DEF Returns, caller_vars, run_vars
<1>2. /\ Jobs' = Jobs /\ Selected' = Selected /\ Phase' = Phase /\ Busy' = Busy /\ Left' = Left
      /\ Names' = Names /\ \A p : Batch(p)' = Batch(p)
  BY <1>1, JobsKept
<1>3. PICK f \in BOOLEAN :
        box' = [box EXCEPT ![d] = ComeBack(@, f)]
  BY DEF Returns
<1>4. ASSUME NEW b \in Box
      PROVE ComeBack(b, f) \in Box /\ \A op : Holds(op, b) => Holds(op, ComeBack(b, f))
  BY DEF Box, Holds, ComeBack
<1>5. /\ box' \in [Devices -> Box]
      /\ \A e \in Devices : \A op : Holds(op, box[e]) => Holds(op, box'[e])
  BY <1>3, <1>4 DEF ResetInv, ResetType
<1>6. ResetType'
  BY <1>1, <1>5 DEF ResetInv, ResetType
<1>7. JobsInv' /\ PhasesInv' /\ FactoryFails' /\ CompletedInv' /\ TouchedInv'
  <2>1. JobsInv'
    BY <1>1, <1>2 DEF ResetInv, JobsInv
  <2>2. PhasesInv' /\ FactoryFails'
    BY <1>1, <1>2 DEF ResetInv, PhasesInv, FactoryFails
  <2>3. CompletedInv' /\ TouchedInv'
    BY <1>1, <1>2 DEF ResetInv, CompletedInv, TouchedInv
  <2> QED
    BY <2>1, <2>2, <2>3
<1>8. PlanInv' /\ ProgressInv'
  <2> SUFFICES ASSUME NEW e \in Devices PROVE PlanOf(e)' /\ ProgressOf(e)'
    BY DEF PlanInv, ProgressInv, PlanOf, ProgressOf
  <2>1. PlanOf(e) /\ ProgressOf(e)
    BY DEF ResetInv, PlanInv, ProgressInv, PlanOf, ProgressOf
  <2>2. Plan(e)' = Plan(e) /\ (Claimed(e)' <=> Claimed(e)) /\ (Honest(e)' <=> Honest(e))
    BY <1>1, PlanKept DEF Claimed, Honest
  <2>3. PlanOf(e)'
    BY <1>1, <2>1, <2>2 DEF PlanOf
  <2>4. ProgressOf(e)'
    BY <1>1, <1>5, <2>1, <2>2 DEF ProgressOf
  <2> QED
    BY <2>3, <2>4
<1>9. CertsInv'
  <2> SUFFICES ASSUME NEW e \in Devices, certs'[e] = "pass"
               PROVE caller' = "factory" /\ (AtDefaults(e)' \/ e \in blind' \cap Switches)
    BY DEF CertsInv
  <2>1. caller = "factory" /\ (AtDefaults(e) \/ e \in blind \cap Switches)
    BY <1>1 DEF ResetInv, CertsInv
  <2>2. AtDefaults(e) => AtDefaults(e)'
    BY <1>5, DefaultsHeld DEF ResetInv, ResetType
  <2> QED
    BY <1>1, <2>1, <2>2
<1> QED
  BY <1>6, <1>7, <1>8, <1>9 DEF ResetInv

\* With no job left there is nothing to say of drivers.
LEMMA NoJobsReset ==
    ASSUME ResetInv, NoJobs, box' = box, caller' = caller, 
           done' = {} \/ (UNCHANGED <<done, swallowed>> /\ Selected' = Selected)
    PROVE /\ job' \in [Devices -> {"none", "running", "true", "false"}]
          /\ plan' \in [Devices -> Seq(Steps)] /\ JobsInv' /\ PlanInv' /\ ProgressInv'
<1>1. \A d \in Devices : job'[d] = "none"
  BY DEF NoJobs
<1>2. job' \in [Devices -> {"none", "running", "true", "false"}] /\ plan' \in [Devices -> Seq(Steps)]
  BY DEF NoJobs
<1>3. JobsInv' /\ PlanInv'
  BY <1>1 DEF ResetInv, JobsInv, PlanInv
<1>4. ProgressInv'
  <2> SUFFICES ASSUME NEW d \in Devices, Claimed(d)', Honest(d)', d \in done'
               PROVE \A op \in Ops(Plan(d)') : Holds(op, box'[d])
    BY <1>1 DEF ProgressInv
  <2>1. Claimed(d) /\ Honest(d) /\ d \in done /\ Plan(d)' = Plan(d)
    BY PlanKept DEF Claimed, Honest
  <2> QED
    BY <2>1 DEF ResetInv, ProgressInv
<1> QED
  BY <1>2, <1>3, <1>4

LEMMA CallReset == ASSUME ResetInv, Call PROVE ResetInv'
<1>1. /\ UNCHANGED <<caller, box, certs, blind>> /\ caller \in Callers
      /\ phases' = PhasesOf(caller) /\ outcome' = "none"
      /\ completed' = {} /\ badPhases' = {} /\ done' = {} /\ touched' = {} /\ swallowed' = {} /\ NoJobs
      /\ dry' \in BOOLEAN /\ found' \in SUBSET Devices
  BY FactoryResetAssumption DEF Call, ResetInv, ResetType
<1>2. /\ job' \in [Devices -> {"none", "running", "true", "false"}]
      /\ plan' \in [Devices -> Seq(Steps)] /\ JobsInv' /\ PlanInv' /\ ProgressInv'
  BY <1>1, NoJobsReset
<1>3. phases' \in Seq(PhaseNames)
  <2>1. /\ <<"vm_teardown", "nsx_teardown", "vcenter_teardown", "server_wipe", "network_reset",
             "validation">> \in Seq(PhaseNames)
        /\ <<"appliances", "servers", "network">> \in Seq(PhaseNames) /\ <<"direct">> \in Seq(PhaseNames)
    BY DEF PhaseNames
  <2> QED
    BY <1>1, <2>1 DEF PhasesOf, Callers
<1>4. ResetType'
  BY <1>1, <1>2, <1>3 DEF ResetInv, ResetType
<1>5. Left' = Names' /\ phases' # <<>>
  BY <1>1 DEF Left, Names, PhasesOf, Callers
<1>6. /\ \A i, j \in DOMAIN phases' : i < j /\ phases'[i] \in Last => phases'[j] \in Last
      /\ caller = "factory" => "server_wipe" \in Names' /\ phases'[1] = "vm_teardown"
  BY <1>1 DEF PhasesOf, Callers, Last, Names
<1>7. PhasesInv'
  BY <1>1, <1>5, <1>6 DEF PhasesInv
<1>8. FactoryFails'
  BY <1>1, <1>5, <1>6 DEF FactoryFails, Busy, Phase
<1>9. CompletedInv' /\ TouchedInv'
  BY <1>1 DEF CompletedInv, TouchedInv
<1>10. CertsInv'
  BY <1>1 DEF ResetInv, CertsInv, AtDefaults
<1> QED
  BY <1>2, <1>4, <1>7, <1>8, <1>9, <1>10 DEF ResetInv

\* Steps that no invariant speaks of.
LEMMA QuietReset ==
    ASSUME ResetInv,
           UNCHANGED <<caller, dry, found, types, phases, completed, badPhases, outcome, certs, blind>>,
           UNCHANGED <<job, plan, done, touched, swallowed, box>>
    PROVE ResetInv'
<1>1. /\ UNCHANGED <<caller, dry, found, types, phases, completed, badPhases, outcome, certs, blind>>
      /\ UNCHANGED <<job, plan, done, touched, swallowed, box>>
  OBVIOUS
<1>2. /\ Jobs' = Jobs /\ Selected' = Selected /\ Phase' = Phase /\ Busy' = Busy /\ Left' = Left
      /\ Names' = Names /\ \A p : Batch(p)' = Batch(p)
  BY <1>1, JobsKept
<1>3. ResetType' /\ JobsInv'
  BY <1>1, <1>2 DEF ResetInv, ResetType, JobsInv
<1>4. PhasesInv' /\ FactoryFails'
  BY <1>1, <1>2 DEF ResetInv, PhasesInv, FactoryFails
<1>5. CompletedInv' /\ TouchedInv'
  BY <1>1, <1>2 DEF ResetInv, CompletedInv, TouchedInv
<1>6. PlanInv' /\ ProgressInv'
  <2> SUFFICES ASSUME NEW e \in Devices PROVE PlanOf(e)' /\ ProgressOf(e)'
    BY DEF PlanInv, ProgressInv, PlanOf, ProgressOf
  <2>1. PlanOf(e) /\ ProgressOf(e)
    BY DEF ResetInv, PlanInv, ProgressInv, PlanOf, ProgressOf
  <2>2. Plan(e)' = Plan(e) /\ (Claimed(e)' <=> Claimed(e)) /\ (Honest(e)' <=> Honest(e))
    BY <1>1, PlanKept DEF Claimed, Honest
  <2> QED
    BY <1>1, <2>1, <2>2 DEF PlanOf, ProgressOf
<1>7. CertsInv'
  BY <1>1 DEF ResetInv, CertsInv, AtDefaults
<1> QED
  BY <1>3, <1>4, <1>5, <1>6, <1>7 DEF ResetInv

\* A phase that has passed has reset all its devices.
LEMMA PassedPhase ==
    ASSUME ResetInv, JobsOver, NoneFailed
    PROVE Jobs \subseteq done
<1> SUFFICES ASSUME NEW d \in Jobs PROVE d \in done
  OBVIOUS
<1>1. d \in Devices
  BY DEF Jobs, Selected, ResetInv, ResetType
<1>2. ~ Skipped(d)
  BY DEF Skipped, Closer, NoneFailed
<1>3. job[d] = "true"
  BY <1>2 DEF JobsOver, NoneFailed
<1> QED
  BY <1>1, <1>3 DEF ResetInv, JobsInv

LEMMA PhaseEndsPhases ==
    ASSUME ResetInv, PhaseEnds
    PROVE PhasesInv' /\ FactoryFails' /\ CompletedInv' /\ TouchedInv'
<1>1. /\ UNCHANGED <<caller, dry, found, types, done, touched>> /\ Busy /\ JobsOver
      /\ caller \in Callers /\ phases \in Seq(PhaseNames)
  BY DEF PhaseEnds, caller_vars, ResetInv, ResetType
<1>2. /\ Selected' = Selected /\ Names' = Names /\ \A p : Batch(p)' = Batch(p)
  BY <1>1 DEF Selected, Names, Batch
<1>3. /\ 1 \in DOMAIN phases /\ Phase \in Left /\ DOMAIN Tail(phases) = 1 .. Len(phases) - 1
      /\ \A i \in DOMAIN Tail(phases) : Tail(phases)[i] = phases[i + 1] /\ i + 1 \in DOMAIN phases
      /\ \A i \in DOMAIN phases :
            i = 1 \/ (i - 1 \in DOMAIN Tail(phases) /\ phases[i] = Tail(phases)[i - 1])
  BY <1>1, TailFacts DEF Busy, Left, Phase
<1> DEFINE Rest == {Tail(phases)[i] : i \in DOMAIN Tail(phases)}
<1>4. Left = {Phase} \cup Rest
  BY <1>3 DEF Left, Phase
<1>5. \/ phases' = Tail(phases) /\ Left' = Rest
      \/ phases' = <<>> /\ Left' = {} /\ ((~PhaseOk /\ AbortOn(Phase)) \/ caller = "factory")
  <2>1. CASE phases' = Tail(phases)
    BY <2>1 DEF Left
  <2>2. CASE phases' # Tail(phases)
    <3>1. phases' = <<>> /\ ((~PhaseOk /\ AbortOn(Phase)) \/ caller = "factory")
      BY <2>2 DEF PhaseEnds
    <3>2. DOMAIN phases' = {}
      BY <3>1
    <3> QED
      BY <3>1, <3>2 DEF Left
  <2> QED
    BY <2>1, <2>2
<1> HIDE DEF Rest
<1>6. /\ completed' = IF PhaseOk THEN completed \cup {Phase} ELSE completed
      /\ badPhases' = IF PhaseOk THEN badPhases ELSE badPhases \cup {Phase}
      /\ outcome' = IF phases' # <<>> THEN "none"
                    ELSE IF badPhases' # {} THEN "failed" ELSE IF dry THEN "dry" ELSE "complete"
  BY DEF PhaseEnds
<1>7. PhasesInv'
  <2>1. (Left \cup completed \subseteq Names)'
    BY <1>2, <1>3, <1>4, <1>5, <1>6 DEF ResetInv, PhasesInv
  <2>2. \A i, j \in DOMAIN phases' : i < j /\ phases'[i] \in Last => phases'[j] \in Last
    <3>1. \A i, j \in DOMAIN Tail(phases) : i < j /\ Tail(phases)[i] \in Last => Tail(phases)[j] \in Last
      <4> SUFFICES ASSUME NEW i \in DOMAIN Tail(phases), NEW j \in DOMAIN Tail(phases), i < j,
                          Tail(phases)[i] \in Last
                   PROVE Tail(phases)[j] \in Last
        OBVIOUS
      <4>1. i + 1 < j + 1
        BY <1>1, <1>3
      <4> QED
        BY <1>3, <4>1 DEF ResetInv, PhasesInv
    <3>2. DOMAIN <<>> = {}
      OBVIOUS
    <3> QED
      BY <1>5, <3>1, <3>2
  <2>3. caller' = "factory" /\ Busy' => "server_wipe" \in Left' \cup completed'
    <3> SUFFICES ASSUME caller = "factory", phases' # <<>> PROVE "server_wipe" \in Left' \cup completed'
      BY <1>1 DEF Busy
    <3>1. phases' = Tail(phases) /\ (PhaseOk \/ ~AbortOn(Phase))
      BY <1>5 DEF PhaseEnds
    <3>2. Phase = "server_wipe" => PhaseOk
      BY <3>1 DEF AbortOn
    <3> QED
      BY <1>1, <1>4, <1>5, <1>6, <3>1, <3>2 DEF ResetInv, PhasesInv
  <2>4. caller' # "factory" => Names' \subseteq Left' \cup completed' \cup badPhases'
    <3> SUFFICES ASSUME caller # "factory" PROVE Names \subseteq Left' \cup completed' \cup badPhases'
      BY <1>1, <1>2
    <3>1. Phase \notin {"server_wipe", "network_reset"}
      <4>1. Names \subseteq {"appliances", "servers", "network", "direct"}
        BY <1>1 DEF Names, PhasesOf, Callers
      <4> QED
        BY <1>3, <4>1 DEF ResetInv, PhasesInv
    <3>2. Left' = Rest
      BY <1>5, <3>1 DEF AbortOn
    <3> QED
      BY <1>1, <1>4, <1>6, <3>2 DEF ResetInv, PhasesInv
  <2> QED
    BY <2>1, <2>2, <2>3, <2>4 DEF PhasesInv
<1>8. FactoryFails'
  <2> SUFFICES ASSUME caller = "factory", ~dry PROVE badPhases' # {}
    BY <1>1 DEF FactoryFails
  <2>1. CASE badPhases = {}
    <3>1. Phase = "vm_teardown"
      BY <1>1, <2>1 DEF ResetInv, FactoryFails
    <3> QED
      BY <1>6, <3>1 DEF PhaseOk
  <2>2. CASE badPhases # {}
    BY <1>6, <2>2
  <2> QED
    BY <2>1, <2>2
<1>9. CompletedInv'
  <2>1. outcome' = "complete" => badPhases' = {} /\ ~Busy'
    BY <1>6 DEF Busy
  <2>2. ASSUME ~dry, NEW p \in completed' PROVE Batch(p) \cap Selected \subseteq done
    <3>1. CASE p \in completed
      BY <2>2, <3>1 DEF ResetInv, CompletedInv
    <3>2. CASE p = Phase /\ PhaseOk
      BY <1>1, <2>2, <3>2, PassedPhase DEF PhaseOk, Jobs
    <3> QED
      BY <1>6, <2>2, <3>1, <3>2
  <2> QED
    BY <1>1, <1>2, <2>1, <2>2 DEF CompletedInv
<1>10. TouchedInv'
  BY <1>1, <1>4, <1>5, <1>6 DEF ResetInv, TouchedInv
<1> QED
  BY <1>7, <1>8, <1>9, <1>10

LEMMA PhaseEndsReset == ASSUME ResetInv, PhaseEnds PROVE ResetInv'
<1>1. /\ UNCHANGED <<caller, dry, found, box, done, touched, swallowed>> /\ NoJobs /\ Busy
      /\ caller \in Callers /\ phases \in Seq(PhaseNames)
  BY DEF PhaseEnds, caller_vars, ResetInv, ResetType
<1>2. /\ job' \in [Devices -> {"none", "running", "true", "false"}]
      /\ plan' \in [Devices -> Seq(Steps)] /\ JobsInv' /\ PlanInv' /\ ProgressInv'
  <2>1. Selected' = Selected
    BY DEF PhaseEnds, caller_vars, Selected
  <2> QED
    BY <1>1, <2>1, NoJobsReset
<1>3. certs' \in [Devices -> {"none", "pass", "fail"}] /\ \A d \in Devices : certs'[d] = Certificate(d)
  BY DEF PhaseEnds, Certificate, ResetInv, ResetType
<1>4. ResetType'
  <2>1. Tail(phases) \in Seq(PhaseNames) /\ <<>> \in Seq(PhaseNames)
    BY <1>1, TailFacts DEF Busy
  <2>2. phases' \in Seq(PhaseNames)
    BY <2>1 DEF PhaseEnds
  <2>3. blind' \in SUBSET Devices
    BY DEF PhaseEnds, Certified, Jobs, Selected, ResetInv, ResetType
  <2> QED
    BY <1>1, <1>2, <1>3, <2>2, <2>3 DEF ResetInv, ResetType
<1>5. CertsInv'
  <2> SUFFICES ASSUME NEW d \in Devices, Certificate(d) = "pass"
               PROVE caller = "factory" /\ (AtDefaults(d) \/ d \in blind' \cap Switches)
    BY <1>1, <1>3 DEF CertsInv, AtDefaults
  <2>1. CASE d \notin Certified
    <3>1. certs[d] = "pass" /\ (d \in blind => d \in blind')
      BY <2>1 DEF Certificate, PhaseEnds
    <3> QED
      BY <3>1 DEF ResetInv, CertsInv
  <2>2. CASE d \in Certified
    <3>1. caller = "factory" /\ d \in Jobs /\ job[d] = "true"
      BY <2>2 DEF Certificate, Certified
    <3>2. d \in done /\ Claimed(d) /\ box[d] \in Box
      BY <3>1 DEF ResetInv, ResetType, JobsInv, Claimed
    <3>3. Kind[d] # "clock"
      BY <3>1 DEF Jobs, Selected
    <3>4. CASE Honest(d)
      BY <1>1, <3>1, <3>2, <3>3, <3>4, PlanLeads DEF ResetInv, ProgressInv
    <3>5. CASE ~Honest(d)
      BY <2>2, <3>1, <3>5 DEF Honest, PhaseEnds
    <3> QED
      BY <3>4, <3>5
  <2> QED
    BY <2>1, <2>2
<1> QED
  BY <1>2, <1>4, <1>5, PhaseEndsPhases DEF ResetInv

LEMMA StartReset == ASSUME ResetInv, NEW d \in Devices, StartJob(d) PROVE ResetInv'
<1>1. /\ UNCHANGED <<caller, dry, found, types, phases, completed, badPhases, outcome, certs, blind>>
      /\ UNCHANGED <<done, touched, swallowed, box>> /\ Busy /\ d \in Jobs
      /\ job' = [job EXCEPT ![d] = "running"] /\ plan' = [plan EXCEPT ![d] = Plan(d)]
      /\ caller \in Callers
  BY DEF StartJob, caller_vars, run_vars, ResetInv, ResetType
<1>2. /\ Jobs' = Jobs /\ Selected' = Selected /\ Phase' = Phase /\ Busy' = Busy /\ Left' = Left
      /\ Names' = Names /\ \A p : Batch(p)' = Batch(p)
  BY <1>1, JobsKept
<1>3. Plan(d) \in Seq(Steps)
  BY <1>1, PlanSteps
<1>4. ResetType'
  BY <1>1, <1>3 DEF ResetInv, ResetType
<1>5. /\ job'[d] = "running" /\ plan'[d] = Plan(d)
      /\ \A e \in Devices \ {d} : job'[e] = job[e] /\ plan'[e] = plan[e]
  BY <1>1 DEF ResetInv, ResetType
<1>6. JobsInv'
  BY <1>1, <1>2, <1>5 DEF ResetInv, JobsInv
<1>7. PhasesInv' /\ FactoryFails'
  BY <1>1, <1>2 DEF ResetInv, PhasesInv, FactoryFails
<1>8. CompletedInv' /\ TouchedInv'
  BY <1>1, <1>2 DEF ResetInv, CompletedInv, TouchedInv
<1>9. PlanInv' /\ ProgressInv'
  <2> SUFFICES ASSUME NEW e \in Devices PROVE PlanOf(e)' /\ ProgressOf(e)'
    BY DEF PlanInv, ProgressInv, PlanOf, ProgressOf
  <2>1. PlanOf(e) /\ ProgressOf(e)
    BY DEF ResetInv, PlanInv, ProgressInv, PlanOf, ProgressOf
  <2>2. Plan(e)' = Plan(e) /\ (Claimed(e)' <=> Claimed(e)) /\ (Honest(e)' <=> Honest(e))
    BY <1>1, PlanKept DEF Claimed, Honest
  <2>3. CASE e = d
    <3>1. plan'[e] = Plan(e) /\ caller' = caller
      BY <1>1, <1>5, <2>3
    <3>2. PlanOf(e)'
      BY <1>1, <2>2, <3>1, PlanRequests DEF PlanOf
    <3>3. ProgressOf(e)'
      BY <1>1, <2>1, <2>2, <3>1 DEF ProgressOf
    <3> QED
      BY <3>2, <3>3
  <2>4. CASE e # d
    BY <1>1, <1>5, <2>1, <2>2, <2>4 DEF PlanOf, ProgressOf
  <2> QED
    BY <2>3, <2>4
<1>10. CertsInv'
  BY <1>1 DEF ResetInv, CertsInv, AtDefaults
<1> QED
  BY <1>4, <1>6, <1>7, <1>8, <1>9, <1>10 DEF ResetInv

LEMMA NextReset == ResetInv /\ [ResetNext]_reset_vars => ResetInv'
<1> SUFFICES ASSUME ResetInv, [ResetNext]_reset_vars PROVE ResetInv'
  OBVIOUS
<1>1. CASE UNCHANGED reset_vars \/ Stop
  BY <1>1, QuietReset DEF reset_vars, Stop, caller_vars
<1> QED
  BY <1>1, CallReset, PhaseEndsReset, StartReset, DriverReset, ReturnsReset DEF ResetNext, Runner

LEMMA ResetSafety == ResetSpec => []ResetInv
BY InitReset, NextReset, PTL DEF ResetSpec

-------------------------------------------------------------------------------
(***************************************************************************)
(* What has been shown.                                                    *)
(***************************************************************************)

\* The variables keep their types.
THEOREM ResetTypeCorrect == ResetSpec => []ResetType
BY ResetSafety, PTL DEF ResetInv

\* A driver that returned True without ignoring an error (reset_device and
\* reset_server of resetter/ and rollback/) has reset its device, and so has
\* one that _generate_reset_certificates (factory_reset/reset.py:222) certifies,
\* where the session of a switch had not died and the switch refused nothing.
THEOREM ReportedIsReal == ResetSpec => []ReportedResetIsReal
<1>1. ResetInv => ReportedResetIsReal
  <2> SUFFICES ASSUME ResetInv, NEW d \in Devices
               PROVE /\ d \in done \ swallowed =>
                           IF caller = "direct" /\ Kind[d] # "clock" THEN Erased(d)
                           ELSE (caller = "orchestrator" /\ Kind[d] = "switch") \/ AtDefaults(d)
                     /\ certs[d] = "pass" => AtDefaults(d) \/ d \in blind \cap Switches
    BY DEF ReportedResetIsReal
  <2>1. caller \in Callers /\ box[d] \in Box
    BY DEF ResetInv, ResetType
  <2>2. certs[d] = "pass" => AtDefaults(d) \/ d \in blind \cap Switches
    BY DEF ResetInv, CertsInv
  <2>3. ASSUME d \in done \ swallowed, Claimed(d)
        PROVE IF caller = "direct" /\ Kind[d] # "clock" THEN Erased(d) ELSE AtDefaults(d)
    <3>1. \A op \in Ops(Plan(d)) : Holds(op, box[d])
      BY <2>3 DEF ResetInv, ProgressInv, Honest
    <3>2. caller = "factory" => Kind[d] # "clock"
      BY <2>3 DEF ResetInv, JobsInv, Selected
    <3> QED
      BY <2>1, <2>3, <3>1, <3>2, PlanLeads
  <2> QED
    BY <2>2, <2>3 DEF Claimed
<1> QED
  BY <1>1, ResetSafety, PTL

\* A run that says it is complete (orchestrator.py:680, run_factory_reset), and
\* a phase in phases_completed (factory_reset/reset.py:101), left no device out.
THEOREM CompleteIsAllReset == ResetSpec => []CompleteMeansAllReset
<1>1. ResetInv => CompleteMeansAllReset
  <2> SUFFICES ASSUME ResetInv, ~dry
               PROVE /\ outcome = "complete" => Selected \subseteq done
                     /\ "server_wipe" \in completed => {d \in found : Kind[d] = "server"} \subseteq done
                     /\ "network_reset" \in completed => found \cap Switches \subseteq done
    BY DEF CompleteMeansAllReset
  <2>1. caller \in Callers /\ found \subseteq Devices
    BY DEF ResetInv, ResetType
  <2>2. /\ \A p \in completed : Batch(p) \cap Selected \subseteq done
        /\ completed \subseteq Names
    BY DEF ResetInv, CompletedInv, PhasesInv
  <2>3. \A d \in Devices : /\ Kind[d] \in {"switch", "asa", "server", "clock"}
                           /\ d \in Switches <=> Kind[d] \in {"switch", "asa"}
    BY FactoryResetAssumption DEF Switches
  <2>4. ASSUME outcome = "complete" PROVE Selected \subseteq done
    <3>1. badPhases = {} /\ ~Busy /\ Left = {}
      <4>1. badPhases = {} /\ ~Busy
        BY <2>4 DEF ResetInv, CompletedInv
      <4>2. DOMAIN phases = {}
        BY <4>1 DEF Busy
      <4> QED
        BY <4>1, <4>2 DEF Left
    <3>2. caller # "factory"
      BY <2>4, <3>1 DEF ResetInv, FactoryFails
    <3>3. Names \subseteq completed
      BY <2>4, <3>1, <3>2 DEF ResetInv, PhasesInv
    <3>4. CASE caller = "orchestrator"
      <4>1. {"appliances", "servers", "network"} \subseteq completed
        BY <3>3, <3>4 DEF Names, PhasesOf
      <4> QED
        BY <2>1, <2>2, <2>3, <4>1 DEF Batch, Selected
    <3>5. CASE caller = "direct"
      <4>1. "direct" \in completed
        BY <3>3, <3>5 DEF Names, PhasesOf
      <4> QED
        BY <2>2, <4>1 DEF Batch, Selected
    <3> QED
      BY <2>1, <3>2, <3>4, <3>5 DEF Callers
  <2>5. ASSUME NEW p \in completed \cap {"server_wipe", "network_reset"} PROVE caller = "factory"
    BY <2>1, <2>2 DEF Names, PhasesOf, Callers
  <2>6. "server_wipe" \in completed => {d \in found : Kind[d] = "server"} \subseteq done
    BY <2>2, <2>5 DEF Batch, Selected
  <2>7. "network_reset" \in completed => found \cap Switches \subseteq done
    BY <2>1, <2>2, <2>3, <2>5 DEF Batch, Selected
  <2> QED
    BY <2>4, <2>6, <2>7
<1> QED
  BY <1>1, ResetSafety, PTL

\* No switch is changed while anything else is being reset over it, and the
\* factory's runner (factory_reset/reset.py:104) wipes all servers before.
THEOREM NetworkIsLast == ResetSpec => []NetworkGoesLast
<1>1. ResetInv => NetworkGoesLast
  <2> SUFFICES ASSUME ResetInv, touched \cap Switches # {}, caller # "direct"
               PROVE /\ \A d \in Devices \ Switches : job[d] # "running"
                     /\ caller = "factory" => {d \in found : Kind[d] = "server"} \subseteq done
    BY DEF NetworkGoesLast
  <2>1. ~dry /\ Left \subseteq Last /\ (caller = "factory" => "server_wipe" \in completed)
    BY DEF ResetInv, TouchedInv
  <2>2. ASSUME NEW d \in Devices \ Switches, job[d] = "running" PROVE FALSE
    <3>1. Busy /\ d \in Batch(Phase)
      BY <2>1, <2>2 DEF ResetInv, JobsInv, Jobs
    <3>2. Phase \in Last
      <4>1. phases \in Seq(PhaseNames) /\ phases # <<>>
        BY <3>1 DEF ResetInv, ResetType, Busy
      <4>2. Phase \in Left
        BY <4>1, TailFacts DEF Left, Phase
      <4> QED
        BY <2>1, <4>2
    <3> QED
      BY <2>2, <3>1, <3>2 DEF Batch, Last
  <2>3. caller = "factory" => {d \in found : Kind[d] = "server"} \subseteq done
    BY <2>1 DEF ResetInv, CompletedInv, Batch, Selected
  <2> QED
    BY <2>2, <2>3
<1> QED
  BY <1>1, ResetSafety, PTL
=============================================================================
