---------------------------- MODULE FactoryReset ----------------------------
(***************************************************************************)
(* The way back to factory defaults: FactoryResetOrchestrator              *)
(* (factory_reset/reset.py) over the classes of resetter/, the             *)
(* run_factory_reset of Orchestrator over those of rollback/ that its      *)
(* drivers use, and the classes that are called directly (DataSanitiser,   *)
(* resetter/meinberg.py).  A driver is a sequence of requests to its       *)
(* device (Plan); the devices of a phase are reset concurrently, switches  *)
(* closest to the laptop first.  A reset switch may stop carrying the      *)
(* traffic of those behind it.                                             *)
(***************************************************************************)
EXTENDS Integers, Sequences, FiniteSets

CONSTANTS
    Devices, Kind,    \* Kind[d]: "switch", "asa", "server" or "clock"
    Path,             \* Path[d]: the switches between the laptop and d
    Discoveries,      \* what a run may know of: sets of devices
    MaxRuns,          \* bound: resets of the site, one after the other
    MaxFaults         \* bound: requests lost in a run

Switches == {d \in Devices : Kind[d] \in {"switch", "asa"}}
Callers == {"factory", "orchestrator", "direct"}

ASSUME FactoryResetAssumption ==
    /\ Kind \in [Devices -> {"switch", "asa", "server", "clock"}]
    /\ Path \in [Devices -> SUBSET Switches]
    /\ \A d \in Devices : d \notin Path[d]
    /\ Discoveries \subseteq SUBSET Devices
    /\ MaxRuns \in Nat \ {0} /\ MaxFaults \in Nat

VARIABLES
    caller, dry, found,   \* who runs the reset, dry_run, the devices it knows
    types,                \* device_types of the orchestrator: kinds of device
    phases,               \* the phases left of the run
    job, plan,            \* per device: result of its driver, requests left
    login,                \* per device: the credentials of its session, or "dead"
    box,                  \* the devices
    keepsDefault,         \* production configurations keep the factory's account
    stop, runs, faults,   \* stop_event; runs made; faults of this run
    completed, badPhases, \* phases_completed, and the phases with errors
    outcome,              \* result of the run: "none" while it runs
    done, touched,        \* of this run: devices whose driver returned True, devices changed
    swallowed,            \* of this run: devices with an error that their driver did not heed
    certs,                \* the last SanitisationCertificate of each device
    blind                 \* devices whose last certificate followed such an error

reset_vars == <<caller, dry, found, types, phases, job, plan, login, box, keepsDefault, stop, runs, faults,
          completed, badPhases, outcome, done, touched, swallowed, certs, blind>>
caller_vars == <<caller, dry, found, types, keepsDefault, runs>>
run_vars == <<phases, stop, completed, badPhases, outcome, certs, blind>>

Distance(d) == Cardinality(Path[d])

(* "saved" is the configuration a device starts with, "running" the one in *)
(* force; a reset of the BIOS waits for a restart.                         *)
Deployed == [saved |-> "prod", running |-> "prod", up |-> TRUE, forwards |-> TRUE,
             data |-> {1, 2}, bios |-> "prod"]

ResetInit ==
    /\ caller \in Callers /\ dry = FALSE /\ found = {} /\ types = {}
    /\ phases = <<>>
    /\ job = [d \in Devices |-> "none"] /\ plan = [d \in Devices |-> <<>>]
    /\ login = [d \in Devices |-> "prod"]
    /\ box = [d \in Devices |-> Deployed]
    /\ keepsDefault \in BOOLEAN
    /\ stop = FALSE /\ runs = 0 /\ faults = 0
    /\ completed = {} /\ badPhases = {} /\ outcome = "none"
    /\ done = {} /\ touched = {} /\ swallowed = {}
    /\ certs = [d \in Devices |-> "none"] /\ blind = {}
-----------------------------------------------------------------------------
(* What the drivers send.  "on" says which errors a driver ignores: none,  *)
(* those that the device answers with, or all.                             *)

Step(op, on) == [op |-> op, on |-> on]

ResetSwitch == <<Step("connect", "none"), Step("erase", "none"), Step("reload", "none")>>

ResetServer ==
    <<Step("connect", "none"), Step("bios", "none"), Step("raid", "none"), Step("reset", "none"),
      Step("await", "none"), Step("reboot", "all")>>

ResetClock == <<Step("connect", "none"), Step("reset", "none"), Step("await", "none")>>

(* rollback/: an ASA has no boot variable to clear and save. *)
RollbackSwitch(d) ==
    IF Kind[d] = "asa"
    THEN <<Step("connect", "none"), Step("erase", "none"), Step("reload", "all")>>
    ELSE <<Step("connect", "none"), Step("erase", "none"), Step("save", "none"), Step("reload", "all")>>

RollbackServer ==
    <<Step("connect", "none"), Step("bios", "answers"), Step("raid", "answers"), Step("eject", "answers"),
      Step("reset", "answers"), Step("power_off", "answers")>>

(* The reset request first; if it is refused, Refused reverts the sections.*)
RollbackClock == <<Step("connect", "none"), Step("reset_or_revert", "none")>>

SanitiseSwitch == <<Step("connect", "none"), Step("erase", "none")>>
SanitiseServer == <<Step("connect", "none"), Step("erase_drive_1", "all"), Step("erase_drive_2", "all")>>

Plan(d) ==
    CASE caller = "factory" /\ d \in Switches -> ResetSwitch
      [] caller = "factory" /\ Kind[d] = "server" -> ResetServer
      [] caller = "orchestrator" /\ d \in Switches -> RollbackSwitch(d)
      [] caller = "orchestrator" /\ Kind[d] = "server" -> RollbackServer
      [] caller = "orchestrator" /\ Kind[d] = "clock" -> RollbackClock
      [] caller = "direct" /\ d \in Switches -> SanitiseSwitch
      [] caller = "direct" /\ Kind[d] = "server" -> SanitiseServer
      [] OTHER -> ResetClock

(* The classes of resetter/ try the inventory's credentials and then the   *)
(* factory's; those of rollback/, which get no specification, and the      *)
(* sanitiser's know the factory's only.                                    *)
Credentials(d) ==
    IF caller = "factory" \/ (caller = "direct" /\ Kind[d] = "clock") THEN <<"prod", "factory">>
    ELSE <<"factory">>
-----------------------------------------------------------------------------
(* The devices *)

Logins(d) ==
    IF box[d].running = "factory" THEN {"factory"}
    ELSE {"prod"} \cup (IF keepsDefault THEN {"factory"} ELSE {})

Reachable(d) == box[d].up /\ \A s \in Path[d] : box[s].up /\ box[s].forwards

(* A reload or a reset of the management processor: it is gone until it    *)
(* comes back with what it has saved.                                      *)
Reload_Saves(b) == [b EXCEPT !.up = FALSE, !.saved = b.running]
Reload(b) == [b EXCEPT !.up = FALSE]
ComeBack(b, forwards) == [b EXCEPT !.up = TRUE, !.running = b.saved, !.forwards = forwards]

(* save_config writes the running configuration to startup-config. *)
WriteMemory(b) == [b EXCEPT !.saved = b.running]

ClearRaid(b) == [b EXCEPT !.data = {}]
EraseSome(b, gone) == [b EXCEPT !.data = @ \ gone]
FactoryDefaults(b) == [Reload(b) EXCEPT !.saved = "factory"]
Restart(b) == [b EXCEPT !.bios = IF @ = "pending" THEN "factory" ELSE @]

Effect(op, b) ==
    CASE op = "erase"         -> [b EXCEPT !.saved = "factory"]
      [] op = "save"          -> WriteMemory(b)
      [] op = "reload"        -> Reload(b)
      [] op = "bios"          -> [b EXCEPT !.bios = "pending"]
      [] op = "raid"          -> ClearRaid(b)
      [] op \in {"reset", "reset_or_revert"} -> FactoryDefaults(b)
      [] op \in {"reboot", "power_off"}      -> Restart(b)
      [] op = "erase_drive_1" -> EraseSome(b, {1})
      [] op = "erase_drive_2" -> EraseSome(b, {2})
      [] OTHER                -> b

Returns(d) ==
    /\ ~box[d].up
    /\ \E f \in BOOLEAN :
           /\ box[d].saved = "prod" \/ d \notin Switches => f
           /\ box' = [box EXCEPT ![d] = ComeBack(@, f)]
    /\ UNCHANGED <<caller_vars, run_vars, job, plan, login, faults, done, touched, swallowed>>
-----------------------------------------------------------------------------
(* The drivers *)

Op(d) == plan[d][1].op
Running(d) == job[d] = "running" /\ plan[d] # <<>>
Fault == faults < MaxFaults /\ faults' = faults + 1

(* Meeting a device that takes longer to restart than it is given is a     *)
(* fault as well; meeting a switch that this run restarts is not.          *)
Late(d) == ~box[d].up \/ \E s \in Path[d] \ touched : ~box[s].up
FaultIfLate(d) == faults' = IF Late(d) THEN faults + 1 ELSE faults

(* The sanitiser makes a record for each drive, and says so if one failed. *)
Answer(d, ok) ==
    /\ job' = [job EXCEPT ![d] = IF ok /\ ~(caller = "direct" /\ Kind[d] = "server" /\ d \in swallowed')
                                 THEN "true" ELSE "false"]
    /\ plan' = [plan EXCEPT ![d] = <<>>]
    /\ done' = IF job'[d] = "true" THEN done \cup {d} ELSE done

Advance(d) ==
    IF Len(plan[d]) = 1 THEN Answer(d, TRUE)
    ELSE plan' = [plan EXCEPT ![d] = Tail(@)] /\ UNCHANGED <<job, done>>

Fails(d) == swallowed' = swallowed /\ Answer(d, FALSE)
Swallow(d) == swallowed' = swallowed \cup {d} /\ Advance(d)

(* The first credentials that the device takes. *)
Connect(d) ==
    /\ Running(d) /\ Op(d) = "connect" /\ Reachable(d)
    /\ \E i \in DOMAIN Credentials(d) :
           /\ Credentials(d)[i] \in Logins(d)
           /\ \A j \in 1 .. i - 1 : Credentials(d)[j] \notin Logins(d)
           /\ login' = [login EXCEPT ![d] = Credentials(d)[i]]
    /\ swallowed' = swallowed /\ Advance(d)
    /\ UNCHANGED <<caller_vars, run_vars, box, faults, touched>>

CannotConnect(d) ==
    /\ Running(d) /\ Op(d) = "connect"
    /\ \/ ~Reachable(d) /\ FaultIfLate(d)
       \/ \A i \in DOMAIN Credentials(d) : Credentials(d)[i] \notin Logins(d) /\ UNCHANGED faults
       \/ Fault
    /\ Fails(d)
    /\ UNCHANGED <<caller_vars, run_vars, login, box, touched>>

(* After a reset of the iLO the rest is sent with the factory's login by   *)
(* the class of resetter/, with the old one by that of rollback/.          *)
Authorised(d) ==
    \/ d \in Switches /\ login[d] # "dead"
    \/ login[d] \in Logins(d)
    \/ Op(d) = "reboot" /\ "factory" \in Logins(d)

Request(d) ==
    /\ Running(d) /\ Op(d) \notin {"connect", "await"} /\ Reachable(d) /\ Authorised(d)
    /\ box' = [box EXCEPT ![d] = Effect(Op(d), @)]
    /\ touched' = touched \cup {d}
    /\ swallowed' = swallowed /\ Advance(d)
    /\ UNCHANGED <<caller_vars, run_vars, login, faults>>

(* The device answers with an error: the action is not supported, or the   *)
(* login is not accepted any more.  Drives before the one refused are gone.*)
(* A clock without a reset request has its sections reverted, not its      *)
(* users; nothing looks at what a switch answers.                          *)
Refused(d) ==
    /\ Running(d) /\ Op(d) \notin {"connect", "await"} /\ Reachable(d)
    /\ d \in Switches => Authorised(d)
    /\ IF Authorised(d) THEN Fault ELSE UNCHANGED faults
    /\ \E gone \in SUBSET box[d].data :
           /\ gone # {} => Op(d) = "raid" /\ Authorised(d)
           /\ box' = [box EXCEPT ![d] = IF Op(d) = "reset_or_revert" THEN Reload(@)
                                        ELSE EraseSome(@, gone)]
    /\ IF plan[d][1].on = "none" /\ Op(d) # "reset_or_revert" /\ d \notin Switches
       THEN Fails(d) ELSE Swallow(d)
    /\ touched' = touched \cup {d}
    /\ UNCHANGED <<caller_vars, run_vars, login>>

(* Losing a session is one fault, whatever is sent on it afterwards. *)
LostToo(d) ==
    IF login[d] = "dead" THEN UNCHANGED faults ELSE IF Reachable(d) THEN Fault ELSE FaultIfLate(d)

(* A request or its answer is lost, or meets a device that is gone.  The   *)
(* polling loop of _reset_ilo begins again when its reboot request is lost;*)
(* a connection lost while a clock of rollback/ is reset counts as success.*)
Lost(d) ==
    /\ Running(d) /\ Op(d) \notin {"connect", "await"}
    /\ LostToo(d)
    /\ IF Reachable(d) /\ Authorised(d)
       THEN box' \in {box, [box EXCEPT ![d] = Effect(Op(d), @)]} ELSE UNCHANGED box
    /\ touched' = touched \cup {d}
    /\ \/ plan[d][1].on # "all" /\ Fails(d)
       \/ (plan[d][1].on = "all" \/ Op(d) = "reset_or_revert") /\ Swallow(d)
       \/ /\ Op(d) = "reboot" /\ faults' # faults
          /\ plan' = [plan EXCEPT ![d] = <<Step("await", "none")>> \o @]
          /\ UNCHANGED <<job, done, swallowed>>
    /\ UNCHANGED <<caller_vars, run_vars, login>>

(* send_command_timing does not raise on a session that has died: the      *)
(* commands for "write erase" and "reload" go nowhere, as if all were well.*)
SentToNobody(d) ==
    /\ Running(d) /\ Op(d) \in {"erase", "reload"} /\ d \in Switches
    /\ LostToo(d)
    /\ login' = [login EXCEPT ![d] = "dead"]
    /\ touched' = touched \cup {d}
    /\ Swallow(d)
    /\ UNCHANGED <<caller_vars, run_vars, box>>

(* The device has come back, or has not yet gone. *)
AwaitEnds(d) ==
    /\ Running(d) /\ Op(d) = "await"
    /\ \/ Reachable(d) /\ UNCHANGED faults
       \/ ~box[d].up /\ Fault
    /\ swallowed' = swallowed /\ Advance(d)
    /\ UNCHANGED <<caller_vars, run_vars, login, box, touched>>

AwaitTimesOut(d) ==
    /\ Running(d) /\ Op(d) = "await" /\ ~Reachable(d)
    /\ FaultIfLate(d)
    /\ Fails(d)
    /\ UNCHANGED <<caller_vars, run_vars, login, box, touched>>
-----------------------------------------------------------------------------
(* The runs *)

PhasesOf(c) ==
    CASE c = "factory" -> <<"vm_teardown", "nsx_teardown", "vcenter_teardown", "server_wipe",
                            "network_reset", "validation">>
      [] c = "orchestrator" -> <<"appliances", "servers", "network">>
      [] c = "direct" -> <<"direct">>

Phase == phases[1]
Busy == phases # <<>>

Batch(phase) ==
    CASE phase \in {"server_wipe", "servers"}   -> {d \in found : Kind[d] = "server"}
      [] phase \in {"network_reset", "network"} -> found \cap Switches
      [] phase = "appliances"                   -> {d \in found : Kind[d] = "clock"}
      [] phase = "direct"                       -> found
      [] OTHER                                  -> {}

Selected ==
    {d \in found : \/ caller = "factory" /\ Kind[d] # "clock"
                   \/ caller = "direct"
                   \/ caller = "orchestrator" /\ Kind[d] \in types}

Jobs == IF dry THEN {} ELSE Batch(Phase) \cap Selected

NoJobs == /\ job' = [d \in Devices |-> "none"] /\ plan' = [d \in Devices |-> <<>>]

Filters == {{"switch", "asa", "server", "clock"}, {"switch", "asa"}, {"server"}, {"clock"}}

Call ==
    /\ ~Busy /\ runs < MaxRuns /\ runs' = runs + 1
    /\ dry' \in (IF caller = "direct" THEN {FALSE} ELSE BOOLEAN)
    /\ found' \in Discoveries
    /\ types' \in (IF caller = "orchestrator" THEN Filters ELSE {{}})
    /\ phases' = PhasesOf(caller)
    /\ stop' = FALSE /\ faults' = 0 /\ outcome' = "none"
    /\ completed' = {} /\ badPhases' = {} /\ done' = {} /\ touched' = {} /\ swallowed' = {}
    /\ NoJobs
    /\ UNCHANGED <<caller, login, box, keepsDefault, certs, blind>>

(* Switches go by depth, closest first, and a failure stops the rest. *)
Closer(d) == {e \in Jobs : Distance(e) < Distance(d)}

StartJob(d) ==
    /\ Busy /\ d \in Jobs /\ job[d] = "none"
    /\ Phase \in {"network_reset", "network"} => \A e \in Closer(d) : job[e] = "true"
    /\ job' = [job EXCEPT ![d] = "running"] /\ plan' = [plan EXCEPT ![d] = Plan(d)]
    /\ UNCHANGED <<caller_vars, run_vars, login, box, faults, done, touched, swallowed>>

Skipped(d) == /\ Phase \in {"network_reset", "network"}
              /\ job[d] = "none" /\ \E e \in Closer(d) : job[e] = "false"

JobsOver == \A d \in Jobs : job[d] \in {"true", "false"} \/ Skipped(d)

(* The phase's errors: a driver that returned False; for the servers and   *)
(* the appliances also one without a result.  The three phases of the      *)
(* VMware stack raise NotImplementedError.                                 *)
NoneFailed_AnyReset == Jobs # {} => \E d \in Jobs : job[d] = "true"
NoneFailed == \A d \in Jobs : job[d] # "false"

PhaseOk ==
    /\ Phase \notin {"vm_teardown", "nsx_teardown", "vcenter_teardown"} \/ dry
    /\ NoneFailed

(* The factory's runner certifies each device that it has tried. *)
Certified == IF caller = "factory" THEN Jobs ELSE {}
Certificate(d) ==
    IF d \in Certified THEN (IF job[d] = "true" THEN "pass" ELSE "fail") ELSE certs[d]

AbortOn_Nothing(phase) == FALSE
AbortOn(phase) == phase \in {"server_wipe", "network_reset"}

(* The stop event is looked at before each phase, by the factory's runner  *)
(* only; validation probes port 22 and never fails.                        *)
PhaseEnds ==
    /\ Busy /\ JobsOver
    /\ completed' = IF PhaseOk THEN completed \cup {Phase} ELSE completed
    /\ badPhases' = IF PhaseOk THEN badPhases ELSE badPhases \cup {Phase}
    /\ certs' = [d \in Devices |-> Certificate(d)]
    /\ blind' = (blind \ Certified) \cup (Certified \cap swallowed)
    /\ phases' = IF (~PhaseOk /\ AbortOn(Phase)) \/ (caller = "factory" /\ stop) THEN <<>> ELSE Tail(phases)
    /\ outcome' = IF phases' # <<>> THEN "none"
                  ELSE IF badPhases' # {} THEN "failed" ELSE IF dry THEN "dry" ELSE "complete"
    /\ NoJobs
    /\ UNCHANGED <<caller_vars, login, box, stop, faults, done, touched, swallowed>>

Stop ==
    /\ Busy /\ caller = "factory" /\ ~stop /\ stop' = TRUE
    /\ UNCHANGED <<caller_vars, phases, job, plan, login, box, faults, completed, badPhases, outcome,
                   done, touched, swallowed, certs, blind>>
-----------------------------------------------------------------------------
Driver(d) == \/ Connect(d) \/ CannotConnect(d) \/ Request(d) \/ Refused(d) \/ Lost(d)
             \/ SentToNobody(d) \/ AwaitEnds(d) \/ AwaitTimesOut(d)
Runner == PhaseEnds \/ \E d \in Devices : StartJob(d) \/ Driver(d)

ResetNext == Call \/ Stop \/ Runner \/ \E d \in Devices : Returns(d)

ResetSpec == ResetInit /\ [][ResetNext]_reset_vars
-----------------------------------------------------------------------------
(* At factory defaults, or due there at a restart that has begun. *)
AtDefaults(d) ==
    /\ box[d].saved = "factory" /\ (box[d].up => box[d].running = "factory")
    /\ Kind[d] = "server" => box[d].data = {} /\ box[d].bios # "prod"

Erased(d) == IF d \in Switches THEN box[d].saved = "factory" ELSE box[d].data = {}

(* A driver that returns True, and a sanitisation certificate that says    *)
(* so, are right: the device is at factory defaults or restarting to them, *)
(* a server without data on its logical drives.  Not so where a driver     *)
(* ignored an error or could not see it, which no certificate but that of  *)
(* a switch may hide, and for the switches of rollback/network.py, which   *)
(* saves the running configuration over the one it has erased.             *)
ReportedResetIsReal ==
    \A d \in Devices :
        /\ d \in done \ swallowed =>
               IF caller = "direct" /\ Kind[d] # "clock" THEN Erased(d)
               ELSE (caller = "orchestrator" /\ Kind[d] = "switch") \/ AtDefaults(d)
        /\ certs[d] = "pass" => AtDefaults(d) \/ d \in blind \cap Switches

(* "Factory reset complete", and a phase in phases_completed, mean that no *)
(* device was left out: each of those selected has been reset by its       *)
(* driver, also where the failure of one switch skips the ones behind it.  *)
CompleteMeansAllReset ==
    /\ ~dry /\ outcome = "complete" => Selected \subseteq done
    /\ ~dry /\ "server_wipe" \in completed => {d \in found : Kind[d] = "server"} \subseteq done
    /\ ~dry /\ "network_reset" \in completed => found \cap Switches \subseteq done

(* The network is taken down last: no switch is changed while a server or  *)
(* a clock is still being reset over it, and FactoryResetOrchestrator does *)
(* not touch a switch before every server it knows has been wiped.         *)
NetworkGoesLast ==
    touched \cap Switches # {} /\ caller # "direct" =>
        /\ \A d \in Devices \ Switches : job[d] # "running"
        /\ caller = "factory" => {d \in found : Kind[d] = "server"} \subseteq done

=============================================================================
