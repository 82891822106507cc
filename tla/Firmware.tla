------------------------------ MODULE Firmware ------------------------------
(***************************************************************************)
(* FirmwareTestRunner.test_all (firmware/tester.py) over a list of         *)
(* devices, with the commands of FirmwareConfigurator.upgrade_device       *)
(* (configurator/firmware.py) on the device under test, the catalogue they *)
(* consult and the compliance audit that consults the same catalogue.      *)
(* Sessions may be lost at any command; a device reloads on its own time,  *)
(* and what it boots depends on what was saved before.                     *)
(*                                                                         *)
(* _perform_upgrade writes the entry into the inventory for the time of    *)
(* the call and restores it in a finally clause of the same thread, so the *)
(* override is represented by the entry that the upgrade works on.         *)
(***************************************************************************)
EXTENDS Naturals, FiniteSets

CONSTANTS
    NumDevices,   \* the devices given to test_all, tested in this order
    Known,        \* those of them that have a spec in the inventory
    Unparsed,     \* those whose "show version" the parser may not understand
    Replacing,    \* those on which a boot line replaces the one that was there
    Catalogues,   \* the catalogues considered: functions from Versions
    MaxDrops      \* bound: sessions lost or refused

Devices  == 1..NumDevices
Versions == {1, 2}     \* 2 is the version under test
Unknown  == 3          \* "unknown" sorts after every version that is a number
NoImage  == 0          \* no version, no boot variable, no image that boots

(* A catalogue entry; "listed" is false for a version it does not have.    *)
(* "min" is the min_version or 0, "md5" says that a checksum is given, and *)
(* "file" whether the image on the laptop is the one the entry describes.  *)
Entry == [listed: BOOLEAN, recommended: BOOLEAN, min: 0..2, md5: BOOLEAN, file: {"good", "bad"}]

(* An empty list of devices has no test to model. *)
ASSUME FirmwareAssumption ==
    /\ NumDevices \in Nat \ {0} /\ Known \subseteq Devices /\ Unparsed \subseteq Devices
    /\ Replacing \subseteq Devices /\ MaxDrops \in Nat
    /\ Catalogues \subseteq [Versions -> Entry]

VARIABLES
    catalog,    \* the catalogue of this run
    shipped,    \* history: the version each device ran before the tests
    hw,         \* the devices themselves
    state,      \* DeviceState of the DiscoveredDevice objects
    outcome,    \* UpgradeTestOutcome of each device, "none" before its result
    cur,        \* the device under test
    pc,         \* the command that comes next
    job,        \* "test" or "rollback": whose entry is being installed
    previous,   \* version read at the snapshot
    snapshot,   \* the running configuration captured then
    configOk,   \* result of _reapply_config
    drops

testVars == <<catalog, shipped, outcome, cur, job, previous, snapshot, configOk>>
firmware_vars == <<catalog, shipped, hw, state, outcome, cur, pc, job, previous, snapshot, configOk, drops>>

(* A configuration: the field's settings, as written or altered by an      *)
(* image that reads them differently; "ip scp server enable"; and the boot *)
(* lines, of which a device tries the first before the spare one.          *)
Configured(v) == [text |-> "field", scp |-> FALSE, boot |-> v, spare |-> NoImage]

(* A device: the version it runs, whether it answers, whether a reload was *)
(* confirmed, the images in its flash and the two configurations.          *)
AsShipped(v) == [runs |-> v, up |-> TRUE, reloading |-> FALSE,
                 flash |-> [w \in Versions |-> IF w = v THEN "good" ELSE "absent"],
                 running |-> Configured(v), saved |-> Configured(v)]

(* What a boot line, and "no boot system", do to the configuration.        *)
BootLine(c, v) ==
    IF v \in {NoImage, c.boot} THEN c
    ELSE IF c.boot = NoImage \/ cur \in Replacing THEN [c EXCEPT !.boot = v]
    ELSE [c EXCEPT !.spare = v]
NoBootLines(c) == [c EXCEPT !.boot = NoImage, !.spare = NoImage]

NoSnapshot == Configured(NoImage)

FirmwareInit ==
    /\ catalog \in Catalogues
    /\ shipped \in [Devices -> Versions]
    /\ hw = [d \in Devices |-> AsShipped(shipped[d])]
    /\ state = [d \in Devices |-> "configured"]
    /\ outcome = [d \in Devices |-> "none"]
    /\ cur = 1 /\ pc = "resolve" /\ job = "test"
    /\ previous = Unknown /\ snapshot = NoSnapshot /\ configOk = FALSE
    /\ drops = 0
-----------------------------------------------------------------------------
(* FirmwareCatalog *)

GetVersion(v) == catalog[v].listed

(* With two versions, the entry marked recommended; the catalogues         *)
(* considered mark at most one.                                            *)
GetRecommended == {v \in Versions : catalog[v].listed /\ catalog[v].recommended}

IsUpgradeSafe(v, current) == catalog[v].min = 0 \/ current >= catalog[v].min

(* ComplianceChecker._check_device; an unreadable version is the empty     *)
(* string here, and reported like a device that does not answer.           *)
CheckDevice(reachable, current) ==
    IF ~reachable \/ current = Unknown THEN "unreachable"
    ELSE IF GetRecommended = {} THEN "unknown"
    ELSE LET rec == CHOOSE v \in GetRecommended : TRUE IN
         IF current = rec THEN "compliant"
         ELSE IF IsUpgradeSafe(rec, current) THEN "upgrade_available" ELSE "upgrade_blocked"
-----------------------------------------------------------------------------
(* The end of a device's test, and test_all *)

Skipping_ErrorsOnly == {"error"}

Skipping == {"failed", "error"}

(* The result is recorded; after a failed one the rest is marked skipped.  *)
Result(r) ==
    /\ outcome' = [d \in Devices |->
           IF d = cur THEN r
           ELSE IF d > cur /\ r \in Skipping THEN "skipped" ELSE outcome[d]]
    /\ IF r \in Skipping \/ cur = NumDevices
       THEN pc' = "done" /\ UNCHANGED cur
       ELSE pc' = "resolve" /\ cur' = cur + 1
    /\ job' = "test" /\ previous' = Unknown /\ snapshot' = NoSnapshot /\ configOk' = FALSE
    /\ UNCHANGED <<catalog, shipped>>

DeviceAnswers == hw[cur].up
Drop == drops < MaxDrops /\ drops' = drops + 1
SessionFails == Drop \/ (~DeviceAnswers /\ UNCHANGED drops)

(* What _get_current_version returns. *)
Reading == {hw[cur].runs} \cup (IF cur \in Unparsed THEN {Unknown} ELSE {})

Goto(label) == pc' = label /\ UNCHANGED testVars

Resolve_AnyEntry ==
    /\ pc = "resolve"
    /\ Goto("snapshot")
    /\ UNCHANGED <<hw, state, drops>>

Resolve ==
    /\ pc = "resolve"
    /\ IF GetRecommended = {2} THEN Goto("snapshot") ELSE Result("skipped")
    /\ UNCHANGED <<hw, state, drops>>

SnapshotFails ==
    /\ pc = "snapshot" /\ Drop
    /\ Result("error")
    /\ UNCHANGED <<hw, state>>

Snapshot ==
    /\ pc = "snapshot" /\ DeviceAnswers
    /\ \E current \in Reading :
         IF current = 2 \/ ~IsUpgradeSafe(2, current)
         THEN Result("skipped") /\ UNCHANGED state
         ELSE /\ previous' = current /\ snapshot' = hw[cur].running
              /\ pc' = "upgrade"
              /\ state' = [state EXCEPT ![cur] = "upgrading"]
              /\ UNCHANGED <<catalog, shipped, outcome, cur, job, configOk>>
    /\ UNCHANGED <<hw, drops>>
-----------------------------------------------------------------------------
(* upgrade_device *)

Goal == IF job = "test" THEN 2 ELSE previous

(* upgrade_device has returned r. *)
Upgraded(r, s) ==
    /\ state' = [state EXCEPT ![cur] = IF ~r /\ job = "test" THEN "failed" ELSE s]
    /\ IF r THEN Goto("reconnect") ELSE Result("failed")

(* A device without a spec: the entry is written into a dictionary that    *)
(* nobody else sees, and upgrade_device finds nothing to install.          *)
NothingToInstall ==
    /\ pc = "upgrade" /\ cur \notin Known
    /\ Upgraded(TRUE, state[cur])
    /\ UNCHANGED <<hw, drops>>

CannotConnect ==
    /\ pc = "upgrade" /\ cur \in Known /\ Drop
    /\ Upgraded(FALSE, "upgrading")
    /\ UNCHANGED hw

(* Too little space in the flash is logged, and taken for enough. *)
CheckFlashSpace == TRUE

Inspect ==
    /\ pc = "upgrade" /\ cur \in Known /\ DeviceAnswers
    /\ \E current \in Reading :
         IF current = Goal THEN Upgraded(TRUE, "upgraded")
         ELSE CheckFlashSpace /\ Goto("transfer") /\ state' = [state EXCEPT ![cur] = "upgrading"]
    /\ UNCHANGED <<hw, drops>>

(* The SCP server is switched on, outside the try, and stays on.           *)
ScpServer(dev) == [dev EXCEPT !.running.scp = TRUE]

ScpRaises ==
    /\ pc = "transfer" /\ Drop
    /\ hw' \in {hw, [hw EXCEPT ![cur] = ScpServer(@)]}
    /\ Upgraded(FALSE, "failed")

(* file_transfer compares the copy with the source and overwrites it if it *)
(* differs; it may find the flash full, or lose the session half-way.      *)
Transfer ==
    /\ pc = "transfer"
    /\ hw' = [hw EXCEPT ![cur] = [ScpServer(@) EXCEPT !.flash[Goal] = catalog[Goal].file]]
    /\ Goto(IF catalog[Goal].md5 THEN "md5" ELSE "boot")
    /\ UNCHANGED <<state, drops>>

TransferFails ==
    /\ pc = "transfer" /\ Drop
    /\ \E half \in IF hw[cur].flash[Goal] = catalog[Goal].file
                    THEN {catalog[Goal].file} ELSE {"absent", "bad"} :
         hw' = [hw EXCEPT ![cur] = [ScpServer(@) EXCEPT !.flash[Goal] = half]]
    /\ Upgraded(FALSE, "upgrading")

VerifyMd5_AcceptsAnything ==
    /\ pc = "md5" /\ Goto("boot")
    /\ UNCHANGED <<hw, state, drops>>

VerifyMd5 ==
    /\ pc = "md5"
    /\ IF hw[cur].flash[Goal] = "good" THEN Goto("boot") /\ UNCHANGED state
                                       ELSE Upgraded(FALSE, "upgrading")
    /\ UNCHANGED <<hw, drops>>

(* "no boot system" and the new variable are two commands of one set.      *)
NewBoot(c) == BootLine(NoBootLines(c), Goal)

SetBootVariable ==
    /\ pc = "boot"
    /\ hw' = [hw EXCEPT ![cur].running = NewBoot(@)]
    /\ Goto("write")
    /\ UNCHANGED <<state, drops>>

WriteMemory ==
    /\ pc = "write"
    /\ hw' = [hw EXCEPT ![cur].saved = hw[cur].running]
    /\ Goto("reload")
    /\ UNCHANGED <<state, drops>>

(* A command raises: before it reached the device, half-way through a set, *)
(* or when only its answer is lost.                                        *)
BootRaises ==
    /\ pc = "boot" /\ Drop
    /\ \E c \in {hw[cur].running, NoBootLines(hw[cur].running), NewBoot(hw[cur].running)} :
         hw' = [hw EXCEPT ![cur].running = c]
    /\ Upgraded(FALSE, "failed")

WriteRaises ==
    /\ pc = "write" /\ Drop
    /\ \E c \in {hw[cur].saved, hw[cur].running} : hw' = [hw EXCEPT ![cur].saved = c]
    /\ Upgraded(FALSE, "failed")

(* send_command_timing does not notice a lost session: the confirmation    *)
(* may reach the device or not.                                            *)
Reload ==
    /\ pc = "reload"
    /\ hw' = [hw EXCEPT ![cur].reloading = TRUE]
    /\ Goto("wait")
    /\ UNCHANGED <<state, drops>>

ReloadNotHeard ==
    /\ pc = "reload" /\ Drop
    /\ Goto("wait")
    /\ UNCHANGED <<hw, state>>

CommandRaises ==
    /\ pc \in {"md5", "verify"} /\ Drop
    /\ Upgraded(FALSE, "failed")
    /\ UNCHANGED hw

WaitForReload_NoTimeout ==
    /\ pc = "wait" /\ DeviceAnswers
    /\ Goto("verify")
    /\ UNCHANGED <<hw, state, drops>>

(* The first poll that connects ends the wait, also when the device has    *)
(* not gone down yet; the timeout ends it at any time.                     *)
WaitForReload ==
    /\ pc = "wait"
    /\ \/ DeviceAnswers /\ Goto("verify") /\ UNCHANGED state
       \/ ~DeviceAnswers /\ Upgraded(FALSE, "failed")
    /\ UNCHANGED <<hw, drops>>

VerifyVersion ==
    /\ pc = "verify" /\ DeviceAnswers
    /\ \E current \in Reading :
         IF current = Goal THEN Upgraded(TRUE, "upgraded") ELSE Upgraded(FALSE, "failed")
    /\ UNCHANGED <<hw, drops>>

VerifyCannotConnect ==
    /\ pc = "verify" /\ ~DeviceAnswers
    /\ Upgraded(FALSE, "failed")
    /\ UNCHANGED <<hw, drops>>
-----------------------------------------------------------------------------
(* What test_upgrade does after the upgrade *)

ReconnectFails ==
    /\ pc = "reconnect" /\ SessionFails
    /\ Result("failed")
    /\ UNCHANGED <<hw, state>>

ReconnectRaises ==
    /\ pc \in {"reconnect", "post"} /\ job = "test" /\ Drop
    /\ Result("error")
    /\ UNCHANGED <<hw, state>>

Reconnect_NoVersionCheck ==
    /\ pc = "reconnect" /\ DeviceAnswers
    /\ Goto("reapply")
    /\ UNCHANGED <<hw, state, drops>>

(* The rollback does not read the version again. *)
Reconnect ==
    /\ pc = "reconnect" /\ DeviceAnswers
    /\ \E current \in Reading :
         IF job = "rollback" \/ current = 2 THEN Goto("reapply") ELSE Result("failed")
    /\ UNCHANGED <<hw, state, drops>>

(* Every line of the snapshot is sent again, its boot line included; what  *)
(* the snapshot does not have, like the SCP server, is not taken away.     *)
Restored(c) == [BootLine(c, snapshot.boot) EXCEPT !.text = snapshot.text]

(* _reapply_config returns ok; the rollback does not look at its result. *)
Reapplied(ok) ==
    IF job = "rollback" THEN Result("rolled_back")
    ELSE /\ pc' = "post" /\ configOk' = ok
         /\ UNCHANGED <<catalog, shipped, outcome, cur, job, previous, snapshot>>

ReapplyConfig ==
    /\ pc = "reapply" /\ DeviceAnswers
    /\ hw' = [hw EXCEPT ![cur].running = Restored(@), ![cur].saved = Restored(hw[cur].running)]
    /\ Reapplied(TRUE)
    /\ UNCHANGED <<state, drops>>

(* A part of the lines, or all of them, and then also "write memory", may  *)
(* have arrived.                                                           *)
ReapplyFails ==
    /\ pc = "reapply" /\ SessionFails
    /\ IF ~DeviceAnswers THEN UNCHANGED hw
       ELSE \E lines \in {hw[cur].running, BootLine(hw[cur].running, snapshot.boot)},
               text \in {"field", "altered"}, written \in BOOLEAN :
         /\ written => [lines EXCEPT !.text = text] = Restored(hw[cur].running)
         /\ hw' = [hw EXCEPT ![cur].running = [lines EXCEPT !.text = text],
                             ![cur].saved = IF written THEN [lines EXCEPT !.text = text] ELSE @]
    /\ Reapplied(FALSE)
    /\ UNCHANGED state

PostCannotConnect ==
    /\ pc = "post" /\ SessionFails
    /\ Result("failed")
    /\ UNCHANGED <<hw, state>>

(* The health checks of ConfigValidator pass or fail; only the first of    *)
(* two tests for success looks at them alone.                              *)
PostValidation ==
    /\ pc = "post" /\ DeviceAnswers
    /\ \E healthy \in BOOLEAN :
         IF healthy /\ configOk
         THEN Result("passed") /\ state' = [state EXCEPT ![cur] = "upgraded"]
         ELSE /\ UNCHANGED state
              /\ IF previous \in Versions /\ GetVersion(previous)
                 THEN /\ pc' = "upgrade" /\ job' = "rollback"
                      /\ UNCHANGED <<catalog, shipped, outcome, cur, previous, snapshot, configOk>>
                 ELSE Result("failed")
    /\ UNCHANGED <<hw, drops>>
-----------------------------------------------------------------------------
(* The devices, on their own *)

GoesDown(d) ==
    /\ hw[d].reloading
    /\ hw' = [hw EXCEPT ![d].up = FALSE, ![d].reloading = FALSE]
    /\ UNCHANGED <<testVars, state, pc, drops>>

(* The first saved boot line that names an image that boots, or else any   *)
(* image in the flash; an image other than the one that ran may read the   *)
(* saved configuration differently.                                        *)
Intact(d) == {v \in Versions : hw[d].flash[v] = "good"}

Bootable(d) ==
    IF hw[d].saved.boot \in Intact(d) THEN {hw[d].saved.boot}
    ELSE IF hw[d].saved.spare \in Intact(d) THEN {hw[d].saved.spare} ELSE Intact(d)

Boot(d) ==
    /\ ~hw[d].up
    /\ \E v \in Bootable(d), text \in {hw[d].saved.text, "altered"} :
         /\ v = hw[d].runs => text = hw[d].saved.text
         /\ hw' = [hw EXCEPT ![d] = [@ EXCEPT
                  !.up = TRUE, !.runs = v, !.running = [hw[d].saved EXCEPT !.text = text]]]
    /\ UNCHANGED <<testVars, state, pc, drops>>
-----------------------------------------------------------------------------
Upgrade ==
    \/ NothingToInstall \/ CannotConnect \/ Inspect \/ ScpRaises \/ Transfer \/ TransferFails
    \/ VerifyMd5 \/ SetBootVariable \/ BootRaises \/ WriteMemory \/ WriteRaises
    \/ Reload \/ ReloadNotHeard \/ CommandRaises
    \/ WaitForReload \/ VerifyVersion \/ VerifyCannotConnect

Runner ==
    \/ Resolve \/ SnapshotFails \/ Snapshot \/ Upgrade
    \/ ReconnectFails \/ ReconnectRaises \/ Reconnect \/ ReapplyConfig \/ ReapplyFails
    \/ PostCannotConnect \/ PostValidation

FirmwareNext == Runner \/ \E d \in Devices : GoesDown(d) \/ Boot(d)

FirmwareSpec == FirmwareInit /\ [][FirmwareNext]_firmware_vars

FirmwareFairSpec ==
    /\ FirmwareSpec /\ WF_firmware_vars(Runner)
    /\ \A d \in Devices : WF_firmware_vars(GoesDown(d)) /\ WF_firmware_vars(Boot(d))
-----------------------------------------------------------------------------
(* PASSED means that the device runs the version under test with the       *)
(* settings of the snapshot, and that a restart changes neither: through   *)
(* lost sessions, unreadable versions, reloads that come late. Where a     *)
(* boot line replaces another it names the old image again, because it was *)
(* sent with the snapshot, so that only the settings are promised there.   *)
PassedMeansUpgraded ==
    \A d \in Devices : outcome[d] = "passed" =>
        /\ hw[d].up => hw[d].runs = 2 /\ hw[d].running.text = "field"
        /\ hw[d].saved.text = "field"
        /\ hw[d].saved.boot = 2 \/ d \in Replacing

(* The devices are tested one at a time so that a bad image breaks one of  *)
(* them: at any moment at most one device has left its version, or will at *)
(* its next restart, without having passed its test.                       *)
Moved(d) == shipped[d] = 1 /\ (hw[d].runs # 1 \/ hw[d].saved.boot # 1 \/ ~hw[d].up)

OneDeviceAtRisk ==
    \A d, e \in Devices : Moved(d) /\ Moved(e) /\ d # e => "passed" \in {outcome[d], outcome[e]}

(* A device that did not have the version under test never has that image  *)
(* as its saved boot variable unless it is in its flash, intact, when the  *)
(* catalogue gives its checksum; and its own image is intact as long as it *)
(* boots from it. Where the old boot line came back with the snapshot, the *)
(* rollback writes onto the image that boots: a wrong file spoils it.      *)
BootImageVerified ==
    \A d \in Devices : LET v == hw[d].saved.boot IN
        shipped[d] = 1 /\ catalog[v].md5 /\ (d \in Replacing => catalog[1].file = "good")
            => hw[d].flash[v] = "good"

(* The tests touch no device to which the compliance audit, run on the     *)
(* same catalogue, offers no upgrade, provided that its version parses:    *)
(* the audit calls an unreadable device unreachable, while the tests take  *)
(* "unknown" for a version above every baseline.                           *)
AuditAgreesWithTests ==
    \A d \in Devices \ Unparsed :
        CheckDevice(TRUE, shipped[d]) # "upgrade_available" => hw[d] = AsShipped(shipped[d])

(* The run ends, also when a device does not come back from its reload. *)
RunnerEnds == <>(pc = "done")
=============================================================================
