---------------------------- MODULE Provisioning ----------------------------
(***************************************************************************)
(* The provisioning of one server or clock over HTTPS, request by request: *)
(* HPEServerProvisioner (provisioner/server.py), the functions of ilo.py   *)
(* and installer.py with the retrying client of redfish.py, and            *)
(* MeinbergProvisioner (meinberg.py).  What a method sends is a sequence   *)
(* of requests (Plan); an action performs the first of those left.  The    *)
(* box answers, restarts and installs on its own time.  An operator calls  *)
(* again after a failure, with the same specification; the requests have   *)
(* no timeout, and a call whose box stays silent has to be killed.         *)
(***************************************************************************)
EXTENDS Integers, Sequences, FiniteSets

CONSTANTS
    Specs,       \* the specifications considered: a set of Spec records
    MaxCalls,    \* bound: calls of the provisioner for the box
    MaxFaults    \* bound: requests of a call that are lost, with or without effect

Names == {"admin", "ops"}     \* "admin" is the account of the factory

(* The sections of a device's inventory entry; an empty one is skipped.    *)
(* "kind" is the class or function called.  "priv" says that the entry     *)
(* gives its users the right to configure the iLO, which is not the        *)
(* default (server.py:531); "secret" is the password that it gives them,   *)
(* "old" the one of the factory, and "adminFirst" the order of the list.   *)
Sections == [kind: {"hpe", "ntp", "bios", "raid", "install", "flash"},
             firmware: BOOLEAN, bios: BOOLEAN, raid: {"none", "keep", "clear"}, spp: BOOLEAN,
             os: BOOLEAN, kickstart: BOOLEAN, network: BOOLEAN, users: SUBSET Names,
             adminFirst: BOOLEAN, secret: {"old", "new"}, priv: BOOLEAN, remove: BOOLEAN, services: BOOLEAN]

(* configure_raid (ilo.py:108) is given the RAID section of an entry.      *)
ASSUME ProvisioningAssumption ==
    /\ Specs \subseteq Sections
    /\ \A s \in Specs : s.kind = "raid" => s.raid # "none"
    /\ MaxCalls \in Nat \ {0} /\ MaxFaults \in Nat

VARIABLES
    spec,      \* the device's inventory entry
    box,       \* the server and its iLO, or the clock
    plan,      \* the requests left of the call
    login,     \* ilo_username of the call
    secret,    \* ilo_password of the call, which its client keeps
    hung,      \* the call waits for an answer that will not come
    device_state,  \* device.state, as far as it tells how a call ended
    result,    \* what the call returned, or "raised"; "none" while it runs
    calls, faults,   \* calls made; faults in this call
    rejected   \* history: the controller refused a logical drive in this call

vars == <<spec, box, plan, login, secret, hung, device_state, result, calls, faults, rejected>>

(* What the requests change.  "run" is what the machine executes; "once"   *)
(* a boot from virtual media at the next reset; "sections" the parts of    *)
(* the configuration that a single request writes.                         *)
Factory == [bmc |-> "up", moved |-> FALSE, accounts |-> [n \in Names |-> IF n = "admin" THEN "config" ELSE "none"],
            secrets |-> [n \in Names |-> "old"],
            bios |-> FALSE, pending |-> FALSE, drives |-> {"old"}, media |-> {}, once |-> FALSE,
            run |-> "idle", installed |-> FALSE, sections |-> {}]

Init ==
    /\ spec \in Specs
    /\ box \in {Factory, [Factory EXCEPT !.drives = {}]}
    /\ plan = <<>> /\ login = "admin" /\ secret = "old" /\ hung = FALSE
    /\ device_state = "discovered" /\ result = "none"
    /\ calls = 0 /\ faults = 0 /\ rejected = FALSE
-----------------------------------------------------------------------------
(* The requests of each method, in its order.  A request that fails ends   *)
(* the call ("fails"), is ignored ("ignored"), or raises an exception that *)
(* the method does not catch ("escapes").                                  *)

Must(ops) == [i \in 1..Len(ops) |-> [op |-> ops[i], on |-> "fails"]]
May(ops)  == [i \in 1..Len(ops) |-> [op |-> ops[i], on |-> "ignored"]]
Bare(ops) == [i \in 1..Len(ops) |-> [op |-> ops[i], on |-> "escapes"]]
If(cond, steps) == IF cond THEN steps ELSE <<>>

UpdateIloFirmware == Must(<<"manager", "flash">>) \o May(<<"await_task", "await_ilo">>)

ConfigureBios == Must(<<"read_bios", "patch_bios", "reset">>) \o May(<<"await_post">>)

ConfigureRaid_NeverClears == Must(<<"controllers", "create_drive", "reset">>) \o May(<<"await_post">>)

ConfigureRaid ==
    Must(<<"controllers">>) \o If(spec.raid = "clear", Must(<<"clear_drives">>))
    \o Must(<<"create_drive", "reset">>) \o May(<<"await_post">>)

InstallSpp == Must(<<"mount_spp", "one_time_boot", "reset">>) \o May(<<"await_post">>) \o Must(<<"eject">>)

InstallOs ==
    Must(<<"mount_os">>) \o If(spec.kickstart, Must(<<"mount_ks">>)) \o Must(<<"one_time_boot", "reset">>)
    \o May(<<"await_install">>) \o Must(<<"eject">>)

AdminUser == If("admin" \in spec.users, Must(<<"user_admin">>))
OpsUser   == If("ops" \in spec.users, Must(<<"user_ops">>))
Users == IF spec.adminFirst THEN AdminUser \o OpsUser ELSE OpsUser \o AdminUser

ConfigureIlo_RemovesFirst ==
    If(spec.network, Must(<<"network">>))
    \o If(spec.remove /\ spec.users # {}, Must(<<"remove_admin">>)) \o Users
    \o If(spec.services, Must(<<"services">>))

ConfigureIlo ==
    If(spec.network, Must(<<"network">>)) \o Users
    \o If(spec.remove /\ spec.users # {}, Must(<<"remove_admin">>))
    \o If(spec.services, Must(<<"services">>))

ProvisionServer ==
    Must(<<"connect">>) \o If(spec.firmware, UpdateIloFirmware) \o If(spec.bios, ConfigureBios)
    \o If(spec.raid # "none", ConfigureRaid) \o If(spec.spp, InstallSpp) \o If(spec.os, InstallOs)
    \o ConfigureIlo

(* The functions of ilo.py and installer.py look at the results of their   *)
(* waits, but not at those of the second mount and of the ejection.        *)
FlashFirmware == Must(<<"flash", "await_task">>) \o May(<<"await_ilo">>)

SetBios == Must(<<"read_bios", "patch_bios", "reset", "await_post">>)

CreateRaid ==
    Must(<<"controllers">>) \o If(spec.raid = "clear", Must(<<"clear_drives">>))
    \o Must(<<"create_drive", "reset", "await_post">>)

Install ==
    Must(<<"mount_os">>) \o If(spec.kickstart, May(<<"mount_ks">>))
    \o Bare(<<"one_time_boot", "reset">>) \o Must(<<"await_install">>) \o May(<<"eject">>)

(* The clock's sections are one request each; its users come last, and     *)
(* what goes wrong with them is only logged.                               *)
UpdateClock == Must(<<"upload", "flash", "await_ilo">>)
ConfigureClockNetwork == Must(<<"network">>)
ConfigureNtpReferences == Must(<<"references">>)
ConfigureNtpService == Must(<<"ntp_service">>)
ConfigureSystem == Must(<<"system">>)
ConfigureClockUsers == May([i \in DOMAIN Users |-> Users[i].op])

ProvisionClock ==
    Must(<<"connect">>) \o May(<<"info">>) \o If(spec.firmware, UpdateClock)
    \o If(spec.network, ConfigureClockNetwork)
    \o If(spec.services, ConfigureNtpReferences \o ConfigureNtpService \o ConfigureSystem)
    \o ConfigureClockUsers

Plan ==
    CASE spec.kind = "hpe" -> ProvisionServer
      [] spec.kind = "ntp" -> ProvisionClock
      [] spec.kind = "flash" -> FlashFirmware
      [] spec.kind = "bios" -> SetBios
      [] spec.kind = "raid" -> CreateRaid
      [] spec.kind = "install" -> Install
-----------------------------------------------------------------------------
(* The box's answers *)

Waits == {"await_task", "await_ilo", "await_post", "await_install"}

(* Every request carries the name and the password that the call began     *)
(* with.  Media, boot and reset need a login; the rest needs the right to  *)
(* configure.                                                              *)
ConfigOps == {"flash", "patch_bios", "clear_drives", "create_drive", "network", "user_ops", "user_admin",
              "remove_admin", "services", "references", "ntp_service", "system"}

Authorised(op) ==
    /\ box.secrets[login] = secret
    /\ box.accounts[login] = "config" \/ (box.accounts[login] = "login" /\ op \notin ConfigOps)
Answers(op) == box.bmc = "up" /\ ~box.moved /\ Authorised(op)

Role == IF spec.priv \/ spec.kind = "ntp" THEN "config" ELSE "login"

Eject_FirstOnly(b) ==
    IF "os" \in b.media THEN [b EXCEPT !.media = @ \ {"os"}] ELSE [b EXCEPT !.media = {}]

(* _unmount_virtual_media empties whatever slot is inserted. *)
Eject(b) == [b EXCEPT !.media = {}]

(* A reset interrupts whatever runs; a graceful one that is refused for    *)
(* want of a running system is forced.                                     *)
Reset(b) == [b EXCEPT !.run = "post"]

Written(b, section) == [b EXCEPT !.sections = @ \cup {section}]

Flash(b) == [Written(b, "firmware") EXCEPT !.bmc = "restarting"]

ClearDrives(b) == [b EXCEPT !.drives = {}, !.installed = FALSE]

(* The controller refuses drives that are in use. *)
CreateDrive(b) == IF b.drives # {} THEN {} ELSE {[b EXCEPT !.drives = {"data"}]}

(* The first slot takes the medium to boot from, in place of another one. *)
Mount(b, iso) == [b EXCEPT !.media = (@ \ {"spp", "os"}) \cup {iso}, !.once = TRUE]
MountKickstart(b) == [b EXCEPT !.media = @ \cup {"ks"}]
SetOneTimeBoot(b) == [b EXCEPT !.once = TRUE]

(* The box may take its new address at once. *)
SetNetwork(b) == {[Written(b, "network") EXCEPT !.moved = m] : m \in BOOLEAN}

(* The rights and the password: also those of the account in use.          *)
SetUser(b, n) == [b EXCEPT !.accounts[n] = Role, !.secrets[n] = spec.secret]
RemoveDefaultAdmin(b) == [b EXCEPT !.accounts["admin"] = "none"]

(* The box after a request; none if it answers with an error. *)
Effect(op, b) ==
    CASE op = "flash"         -> {Flash(b)}
      [] op = "patch_bios"    -> {[b EXCEPT !.pending = TRUE]}
      [] op = "clear_drives"  -> {ClearDrives(b)}
      [] op = "create_drive"  -> CreateDrive(b)
      [] op = "mount_spp"     -> {Mount(b, "spp")}
      [] op = "mount_os"      -> {Mount(b, "os")}
      [] op = "mount_ks"      -> {MountKickstart(b)}
      [] op = "one_time_boot" -> {SetOneTimeBoot(b)}
      [] op = "reset"         -> {Reset(b)}
      [] op = "eject"         -> {Eject(b)}
      [] op = "network"       -> SetNetwork(b)
      [] op = "user_ops"      -> {SetUser(b, "ops")}
      [] op = "user_admin"    -> {SetUser(b, "admin")}
      [] op = "remove_admin"  -> {RemoveDefaultAdmin(b)}
      [] op \in {"services", "references", "ntp_service", "system"} -> {Written(b, op)}
      [] OTHER                -> {b}
-----------------------------------------------------------------------------
(* The caller *)

Op == plan[1].op
Fault == faults < MaxFaults /\ faults' = faults + 1

(* The operator calls, with one of the passwords known; a call that does   *)
(* not end is killed before.                                               *)
Call ==
    /\ plan = <<>> \/ hung
    /\ result # "true" /\ calls < MaxCalls
    /\ login' \in Names /\ secret' \in {"old", spec.secret} /\ hung' = FALSE
    /\ calls' = calls + 1 /\ faults' = 0 /\ rejected' = FALSE
    /\ plan' = Plan
    /\ device_state' = "discovered" /\ result' = "none"
    /\ UNCHANGED <<spec, box>>

(* The functions of ilo.py do not touch device.state.                      *)
Return(ok) ==
    /\ result' = IF ok THEN "true" ELSE "false"
    /\ device_state' = IF spec.kind \in {"bios", "raid", "flash"} THEN device_state
                       ELSE IF ~ok THEN "failed"
                       ELSE IF spec.kind = "install" THEN "installed" ELSE "provisioned"
    /\ plan' = <<>>

Raise == result' = "raised" /\ plan' = <<>> /\ UNCHANGED device_state

(* BIOS settings that are in force are not patched, and need no reset. *)
Rest == IF Op = "read_bios" /\ box.bios THEN SubSeq(plan, 5, Len(plan)) ELSE Tail(plan)

Continue == IF Rest = <<>> THEN Return(TRUE) ELSE plan' = Rest /\ UNCHANGED <<device_state, result>>

Failed ==
    \/ plan[1].on = "ignored" /\ Continue
    \/ plan[1].on = "escapes" /\ Raise
    \/ plan[1].on = "fails" /\ Return(FALSE)

Running == plan # <<>> /\ ~hung

Request ==
    /\ Running /\ Op \notin Waits /\ Answers(Op)
    /\ IF Effect(Op, box) = {} THEN Failed /\ UNCHANGED box ELSE box' \in Effect(Op, box) /\ Continue
    /\ rejected' = (rejected \/ (Op = "create_drive" /\ box.drives # {}))
    /\ UNCHANGED <<spec, login, secret, hung, calls, faults>>

(* A login that is refused, a missing privilege, a wrong address.  Meeting *)
(* an iLO that still restarts is a fault, too.                             *)
Shut == box.moved \/ ~Authorised(Op)

RequestRefused ==
    /\ Running /\ Op \notin Waits /\ ~Answers(Op)
    /\ faults' = IF Shut THEN faults ELSE faults + 1
    /\ Failed
    /\ UNCHANGED <<spec, box, login, secret, hung, calls, rejected>>

(* The request or its answer is lost; for the clock's users only an HTTP   *)
(* error is ignored, a lost connection is not.                             *)
RequestLost ==
    /\ Running /\ Op \notin Waits /\ Answers(Op) /\ Fault
    /\ box' \in Effect(Op, box) \cup {box}
    /\ Failed \/ (spec.kind = "ntp" /\ Op \in {"user_ops", "user_admin"} /\ Return(FALSE))
    /\ UNCHANGED <<spec, login, secret, hung, calls, rejected>>

(* RedfishClient._request sends a request again that it got no answer to,  *)
(* although the first one may have been carried out.                       *)
RequestRepeated ==
    /\ Running /\ Op \notin Waits /\ Answers(Op) /\ Fault
    /\ spec.kind \notin {"hpe", "ntp"}
    /\ box' \in Effect(Op, box) \cup {box}
    /\ UNCHANGED <<spec, login, secret, hung, plan, device_state, result, calls, rejected>>

(* A box that takes a request, or a poll, and stays silent: nothing but    *)
(* the status of a clock is asked for with a timeout.                      *)
HasTimeout == spec.kind = "ntp" /\ Op \in {"connect", "await_ilo"}

RequestHangs ==
    /\ Running /\ ~HasTimeout /\ Answers(Op) /\ Fault
    /\ box' \in Effect(Op, box) \cup {box}
    /\ hung' = TRUE
    /\ UNCHANGED <<spec, plan, login, secret, device_state, result, calls, rejected>>

(* POST counts as complete as soon as something else runs, and so does an  *)
(* installation: BootOnNextReset is not the name of what a mount sets.     *)
PostComplete == box.run # "post"
InstallComplete == box.run # "post"

(* The box answers; a task is over when it does, well or not.              *)
Ready ==
    /\ Answers(Op)
    /\ Op = "await_post" => PostComplete
    /\ Op = "await_install" => InstallComplete

TaskFails ==
    /\ Running /\ Op = "await_task" /\ Answers(Op) /\ Fault
    /\ Failed
    /\ UNCHANGED <<spec, box, login, secret, hung, calls, rejected>>

WaitEnds ==
    /\ Running /\ Op \in Waits /\ Ready
    /\ Continue
    /\ UNCHANGED <<spec, box, login, secret, hung, calls, faults, rejected>>

WaitTimesOut_Never == FALSE /\ UNCHANGED vars

(* The time is up; a box that takes too long counts as a fault. *)
WaitTimesOut ==
    /\ Running /\ Op \in Waits /\ ~Ready
    /\ faults' = IF Shut THEN faults ELSE faults + 1
    /\ Failed
    /\ UNCHANGED <<spec, box, login, secret, hung, calls, rejected>>
-----------------------------------------------------------------------------
(* The box, on its own *)

BmcReturns ==
    /\ box.bmc = "restarting"
    /\ box' = [box EXCEPT !.bmc = "up"]
    /\ UNCHANGED <<spec, plan, login, secret, hung, device_state, result, calls, faults, rejected>>

(* Pending BIOS settings take effect; the boot device is chosen. *)
PostEnds ==
    /\ box.run = "post"
    /\ box' = [box EXCEPT
           !.bios = @ \/ box.pending, !.pending = FALSE, !.once = FALSE,
           !.run = IF box.once /\ "os" \in box.media THEN "installer"
                   ELSE IF box.once /\ "spp" \in box.media THEN "spp"
                   ELSE IF box.installed THEN "os" ELSE "idle"]
    /\ UNCHANGED <<spec, plan, login, secret, hung, device_state, result, calls, faults, rejected>>

InstallerEnds ==
    /\ \/ box.run = "installer" /\ "os" \in box.media /\ box.drives # {}
       \/ box.run = "spp" /\ "spp" \in box.media
    /\ box' = [box EXCEPT !.run = "post", !.installed = @ \/ box.run = "installer",
                          !.sections = IF box.run = "spp" THEN @ \cup {"spp"} ELSE @]
    /\ UNCHANGED <<spec, plan, login, secret, hung, device_state, result, calls, faults, rejected>>
-----------------------------------------------------------------------------
Caller == Request \/ RequestRefused \/ RequestLost \/ RequestRepeated \/ RequestHangs
          \/ TaskFails \/ WaitEnds \/ WaitTimesOut
BoxMoves == BmcReturns \/ PostEnds \/ InstallerEnds

Next == Call \/ Caller \/ BoxMoves

Spec == Init /\ [][Next]_vars
FairSpec == Spec /\ WF_vars(Caller)
-----------------------------------------------------------------------------
(* However a call is cut off, and whoever logged in, the box keeps an      *)
(* account that can configure it, as long as the entry's own users include *)
(* one besides the default account and give it that right.                 *)
Provided == spec.users = {} \/ (spec.users = {"ops"} /\ Role = "config")

AccessNeverLost == Provided => \E n \in Names : box.accounts[n] = "config"

AsGiven(n) == box.accounts[n] = Role /\ box.secrets[n] = spec.secret

(* PROVISIONED is what it says, of everything the code controls: BIOS      *)
(* settings in force or due at the running reset, the logical drives of    *)
(* this entry and no others, no medium left that the next reset could boot *)
(* from, the accounts, the address and the services as given.  Whether an  *)
(* installer finished is not among it, nor are the users of a clock.       *)
ProvisionedAsSpecified ==
    /\ result = "true" /\ spec.kind = "hpe" =>
        /\ spec.bios => box.bios \/ (box.pending /\ box.run = "post")
        /\ spec.raid # "none" => box.drives = {"data"}
        /\ spec.spp \/ spec.os => box.media = {}
        /\ \A n \in spec.users : AsGiven(n) \/ (n = "admin" /\ spec.remove)
        /\ spec.remove /\ spec.users # {} => box.accounts["admin"] = "none"
        /\ spec.services => "services" \in box.sections
        /\ spec.network => "network" \in box.sections
    /\ result = "true" /\ spec.kind = "ntp" =>
        /\ spec.services => {"references", "ntp_service", "system"} \subseteq box.sections
        /\ spec.network => "network" \in box.sections

(* A call without a fault succeeds, whatever earlier calls left behind:    *)
(* half of a RAID, a mounted medium, an account already made, settings     *)
(* pending.  It can fail for four reasons only: the address has moved, by  *)
(* this call or an earlier one; the account it logged in with is gone or   *)
(* lacks rights; that account has another password than the one it logged  *)
(* in with, which the call itself may have given it; or logical drives     *)
(* exist that it was not told to clear.                                    *)
RetrySucceeds ==
    result \in {"false", "raised"} /\ faults = 0 =>
        \/ box.moved
        \/ box.accounts[login] # "config"
        \/ box.secrets[login] # secret
        \/ rejected /\ spec.raid = "keep"

(* Every call returns, also from a box that never comes back, except from  *)
(* one that takes a request and does not answer it.                        *)
CallReturns == [](plan # <<>> => <>(plan = <<>> \/ hung))
=============================================================================
