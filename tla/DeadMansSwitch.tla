--------------------------- MODULE DeadMansSwitch ---------------------------
(***************************************************************************)
(* NetworkConfigurator.configure_device (configurator/network.py) on one   *)
(* device: a reload timer is armed before the configuration is pushed, and *)
(* cancelled once the device has been validated.  The device reloads when  *)
(* the timer fires, the SSH session may drop and the laptop may lose power *)
(* between any two commands, and the deployment may call again later.      *)
(***************************************************************************)
EXTENDS Naturals

CONSTANTS
    MaxCalls,    \* bound: calls of configure_device
    MaxDrops,    \* bound: SSH sessions lost for no reason of the device
    MaxCrashes   \* bound: power failures of the laptop

ASSUME SwitchAssumption == MaxCalls \in Nat /\ MaxDrops \in Nat /\ MaxCrashes \in Nat

VARIABLES
    command,   \* the command that configure_device is about to run, or "idle"
    returned,  \* "true" or "false" after a call, else "none"
    session,   \* the SSH session is alive
    running, startup,  \* the two configurations of the device: "old"; "good",
                       \* the validated one; "bad", one the validation rejects;
                       \* "lockout", one that cuts the management access
    timer,     \* a reload is scheduled on the device
    up,        \* the device is not reloading
    calls, drops, crashes

caller == <<command, returned>>
device == <<running, startup, timer, up>>
budget == <<calls, drops, crashes>>
switch_vars == <<caller, session, device, budget>>

Commands == {"connect", "reload in", "confirm", "configure", "validate",
             "reload cancel", "write memory", "wait"}

Unvalidated == {"bad", "lockout"}

SwitchInit ==
    /\ command = "idle" /\ returned = "none" /\ session = FALSE
    /\ running = "old" /\ startup = "old" /\ timer = FALSE /\ up = TRUE
    /\ calls = 0 /\ drops = 0 /\ crashes = 0
-----------------------------------------------------------------------------
(* configure_device *)

Call ==
    /\ command = "idle" /\ calls < MaxCalls
    /\ calls' = calls + 1
    /\ command' = "connect" /\ returned' = "none"
    /\ UNCHANGED <<session, device, drops, crashes>>

Return(r) == command' = "idle" /\ returned' = r /\ session' = FALSE

(* The template renders to nothing, or the connection is refused. *)
NotConnected ==
    /\ command = "connect" /\ Return("false")
    /\ UNCHANGED <<device, budget>>

Connect ==
    /\ command = "connect" /\ up /\ running # "lockout"
    /\ command' = "reload in" /\ session' = TRUE
    /\ UNCHANGED <<returned, device, budget>>

(* send_command_timing reads until the device is silent: on a dead session *)
(* it may raise, but it may as well go on without the device hearing it.   *)
ReloadIn ==
    /\ command = "reload in" /\ command' = "confirm"
    /\ UNCHANGED <<returned, session, device, budget>>

(* Definitions named X_Y are X with the fault Y, to check that the          *)
(* properties notice it.                                                    *)
ConfirmReload_NotSent ==
    /\ command = "confirm" /\ command' = "configure"
    /\ UNCHANGED <<returned, session, device, budget>>

ConfirmReload ==
    /\ command = "confirm" /\ command' = "configure"
    /\ timer' = (timer \/ session)
    /\ UNCHANGED <<returned, session, running, startup, up, budget>>

(* The new configuration replaces the running one; it may cut the session. *)
ApplyConfig ==
    /\ command = "configure" /\ session
    /\ running' \in {"good", "bad", "lockout"}
    /\ session' = (running' # "lockout")
    /\ command' = "validate"
    /\ UNCHANGED <<returned, startup, timer, up, budget>>

(* The session ends while the lines are sent: some of them are in force. *)
ApplyHalf ==
    /\ command = "configure" /\ session /\ drops < MaxDrops
    /\ drops' = drops + 1
    /\ running' \in Unvalidated /\ Return("false")
    /\ UNCHANGED <<startup, timer, up, calls, crashes>>

(* "bad" is what _validate_device rejects for the role of the device. *)
Validate ==
    /\ command = "validate" /\ session
    /\ IF running = "good" THEN command' = "reload cancel" /\ UNCHANGED session
                           ELSE command' = "wait" /\ session' = FALSE
    /\ UNCHANGED <<returned, device, budget>>

CancelReload_Forgotten ==
    /\ command = "reload cancel" /\ command' = "write memory"
    /\ UNCHANGED <<returned, session, device, budget>>

CancelReload ==
    /\ command = "reload cancel" /\ command' = "write memory"
    /\ timer' = (timer /\ ~session)
    /\ UNCHANGED <<returned, session, running, startup, up, budget>>

WriteMem ==
    /\ command = "write memory" /\ session
    /\ startup' = running
    /\ Return("true")
    /\ UNCHANGED <<running, timer, up, budget>>

(* A command on a dead session raises, and the call returns False. *)
CommandRaises ==
    /\ command \notin {"idle", "connect", "wait"} /\ ~session
    /\ Return("false")
    /\ UNCHANGED <<device, budget>>

(* The first poll that connects ends the wait, even if the device has not  *)
(* reloaded yet; so does the timeout.                                      *)
WaitForReload ==
    /\ command = "wait"
    /\ Return("false")
    /\ UNCHANGED <<device, budget>>
-----------------------------------------------------------------------------
(* The device and the link *)

TimerFires ==
    /\ up /\ timer
    /\ up' = FALSE /\ timer' = FALSE /\ running' = startup /\ session' = FALSE
    /\ UNCHANGED <<caller, startup, budget>>

Boot ==
    /\ ~up /\ up' = TRUE
    /\ UNCHANGED <<caller, session, running, startup, timer, budget>>

SessionDrops ==
    /\ session /\ drops < MaxDrops
    /\ drops' = drops + 1 /\ session' = FALSE
    /\ UNCHANGED <<caller, device, calls, crashes>>

LaptopDies ==
    /\ command # "idle" /\ crashes < MaxCrashes
    /\ crashes' = crashes + 1
    /\ Return("none")
    /\ UNCHANGED <<device, calls, drops>>
-----------------------------------------------------------------------------
ConfigureDevice ==
    \/ NotConnected \/ Connect
    \/ ReloadIn \/ ConfirmReload
    \/ ApplyConfig \/ ApplyHalf
    \/ Validate \/ CancelReload \/ WriteMem
    \/ CommandRaises \/ WaitForReload

SwitchNext ==
    \/ Call \/ ConfigureDevice
    \/ TimerFires \/ Boot
    \/ SessionDrops \/ LaptopDies

SwitchSpec == SwitchInit /\ [][SwitchNext]_switch_vars

(* Commands return or time out, and the device's clock runs. *)
FairSwitchSpec ==
    SwitchSpec /\ WF_switch_vars(ConfigureDevice) /\ WF_switch_vars(TimerFires) /\ WF_switch_vars(Boot)
-----------------------------------------------------------------------------
SwitchTypeOK ==
    /\ command \in Commands \cup {"idle"}
    /\ returned \in {"none", "true", "false"}
    /\ session \in BOOLEAN /\ timer \in BOOLEAN /\ up \in BOOLEAN
    /\ running \in {"old", "good"} \cup Unvalidated
    /\ startup \in {"old", "good"} \cup Unvalidated
    /\ calls \in 0..MaxCalls /\ drops \in 0..MaxDrops /\ crashes \in 0..MaxCrashes

(* A device reported as configured holds the validated configuration in    *)
(* both places and is not about to reload, not even by a timer that an     *)
(* earlier call, or a laptop that lost power, left behind.                 *)
SuccessIsDurable ==
    returned = "true" => running = "good" /\ startup = "good" /\ ~timer /\ up

(* A device never runs an unvalidated configuration without a reload that  *)
(* will undo it, whatever became of the session and of the laptop.         *)
UnvalidatedRunsArmed == up /\ running \in Unvalidated => timer

(* Nothing that was not validated is ever what the device boots with.      *)
OnlyValidatedIsSaved == startup \notin Unvalidated

(* A device that is locked out or half configured comes back by itself.    *)
DeviceRecovers == running \in Unvalidated ~> up /\ running \notin Unvalidated
=============================================================================
