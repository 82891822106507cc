---------------------------- MODULE MCDeployment ----------------------------
(* A core switch, an access switch behind it, a server and an NTP clock.   *)
EXTENDS Deployment, TLC

CONSTANTS core, access, server, clock

MCNetwork   == {core, access}
MCServer    == {server}
MCAppliance == {clock}
MCFirmware  == {access}
MCDepth     == core :> 1 @@ access :> 2
MCReachable == {core, access}
=============================================================================
