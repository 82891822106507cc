----------------------------- MODULE MCRollback -----------------------------
(* A core switch, an access switch behind it, a server and an NTP clock.   *)
EXTENDS Rollback, TLC

CONSTANTS core, access, server, clock

MCNetwork   == {core, access}
MCServer    == {server}
MCAppliance == {clock}
MCDepth     == core :> 1 @@ access :> 2
=============================================================================
