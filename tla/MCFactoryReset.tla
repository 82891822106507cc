--------------------------- MODULE MCFactoryReset ---------------------------
(* A core switch with a firewall, a server and a clock behind it. *)
EXTENDS FactoryReset, TLC

CONSTANTS core, fw, srv, clk

MCDevices == {core, fw, srv, clk}
MCKind == core :> "switch" @@ fw :> "asa" @@ srv :> "server" @@ clk :> "clock"
MCPath == [d \in MCDevices |-> IF d = core THEN {} ELSE {core}]
MCDiscoveries == {MCDevices, {core, srv}, {fw, clk}}
=============================================================================
