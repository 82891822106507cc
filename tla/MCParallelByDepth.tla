------------------------- MODULE MCParallelByDepth -------------------------
(* Three access switches behind a distribution switch behind a core        *)
(* switch, and a device that the topology graph does not know.             *)
EXTENDS ParallelByDepth, TLC

CONSTANTS core, dist, acc1, acc2, acc3, unknown

MCDevice == {core, dist, acc1, acc2, acc3, unknown}
MCDepth  == core :> 1 @@ dist :> 2 @@ acc1 :> 3 @@ acc2 :> 3 @@ acc3 :> 3
            @@ unknown :> 0
MCPath   == core :> {} @@ dist :> {core} @@ unknown :> {}
            @@ [d \in {acc1, acc2, acc3} |-> {dist, core}]
=============================================================================
